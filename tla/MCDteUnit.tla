----------------------------- MODULE MCDteUnit -----------------------------
(* DteUnit on small instances: the legacy engine (one bus) and the V4      *)
(* engine (four ports), and a V4 engine under a steady stream of clients.  *)
EXTENDS DteUnit, TLC

CONSTANTS x1, x2, x3, x4, x5

\* Contexts are interchangeable names: sound for the safety properties.
Symmetry == Permutations(Xfers)

LegacyDirs == {"SPM_TO_REMOTE", "REMOTE_TO_SPM"}
V4Dirs == {"SPM_TO_REMOTE", "SPM_TO_SPM", "DRAM_TO_SPM"}

UnitWidth == [p \in Ports |-> 1]

\* The write port is half as wide as the others: the ports of a compound
\* transfer finish at different times.
SlowWrite == [p \in Ports |-> IF p = "SPM_WRITE" THEN 1 ELSE 2]

SendOnly == {"SPM_TO_REMOTE"}
-----------------------------------------------------------------------------
(* Clients that keep one compound copy and two streams of single-port      *)
(* transfers going, and never cancel.                                      *)

StreamDir == x1 :> "SPM_TO_SPM" @@ x2 :> "SPM_TO_REMOTE" @@
             x3 :> "SPM_TO_REMOTE" @@ x4 :> "REMOTE_TO_SPM" @@
             x5 :> "REMOTE_TO_SPM"

StreamClient ==
  \E x \in Xfers : \/ \E b \in Payloads : Issue(x, b, StreamDir[x])
                   \/ Release(x)

StreamNext == StreamClient \/ Scheduler \/ Tick

StreamSpec == Init /\ [][StreamNext]_vars /\ Fairness
=============================================================================
