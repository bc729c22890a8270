----------------------------- MODULE MCDteAsync -----------------------------
(* DteAsync on small instances: aggregation over the single-bus engine,    *)
(* whose credits never run out; plain tokens over a V4 engine, whose       *)
(* credits do; and both at once.                                           *)
EXTENDS DteAsync

CONSTANTS t1, t2, t3, t4, x1, x2, x3, x4, x5

TokenSymmetry == Permutations(Tokens)

Send(a, n, r) ==
  [dir |-> "SPM_TO_REMOTE", spm |-> a, size |-> n, peer |-> 1, rem |-> r]
Recv(a, n, r) ==
  [dir |-> "REMOTE_TO_SPM", spm |-> a, size |-> n, peer |-> 1, rem |-> r]
Copy(a, n, r) ==
  [dir |-> "SPM_TO_SPM", spm |-> a, size |-> n, peer |-> 1, rem |-> r]

\* Two contiguous sends (a group), one that continues neither, a receive that
\* overwrites what the first one reads, and one larger than a group.
AggregatedDescs == {Send(0, 1, 0), Send(1, 1, 1), Recv(0, 1, 4), Send(4, 3, 4)}

\* A group of two, and a receive that has to wait for it.
LiveDescs == {Send(0, 1, 0), Send(1, 1, 1), Recv(0, 1, 4)}

\* Two contiguous sends.
TwoSends == {Send(0, 1, 0), Send(1, 1, 1)}

\* Reads, writes and a copy over three cells.
PlainDescs == {Send(0, 2, 0), Recv(1, 2, 0), Copy(0, 1, 2)}
-----------------------------------------------------------------------------
Mode(a, n, D) == [aggregation |-> a, capacity |-> n, descs |-> D]

SafeModes == {Mode(TRUE, 5, AggregatedDescs), Mode(FALSE, 3, PlainDescs)}
LiveModes == {Mode(TRUE, 4, LiveDescs)}
BothModes == {Mode(TRUE, 3, TwoSends)}
=============================================================================
