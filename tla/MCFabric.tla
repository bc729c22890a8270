------------------------------ MODULE MCFabric ------------------------------
(***************************************************************************)
(* Three dies: two links of one group lead from A to B, one from B to C,   *)
(* one back from each.  The third die has two tiles, C and D; the HBM      *)
(* channel is at C.                                                        *)
(***************************************************************************)
EXTENDS Fabric

MCLinks == {"ab1", "ab2", "bc", "ba", "cb"}
MCEdges == MCLinks \cup {"cd", "dc"}
MCGroups == {"ab"}
MCGroupOf == [l \in MCLinks |-> IF l \in {"ab1", "ab2"} THEN "ab" ELSE None]
MCLinkOrder == <<"ab1", "ab2", "ba", "bc", "cb">>

MCRouters == {"A", "B", "C", "D"}
MCSource == [e \in MCEdges |-> CASE e \in {"ab1", "ab2"} -> "A"
                                 [] e \in {"ba", "bc"} -> "B"
                                 [] e \in {"cb", "cd"} -> "C"
                                 [] e = "dc" -> "D"]
MCTarget == [e \in MCEdges |-> CASE e = "ba" -> "A"
                                 [] e \in {"ab1", "ab2", "cb"} -> "B"
                                 [] e \in {"bc", "dc"} -> "C"
                                 [] e = "cd" -> "D"]
MCInOrder == [r \in MCRouters |->
                CASE r = "A" -> <<None, "ba", None, None, "core">>
                  [] r = "B" -> <<"ab1", "cb", "ab2", None, "core">>
                  [] r = "C" -> <<"bc", "dc", None, None, "core">>
                  [] r = "D" -> <<"cd", None, None, None, "core">>]
MCNextHop == [r \in MCRouters, d \in MCRouters, s \in 0..3 |->
                CASE r = "A" -> IF s % 2 = 0 THEN "ab1" ELSE "ab2"
                  [] r = "B" -> IF d = "A" THEN "ba" ELSE "bc"
                  [] r = "C" -> IF d = "D" THEN "cd" ELSE "cb"
                  [] r = "D" -> "dc"]

\* A striped transfer of four packets from A to D, one of two packets from B to D
\* and one of three to C, and one of two packets from C to D.
Flow(s, d, t, i) == [src |-> s, dst |-> d, tag |-> t, sub |-> i]
a0 == Flow("A", "D", 1, 0)
a1 == Flow("A", "D", 1, 1)
b0 == Flow("B", "D", 2, 0)
b1 == Flow("B", "C", 4, 0)
c0 == Flow("C", "D", 3, 0)
MCFlows == {a0, a1, b0, b1, c0}
MCPackets == [k \in MCFlows |-> IF k = b1 THEN 3 ELSE 2]
MCPath == [k \in MCFlows |-> CASE k = a0 -> <<"ab1", "bc">>
                               [] k = a1 -> <<"ab2", "bc">>
                               [] k \in {b0, b1} -> <<"bc">>
                               [] k = c0 -> <<>>]

Prog(a, b, c, d) == [r \in MCRouters |-> CASE r = "A" -> a
                                           [] r = "B" -> b
                                           [] r = "C" -> c
                                           [] r = "D" -> d]
\* A flow and memory flits meet at one link; a striped transfer is repeated at once;
\* flows of two tags meet at one link; two transfers do not fit into one stage;
\* three cores access the memory together.
MCPrograms ==
  {Prog(<<{a0, a1}>>, <<MemAccess, {b0}>>, <<>>, <<{a0, a1}, {b0}>>),
   Prog(<<{a0, a1}, {a0, a1}>>, <<>>, <<>>, <<{a0, a1}, {a0, a1}>>),
   Prog(<<{a0}, {a0}>>, <<{b1}>>, <<{b1}>>, <<{a0}, {a0}>>),
   Prog(<<{a0, a1}>>, <<{b1}>>, <<{b1}, {c0}>>, <<{a0, a1}, {c0}>>),
   Prog(<<MemAccess>>, <<MemAccess>>, <<MemAccess>>, <<>>)}

Once == [num |-> 1, den |-> 1]
Quarter == [num |-> 1, den |-> 4]
MCPortRate == [l \in MCLinks |-> Once]
MCLinkRate == [l \in MCLinks |-> IF l = "bc" THEN Quarter ELSE Once]

\* B has sent three packets behind a flow that comes over a slow link, and goes
\* on to access the memory.
BehindData == {Prog(<<{a0, a1}>>, <<{b1}, MemAccess>>, <<{b1}>>, <<{a0, a1}>>)}
SlowRate == [l \in MCLinks |-> IF l = "ab1" THEN Quarter ELSE Once]
=============================================================================
