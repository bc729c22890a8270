---------------------------- MODULE FabricProofs ----------------------------
(***************************************************************************)
(* Theorems about Fabric, for every topology, routing function, program,   *)
(* depth and rate: types and bounds, balanced books, conserved credits.    *)
(***************************************************************************)
EXTENDS LinkProofs

CoreFaults ==
  {"commit mismatch", "incompatible tag", "duplicate DATA tail", "invalid ACK subflow",
   "duplicate ACK subflow", "response has no matching waiter"}

Payloads == {f \in DataFlits : ~IsMem(f)}
Subflows == {k.sub : k \in Flows}

\* The primitives, message buffers and signals of a core.
CoreRecords ==
  [prog : Seq(SUBSET Flows),
   phase : Phases,
   next : Nat,
   acks : SUBSET Subflows,
   REQUEST : Seq(Flows),
   ACK : Seq(Flows),
   DATA : Seq(Payloads),
   answers : Seq(Flows),
   ready : BOOLEAN,
   count : Nat,
   ends : SUBSET Flows,
   busy : BOOLEAN,
   cbusy : BOOLEAN,
   recheck : BOOLEAN,
   response : Nat,
   tx : DataFlits \cup {None},
   ctx : CtrlFlits \cup {None},
   faults : SUBSET CoreFaults]

\* The subflows of every transfer that the program sends are numbered.
Numbered(c, prog) ==
  \A i \in 1..Len(prog) :
    IsSent(c, prog[i]) => {k.sub : k \in prog[i]} = 0..Cardinality(prog[i]) - 1

\* A core that sends has a transfer to send, one that waits has something to wait for.
Serves(c, s) ==
  /\ Numbered(c, s.prog)
  /\ s.phase \in {"req", "ack", "data"} => s.prog # <<>> /\ IsSent(c, Head(s.prog))
  /\ s.phase \in {"mem", "recv"} => s.prog # <<>>
CoreOK(c, s) == s \in CoreRecords /\ Serves(c, s)

\* A core that does not signal that it is busy has room.
Signals(s) ==
  /\ ~s.busy => Len(s.DATA) < BufDepth
  /\ ~s.cbusy => Len(s.REQUEST) < BufDepth /\ Len(s.ACK) < BufDepth

\* Packets on a wire.
Weight(f) == IF f = None THEN 0 ELSE 1

\* With what is on its way, data and ctrl, the buffers hold one packet more than
\* they should at most: the one that was sent before the signal was seen.
Takes(s, data, ctrl) ==
  /\ Len(s.DATA) + Weight(data) <= BufDepth + 1
  /\ Len(s.REQUEST) + Weight(ctrl) <= BufDepth + 1
  /\ Len(s.ACK) + Weight(ctrl) <= BufDepth + 1

\* Nothing is added to the buffers of s, and the signals stay.
Shrinks(s, t) ==
  /\ Len(t.DATA) <= Len(s.DATA)
  /\ Len(t.REQUEST) <= Len(s.REQUEST)
  /\ Len(t.ACK) <= Len(s.ACK)
  /\ t.busy = s.busy /\ t.cbusy = s.cbusy

\* HBMEndpointAgent.
MemoryRecords ==
  [partial : [Routers -> Nat],
   completed : Seq(Routers),
   active : Routers \cup {None},
   served : BOOLEAN]

MemoryOK == memory \in MemoryRecords /\ Len(memory.completed) <= CompletedDepth

\* A router and what it hands to its core.
RouterOK(r, s) ==
  /\ s \in RouterRecords(r)
  /\ s.tx[Center] = None \/ ~IsMem(s.tx[Center])
  /\ s.ctx[Center] = None \/ ~IsMem(s.ctx[Center])

Types ==
  /\ router = [r \in Routers |-> router[r]]
  /\ \A r \in Routers : RouterOK(r, router[r])
  /\ core = [c \in Routers |-> core[c]]
  /\ \A c \in Routers : CoreOK(c, core[c])
  /\ \A l \in Links : /\ LinkOK(link[l])
                      /\ link[l].portTokens \in 0..PortRate[l].den
                      /\ link[l].tokens \in 0..LinkRate[l].den
  /\ MemoryOK
  /\ halted \in BOOLEAN
-----------------------------------------------------------------------------
(* Cores.                                                                  *)

\* The constants of the programs.
LEMMA ProgramConstants ==
  ReqFlits \in Nat \ {0} /\ RspFlits \in Nat \ {0} /\ CompletedDepth \in Nat \ {0}
BY ProgramAssumption

\* A transfer has as many subflows as numbers.
LEMMA SubflowFacts ==
  ASSUME NEW K \in SUBSET Flows, K # {},
         {k.sub : k \in K} = 0..Cardinality(K) - 1
  PROVE  /\ Cardinality(K) \in Nat \ {0}
         /\ \A i \in 0..Cardinality(K) - 1 : Sub(K, i) \in K
<1>1. IsFiniteSet(K)
  BY LedgerAssumption, FS_Subset
<1>2. Cardinality(K) \in Nat /\ Cardinality(K) # 0
  BY <1>1, FS_CardinalityType, FS_EmptySet
<1>3. ASSUME NEW i \in 0..Cardinality(K) - 1
      PROVE  Sub(K, i) \in K
  <2>1. \E k \in K : k.sub = i
    BY <1>3
  <2> QED BY <2>1 DEF Sub
<1> QED BY <1>2, <1>3

\* The first transfer of a program and the rest of it.
LEMMA ProgramFacts ==
  ASSUME NEW c, NEW p \in Seq(SUBSET Flows), Numbered(c, p), p # <<>>
  PROVE  /\ Head(p) \in SUBSET Flows
         /\ IsSent(c, Head(p)) => {k.sub : k \in Head(p)} = 0..Cardinality(Head(p)) - 1
         /\ Tail(p) \in Seq(SUBSET Flows) /\ Numbered(c, Tail(p))
<1>1. Head(p) = p[1] /\ 1 \in 1..Len(p) /\ Tail(p) \in Seq(SUBSET Flows) /\ p[1] \in SUBSET Flows
  OBVIOUS
<1>2. IsSent(c, p[1]) => {k.sub : k \in p[1]} = 0..Cardinality(p[1]) - 1
  BY <1>1 DEF Numbered
<1>3. ASSUME NEW i \in 1..Len(Tail(p)), IsSent(c, Tail(p)[i])
      PROVE  {k.sub : k \in Tail(p)[i]} = 0..Cardinality(Tail(p)[i]) - 1
  <2>1. Tail(p)[i] = p[i+1] /\ i + 1 \in 1..Len(p)
    OBVIOUS
  <2>2. IsSent(c, p[i+1]) => {k.sub : k \in p[i+1]} = 0..Cardinality(p[i+1]) - 1
    BY <2>1 DEF Numbered
  <2> QED BY <1>3, <2>1, <2>2, Zenon
<1> QED BY <1>1, <1>2, <1>3, Zenon DEF Numbered

\* The fields of a core.
LEMMA CoreFields ==
  ASSUME NEW s \in CoreRecords
  PROVE  /\ s.prog \in Seq(SUBSET Flows) /\ s.phase \in Phases /\ s.next \in Nat
         /\ s.acks \in SUBSET Subflows /\ s.response \in Nat /\ s.count \in Nat
         /\ s.REQUEST \in Seq(Flows) /\ s.ACK \in Seq(Flows) /\ s.DATA \in Seq(Payloads)
         /\ s.answers \in Seq(Flows) /\ s.ends \in SUBSET Flows
         /\ s.faults \in SUBSET CoreFaults
         /\ Len(s.REQUEST) \in Nat /\ Len(s.ACK) \in Nat /\ Len(s.DATA) \in Nat
<1>1. s.REQUEST \in Seq(Flows) /\ s.ACK \in Seq(Flows) /\ s.DATA \in Seq(Payloads)
  BY DEF CoreRecords
<1>2. Len(s.REQUEST) \in Nat /\ Len(s.ACK) \in Nat /\ Len(s.DATA) \in Nat
  BY <1>1
<1> QED BY <1>1, <1>2 DEF CoreRecords

\* A wire holds one packet or none.
LEMMA WeightFacts ==
  /\ \A f : Weight(f) \in Nat /\ Weight(f) <= 1
  /\ \A f : f # None => Weight(f) = 1
  /\ Weight(None) = 0
BY DEF Weight

\* A buffer that takes v, while w is sent to it only if it is not full.
LEMMA Kept ==
  ASSUME NEW a \in Nat, NEW b \in Nat, NEW n \in Nat, NEW v \in Nat, NEW w \in Nat,
         v <= 1, w <= 1, b <= a + v,
         a < n \/ (a + v <= n + 1 /\ w = 0)
  PROVE  b + w <= n + 1
OBVIOUS

\* Shrinking twice.
LEMMA ShrinksFurther ==
  ASSUME NEW s \in CoreRecords, NEW t \in CoreRecords, NEW u \in CoreRecords,
         Shrinks(s, t), Shrinks(t, u)
  PROVE  Shrinks(s, u)
<1>1. /\ Len(s.REQUEST) \in Nat /\ Len(s.ACK) \in Nat /\ Len(s.DATA) \in Nat
      /\ Len(t.REQUEST) \in Nat /\ Len(t.ACK) \in Nat /\ Len(t.DATA) \in Nat
      /\ Len(u.REQUEST) \in Nat /\ Len(u.ACK) \in Nat /\ Len(u.DATA) \in Nat
  BY CoreFields
<1> QED BY <1>1 DEF Shrinks

\* Nothing has changed.
LEMMA ShrinksNot ==
  ASSUME NEW s \in CoreRecords
  PROVE  Shrinks(s, s)
<1>1. Len(s.REQUEST) \in Nat /\ Len(s.ACK) \in Nat /\ Len(s.DATA) \in Nat
  BY CoreFields
<1> QED BY <1>1 DEF Shrinks

\* A core of which neither the buffers nor the signals change.
LEMMA SameBuffers ==
  ASSUME NEW s \in CoreRecords, NEW t \in CoreRecords, t.DATA = s.DATA,
         t.REQUEST = s.REQUEST, t.ACK = s.ACK, t.busy = s.busy, t.cbusy = s.cbusy
  PROVE  Shrinks(s, t)
<1>1. Len(s.REQUEST) \in Nat /\ Len(s.ACK) \in Nat /\ Len(s.DATA) \in Nat
  BY CoreFields
<1> QED BY <1>1 DEF Shrinks

\* What shrinks stays within the bounds.
LEMMA ShrinksKeeps ==
  ASSUME NEW s \in CoreRecords, NEW t \in CoreRecords, Shrinks(s, t), Signals(s)
  PROVE  /\ Signals(t)
         /\ \A data, ctrl : Takes(s, data, ctrl) => Takes(t, data, ctrl)
<1>1. /\ Len(s.REQUEST) \in Nat /\ Len(s.ACK) \in Nat /\ Len(s.DATA) \in Nat
      /\ Len(t.REQUEST) \in Nat /\ Len(t.ACK) \in Nat /\ Len(t.DATA) \in Nat
      /\ BufDepth \in Nat
  BY CoreFields, RouterAssumption
<1>2. Signals(t)
  BY <1>1 DEF Shrinks, Signals
<1>3. ASSUME NEW data, NEW ctrl, Takes(s, data, ctrl) PROVE Takes(t, data, ctrl)
  <2>1. Weight(data) \in {0, 1} /\ Weight(ctrl) \in {0, 1}
    BY DEF Weight
  <2> QED BY <1>1, <1>3, <2>1 DEF Shrinks, Takes
<1> QED BY <1>2, <1>3

\* Among() picks some of the elements.
LEMMA AmongFacts ==
  ASSUME NEW A, NEW q \in Seq(A), NEW S
  PROVE  Among(q, S) \in Seq(A) /\ Len(Among(q, S)) <= Len(q)
<1> DEFINE n == Len(q)
           step(g, i) == IF i = 0 THEN <<>>
                         ELSE IF q[i] \in S THEN Append(g[i-1], q[i]) ELSE g[i-1]
           found == CHOOSE g : g = [i \in 0..n |-> step(g, i)]
           F == [x \in Seq(A) \X (1..n) |->
                   IF q[x[2]] \in S THEN Append(x[1], q[x[2]]) ELSE x[1]]
<1>1. n \in Nat /\ \A i \in 1..n : q[i] \in A
  OBVIOUS
<1>2. Among(q, S) = found[n]
  BY DEF Among
<1>3. /\ F \in Steps(n, Seq(A))
      /\ \A g \in Seq(A), i \in 1..n :
           F[<<g, i>>] = IF q[i] \in S THEN Append(g, q[i]) ELSE g
  <2>1. \A x \in Seq(A) \X (1..n) :
          (IF q[x[2]] \in S THEN Append(x[1], q[x[2]]) ELSE x[1]) \in Seq(A)
    <3> SUFFICES ASSUME NEW g \in Seq(A), NEW i \in 1..n PROVE Append(g, q[i]) \in Seq(A)
      OBVIOUS
    <3> QED BY <1>1
  <2> QED BY <2>1 DEF Steps
<1> HIDE DEF n, F
<1>4. PICK g : Iterates(g, n, Seq(A), <<>>, F)
  <2>1. <<>> \in Seq(A)
    OBVIOUS
  <2> QED BY <1>1, <1>3, <2>1, IterationExists
<1>5. /\ g[0] = <<>>
      /\ \A i \in 1..n : /\ i - 1 \in 0..n /\ g[i-1] \in Seq(A)
                         /\ g[i] = IF q[i] \in S THEN Append(g[i-1], q[i]) ELSE g[i-1]
  <2>1. g[0] = <<>> /\ \A i \in 0..n : g[i] \in Seq(A)
    BY <1>4 DEF Iterates
  <2>2. \A i \in 1..n : i - 1 \in 0..n
    BY <1>1
  <2>3. \A i \in 1..n : g[i] = F[<<g[i-1], i>>]
    BY <1>4 DEF Iterates
  <2> QED BY <1>3, <2>1, <2>2, <2>3
<1>6. \A i \in 0..n : g[i] = step(g, i)
  <2> SUFFICES ASSUME NEW i \in 0..n PROVE g[i] = step(g, i)
    OBVIOUS
  <2>1. CASE i = 0
    BY <1>5, <2>1
  <2>2. CASE i # 0
    <3>1. i \in 1..n
      BY <1>1, <2>2
    <3> QED BY <1>5, <2>2, <3>1
  <2> QED BY <2>1, <2>2
<1> HIDE DEF step
<1>7. g = [i \in 0..n |-> step(g, i)]
  BY <1>4, <1>6 DEF Iterates
<1>8. found = [i \in 0..n |-> step(found, i)]
  BY <1>7
<1> HIDE DEF found
<1>9. \A i \in 0..n : found[i] = step(found, i)
  BY <1>8
<1> DEFINE G == {x \in Nat \X Seq(A) : Len(x[2]) <= x[1]}
<1>10. <<0, found[0]>> \in G
  <2> DEFINE z == found[0]
  <2>1. z = <<>>
    BY <1>1, <1>9 DEF step
  <2> HIDE DEF z
  <2>2. z \in Seq(A) /\ Len(z) = 0
    BY <2>1
  <2>3. <<0, z>> \in G
    <3>1. 0 \in Nat /\ 0 <= 0
      OBVIOUS
    <3>2. <<0, z>> \in Nat \X Seq(A)
      BY <2>2, <3>1, Zenon
    <3>3. <<0, z>>[1] = 0 /\ <<0, z>>[2] = z
      OBVIOUS
    <3> QED BY <2>2, <3>1, <3>2, <3>3, Zenon
  <2> QED BY <2>3 DEF z
<1>11. ASSUME NEW i \in 1..n, <<i-1, found[i-1]>> \in G
       PROVE  <<i, found[i]>> \in G
  <2>1. i \in 0..n /\ i # 0 /\ i \in Nat /\ i - 1 \in Nat /\ q[i] \in A
    BY <1>1
  <2>2. found[i-1] \in Seq(A) /\ Len(found[i-1]) <= i - 1 /\ Len(found[i-1]) \in Nat
    BY <1>11
  <2>3. found[i] = IF q[i] \in S THEN Append(found[i-1], q[i]) ELSE found[i-1]
    BY <1>9, <2>1 DEF step
  <2>4. /\ Append(found[i-1], q[i]) \in Seq(A)
        /\ Len(Append(found[i-1], q[i])) = Len(found[i-1]) + 1
    BY <2>1, <2>2
  <2>5. found[i] \in Seq(A) /\ Len(found[i]) <= i
    BY <2>1, <2>2, <2>3, <2>4
  <2> QED BY <2>1, <2>5
<1> HIDE DEF G
<1>12. \A i \in 0..n : <<i, found[i]>> \in G
  BY <1>1, <1>10, <1>11, IterationKeeps
<1>13. <<n, found[n]>> \in G
  BY <1>1, <1>12
<1> QED BY <1>2, <1>13 DEF G, n

\* An activation of req_logic.
LEMMA NoticeFacts ==
  ASSUME NEW c, NEW s, CoreOK(c, s)
  PROVE  CoreOK(c, Notice(s)) /\ Shrinks(s, Notice(s))
<1>1. s \in CoreRecords /\ Serves(c, s)
  BY DEF CoreOK
<1>2. CASE s.answers # <<>> \/ s.phase # "recv"
  <2>1. Notice(s) = s
    BY <1>2 DEF Notice
  <2> QED BY <1>1, <2>1, ShrinksNot DEF CoreOK
<1>3. CASE ~(s.answers # <<>> \/ s.phase # "recv")
  <2> DEFINE T == {k \in Flows : \E j \in Head(s.prog) : j.tag = k.tag}
             a == Among(s.REQUEST, T)
             q == Among(s.REQUEST, Flows \ T)
             t == [s EXCEPT !.answers = a, !.REQUEST = q]
  <2>1. Notice(s) = t
    BY <1>3 DEF Notice
  <2> HIDE DEF T
  <2>2. a \in Seq(Flows) /\ q \in Seq(Flows) /\ Len(q) <= Len(s.REQUEST)
    <3>1. s.REQUEST \in Seq(Flows)
      BY <1>1, CoreFields
    <3> QED BY <3>1, AmongFacts
  <2> HIDE DEF a, q
  <2>3. t \in CoreRecords /\ t.prog = s.prog /\ t.phase = s.phase /\ t.REQUEST = q
        /\ t.DATA = s.DATA /\ t.ACK = s.ACK /\ t.busy = s.busy /\ t.cbusy = s.cbusy
    BY <1>1, <2>2 DEF CoreRecords
  <2> HIDE DEF t
  <2>4. Len(s.REQUEST) \in Nat /\ Len(s.ACK) \in Nat /\ Len(s.DATA) \in Nat
    BY <1>1, CoreFields
  <2> QED BY <1>1, <2>1, <2>2, <2>3, <2>4 DEF CoreOK, Serves, Shrinks
<1> QED BY <1>2, <1>3

\* The flits a core sends.
LEMMA FlitTypes ==
  /\ \A k \in Flows : Request(k) \in CtrlFlits /\ Ack(k) \in CtrlFlits
  /\ \A k \in Flows, n \in Nat : Data(k, n) \in DataFlits
  /\ \A c \in Routers : MemRequest(c) \in DataFlits /\ MemResponse(c) \in CtrlFlits
BY DEF Request, Ack, Data, MemRequest, MemResponse, CtrlFlits, DataFlits

\* req_logic sends an ACK.
LEMMA SendAckFacts ==
  ASSUME NEW c, NEW s, CoreOK(c, s)
  PROVE  CoreOK(c, SendAck(c, s)) /\ Shrinks(s, SendAck(c, s))
<1> DEFINE sends == s.answers # <<>> /\ s.tx = None /\ s.ctx = None /\ router[c].cavail[Center]
<1>1. s \in CoreRecords /\ Serves(c, s)
  BY DEF CoreOK
<1>2. CASE ~sends
  <2>1. SendAck(c, s) = s
    BY <1>2 DEF SendAck
  <2> QED BY <1>1, <2>1, ShrinksNot DEF CoreOK
<1>3. CASE sends
  <2> DEFINE f == Ack(Head(s.answers))
             a == Tail(s.answers)
             t == [s EXCEPT !.ctx = f, !.answers = a]
  <2>1. SendAck(c, s) = t
    BY <1>3 DEF SendAck
  <2>2. f \in CtrlFlits /\ a \in Seq(Flows)
    <3>1. s.answers \in Seq(Flows) /\ s.answers # <<>>
      BY <1>1, <1>3, CoreFields
    <3>2. Head(s.answers) \in Flows /\ Tail(s.answers) \in Seq(Flows)
      BY <3>1, HeadTail
    <3> QED BY <3>2, FlitTypes
  <2> HIDE DEF f, a
  <2>3. t \in CoreRecords /\ t.prog = s.prog /\ t.phase = s.phase /\ t.REQUEST = s.REQUEST
        /\ t.DATA = s.DATA /\ t.ACK = s.ACK /\ t.busy = s.busy /\ t.cbusy = s.cbusy
    BY <1>1, <2>2 DEF CoreRecords
  <2> HIDE DEF t
  <2> QED BY <1>1, <2>1, <2>3, SameBuffers DEF CoreOK, Serves
<1> QED BY <1>2, <1>3

\* recv_logic comes to its next round.
LEMMA NextRoundFacts ==
  ASSUME NEW c, NEW s, CoreOK(c, s)
  PROVE  CoreOK(c, NextRound(s)) /\ Shrinks(s, NextRound(s))
<1>1. s \in CoreRecords /\ Serves(c, s)
  BY DEF CoreOK
<1>2. CASE ~(s.phase = "recv" /\ ~s.ready)
  <2>1. NextRound(s) = s
    BY <1>2 DEF NextRound
  <2> QED BY <1>1, <2>1, ShrinksNot DEF CoreOK
<1>3. CASE s.phase = "recv" /\ ~s.ready
  <2> DEFINE t == [s EXCEPT !.ready = TRUE]
  <2>1. NextRound(s) = Notice(t)
    BY <1>3 DEF NextRound
  <2>2. t \in CoreRecords /\ t.prog = s.prog /\ t.phase = s.phase /\ t.REQUEST = s.REQUEST
        /\ t.DATA = s.DATA /\ t.ACK = s.ACK /\ t.busy = s.busy /\ t.cbusy = s.cbusy
    BY <1>1 DEF CoreRecords
  <2> HIDE DEF t
  <2>3. CoreOK(c, t) /\ Shrinks(s, t)
    BY <1>1, <2>2, SameBuffers DEF CoreOK, Serves
  <2>4. CoreOK(c, Notice(t)) /\ Shrinks(t, Notice(t))
    BY <2>3, NoticeFacts
  <2>5. Notice(t) \in CoreRecords
    BY <2>4 DEF CoreOK
  <2> QED BY <1>1, <2>1, <2>2, <2>3, <2>4, <2>5, ShrinksFurther
<1> QED BY <1>2, <1>3

\* The message buffers of t are those of s with at most what has come in.
Fed(s, t, data, ctrl) ==
  /\ Len(t.DATA) <= Len(s.DATA) + Weight(data)
  /\ Len(t.REQUEST) <= Len(s.REQUEST) + Weight(ctrl)
  /\ Len(t.ACK) <= Len(s.ACK) + Weight(ctrl)

\* poll_ctrl_buffer_i: a buffer that is full is signalled.
LEMMA CtrlReceiveFacts ==
  ASSUME NEW c \in Routers, RouterOK(c, router[c]), NEW s, CoreOK(c, s), Signals(s)
  PROVE  LET t == CtrlReceive(c, s)
         IN  CoreOK(c, t) /\ Signals(t) /\ Fed(s, t, None, router[c].ctx[Center])
<1> DEFINE f == router[c].ctx[Center]
           stored == IF f = None THEN s ELSE [s EXCEPT ![f.type] = Append(@, f.flow)]
           full == Full(stored.REQUEST) \/ Full(stored.ACK)
           polled == IF f = None /\ ~s.recheck THEN s
                     ELSE [stored EXCEPT !.cbusy = full, !.recheck = (f # None)]
<1>1. s \in CoreRecords /\ Serves(c, s) /\ BufDepth \in Nat
  BY RouterAssumption DEF CoreOK
<1>2. /\ s.REQUEST \in Seq(Flows) /\ s.ACK \in Seq(Flows)
      /\ Len(s.REQUEST) \in Nat /\ Len(s.ACK) \in Nat /\ Len(s.DATA) \in Nat
  BY <1>1, CoreFields
<1>3. f \in CtrlFlits \cup {None} /\ (f = None \/ ~IsMem(f))
  BY DEF RouterOK, RouterRecords, OutPorts
<1>4. f # None => f.flow \in Flows /\ f.type \in {"REQUEST", "ACK"}
  BY <1>3 DEF CtrlFlits, IsMem
<1>5. CtrlReceive(c, s) = IF f # None /\ f.type = "REQUEST" THEN Notice(polled) ELSE polled
  BY DEF CtrlReceive
<1> HIDE DEF f
<1>6. /\ stored \in CoreRecords /\ stored.prog = s.prog /\ stored.phase = s.phase
      /\ stored.DATA = s.DATA /\ stored.busy = s.busy
      /\ Len(stored.REQUEST) <= Len(s.REQUEST) + Weight(f)
      /\ Len(stored.ACK) <= Len(s.ACK) + Weight(f)
      /\ f = None => stored = s
  <2>1. CASE f = None
    BY <1>1, <1>2, <2>1 DEF Weight
  <2>2. CASE f # None /\ f.type = "REQUEST"
    <3> DEFINE q == Append(s.REQUEST, f.flow)
    <3>1. stored = [s EXCEPT !.REQUEST = q]
      BY <2>2
    <3>2. q \in Seq(Flows) /\ Len(q) = Len(s.REQUEST) + 1
      BY <1>2, <1>4, <2>2
    <3> HIDE DEF stored, q
    <3>3. /\ stored \in CoreRecords /\ stored.prog = s.prog /\ stored.phase = s.phase
          /\ stored.DATA = s.DATA /\ stored.busy = s.busy
          /\ stored.REQUEST = q /\ stored.ACK = s.ACK
      BY <1>1, <3>1, <3>2 DEF CoreRecords
    <3> QED BY <1>2, <2>2, <3>2, <3>3 DEF Weight
  <2>3. CASE f # None /\ f.type = "ACK"
    <3> DEFINE q == Append(s.ACK, f.flow)
    <3>1. stored = [s EXCEPT !.ACK = q]
      BY <2>3
    <3>2. q \in Seq(Flows) /\ Len(q) = Len(s.ACK) + 1
      BY <1>2, <1>4, <2>3
    <3> HIDE DEF stored, q
    <3>3. /\ stored \in CoreRecords /\ stored.prog = s.prog /\ stored.phase = s.phase
          /\ stored.DATA = s.DATA /\ stored.busy = s.busy
          /\ stored.ACK = q /\ stored.REQUEST = s.REQUEST
      BY <1>1, <3>1, <3>2 DEF CoreRecords
    <3> QED BY <1>2, <2>3, <3>2, <3>3 DEF Weight
  <2> QED BY <1>4, <2>1, <2>2, <2>3
<1>7. full \in BOOLEAN /\ (~full => Len(stored.REQUEST) < BufDepth /\ Len(stored.ACK) < BufDepth)
  <2>1. Len(stored.REQUEST) \in Nat /\ Len(stored.ACK) \in Nat
    BY <1>6, CoreFields
  <2> HIDE DEF stored
  <2> QED BY <1>1, <2>1 DEF Full
<1> HIDE DEF stored, full
<1>8. CoreOK(c, polled) /\ Signals(polled) /\ Fed(s, polled, None, f)
  <2>1. CASE f = None /\ ~s.recheck
    <3>1. polled = s
      BY <2>1
    <3> HIDE DEF polled
    <3> QED BY <1>2, <2>1, <3>1 DEF Fed, Weight
  <2>2. CASE ~(f = None /\ ~s.recheck)
    <3> DEFINE b == f # None
    <3>1. polled = [stored EXCEPT !.cbusy = full, !.recheck = b]
      BY <2>2
    <3>2. b \in BOOLEAN
      OBVIOUS
    <3> HIDE DEF polled, b
    <3>3. /\ polled \in CoreRecords /\ polled.prog = s.prog /\ polled.phase = s.phase
          /\ polled.DATA = s.DATA /\ polled.busy = s.busy /\ polled.cbusy = full
          /\ polled.REQUEST = stored.REQUEST /\ polled.ACK = stored.ACK
      BY <1>6, <1>7, <3>1, <3>2 DEF CoreRecords
    <3>4. CoreOK(c, polled)
      BY <1>1, <3>3 DEF CoreOK, Serves
    <3>5. Signals(polled)
      BY <1>7, <3>3 DEF Signals
    <3>6. Fed(s, polled, None, f)
      <4>1. Weight(None) = 0
        BY WeightFacts
      <4> QED BY <1>2, <1>6, <3>3, <4>1 DEF Fed
    <3> QED BY <3>4, <3>5, <3>6
  <2> QED BY <2>1, <2>2
<1> HIDE DEF polled
<1>9. /\ polled \in CoreRecords /\ CoreOK(c, Notice(polled)) /\ Shrinks(polled, Notice(polled))
      /\ Notice(polled) \in CoreRecords
  BY <1>8, NoticeFacts DEF CoreOK
<1>10. Signals(Notice(polled)) /\ Fed(s, Notice(polled), None, f)
  <2>1. Signals(Notice(polled))
    BY <1>8, <1>9, ShrinksKeeps
  <2>2. /\ Len(polled.REQUEST) \in Nat /\ Len(polled.ACK) \in Nat /\ Len(polled.DATA) \in Nat
        /\ Len(Notice(polled).REQUEST) \in Nat /\ Len(Notice(polled).ACK) \in Nat
        /\ Len(Notice(polled).DATA) \in Nat
    BY <1>9, CoreFields
  <2>3. Fed(s, Notice(polled), None, f)
    <3> DEFINE t == Notice(polled)
               w == Weight(f)
    <3>1. w \in Nat /\ Weight(None) = 0
      BY WeightFacts
    <3>2. /\ Len(polled.DATA) <= Len(s.DATA) + Weight(None)
          /\ Len(polled.REQUEST) <= Len(s.REQUEST) + w
          /\ Len(polled.ACK) <= Len(s.ACK) + w
      BY <1>8 DEF Fed
    <3>3. /\ Len(t.DATA) <= Len(polled.DATA) /\ Len(t.REQUEST) <= Len(polled.REQUEST)
          /\ Len(t.ACK) <= Len(polled.ACK)
      BY <1>9 DEF Shrinks
    <3> HIDE DEF t, w
    <3>4. /\ Len(t.DATA) <= Len(s.DATA) + Weight(None)
          /\ Len(t.REQUEST) <= Len(s.REQUEST) + w
          /\ Len(t.ACK) <= Len(s.ACK) + w
      <4> DEFINE a == Len(s.DATA)
                 b == Len(s.REQUEST)
                 d == Len(s.ACK)
                 pa == Len(polled.DATA)
                 pb == Len(polled.REQUEST)
                 pd == Len(polled.ACK)
                 ta == Len(t.DATA)
                 tb == Len(t.REQUEST)
                 td == Len(t.ACK)
      <4>1. /\ a \in Nat /\ b \in Nat /\ d \in Nat /\ pa \in Nat /\ pb \in Nat /\ pd \in Nat
            /\ ta \in Nat /\ tb \in Nat /\ td \in Nat
        BY <1>2, <2>2 DEF t
      <4>2. ta <= pa /\ tb <= pb /\ td <= pd
        BY <3>3
      <4>3. pa <= a + Weight(None) /\ pb <= b + w /\ pd <= d + w
        BY <3>2
      <4> HIDE DEF a, b, d, pa, pb, pd, ta, tb, td
      <4>4. ta <= a + Weight(None) /\ tb <= b + w /\ td <= d + w
        BY <3>1, <4>1, <4>2, <4>3
      <4> QED BY <4>4 DEF a, b, d, ta, tb, td
    <3> QED BY <3>4 DEF Fed, t, w
  <2> QED BY <2>1, <2>3
<1>11. CtrlReceive(c, s) \in {polled, Notice(polled)}
  BY <1>5
<1> QED BY <1>8, <1>9, <1>10, <1>11, Zenon DEF f

\* poll_buffer_i: a full buffer is signalled.
LEMMA DataReceiveFacts ==
  ASSUME NEW c \in Routers, RouterOK(c, router[c]), NEW s, CoreOK(c, s), Signals(s)
  PROVE  LET t == DataReceive(c, s)
         IN  CoreOK(c, t) /\ Signals(t) /\ Fed(s, t, router[c].tx[Center], None)
<1> DEFINE f == router[c].tx[Center]
           q == IF f = None THEN s.DATA ELSE Append(s.DATA, f)
           b == Full(q)
           t == [s EXCEPT !.DATA = q, !.busy = b]
<1>1. s \in CoreRecords /\ Serves(c, s) /\ BufDepth \in Nat
  BY RouterAssumption DEF CoreOK
<1>2. /\ s.DATA \in Seq(Payloads)
      /\ Len(s.REQUEST) \in Nat /\ Len(s.ACK) \in Nat /\ Len(s.DATA) \in Nat
  BY <1>1, CoreFields
<1>3. f = None \/ f \in Payloads
  BY DEF RouterOK, RouterRecords, OutPorts, Payloads
<1>4. DataReceive(c, s) = t
  BY <1>1 DEF DataReceive, CoreRecords
<1> HIDE DEF f
<1>5. q \in Seq(Payloads) /\ Len(q) \in Nat /\ Len(q) <= Len(s.DATA) + Weight(f)
  <2>1. CASE f = None
    <3>1. Weight(f) = 0 /\ q = s.DATA
      BY <2>1, WeightFacts
    <3> HIDE DEF q
    <3> QED BY <1>2, <3>1
  <2>2. CASE f # None
    <3>1. Weight(f) = 1 /\ q = Append(s.DATA, f) /\ f \in Payloads
      BY <1>3, <2>2, WeightFacts
    <3> HIDE DEF q
    <3>2. q \in Seq(Payloads) /\ Len(q) = Len(s.DATA) + 1
      BY <1>2, <3>1
    <3> QED BY <1>2, <3>1, <3>2
  <2> QED BY <2>1, <2>2
<1>6. b \in BOOLEAN /\ (~b => Len(q) < BufDepth)
  <2> HIDE DEF q
  <2> QED BY <1>1, <1>5 DEF Full
<1> HIDE DEF q, b
<1>7. /\ t \in CoreRecords /\ t.prog = s.prog /\ t.phase = s.phase /\ t.REQUEST = s.REQUEST
      /\ t.ACK = s.ACK /\ t.DATA = q /\ t.busy = b /\ t.cbusy = s.cbusy
  BY <1>1, <1>5, <1>6 DEF CoreRecords
<1> HIDE DEF t
<1>8. CoreOK(c, t) /\ Signals(t)
  BY <1>1, <1>6, <1>7 DEF CoreOK, Serves, Signals
<1>9. Fed(s, t, f, None)
  <2>1. Weight(None) = 0
    BY WeightFacts
  <2> QED BY <1>2, <1>5, <1>7, <2>1 DEF Fed
<1> QED BY <1>4, <1>8, <1>9, Zenon DEF f

\* The flits of a response.
LEMMA ResponseFlitFacts ==
  ASSUME NEW c \in Routers, NEW s, CoreOK(c, s)
  PROVE  CoreOK(c, ResponseFlit(c, s)) /\ Shrinks(s, ResponseFlit(c, s))
<1> DEFINE q == router[c].cob[Center]
           t == ResponseFlit(c, s)
           waits == q = <<>> \/ ~IsMem(Head(q))
<1>1. /\ s \in CoreRecords /\ Serves(c, s) /\ s.response \in Nat /\ s.prog \in Seq(SUBSET Flows)
      /\ s.faults \in SUBSET CoreFaults /\ RspFlits \in Nat
  BY ProgramConstants, CoreFields DEF CoreOK
<1>2. CASE waits
  <2>1. t = s
    BY <1>2 DEF ResponseFlit
  <2> HIDE DEF t
  <2>2. CoreOK(c, t) /\ Shrinks(s, t)
    BY <1>1, <2>1, ShrinksNot
  <2> QED BY <2>2 DEF t
<1>3. CASE ~waits /\ s.phase # "mem"
  <2> DEFINE e == s.faults \cup {"response has no matching waiter"}
  <2>1. t = [s EXCEPT !.faults = e]
    BY <1>3 DEF ResponseFlit
  <2>2. e \in SUBSET CoreFaults
    BY <1>1 DEF CoreFaults
  <2> HIDE DEF t, e
  <2>3. t \in CoreRecords /\ t.prog = s.prog /\ t.phase = s.phase /\ t.REQUEST = s.REQUEST
        /\ t.DATA = s.DATA /\ t.ACK = s.ACK /\ t.busy = s.busy /\ t.cbusy = s.cbusy
    BY <1>1, <2>1, <2>2 DEF CoreRecords
  <2>4. CoreOK(c, t) /\ Shrinks(s, t)
    BY <1>1, <2>3, SameBuffers DEF CoreOK, Serves
  <2> QED BY <2>4 DEF t
<1>4. CASE ~waits /\ s.phase = "mem" /\ s.response + 1 < RspFlits
  <2> DEFINE n == s.response + 1
  <2>1. t = [s EXCEPT !.response = n]
    BY <1>4 DEF ResponseFlit
  <2>2. n \in Nat
    BY <1>1
  <2> HIDE DEF t, n
  <2>3. t \in CoreRecords /\ t.prog = s.prog /\ t.phase = s.phase /\ t.REQUEST = s.REQUEST
        /\ t.DATA = s.DATA /\ t.ACK = s.ACK /\ t.busy = s.busy /\ t.cbusy = s.cbusy
    BY <1>1, <2>1, <2>2 DEF CoreRecords
  <2>4. CoreOK(c, t) /\ Shrinks(s, t)
    BY <1>1, <2>3, SameBuffers DEF CoreOK, Serves
  <2> QED BY <2>4 DEF t
<1>5. CASE ~waits /\ s.phase = "mem" /\ ~(s.response + 1 < RspFlits)
  <2> DEFINE p == Tail(s.prog)
  <2>1. t = [s EXCEPT !.phase = "idle", !.prog = p]
    BY <1>5 DEF ResponseFlit
  <2>2. p \in Seq(SUBSET Flows) /\ Numbered(c, p)
    BY <1>1, <1>5, ProgramFacts DEF Serves
  <2> HIDE DEF t, p
  <2>3. t \in CoreRecords /\ t.prog = p /\ t.phase = "idle" /\ t.REQUEST = s.REQUEST
        /\ t.DATA = s.DATA /\ t.ACK = s.ACK /\ t.busy = s.busy /\ t.cbusy = s.cbusy
    BY <1>1, <2>1, <2>2 DEF CoreRecords, Phases
  <2>4. CoreOK(c, t) /\ Shrinks(s, t)
    BY <1>1, <2>2, <2>3, SameBuffers DEF CoreOK, Serves
  <2> QED BY <2>4 DEF t
<1> QED BY <1>2, <1>3, <1>4, <1>5

\* RECV_ACK takes an ACK.
LEMMA TakeAckFacts ==
  ASSUME NEW c, NEW s, CoreOK(c, s), s.phase = "ack", s.ACK # <<>>
  PROVE  CoreOK(c, TakeAck(s)) /\ Shrinks(s, TakeAck(s))
<1> DEFINE n == Cardinality(Head(s.prog))
           sub == Head(s.ACK).sub
           acks == s.acks \cup {sub}
           all == Cardinality(acks) = n
           q == Tail(s.ACK)
           a == IF all THEN {} ELSE acks
           p == IF all THEN "data" ELSE s.phase
           e == s.faults \cup FaultIf(sub >= n, "invalid ACK subflow")
                         \cup FaultIf(sub \in s.acks, "duplicate ACK subflow")
           t == [s EXCEPT !.ACK = q, !.acks = a, !.phase = p, !.faults = e]
<1>1. s \in CoreRecords /\ Serves(c, s)
  BY DEF CoreOK
<1>2. /\ s.ACK \in Seq(Flows) /\ s.acks \in SUBSET Subflows /\ s.faults \in SUBSET CoreFaults
      /\ Len(s.REQUEST) \in Nat /\ Len(s.ACK) \in Nat /\ Len(s.DATA) \in Nat
  BY <1>1, CoreFields
<1>3. TakeAck(s) = t
  BY DEF TakeAck
<1>4. Head(s.ACK) \in Flows /\ q \in Seq(Flows) /\ Len(q) = Len(s.ACK) - 1
  BY <1>2, HeadTail
<1>5. a \in SUBSET Subflows
  BY <1>2, <1>4 DEF Subflows
<1>6. p \in {"ack", "data"} /\ p \in Phases
  BY DEF Phases
<1>7. e \in SUBSET CoreFaults
  BY <1>2 DEF FaultIf, CoreFaults
<1> HIDE DEF q, a, p, e
<1>8. t \in CoreRecords /\ t.prog = s.prog /\ t.phase = p /\ t.REQUEST = s.REQUEST
      /\ t.DATA = s.DATA /\ t.ACK = q /\ t.busy = s.busy /\ t.cbusy = s.cbusy
  BY <1>1, <1>4, <1>5, <1>6, <1>7 DEF CoreRecords
<1> HIDE DEF t
<1>9. Shrinks(s, t)
  BY <1>2, <1>4, <1>8 DEF Shrinks
<1>10. CoreOK(c, t)
  BY <1>1, <1>6, <1>8 DEF CoreOK, Serves
<1> QED BY <1>3, <1>9, <1>10

\* Counting around the subflows.
LEMMA RoundRobin ==
  ASSUME NEW n \in Nat \ {0}, NEW i \in Nat
  PROVE  i % n \in 0..n-1 /\ (i \div n) + 1 \in Nat
OBVIOUS

\* What a core sends.
LEMMA CoreSendFacts ==
  ASSUME NEW c \in Routers, NEW s, CoreOK(c, s)
  PROVE  CoreOK(c, CoreSend(c, s)) /\ Shrinks(s, CoreSend(c, s))
<1> DEFINE K == Head(s.prog)
           n == Cardinality(K)
           g == s.next + 1
           free == s.ctx = None
           t == CoreSend(c, s)
<1>1. /\ s \in CoreRecords /\ Serves(c, s) /\ s.prog \in Seq(SUBSET Flows) /\ s.next \in Nat
      /\ Numbered(c, s.prog) /\ s.phase \in Phases
  BY CoreFields DEF CoreOK, Serves
<1>2. ASSUME t = s PROVE CoreOK(c, t) /\ Shrinks(s, t)
  <2> HIDE DEF t
  <2> QED BY <1>1, <1>2, ShrinksNot
<1>3. CASE s.phase \notin {"req", "ack", "data"}
  <2>1. t = s
    BY <1>3 DEF CoreSend
  <2> QED BY <1>2, <2>1
<1>4. CASE s.phase = "ack"
  <2>1. CASE s.ACK = <<>>
    <3>1. t = s
      BY <1>4, <2>1 DEF CoreSend
    <3> QED BY <1>2, <3>1
  <2>2. CASE s.ACK # <<>>
    <3>1. t = TakeAck(s)
      BY <1>4, <2>2 DEF CoreSend
    <3> HIDE DEF t
    <3>2. CoreOK(c, t) /\ Shrinks(s, t)
      BY <1>4, <2>2, <3>1, TakeAckFacts
    <3> QED BY <3>2 DEF t
  <2> QED BY <2>1, <2>2
<1>5. CASE s.phase \in {"req", "data"}
  <2>1. s.prog # <<>> /\ IsSent(c, K) /\ K # {}
    BY <1>1, <1>5 DEF Serves, IsSent
  <2>2. /\ K \in SUBSET Flows /\ {k.sub : k \in K} = 0..Cardinality(K) - 1
        /\ Tail(s.prog) \in Seq(SUBSET Flows) /\ Numbered(c, Tail(s.prog))
    BY <1>1, <2>1, ProgramFacts
  <2>3. n \in Nat \ {0} /\ \A i \in 0..n-1 : Sub(K, i) \in K
    <3> HIDE DEF K
    <3> QED BY <2>1, <2>2, SubflowFacts
  <2>4. Total(K) \in Nat
    <3>1. IsFiniteSet(K)
      BY <2>2, LedgerAssumption, FS_Subset
    <3>2. \A k \in K : Packets[k] \in Nat
      BY <2>2, LedgerAssumption
    <3> HIDE DEF K
    <3> QED BY <3>1, <3>2, SumNat DEF Total
  <2>5. ASSUME NEW u \in CoreRecords, u.prog = s.prog, u.phase \in {"req", "ack", "data"},
               u.REQUEST = s.REQUEST, u.DATA = s.DATA, u.ACK = s.ACK, u.busy = s.busy,
               u.cbusy = s.cbusy
        PROVE  CoreOK(c, u) /\ Shrinks(s, u)
    BY <1>1, <2>1, <2>5, SameBuffers DEF CoreOK, Serves
  <2> HIDE DEF K
  <2>6. CASE s.phase = "req" /\ s.next = n
    <3>1. t = [s EXCEPT !.phase = "ack", !.next = 0]
      <4>1. ~(s.next < n)
        BY <1>1, <2>3, <2>6
      <4> QED BY <2>6, <4>1 DEF CoreSend, K
    <3> HIDE DEF t
    <3>2. t \in CoreRecords /\ t.prog = s.prog /\ t.phase = "ack" /\ t.REQUEST = s.REQUEST
          /\ t.DATA = s.DATA /\ t.ACK = s.ACK /\ t.busy = s.busy /\ t.cbusy = s.cbusy
      BY <1>1, <3>1 DEF CoreRecords, Phases
    <3>3. CoreOK(c, t) /\ Shrinks(s, t)
      BY <2>5, <3>2
    <3> QED BY <3>3 DEF t
  <2>7. CASE s.phase = "req" /\ s.next < n /\ free /\ router[c].cavail[Center]
    <3> DEFINE f == Request(Sub(K, s.next))
    <3>1. t = [s EXCEPT !.ctx = f, !.next = g]
      <4>1. ~(s.next = n)
        BY <1>1, <2>3, <2>7
      <4> QED BY <2>7, <4>1 DEF CoreSend, K
    <3>2. f \in CtrlFlits /\ g \in Nat
      <4>1. s.next \in 0..n-1
        BY <1>1, <2>3, <2>7
      <4>2. Sub(K, s.next) \in Flows
        BY <2>2, <2>3, <4>1
      <4> QED BY <1>1, <4>2, FlitTypes
    <3> HIDE DEF t, f, g
    <3>3. t \in CoreRecords /\ t.prog = s.prog /\ t.phase = s.phase /\ t.REQUEST = s.REQUEST
          /\ t.DATA = s.DATA /\ t.ACK = s.ACK /\ t.busy = s.busy /\ t.cbusy = s.cbusy
      BY <1>1, <3>1, <3>2 DEF CoreRecords
    <3>4. CoreOK(c, t) /\ Shrinks(s, t)
      BY <2>5, <2>7, <3>3
    <3> QED BY <3>4 DEF t
  <2>8. CASE s.phase = "req" /\ ~(s.next = n) /\ ~(s.next < n /\ free /\ router[c].cavail[Center])
    <3>1. t = s
      BY <2>8 DEF CoreSend, K
    <3> QED BY <1>2, <3>1
  <2>9. CASE s.phase = "data" /\ g <= Total(K) /\ free /\ router[c].avail[Center]
    <3> DEFINE f == Data(Sub(K, (g - 1) % n), (g - 1) \div n + 1)
    <3>1. t = [s EXCEPT !.tx = f, !.next = g]
      <4>1. ~(g > Total(K))
        BY <1>1, <2>4, <2>9
      <4> QED BY <2>9, <4>1 DEF CoreSend, K
    <3>2. f \in DataFlits /\ g \in Nat
      <4>1. g - 1 = s.next /\ g \in Nat
        BY <1>1
      <4>2. s.next % n \in 0..n-1 /\ (s.next \div n) + 1 \in Nat
        <5> HIDE DEF n
        <5> QED BY <1>1, <2>3, RoundRobin
      <4> HIDE DEF g, n
      <4>3. Sub(K, s.next % n) \in Flows
        BY <2>2, <2>3, <4>2
      <4>4. Data(Sub(K, s.next % n), (s.next \div n) + 1) \in DataFlits
        BY <4>2, <4>3, FlitTypes
      <4> QED BY <4>1, <4>4
    <3> HIDE DEF t, f, g
    <3>3. t \in CoreRecords /\ t.prog = s.prog /\ t.phase = s.phase /\ t.REQUEST = s.REQUEST
          /\ t.DATA = s.DATA /\ t.ACK = s.ACK /\ t.busy = s.busy /\ t.cbusy = s.cbusy
      BY <1>1, <3>1, <3>2 DEF CoreRecords
    <3>4. CoreOK(c, t) /\ Shrinks(s, t)
      BY <2>5, <2>9, <3>3
    <3> QED BY <3>4 DEF t
  <2>10. CASE s.phase = "data" /\ g > Total(K)
    <3> DEFINE p == Tail(s.prog)
    <3>1. t = [s EXCEPT !.phase = "idle", !.prog = p, !.next = 0]
      <4>1. ~(g <= Total(K))
        BY <1>1, <2>4, <2>10
      <4> QED BY <2>10, <4>1 DEF CoreSend, K
    <3> HIDE DEF t, p
    <3>2. t \in CoreRecords /\ t.prog = p /\ t.phase = "idle" /\ t.REQUEST = s.REQUEST
          /\ t.DATA = s.DATA /\ t.ACK = s.ACK /\ t.busy = s.busy /\ t.cbusy = s.cbusy
      BY <1>1, <2>2, <3>1 DEF CoreRecords, Phases, p
    <3>3. CoreOK(c, t) /\ Shrinks(s, t)
      BY <1>1, <2>2, <3>2, SameBuffers DEF CoreOK, Serves, p
    <3> QED BY <3>3 DEF t
  <2>11. CASE s.phase = "data" /\ g <= Total(K) /\ ~(free /\ router[c].avail[Center])
    <3>1. t = s
      <4>1. ~(g > Total(K))
        BY <1>1, <2>4, <2>11
      <4> QED BY <2>11, <4>1 DEF CoreSend, K
    <3> QED BY <1>2, <3>1
  <2>12. g <= Total(K) \/ g > Total(K)
    BY <1>1, <2>4
  <2> HIDE DEF t, g, n, free
  <2> QED BY <1>5, <2>6, <2>7, <2>8, <2>9, <2>10, <2>11, <2>12 DEF t
<1> QED BY <1>3, <1>4, <1>5

\* A cycle of a core.
LEMMA CoreCycleFacts ==
  ASSUME NEW c \in Routers, RouterOK(c, router[c]), CoreOK(c, core[c]), Signals(core[c])
  PROVE  LET t == CoreCycle(c)
         IN  /\ CoreOK(c, t) /\ Signals(t)
             /\ Fed(core[c], t, router[c].tx[Center], router[c].ctx[Center])
<1> DEFINE s == [core[c] EXCEPT !.tx = None, !.ctx = None]
           s1 == SendAck(c, s)
           s2 == CtrlReceive(c, s1)
           s3 == DataReceive(c, s2)
           s4 == ResponseFlit(c, s3)
           s5 == NextRound(s4)
           s6 == CoreSend(c, s5)
           s7 == SendAck(c, s6)
           data == router[c].tx[Center]
           ctrl == router[c].ctx[Center]
<1>1. CoreCycle(c) = s7
  BY DEF CoreCycle
<1>2. CoreOK(c, s) /\ s \in CoreRecords /\ core[c] \in CoreRecords /\ Shrinks(core[c], s)
  <2>1. core[c] \in CoreRecords /\ Serves(c, core[c])
    BY DEF CoreOK
  <2>2. /\ s \in CoreRecords /\ s.prog = core[c].prog /\ s.phase = core[c].phase
        /\ s.REQUEST = core[c].REQUEST /\ s.DATA = core[c].DATA /\ s.ACK = core[c].ACK
        /\ s.busy = core[c].busy /\ s.cbusy = core[c].cbusy
    BY <2>1 DEF CoreRecords
  <2> HIDE DEF s
  <2> QED BY <2>1, <2>2, SameBuffers DEF CoreOK, Serves
<1> HIDE DEF s
<1>3. CoreOK(c, s1) /\ s1 \in CoreRecords /\ Shrinks(core[c], s1) /\ Signals(s1)
  <2>1. CoreOK(c, s1) /\ Shrinks(s, s1)
    BY <1>2, SendAckFacts
  <2>2. s1 \in CoreRecords
    BY <2>1 DEF CoreOK
  <2> HIDE DEF s1
  <2>3. Shrinks(core[c], s1)
    BY <1>2, <2>1, <2>2, ShrinksFurther
  <2> QED BY <1>2, <2>1, <2>2, <2>3, ShrinksKeeps
<1> HIDE DEF s1
<1>4. CoreOK(c, s2) /\ Signals(s2) /\ Fed(s1, s2, None, ctrl)
  BY <1>3, CtrlReceiveFacts
<1> HIDE DEF s2
<1>5. CoreOK(c, s3) /\ Signals(s3) /\ Fed(s2, s3, data, None)
  BY <1>4, DataReceiveFacts
<1> HIDE DEF s3, data, ctrl
<1>6. CoreOK(c, s4) /\ Shrinks(s3, s4)
  BY <1>5, ResponseFlitFacts
<1> HIDE DEF s4
<1>7. CoreOK(c, s5) /\ Shrinks(s4, s5)
  BY <1>6, NextRoundFacts
<1> HIDE DEF s5
<1>8. CoreOK(c, s6) /\ Shrinks(s5, s6)
  BY <1>7, CoreSendFacts
<1> HIDE DEF s6
<1>9. CoreOK(c, s7) /\ Shrinks(s6, s7)
  BY <1>8, SendAckFacts
<1> HIDE DEF s7
<1>10. s2 \in CoreRecords /\ s3 \in CoreRecords /\ s4 \in CoreRecords /\ s5 \in CoreRecords
       /\ s6 \in CoreRecords /\ s7 \in CoreRecords
  BY <1>4, <1>5, <1>6, <1>7, <1>8, <1>9 DEF CoreOK
<1>11. Shrinks(s3, s7)
  <2>1. Shrinks(s3, s5)
    BY <1>6, <1>7, <1>10, ShrinksFurther
  <2>2. Shrinks(s3, s6)
    BY <1>8, <1>10, <2>1, ShrinksFurther
  <2> QED BY <1>9, <1>10, <2>2, ShrinksFurther
<1>12. Signals(s7)
  BY <1>5, <1>10, <1>11, ShrinksKeeps
<1>13. Fed(core[c], s7, data, ctrl)
  <2>1. /\ Len(core[c].REQUEST) \in Nat /\ Len(core[c].ACK) \in Nat /\ Len(core[c].DATA) \in Nat
        /\ Len(s1.REQUEST) \in Nat /\ Len(s1.ACK) \in Nat /\ Len(s1.DATA) \in Nat
        /\ Len(s2.REQUEST) \in Nat /\ Len(s2.ACK) \in Nat /\ Len(s2.DATA) \in Nat
        /\ Len(s3.REQUEST) \in Nat /\ Len(s3.ACK) \in Nat /\ Len(s3.DATA) \in Nat
        /\ Len(s7.REQUEST) \in Nat /\ Len(s7.ACK) \in Nat /\ Len(s7.DATA) \in Nat
    BY <1>2, <1>3, <1>10, CoreFields
  <2>2. Weight(data) \in Nat /\ Weight(ctrl) \in Nat /\ Weight(None) = 0 /\ Weight(None) \in Nat
    BY WeightFacts
  <2>3. Len(s7.DATA) <= Len(core[c].DATA) + Weight(data)
    <3> DEFINE n0 == Len(core[c].DATA)
               n1 == Len(s1.DATA)
               n2 == Len(s2.DATA)
               n3 == Len(s3.DATA)
               n7 == Len(s7.DATA)
               w == Weight(data)
    <3>1. n1 <= n0
      BY <1>3 DEF Shrinks
    <3>2. n2 <= n1 + Weight(None)
      BY <1>4 DEF Fed
    <3>3. n3 <= n2 + Weight(data)
      BY <1>5 DEF Fed
    <3>4. n7 <= n3
      BY <1>11 DEF Shrinks
    <3>5. n0 \in Nat /\ n1 \in Nat /\ n2 \in Nat /\ n3 \in Nat /\ n7 \in Nat /\ w \in Nat
      BY <2>1, <2>2
    <3> HIDE DEF n0, n1, n2, n3, n7
    <3>6. n7 <= n0 + w
      BY <2>2, <3>1, <3>2, <3>3, <3>4, <3>5
    <3> QED BY <3>6 DEF n0, n7
  <2>4. Len(s7.REQUEST) <= Len(core[c].REQUEST) + Weight(ctrl)
    <3> DEFINE n0 == Len(core[c].REQUEST)
               n1 == Len(s1.REQUEST)
               n2 == Len(s2.REQUEST)
               n3 == Len(s3.REQUEST)
               n7 == Len(s7.REQUEST)
               w == Weight(ctrl)
    <3>1. n1 <= n0
      BY <1>3 DEF Shrinks
    <3>2. n2 <= n1 + Weight(ctrl)
      BY <1>4 DEF Fed
    <3>3. n3 <= n2 + Weight(None)
      BY <1>5 DEF Fed
    <3>4. n7 <= n3
      BY <1>11 DEF Shrinks
    <3>5. n0 \in Nat /\ n1 \in Nat /\ n2 \in Nat /\ n3 \in Nat /\ n7 \in Nat /\ w \in Nat
      BY <2>1, <2>2
    <3> HIDE DEF n0, n1, n2, n3, n7
    <3>6. n7 <= n0 + w
      BY <2>2, <3>1, <3>2, <3>3, <3>4, <3>5
    <3> QED BY <3>6 DEF n0, n7
  <2>5. Len(s7.ACK) <= Len(core[c].ACK) + Weight(ctrl)
    <3> DEFINE n0 == Len(core[c].ACK)
               n1 == Len(s1.ACK)
               n2 == Len(s2.ACK)
               n3 == Len(s3.ACK)
               n7 == Len(s7.ACK)
               w == Weight(ctrl)
    <3>1. n1 <= n0
      BY <1>3 DEF Shrinks
    <3>2. n2 <= n1 + Weight(ctrl)
      BY <1>4 DEF Fed
    <3>3. n3 <= n2 + Weight(None)
      BY <1>5 DEF Fed
    <3>4. n7 <= n3
      BY <1>11 DEF Shrinks
    <3>5. n0 \in Nat /\ n1 \in Nat /\ n2 \in Nat /\ n3 \in Nat /\ n7 \in Nat /\ w \in Nat
      BY <2>1, <2>2
    <3> HIDE DEF n0, n1, n2, n3, n7
    <3>6. n7 <= n0 + w
      BY <2>2, <3>1, <3>2, <3>3, <3>4, <3>5
    <3> QED BY <3>6 DEF n0, n7
  <2> QED BY <2>3, <2>4, <2>5, Zenon DEF Fed
<1> QED BY <1>1, <1>9, <1>12, <1>13, Zenon DEF data, ctrl
-----------------------------------------------------------------------------
(* The memory and the wires.                                               *)

\* The memory flit at the head of the core's output of the tile.
LEMMA MemTakenFacts ==
  ASSUME NEW r \in Routers, RouterOK(r, router[r])
  PROVE  /\ MemTaken(r) \in BOOLEAN
         /\ MemTaken(r) => /\ router[r].ob[Center] # <<>>
                           /\ Head(router[r].ob[Center]).core \in Routers
                           /\ TryAccept(Head(router[r].ob[Center]))
<1> DEFINE q == router[r].ob[Center]
<1>1. q \in Seq(DataFlits)
  BY DEF RouterOK, RouterRecords, OutPorts, Buffers
<1>2. ASSUME q # <<>>, IsMem(Head(q)) PROVE Head(q).core \in Routers
  <2>1. Head(q) \in DataFlits
    BY <1>1, <1>2, HeadTail
  <2> HIDE DEF q
  <2> QED BY <1>2, <2>1 DEF DataFlits, IsMem
<1> QED BY <1>2 DEF MemTaken

\* The HBM bridge assembles requests and hands them to the worker; its queue of
\* completed requests stays within its depth because TryAccept() refuses.
LEMMA MemoryCycleType ==
  ASSUME MemoryOK, RouterOK(MemTile, router[MemTile]), NEW injected
  PROVE  LET m == WorkerStep(Assemble(memory), injected)
         IN  m \in MemoryRecords /\ Len(m.completed) <= CompletedDepth
<1> DEFINE c == Head(router[MemTile].ob[Center]).core
           m == memory
           a == Assemble(m)
           w == WorkerStep(a, injected)
<1>1. /\ m \in MemoryRecords /\ m.partial \in [Routers -> Nat] /\ m.completed \in Seq(Routers)
      /\ Len(m.completed) \in Nat /\ Len(m.completed) <= CompletedDepth
      /\ CompletedDepth \in Nat /\ ReqFlits \in Nat
  BY ProgramConstants DEF MemoryOK, MemoryRecords
<1>2. MemTaken(MemTile) => c \in Routers /\ TryAccept(Head(router[MemTile].ob[Center]))
  BY MemTakenFacts, RouterAssumption
<1>3. a \in MemoryRecords /\ Len(a.completed) <= CompletedDepth
  <2>1. CASE ~MemTaken(MemTile)
    <3>1. a = m
      BY <2>1 DEF Assemble
    <3> QED BY <1>1, <3>1
  <2>2. CASE MemTaken(MemTile) /\ m.partial[c] + 1 < ReqFlits
    <3> DEFINE p == [m.partial EXCEPT ![c] = m.partial[c] + 1]
    <3>1. a = [m EXCEPT !.partial = p]
      BY <2>2 DEF Assemble
    <3>2. p \in [Routers -> Nat]
      BY <1>1, <1>2, <2>2
    <3> HIDE DEF a, p, m
    <3> QED BY <1>1, <3>1, <3>2 DEF MemoryRecords
  <2>3. CASE MemTaken(MemTile) /\ ~(m.partial[c] + 1 < ReqFlits)
    <3> DEFINE p == [m.partial EXCEPT ![c] = 0]
               q == Append(m.completed, c)
    <3>1. a = [m EXCEPT !.partial = p, !.completed = q]
      BY <2>3 DEF Assemble
    <3>2. Len(m.completed) < CompletedDepth
      BY <1>2, <2>3 DEF TryAccept
    <3> HIDE DEF m, c
    <3>3. p \in [Routers -> Nat] /\ q \in Seq(Routers) /\ Len(q) = Len(m.completed) + 1
      BY <1>1, <1>2, <2>3
    <3> HIDE DEF a, p, q
    <3>4. a \in MemoryRecords /\ a.completed = q
      BY <1>1, <3>1, <3>3 DEF MemoryRecords
    <3> QED BY <1>1, <3>2, <3>3, <3>4
  <2> QED BY <2>1, <2>2, <2>3
<1> HIDE DEF a
<1>4. w \in MemoryRecords /\ Len(w.completed) <= CompletedDepth
  <2> DEFINE free == a.active = None \/ (a.served /\ injected)
  <2>1. a.completed \in Seq(Routers) /\ Len(a.completed) \in Nat
    BY <1>3 DEF MemoryRecords
  <2>2. CASE free /\ a.completed # <<>>
    <3> DEFINE x == Head(a.completed)
               q == Tail(a.completed)
    <3>1. w = [a EXCEPT !.active = x, !.completed = q, !.served = FALSE]
      BY <2>2 DEF WorkerStep
    <3>2. x \in Routers /\ q \in Seq(Routers) /\ Len(q) = Len(a.completed) - 1
      BY <2>1, <2>2, HeadTail
    <3> HIDE DEF w, x, q
    <3>3. w \in MemoryRecords /\ w.completed = q
      BY <1>3, <3>1, <3>2 DEF MemoryRecords
    <3> QED BY <1>1, <1>3, <2>1, <3>2, <3>3
  <2>3. CASE free /\ a.completed = <<>>
    <3>1. w = [a EXCEPT !.active = None, !.served = FALSE]
      BY <2>3 DEF WorkerStep
    <3> HIDE DEF w
    <3>2. w \in MemoryRecords /\ w.completed = a.completed
      BY <1>3, <3>1 DEF MemoryRecords
    <3> QED BY <1>3, <3>2
  <2>4. CASE ~free
    <3>1. w = a
      BY <2>4 DEF WorkerStep
    <3> QED BY <1>3, <3>1
  <2> QED BY <2>2, <2>3, <2>4
<1> QED BY <1>4 DEF a

\* What the neighbours have put on the wires.
LEMMA WireTypes ==
  ASSUME Types, NEW r \in Routers
  PROVE  /\ DataWires(r) \in [InPorts(r) -> DataFlits \cup {None}]
         /\ CtrlWires(r) \in [InPorts(r) -> CtrlFlits \cup {None}]
<1>1. core[r].tx \in DataFlits \cup {None} /\ core[r].ctx \in CtrlFlits \cup {None}
  BY DEF Types, CoreOK, CoreRecords
<1>2. ASSUME NEW l \in Links
      PROVE  link[l].out \in DataFlits \cup {None} /\ link[l].cout \in CtrlFlits \cup {None}
  <2>1. link[l] \in LinkRecords
    BY DEF Types, LinkOK
  <2> QED BY <2>1 DEF LinkRecords
<1>3. ASSUME NEW e \in Edges
      PROVE  /\ router[Source[e]].tx[e] \in DataFlits \cup {None}
             /\ router[Source[e]].ctx[e] \in CtrlFlits \cup {None}
  <2>1. Source[e] \in Routers /\ e \in OutPorts(Source[e])
    BY RouterAssumption DEF OutPorts, OutEdges
  <2>2. router[Source[e]] \in RouterRecords(Source[e])
    BY <2>1 DEF Types, RouterOK
  <2> QED BY <2>1, <2>2 DEF RouterRecords
<1>4. \A p \in InPorts(r) : p = Center \/ p \in Edges
  BY DEF InPorts
<1>5. Center \notin Links
  BY RouterAssumption
<1> QED BY <1>1, <1>2, <1>3, <1>4, <1>5 DEF DataWires, CtrlWires
-----------------------------------------------------------------------------
(* Credits.                                                                *)

\* Nothing has overflowed, and no credit is owed.
NothingOverflows ==
  /\ \A l \in Links : Overflows(link[l]) = {}
  /\ \A r \in Routers : CreditFaults(router[r]) = {}
CreditsPositive ==
  \A l \in Links : router[Source[l]].credit[l] >= 0 /\ router[Source[l]].ccredit[l] >= 0

\* The message buffers of the cores keep to their signals.
BuffersHeld ==
  \A c \in Routers :
    Signals(core[c]) /\ Takes(core[c], router[c].tx[Center], router[c].ctx[Center])

\* The inductive invariant: the types, the books, the credits, and the buffers.
FabricInv ==
  /\ Types /\ LedgerInv
  /\ CreditsConserved /\ CreditsPositive /\ NothingOverflows
  /\ BuffersHeld

\* A wire carries one packet or none.
LEMMA WireLength == \A f : Len(AsSeq(f)) = One(f # None)
BY DEF AsSeq, One

\* The link's place among the outputs of the router before it.
LEMMA SourceFacts ==
  ASSUME NEW l \in Links
  PROVE  Source[l] \in Routers /\ l \in LinkOuts(Source[l]) /\ l \in OutPorts(Source[l])
BY RouterAssumption DEF LinkOuts, OutEdges, OutPorts

\* What a step that leaves credits and wires alone keeps.
LEMMA CreditsUntouched ==
  ASSUME Types, Types', CreditsConserved, CreditsPositive, NothingOverflows, UNCHANGED link,
         \A r \in Routers : SameCredits(router[r], router'[r])
  PROVE  CreditsConserved' /\ CreditsPositive' /\ NothingOverflows'
<1>1. ASSUME NEW l \in Links
      PROVE  LET s == router[Source[l]]
                 t == router'[Source[l]]
             IN  /\ t.credit = s.credit /\ t.ccredit = s.ccredit /\ t.seen = s.seen
                 /\ t.cseen = s.cseen /\ t.tx = s.tx /\ t.ctx = s.ctx
  BY SourceFacts DEF SameCredits
<1>2. CreditsConserved'
  BY <1>1, Zenon DEF CreditsConserved
<1>3. CreditsPositive'
  BY <1>1, Zenon DEF CreditsPositive
<1>4. NothingOverflows'
  <2>1. \A r \in Routers : CreditFaults(router[r])' = CreditFaults(router[r])
    BY DEF SameCredits
  <2>2. \A l \in Links : Overflows(link[l])' = Overflows(link[l])
    OBVIOUS
  <2> QED BY <2>1, <2>2 DEF NothingOverflows
<1> QED BY <1>2, <1>3, <1>4

\* What a step that adds nothing to the buffers of the cores keeps.
LEMMA HeldUntouched ==
  ASSUME Types, Types', BuffersHeld,
         \A r \in Routers : SameCredits(router[r], router'[r]),
         \A c \in Routers : Shrinks(core[c], core'[c])
  PROVE  BuffersHeld'
<1> SUFFICES ASSUME NEW c \in Routers
             PROVE  /\ Signals(core'[c])
                    /\ Takes(core'[c], router'[c].tx[Center], router'[c].ctx[Center])
  BY Zenon DEF BuffersHeld
<1>1. core[c] \in CoreRecords /\ core'[c] \in CoreRecords
  BY DEF Types, CoreOK
<1>2. router'[c].tx = router[c].tx /\ router'[c].ctx = router[c].ctx
  BY DEF SameCredits
<1>3. Signals(core[c]) /\ Takes(core[c], router[c].tx[Center], router[c].ctx[Center])
  BY DEF BuffersHeld
<1>4. Shrinks(core[c], core'[c])
  OBVIOUS
<1>5. /\ Signals(core'[c])
      /\ Takes(core'[c], router[c].tx[Center], router[c].ctx[Center])
  BY <1>1, <1>3, <1>4, ShrinksKeeps
<1> QED BY <1>2, <1>5, Zenon

\* The numbers of one channel of a link in a cycle of the router and of the link:
\* D is the depth, c the credits, o the packets in the stage; wire is the packet
\* on the wire, if any, and bit the one that tells of a slot that is free again,
\* which the router has seen or not.
ChannelCycle(D, c, c2, o, p, seen, bit, bit2, wire, wire2) ==
  /\ D \in Nat /\ c \in Int /\ o \in Nat /\ p \in Nat
  /\ D = c + One(wire # None) + o + One(seen # bit)
  /\ c >= 0
  /\ c2 = (c + One(bit # seen)) - One(wire2 # None)
  /\ wire2 # None => c + One(bit # seen) > 0
  /\ o + One(wire # None) <= D => p + One(bit2 # bit) = o + One(wire # None)

\* They still add up to the depth.
LEMMA CreditsOfCycle ==
  ASSUME NEW D, NEW c, NEW c2, NEW o, NEW p, NEW seen, NEW bit, NEW bit2, NEW wire, NEW wire2,
         ChannelCycle(D, c, c2, o, p, seen, bit, bit2, wire, wire2)
  PROVE  /\ D = c2 + One(wire2 # None) + p + One(bit # bit2)
         /\ c2 >= 0
         /\ o + One(wire # None) <= D
         /\ ~(bit # seen /\ c >= D)
<1> USE DEF ChannelCycle
<1> DEFINE w == One(wire # None)
           b == One(seen # bit)
           x == One(wire2 # None)
           y == One(bit # bit2)
<1>1. D = c + w + o + b
  OBVIOUS
<1>2. w \in 0..1 /\ b \in 0..1 /\ x \in 0..1 /\ y \in 0..1
  BY DEF One
<1>3. One(bit # seen) = b /\ One(bit2 # bit) = y
  BY DEF One
<1>4. (bit # seen) => b = 1
  BY DEF One
<1>5. x = 1 <=> wire2 # None
  BY DEF One
<1>6. c2 = (c + b) - x /\ (x = 1 => c + b > 0)
  BY <1>3, <1>5
<1>7. o + w <= D => p + y = o + w
  BY <1>3
<1> HIDE DEF w, b, x, y
<1>8. o + w <= D
  BY <1>1, <1>2
<1>9. ~(bit # seen /\ c >= D)
  BY <1>1, <1>2, <1>4
<1>10. c2 >= 0 /\ D = c2 + x + p + y
  BY <1>1, <1>2, <1>6, <1>7, <1>8
<1> QED BY <1>8, <1>9, <1>10 DEF w, x, y
-----------------------------------------------------------------------------
(* The steps.                                                              *)

\* Copies of a flit.
LEMMA CopiesType ==
  ASSUME NEW S, NEW f \in S, NEW n \in Nat
  PROVE  Copies(f, n) \in Seq(S)
BY DEF Copies

\* A router after the flits of an access are given to it.
LEMMA InjectedType ==
  ASSUME NEW r \in Routers, NEW s, RouterOK(r, s),
         NEW q \in Seq(DataFlits), NEW p \in Seq(CtrlFlits)
  PROVE  /\ RouterOK(r, InjectRequests([s EXCEPT !.req = q]))
         /\ SameCredits(s, InjectRequests([s EXCEPT !.req = q]))
         /\ RouterOK(r, InjectResponses([s EXCEPT !.rsp = p]))
         /\ SameCredits(s, InjectResponses([s EXCEPT !.rsp = p]))
<1> DEFINE u == [s EXCEPT !.req = q]
           v == [s EXCEPT !.rsp = p]
<1>1. s \in RouterRecords(r)
  BY DEF RouterOK
<1>2. u \in RouterRecords(r) /\ SameCredits(s, u) /\ v \in RouterRecords(r) /\ SameCredits(s, v)
  BY <1>1 DEF RouterRecords, SameCredits, CreditFaults
<1> HIDE DEF u, v
<1>3. /\ InjectRequests(u) \in RouterRecords(r) /\ SameCredits(u, InjectRequests(u))
      /\ InjectResponses(v) \in RouterRecords(r) /\ SameCredits(v, InjectResponses(v))
  BY <1>2, InjectRequestsType, InjectResponsesType
<1>4. SameCredits(s, InjectRequests(u)) /\ SameCredits(s, InjectResponses(v))
  BY <1>2, <1>3, Zenon DEF SameCredits
<1>5. /\ InjectRequests(u).ctx = s.ctx /\ InjectResponses(v).ctx = s.ctx
      /\ InjectRequests(u).tx = s.tx /\ InjectResponses(v).tx = s.tx
  BY <1>4 DEF SameCredits
<1> QED BY <1>3, <1>4, <1>5 DEF RouterOK, u, v

\* The initial states.
LEMMA InitInv == Init => FabricInv
<1> SUFFICES ASSUME Init PROVE FabricInv
  OBVIOUS
<1>1. LedgerInv
  BY LedgerInitInv DEF Init
<1>2. ASSUME NEW r \in Routers
      PROVE  /\ RouterOK(r, router[r]) /\ router[r].faults = {}
             /\ router[r].credit = [l \in LinkOuts(r) |-> SafDepth]
             /\ router[r].ccredit = [l \in LinkOuts(r) |-> CtrlDepth]
             /\ router[r].seen = [l \in LinkOuts(r) |-> FALSE]
             /\ router[r].cseen = [l \in LinkOuts(r) |-> FALSE]
             /\ router[r].tx = [p \in OutPorts(r) |-> None]
             /\ router[r].ctx = [p \in OutPorts(r) |-> None]
  <2> DEFINE b == [p \in InPorts(r) |-> <<>>]
             o == [p \in OutPorts(r) |-> <<>>]
             n == [p \in OutPorts(r) |-> None]
             z == [p \in OutPorts(r) |-> 0]
             c == [l \in LinkOuts(r) |-> SafDepth]
             d == [l \in LinkOuts(r) |-> CtrlDepth]
             f == [l \in LinkOuts(r) |-> FALSE]
             y == [p \in InPorts(r) |-> TRUE]
  <2>1. router[r] = [ib |-> b, ob |-> o, cib |-> b, cob |-> o, lock |-> n, ref |-> z,
                     credit |-> c, ccredit |-> d, seen |-> f, cseen |-> f, first |-> 1,
                     req |-> <<>>, rsp |-> <<>>, tx |-> n, ctx |-> n, avail |-> y,
                     cavail |-> y, faults |-> {}]
    BY Zenon DEF Init, RouterInit
  <2>2. <<>> \in Buffers
    BY RouterAssumption DEF Buffers
  <2>3. /\ b \in [InPorts(r) -> Seq(DataFlits)] /\ b \in [InPorts(r) -> Seq(CtrlFlits)]
        /\ o \in [OutPorts(r) -> Buffers] /\ o \in [OutPorts(r) -> Seq(CtrlFlits)]
        /\ n \in [OutPorts(r) -> Tags \cup {None}] /\ n \in [OutPorts(r) -> DataFlits \cup {None}]
        /\ n \in [OutPorts(r) -> CtrlFlits \cup {None}] /\ z \in [OutPorts(r) -> Int]
        /\ c \in [LinkOuts(r) -> Int] /\ d \in [LinkOuts(r) -> Int]
        /\ f \in [LinkOuts(r) -> BOOLEAN] /\ y \in [InPorts(r) -> BOOLEAN]
        /\ n[Center] = None
    <3>1. b \in [InPorts(r) -> Seq(DataFlits)] /\ b \in [InPorts(r) -> Seq(CtrlFlits)]
      OBVIOUS
    <3>2. o \in [OutPorts(r) -> Buffers] /\ o \in [OutPorts(r) -> Seq(CtrlFlits)]
      BY <2>2
    <3>3. /\ n \in [OutPorts(r) -> Tags \cup {None}] /\ n \in [OutPorts(r) -> DataFlits \cup {None}]
          /\ n \in [OutPorts(r) -> CtrlFlits \cup {None}] /\ n[Center] = None
      BY DEF OutPorts
    <3>4. z \in [OutPorts(r) -> Int] /\ c \in [LinkOuts(r) -> Int] /\ d \in [LinkOuts(r) -> Int]
      BY LinkConstants
    <3>5. f \in [LinkOuts(r) -> BOOLEAN] /\ y \in [InPorts(r) -> BOOLEAN]
      BY Zenon
    <3> QED BY <3>1, <3>2, <3>3, <3>4, <3>5
  <2> HIDE DEF b, o, n, z, c, d, f, y
  <2>4. router[r] \in RouterRecords(r) /\ router[r].faults = {} /\ router[r].credit = c
        /\ router[r].ccredit = d /\ router[r].seen = f /\ router[r].cseen = f
        /\ router[r].tx = n /\ router[r].ctx = n
    BY <2>1, <2>3 DEF RouterRecords
  <2> QED BY <2>3, <2>4 DEF RouterOK, c, d, f, n
<1>3. ASSUME NEW l \in Links
      PROVE  /\ LinkOK(link[l]) /\ SafOccupancy(link[l]) = 0 /\ Len(link[l].ctrl) = 0
             /\ link[l].dataCredit = FALSE /\ link[l].ctrlCredit = FALSE
             /\ link[l].faults = {} /\ link[l].portTokens = 0 /\ link[l].tokens = 0
  <2> DEFINE q == [k \in Flows |-> <<>>]
  <2>1. link[l] = [saf |-> q, expected |-> {}, ready |-> <<>>, mem |-> <<>>, inflight |-> <<>>,
                   rx |-> <<>>, ctrl |-> <<>>, portTokens |-> 0, tokens |-> 0,
                   out |-> None, cout |-> None, dataCredit |-> FALSE, ctrlCredit |-> FALSE,
                   leaves |-> None, faults |-> {}]
    BY DEF Init, LinkInit
  <2>2. q \in [Flows -> Seq(DataFlits)]
    OBVIOUS
  <2>3. \A k \in Flows : Len(q[k]) = 0
    OBVIOUS
  <2> HIDE DEF q
  <2>4. /\ link[l] \in LinkRecords /\ link[l].saf = q /\ link[l].mem = <<>>
        /\ link[l].ctrl = <<>> /\ link[l].inflight = <<>> /\ link[l].rx = <<>>
        /\ link[l].dataCredit = FALSE /\ link[l].ctrlCredit = FALSE
        /\ link[l].faults = {} /\ link[l].portTokens = 0 /\ link[l].tokens = 0
    BY <2>1, <2>2 DEF LinkRecords
  <2>5. SafOccupancy(link[l]) = 0
    <3> DEFINE len == [k \in Flows |-> Len(link[l].saf[k])]
    <3>1. \A k \in Flows : len[k] = 0
      BY <2>3, <2>4
    <3>2. SafOccupancy(link[l]) = Len(link[l].mem) + SumFunctionOnSet(len, Flows)
      BY DEF SafOccupancy, SumFunction
    <3> HIDE DEF len
    <3>3. SumFunctionOnSet(len, Flows) = 0
      BY <3>1, SumZero, LedgerAssumption
    <3> QED BY <2>4, <3>2, <3>3
  <2>6. Bounded(link[l])
    BY <2>4, LinkConstants DEF Bounded
  <2> QED BY <2>4, <2>5, <2>6, LinkConstants DEF LinkOK
<1>4. ASSUME NEW c \in Routers
      PROVE  CoreOK(c, core[c]) /\ Signals(core[c]) /\ Takes(core[c], None, None)
  <2>1. PICK prog \in Programs :
          core[c] = [prog |-> prog[c], phase |-> "idle", next |-> 0, acks |-> {},
                     REQUEST |-> <<>>, ACK |-> <<>>, DATA |-> <<>>, answers |-> <<>>,
                     ready |-> FALSE, count |-> 0, ends |-> {}, busy |-> FALSE,
                     cbusy |-> FALSE, recheck |-> FALSE, response |-> 0,
                     tx |-> None, ctx |-> None, faults |-> {}]
    BY DEF Init
  <2>2. prog[c] \in Seq(SUBSET Flows) /\ Numbered(c, prog[c])
    <3>1. prog[c] \in Seq(SUBSET Flows)
      BY ProgramAssumption
    <3>2. \A i \in DOMAIN prog[c] : IsSent(c, prog[c][i]) =>
            {k.sub : k \in prog[c][i]} = 0 .. Cardinality(prog[c][i]) - 1
      <4> SUFFICES ASSUME NEW i \in DOMAIN prog[c], IsSent(c, prog[c][i])
                   PROVE  {k.sub : k \in prog[c][i]} = 0 .. Cardinality(prog[c][i]) - 1
        OBVIOUS
      <4> QED BY ProgramAssumption, SMT
    <3>3. DOMAIN prog[c] = 1..Len(prog[c])
      BY <3>1
    <3> QED BY <3>1, <3>2, <3>3, Zenon DEF Numbered
  <2>3. /\ core[c] \in CoreRecords /\ core[c].prog = prog[c] /\ core[c].phase = "idle"
        /\ core[c].REQUEST = <<>> /\ core[c].ACK = <<>> /\ core[c].DATA = <<>>
    BY <2>1, <2>2 DEF CoreRecords, Phases
  <2>4. CoreOK(c, core[c])
    BY <2>2, <2>3 DEF CoreOK, Serves
  <2>5. Signals(core[c]) /\ Takes(core[c], None, None)
    BY <2>3, RouterAssumption DEF Signals, Takes, Weight
  <2> QED BY <2>4, <2>5
<1>5. MemoryOK
  <2> DEFINE p == [c \in Routers |-> 0]
  <2>1. memory = [partial |-> p, completed |-> <<>>, active |-> None, served |-> FALSE]
    BY DEF Init
  <2>2. p \in [Routers -> Nat]
    OBVIOUS
  <2> HIDE DEF p
  <2> QED BY <2>1, <2>2, ProgramConstants DEF MemoryOK, MemoryRecords
<1>6. Types
  <2>1. router = [r \in Routers |-> router[r]] /\ core = [c \in Routers |-> core[c]]
        /\ halted \in BOOLEAN
    BY DEF Init, RouterInit
  <2>2. \A l \in Links : 0 \in 0..PortRate[l].den /\ 0 \in 0..LinkRate[l].den
    BY LinkConstants
  <2> QED BY <1>2, <1>3, <1>4, <1>5, <2>1, <2>2 DEF Types
<1>7. CreditsConserved /\ CreditsPositive
  <2> SUFFICES ASSUME NEW l \in Links
               PROVE  LET r == router[Source[l]]
                      IN  /\ SafDepth = r.credit[l] + Len(AsSeq(r.tx[l])) + SafOccupancy(link[l])
                                           + IF r.seen[l] # link[l].dataCredit THEN 1 ELSE 0
                          /\ CtrlDepth = r.ccredit[l] + Len(AsSeq(r.ctx[l])) + Len(link[l].ctrl)
                                           + IF r.cseen[l] # link[l].ctrlCredit THEN 1 ELSE 0
                          /\ r.credit[l] >= 0 /\ r.ccredit[l] >= 0
    BY DEF CreditsConserved, CreditsPositive
  <2> DEFINE r == router[Source[l]]
  <2>1. /\ r.credit[l] = SafDepth /\ r.ccredit[l] = CtrlDepth /\ r.seen[l] = FALSE
        /\ r.cseen[l] = FALSE /\ r.tx[l] = None /\ r.ctx[l] = None
    <3>1. Source[l] \in Routers /\ l \in LinkOuts(Source[l]) /\ l \in OutPorts(Source[l])
      BY SourceFacts
    <3>2. /\ r.credit = [x \in LinkOuts(Source[l]) |-> SafDepth]
          /\ r.ccredit = [x \in LinkOuts(Source[l]) |-> CtrlDepth]
          /\ r.seen = [x \in LinkOuts(Source[l]) |-> FALSE]
          /\ r.cseen = [x \in LinkOuts(Source[l]) |-> FALSE]
          /\ r.tx = [x \in OutPorts(Source[l]) |-> None]
          /\ r.ctx = [x \in OutPorts(Source[l]) |-> None]
      BY <1>2, <3>1, Zenon
    <3> HIDE DEF r
    <3> QED BY <3>1, <3>2, Zenon
  <2>2. Len(AsSeq(r.tx[l])) = 0 /\ Len(AsSeq(r.ctx[l])) = 0
    BY <2>1 DEF AsSeq
  <2> HIDE DEF r
  <2>3. /\ SafDepth = r.credit[l] + Len(AsSeq(r.tx[l])) + SafOccupancy(link[l])
                       + IF r.seen[l] # link[l].dataCredit THEN 1 ELSE 0
        /\ CtrlDepth = r.ccredit[l] + Len(AsSeq(r.ctx[l])) + Len(link[l].ctrl)
                       + IF r.cseen[l] # link[l].ctrlCredit THEN 1 ELSE 0
        /\ r.credit[l] >= 0 /\ r.ccredit[l] >= 0
    <3> DEFINE x == IF r.seen[l] # link[l].dataCredit THEN 1 ELSE 0
               y == IF r.cseen[l] # link[l].ctrlCredit THEN 1 ELSE 0
    <3>1. r.seen[l] = link[l].dataCredit /\ r.cseen[l] = link[l].ctrlCredit
      BY <1>3, <2>1, Zenon
    <3>2. x = 0 /\ y = 0
      BY <3>1, Zenon
    <3> HIDE DEF x, y
    <3>3. SafOccupancy(link[l]) = 0 /\ Len(link[l].ctrl) = 0 /\ r.credit[l] = SafDepth
          /\ r.ccredit[l] = CtrlDepth
      BY <1>3, <2>1, Zenon
    <3>4. SafDepth \in Nat /\ CtrlDepth \in Nat
      BY LinkConstants
    <3>5. /\ SafDepth = r.credit[l] + Len(AsSeq(r.tx[l])) + SafOccupancy(link[l]) + x
          /\ CtrlDepth = r.ccredit[l] + Len(AsSeq(r.ctx[l])) + Len(link[l].ctrl) + y
          /\ r.credit[l] >= 0 /\ r.ccredit[l] >= 0
      BY <2>2, <3>2, <3>3, <3>4
    <3> QED BY <3>5, Zenon DEF x, y
  <2> QED BY <2>3 DEF r
<1>8. NothingOverflows
  BY <1>2, <1>3 DEF NothingOverflows, Overflows, CreditFaults
<1>9. BuffersHeld
  <2>1. ASSUME NEW c \in Routers
        PROVE  router[c].tx[Center] = None /\ router[c].ctx[Center] = None
    <3>1. /\ router[c].tx = [p \in OutPorts(c) |-> None]
          /\ router[c].ctx = [p \in OutPorts(c) |-> None] /\ Center \in OutPorts(c)
      BY <1>2, Zenon DEF OutPorts
    <3> QED BY <3>1, Zenon
  <2> QED BY <1>4, <2>1, Zenon DEF BuffersHeld
<1> QED BY <1>1, <1>6, <1>7, <1>8, <1>9 DEF FabricInv

\* A step of one core leaves the others alone.
LEMMA OneCore ==
  ASSUME Types, NEW c \in Routers, NEW x, CoreOK(c, x), Shrinks(core[c], x),
         core' = [core EXCEPT ![c] = x]
  PROVE  /\ core' = [d \in Routers |-> core'[d]]
         /\ \A d \in Routers : CoreOK(d, core'[d]) /\ Shrinks(core[d], core'[d])
<1>1. core = [d \in Routers |-> core[d]] /\ \A d \in Routers : CoreOK(d, core[d])
  BY DEF Types
<1>2. \A d \in Routers : core'[d] = IF d = c THEN x ELSE core[d]
  BY <1>1
<1>3. core' = [d \in Routers |-> core'[d]]
  BY <1>1
<1>4. \A d \in Routers : Shrinks(core[d], core[d])
  BY <1>1, ShrinksNot DEF CoreOK
<1> QED BY <1>1, <1>2, <1>3, <1>4

\* A step of one router leaves the others alone.
LEMMA OneRouter ==
  ASSUME Types, NEW r \in Routers, NEW x, RouterOK(r, x), SameCredits(router[r], x),
         router' = [router EXCEPT ![r] = x]
  PROVE  /\ router' = [d \in Routers |-> router'[d]]
         /\ \A d \in Routers : RouterOK(d, router'[d]) /\ SameCredits(router[d], router'[d])
<1>1. router = [d \in Routers |-> router[d]] /\ \A d \in Routers : RouterOK(d, router[d])
  BY DEF Types
<1>2. \A d \in Routers : router'[d] = IF d = r THEN x ELSE router[d]
  BY <1>1
<1>3. router' = [d \in Routers |-> router'[d]]
  BY <1>1
<1>4. \A d \in Routers : SameCredits(router[d], router[d])
  BY DEF SameCredits
<1> QED BY <1>1, <1>2, <1>3, <1>4

\* SEND_REQ.
LEMMA StartSendInv ==
  ASSUME FabricInv, NEW c \in Routers, StartSend(c)
  PROVE  FabricInv'
<1> DEFINE K == Head(core[c].prog)
<1>1. Types /\ LedgerInv /\ CreditsConserved /\ CreditsPositive /\ NothingOverflows /\ BuffersHeld
  BY DEF FabricInv
<1>2. /\ core[c] \in CoreRecords /\ core[c].prog \in Seq(SUBSET Flows) /\ Numbered(c, core[c].prog)
      /\ core[c].prog # <<>> /\ IsSent(c, K) /\ K # {} /\ core[c].phase = "idle"
      /\ core[c].faults \in SUBSET CoreFaults
      /\ core = [d \in Routers |-> core[d]]
  BY <1>1, CoreFields DEF Types, CoreOK, Serves, StartSend, IsSent
<1>3. K \in SUBSET Flows /\ {k.sub : k \in K} = 0..Cardinality(K) - 1
  BY <1>2, ProgramFacts
<1>4. Sub(K, 0) \in Flows
  <2> HIDE DEF K
  <2>1. Cardinality(K) \in Nat \ {0} /\ \A i \in 0..Cardinality(K) - 1 : Sub(K, i) \in K
    BY <1>2, <1>3, SubflowFacts
  <2>2. 0 \in 0..Cardinality(K) - 1
    BY <2>1
  <2> QED BY <1>3, <2>1, <2>2
<1>5. UNCHANGED <<link, router, memory>>
  BY DEF StartSend, linkVars
<1>6. /\ LedgerInv' /\ halted' \in BOOLEAN
      /\ core' = [d \in Routers |-> core'[d]]
      /\ \A d \in Routers : CoreOK(d, core'[d]) /\ Shrinks(core[d], core'[d])
  <2>1. CASE /\ ReserveSafPlans(K)
             /\ core' = [core EXCEPT ![c].ctx = Request(Sub(K, 0)), ![c].next = 1,
                                     ![c].phase = "req"]
             /\ UNCHANGED halted
    <3> DEFINE f == Request(Sub(K, 0))
               x == [core[c] EXCEPT !.ctx = f, !.next = 1, !.phase = "req"]
    <3>1. LedgerInv'
      <4> HIDE DEF K
      <4> QED BY <1>1, <1>3, <2>1, ReserveInv
    <3>2. f \in CtrlFlits
      BY <1>4, FlitTypes
    <3>3. core' = [core EXCEPT ![c] = x]
      BY <1>2, <2>1
    <3> HIDE DEF f
    <3>4. /\ x \in CoreRecords /\ x.prog = core[c].prog /\ x.phase = "req"
          /\ x.REQUEST = core[c].REQUEST /\ x.DATA = core[c].DATA /\ x.ACK = core[c].ACK
          /\ x.busy = core[c].busy /\ x.cbusy = core[c].cbusy
      BY <1>2, <3>2 DEF CoreRecords, Phases
    <3> HIDE DEF x
    <3>5. CoreOK(c, x) /\ Shrinks(core[c], x)
      BY <1>2, <3>4, SameBuffers DEF CoreOK, Serves
    <3>6. /\ core' = [d \in Routers |-> core'[d]]
          /\ \A d \in Routers : CoreOK(d, core'[d]) /\ Shrinks(core[d], core'[d])
      BY <1>1, <3>3, <3>5, OneCore
    <3> QED BY <1>1, <2>1, <3>1, <3>6 DEF Types
  <2>2. CASE /\ halted' = TRUE
             /\ core' = [core EXCEPT ![c].faults =
                           FaultIf(~DuplicateFlow(K) /\ Fits(K), "commit mismatch")]
             /\ UNCHANGED ledgerVars
    <3> DEFINE e == FaultIf(~DuplicateFlow(K) /\ Fits(K), "commit mismatch")
               x == [core[c] EXCEPT !.faults = e]
    <3>1. e \in SUBSET CoreFaults
      BY DEF FaultIf, CoreFaults
    <3>2. core' = [core EXCEPT ![c] = x]
      BY <1>2, <2>2
    <3> HIDE DEF e
    <3>3. /\ x \in CoreRecords /\ x.prog = core[c].prog /\ x.phase = "idle"
          /\ x.REQUEST = core[c].REQUEST /\ x.DATA = core[c].DATA /\ x.ACK = core[c].ACK
          /\ x.busy = core[c].busy /\ x.cbusy = core[c].cbusy
      BY <1>2, <3>1 DEF CoreRecords
    <3> HIDE DEF x
    <3>4. CoreOK(c, x) /\ Shrinks(core[c], x)
      BY <1>2, <3>3, SameBuffers DEF CoreOK, Serves
    <3>5. /\ core' = [d \in Routers |-> core'[d]]
          /\ \A d \in Routers : CoreOK(d, core'[d]) /\ Shrinks(core[d], core'[d])
      BY <1>1, <3>2, <3>4, OneCore
    <3> QED BY <1>1, <2>2, <3>5, LedgerUnchanged
  <2> QED BY <2>1, <2>2 DEF StartSend
<1>7. Types'
  BY <1>1, <1>5, <1>6, Zenon DEF Types, MemoryOK
<1>8. \A r \in Routers : SameCredits(router[r], router'[r])
  BY <1>5 DEF SameCredits
<1>9. CreditsConserved' /\ CreditsPositive' /\ NothingOverflows' /\ BuffersHeld'
  BY <1>1, <1>5, <1>6, <1>7, <1>8, CreditsUntouched, HeldUntouched
<1> QED BY <1>6, <1>7, <1>9 DEF FabricInv

\* A memory access begins.
LEMMA StartMemInv ==
  ASSUME FabricInv, NEW c \in Routers, StartMem(c)
  PROVE  FabricInv'
<1> DEFINE q == Copies(MemRequest(c), ReqFlits)
           x == [core[c] EXCEPT !.phase = "mem", !.response = 0]
           y == InjectRequests([router[c] EXCEPT !.req = q])
<1>1. Types /\ LedgerInv /\ CreditsConserved /\ CreditsPositive /\ NothingOverflows /\ BuffersHeld
  BY DEF FabricInv
<1>2. /\ core[c] \in CoreRecords /\ Numbered(c, core[c].prog) /\ core[c].prog # <<>>
      /\ core = [d \in Routers |-> core[d]]
  BY <1>1 DEF Types, CoreOK, Serves, StartMem
<1>3. UNCHANGED <<link, memory, halted, ledgerVars>>
  BY DEF StartMem, linkVars
<1>4. core' = [core EXCEPT ![c] = x]
  BY <1>2 DEF StartMem
<1>5. /\ x \in CoreRecords /\ x.prog = core[c].prog /\ x.phase = "mem"
      /\ x.REQUEST = core[c].REQUEST /\ x.DATA = core[c].DATA /\ x.ACK = core[c].ACK
      /\ x.busy = core[c].busy /\ x.cbusy = core[c].cbusy
  BY <1>2 DEF CoreRecords, Phases
<1>6. q \in Seq(DataFlits)
  BY FlitTypes, CopiesType, ProgramConstants
<1>7. router' = [router EXCEPT ![c] = y]
  BY DEF StartMem
<1> HIDE DEF q
<1>8. RouterOK(c, y) /\ SameCredits(router[c], y)
  <2>1. <<>> \in Seq(CtrlFlits) /\ RouterOK(c, router[c])
    BY <1>1 DEF Types
  <2> QED BY <1>6, <2>1, InjectedType
<1> HIDE DEF x, y
<1>9. CoreOK(c, x) /\ Shrinks(core[c], x)
  BY <1>2, <1>5, SameBuffers DEF CoreOK, Serves
<1>10. /\ core' = [d \in Routers |-> core'[d]]
       /\ \A d \in Routers : CoreOK(d, core'[d]) /\ Shrinks(core[d], core'[d])
  BY <1>1, <1>4, <1>9, OneCore
<1>11. /\ router' = [d \in Routers |-> router'[d]]
       /\ \A d \in Routers : RouterOK(d, router'[d]) /\ SameCredits(router[d], router'[d])
  BY <1>1, <1>7, <1>8, OneRouter
<1>12. Types'
  BY <1>1, <1>3, <1>10, <1>11, Zenon DEF Types, MemoryOK
<1>13. CreditsConserved' /\ CreditsPositive' /\ NothingOverflows' /\ BuffersHeld'
  BY <1>1, <1>3, <1>10, <1>11, <1>12, CreditsUntouched, HeldUntouched
<1>14. LedgerInv'
  BY <1>1, <1>3, LedgerUnchanged
<1> QED BY <1>12, <1>13, <1>14 DEF FabricInv

\* A step of one core that adds nothing to its buffers and touches nothing else.
LEMMA CoreStepInv ==
  ASSUME FabricInv, NEW c \in Routers, NEW x, CoreOK(c, x), Shrinks(core[c], x),
         core' = [core EXCEPT ![c] = x],
         UNCHANGED <<link, router, memory, halted, ledgerVars>>
  PROVE  FabricInv'
<1>1. Types /\ LedgerInv /\ CreditsConserved /\ CreditsPositive /\ NothingOverflows /\ BuffersHeld
  BY DEF FabricInv
<1>2. /\ core' = [d \in Routers |-> core'[d]]
      /\ \A d \in Routers : CoreOK(d, core'[d]) /\ Shrinks(core[d], core'[d])
  BY <1>1, OneCore
<1>3. Types'
  BY <1>1, <1>2, Zenon DEF Types, MemoryOK
<1>4. \A r \in Routers : SameCredits(router[r], router'[r])
  BY DEF SameCredits
<1>5. CreditsConserved' /\ CreditsPositive' /\ NothingOverflows' /\ BuffersHeld'
  BY <1>1, <1>2, <1>3, <1>4, CreditsUntouched, HeldUntouched
<1>6. LedgerInv'
  BY <1>1, LedgerUnchanged
<1> QED BY <1>3, <1>5, <1>6 DEF FabricInv

\* RECV_DATA begins.
LEMMA StartRecvInv ==
  ASSUME FabricInv, NEW c \in Routers, StartRecv(c)
  PROVE  FabricInv'
<1> DEFINE s == [core[c] EXCEPT !.phase = "recv", !.ready = TRUE, !.count = 0, !.ends = {}]
           n == Notice(s)
           x == SendAck(c, n)
<1>1. /\ core[c] \in CoreRecords /\ Numbered(c, core[c].prog) /\ core[c].prog # <<>>
      /\ core = [d \in Routers |-> core[d]]
  BY DEF FabricInv, Types, CoreOK, Serves, StartRecv
<1>2. core' = [core EXCEPT ![c] = x] /\ UNCHANGED <<link, router, memory, halted, ledgerVars>>
  BY DEF StartRecv, linkVars
<1>3. /\ s \in CoreRecords /\ s.prog = core[c].prog /\ s.phase = "recv"
      /\ s.REQUEST = core[c].REQUEST /\ s.DATA = core[c].DATA /\ s.ACK = core[c].ACK
      /\ s.busy = core[c].busy /\ s.cbusy = core[c].cbusy
  BY <1>1 DEF CoreRecords, Phases
<1> HIDE DEF s
<1>4. CoreOK(c, s) /\ Shrinks(core[c], s)
  BY <1>1, <1>3, SameBuffers DEF CoreOK, Serves
<1>5. CoreOK(c, n) /\ Shrinks(s, n)
  BY <1>4, NoticeFacts
<1> HIDE DEF n
<1>6. CoreOK(c, x) /\ Shrinks(n, x)
  BY <1>5, SendAckFacts
<1> HIDE DEF x
<1>7. n \in CoreRecords /\ x \in CoreRecords
  BY <1>5, <1>6 DEF CoreOK
<1>8. Shrinks(core[c], n)
  BY <1>1, <1>3, <1>4, <1>5, <1>7, ShrinksFurther
<1>9. Shrinks(core[c], x)
  BY <1>1, <1>6, <1>7, <1>8, ShrinksFurther
<1> QED BY <1>2, <1>6, <1>9, CoreStepInv

\* A packet is received.
LEMMA RecvPacketInv ==
  ASSUME FabricInv, NEW c \in Routers, RecvPacket(c)
  PROVE  FabricInv'
<1> DEFINE s == core[c]
           K == Head(s.prog)
           f == Head(s.DATA)
           d == Tail(s.DATA)
           m == s.count + 1
           e == IF f.end THEN s.ends \cup {f.flow} ELSE s.ends
           over == /\ f.end
                   /\ Cardinality(e) = Cardinality(K)
                   /\ m >= Total(e)
           h == IF over THEN "idle" ELSE s.phase
           p == IF over THEN Tail(s.prog) ELSE s.prog
           b == FaultIf(\E k \in K : k.tag # f.flow.tag, "incompatible tag")
                  \cup FaultIf(f.end /\ f.flow \in s.ends, "duplicate DATA tail")
           x == [s EXCEPT !.DATA = d, !.ready = FALSE, !.count = m, !.ends = e,
                          !.phase = h, !.prog = p, !.faults = b]
<1>1. /\ s \in CoreRecords /\ Serves(c, s) /\ s.phase = "recv" /\ s.DATA # <<>>
      /\ core = [r \in Routers |-> core[r]]
  BY DEF FabricInv, Types, CoreOK, RecvPacket
<1>2. /\ s.prog \in Seq(SUBSET Flows) /\ s.DATA \in Seq(Payloads) /\ s.count \in Nat
      /\ s.ends \in SUBSET Flows /\ s.phase \in Phases
      /\ Len(s.REQUEST) \in Nat /\ Len(s.ACK) \in Nat /\ Len(s.DATA) \in Nat
  BY <1>1, CoreFields
<1>3. core' = [core EXCEPT ![c] = x] /\ UNCHANGED <<link, router, memory, halted, ledgerVars>>
  <2> DEFINE taken == [s EXCEPT !.DATA = Tail(@), !.ready = FALSE, !.count = @ + 1,
                                !.ends = IF f.end THEN @ \cup {f.flow} ELSE @]
             done == /\ f.end
                     /\ Cardinality(taken.ends) = Cardinality(K)
                     /\ taken.count >= Total(taken.ends)
             y == [taken EXCEPT !.phase = IF done THEN "idle" ELSE @,
                                !.prog = IF done THEN Tail(@) ELSE @,
                                !.faults = b]
  <2>1. core' = [core EXCEPT ![c] = y] /\ UNCHANGED <<link, router, memory, halted, ledgerVars>>
    BY DEF RecvPacket, linkVars
  <2>2. taken.ends = e /\ taken.count = m /\ taken.phase = s.phase /\ taken.prog = s.prog
        /\ taken = [s EXCEPT !.DATA = d, !.ready = FALSE, !.count = m, !.ends = e]
    BY <1>1 DEF CoreRecords
  <2>3. done <=> over
    BY <2>2
  <2> HIDE DEF taken, done, over, b, d, m, e, s
  <2>4. y = [taken EXCEPT !.phase = h, !.prog = p, !.faults = b]
    BY <2>2, <2>3
  <2> HIDE DEF h, p
  <2>5. y = x
    BY <1>1, <2>2, <2>4 DEF CoreRecords
  <2> QED BY <2>1, <2>5
<1>4. f \in Payloads /\ d \in Seq(Payloads) /\ Len(d) = Len(s.DATA) - 1
  BY <1>1, <1>2, HeadTail
<1>5. e \in SUBSET Flows /\ m \in Nat
  <2>1. f.flow \in Flows
    BY <1>4 DEF Payloads, DataFlits, IsMem
  <2> QED BY <1>2, <2>1
<1>6. /\ h \in Phases /\ p \in Seq(SUBSET Flows) /\ Numbered(c, p)
      /\ (h = "idle" \/ (h = "recv" /\ p # <<>>))
  <2>1. s.prog # <<>> /\ Numbered(c, s.prog)
    BY <1>1 DEF Serves
  <2>2. Tail(s.prog) \in Seq(SUBSET Flows) /\ Numbered(c, Tail(s.prog))
    BY <1>2, <2>1, ProgramFacts
  <2> HIDE DEF over, s
  <2> QED BY <1>1, <1>2, <2>1, <2>2 DEF Phases
<1>7. b \in SUBSET CoreFaults
  BY DEF FaultIf, CoreFaults
<1> HIDE DEF d, m, e, h, p, b, over
<1>8. /\ x \in CoreRecords /\ x.prog = p /\ x.phase = h /\ x.REQUEST = s.REQUEST
      /\ x.ACK = s.ACK /\ x.DATA = d /\ x.busy = s.busy /\ x.cbusy = s.cbusy
  <2> HIDE DEF s
  <2> QED BY <1>1, <1>4, <1>5, <1>6, <1>7 DEF CoreRecords
<1> HIDE DEF x
<1>9. CoreOK(c, x) /\ Shrinks(s, x)
  <2>1. CoreOK(c, x)
    BY <1>6, <1>8 DEF CoreOK, Serves
  <2>2. Shrinks(s, x)
    BY <1>2, <1>4, <1>8 DEF Shrinks
  <2> QED BY <2>1, <2>2
<1> QED BY <1>3, <1>9, CoreStepInv DEF s

\* The memory answers.
LEMMA MemCompleteInv ==
  ASSUME FabricInv, MemComplete
  PROVE  FabricInv'
<1> DEFINE q == Copies(MemResponse(memory.active), RspFlits)
           y == InjectResponses([router[MemTile] EXCEPT !.rsp = q])
<1>1. Types /\ LedgerInv /\ CreditsConserved /\ CreditsPositive /\ NothingOverflows /\ BuffersHeld
  BY DEF FabricInv
<1>2. memory \in MemoryRecords /\ memory.active \in Routers /\ MemTile \in Routers
      /\ Len(memory.completed) <= CompletedDepth
  BY <1>1, RouterAssumption DEF Types, MemoryOK, MemoryRecords, MemComplete
<1>3. UNCHANGED <<link, core, halted, ledgerVars>>
  BY DEF MemComplete, linkVars
<1>4. memory' \in MemoryRecords /\ memory'.completed = memory.completed
  BY <1>2 DEF MemComplete, MemoryRecords
<1>5. MemoryOK'
  BY <1>2, <1>4 DEF MemoryOK
<1>6. q \in Seq(CtrlFlits)
  BY <1>2, FlitTypes, CopiesType, ProgramConstants
<1>7. router' = [router EXCEPT ![MemTile] = y]
  BY DEF MemComplete
<1> HIDE DEF q
<1>8. RouterOK(MemTile, y) /\ SameCredits(router[MemTile], y)
  <2>1. <<>> \in Seq(DataFlits) /\ RouterOK(MemTile, router[MemTile])
    BY <1>1, <1>2 DEF Types
  <2> QED BY <1>2, <1>6, <2>1, InjectedType
<1> HIDE DEF y
<1>9. /\ router' = [d \in Routers |-> router'[d]]
      /\ \A d \in Routers : RouterOK(d, router'[d]) /\ SameCredits(router[d], router'[d])
  BY <1>1, <1>2, <1>7, <1>8, OneRouter
<1>10. Types'
  BY <1>1, <1>3, <1>5, <1>9, Zenon DEF Types
<1>11. CreditsConserved' /\ CreditsPositive' /\ NothingOverflows'
  BY <1>1, <1>3, <1>9, <1>10, CreditsUntouched
<1>12. LedgerInv'
  BY <1>1, <1>3, LedgerUnchanged
<1>13. BuffersHeld'
  <2>1. \A c \in Routers : Shrinks(core[c], core'[c])
    BY <1>1, <1>3, ShrinksNot DEF Types, CoreOK
  <2> QED BY <1>1, <1>9, <1>10, <2>1, HeldUntouched
<1> QED BY <1>10, <1>11, <1>12, <1>13 DEF FabricInv

\* A cycle.
LEMMA CycleInv ==
  ASSUME FabricInv, Cycle
  PROVE  FabricInv'
<1>1. Types /\ LedgerInv /\ CreditsConserved /\ CreditsPositive /\ NothingOverflows /\ BuffersHeld
  BY DEF FabricInv
<1>2. CreditBits
  BY <1>1 DEF Types, LinkOK, LinkRecords, CreditBits
<1>3. ASSUME NEW r \in Routers
      PROVE  /\ router[r] \in RouterRecords(r)
             /\ MemTaken(r) \in BOOLEAN
             /\ MemTaken(r) => router[r].ob[Center] # <<>>
             /\ DataWires(r) \in [InPorts(r) -> DataFlits \cup {None}]
             /\ CtrlWires(r) \in [InPorts(r) -> CtrlFlits \cup {None}]
             /\ router[r].faults = {}
             /\ router'[r] = RouterPass(r, DataWires(r), CtrlWires(r), Room(r), CtrlRoom(r),
                                        MemTaken(r), core[r].busy, core[r].cbusy)
  <2>1. RouterOK(r, router[r])
    BY <1>1 DEF Types
  <2>2. router[r].faults = {}
    BY DEF Cycle, Tick, Running
  <2>3. router'[r] = RouterPass(r, DataWires(r), CtrlWires(r), Room(r), CtrlRoom(r),
                                MemTaken(r), core[r].busy, core[r].cbusy)
    BY DEF Cycle
  <2> QED BY <1>1, <2>1, <2>2, <2>3, WireTypes, MemTakenFacts DEF RouterOK
<1>4. ASSUME NEW r \in Routers
      PROVE  /\ RouterOK(r, router'[r])
             /\ core[r].busy => router'[r].tx[Center] = None
             /\ core[r].cbusy => router'[r].ctx[Center] = None
             /\ \A l \in LinkOuts(r) : CreditsPassed(l, router[r], router'[r])
             /\ \/ CreditFaults(router'[r]) = {}
                \/ \E l \in LinkOuts(r) : CreditTooMany(l, router[r])
  <2> DEFINE d == DataWires(r)
             c == CtrlWires(r)
             m == MemTaken(r)
             b == core[r].busy
             cb == core[r].cbusy
             t == RouterPass(r, d, c, Room(r), CtrlRoom(r), m, b, cb)
  <2>1. /\ router[r] \in RouterRecords(r) /\ m \in BOOLEAN
        /\ m => router[r].ob[Center] # <<>>
        /\ d \in [InPorts(r) -> DataFlits \cup {None}]
        /\ c \in [InPorts(r) -> CtrlFlits \cup {None}]
        /\ router[r].faults = {} /\ router'[r] = t
    BY <1>3
  <2> HIDE DEF d, c, m, b, cb
  <2>2. /\ t \in RouterRecords(r)
        /\ Takeable(t.tx[Center], b)
        /\ Takeable(t.ctx[Center], cb)
        /\ \A l \in LinkOuts(r) : CreditsPassed(l, router[r], t)
        /\ CreditFaults(t) = {} \/ \E l \in LinkOuts(r) : CreditTooMany(l, router[r])
    BY <1>2, <2>1, RouterPassFacts
  <2> HIDE DEF t
  <2> QED BY <2>1, <2>2, Zenon DEF RouterOK, Takeable, b, cb
<1>5. ASSUME NEW l \in Links
      PROVE  LET s == router[Source[l]]
                 t == router'[Source[l]]
             IN  /\ s.credit[l] \in Int /\ s.ccredit[l] \in Int
                 /\ s.tx[l] \in DataFlits \cup {None} /\ s.ctx[l] \in CtrlFlits \cup {None}
                 /\ s.credit[l] >= 0 /\ s.ccredit[l] >= 0
                 /\ CreditsPassed(l, s, t)
  <2>1. Source[l] \in Routers /\ l \in LinkOuts(Source[l]) /\ l \in OutPorts(Source[l])
    BY SourceFacts
  <2>2. CreditsPassed(l, router[Source[l]], router'[Source[l]])
    BY <1>4, <2>1
  <2>3. router[Source[l]] \in RouterRecords(Source[l])
    BY <1>3, <2>1
  <2>4. router[Source[l]].credit[l] >= 0 /\ router[Source[l]].ccredit[l] >= 0
    BY <1>1 DEF CreditsPositive
  <2> QED BY <2>1, <2>2, <2>3, <2>4 DEF RouterRecords
<1>6. ASSUME NEW l \in Links
      PROVE  /\ LinkOK(link[l]) /\ LinkOK(link'[l])
             /\ link'[l].portTokens \in 0..PortRate[l].den
             /\ link'[l].tokens \in 0..LinkRate[l].den
             /\ RoomPassed(link[l], link'[l], router[Source[l]].tx[l], router[Source[l]].ctx[l])
  <2> DEFINE data == router[Source[l]].tx[l]
             ctrl == router[Source[l]].ctx[l]
             avail == router[Target[l]].avail[l]
             cavail == router[Target[l]].cavail[l]
             t == LinkStep(l, data, ctrl, avail, cavail)
  <2>1. link'[l] = t
    BY DEF Cycle
  <2>2. LinkOK(link[l]) /\ data \in DataFlits \cup {None} /\ ctrl \in CtrlFlits \cup {None}
    BY <1>1, <1>5 DEF Types
  <2> HIDE DEF data, ctrl, avail, cavail
  <2>3. /\ LinkOK(t) /\ RoomPassed(link[l], t, data, ctrl)
        /\ t.portTokens \in 0..PortRate[l].den /\ t.tokens \in 0..LinkRate[l].den
    BY <2>2, LinkStepFacts
  <2> HIDE DEF t
  <2> QED BY <2>1, <2>2, <2>3, Zenon DEF data, ctrl
<1>7. ASSUME NEW l \in Links
      PROVE  LET s == router[Source[l]]
                 t == router'[Source[l]]
             IN  /\ SafDepth = t.credit[l] + Len(AsSeq(t.tx[l])) + SafOccupancy(link'[l])
                                 + IF t.seen[l] # link'[l].dataCredit THEN 1 ELSE 0
                 /\ CtrlDepth = t.ccredit[l] + Len(AsSeq(t.ctx[l])) + Len(link'[l].ctrl)
                                 + IF t.cseen[l] # link'[l].ctrlCredit THEN 1 ELSE 0
                 /\ t.credit[l] >= 0 /\ t.ccredit[l] >= 0
                 /\ ~CreditTooMany(l, s)
                 /\ Overflows(link'[l]) = {}
  <2> DEFINE s == router[Source[l]]
             t == router'[Source[l]]
             x == link[l]
             y == link'[l]
  <2>1. /\ SafDepth = s.credit[l] + One(s.tx[l] # None) + SafOccupancy(x)
                        + One(s.seen[l] # x.dataCredit)
        /\ CtrlDepth = s.ccredit[l] + One(s.ctx[l] # None) + Len(x.ctrl)
                        + One(s.cseen[l] # x.ctrlCredit)
    <3>1. /\ SafDepth = s.credit[l] + Len(AsSeq(s.tx[l])) + SafOccupancy(x)
                          + IF s.seen[l] # x.dataCredit THEN 1 ELSE 0
          /\ CtrlDepth = s.ccredit[l] + Len(AsSeq(s.ctx[l])) + Len(x.ctrl)
                          + IF s.cseen[l] # x.ctrlCredit THEN 1 ELSE 0
      BY <1>1 DEF CreditsConserved
    <3>2. /\ Len(AsSeq(s.tx[l])) = One(s.tx[l] # None)
          /\ Len(AsSeq(s.ctx[l])) = One(s.ctx[l] # None)
      BY WireLength
    <3> HIDE DEF s, x
    <3> QED BY <3>1, <3>2, Zenon DEF One
  <2>2. /\ SafOccupancy(x) \in Nat /\ SafOccupancy(y) \in Nat
        /\ Len(x.ctrl) \in Nat /\ Len(y.ctrl) \in Nat
    <3>1. x \in LinkRecords /\ y \in LinkRecords
      BY <1>6 DEF LinkOK
    <3> HIDE DEF x, y
    <3>2. x.ctrl \in Seq(Timed(CtrlFlits)) /\ y.ctrl \in Seq(Timed(CtrlFlits))
      BY <3>1 DEF LinkRecords
    <3> QED BY <3>1, <3>2, OccupancyType
  <2>3. /\ s.credit[l] \in Int /\ s.ccredit[l] \in Int
        /\ s.credit[l] >= 0 /\ s.ccredit[l] >= 0
        /\ CreditsPassed(l, s, t)
    BY <1>5
  <2>4. RoomPassed(x, y, s.tx[l], s.ctx[l])
    BY <1>6
  <2>5. Overflows(x) = {}
    BY <1>1 DEF NothingOverflows
  <2>6. SafDepth \in Nat /\ CtrlDepth \in Nat
    BY LinkConstants
  <2> HIDE DEF s, t, x, y
  <2>7. /\ t.credit[l] = (s.credit[l] + One(x.dataCredit # s.seen[l])) - One(t.tx[l] # None)
        /\ t.tx[l] # None => s.credit[l] + One(x.dataCredit # s.seen[l]) > 0
        /\ t.seen[l] = x.dataCredit
        /\ SafOccupancy(x) + One(s.tx[l] # None) <= SafDepth =>
             SafOccupancy(y) + One(y.dataCredit # x.dataCredit)
               = SafOccupancy(x) + One(s.tx[l] # None)
    BY <2>3, <2>4, Zenon DEF CreditsPassed, RoomPassed, x
  <2>8. /\ t.ccredit[l] = (s.ccredit[l] + One(x.ctrlCredit # s.cseen[l])) - One(t.ctx[l] # None)
        /\ t.ctx[l] # None => s.ccredit[l] + One(x.ctrlCredit # s.cseen[l]) > 0
        /\ t.cseen[l] = x.ctrlCredit
        /\ Len(x.ctrl) + One(s.ctx[l] # None) <= CtrlDepth =>
             Len(y.ctrl) + One(y.ctrlCredit # x.ctrlCredit)
               = Len(x.ctrl) + One(s.ctx[l] # None)
    BY <2>3, <2>4, Zenon DEF CreditsPassed, RoomPassed, x
  <2>9. /\ SafDepth = t.credit[l] + One(t.tx[l] # None) + SafOccupancy(y)
                        + One(x.dataCredit # y.dataCredit)
        /\ t.credit[l] >= 0
        /\ SafOccupancy(x) + One(s.tx[l] # None) <= SafDepth
        /\ ~(x.dataCredit # s.seen[l] /\ s.credit[l] >= SafDepth)
    <3>1. ChannelCycle(SafDepth, s.credit[l], t.credit[l], SafOccupancy(x), SafOccupancy(y), s.seen[l],
                       x.dataCredit, y.dataCredit, s.tx[l], t.tx[l])
      BY <2>1, <2>2, <2>3, <2>6, <2>7, Zenon DEF ChannelCycle
    <3> QED BY <3>1, CreditsOfCycle
  <2>10. /\ CtrlDepth = t.ccredit[l] + One(t.ctx[l] # None) + Len(y.ctrl)
                        + One(x.ctrlCredit # y.ctrlCredit)
         /\ t.ccredit[l] >= 0
         /\ Len(x.ctrl) + One(s.ctx[l] # None) <= CtrlDepth
         /\ ~(x.ctrlCredit # s.cseen[l] /\ s.ccredit[l] >= CtrlDepth)
    <3>1. ChannelCycle(CtrlDepth, s.ccredit[l], t.ccredit[l], Len(x.ctrl), Len(y.ctrl), s.cseen[l],
                       x.ctrlCredit, y.ctrlCredit, s.ctx[l], t.ctx[l])
      BY <2>1, <2>2, <2>3, <2>6, <2>8, Zenon DEF ChannelCycle
    <3> QED BY <3>1, CreditsOfCycle
  <2>11. Overflows(y) = {}
    BY <2>4, <2>5, <2>9, <2>10, Zenon DEF RoomPassed
  <2>12. ~CreditTooMany(l, s)
    BY <2>9, <2>10, Zenon DEF CreditTooMany, x
  <2>13. /\ SafDepth = t.credit[l] + Len(AsSeq(t.tx[l])) + SafOccupancy(y)
                         + IF t.seen[l] # y.dataCredit THEN 1 ELSE 0
         /\ CtrlDepth = t.ccredit[l] + Len(AsSeq(t.ctx[l])) + Len(y.ctrl)
                         + IF t.cseen[l] # y.ctrlCredit THEN 1 ELSE 0
    BY <2>7, <2>8, <2>9, <2>10, WireLength, Zenon DEF One
  <2> QED BY <2>9, <2>10, <2>11, <2>12, <2>13, Zenon DEF s, t, y
<1>8. CreditsConserved' /\ CreditsPositive'
  BY <1>7, Zenon DEF CreditsConserved, CreditsPositive
<1>9. NothingOverflows'
  <2>1. ASSUME NEW r \in Routers PROVE CreditFaults(router'[r]) = {}
    <3>1. ASSUME NEW l \in LinkOuts(r) PROVE ~CreditTooMany(l, router[r])
      <4>1. l \in Links /\ Source[l] = r
        BY DEF LinkOuts, OutEdges
      <4> QED BY <1>7, <4>1, Zenon
    <3> QED BY <1>4, <3>1
  <2>2. \A l \in Links : Overflows(link'[l]) = {}
    BY <1>7, Zenon
  <2> QED BY <2>1, <2>2, Zenon DEF NothingOverflows
<1>10. LedgerInv'
  <2> DEFINE R == UNION {{<<l, k>> : k \in {link'[l].leaves} \ {None}} : l \in Links}
  <2>1. ASSUME NEW l \in Links PROVE link'[l].leaves \in Flows \cup {None}
    <3>1. link'[l] \in LinkRecords
      BY <1>6 DEF LinkOK
    <3> QED BY <3>1 DEF LinkRecords
  <2>2. R \in SUBSET (Links \X Flows)
    BY <2>1
  <2>3. ReleaseSafLinks(R)
    BY DEF Cycle
  <2> HIDE DEF R
  <2> QED BY <1>1, <2>2, <2>3, ReleaseInv
<1>11. MemoryOK'
  <2>1. RouterOK(MemTile, router[MemTile]) /\ MemoryOK
    BY <1>1, RouterAssumption DEF Types
  <2>2. memory' = WorkerStep(Assemble(memory), router'[MemTile].rsp = <<>>)
    BY DEF Cycle
  <2> QED BY <2>1, <2>2, MemoryCycleType, Zenon DEF MemoryOK
<1>12. ASSUME NEW c \in Routers
       PROVE  /\ CoreOK(c, core'[c]) /\ Signals(core'[c])
              /\ Fed(core[c], core'[c], router[c].tx[Center], router[c].ctx[Center])
  <2>1. core'[c] = CoreCycle(c)
    BY DEF Cycle
  <2>2. RouterOK(c, router[c]) /\ CoreOK(c, core[c]) /\ Signals(core[c])
    BY <1>1 DEF Types, BuffersHeld
  <2> QED BY <2>1, <2>2, CoreCycleFacts
<1>13. Types'
  <2>1. router' = [r \in Routers |-> router'[r]]
    BY DEF Cycle
  <2>2. core' = [c \in Routers |-> core'[c]]
    BY DEF Cycle
  <2>3. halted' \in BOOLEAN
    BY <1>1 DEF Cycle, Types
  <2> QED BY <1>4, <1>6, <1>11, <1>12, <2>1, <2>2, <2>3, Zenon DEF Types
<1>14. BuffersHeld'
  <2> SUFFICES ASSUME NEW c \in Routers
               PROVE  /\ Signals(core'[c])
                      /\ Takes(core'[c], router'[c].tx[Center], router'[c].ctx[Center])
    BY Zenon DEF BuffersHeld
  <2> DEFINE s == core[c]
             t == core'[c]
             data == router[c].tx[Center]
             ctrl == router[c].ctx[Center]
             data2 == router'[c].tx[Center]
             ctrl2 == router'[c].ctx[Center]
  <2>1. Signals(t) /\ Fed(s, t, data, ctrl) /\ s \in CoreRecords /\ t \in CoreRecords
    BY <1>1, <1>12 DEF Types, CoreOK
  <2>2. (s.busy => data2 = None) /\ (s.cbusy => ctrl2 = None)
    BY <1>4
  <2>3. Signals(s) /\ Takes(s, data, ctrl)
    BY <1>1 DEF BuffersHeld
  <2> HIDE DEF s, t, data, ctrl, data2, ctrl2
  <2>4. /\ Len(s.REQUEST) \in Nat /\ Len(s.ACK) \in Nat /\ Len(s.DATA) \in Nat
        /\ Len(t.REQUEST) \in Nat /\ Len(t.ACK) \in Nat /\ Len(t.DATA) \in Nat
        /\ BufDepth \in Nat
    BY <2>1, CoreFields, RouterAssumption
  <2>5. /\ Weight(data) \in Nat /\ Weight(ctrl) \in Nat
        /\ Weight(data) <= 1 /\ Weight(ctrl) <= 1
        /\ Weight(data2) \in Nat /\ Weight(data2) <= 1
        /\ Weight(ctrl2) \in Nat /\ Weight(ctrl2) <= 1
        /\ s.busy => Weight(data2) = 0
        /\ s.cbusy => Weight(ctrl2) = 0
    BY <2>2, WeightFacts
  <2>6. Len(t.DATA) + Weight(data2) <= BufDepth + 1
    <3>1. CASE s.busy
      <4>1. Len(t.DATA) <= Len(s.DATA) + Weight(data)
        BY <2>1 DEF Fed
      <4>2. Len(s.DATA) + Weight(data) <= BufDepth + 1
        BY <2>3 DEF Takes
      <4>3. Weight(data2) = 0
        BY <2>5, <3>1
      <4> QED BY <2>4, <2>5, <4>1, <4>2, <4>3, Kept
    <3>2. CASE ~s.busy
      <4>1. Len(t.DATA) <= Len(s.DATA) + Weight(data)
        BY <2>1 DEF Fed
      <4>2. Len(s.DATA) < BufDepth
        BY <2>3, <3>2 DEF Signals
      <4> QED BY <2>4, <2>5, <4>1, <4>2, Kept
    <3> QED BY <3>1, <3>2
  <2>7. /\ Len(t.REQUEST) + Weight(ctrl2) <= BufDepth + 1
        /\ Len(t.ACK) + Weight(ctrl2) <= BufDepth + 1
    <3>1. CASE s.cbusy
      <4>1. Len(t.REQUEST) <= Len(s.REQUEST) + Weight(ctrl) /\ Len(t.ACK) <= Len(s.ACK) + Weight(ctrl)
        BY <2>1 DEF Fed
      <4>2. Len(s.REQUEST) + Weight(ctrl) <= BufDepth + 1 /\ Len(s.ACK) + Weight(ctrl) <= BufDepth + 1
        BY <2>3 DEF Takes
      <4>3. Weight(ctrl2) = 0
        BY <2>5, <3>1
      <4> QED BY <2>4, <2>5, <4>1, <4>2, <4>3, Kept
    <3>2. CASE ~s.cbusy
      <4>1. Len(t.REQUEST) <= Len(s.REQUEST) + Weight(ctrl) /\ Len(t.ACK) <= Len(s.ACK) + Weight(ctrl)
        BY <2>1 DEF Fed
      <4>2. Len(s.REQUEST) < BufDepth /\ Len(s.ACK) < BufDepth
        BY <2>3, <3>2 DEF Signals
      <4> QED BY <2>4, <2>5, <4>1, <4>2, Kept
    <3> QED BY <3>1, <3>2
  <2>8. Signals(t) /\ Takes(t, data2, ctrl2)
    BY <2>1, <2>6, <2>7 DEF Takes
  <2> QED BY <2>8 DEF t, data2, ctrl2
<1> QED BY <1>8, <1>9, <1>10, <1>13, <1>14 DEF FabricInv

\* Nothing happens.
LEMMA StutterInv ==
  ASSUME FabricInv, UNCHANGED vars
  PROVE  FabricInv'
<1>1. UNCHANGED <<router, core, link, memory, halted, ledgerVars>>
  BY DEF vars, linkVars
<1>2. Types'
  BY <1>1, Zenon DEF FabricInv, Types, MemoryOK
<1>3. \A r \in Routers : SameCredits(router[r], router'[r])
  BY <1>1 DEF SameCredits
<1>4. CreditsConserved' /\ CreditsPositive' /\ NothingOverflows'
  BY <1>1, <1>2, <1>3, CreditsUntouched DEF FabricInv
<1>5. LedgerInv'
  BY <1>1, LedgerUnchanged DEF FabricInv
<1>6. BuffersHeld'
  BY <1>1, Zenon DEF FabricInv, BuffersHeld, Signals, Takes
<1> QED BY <1>2, <1>4, <1>5, <1>6 DEF FabricInv

\* Every step keeps the invariant.
LEMMA FabricStep == FabricInv /\ [Next]_vars => FabricInv'
<1> SUFFICES ASSUME FabricInv, [Next]_vars PROVE FabricInv'
  OBVIOUS
<1>1. CASE Cycle
  BY <1>1, CycleInv
<1>2. CASE MemComplete
  BY <1>2, MemCompleteInv
<1>3. ASSUME NEW c \in Routers, Begin(c) \/ RecvPacket(c)
      PROVE  FabricInv'
  BY <1>3, StartSendInv, StartMemInv, StartRecvInv, RecvPacketInv DEF Begin
<1>4. CASE UNCHANGED vars
  BY <1>4, StutterInv
<1> QED BY <1>1, <1>2, <1>3, <1>4 DEF Next

\* The inductive invariant always holds.
LEMMA AlwaysInv == Spec => []FabricInv
BY InitInv, FabricStep, PTL DEF Spec
-----------------------------------------------------------------------------
(* Theorems.                                                               *)

\* The books, the stages, the receive and control queues, the token buckets and
\* the data output buffers of the routers stay within their bounds, whatever is
\* sent: the SAF stage never holds more packets than saf_depth although memory
\* flits, which have no reservation, share it with reserved DATA.  The message
\* buffers of a core exceed MAX_BUFFER_PACKET_SIZE by one packet at most, the one
\* that the router has sent before the registered core_busy_o or ctrl_core_busy_o
\* reached it.
THEOREM Bounds == Spec => []TypeOK
<1>1. FabricInv => TypeOK
  <2> SUFFICES ASSUME FabricInv PROVE TypeOK
    OBVIOUS
  <2>1. /\ reserved \in [Books -> 0..SafDepth]
        /\ \A k \in Flows : flowLinks[k] \subseteq Links /\ flowGroups[k] \subseteq Groups
    BY DEF FabricInv, LedgerInv, LedgerTypes, LedgerBalanced
  <2>2. ASSUME NEW l \in Links
        PROVE  /\ SafOccupancy(link[l]) \in 0..SafDepth
               /\ Len(link[l].inflight) \in 0..DataDepth
               /\ Len(link[l].rx) \in 0..RxDepth
               /\ Len(link[l].ctrl) \in 0..CtrlDepth
               /\ link[l].portTokens \in 0..PortRate[l].den
               /\ link[l].tokens \in 0..LinkRate[l].den
    <3>1. /\ link[l] \in LinkRecords /\ Bounded(link[l]) /\ SafOccupancy(link[l]) <= SafDepth
          /\ link[l].portTokens \in 0..PortRate[l].den /\ link[l].tokens \in 0..LinkRate[l].den
      BY DEF FabricInv, Types, LinkOK
    <3>2. /\ Len(link[l].inflight) \in Nat /\ Len(link[l].rx) \in Nat
          /\ Len(link[l].ctrl) \in Nat
      BY <3>1, SMTT(30) DEF LinkRecords
    <3>3. SafOccupancy(link[l]) \in Nat
      BY <3>1, OccupancyType
    <3> QED BY <3>1, <3>2, <3>3, LinkConstants DEF Bounded
  <2>3. ASSUME NEW r \in Routers
        PROVE  /\ \A p \in OutPorts(r) : Len(router[r].ob[p]) <= BufDepth
               /\ core[r].phase \in Phases
               /\ \A q \in {core[r].REQUEST, core[r].ACK, core[r].DATA} : Len(q) <= BufDepth + 1
    <3>1. router[r] \in RouterRecords(r) /\ core[r] \in CoreRecords
      BY DEF FabricInv, Types, RouterOK, CoreOK
    <3>2. router[r].ob \in [OutPorts(r) -> Buffers] /\ core[r].phase \in Phases
      BY <3>1 DEF RouterRecords, CoreRecords
    <3>3. Takes(core[r], router[r].tx[Center], router[r].ctx[Center])
      BY DEF FabricInv, BuffersHeld
    <3>4. /\ Len(core[r].REQUEST) \in Nat /\ Len(core[r].ACK) \in Nat
          /\ Len(core[r].DATA) \in Nat /\ BufDepth \in Nat
      BY <3>1, CoreFields, RouterAssumption
    <3>5. /\ Len(core[r].REQUEST) <= BufDepth + 1 /\ Len(core[r].ACK) <= BufDepth + 1
          /\ Len(core[r].DATA) <= BufDepth + 1
      <4> DEFINE data == router[r].tx[Center]
                 ctrl == router[r].ctx[Center]
      <4> HIDE DEF data, ctrl
      <4>1. Weight(data) \in {0, 1} /\ Weight(ctrl) \in {0, 1}
        BY WeightFacts
      <4>2. Takes(core[r], data, ctrl)
        BY <3>3 DEF data, ctrl
      <4> QED BY <3>4, <4>1, <4>2 DEF Takes
    <3> QED BY <3>2, <3>5 DEF Buffers
  <2>4. Len(memory.completed) <= CompletedDepth /\ halted \in BOOLEAN
    BY DEF FabricInv, Types, MemoryOK
  <2> QED BY <2>1, <2>2, <2>3, <2>4 DEF TypeOK
<1> QED BY <1>1, AlwaysInv, PTL

\* A slot of a link's SAF stage or of its control FIFO is never lost and never
\* counted twice, however router passes, link steps and toggled bits follow each
\* other.
THEOREM CreditsNeverLeak == Spec => []CreditsConserved
<1>1. FabricInv => CreditsConserved
  BY DEF FabricInv
<1> QED BY <1>1, AlwaysInv, PTL

\* What is booked on a link or a group is what its flows hold there.
THEOREM BooksBalanced == Spec => []LedgerBalanced
<1>1. FabricInv => LedgerBalanced
  BY DEF FabricInv, LedgerInv
<1> QED BY <1>1, AlwaysInv, PTL

\* The errors "SAF overflow", "control overflow" and both "credit overflow" are
\* never thrown: a router sends only with a credit, and a credit is a free slot.
THEOREM CreditsSuffice == Spec => []NothingOverflows
<1>1. FabricInv => NothingOverflows
  BY DEF FabricInv
<1> QED BY <1>1, AlwaysInv, PTL
-----------------------------------------------------------------------------
(* Flows leave whole.                                                      *)

WholeInv == \A l \in Links : LinkWhole(link[l])

\* An empty link.
LEMMA WholeInit == Init => WholeInv
<1> SUFFICES ASSUME Init, NEW l \in Links PROVE LinkWhole(link[l])
  BY DEF WholeInv
<1>1. /\ link[l].out = None /\ link[l].rx = <<>> /\ link[l].inflight = <<>>
      /\ link[l].ready = <<>> /\ link[l].saf = [k \in Flows |-> <<>>]
  BY DEF Init, LinkInit
<1>2. PastOf(link[l]) = <<>>
  <2>1. AsSeq(link[l].out) = <<>>
    BY <1>1 DEF AsSeq
  <2>2. Flits(link[l].inflight) = <<>>
    BY <1>1 DEF Flits
  <2> QED BY <1>1, <2>1, <2>2 DEF PastOf
<1>3. Whole(PastOf(link[l]), link[l].ready)
  BY <1>2 DEF Whole, WholeFlow
<1>4. Sorted(link[l]) /\ ReadyOK(link[l])
  BY <1>1 DEF Sorted, ReadyOK, TailWaits, Contains
<1> QED BY <1>3, <1>4 DEF LinkWhole

\* Only a cycle changes a link, and only while no link has a fault.
LEMMA WholeStep == FabricInv /\ WholeInv /\ [Next]_vars => WholeInv'
<1> SUFFICES ASSUME FabricInv, WholeInv, [Next]_vars PROVE WholeInv'
  OBVIOUS
<1>1. CASE Cycle
  <2> SUFFICES ASSUME NEW l \in Links PROVE LinkWhole(link'[l])
    BY DEF WholeInv
  <2> DEFINE data == router[Source[l]].tx[l]
             ctrl == router[Source[l]].ctx[l]
             avail == router[Target[l]].avail[l]
             cavail == router[Target[l]].cavail[l]
  <2>1. link'[l] = LinkStep(l, data, ctrl, avail, cavail)
    BY <1>1 DEF Cycle
  <2>2. LinkOK(link[l]) /\ LinkWhole(link[l]) /\ link[l].faults = {}
    BY <1>1 DEF FabricInv, Types, WholeInv, Cycle, Tick, Running
  <2>3. data \in DataFlits \cup {None} /\ ctrl \in CtrlFlits \cup {None}
    <3>1. Source[l] \in Routers /\ l \in OutPorts(Source[l])
      BY SourceFacts
    <3>2. router[Source[l]] \in RouterRecords(Source[l])
      BY <3>1 DEF FabricInv, Types, RouterOK
    <3> QED BY <3>1, <3>2 DEF RouterRecords
  <2> HIDE DEF data, ctrl, avail, cavail
  <2> QED BY <2>1, <2>2, <2>3, LinkStepWhole
<1>2. CASE UNCHANGED link
  BY <1>2, Zenon DEF WholeInv
<1>3. CASE MemComplete
  BY <1>2, <1>3 DEF MemComplete, linkVars
<1>4. ASSUME NEW c \in Routers, Begin(c) \/ RecvPacket(c)
      PROVE  UNCHANGED link
  BY <1>4 DEF Begin, StartSend, StartMem, StartRecv, RecvPacket, linkVars
<1>5. CASE UNCHANGED vars
  BY <1>2, <1>5 DEF vars, linkVars
<1> QED BY <1>1, <1>2, <1>3, <1>4, <1>5 DEF Next

\* The last packet of a flow that has left a link's SAF stage is the tail, or the
\* rest of the flow is in the stage and is being served: a flow that has begun
\* to leave never waits for packets that have not arrived, for every number,
\* length and interleaving of flows and memory flits.
THEOREM WholeFlowsLeave == Spec => []FlowsLeaveWhole
<1>1. FabricInv /\ WholeInv => FlowsLeaveWhole
  <2> SUFFICES ASSUME FabricInv, WholeInv, NEW l \in Links, NEW k \in Flows
               PROVE  LET past == PastStage(l)
                          ofFlow == {i \in DOMAIN past : past[i].type = "DATA" /\ past[i].flow = k}
                      IN  \A i \in ofFlow : (\A j \in ofFlow : j <= i) =>
                            past[i].end \/ Contains(link[l].ready, k)
    BY DEF FlowsLeaveWhole
  <2> DEFINE p == PastOf(link[l])
  <2>1. PastStage(l) = p
    BY Zenon DEF PastStage, PastOf, Flits
  <2>2. p \in Seq(DataFlits)
    <3>1. link[l] \in LinkRecords
      BY DEF FabricInv, Types, LinkOK
    <3> QED BY <3>1, PastType
  <2>3. DOMAIN p = 1..Len(p)
    BY <2>2
  <2>4. WholeFlow(p, link[l].ready, k)
    BY DEF WholeInv, LinkWhole, Whole
  <2> HIDE DEF p
  <2>5. SUFFICES ASSUME NEW i \in {j \in DOMAIN p : IsOf(p[j], k)},
                        \A j \in {j \in DOMAIN p : IsOf(p[j], k)} : j <= i
                 PROVE  p[i].end \/ Contains(link[l].ready, k)
    BY <2>1, Zenon DEF IsOf
  <2> QED BY <2>3, <2>4, <2>5 DEF WholeFlow
<1>2. Init => FabricInv /\ WholeInv
  BY InitInv, WholeInit
<1>3. (FabricInv /\ WholeInv) /\ [Next]_vars => (FabricInv /\ WholeInv)'
  BY FabricStep, WholeStep
<1> QED BY <1>1, <1>2, <1>3, PTL DEF Spec
=============================================================================
