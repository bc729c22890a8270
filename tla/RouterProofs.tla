---------------------------- MODULE RouterProofs ----------------------------
(***************************************************************************)
(* A pass of a router yields a router: types, bounded output buffers, and  *)
(* what each stage of the pass leaves alone, for every topology, routing   *)
(* function and buffer depth.                                              *)
(***************************************************************************)
EXTENDS Router, SumProofs, SequenceTheorems

-----------------------------------------------------------------------------
(* Types.                                                                  *)

Tags == {k.tag : k \in Flows}
RouterFaults == {"credit overflow", "control credit overflow", "lock reference below zero"}
Buffers == {q \in Seq(DataFlits) : Len(q) <= BufDepth}

\* A RouterUnit.
RouterRecords(r) ==
  [ib : [InPorts(r) -> Seq(DataFlits)],
   ob : [OutPorts(r) -> Buffers],
   cib : [InPorts(r) -> Seq(CtrlFlits)],
   cob : [OutPorts(r) -> Seq(CtrlFlits)],
   lock : [OutPorts(r) -> Tags \cup {None}],
   ref : [OutPorts(r) -> Int],
   credit : [LinkOuts(r) -> Int],
   ccredit : [LinkOuts(r) -> Int],
   seen : [LinkOuts(r) -> BOOLEAN],
   cseen : [LinkOuts(r) -> BOOLEAN],
   first : Nat \ {0},
   req : Seq(DataFlits),
   rsp : Seq(CtrlFlits),
   tx : [OutPorts(r) -> DataFlits \cup {None}],
   ctx : [OutPorts(r) -> CtrlFlits \cup {None}],
   avail : [InPorts(r) -> BOOLEAN],
   cavail : [InPorts(r) -> BOOLEAN],
   faults : SUBSET RouterFaults]

\* The faults of the credit counters.
CreditFaults(s) == s.faults \cap {"credit overflow", "control credit overflow"}

\* The credits and the wires are left alone.
SameCredits(s, t) ==
  /\ t.credit = s.credit /\ t.ccredit = s.ccredit
  /\ t.seen = s.seen /\ t.cseen = s.cseen
  /\ t.tx = s.tx /\ t.ctx = s.ctx
  /\ CreditFaults(t) = CreditFaults(s)

\* Taking the first element of a queue.
LEMMA HeadTail ==
  ASSUME NEW S, NEW q \in Seq(S), q # <<>>
  PROVE  /\ Head(q) \in S /\ Tail(q) \in Seq(S)
         /\ Len(q) \in Nat \ {0} /\ Len(Tail(q)) = Len(q) - 1
OBVIOUS

\* Replacing a value of a function.
LEMMA SetAt ==
  ASSUME NEW D, NEW T, NEW g \in [D -> T], NEW x, NEW v, x \in D => v \in T
  PROVE  [g EXCEPT ![x] = v] \in [D -> T]
OBVIOUS

\* Appending to one of several queues.
LEMMA AppendAt ==
  ASSUME NEW D, NEW S, NEW g \in [D -> Seq(S)], NEW x, NEW v \in S
  PROVE  [g EXCEPT ![x] = Append(@, v)] \in [D -> Seq(S)]
<1>1. x \in D => Append(g[x], v) \in Seq(S)
  OBVIOUS
<1> QED BY <1>1, SetAt

\* One turn of an input of the control channel.
LEMMA RouteCtrlType ==
  ASSUME NEW r \in Routers, NEW s \in RouterRecords(r), NEW p \in InPorts(r) \cup {None}
  PROVE  RouteCtrl(r, s, p) \in RouterRecords(r) /\ SameCredits(s, RouteCtrl(r, s, p))
<1> DEFINE f == Head(s.cib[p])
           o == OutPort(r, f)
           i == [s.cib EXCEPT ![p] = Tail(@)]
           q == [s.cob EXCEPT ![o] = Append(@, f)]
<1>1. CASE p = None \/ s.cib[p] = <<>> \/ ~RoomFor(s.cob[o])
  <2>1. RouteCtrl(r, s, p) = s
    BY <1>1 DEF RouteCtrl
  <2> QED BY <2>1 DEF SameCredits, CreditFaults
<1>2. CASE p # None /\ s.cib[p] # <<>> /\ RoomFor(s.cob[o])
  <2>1. RouteCtrl(r, s, p) = [s EXCEPT !.cib = i, !.cob = q]
    BY <1>2 DEF RouteCtrl, RouterRecords
  <2>2. s.cib \in [InPorts(r) -> Seq(CtrlFlits)] /\ s.cob \in [OutPorts(r) -> Seq(CtrlFlits)]
    BY DEF RouterRecords
  <2>3. f \in CtrlFlits /\ Tail(s.cib[p]) \in Seq(CtrlFlits)
    BY <1>2, <2>2, HeadTail
  <2> HIDE DEF f, o
  <2>4. i \in [InPorts(r) -> Seq(CtrlFlits)] /\ q \in [OutPorts(r) -> Seq(CtrlFlits)]
    BY <2>2, <2>3, SetAt, AppendAt
  <2> HIDE DEF i, q
  <2> QED BY <2>1, <2>4, ZenonT(30) DEF RouterRecords, SameCredits, CreditFaults
<1> QED BY <1>1, <1>2

\* Moving a packet from an input to an output with room.
LEMMA MoveType ==
  ASSUME NEW r \in Routers, NEW s \in RouterRecords(r), NEW p \in InPorts(r),
         NEW o, s.ib[p] # <<>>, RoomFor(s.ob[o])
  PROVE  Move(s, p, o) \in RouterRecords(r) /\ SameCredits(s, Move(s, p, o))
<1> DEFINE f == Head(s.ib[p])
           i == [s.ib EXCEPT ![p] = Tail(@)]
           q == [s.ob EXCEPT ![o] = Append(@, f)]
<1>1. Move(s, p, o) = [s EXCEPT !.ib = i, !.ob = q]
  BY DEF Move, RouterRecords
<1>2. s.ib \in [InPorts(r) -> Seq(DataFlits)] /\ s.ob \in [OutPorts(r) -> Buffers]
  BY DEF RouterRecords
<1>3. f \in DataFlits /\ Tail(s.ib[p]) \in Seq(DataFlits)
  BY <1>2, HeadTail
<1> HIDE DEF f
<1>4. i \in [InPorts(r) -> Seq(DataFlits)]
  BY <1>2, <1>3, SetAt
<1>5. q \in [OutPorts(r) -> Buffers]
  <2> DEFINE v == Append(s.ob[o], f)
  <2>1. o \in OutPorts(r) => v \in Buffers
    <3> SUFFICES ASSUME o \in OutPorts(r) PROVE Append(s.ob[o], f) \in Buffers
      OBVIOUS
    <3>1. s.ob[o] \in Seq(DataFlits) /\ Len(s.ob[o]) < BufDepth
      BY <1>2 DEF Buffers, RoomFor
    <3>2. Append(s.ob[o], f) \in Seq(DataFlits) /\ Len(Append(s.ob[o], f)) = Len(s.ob[o]) + 1
      BY <3>1, <1>3
    <3> QED BY <3>1, <3>2, RouterAssumption DEF Buffers
  <2>2. q = [s.ob EXCEPT ![o] = v]
    OBVIOUS
  <2> HIDE DEF v, q
  <2> QED BY <1>2, <2>1, <2>2, SetAt
<1> HIDE DEF i, q
<1> QED BY <1>1, <1>4, <1>5, ZenonT(30) DEF RouterRecords, SameCredits, CreditFaults

\* The flows' tags are the locks of the outputs.
LEMMA LockAfterType ==
  ASSUME NEW r \in Routers, NEW s \in RouterRecords(r), NEW o, NEW f \in DataFlits, ~IsMem(f)
  PROVE  LockAfter(s, o, f) \in RouterRecords(r) /\ SameCredits(s, LockAfter(s, o, f))
<1> DEFINE n == s.ref[o] + (IF f.seq = 1 THEN 1 ELSE 0) - (IF f.end THEN 1 ELSE 0)
           m == [s.ref EXCEPT ![o] = n]
           v == IF f.end /\ n = 0 THEN None ELSE IF f.seq = 1 THEN f.flow.tag ELSE s.lock[o]
           k == [s.lock EXCEPT ![o] = v]
           e == s.faults \cup FaultIf(n < 0, "lock reference below zero")
<1>1. LockAfter(s, o, f) = [s EXCEPT !.ref = m, !.lock = k, !.faults = e]
  BY DEF LockAfter, RouterRecords
<1>2. f.flow \in Flows
  BY DEF DataFlits, IsMem
<1>3. s.ref \in [OutPorts(r) -> Int] /\ s.lock \in [OutPorts(r) -> Tags \cup {None}]
      /\ s.faults \in SUBSET RouterFaults
  BY DEF RouterRecords
<1>4. o \in OutPorts(r) => n \in Int
  BY <1>3
<1>5. o \in OutPorts(r) => v \in Tags \cup {None}
  BY <1>2, <1>3 DEF Tags
<1>6. e \in SUBSET RouterFaults
  BY <1>3 DEF FaultIf, RouterFaults
<1> HIDE DEF n, v, e
<1>7. m \in [OutPorts(r) -> Int] /\ k \in [OutPorts(r) -> Tags \cup {None}]
  BY <1>3, <1>4, <1>5, SetAt
<1>8. e \cap {"credit overflow", "control credit overflow"} = CreditFaults(s)
  BY DEF e, FaultIf, CreditFaults
<1> HIDE DEF m, k
<1> QED BY <1>1, <1>6, <1>7, <1>8, ZenonT(30) DEF RouterRecords, SameCredits, CreditFaults

\* Counting around.
LEMMA ModRange ==
  ASSUME NEW n \in Nat \ {0}, NEW i \in Nat
  PROVE  (i % n) + 1 \in 1..n
OBVIOUS

\* The ports of a router in turn.
LEMMA InOrderFacts ==
  ASSUME NEW r \in Routers
  PROVE  \A i \in 1..Directions : InOrder[r][i] \in InPorts(r) \cup {None}
<1>1. {InOrder[r][i] : i \in 1..Directions} \ {None} = InPorts(r)
  BY RouterAssumption DEF InPorts
<1> QED BY <1>1

\* One turn of an input of the data channel.
LEMMA RouteDataType ==
  ASSUME NEW r \in Routers, NEW s \in RouterRecords(r), NEW i \in 1..Directions
  PROVE  RouteData(r, s, i) \in RouterRecords(r) /\ SameCredits(s, RouteData(r, s, i))
<1> DEFINE p == InOrder[r][i]
           f == Head(s.ib[p])
           o == OutPort(r, f)
           next == (i % Directions) + 1
<1>1. p # None => p \in InPorts(r)
  BY InOrderFacts
<1>2. next \in Nat \ {0}
  BY DEF Directions
<1>3. CASE p = None \/ s.ib[p] = <<>> \/ ~RoomFor(s.ob[o])
  <2>1. RouteData(r, s, i) = s
    BY <1>3 DEF RouteData
  <2> QED BY <2>1 DEF SameCredits, CreditFaults
<1>4. CASE p # None /\ s.ib[p] # <<>> /\ RoomFor(s.ob[o])
  <2>1. Move(s, p, o) \in RouterRecords(r) /\ SameCredits(s, Move(s, p, o))
    BY <1>1, <1>4, MoveType
  <2>2. f \in DataFlits
    <3>1. s.ib[p] \in Seq(DataFlits)
      BY <1>1, <1>4 DEF RouterRecords
    <3> QED BY <1>4, <3>1, HeadTail
  <2>3. CASE IsMem(f)
    <3> DEFINE t == Move(s, p, o)
    <3>1. RouteData(r, s, i) = [t EXCEPT !.first = next]
      BY <1>4, <2>3 DEF RouteData
    <3> HIDE DEF t, next
    <3> QED BY <3>1, <2>1, <1>2, ZenonT(30) DEF RouterRecords, SameCredits, CreditFaults, t
  <2>4. CASE ~IsMem(f) /\ s.lock[o] \notin {None, f.flow.tag}
    <3>1. RouteData(r, s, i) = s
      BY <1>4, <2>4 DEF RouteData
    <3> QED BY <3>1 DEF SameCredits, CreditFaults
  <2>5. CASE ~IsMem(f) /\ s.lock[o] \in {None, f.flow.tag}
    <3> DEFINE t == Move(s, p, o)
    <3>1. RouteData(r, s, i) = LockAfter(t, o, f)
      BY <1>4, <2>5 DEF RouteData
    <3> HIDE DEF t, f, o
    <3>2. LockAfter(t, o, f) \in RouterRecords(r) /\ SameCredits(t, LockAfter(t, o, f))
      BY <2>1, <2>2, <2>5, LockAfterType DEF t
    <3> QED BY <3>1, <3>2, <2>1 DEF SameCredits, t
  <2> QED BY <2>3, <2>4, <2>5
<1> QED BY <1>3, <1>4

\* The values of an iteration within G: g begins with s and applies F n times.
Steps(n, G) == [G \X (1..n) -> G]
Iterates(g, n, G, s, F) ==
  /\ g \in [0..n -> G]
  /\ g[0] = s
  /\ \A i \in 1..n : g[i] = F[<<g[i-1], i>>]

\* The iteration of a function that does not leave G has a solution.
LEMMA IterationExists ==
  ASSUME NEW n \in Nat, NEW G, NEW s \in G, NEW F \in Steps(n, G)
  PROVE  \E g : Iterates(g, n, G, s, F)
<1>1. PICK g : Repeats(g, n, s, F)
  BY IterationSolved
<1>2. /\ g = [i \in 0..n |-> g[i]]
      /\ \A i \in 0..n : g[i] = IF i = 0 THEN s ELSE F[<<g[i-1], i>>]
  BY <1>1 DEF Repeats
<1>3. g[0] = s
  <2>1. 0 \in 0..n
    OBVIOUS
  <2> QED BY <1>2, <2>1
<1>4. ASSUME NEW i \in 1..n PROVE g[i] = F[<<g[i-1], i>>]
  <2>1. i \in 0..n /\ i # 0
    OBVIOUS
  <2> QED BY <1>2, <2>1
<1>5. \A i \in 1..n : g[i-1] \in G => g[i] \in G
  BY <1>4 DEF Steps
<1>6. \A i \in 0..n : g[i] \in G
  <2>1. g[0] \in G
    BY <1>3
  <2> QED BY <1>5, <2>1, IterationStays
<1>7. g \in [0..n -> G]
  BY <1>2, <1>6
<1> QED BY <1>3, <1>4, <1>7 DEF Iterates

\* A set of routers that one turn of any input does not leave contains the
\* router after all inputs had their turn.
LEMMA RouteInputsKeeps ==
  ASSUME NEW r \in Routers, NEW Good, NEW s \in Good, \A t \in Good : t.first \in Nat \ {0},
         \A t \in Good, p \in InPorts(r) \cup {None} : RouteCtrl(r, t, p) \in Good,
         \A t \in Good, i \in 1..Directions : RouteData(r, t, i) \in Good
  PROVE  RouteInputs(r, s) \in Good
<1>1. PICK n \in Nat \ {0} : n = Directions
  BY DEF Directions
<1> DEFINE ctrlStep(g, i) == IF i = 0 THEN s ELSE RouteCtrl(r, g[i-1], InOrder[r][i])
           ctrl == CHOOSE g : g = [i \in 0..n |-> ctrlStep(g, i)]
           dataStep(g, i) == IF i = 0 THEN ctrl[n] ELSE RouteRound(r, g[i-1], i)
           data == CHOOSE g : g = [i \in 0..n |-> dataStep(g, i)]
<1>2. RouteInputs(r, s) = data[n]
  BY <1>1 DEF RouteInputs
<1>3. /\ \A i \in 1..n : InOrder[r][i] \in InPorts(r) \cup {None}
      /\ \A t \in Good, i \in 1..n : RouteRound(r, t, i) \in Good
  <2>1. ASSUME NEW t \in Good, NEW i \in 1..n
        PROVE  RouteRound(r, t, i) \in Good
    <3> DEFINE turn == ((t.first - 1 + i - 1) % n) + 1
    <3>1. t.first - 1 + i - 1 \in Nat
      <4>1. t.first \in Nat \ {0}
        OBVIOUS
      <4> QED BY <4>1
    <3>2. turn \in 1..n
      BY <3>1, ModRange
    <3>3. RouteRound(r, t, i) = RouteData(r, t, turn)
      BY <1>1 DEF RouteRound
    <3> HIDE DEF turn
    <3> QED BY <1>1, <3>2, <3>3
  <2> QED BY <2>1, <1>1, InOrderFacts
<1>4. ctrl[n] \in Good
  <2> DEFINE F == [x \in Good \X (1..n) |-> RouteCtrl(r, x[1], InOrder[r][x[2]])]
  <2>1. F \in Steps(n, Good)
    <3>1. \A x \in Good \X (1..n) : x[1] \in Good /\ x[2] \in 1..n
      OBVIOUS
    <3>2. \A x \in Good \X (1..n) : RouteCtrl(r, x[1], InOrder[r][x[2]]) \in Good
      BY <1>1, <1>3, <3>1
    <3> QED BY <3>2 DEF Steps
  <2>2. \A t \in Good, i \in 1..n : F[<<t, i>>] = RouteCtrl(r, t, InOrder[r][i])
    OBVIOUS
  <2> HIDE DEF F
  <2>3. PICK g : Iterates(g, n, Good, s, F)
    <3>1. n \in Nat
      OBVIOUS
    <3> QED BY <2>1, <3>1, IterationExists
  <2>4. ASSUME NEW i \in 0..n
        PROVE  g[i] = ctrlStep(g, i)
    <3>1. CASE i = 0
      BY <2>3, <3>1 DEF Iterates
    <3>2. CASE i # 0
      <4>1. i \in 1..n /\ i - 1 \in 0..n
        BY <3>2
      <4>2. g[i] = RouteCtrl(r, g[i-1], InOrder[r][i])
        BY <2>2, <2>3, <4>1 DEF Iterates
      <4> QED BY <3>2, <4>2
    <3> QED BY <3>1, <3>2
  <2> HIDE DEF ctrlStep
  <2>5. g = [i \in 0..n |-> ctrlStep(g, i)]
    BY <2>3, <2>4 DEF Iterates
  <2>6. ctrl = [i \in 0..n |-> ctrlStep(ctrl, i)]
    BY <2>5
  <2> HIDE DEF ctrl
  <2>7. \A i \in 0..n : ctrl[i] = ctrlStep(ctrl, i)
    BY <2>6
  <2>8. ctrl[0] \in Good
    <3>1. 0 \in 0..n
      OBVIOUS
    <3> QED BY <2>7, <3>1 DEF ctrlStep
  <2>9. ASSUME NEW i \in 1..n, ctrl[i-1] \in Good
        PROVE  ctrl[i] \in Good
    <3>1. i \in 0..n /\ i # 0
      OBVIOUS
    <3>2. ctrl[i] = RouteCtrl(r, ctrl[i-1], InOrder[r][i])
      BY <2>7, <3>1 DEF ctrlStep
    <3> QED BY <2>9, <3>2, <1>3
  <2>10. \A i \in 0..n : ctrl[i] \in Good
    <3>1. n \in Nat
      OBVIOUS
    <3>2. \A i \in 1..n : ctrl[i-1] \in Good => ctrl[i] \in Good
      BY <2>9
    <3> QED BY <2>8, <3>1, <3>2, IterationStays, Zenon
  <2> QED BY <2>10
<1> HIDE DEF ctrl
<1>5. data[n] \in Good
  <2> DEFINE F == [x \in Good \X (1..n) |-> RouteRound(r, x[1], x[2])]
  <2>1. F \in Steps(n, Good)
    <3>1. \A x \in Good \X (1..n) : x[1] \in Good /\ x[2] \in 1..n
      OBVIOUS
    <3>2. \A x \in Good \X (1..n) : RouteRound(r, x[1], x[2]) \in Good
      BY <1>1, <1>3, <3>1
    <3> QED BY <3>2 DEF Steps
  <2>2. \A t \in Good, i \in 1..n : F[<<t, i>>] = RouteRound(r, t, i)
    OBVIOUS
  <2> HIDE DEF F
  <2>3. PICK g : Iterates(g, n, Good, ctrl[n], F)
    <3>1. n \in Nat
      OBVIOUS
    <3> QED BY <1>4, <2>1, <3>1, IterationExists
  <2>4. ASSUME NEW i \in 0..n
        PROVE  g[i] = dataStep(g, i)
    <3>1. CASE i = 0
      BY <2>3, <3>1 DEF Iterates
    <3>2. CASE i # 0
      <4>1. i \in 1..n /\ i - 1 \in 0..n
        BY <3>2
      <4>2. g[i] = RouteRound(r, g[i-1], i)
        BY <2>2, <2>3, <4>1 DEF Iterates
      <4> QED BY <3>2, <4>2
    <3> QED BY <3>1, <3>2
  <2> HIDE DEF dataStep
  <2>5. g = [i \in 0..n |-> dataStep(g, i)]
    BY <2>3, <2>4 DEF Iterates
  <2>6. data = [i \in 0..n |-> dataStep(data, i)]
    BY <2>5
  <2> HIDE DEF data
  <2>7. \A i \in 0..n : data[i] = dataStep(data, i)
    BY <2>6
  <2>8. data[0] \in Good
    <3>1. 0 \in 0..n
      OBVIOUS
    <3> QED BY <1>4, <2>7, <3>1 DEF dataStep
  <2>9. ASSUME NEW i \in 1..n, data[i-1] \in Good
        PROVE  data[i] \in Good
    <3>1. i \in 0..n /\ i # 0
      OBVIOUS
    <3>2. data[i] = RouteRound(r, data[i-1], i)
      BY <2>7, <3>1 DEF dataStep
    <3> QED BY <2>9, <3>2, <1>1, <1>3
  <2>10. \A i \in 0..n : data[i] \in Good
    <3>1. n \in Nat
      OBVIOUS
    <3>2. \A i \in 1..n : data[i-1] \in Good => data[i] \in Good
      BY <2>9
    <3> QED BY <2>8, <3>1, <3>2, IterationStays, Zenon
  <2> QED BY <2>10
<1> QED BY <1>2, <1>5

\* All inputs in turn, on both channels.
LEMMA RouteInputsType ==
  ASSUME NEW r \in Routers, NEW s \in RouterRecords(r)
  PROVE  RouteInputs(r, s) \in RouterRecords(r) /\ SameCredits(s, RouteInputs(r, s))
<1> DEFINE Good == {t \in RouterRecords(r) : SameCredits(s, t)}
<1>1. s \in Good
  BY DEF SameCredits
<1>2. \A t \in Good : t.first \in Nat \ {0}
  BY DEF RouterRecords
<1>3. ASSUME NEW t \in Good, NEW p \in InPorts(r) \cup {None}
      PROVE  RouteCtrl(r, t, p) \in Good
  <2>1. t \in RouterRecords(r) /\ SameCredits(s, t)
    OBVIOUS
  <2>2. RouteCtrl(r, t, p) \in RouterRecords(r) /\ SameCredits(t, RouteCtrl(r, t, p))
    BY <2>1, RouteCtrlType
  <2> QED BY <2>1, <2>2 DEF SameCredits
<1>4. ASSUME NEW t \in Good, NEW i \in 1..Directions
      PROVE  RouteData(r, t, i) \in Good
  <2>1. t \in RouterRecords(r) /\ SameCredits(s, t)
    OBVIOUS
  <2>2. RouteData(r, t, i) \in RouterRecords(r) /\ SameCredits(t, RouteData(r, t, i))
    BY <2>1, RouteDataType
  <2> QED BY <2>1, <2>2 DEF SameCredits
<1> HIDE DEF Good
<1>5. RouteInputs(r, s) \in Good
  BY <1>1, <1>2, <1>3, <1>4, RouteInputsKeeps
<1> QED BY <1>5 DEF Good

\* What is on the wires enters the input buffers.
LEMMA TakeInputsType ==
  ASSUME NEW r \in Routers, NEW s \in RouterRecords(r),
         NEW data \in [InPorts(r) -> DataFlits \cup {None}],
         NEW ctrl \in [InPorts(r) -> CtrlFlits \cup {None}]
  PROVE  /\ TakeInputs(s, data, ctrl) \in RouterRecords(r)
         /\ TakeInputs(s, data, ctrl).ob = s.ob
         /\ SameCredits(s, TakeInputs(s, data, ctrl))
<1> DEFINE taken(q, f) == IF f = None THEN q ELSE Append(q, f)
           i == [p \in InPorts(r) |-> taken(s.ib[p], data[p])]
           c == [p \in InPorts(r) |-> taken(s.cib[p], ctrl[p])]
<1>1. s.ib \in [InPorts(r) -> Seq(DataFlits)] /\ s.cib \in [InPorts(r) -> Seq(CtrlFlits)]
  BY DEF RouterRecords
<1>2. TakeInputs(s, data, ctrl) = [s EXCEPT !.ib = i, !.cib = c]
  BY <1>1 DEF TakeInputs, RouterRecords
<1>3. i \in [InPorts(r) -> Seq(DataFlits)] /\ c \in [InPorts(r) -> Seq(CtrlFlits)]
  BY <1>1
<1> HIDE DEF i, c
<1> QED BY <1>2, <1>3 DEF RouterRecords, SameCredits, CreditFaults

\* The signals for the neighbours.
LEMMA AdvertiseType ==
  ASSUME NEW r \in Routers, NEW s \in RouterRecords(r)
  PROVE  Advertise(s) \in RouterRecords(r) /\ SameCredits(s, Advertise(s))
<1> DEFINE a == [p \in InPorts(r) |-> RoomFor(s.ib[p])]
           b == [p \in InPorts(r) |-> RoomFor(s.cib[p])]
<1>1. s.avail \in [InPorts(r) -> BOOLEAN] /\ s.cavail \in [InPorts(r) -> BOOLEAN]
  BY DEF RouterRecords
<1>2. Advertise(s) = [s EXCEPT !.avail = a, !.cavail = b]
  BY <1>1 DEF Advertise, RouterRecords
<1>3. a \in [InPorts(r) -> BOOLEAN] /\ b \in [InPorts(r) -> BOOLEAN]
  BY DEF RoomFor
<1> HIDE DEF a, b
<1> QED BY <1>2, <1>3 DEF RouterRecords, SameCredits, CreditFaults

\* The smaller of two numbers.
LEMMA MinOfTwo ==
  ASSUME NEW a \in Int, NEW b \in Int
  PROVE  Min({a, b}) = IF a <= b THEN a ELSE b
<1>1. \E x \in {a, b} : \A y \in {a, b} : x <= y
  OBVIOUS
<1> DEFINE m == CHOOSE x \in {a, b} : \A y \in {a, b} : x <= y
<1>2. m \in {a, b} /\ \A y \in {a, b} : m <= y
  BY <1>1
<1>3. Min({a, b}) = m
  BY DEF Min
<1> HIDE DEF m
<1> QED BY <1>2, <1>3

\* The larger of two numbers.
LEMMA MaxOfTwo ==
  ASSUME NEW a \in Int, NEW b \in Int
  PROVE  Max({a, b}) = IF a >= b THEN a ELSE b
<1>1. \E x \in {a, b} : \A y \in {a, b} : x >= y
  OBVIOUS
<1> DEFINE m == CHOOSE x \in {a, b} : \A y \in {a, b} : x >= y
<1>2. m \in {a, b} /\ \A y \in {a, b} : m >= y
  BY <1>1
<1>3. Max({a, b}) = m
  BY DEF Max
<1> HIDE DEF m
<1> QED BY <1>2, <1>3

\* As many flits enter a buffer as it has room for.
LEMMA EnteringRange ==
  ASSUME NEW S, NEW q \in Seq(S), NEW w \in Seq(S)
  PROVE  Entering(q, w) \in 0..Len(w)
<1>1. Len(q) \in Nat /\ Len(w) \in Nat /\ BufDepth \in Nat
  BY RouterAssumption
<1> DEFINE m == Max({0, BufDepth - Len(q)})
<1>2. m \in Nat
  BY <1>1, MaxOfTwo
<1>3. Entering(q, w) = Min({Len(w), m})
  BY DEF Entering
<1> HIDE DEF m
<1> QED BY <1>1, <1>2, <1>3, MinOfTwo

\* Moving the first n elements of a queue to another one.
LEMMA TransferType ==
  ASSUME NEW S, NEW q \in Seq(S), NEW w \in Seq(S), NEW n \in 0..Len(w)
  PROVE  q \o SubSeq(w, 1, n) \in Seq(S) /\ SubSeq(w, n + 1, Len(w)) \in Seq(S)
<1>1. SubSeq(w, 1, n) \in Seq(S) /\ SubSeq(w, n + 1, Len(w)) \in Seq(S)
  OBVIOUS
<1> QED BY <1>1

\* InjectMemRequestFlit() keeps the types and the credits.
LEMMA InjectRequestsType ==
  ASSUME NEW r \in Routers, NEW s \in RouterRecords(r)
  PROVE  InjectRequests(s) \in RouterRecords(r) /\ SameCredits(s, InjectRequests(s))
<1> DEFINE n == Entering(s.ib[Center], s.req)
           v == s.ib[Center] \o SubSeq(s.req, 1, n)
           i == [s.ib EXCEPT ![Center] = v]
           q == SubSeq(s.req, n + 1, Len(s.req))
<1>1. /\ s.ib \in [InPorts(r) -> Seq(DataFlits)] /\ s.req \in Seq(DataFlits)
      /\ s.ib[Center] \in Seq(DataFlits)
  BY DEF RouterRecords, InPorts
<1>2. InjectRequests(s) = [s EXCEPT !.ib = i, !.req = q]
  BY DEF InjectRequests, RouterRecords
<1>3. n \in 0..Len(s.req)
  BY <1>1, EnteringRange
<1> HIDE DEF n
<1>4. v \in Seq(DataFlits) /\ q \in Seq(DataFlits)
  BY <1>1, <1>3, TransferType
<1> HIDE DEF v, q
<1>5. i \in [InPorts(r) -> Seq(DataFlits)]
  BY <1>1, <1>4
<1> HIDE DEF i
<1> QED BY <1>2, <1>4, <1>5 DEF RouterRecords, SameCredits, CreditFaults

\* InjectMemResponseFlit() keeps the types and the credits.
LEMMA InjectResponsesType ==
  ASSUME NEW r \in Routers, NEW s \in RouterRecords(r)
  PROVE  InjectResponses(s) \in RouterRecords(r) /\ SameCredits(s, InjectResponses(s))
<1> DEFINE n == Entering(s.cib[Center], s.rsp)
           v == s.cib[Center] \o SubSeq(s.rsp, 1, n)
           i == [s.cib EXCEPT ![Center] = v]
           q == SubSeq(s.rsp, n + 1, Len(s.rsp))
<1>1. /\ s.cib \in [InPorts(r) -> Seq(CtrlFlits)] /\ s.rsp \in Seq(CtrlFlits)
      /\ s.cib[Center] \in Seq(CtrlFlits)
  BY DEF RouterRecords, InPorts
<1>2. InjectResponses(s) = [s EXCEPT !.cib = i, !.rsp = q]
  BY DEF InjectResponses, RouterRecords
<1>3. n \in 0..Len(s.rsp)
  BY <1>1, EnteringRange
<1> HIDE DEF n
<1>4. v \in Seq(CtrlFlits) /\ q \in Seq(CtrlFlits)
  BY <1>1, <1>3, TransferType
<1> HIDE DEF v, q
<1>5. i \in [InPorts(r) -> Seq(CtrlFlits)]
  BY <1>1, <1>4
<1> HIDE DEF i
<1> QED BY <1>2, <1>4, <1>5 DEF RouterRecords, SameCredits, CreditFaults

\* The injectors that a pass wakes.
LEMMA WakeInjectorsType ==
  ASSUME NEW r \in Routers, NEW s \in RouterRecords(r), NEW before
  PROVE  /\ WakeInjectors(s, before) \in RouterRecords(r)
         /\ SameCredits(s, WakeInjectors(s, before))
<1> DEFINE t == IF MemCount(s.ib[Center]) < MemCount(before.ib[Center])
                THEN InjectRequests(s) ELSE s
<1>1. t \in RouterRecords(r) /\ SameCredits(s, t)
  BY InjectRequestsType DEF SameCredits
<1>2. WakeInjectors(s, before) \in {t, InjectResponses(t)}
  BY DEF WakeInjectors
<1> HIDE DEF t
<1>3. InjectResponses(t) \in RouterRecords(r) /\ SameCredits(t, InjectResponses(t))
  BY <1>1, InjectResponsesType
<1> QED BY <1>1, <1>2, <1>3 DEF SameCredits

\* The credit bits the links drive.
CreditBits == \A l \in Links : link[l].dataCredit \in BOOLEAN /\ link[l].ctrlCredit \in BOOLEAN

\* One if a condition holds.
One(condition) == IF condition THEN 1 ELSE 0

\* Every toggled bit returns one credit.
LEMMA ReturnCreditsFacts ==
  ASSUME NEW r \in Routers, NEW s \in RouterRecords(r), CreditBits
  PROVE  LET t == ReturnCredits(s)
         IN  /\ t \in RouterRecords(r) /\ t.ob = s.ob
             /\ \A l \in LinkOuts(r) :
                  /\ t.credit[l] = s.credit[l] + One(link[l].dataCredit # s.seen[l])
                  /\ t.ccredit[l] = s.ccredit[l] + One(link[l].ctrlCredit # s.cseen[l])
                  /\ t.seen[l] = link[l].dataCredit /\ t.cseen[l] = link[l].ctrlCredit
             /\ s.faults = {} =>
                  \/ CreditFaults(t) = {}
                  \/ \E l \in LinkOuts(r) :
                       \/ link[l].dataCredit # s.seen[l] /\ s.credit[l] >= SafDepth
                       \/ link[l].ctrlCredit # s.cseen[l] /\ s.ccredit[l] >= CtrlDepth
<1> DEFINE data == {l \in LinkOuts(r) : link[l].dataCredit # s.seen[l]}
           ctrl == {l \in LinkOuts(r) : link[l].ctrlCredit # s.cseen[l]}
           c == [l \in LinkOuts(r) |-> IF l \in data THEN s.credit[l] + 1 ELSE s.credit[l]]
           d == [l \in LinkOuts(r) |-> IF l \in ctrl THEN s.ccredit[l] + 1 ELSE s.ccredit[l]]
           b == [l \in LinkOuts(r) |-> link[l].dataCredit]
           e == [l \in LinkOuts(r) |-> link[l].ctrlCredit]
           f == s.faults \cup
                  FaultIf(\E l \in data : s.credit[l] >= SafDepth, "credit overflow")
                  \cup FaultIf(\E l \in ctrl : s.ccredit[l] >= CtrlDepth,
                               "control credit overflow")
           t == [s EXCEPT !.credit = c, !.ccredit = d, !.seen = b, !.cseen = e, !.faults = f]
<1>1. /\ s.credit \in [LinkOuts(r) -> Int] /\ s.ccredit \in [LinkOuts(r) -> Int]
      /\ s.seen \in [LinkOuts(r) -> BOOLEAN] /\ s.cseen \in [LinkOuts(r) -> BOOLEAN]
      /\ s.faults \in SUBSET RouterFaults
  BY DEF RouterRecords
<1>2. ReturnCredits(s) = t
  <2>1. /\ DOMAIN s.credit = LinkOuts(r) /\ DOMAIN s.ccredit = LinkOuts(r)
        /\ DOMAIN s.seen = LinkOuts(r) /\ DOMAIN s.cseen = LinkOuts(r)
    BY <1>1
  <2> QED BY <2>1 DEF ReturnCredits, RouterRecords
<1>3. /\ c \in [LinkOuts(r) -> Int] /\ d \in [LinkOuts(r) -> Int]
      /\ b \in [LinkOuts(r) -> BOOLEAN] /\ e \in [LinkOuts(r) -> BOOLEAN]
  BY <1>1 DEF CreditBits, LinkOuts
<1>4. f \in SUBSET RouterFaults
  BY <1>1 DEF FaultIf, RouterFaults
<1>5. ASSUME NEW l \in LinkOuts(r)
      PROVE  /\ c[l] = s.credit[l] + One(link[l].dataCredit # s.seen[l])
             /\ d[l] = s.ccredit[l] + One(link[l].ctrlCredit # s.cseen[l])
             /\ b[l] = link[l].dataCredit /\ e[l] = link[l].ctrlCredit
  BY <1>1 DEF One
<1>6. s.faults = {} =>
        \/ f \cap {"credit overflow", "control credit overflow"} = {}
        \/ \E l \in LinkOuts(r) :
             \/ link[l].dataCredit # s.seen[l] /\ s.credit[l] >= SafDepth
             \/ link[l].ctrlCredit # s.cseen[l] /\ s.ccredit[l] >= CtrlDepth
  BY DEF FaultIf
<1> HIDE DEF c, d, b, e, f
<1>7. t \in RouterRecords(r) /\ t.faults = f /\ t.ob = s.ob
      /\ t.credit = c /\ t.ccredit = d /\ t.seen = b /\ t.cseen = e
  BY <1>3, <1>4 DEF RouterRecords
<1> HIDE DEF t
<1> QED BY <1>2, <1>5, <1>6, <1>7 DEF CreditFaults

\* What a stage that sends leaves: one credit for every packet towards a link,
\* and for the core nothing but the packets of the protocol.
LEMMA SendOutputsFacts ==
  ASSUME NEW r \in Routers, NEW s \in RouterRecords(r), NEW room, NEW croom,
         NEW memTaken \in BOOLEAN, memTaken => s.ob[Center] # <<>>, NEW busy, NEW cbusy
  PROVE  LET t == SendOutputs(s, room, croom, memTaken, busy, cbusy)
         IN  /\ t \in RouterRecords(r)
             /\ \A l \in LinkOuts(r) :
                  /\ t.credit[l] = s.credit[l] - One(t.tx[l] # None)
                  /\ t.ccredit[l] = s.ccredit[l] - One(t.ctx[l] # None)
                  /\ t.tx[l] # None => s.credit[l] > 0
                  /\ t.ctx[l] # None => s.ccredit[l] > 0
             /\ t.tx[Center] = None \/ (~IsMem(t.tx[Center]) /\ ~busy)
             /\ t.ctx[Center] = None \/ (~IsMem(t.ctx[Center]) /\ ~cbusy)
             /\ t.seen = s.seen /\ t.cseen = s.cseen
             /\ CreditFaults(t) = CreditFaults(s)
<1> DEFINE out == Sending(s, room) \cup ToCore(s.ob[Center], busy)
           cout == CtrlSending(s, croom) \cup ToCore(s.cob[Center], cbusy)
           gone == out \cup (IF memTaken THEN {Center} ELSE {})
           response == s.cob[Center] # <<>> /\ IsMem(Head(s.cob[Center]))
           cgone == cout \cup (IF response THEN {Center} ELSE {})
           tx == [p \in OutPorts(r) |-> IF p \in out THEN Head(s.ob[p]) ELSE None]
           ctx == [p \in OutPorts(r) |-> IF p \in cout THEN Head(s.cob[p]) ELSE None]
           ob == [p \in OutPorts(r) |-> IF p \in gone THEN Tail(s.ob[p]) ELSE s.ob[p]]
           cob == [p \in OutPorts(r) |-> IF p \in cgone THEN Tail(s.cob[p]) ELSE s.cob[p]]
           c == [l \in LinkOuts(r) |-> IF l \in out THEN s.credit[l] - 1 ELSE s.credit[l]]
           d == [l \in LinkOuts(r) |-> IF l \in cout THEN s.ccredit[l] - 1 ELSE s.ccredit[l]]
           t == [s EXCEPT !.tx = tx, !.ctx = ctx, !.ob = ob, !.cob = cob,
                          !.credit = c, !.ccredit = d]
<1>1. /\ s.credit \in [LinkOuts(r) -> Int] /\ s.ccredit \in [LinkOuts(r) -> Int]
      /\ s.ob \in [OutPorts(r) -> Buffers] /\ s.cob \in [OutPorts(r) -> Seq(CtrlFlits)]
      /\ s.tx \in [OutPorts(r) -> DataFlits \cup {None}]
      /\ s.ctx \in [OutPorts(r) -> CtrlFlits \cup {None}]
  BY DEF RouterRecords
<1>2. SendOutputs(s, room, croom, memTaken, busy, cbusy) = t
  <2>1. /\ DOMAIN s.credit = LinkOuts(r) /\ DOMAIN s.ccredit = LinkOuts(r)
        /\ DOMAIN s.ob = OutPorts(r) /\ DOMAIN s.cob = OutPorts(r)
        /\ DOMAIN s.tx = OutPorts(r) /\ DOMAIN s.ctx = OutPorts(r)
    BY <1>1
  <2> QED BY <2>1 DEF SendOutputs, RouterRecords
<1>3. Center \in OutPorts(r) /\ LinkOuts(r) \subseteq OutPorts(r)
      /\ Center \notin LinkOuts(r) /\ LinkOuts(r) \subseteq Links
  BY RouterAssumption DEF OutPorts, LinkOuts, OutEdges
<1>4. ASSUME NEW p \in OutPorts(r)
      PROVE  /\ p \in gone => s.ob[p] # <<>>
             /\ p \in cgone => s.cob[p] # <<>>
             /\ p \in out => p \in gone
             /\ p \in cout => p \in cgone
  BY DEF Sending, CtrlSending, ToCore
<1>5. ASSUME NEW p \in OutPorts(r)
      PROVE  /\ s.ob[p] \in Seq(DataFlits) /\ Len(s.ob[p]) \in Nat /\ Len(s.ob[p]) <= BufDepth
             /\ s.cob[p] \in Seq(CtrlFlits)
             /\ p \in gone => Tail(s.ob[p]) \in Buffers /\ Head(s.ob[p]) \in DataFlits
             /\ p \in cgone => Tail(s.cob[p]) \in Seq(CtrlFlits) /\ Head(s.cob[p]) \in CtrlFlits
  <2>1. /\ s.ob[p] \in Seq(DataFlits) /\ Len(s.ob[p]) \in Nat /\ Len(s.ob[p]) <= BufDepth
        /\ s.cob[p] \in Seq(CtrlFlits) /\ BufDepth \in Nat
    BY <1>1, RouterAssumption DEF Buffers
  <2>2. ASSUME p \in gone PROVE Tail(s.ob[p]) \in Buffers /\ Head(s.ob[p]) \in DataFlits
    <3>1. s.ob[p] # <<>>
      BY <1>4, <2>2
    <3>2. Head(s.ob[p]) \in DataFlits /\ Tail(s.ob[p]) \in Seq(DataFlits)
          /\ Len(Tail(s.ob[p])) = Len(s.ob[p]) - 1
      BY <2>1, <3>1, HeadTail
    <3> QED BY <2>1, <3>2 DEF Buffers
  <2>3. ASSUME p \in cgone PROVE Tail(s.cob[p]) \in Seq(CtrlFlits) /\ Head(s.cob[p]) \in CtrlFlits
    BY <1>4, <2>1, <2>3, HeadTail
  <2> QED BY <2>1, <2>2, <2>3
<1>6. ASSUME NEW l \in LinkOuts(r)
      PROVE  /\ l \in out => s.credit[l] > 0
             /\ l \in cout => s.ccredit[l] > 0
  BY <1>3 DEF Sending, CtrlSending, ToCore
<1>7. /\ Center \in out => ~IsMem(Head(s.ob[Center])) /\ ~busy
      /\ Center \in cout => ~IsMem(Head(s.cob[Center])) /\ ~cbusy
  BY DEF Sending, CtrlSending, ToCore
<1> HIDE DEF out, cout, gone, cgone, response
<1>8. /\ tx \in [OutPorts(r) -> DataFlits \cup {None}]
      /\ ctx \in [OutPorts(r) -> CtrlFlits \cup {None}]
  BY <1>4, <1>5
<1>9. ob \in [OutPorts(r) -> Buffers] /\ cob \in [OutPorts(r) -> Seq(CtrlFlits)]
  BY <1>1, <1>5
<1>10. c \in [LinkOuts(r) -> Int] /\ d \in [LinkOuts(r) -> Int]
  BY <1>1
<1>11. ASSUME NEW l \in LinkOuts(r)
       PROVE  /\ c[l] = s.credit[l] - One(tx[l] # None)
              /\ d[l] = s.ccredit[l] - One(ctx[l] # None)
              /\ tx[l] # None => s.credit[l] > 0
              /\ ctx[l] # None => s.ccredit[l] > 0
  <2>1. l \in out <=> tx[l] # None
    BY <1>3, <1>4, <1>5, FlitAssumption
  <2>2. l \in cout <=> ctx[l] # None
    BY <1>3, <1>4, <1>5, FlitAssumption
  <2> HIDE DEF tx, ctx
  <2> QED BY <1>1, <1>6, <2>1, <2>2 DEF One
<1>12. /\ tx[Center] = None \/ (~IsMem(tx[Center]) /\ ~busy)
       /\ ctx[Center] = None \/ (~IsMem(ctx[Center]) /\ ~cbusy)
  BY <1>3, <1>7
<1> HIDE DEF tx, ctx, ob, cob, c, d
<1>13. /\ t \in RouterRecords(r) /\ t.tx = tx /\ t.ctx = ctx /\ t.credit = c /\ t.ccredit = d
       /\ t.seen = s.seen /\ t.cseen = s.cseen /\ t.faults = s.faults
  BY <1>8, <1>9, <1>10 DEF RouterRecords
<1> HIDE DEF t
<1> QED BY <1>2, <1>11, <1>12, <1>13 DEF CreditFaults

\* What a pass from s to t does to the credits of link l: one is had for a
\* toggled bit, one is spent for a packet sent, and none is owed.
CreditsPassed(l, s, t) ==
  /\ t.credit[l] = (s.credit[l] + One(link[l].dataCredit # s.seen[l])) - One(t.tx[l] # None)
  /\ t.ccredit[l] = (s.ccredit[l] + One(link[l].ctrlCredit # s.cseen[l])) - One(t.ctx[l] # None)
  /\ t.tx[l] # None => s.credit[l] + One(link[l].dataCredit # s.seen[l]) > 0
  /\ t.ctx[l] # None => s.ccredit[l] + One(link[l].ctrlCredit # s.cseen[l]) > 0
  /\ t.seen[l] = link[l].dataCredit /\ t.cseen[l] = link[l].ctrlCredit

\* Link l returns a credit that was never spent.
CreditTooMany(l, s) ==
  \/ link[l].dataCredit # s.seen[l] /\ s.credit[l] >= SafDepth
  \/ link[l].ctrlCredit # s.cseen[l] /\ s.ccredit[l] >= CtrlDepth

\* What is sent to a core is not for the memory, and was not sent to a busy core.
Takeable(f, busy) == f = None \/ (~IsMem(f) /\ ~busy)

\* A pass of the router: it stays a router, the bits of the links are seen, a
\* credit is had for each toggled bit and spent for each packet sent, and the
\* counters do not go below zero, nor above the depth of the stages unless
\* they were there before the pass.
LEMMA RouterPassFacts ==
  ASSUME NEW r \in Routers, router[r] \in RouterRecords(r), CreditBits,
         NEW data \in [InPorts(r) -> DataFlits \cup {None}],
         NEW ctrl \in [InPorts(r) -> CtrlFlits \cup {None}],
         NEW room, NEW croom, NEW memTaken \in BOOLEAN, NEW busy, NEW cbusy,
         memTaken => router[r].ob[Center] # <<>>
  PROVE  LET s == router[r]
             t == RouterPass(r, data, ctrl, room, croom, memTaken, busy, cbusy)
         IN  /\ t \in RouterRecords(r)
             /\ Takeable(t.tx[Center], busy)
             /\ Takeable(t.ctx[Center], cbusy)
             /\ \A l \in LinkOuts(r) : CreditsPassed(l, s, t)
             /\ s.faults = {} =>
                  CreditFaults(t) = {} \/ \E l \in LinkOuts(r) : CreditTooMany(l, s)
<1> DEFINE s == router[r]
           s1 == ReturnCredits(s)
           s2 == TakeInputs(s1, data, ctrl)
           s3 == SendOutputs(s2, room, croom, memTaken, busy, cbusy)
           s4 == RouteInputs(r, s3)
           s5 == Advertise(s4)
           s6 == WakeInjectors(s5, s)
<1>1. RouterPass(r, data, ctrl, room, croom, memTaken, busy, cbusy) = s6
  BY DEF RouterPass
<1>2. /\ s1 \in RouterRecords(r) /\ s1.ob = s.ob
      /\ \A l \in LinkOuts(r) :
           /\ s1.credit[l] = s.credit[l] + One(link[l].dataCredit # s.seen[l])
           /\ s1.ccredit[l] = s.ccredit[l] + One(link[l].ctrlCredit # s.cseen[l])
           /\ s1.seen[l] = link[l].dataCredit /\ s1.cseen[l] = link[l].ctrlCredit
      /\ s.faults = {} =>
           \/ CreditFaults(s1) = {}
           \/ \E l \in LinkOuts(r) :
                \/ link[l].dataCredit # s.seen[l] /\ s.credit[l] >= SafDepth
                \/ link[l].ctrlCredit # s.cseen[l] /\ s.ccredit[l] >= CtrlDepth
  BY ReturnCreditsFacts
<1> HIDE DEF s, s1
<1>3. s2 \in RouterRecords(r) /\ s2.ob = s1.ob /\ SameCredits(s1, s2)
  BY <1>2, TakeInputsType
<1>4. memTaken => s2.ob[Center] # <<>>
  BY <1>2, <1>3, Zenon DEF s
<1> HIDE DEF s2
<1>5. /\ s3 \in RouterRecords(r)
      /\ \A l \in LinkOuts(r) :
           /\ s3.credit[l] = s2.credit[l] - One(s3.tx[l] # None)
           /\ s3.ccredit[l] = s2.ccredit[l] - One(s3.ctx[l] # None)
           /\ s3.tx[l] # None => s2.credit[l] > 0
           /\ s3.ctx[l] # None => s2.ccredit[l] > 0
      /\ s3.tx[Center] = None \/ (~IsMem(s3.tx[Center]) /\ ~busy)
      /\ s3.ctx[Center] = None \/ (~IsMem(s3.ctx[Center]) /\ ~cbusy)
      /\ s3.seen = s2.seen /\ s3.cseen = s2.cseen
      /\ CreditFaults(s3) = CreditFaults(s2)
  BY <1>3, <1>4, SendOutputsFacts
<1> HIDE DEF s3
<1>6. s4 \in RouterRecords(r) /\ SameCredits(s3, s4)
  BY <1>5, RouteInputsType
<1> HIDE DEF s4
<1>7. s5 \in RouterRecords(r) /\ SameCredits(s4, s5)
  BY <1>6, AdvertiseType
<1> HIDE DEF s5
<1>8. s6 \in RouterRecords(r) /\ SameCredits(s5, s6)
  BY <1>7, WakeInjectorsType
<1> HIDE DEF s6
<1>9. /\ s2.credit = s1.credit /\ s2.ccredit = s1.ccredit
      /\ s2.seen = s1.seen /\ s2.cseen = s1.cseen /\ CreditFaults(s2) = CreditFaults(s1)
      /\ s6.credit = s3.credit /\ s6.ccredit = s3.ccredit
      /\ s6.seen = s3.seen /\ s6.cseen = s3.cseen /\ CreditFaults(s6) = CreditFaults(s3)
      /\ s6.tx = s3.tx /\ s6.ctx = s3.ctx
  BY <1>3, <1>6, <1>7, <1>8 DEF SameCredits
<1>10. ASSUME NEW l \in LinkOuts(r)
       PROVE  CreditsPassed(l, s, s6)
  <2>1. /\ s2.credit[l] = s.credit[l] + One(link[l].dataCredit # s.seen[l])
        /\ s2.ccredit[l] = s.ccredit[l] + One(link[l].ctrlCredit # s.cseen[l])
        /\ s2.seen[l] = link[l].dataCredit /\ s2.cseen[l] = link[l].ctrlCredit
    BY <1>2, <1>9, Zenon
  <2>2. /\ s6.credit[l] = s2.credit[l] - One(s6.tx[l] # None)
        /\ s6.ccredit[l] = s2.ccredit[l] - One(s6.ctx[l] # None)
        /\ s6.tx[l] # None => s2.credit[l] > 0
        /\ s6.ctx[l] # None => s2.ccredit[l] > 0
    BY <1>5, <1>9, Zenon
  <2>3. s6.seen[l] = s2.seen[l] /\ s6.cseen[l] = s2.cseen[l]
    BY <1>5, <1>9, Zenon
  <2>4. s6.credit[l] = (s.credit[l] + One(link[l].dataCredit # s.seen[l])) - One(s6.tx[l] # None)
    BY <2>1, <2>2, Zenon
  <2>5. s6.ccredit[l] = (s.ccredit[l] + One(link[l].ctrlCredit # s.cseen[l])) - One(s6.ctx[l] # None)
    BY <2>1, <2>2, Zenon
  <2>6. s6.tx[l] # None => s.credit[l] + One(link[l].dataCredit # s.seen[l]) > 0
    BY <2>1, <2>2, Zenon
  <2>7. s6.ctx[l] # None => s.ccredit[l] + One(link[l].ctrlCredit # s.cseen[l]) > 0
    BY <2>1, <2>2, Zenon
  <2> QED BY <2>1, <2>3, <2>4, <2>5, <2>6, <2>7, Zenon DEF CreditsPassed
<1>11. /\ Takeable(s6.tx[Center], busy)
       /\ Takeable(s6.ctx[Center], cbusy)
  BY <1>5, <1>9, Zenon DEF Takeable
<1>12. s.faults = {} => CreditFaults(s6) = {} \/ \E l \in LinkOuts(r) : CreditTooMany(l, s)
  BY <1>2, <1>5, <1>9, Zenon DEF CreditTooMany
<1> QED BY <1>1, <1>8, <1>10, <1>11, <1>12, Zenon DEF s
=============================================================================
