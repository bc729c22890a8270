--------------------------- MODULE SendRecvProofs ---------------------------
(***************************************************************************)
(* The cores keep their types and no buffer of messages exceeds            *)
(* MAX_BUFFER_PACKET_SIZE by more than one message, for every set of       *)
(* cores, every program and every size of the buffers.                     *)
(***************************************************************************)
EXTENDS SendRecv, SumProofs, SequenceTheorems

-----------------------------------------------------------------------------
(* Types.                                                                  *)

Requests == Messages({"REQUEST"}, Cores)
Acks == Messages({"ACK"}, Cores)
DataPackets == Packets("DATA", Cores)
StartPackets == Packets("S_DATA", {Host})

\* The rounds that req_logic has booked: the subflows of each, per source and tag.
Rounds == UNION {[D -> Seq(SUBSET Subflows) \ {<<>>}] : D \in SUBSET (Cores \X Tags)}

\* Local variables of recv_logic.
Receptions ==
  [noticed : BOOLEAN, count : Nat, due : Nat, tails : Nat,
   ends : SUBSET ((Cores \cup {Host}) \X Subflows)]

\* The variables of a core.
Fields ==
  {"queue", "para", "sendDone", "token", "remaining", "out", "acked", "in",
   "REQUEST", "ACK", "DATA", "S_DATA", "busy", "seen", "recheck", "dbusy", "dseen",
   "acks", "rounds", "gather", "reduce", "fault"}
IsCore(k) == k = [f \in Fields |-> k[f]]

CoreTypes(k) ==
  /\ k.queue \in Seq(Prims) /\ k.para \in Seq(Prims)
  /\ k.sendDone \in BOOLEAN /\ k.token \in BOOLEAN
  /\ k.busy \in BOOLEAN /\ k.seen \in BOOLEAN /\ k.recheck \in BOOLEAN
  /\ k.dbusy \in BOOLEAN /\ k.dseen \in BOOLEAN
  /\ k.remaining \in Nat /\ k.out \in Nat /\ k.acked \in SUBSET Subflows
  /\ k.in \in Receptions
  /\ k.REQUEST \in Seq(Requests) /\ k.ACK \in Seq(Acks)
  /\ k.DATA \in Seq(DataPackets) /\ k.S_DATA \in Seq(StartPackets)
  /\ k.acks \in Seq(Requests) /\ k.rounds \in Rounds

\* A buffer exceeds its size by one message at most: there is room unless the core
\* drives the signal, and the last message has come before the router saw it.
Held(q, driven, seen) ==
  /\ Len(q) <= BufferSize + 1
  /\ ~seen => Len(q) <= BufferSize
  /\ ~driven => Len(q) < BufferSize
Bounded(k) ==
  /\ Held(k.REQUEST, k.busy, k.seen)
  /\ Held(k.ACK, k.busy, k.seen)
  /\ Held(k.DATA, k.dbusy, k.dseen)

\* A batch that has ended has left nothing to the sending thread.
BatchEnded(k) == prog.parallel /\ k.sendDone => k.para = <<>>

\* A count of what has been sent belongs to the primitive at the front, and a
\* REQUEST goes to a subflow there is.
Counting(k) ==
  k.out # 0 =>
    /\ Sender(k) # <<>>
    /\ Head(Sender(k)).type \in {"SEND_REQ", "SEND_DATA"}
    /\ Head(Sender(k)).type = "SEND_REQ" => k.out < Head(Sender(k)).stripes

CoreBase(k) == IsCore(k) /\ CoreTypes(k) /\ Bounded(k) /\ BatchEnded(k)
CoreOK(k) == CoreBase(k) /\ Counting(k)

\* The core has this barrier at the front.
BarrierAt(k, phase) ==
  /\ k.queue # <<>>
  /\ Head(k.queue).type = "BARRIER"
  /\ Head(k.queue).tag[1] = phase

\* What a channel carries.
Content(ch) ==
  IF ch[1] = "ctrl" THEN Messages({"REQUEST", "ACK"}, Cores)
  ELSE IF ch[2] = Host THEN StartPackets ELSE DataPackets

NetOK(n) ==
  /\ n = [ch \in DOMAIN n |-> n[ch]]
  /\ \A ch \in DOMAIN n :
       /\ n[ch] \in Seq(Content(ch)) /\ n[ch] # <<>>
       /\ ch[2] = Host => ch[1] = "data" /\ ch[4] = 0

\* The channel of the START messages of a core.
FromHost(c) == <<"data", Host, c, 0>>

(***************************************************************************)
(* The inductive invariant.  START messages are not created under way, and *)
(* a core that has arrived at a barrier stays there.                       *)
(***************************************************************************)
SendRecvInv ==
  /\ prog \in Programs
  /\ core = [c \in Cores |-> core[c]]
  /\ \A c \in Cores : CoreOK(core[c])
  /\ NetOK(net)
  /\ \A c \in Cores : Len(Under(net, FromHost(c))) + Len(core[c].S_DATA) <= prog.starts[c]
  /\ arrived \subseteq Cores \X Nat
  /\ \A x \in arrived : BarrierAt(core[x[1]], x[2])
  /\ done \in 0..prog.ends
-----------------------------------------------------------------------------
(* Records and sequences.                                                  *)

\* The first element and the rest of a queue.
LEMMA HeadTail ==
  ASSUME NEW S, NEW s \in Seq(S), s # <<>>
  PROVE  Head(s) \in S /\ Tail(s) \in Seq(S) /\ Len(Tail(s)) = Len(s) - 1 /\ Len(s) \in Nat \ {0}
BY HeadTailProperties, LenProperties

\* A queue with one element more, and two queues after each other.
LEMMA AppendTo ==
  ASSUME NEW S, NEW s \in Seq(S), NEW e \in S
  PROVE  /\ Append(s, e) \in Seq(S) /\ Len(Append(s, e)) = Len(s) + 1
         /\ Append(s, e) # <<>> /\ Len(s) \in Nat
BY AppendProperties, LenProperties
LEMMA ConcatTo ==
  ASSUME NEW S, NEW s \in Seq(S), NEW t \in Seq(S)
  PROVE  /\ s \o t \in Seq(S) /\ Len(s \o t) = Len(s) + Len(t)
         /\ Len(s) \in Nat /\ Len(t) \in Nat
BY ConcatProperties, LenProperties

\* The primitives of a program have these fields.
LEMMA PrimTypes ==
  ASSUME NEW p \in Prims
  PROVE  /\ p.tag[1] \in Int /\ p.size \in Nat /\ p.stripes \in {1, 2, 4}
         /\ p.type \in {"SEND_REQ", "SEND_DATA"} => p.tag \in Tags
         /\ p.type = "BARRIER" => p.tag[1] \in Nat
BY DEF Prims

\* A core that differs from another in some variables only.
Changes(k, u, S) ==
  /\ IsCore(u)
  /\ "queue" \notin S => u.queue = k.queue
  /\ "para" \notin S => u.para = k.para
  /\ "sendDone" \notin S => u.sendDone = k.sendDone
  /\ "token" \notin S => u.token = k.token
  /\ "remaining" \notin S => u.remaining = k.remaining
  /\ "out" \notin S => u.out = k.out
  /\ "acked" \notin S => u.acked = k.acked
  /\ "in" \notin S => u.in = k.in
  /\ "REQUEST" \notin S => u.REQUEST = k.REQUEST
  /\ "ACK" \notin S => u.ACK = k.ACK
  /\ "DATA" \notin S => u.DATA = k.DATA
  /\ "S_DATA" \notin S => u.S_DATA = k.S_DATA
  /\ "busy" \notin S => u.busy = k.busy
  /\ "seen" \notin S => u.seen = k.seen
  /\ "recheck" \notin S => u.recheck = k.recheck
  /\ "dbusy" \notin S => u.dbusy = k.dbusy
  /\ "dseen" \notin S => u.dseen = k.dseen
  /\ "acks" \notin S => u.acks = k.acks
  /\ "rounds" \notin S => u.rounds = k.rounds
  /\ "gather" \notin S => u.gather = k.gather
  /\ "reduce" \notin S => u.reduce = k.reduce
  /\ "fault" \notin S => u.fault = k.fault

\* A message is taken out of a buffer.
LEMMA HeldShrinks ==
  ASSUME NEW q, NEW r, Len(q) \in Nat, Len(r) \in Nat, Len(r) <= Len(q),
         NEW driven, NEW seen, Held(q, driven, seen)
  PROVE  Held(r, driven, seen)
BY ProgramsAssumption DEF Held

\* A message is stored and the signal driven anew, or neither; the router sees what
\* was driven before.
LEMMA HeldGrows ==
  ASSUME NEW q, NEW r, Len(q) \in Nat, Len(r) \in Nat, Len(r) <= Len(q) + 1,
         NEW driven, NEW seen, Held(q, driven, seen), ~seen,
         NEW full, ~full => Len(r) < BufferSize
  PROVE  Held(r, full, driven)
BY ProgramsAssumption DEF Held

\* The signal is driven and seen anew.
LEMMA HeldAnew ==
  ASSUME NEW q, Len(q) \in Nat, NEW driven, NEW seen, Held(q, driven, seen),
         NEW full, ~full => Len(q) < BufferSize
  PROVE  Held(q, full, full)
BY ProgramsAssumption DEF Held

\* The error of a thread changes nothing else.
LEMMA FailOK ==
  ASSUME NEW k, NEW what, IsCore(k)
  PROVE  /\ Changes(k, Fail(k, what), {"fault"})
         /\ CoreBase(k) => CoreBase(Fail(k, what))
         /\ CoreOK(k) => CoreOK(Fail(k, what))
<1> DEFINE u == Fail(k, what)
<1>1. Changes(k, u, {"fault"}) /\ u.fault = what
  BY DEF Fail, IsCore, Fields, Changes
<1> HIDE DEF u
<1>2. CoreBase(k) => CoreBase(u)
  BY <1>1 DEF CoreBase, CoreTypes, Bounded, BatchEnded, Changes
<1>3. Counting(k) => Counting(u)
  BY <1>1 DEF Counting, Sender, Changes
<1> QED BY <1>1, <1>2, <1>3 DEF CoreOK, u

\* recv_logic starts with fresh variables.
LEMMA FreshType == FreshIn \in Receptions
BY DEF FreshIn, Receptions

\* worker_core_execute moves on to the next primitive.
LEMMA FinishOK ==
  ASSUME NEW k, CoreBase(k), k.queue # <<>>
  PROVE  /\ Changes(k, Finish(k), {"queue", "in"})
         /\ CoreBase(Finish(k))
         /\ k.out = 0 => CoreOK(Finish(k))
         /\ prog.parallel /\ Counting(k) => CoreOK(Finish(k))
<1> DEFINE u == Finish(k)
           q == Tail(k.queue) \o (IF Head(k.queue).type \in NotRefilled THEN <<>>
                                  ELSE <<Head(k.queue)>>)
<1>1. q \in Seq(Prims)
  <2>1. k.queue \in Seq(Prims)
    BY DEF CoreBase, CoreTypes
  <2>2. Tail(k.queue) \in Seq(Prims) /\ Head(k.queue) \in Prims
    BY <2>1, HeadTail
  <2>3. <<Head(k.queue)>> \in Seq(Prims) /\ <<>> \in Seq(Prims)
    BY <2>2
  <2> QED BY <2>2, <2>3, ConcatProperties
<1>2. Changes(k, u, {"queue", "in"}) /\ u.queue = q /\ u.in = FreshIn
  <2> HIDE DEF q
  <2>1. u = [k EXCEPT !.queue = q, !.in = FreshIn]
    BY DEF Finish, q
  <2> HIDE DEF u
  <2> QED BY <2>1 DEF CoreBase, IsCore, Fields, Changes
<1> HIDE DEF u, q
<1>3. CoreBase(u)
  BY <1>1, <1>2, FreshType
  DEF CoreBase, CoreTypes, Bounded, BatchEnded, Changes
<1>4. k.out = 0 => Counting(u)
  BY <1>2 DEF Counting, Changes
<1>5. prog.parallel /\ Counting(k) => Counting(u)
  BY <1>2 DEF Counting, Sender, Changes
<1> QED BY <1>2, <1>3, <1>4, <1>5 DEF CoreOK, u

\* The sending thread moves on to its next primitive.
LEMMA FinishSendOK ==
  ASSUME NEW k, CoreBase(k), Sender(k) # <<>>
  PROVE  /\ CoreOK(FinishSend(k))
         /\ Changes(k, FinishSend(k),
                    {"queue", "in", "para", "sendDone", "out", "acked", "fault"})
         /\ prog.parallel => FinishSend(k).queue = k.queue
<1> DEFINE fresh == [k EXCEPT !.out = 0, !.acked = {}]
<1>1. Changes(k, fresh, {"out", "acked"}) /\ fresh.out = 0 /\ fresh.acked = {}
  BY DEF CoreBase, IsCore, Fields, Changes
<1> HIDE DEF fresh
<1>3. CoreOK(fresh)
  <2>1. fresh.out \in Nat /\ fresh.acked \in SUBSET Subflows
    BY <1>1
  <2>2. CoreTypes(fresh)
    BY <1>1, <2>1 DEF CoreBase, CoreTypes, Changes
  <2>3. Bounded(fresh) /\ BatchEnded(fresh) /\ IsCore(fresh)
    BY <1>1 DEF CoreBase, Bounded, BatchEnded, Changes
  <2>4. Counting(fresh)
    BY <1>1 DEF Counting
  <2> QED BY <2>2, <2>3, <2>4 DEF CoreOK, CoreBase
<1>4. CASE ~prog.parallel
  <2>1. FinishSend(k) = Finish(fresh)
    BY <1>4 DEF FinishSend, fresh
  <2>2. fresh.queue # <<>>
    BY <1>1, <1>4 DEF Sender, Changes
  <2>3. CoreOK(Finish(fresh)) /\ Changes(fresh, Finish(fresh), {"queue", "in"})
    BY <1>1, <1>3, <2>2, FinishOK DEF CoreOK
  <2> QED BY <1>1, <1>4, <2>1, <2>3 DEF Changes
<1>5. CASE prog.parallel
  <2>1. k.para # <<>> /\ k.para \in Seq(Prims)
    BY <1>5 DEF Sender, CoreBase, CoreTypes
  <2>2. IsCore(fresh) /\ fresh.para = k.para /\ fresh.queue = k.queue
    BY <1>1 DEF Changes
  <2>3. k.sendDone = FALSE
    BY <1>5, <2>1 DEF CoreBase, BatchEnded, CoreTypes
  <2>7. Len(k.para) \in Nat /\ k.remaining \in Nat
    BY <2>1, LenProperties DEF CoreBase, CoreTypes
  <2>4. CASE Len(k.para) > 1
    <3> DEFINE v == [fresh EXCEPT !.para = Tail(@)]
    <3>1. FinishSend(k) = v
      BY <1>5, <2>4, <2>7 DEF FinishSend, fresh, Fail
    <3>2. Changes(fresh, v, {"para"}) /\ v.para = Tail(k.para)
      BY <2>2 DEF Changes, IsCore, Fields
    <3>3. v.para \in Seq(Prims)
      BY <2>1, <3>2, HeadTail
    <3> HIDE DEF v
    <3>4. CoreOK(v)
      <4>1. fresh.sendDone = FALSE
        BY <2>3, <1>1 DEF Changes
      <4> QED BY <1>1, <1>3, <3>2, <3>3, <4>1
          DEF CoreOK, Counting, CoreBase, CoreTypes, Bounded, BatchEnded, Changes
    <3> QED BY <1>1, <2>2, <3>1, <3>2, <3>4 DEF Changes
  <2>5. CASE Len(k.para) <= 1 /\ k.remaining # 0
    <3> DEFINE v == Fail(fresh, "batch ended before every DATA tail")
    <3>1. FinishSend(k) = v
      BY <1>5, <2>5, <2>7 DEF FinishSend, fresh, Fail
    <3>2. CoreOK(v) /\ Changes(fresh, v, {"fault"})
      BY <1>3, <2>2, FailOK
    <3> HIDE DEF v
    <3> QED BY <1>1, <2>2, <3>1, <3>2 DEF Changes
  <2>6. CASE Len(k.para) <= 1 /\ k.remaining = 0
    <3> DEFINE v == [fresh EXCEPT !.para = <<>>, !.sendDone = TRUE]
    <3>1. FinishSend(k) = v
      BY <1>5, <2>6, <2>7 DEF FinishSend, fresh
    <3>2. Changes(fresh, v, {"para", "sendDone"}) /\ v.para = <<>> /\ v.sendDone = TRUE
      BY <2>2 DEF Changes, IsCore, Fields
    <3> HIDE DEF v
    <3>3. v.para \in Seq(Prims)
      BY <3>2
    <3>4. BatchEnded(v) /\ v.sendDone \in BOOLEAN
      BY <3>2 DEF BatchEnded
    <3>5. CoreOK(v)
      BY <1>1, <1>3, <3>2, <3>3, <3>4
      DEF CoreOK, Counting, CoreBase, CoreTypes, Bounded, Changes
    <3> QED BY <1>1, <2>2, <3>1, <3>2, <3>5 DEF Changes
  <2> QED BY <2>4, <2>5, <2>6, <2>7
<1>6. prog.parallel \/ ~prog.parallel
  OBVIOUS
<1> QED BY <1>4, <1>5, <1>6
-----------------------------------------------------------------------------
(* req_logic.                                                              *)

\* A round is added, or a subflow to one.
LEMMA RoundsWith ==
  ASSUME NEW r \in Rounds, NEW x \in Cores \X Tags, NEW b \in Seq(SUBSET Subflows), b # <<>>
  PROVE  With(r, x, b) \in Rounds
<1>1. PICK D \in SUBSET (Cores \X Tags) : r \in [D -> Seq(SUBSET Subflows) \ {<<>>}]
  BY DEF Rounds
<1>2. With(r, x, b) \in [D \cup {x} -> Seq(SUBSET Subflows) \ {<<>>}]
  BY <1>1 DEF With
<1>3. D \cup {x} \in SUBSET (Cores \X Tags)
  BY <1>1
<1> QED BY <1>2, <1>3 DEF Rounds

\* What a core may look like while req_logic goes through the REQUESTs of k.
Faults(k) == {k.fault, "invalid REQUEST", "REQUEST repeats a subflow"}
Sorting(k) ==
  {[k EXCEPT !.REQUEST = x[1], !.acks = x[2], !.rounds = x[3], !.fault = x[4]] :
     x \in Seq(Requests) \X Seq(Requests) \X Rounds \X Faults(k)}

LEMMA SortingFields ==
  ASSUME NEW k, IsCore(k), NEW u
  PROVE  u \in Sorting(k) <=>
           /\ Changes(k, u, {"REQUEST", "acks", "rounds", "fault"})
           /\ u.REQUEST \in Seq(Requests) /\ u.acks \in Seq(Requests) /\ u.rounds \in Rounds
           /\ u.fault \in Faults(k)
<1>1. ASSUME u \in Sorting(k)
      PROVE  /\ Changes(k, u, {"REQUEST", "acks", "rounds", "fault"})
             /\ u.REQUEST \in Seq(Requests) /\ u.acks \in Seq(Requests) /\ u.rounds \in Rounds
             /\ u.fault \in Faults(k)
  <2>1. PICK x \in Seq(Requests) \X Seq(Requests) \X Rounds \X Faults(k) :
             u = [k EXCEPT !.REQUEST = x[1], !.acks = x[2], !.rounds = x[3], !.fault = x[4]]
    BY <1>1 DEF Sorting
  <2>2. /\ Changes(k, u, {"REQUEST", "acks", "rounds", "fault"})
        /\ u.REQUEST = x[1] /\ u.acks = x[2] /\ u.rounds = x[3] /\ u.fault = x[4]
    BY <2>1 DEF Changes, IsCore, Fields
  <2> QED BY <2>2
<1>2. ASSUME Changes(k, u, {"REQUEST", "acks", "rounds", "fault"}),
             u.REQUEST \in Seq(Requests), u.acks \in Seq(Requests), u.rounds \in Rounds,
             u.fault \in Faults(k)
      PROVE  u \in Sorting(k)
  <2> DEFINE w == [k EXCEPT !.REQUEST = u.REQUEST, !.acks = u.acks, !.rounds = u.rounds,
                            !.fault = u.fault]
  <2>1. IsCore(w) /\ \A f \in Fields : w[f] = u[f]
    BY <1>2 DEF Changes, IsCore, Fields
  <2>2. w = u
    <3> HIDE DEF w
    <3> QED BY <1>2, <2>1 DEF IsCore, Changes
  <2> DEFINE x == <<u.REQUEST, u.acks, u.rounds, u.fault>>
  <2>3. x \in Seq(Requests) \X Seq(Requests) \X Rounds \X Faults(k)
    BY <1>2
  <2>4. u = [k EXCEPT !.REQUEST = x[1], !.acks = x[2], !.rounds = x[3], !.fault = x[4]]
    BY <2>2
  <2> HIDE DEF x
  <2> QED BY <2>3, <2>4 DEF Sorting
<1> QED BY <1>1, <1>2

\* The fields of a REQUEST.
LEMMA RequestFields ==
  ASSUME NEW m \in Requests
  PROVE  m.src \in Cores /\ m.tag \in Tags /\ m.sub \in Subflows
BY DEF Requests, Messages

\* A REQUEST is booked in the round of its source and tag.
LEMMA BookRoundOK ==
  ASSUME NEW k, IsCore(k), NEW u \in Sorting(k), NEW m \in Requests, NEW stripes
  PROVE  /\ BookRound(u, m, stripes) \in Sorting(k)
         /\ BookRound(u, m, stripes).REQUEST = u.REQUEST
         /\ BookRound(u, m, stripes).acks = u.acks
<1> DEFINE S == {"REQUEST", "acks", "rounds", "fault"}
           rounds == RoundsOf(u, m)
           open == rounds # <<>> /\ Last(rounds) # AllSubflows(stripes)
           booked == IF open THEN Front(rounds) \o <<Last(rounds) \cup {m.sub}>>
                             ELSE Append(rounds, {m.sub})
           w == BookRound(u, m, stripes)
<1>1. /\ Changes(k, u, S) /\ u.REQUEST \in Seq(Requests) /\ u.acks \in Seq(Requests)
      /\ u.rounds \in Rounds
      /\ u.fault \in Faults(k)
  BY SortingFields
<1>2. <<m.src, m.tag>> \in Cores \X Tags /\ m.sub \in Subflows
  BY RequestFields
<1>3. rounds \in Seq(SUBSET Subflows)
  <2>1. PICK D \in SUBSET (Cores \X Tags) : u.rounds \in [D -> Seq(SUBSET Subflows) \ {<<>>}]
    BY <1>1 DEF Rounds
  <2> QED BY <2>1 DEF RoundsOf
<1>4. booked \in Seq(SUBSET Subflows) /\ booked # <<>>
  <2> HIDE DEF rounds
  <2>1. CASE open
    <3>1. rounds # <<>>
      BY <2>1
    <3>2. Len(rounds) \in Nat \ {0}
      BY <1>3, <3>1, HeadTail
    <3>3. Last(rounds) \in SUBSET Subflows
      BY <1>3, <3>2, LenProperties, ElementOfSeq DEF Last
    <3>4. Front(rounds) \in Seq(SUBSET Subflows)
      BY <1>3, <3>2, SubSeqProperties DEF Front
    <3>5. <<Last(rounds) \cup {m.sub}>> \in Seq(SUBSET Subflows)
      BY <1>2, <3>3
    <3> DEFINE a == Front(rounds)
               b == <<Last(rounds) \cup {m.sub}>>
    <3>6. a \in Seq(SUBSET Subflows) /\ b \in Seq(SUBSET Subflows) /\ Len(b) = 1
      BY <3>4, <3>5
    <3> HIDE DEF a, b
    <3>7. a \o b \in Seq(SUBSET Subflows) /\ Len(a \o b) = Len(a) + 1 /\ Len(a) \in Nat
      BY <3>6, ConcatTo
    <3>8. a \o b # <<>>
      BY <3>7
    <3> QED BY <2>1, <3>7, <3>8 DEF a, b
  <2>2. CASE ~open
    <3>1. {m.sub} \in SUBSET Subflows
      BY <1>2
    <3>2. Append(rounds, {m.sub}) \in Seq(SUBSET Subflows) /\ Append(rounds, {m.sub}) # <<>>
      BY <1>3, <3>1, AppendTo
    <3> QED BY <2>2, <3>2
  <2> QED BY <2>1, <2>2
<1> HIDE DEF booked, open, rounds
<1> DEFINE v == [u EXCEPT !.rounds = With(@, <<m.src, m.tag>>, booked)]
           x == [u EXCEPT !.fault = "REQUEST repeats a subflow"]
<1>5. w = u \/ w = x \/ w = v
  BY DEF BookRound, Fail, booked, open, rounds
<1>6. Changes(u, x, {"fault"}) /\ x.fault = "REQUEST repeats a subflow"
  BY <1>1 DEF Changes, IsCore, Fields
<1>7. Changes(u, v, {"rounds"}) /\ v.rounds = With(u.rounds, <<m.src, m.tag>>, booked)
  BY <1>1 DEF Changes, IsCore, Fields
<1>8. With(u.rounds, <<m.src, m.tag>>, booked) \in Rounds
  BY <1>1, <1>2, <1>4, RoundsWith
<1> HIDE DEF v, w, x
<1>9. x \in Sorting(k) /\ v \in Sorting(k)
  <2>1. /\ Changes(k, x, S) /\ x.REQUEST = u.REQUEST /\ x.acks = u.acks /\ x.rounds = u.rounds
        /\ Changes(k, v, S) /\ v.REQUEST = u.REQUEST /\ v.acks = u.acks /\ v.fault = u.fault
    BY <1>1, <1>6, <1>7 DEF Changes
  <2> QED BY <1>1, <1>6, <1>7, <1>8, <2>1, SortingFields DEF Faults
<1>10. x.REQUEST = u.REQUEST /\ x.acks = u.acks /\ v.REQUEST = u.REQUEST /\ v.acks = u.acks
  BY <1>6, <1>7 DEF Changes
<1> QED BY <1>5, <1>9, <1>10 DEF w

\* A REQUEST is answered, put back or refused.
LEMMA TakeRequestOK ==
  ASSUME NEW k, IsCore(k), NEW u \in Sorting(k), NEW m \in Requests
  PROVE  /\ TakeRequest(u, m) \in Sorting(k)
         /\ Len(TakeRequest(u, m).REQUEST) <= Len(u.REQUEST) + 1
<1> DEFINE S == {"REQUEST", "acks", "rounds", "fault"}
           p == Head(u.queue)
           b == BookRound(u, m, p.stripes)
           back == [u EXCEPT !.REQUEST = Append(@, m)]
           refused == [u EXCEPT !.fault = "invalid REQUEST"]
           answered == [b EXCEPT !.acks = Append(@, m)]
           w == TakeRequest(u, m)
<1>1. /\ Changes(k, u, S) /\ u.REQUEST \in Seq(Requests) /\ u.acks \in Seq(Requests)
      /\ u.rounds \in Rounds
      /\ u.fault \in Faults(k)
  BY SortingFields
<1>2. b \in Sorting(k) /\ b.REQUEST = u.REQUEST /\ b.acks = u.acks
  BY BookRoundOK
<1>3. w = back \/ w = refused \/ w = answered
  <2> HIDE DEF b
  <2> QED BY DEF TakeRequest, Fail, b
<1> HIDE DEF p, b
<1>4. /\ Changes(k, b, S) /\ b.rounds \in Rounds
      /\ b.fault \in Faults(k)
  BY <1>2, SortingFields
<1>5. /\ Append(u.REQUEST, m) \in Seq(Requests)
      /\ Len(Append(u.REQUEST, m)) = Len(u.REQUEST) + 1
      /\ Append(u.acks, m) \in Seq(Requests) /\ Len(u.REQUEST) \in Nat
  BY <1>1, AppendTo
<1>6. Changes(u, back, {"REQUEST"}) /\ back.REQUEST = Append(u.REQUEST, m)
  BY <1>1 DEF Changes, IsCore, Fields
<1>7. Changes(u, refused, {"fault"}) /\ refused.fault = "invalid REQUEST"
  BY <1>1 DEF Changes, IsCore, Fields
<1>8. Changes(b, answered, {"acks"}) /\ answered.acks = Append(u.acks, m)
  BY <1>2, <1>4 DEF Changes, IsCore, Fields
<1> HIDE DEF back, refused, answered, w
<1>9. back \in Sorting(k)
  <2>1. Changes(k, back, S) /\ back.acks = u.acks /\ back.rounds = u.rounds /\ back.fault = u.fault
    BY <1>1, <1>6 DEF Changes
  <2> QED BY <1>1, <1>5, <1>6, <2>1, SortingFields
<1>10. refused \in Sorting(k) /\ refused.REQUEST = u.REQUEST
  <2>1. /\ Changes(k, refused, S) /\ refused.acks = u.acks /\ refused.rounds = u.rounds
        /\ refused.REQUEST = u.REQUEST
    BY <1>1, <1>7 DEF Changes
  <2> QED BY <1>1, <1>7, <2>1, SortingFields DEF Faults
<1>11. answered \in Sorting(k) /\ answered.REQUEST = u.REQUEST
  <2>1. /\ Changes(k, answered, S) /\ answered.rounds = b.rounds /\ answered.fault = b.fault
        /\ answered.REQUEST = u.REQUEST
    BY <1>2, <1>4, <1>8 DEF Changes
  <2> QED BY <1>1, <1>4, <1>5, <1>8, <2>1, SortingFields
<1>12. w \in Sorting(k)
  BY <1>3, <1>9, <1>10, <1>11
<1>13. Len(w.REQUEST) <= Len(u.REQUEST) + 1
  BY <1>3, <1>5, <1>6, <1>10, <1>11
<1> QED BY <1>12, <1>13 DEF w

\* One activation of req_logic leaves at most the REQUESTs there were.
LEMMA SortedOK ==
  ASSUME NEW k, CoreBase(k), k.acks = <<>>, k.queue # <<>>, Head(k.queue).type \in Receives
  PROVE  Notice(k) \in Sorting(k) /\ Len(Notice(k).REQUEST) <= Len(k.REQUEST)
<1> DEFINE n == Len(k.REQUEST)
           s0 == [k EXCEPT !.REQUEST = <<>>]
           U == Sorting(k)
           next(t, i) == TakeRequest(t, k.REQUEST[i])
           F == [x \in U \X (1..n) |-> next(x[1], x[2])]
           G == {x \in (0..n) \X U : Len(x[2].REQUEST) <= x[1]}
           rec(g, i) == IF i = 0 THEN s0 ELSE TakeRequest(g[i-1], k.REQUEST[i])
           taken == CHOOSE g : g = [i \in 0..n |-> rec(g, i)]
<1>0. Notice(k) = taken[n]
  BY DEF Notice
<1>k. IsCore(k) /\ k.REQUEST \in Seq(Requests) /\ k.rounds \in Rounds
  BY DEF CoreBase, CoreTypes
<1>n. n \in Nat /\ \A i \in 1..n : k.REQUEST[i] \in Requests
  BY <1>k, LenProperties, ElementOfSeq
<1>1. s0 \in U /\ Len(s0.REQUEST) <= 0
  <2>1. Changes(k, s0, {"REQUEST"}) /\ s0.REQUEST = <<>>
    BY <1>k DEF Changes, IsCore, Fields
  <2> HIDE DEF s0
  <2>2. /\ Changes(k, s0, {"REQUEST", "acks", "rounds", "fault"})
        /\ s0.acks = <<>> /\ s0.rounds = k.rounds /\ s0.fault = k.fault
    BY <2>1 DEF Changes
  <2>3. <<>> \in Seq(Requests) /\ Len(<<>>) = 0
    OBVIOUS
  <2>4. s0.REQUEST \in Seq(Requests) /\ s0.acks \in Seq(Requests) /\ s0.rounds \in Rounds
    BY <1>k, <2>1, <2>2, <2>3
  <2>5. s0.fault \in Faults(k)
    BY <2>2 DEF Faults
  <2>6. s0 \in U
    BY <1>k, <2>2, <2>4, <2>5, SortingFields
  <2>7. Len(s0.REQUEST) <= 0
    BY <2>1, <2>3
  <2> QED BY <2>6, <2>7
<1>2. ASSUME NEW i \in 1..n, NEW t \in U, Len(t.REQUEST) <= i - 1
      PROVE  next(t, i) \in U /\ Len(next(t, i).REQUEST) <= i
  <2>1. next(t, i) \in U /\ Len(next(t, i).REQUEST) <= Len(t.REQUEST) + 1
    BY <1>k, <1>n, TakeRequestOK
  <2>2. t.REQUEST \in Seq(Requests) /\ next(t, i).REQUEST \in Seq(Requests)
    BY <1>k, <2>1, SortingFields
  <2>3. Len(t.REQUEST) \in Nat /\ Len(next(t, i).REQUEST) \in Nat
    BY <2>2, LenProperties
  <2> HIDE DEF next
  <2> QED BY <1>n, <1>2, <2>1, <2>3
<1>3. \A i \in 1..n, t \in U : F[<<t, i>>] = next(t, i)
  <2> HIDE DEF next, U
  <2> QED OBVIOUS
<1>4. \A i \in 0..n : \A t : <<i, t>> \in G <=> t \in U /\ Len(t.REQUEST) <= i
  <2> HIDE DEF U
  <2> QED OBVIOUS
<1> HIDE DEF F, G, U, n, s0
<1>6. PICK g : Repeats(g, n, s0, F)
  BY <1>n, IterationSolved
<1>7. <<0, s0>> \in G
  <2>1. 0 \in 0..n
    BY <1>n
  <2> QED BY <1>1, <1>4, <2>1
<1>8. ASSUME NEW i \in 1..n, NEW t, <<i-1, t>> \in G
      PROVE  t \in U /\ F[<<t, i>>] = next(t, i) /\ <<i, next(t, i)>> \in G
  <2>1. i \in 0..n /\ i - 1 \in 0..n
    BY <1>n
  <2>2. t \in U /\ Len(t.REQUEST) <= i - 1
    BY <1>4, <1>8, <2>1
  <2>3. next(t, i) \in U /\ Len(next(t, i).REQUEST) <= i
    BY <1>2, <2>2
  <2>4. F[<<t, i>>] = next(t, i)
    BY <1>3, <2>2
  <2> HIDE DEF next
  <2> QED BY <1>4, <2>1, <2>2, <2>3, <2>4
<1> HIDE DEF next
<1>9. \A i \in 0..n : <<i, g[i]>> \in G
  <2>1. \A i \in 0..n : g[i] = IF i = 0 THEN s0 ELSE F[<<g[i-1], i>>]
    BY <1>6 DEF Repeats
  <2>2. <<0, g[0]>> \in G
    <3>1. 0 \in 0..n
      BY <1>n
    <3> QED BY <1>7, <2>1, <3>1
  <2>3. ASSUME NEW i \in 1..n, <<i-1, g[i-1]>> \in G PROVE <<i, g[i]>> \in G
    <3>1. g[i] = F[<<g[i-1], i>>]
      BY <1>n, <2>1
    <3> QED BY <1>8, <2>3, <3>1
  <2> QED BY <1>n, <2>2, <2>3, IterationKeeps
<1>10. g = [i \in 0..n |-> rec(g, i)]
  <2>1. ASSUME NEW i \in 0..n PROVE (IF i = 0 THEN s0 ELSE F[<<g[i-1], i>>]) = rec(g, i)
    <3>1. CASE i = 0
      BY <3>1
    <3>2. CASE i # 0
      <4>1. i \in 1..n /\ i - 1 \in 0..n
        BY <1>n, <3>2
      <4>2. F[<<g[i-1], i>>] = next(g[i-1], i)
        BY <1>8, <1>9, <4>1
      <4> QED BY <3>2, <4>2 DEF next
    <3> QED BY <3>1, <3>2
  <2> HIDE DEF rec
  <2> QED BY <1>6, <2>1 DEF Repeats
<1>11. taken = [i \in 0..n |-> rec(taken, i)]
  <2> HIDE DEF rec
  <2> QED BY <1>10
<1> HIDE DEF taken
<1>12. \A i \in 0..n : <<i, taken[i]>> \in G
  <2>1. \A i \in 0..n : taken[i] = rec(taken, i)
    <3> HIDE DEF rec
    <3> QED BY <1>11
  <2>2. <<0, taken[0]>> \in G
    BY <1>n, <1>7, <2>1
  <2>3. ASSUME NEW i \in 1..n, <<i-1, taken[i-1]>> \in G PROVE <<i, taken[i]>> \in G
    <3>1. i \in 0..n /\ i # 0
      BY <1>n
    <3>2. taken[i] = next(taken[i-1], i)
      BY <2>1, <3>1 DEF next
    <3> QED BY <1>8, <2>3, <3>2
  <2> QED BY <1>n, <2>2, <2>3, IterationKeeps
<1>13. taken[n] \in U /\ Len(taken[n].REQUEST) <= n
  <2>1. n \in 0..n
    BY <1>n
  <2> QED BY <1>4, <1>12, <2>1
<1> QED BY <1>0, <1>13 DEF n, U

\* req_logic is notified: it works, or it is still sending or has nothing to do.
LEMMA NoticeOK ==
  ASSUME NEW k, CoreBase(k)
  PROVE  /\ Changes(k, Notice(k), {"REQUEST", "acks", "rounds", "fault"})
         /\ CoreBase(Notice(k))
         /\ Counting(k) => CoreOK(Notice(k))
<1> DEFINE u == Notice(k)
<1>1. CASE k.acks = <<>> /\ k.queue # <<>> /\ Head(k.queue).type \in Receives
  <2>1. u \in Sorting(k) /\ Len(u.REQUEST) <= Len(k.REQUEST)
    BY <1>1, SortedOK
  <2>2. /\ Changes(k, u, {"REQUEST", "acks", "rounds", "fault"})
        /\ u.REQUEST \in Seq(Requests) /\ u.acks \in Seq(Requests) /\ u.rounds \in Rounds
    BY <2>1, SortingFields DEF CoreBase
  <2>3. k.REQUEST \in Seq(Requests)
    BY DEF CoreBase, CoreTypes
  <2>4. Len(u.REQUEST) \in Nat /\ Len(k.REQUEST) \in Nat /\ BufferSize \in Nat
    BY <2>2, <2>3, LenProperties, ProgramsAssumption
  <2> HIDE DEF u
  <2>5. Bounded(u)
    <3>1. /\ u.ACK = k.ACK /\ u.DATA = k.DATA /\ u.busy = k.busy /\ u.seen = k.seen
          /\ u.dbusy = k.dbusy /\ u.dseen = k.dseen
      BY <2>2 DEF Changes
    <3>2. Bounded(k)
      BY DEF CoreBase
    <3>3. Held(u.REQUEST, k.busy, k.seen)
      BY <2>1, <2>4, <3>2, HeldShrinks DEF Bounded
    <3> QED BY <3>1, <3>2, <3>3 DEF Bounded
  <2>6. CoreBase(u)
    BY <2>2, <2>5 DEF CoreBase, CoreTypes, BatchEnded, Changes
  <2>7. Counting(k) => Counting(u)
    BY <2>2 DEF Counting, Sender, Changes
  <2> QED BY <2>2, <2>6, <2>7 DEF CoreOK, u
<1>2. CASE ~(k.acks = <<>> /\ k.queue # <<>> /\ Head(k.queue).type \in Receives)
  <2>1. u = k
    BY <1>2 DEF Notice
  <2>2. IsCore(k)
    BY DEF CoreBase
  <2> HIDE DEF u
  <2>3. Changes(k, u, {"REQUEST", "acks", "rounds", "fault"})
    BY <2>1, <2>2 DEF Changes
  <2> QED BY <2>1, <2>3 DEF CoreOK, u
<1> QED BY <1>1, <1>2
-----------------------------------------------------------------------------
(* The network.                                                            *)

\* A message of a core enters a channel.
LEMMA PutOK ==
  ASSUME NEW n, NetOK(n), NEW ch, NEW m \in Content(ch), ch[2] # Host
  PROVE  /\ NetOK(Put(n, ch, m))
         /\ \A d : d[2] = Host => Under(Put(n, ch, m), d) = Under(n, d)
<1> DEFINE q == Append(Under(n, ch), m)
           v == Put(n, ch, m)
<1>1. q \in Seq(Content(ch)) /\ q # <<>>
  <2>1. Under(n, ch) \in Seq(Content(ch))
    BY DEF NetOK, Under
  <2> QED BY <2>1, AppendTo
<1>2. /\ v = [d \in DOMAIN v |-> v[d]] /\ DOMAIN v = DOMAIN n \cup {ch}
      /\ \A d \in DOMAIN v : v[d] = IF d = ch THEN q ELSE n[d]
  BY DEF Put, With
<1> HIDE DEF v, q
<1>3. NetOK(v)
  BY <1>1, <1>2 DEF NetOK
<1>4. \A d : d[2] = Host => Under(v, d) = Under(n, d)
  BY <1>2 DEF Under
<1> QED BY <1>3, <1>4 DEF v

\* The first message of a channel leaves it.
LEMMA TakeOK ==
  ASSUME NEW n, NetOK(n), NEW ch \in DOMAIN n
  PROVE  /\ NetOK(Take(n, ch))
         /\ Head(n[ch]) \in Content(ch)
         /\ Len(Under(n, ch)) \in Nat
         /\ Len(Under(Take(n, ch), ch)) = Len(Under(n, ch)) - 1
         /\ \A d : d # ch => Under(Take(n, ch), d) = Under(n, d)
<1> DEFINE v == Take(n, ch)
<1>1. n[ch] \in Seq(Content(ch)) /\ n[ch] # <<>>
  BY DEF NetOK
<1>2. /\ Head(n[ch]) \in Content(ch) /\ Tail(n[ch]) \in Seq(Content(ch))
      /\ Len(Tail(n[ch])) = Len(n[ch]) - 1 /\ Len(n[ch]) \in Nat \ {0}
  BY <1>1, HeadTail
<1>3. CASE Len(n[ch]) = 1
  <2>1. v = [d \in DOMAIN n \ {ch} |-> n[d]]
    BY <1>3 DEF Take
  <2> HIDE DEF v
  <2>2. NetOK(v)
    BY <2>1 DEF NetOK
  <2>3. Len(Under(v, ch)) = 0
    BY <2>1 DEF Under
  <2>4. \A d : d # ch => Under(v, d) = Under(n, d)
    BY <2>1 DEF Under
  <2>5. Len(Under(n, ch)) = 1
    BY <1>3 DEF Under
  <2> QED BY <1>2, <2>2, <2>3, <2>4, <2>5 DEF v
<1>4. CASE Len(n[ch]) # 1
  <2>1. v = [n EXCEPT ![ch] = Tail(n[ch])]
    BY <1>4 DEF Take
  <2>2. n = [d \in DOMAIN n |-> n[d]]
    BY DEF NetOK
  <2>3. Tail(n[ch]) # <<>>
    <3>1. Len(Tail(n[ch])) # 0
      BY <1>2, <1>4
    <3>2. Len(<<>>) = 0
      OBVIOUS
    <3> QED BY <3>1, <3>2, Zenon
  <2> HIDE DEF v
  <2>4. /\ DOMAIN v = DOMAIN n /\ v = [d \in DOMAIN v |-> v[d]]
        /\ v[ch] = Tail(n[ch]) /\ \A d \in DOMAIN v : d # ch => v[d] = n[d]
    BY <2>1, <2>2
  <2>5. NetOK(v)
    BY <1>2, <2>3, <2>4 DEF NetOK
  <2>6. Under(v, ch) = Tail(n[ch]) /\ Under(n, ch) = n[ch]
    BY <2>4 DEF Under
  <2>7. \A d : d # ch => Under(v, d) = Under(n, d)
    BY <2>4 DEF Under
  <2> QED BY <1>2, <2>5, <2>6, <2>7 DEF v
<1> QED BY <1>3, <1>4
-----------------------------------------------------------------------------
(* A step of one core.                                                     *)

\* What the other state has to satisfy after a step that gives core c the state k.
StepOf(c, k) ==
  /\ prog' = prog
  /\ core' = [core EXCEPT ![c] = k]
  /\ CoreOK(k)
  /\ \A phase : BarrierAt(core[c], phase) => BarrierAt(k, phase)

\* The START messages of a core under way and stored.
Started(n, c, k) == Len(Under(n, FromHost(c))) + Len(k.S_DATA)

\* The cores keep what they have to.
LEMMA StepKeepsCores ==
  ASSUME SendRecvInv, NEW c \in Cores, NEW k, StepOf(c, k),
         NetOK(net'), Started(net', c, k) <= prog.starts[c],
         \A d \in Cores : d # c => Under(net', FromHost(d)) = Under(net, FromHost(d)),
         arrived' = arrived, done' \in 0..prog.ends
  PROVE  SendRecvInv'
<1>1. /\ core' = [d \in Cores |-> core'[d]] /\ core'[c] = k
      /\ \A d \in Cores : d # c => core'[d] = core[d]
  BY DEF SendRecvInv, StepOf
<1>2. \A d \in Cores : CoreOK(core'[d])
  BY <1>1 DEF SendRecvInv, StepOf
<1>3. (\A d \in Cores : CoreOK(core[d]))'
  <2>1. ASSUME NEW d \in Cores PROVE CoreOK(core[d])'
    <3>1. CoreOK(core'[d])
      BY <1>2
    <3>2. prog' = prog
      BY DEF StepOf
    <3> QED BY <3>1, <3>2 DEF CoreOK, CoreBase, BatchEnded, Counting, Sender, IsCore, CoreTypes,
                              Bounded, Held
  <2> QED BY <2>1
<1>4. ASSUME NEW d \in Cores
      PROVE  Len(Under(net', FromHost(d))) + Len(core'[d].S_DATA) <= prog.starts[d]
  <2>1. CASE d = c
    BY <1>1, <2>1 DEF Started
  <2>2. CASE d # c
    BY <1>1, <2>2 DEF SendRecvInv
  <2> QED BY <2>1, <2>2
<1>5. ASSUME NEW x \in arrived PROVE BarrierAt(core'[x[1]], x[2])
  <2>1. BarrierAt(core[x[1]], x[2]) /\ x[1] \in Cores
    BY DEF SendRecvInv
  <2>2. CASE x[1] = c
    BY <1>1, <2>1, <2>2 DEF StepOf
  <2>3. CASE x[1] # c
    BY <1>1, <2>1, <2>3
  <2> QED BY <2>2, <2>3
<1>6. (\A d \in Cores : Len(Under(net, FromHost(d))) + Len(core[d].S_DATA) <= prog.starts[d])'
  <2>1. prog' = prog
    BY DEF StepOf
  <2> QED BY <1>4, <2>1 DEF Under, FromHost
<1>7. (\A x \in arrived : BarrierAt(core[x[1]], x[2]))'
  <2>1. arrived' = arrived
    OBVIOUS
  <2> QED BY <1>5, <2>1 DEF BarrierAt
<1>8. NetOK(net)'
  <2>1. NetOK(net')
    OBVIOUS
  <2> QED BY <2>1 DEF NetOK, Content, StartPackets, DataPackets, Messages, Packets
<1>9. prog' \in Programs /\ arrived' \subseteq Cores \X Nat /\ done' \in 0..prog'.ends
  BY DEF SendRecvInv, StepOf
<1> QED BY <1>1, <1>3, <1>6, <1>7, <1>8, <1>9 DEF SendRecvInv

\* A step of a core that neither sends nor receives START messages.
LEMMA LocalStep ==
  ASSUME SendRecvInv, NEW c \in Cores, NEW k, StepOf(c, k),
         NetOK(net'), \A d \in Cores : Under(net', FromHost(d)) = Under(net, FromHost(d)),
         k.S_DATA = core[c].S_DATA, arrived' = arrived, done' = done
  PROVE  SendRecvInv'
<1>1. Started(net', c, k) <= prog.starts[c]
  BY DEF SendRecvInv, Started
<1>2. done' \in 0..prog.ends
  BY DEF SendRecvInv
<1> QED BY <1>1, <1>2, StepKeepsCores

\* What is known of a core.
LEMMA Known ==
  ASSUME SendRecvInv, NEW c \in Cores
  PROVE  /\ CoreOK(core[c]) /\ CoreBase(core[c]) /\ IsCore(core[c]) /\ CoreTypes(core[c])
         /\ Bounded(core[c]) /\ BatchEnded(core[c]) /\ Counting(core[c])
         /\ c # Host /\ BufferSize \in Nat \ {0} /\ NetOK(net)
         /\ prog.parallel \in BOOLEAN
BY ProgramsAssumption DEF SendRecvInv, CoreOK, CoreBase

\* The network is left alone.
LEMMA SameNet ==
  ASSUME SendRecvInv, UNCHANGED net
  PROVE  NetOK(net') /\ \A d \in Cores : Under(net', FromHost(d)) = Under(net, FromHost(d))
<1>1. net' = net
  OBVIOUS
<1>2. NetOK(net)
  BY DEF SendRecvInv
<1> QED BY <1>1, <1>2

\* A core at another primitive is not at a barrier.
LEMMA NotAtBarrier ==
  ASSUME NEW c, NEW types, At(c, types), "BARRIER" \notin types
  PROVE  \A phase : ~BarrierAt(core[c], phase)
BY DEF At, BarrierAt

\* The sending thread does not pass a barrier.
LEMMA SenderNotAtBarrier ==
  ASSUME NEW c, NEW type, Sending(c, type), type # "BARRIER",
         NEW k, prog.parallel => k.queue = core[c].queue
  PROVE  \A phase : BarrierAt(core[c], phase) => BarrierAt(k, phase)
<1>1. CASE prog.parallel
  BY <1>1 DEF BarrierAt
<1>2. CASE ~prog.parallel
  BY <1>2 DEF BarrierAt, Sending, Sender
<1> QED BY <1>1, <1>2

\* A primitive that does not send ends.
LEMMA FinishAt ==
  ASSUME SendRecvInv, NEW c \in Cores, NEW types, At(c, types),
         "SEND_REQ" \notin types, "SEND_DATA" \notin types,
         NEW S, NEW u, Changes(core[c], u, S), CoreBase(u),
         "queue" \notin S, "para" \notin S, "out" \notin S
  PROVE  CoreOK(Finish(u)) /\ Changes(u, Finish(u), {"queue", "in"})
<1>1. u.queue = core[c].queue /\ u.para = core[c].para /\ u.out = core[c].out
  BY DEF Changes
<1>2. Counting(core[c])
  BY Known
<1>3. core[c].queue # <<>> /\ Head(core[c].queue).type \in types
  BY DEF At
<1>4. CASE prog.parallel
  <2>1. Counting(u)
    BY <1>1, <1>2, <1>4 DEF Counting, Sender
  <2> QED BY <1>1, <1>3, <1>4, <2>1, FinishOK
<1>5. CASE ~prog.parallel
  <2>1. u.out = 0
    BY <1>1, <1>2, <1>3, <1>5 DEF Counting, Sender
  <2> QED BY <1>1, <1>3, <2>1, FinishOK
<1> QED BY <1>4, <1>5

\* A primitive that does not send goes on.
LEMMA StayAt ==
  ASSUME SendRecvInv, NEW c \in Cores, NEW S, NEW u, Changes(core[c], u, S), CoreBase(u),
         "queue" \notin S, "para" \notin S, "out" \notin S
  PROVE  CoreOK(u) /\ \A phase : BarrierAt(core[c], phase) => BarrierAt(u, phase)
<1>1. u.queue = core[c].queue /\ u.para = core[c].para /\ u.out = core[c].out
  BY DEF Changes
<1>2. Counting(core[c])
  BY Known
<1>3. Counting(u)
  BY <1>1, <1>2 DEF Counting, Sender
<1>4. \A phase : BarrierAt(core[c], phase) => BarrierAt(u, phase)
  BY <1>1 DEF BarrierAt
<1> QED BY <1>3, <1>4 DEF CoreOK
-----------------------------------------------------------------------------
(* The primitive queue.                                                    *)

\* Compute keeps the invariant.
LEMMA ComputeKeeps ==
  ASSUME SendRecvInv, NEW c \in Cores, Compute(c)
  PROVE  SendRecvInv'
<1> DEFINE q == core[c].queue
           k == [core[c] EXCEPT !.token = @ \/ (Len(q) >= 2 /\ q[2].type # "COMP")]
           types == {"COMP", "SET", "REDUCE_COMPUTE"}
<1>k. /\ IsCore(core[c]) /\ CoreTypes(core[c]) /\ Bounded(core[c]) /\ BatchEnded(core[c])
      /\ Counting(core[c]) /\ NetOK(net) /\ c # Host
  BY Known
<1>1. At(c, types)
  BY DEF Compute
<1>2. Changes(core[c], k, {"token"}) /\ k.token \in BOOLEAN
  <2> DEFINE b == core[c].token \/ (Len(q) >= 2 /\ q[2].type # "COMP")
  <2>1. b \in BOOLEAN
    OBVIOUS
  <2>2. k = [core[c] EXCEPT !.token = b]
    OBVIOUS
  <2> HIDE DEF b, k
  <2>3. Changes(core[c], k, {"token"}) /\ k.token = b
    BY <1>k, <2>2 DEF Changes, IsCore, Fields
  <2> QED BY <2>1, <2>3
<1>3. /\ core' = [core EXCEPT ![c] = Finish(k)]
      /\ UNCHANGED <<prog, net, arrived, done>>
  BY DEF Compute
<1> HIDE DEF k
<1>4. CoreBase(k)
  BY <1>2, <1>k DEF Changes, CoreBase, CoreTypes, Bounded, BatchEnded
<1>5. CoreOK(Finish(k)) /\ Changes(k, Finish(k), {"queue", "in"})
  BY <1>1, <1>2, <1>4, FinishAt
<1>6. Finish(k).S_DATA = core[c].S_DATA
  BY <1>2, <1>5 DEF Changes
<1>7. StepOf(c, Finish(k))
  BY <1>1, <1>3, <1>5, NotAtBarrier DEF StepOf
<1> QED BY <1>3, <1>6, <1>7, SameNet, LocalStep

\* The sending primitives at the front of a queue.
LEMMA BatchLength ==
  ASSUME NEW q \in Seq(Prims), q # <<>>, Head(q).type \in SendModule
  PROVE  \E i \in 1..Len(q) : /\ \A j \in 1..i : q[j].type \in SendModule
                              /\ i < Len(q) => q[i + 1].type \notin SendModule
<1> DEFINE T == {i \in 1..Len(q) : i < Len(q) => q[i + 1].type \notin SendModule}
<1>1. Len(q) \in Nat \ {0} /\ Head(q) = q[1]
  BY HeadTailProperties, LenProperties
<1>2. T \subseteq Nat /\ T # {}
  <2>1. Len(q) \in T
    BY <1>1
  <2> QED BY <1>1, <2>1
<1>3. PICK i \in T : \A j \in T : i <= j
  <2> HIDE DEF T
  <2> QED BY <1>2, LeastNatural
<1>4. ASSUME NEW j \in 1..i PROVE q[j].type \in SendModule
  <2>1. CASE j = 1
    BY <1>1, <2>1
  <2>2. CASE j # 1
    <3>1. j - 1 \in 1..Len(q) /\ j - 1 < i
      BY <1>1, <1>3, <2>2
    <3>2. j - 1 \notin T
      <4>1. i \in Nat /\ j \in Nat /\ ~(i <= j - 1)
        BY <1>2, <1>3, <3>1
      <4> HIDE DEF T
      <4> QED BY <1>3, <4>1
    <3>3. (j - 1) + 1 = j
      OBVIOUS
    <3> QED BY <3>1, <3>2, <3>3
  <2> QED BY <2>1, <2>2
<1> QED BY <1>3, <1>4

\* StartBatch keeps the invariant.
LEMMA StartBatchKeeps ==
  ASSUME SendRecvInv, NEW c \in Cores, StartBatch(c)
  PROVE  SendRecvInv'
<1> DEFINE q == core[c].queue
           n == CHOOSE i \in 1..Len(q) :
                   /\ \A j \in 1..i : q[j].type \in SendModule
                   /\ i < Len(q) => q[i + 1].type \notin SendModule
           batch == SubSeq(q, 1, n)
           rest == SubSeq(q, n + 1, Len(q)) \o batch
           tails == Cardinality({i \in 1..n : q[i].type = "SEND_DATA"})
           k == [core[c] EXCEPT !.queue = rest, !.para = batch, !.sendDone = FALSE,
                                !.remaining = tails]
<1>k. /\ IsCore(core[c]) /\ CoreTypes(core[c]) /\ Bounded(core[c]) /\ BatchEnded(core[c])
      /\ Counting(core[c]) /\ NetOK(net) /\ c # Host
  BY Known
<1>1. prog.parallel /\ At(c, SendModule \ {"RECV_ACK"}) /\ core[c].sendDone
  BY DEF StartBatch
<1>2. q \in Seq(Prims) /\ q # <<>> /\ Head(q).type \in SendModule
  BY <1>1, <1>k DEF At, CoreTypes
<1>3. n \in 1..Len(q) /\ Len(q) \in Nat
  <2>1. \E i \in 1..Len(q) : /\ \A j \in 1..i : q[j].type \in SendModule
                             /\ i < Len(q) => q[i + 1].type \notin SendModule
    BY <1>2, BatchLength
  <2> QED BY <1>2, <2>1, LenProperties
<1>4. core' = [core EXCEPT ![c] = k] /\ UNCHANGED <<prog, net, arrived, done>>
  BY DEF StartBatch
<1> HIDE DEF n, q
<1>5. batch \in Seq(Prims) /\ SubSeq(q, n + 1, Len(q)) \in Seq(Prims)
  BY <1>2, <1>3, SubSeqProperties
<1>6. rest \in Seq(Prims)
  <2> HIDE DEF batch
  <2> QED BY <1>5, ConcatTo
<1>7. tails \in Nat
  <2>1. IsFiniteSet(1..n)
    BY <1>3, FS_Interval
  <2> QED BY <2>1, FS_Subset, FS_CardinalityType
<1> HIDE DEF batch, rest, tails
<1>8. /\ Changes(core[c], k, {"queue", "para", "sendDone", "remaining"})
      /\ k.queue = rest /\ k.para = batch /\ k.sendDone = FALSE /\ k.remaining = tails
  BY <1>k DEF Changes, IsCore, Fields
<1> HIDE DEF k
<1>9. CoreBase(k)
  <2>1. k.sendDone \in BOOLEAN /\ BatchEnded(k)
    BY <1>8 DEF BatchEnded
  <2> QED BY <1>5, <1>6, <1>7, <1>8, <2>1, <1>k DEF Changes, CoreBase, CoreTypes, Bounded
<1>10. Counting(k)
  <2>1. core[c].para = <<>>
    BY <1>1, <1>k DEF BatchEnded
  <2>2. core[c].out = 0
    BY <1>1, <2>1, <1>k DEF Counting, Sender
  <2> QED BY <1>8, <2>2 DEF Counting, Changes
<1>11. StepOf(c, k)
  BY <1>1, <1>4, <1>9, <1>10, NotAtBarrier DEF StepOf, CoreOK, SendModule
<1>12. k.S_DATA = core[c].S_DATA
  BY <1>8 DEF Changes
<1> QED BY <1>4, <1>11, <1>12, SameNet, LocalStep
-----------------------------------------------------------------------------
(* The sender.                                                             *)

\* SendReq keeps the invariant.
LEMMA SendReqKeeps ==
  ASSUME SendRecvInv, NEW c \in Cores, SendReq(c)
  PROVE  SendRecvInv'
<1> DEFINE p == Head(Sender(core[c]))
           sub == core[c].out
           k == [core[c] EXCEPT !.out = sub + 1]
           u == IF sub + 1 = p.stripes THEN FinishSend(k) ELSE k
           ch == <<"ctrl", c, p.peer, sub>>
           m == [type |-> "REQUEST", src |-> c, tag |-> p.tag, sub |-> sub]
<1>k. /\ IsCore(core[c]) /\ CoreTypes(core[c]) /\ Bounded(core[c]) /\ BatchEnded(core[c])
      /\ Counting(core[c]) /\ NetOK(net) /\ c # Host
  BY Known
<1>1. Sending(c, "SEND_REQ")
  BY DEF SendReq
<1>2. Sender(core[c]) # <<>> /\ p.type = "SEND_REQ" /\ Sender(core[c]) \in Seq(Prims)
  BY <1>1, <1>k DEF Sending, Sender, CoreTypes
<1>3. p \in Prims
  BY <1>2, HeadTail
<1>4. p.stripes \in {1, 2, 4} /\ p.tag \in Tags
  BY <1>2, <1>3, PrimTypes
<1>5. sub \in Nat /\ sub < p.stripes
  <2>1. sub \in Nat
    BY <1>k DEF CoreTypes
  <2>2. sub # 0 => sub < p.stripes
    BY <1>2, <1>k DEF Counting
  <2> QED BY <1>4, <2>1, <2>2
<1>6. core' = [core EXCEPT ![c] = u] /\ net' = Put(net, ch, m) /\ UNCHANGED <<prog, arrived, done>>
  BY DEF SendReq
<1>7. m \in Content(ch) /\ ch[2] # Host
  <2>1. sub \in Subflows
    BY <1>4, <1>5 DEF Subflows
  <2> QED BY <1>4, <2>1, <1>k DEF Content, Messages
<1> HIDE DEF p, sub
<1>8. Changes(core[c], k, {"out"}) /\ k.out = sub + 1
  BY <1>k DEF Changes, IsCore, Fields
<1> HIDE DEF k, ch, m
<1>9. CoreBase(k)
  <2>1. k.out \in Nat
    BY <1>5, <1>8
  <2> QED BY <1>8, <1>k, <2>1
      DEF Changes, CoreBase, CoreTypes, Bounded, BatchEnded
<1>10. Sender(k) = Sender(core[c]) /\ k.queue = core[c].queue
  BY <1>8 DEF Changes, Sender
<1>11. CoreOK(u) /\ u.S_DATA = core[c].S_DATA /\ (prog.parallel => u.queue = core[c].queue)
  <2>1. CASE sub + 1 = p.stripes
    <3>1. /\ CoreOK(FinishSend(k)) /\ (prog.parallel => FinishSend(k).queue = k.queue)
          /\ FinishSend(k).S_DATA = k.S_DATA
      BY <1>2, <1>9, <1>10, FinishSendOK DEF Changes
    <3>2. k.S_DATA = core[c].S_DATA
      BY <1>8 DEF Changes
    <3> QED BY <1>10, <2>1, <3>1, <3>2
  <2>2. CASE sub + 1 # p.stripes
    <3>1. Counting(k)
      BY <1>2, <1>4, <1>5, <1>8, <1>10, <2>2 DEF Counting, p
    <3> QED BY <1>8, <1>9, <2>2, <3>1 DEF CoreOK, Changes
  <2> QED BY <2>1, <2>2
<1> HIDE DEF u
<1>12. NetOK(net') /\ \A d \in Cores : Under(net', FromHost(d)) = Under(net, FromHost(d))
  BY <1>6, <1>7, <1>k, PutOK DEF FromHost
<1>13. StepOf(c, u)
  BY <1>1, <1>6, <1>11, SenderNotAtBarrier DEF StepOf
<1> QED BY <1>6, <1>11, <1>12, <1>13, LocalStep

\* RecvAck keeps the invariant.
LEMMA RecvAckKeeps ==
  ASSUME SendRecvInv, NEW c \in Cores, RecvAck(c)
  PROVE  SendRecvInv'
<1> DEFINE p == Head(Sender(core[c]))
           sub == Head(core[c].ACK).sub
           k == [core[c] EXCEPT !.ACK = Tail(@), !.acked = @ \cup {sub}]
           u == CASE prog.parallel -> FinishSend(k)
                  [] ~prog.parallel /\ sub >= p.stripes -> Fail(k, "invalid ACK")
                  [] ~prog.parallel /\ sub < p.stripes /\ sub \in core[c].acked ->
                       Fail(k, "duplicate ACK")
                  [] OTHER -> IF Cardinality(k.acked) = p.stripes THEN FinishSend(k) ELSE k
<1>k. /\ IsCore(core[c]) /\ CoreTypes(core[c]) /\ Bounded(core[c]) /\ BatchEnded(core[c])
      /\ Counting(core[c]) /\ NetOK(net) /\ c # Host
  BY Known
<1>1. Sending(c, "RECV_ACK") /\ core[c].ACK # <<>>
  BY DEF RecvAck
<1>2. core' = [core EXCEPT ![c] = u] /\ UNCHANGED <<prog, net, arrived, done>>
  BY DEF RecvAck
<1>3. /\ Head(core[c].ACK) \in Acks /\ Tail(core[c].ACK) \in Seq(Acks)
      /\ Len(Tail(core[c].ACK)) = Len(core[c].ACK) - 1 /\ Len(core[c].ACK) \in Nat \ {0}
  BY <1>1, <1>k, HeadTail DEF CoreTypes
<1>4. sub \in Subflows
  BY <1>3 DEF Acks, Messages
<1>5. Sender(core[c]) # <<>> /\ p.type = "RECV_ACK"
  BY <1>1 DEF Sending
<1>6. u \in {FinishSend(k), k, Fail(k, "invalid ACK"), Fail(k, "duplicate ACK")}
  <2> HIDE DEF k, sub, p
  <2> QED BY DEF Fail
<1> HIDE DEF u, p, sub
<1>7. /\ Changes(core[c], k, {"ACK", "acked"})
      /\ k.ACK = Tail(core[c].ACK) /\ k.acked = core[c].acked \cup {sub}
  BY <1>k DEF Changes, IsCore, Fields
<1> HIDE DEF k
<1>8. Bounded(k)
  <2>1. /\ k.REQUEST = core[c].REQUEST /\ k.DATA = core[c].DATA
        /\ k.busy = core[c].busy /\ k.seen = core[c].seen
        /\ k.dbusy = core[c].dbusy /\ k.dseen = core[c].dseen
    BY <1>7 DEF Changes
  <2>2. Len(k.ACK) \in Nat /\ Len(core[c].ACK) \in Nat /\ Len(k.ACK) <= Len(core[c].ACK)
    BY <1>3, <1>7
  <2>3. Held(k.ACK, core[c].busy, core[c].seen)
    BY <1>k, <2>2, HeldShrinks DEF Bounded
  <2> QED BY <1>k, <2>1, <2>3 DEF Bounded
<1>9. CoreBase(k)
  <2>1. k.ACK \in Seq(Acks) /\ k.acked \in SUBSET Subflows
    BY <1>3, <1>4, <1>7, <1>k DEF CoreTypes
  <2> QED BY <1>7, <1>8, <1>k, <2>1 DEF Changes, CoreBase, CoreTypes, BatchEnded
<1>10. Sender(k) = Sender(core[c]) /\ k.queue = core[c].queue /\ k.S_DATA = core[c].S_DATA
  BY <1>7 DEF Changes, Sender
<1>11. CoreOK(k)
  BY <1>7, <1>9, StayAt
<1>12. CoreOK(u) /\ u.S_DATA = k.S_DATA /\ (prog.parallel => u.queue = k.queue)
  <2>1. CASE u = FinishSend(k)
    BY <1>5, <1>9, <1>10, <2>1, FinishSendOK DEF Changes
  <2>2. CASE u = k
    BY <1>11, <2>2
  <2>3. ASSUME NEW what, u = Fail(k, what)
        PROVE  CoreOK(u) /\ u.S_DATA = k.S_DATA /\ u.queue = k.queue
    <3>1. CoreOK(u) /\ Changes(k, u, {"fault"})
      BY <1>9, <1>11, <2>3, FailOK DEF CoreBase
    <3> QED BY <3>1 DEF Changes
  <2> QED BY <1>6, <2>1, <2>2, <2>3
<1>13. StepOf(c, u)
  BY <1>1, <1>2, <1>10, <1>12, SenderNotAtBarrier DEF StepOf
<1> QED BY <1>2, <1>10, <1>12, <1>13, SameNet, LocalStep

\* The last tail of a batch is accounted for.
LEMMA ConsumeOK ==
  ASSUME NEW k, CoreBase(k)
  PROVE  /\ CoreBase(ConsumeDataTail(k))
         /\ Changes(k, ConsumeDataTail(k), {"remaining", "token", "fault"})
<1> DEFINE u == ConsumeDataTail(k)
<1>1. CASE k.remaining = 0
  <2>1. u = Fail(k, "tail accounting underflow")
    BY <1>1 DEF ConsumeDataTail
  <2> HIDE DEF u
  <2>2. CoreBase(u) /\ Changes(k, u, {"fault"})
    BY <2>1, FailOK DEF CoreBase
  <2>3. Changes(k, u, {"remaining", "token", "fault"})
    BY <2>2 DEF Changes
  <2> QED BY <2>2, <2>3 DEF u
<1>2. CASE k.remaining # 0
  <2> DEFINE b == k.token /\ k.remaining > 1
             n == k.remaining - 1
  <2>1. u = [k EXCEPT !.remaining = n, !.token = b]
    BY <1>2 DEF ConsumeDataTail
  <2>2. b \in BOOLEAN
    OBVIOUS
  <2>3. n \in Nat
    BY <1>2 DEF CoreBase, CoreTypes
  <2> HIDE DEF u, b, n
  <2>4. Changes(k, u, {"remaining", "token"}) /\ u.remaining = n /\ u.token = b
    BY <2>1 DEF CoreBase, Changes, IsCore, Fields
  <2>5. CoreBase(u)
    BY <2>2, <2>3, <2>4 DEF Changes, CoreBase, CoreTypes, Bounded, BatchEnded
  <2>6. Changes(k, u, {"remaining", "token", "fault"})
    BY <2>4 DEF Changes
  <2> QED BY <2>5, <2>6 DEF u
<1> QED BY <1>1, <1>2

\* SendData keeps the invariant.
LEMMA SendDataKeeps ==
  ASSUME SendRecvInv, NEW c \in Cores, SendData(c)
  PROVE  SendRecvInv'
<1> DEFINE p == Head(Sender(core[c]))
           sent == core[c].out
           last == sent + 1 = p.size
           sub == sent % p.stripes
           seq == sent \div p.stripes + 1
           k == [core[c] EXCEPT !.out = sent + 1]
           t == IF prog.parallel THEN ConsumeDataTail(k) ELSE k
           u == IF ~last THEN k ELSE FinishSend(t)
           ch == <<"data", c, p.peer, sub>>
           end == (seq = StripePackets(p.size, p.stripes, sub))
           m == [type |-> "DATA", src |-> c, tag |-> p.tag, sub |-> sub, seq |-> seq, end |-> end]
<1>k. /\ IsCore(core[c]) /\ CoreTypes(core[c]) /\ Bounded(core[c]) /\ BatchEnded(core[c])
      /\ Counting(core[c]) /\ NetOK(net) /\ c # Host
  BY Known
<1>1. Sending(c, "SEND_DATA")
  BY DEF SendData
<1>2. Sender(core[c]) # <<>> /\ p.type = "SEND_DATA" /\ Sender(core[c]) \in Seq(Prims)
  BY <1>1, <1>k DEF Sending, Sender, CoreTypes
<1>3. p \in Prims
  BY <1>2, HeadTail
<1>4. p.stripes \in {1, 2, 4} /\ p.tag \in Tags
  BY <1>2, <1>3, PrimTypes
<1>5. sent \in Nat
  BY <1>k DEF CoreTypes
<1>6. core' = [core EXCEPT ![c] = u] /\ net' = Put(net, ch, m) /\ UNCHANGED <<prog, arrived, done>>
  BY DEF SendData
<1>7. m \in Content(ch) /\ ch[2] # Host
  <2> HIDE DEF p, sent
  <2>1. sub \in Subflows /\ seq \in Nat
    <3>1. CASE p.stripes = 1
      BY <1>5, <3>1 DEF Subflows
    <3>2. CASE p.stripes = 2
      BY <1>5, <3>2 DEF Subflows
    <3>3. CASE p.stripes = 4
      BY <1>5, <3>3 DEF Subflows
    <3> QED BY <1>4, <3>1, <3>2, <3>3
  <2>2. end \in BOOLEAN
    OBVIOUS
  <2> HIDE DEF sub, seq, end
  <2>3. m \in DataPackets
    BY <1>4, <2>1, <2>2 DEF DataPackets, Packets
  <2>4. Content(ch) = DataPackets /\ ch[2] = c
    BY <1>k DEF Content
  <2> QED BY <1>k, <2>3, <2>4
<1> HIDE DEF p, sent
<1>8. Changes(core[c], k, {"out"}) /\ k.out = sent + 1
  BY <1>k DEF Changes, IsCore, Fields
<1> HIDE DEF k, ch, m, last
<1>9. CoreBase(k)
  <2>1. k.out \in Nat
    BY <1>5, <1>8
  <2> QED BY <1>8, <1>k, <2>1
      DEF Changes, CoreBase, CoreTypes, Bounded, BatchEnded
<1>10. /\ Sender(k) = Sender(core[c]) /\ k.queue = core[c].queue /\ k.para = core[c].para
       /\ k.S_DATA = core[c].S_DATA
  BY <1>8 DEF Changes, Sender
<1>11. CoreOK(u) /\ u.S_DATA = core[c].S_DATA /\ (prog.parallel => u.queue = core[c].queue)
  <2>1. CASE last
    <3>1. CoreBase(t) /\ t.queue = k.queue /\ t.para = k.para /\ t.S_DATA = k.S_DATA
      <4>1. CASE prog.parallel
        BY <1>9, <4>1, ConsumeOK DEF Changes
      <4>2. CASE ~prog.parallel
        BY <1>9, <4>2
      <4> QED BY <4>1, <4>2
    <3> HIDE DEF t
    <3>2. Sender(t) # <<>>
      BY <1>2, <1>10, <3>1 DEF Sender
    <3>3. /\ CoreOK(FinishSend(t)) /\ (prog.parallel => FinishSend(t).queue = t.queue)
          /\ FinishSend(t).S_DATA = t.S_DATA
      BY <3>1, <3>2, FinishSendOK DEF Changes
    <3> QED BY <1>10, <2>1, <3>1, <3>3
  <2>2. CASE ~last
    <3>1. Counting(k)
      BY <1>2, <1>10 DEF Counting, p
    <3> QED BY <1>9, <1>10, <2>2, <3>1 DEF CoreOK
  <2> QED BY <2>1, <2>2
<1> HIDE DEF u
<1>12. NetOK(net') /\ \A d \in Cores : Under(net', FromHost(d)) = Under(net, FromHost(d))
  BY <1>6, <1>7, <1>k, PutOK DEF FromHost
<1>13. StepOf(c, u)
  BY <1>1, <1>6, <1>11, SenderNotAtBarrier DEF StepOf
<1> QED BY <1>6, <1>11, <1>12, <1>13, LocalStep

\* SendDone keeps the invariant: a simulation that goes on lacks a DONE message.
LEMMA SendDoneKeeps ==
  ASSUME SendRecvInv, NEW c \in Cores, SendDone(c)
  PROVE  SendRecvInv'
<1> DEFINE u == FinishSend(core[c])
<1>k. /\ IsCore(core[c]) /\ CoreTypes(core[c]) /\ Bounded(core[c]) /\ BatchEnded(core[c])
      /\ Counting(core[c]) /\ NetOK(net) /\ c # Host
  BY Known
<1>1. Sending(c, "SEND_DONE")
  BY DEF SendDone
<1>2. core' = [core EXCEPT ![c] = u] /\ UNCHANGED <<prog, net, arrived>> /\ done' = done + 1
  BY DEF SendDone
<1>3. Sender(core[c]) # <<>> /\ done < prog.ends
  BY <1>1 DEF Sending, Running
<1>4. done' \in 0..prog.ends
  <2>1. done \in 0..prog.ends /\ prog.ends \in Nat
    BY ProgramsAssumption DEF SendRecvInv
  <2> QED BY <1>2, <1>3, <2>1
<1>5. CoreOK(u) /\ u.S_DATA = core[c].S_DATA /\ (prog.parallel => u.queue = core[c].queue)
  BY <1>3, <1>k, FinishSendOK DEF Changes, CoreBase
<1> HIDE DEF u
<1>6. StepOf(c, u)
  BY <1>1, <1>2, <1>5, SenderNotAtBarrier DEF StepOf
<1>7. Started(net', c, u) <= prog.starts[c]
  BY <1>2, <1>5 DEF SendRecvInv, Started
<1> QED BY <1>2, <1>4, <1>6, <1>7, SameNet, StepKeepsCores

\* SendAck keeps the invariant.
LEMMA SendAckKeeps ==
  ASSUME SendRecvInv, NEW c \in Cores, SendAck(c)
  PROVE  SendRecvInv'
<1> DEFINE req == Head(core[c].acks)
           u == [core[c] EXCEPT !.acks = Tail(core[c].acks)]
           ch == <<"ctrl", c, req.src, req.sub>>
           m == [type |-> "ACK", src |-> c, tag |-> OwnTag(req.src), sub |-> req.sub]
<1>k. /\ IsCore(core[c]) /\ CoreTypes(core[c]) /\ Bounded(core[c]) /\ BatchEnded(core[c])
      /\ Counting(core[c]) /\ NetOK(net) /\ c # Host
  BY Known
<1>1. core[c].acks # <<>>
  BY DEF SendAck
<1>2. core' = [core EXCEPT ![c] = u] /\ net' = Put(net, ch, m) /\ UNCHANGED <<prog, arrived, done>>
  <2>1. core = [d \in Cores |-> core[d]]
    BY DEF SendRecvInv
  <2> QED BY <2>1 DEF SendAck
<1>3. req \in Requests /\ Tail(core[c].acks) \in Seq(Requests)
  BY <1>1, <1>k, HeadTail DEF CoreTypes
<1>4. m \in Content(ch) /\ ch[2] # Host
  <2>1. req.src \in Cores /\ req.sub \in Subflows
    BY <1>3, RequestFields
  <2>2. OwnTag(req.src) \in Tags
    BY <2>1 DEF OwnTag, Tags
  <2> QED BY <1>k, <2>1, <2>2 DEF Content, Messages
<1>5. Changes(core[c], u, {"acks"}) /\ u.acks = Tail(core[c].acks)
  BY <1>k DEF Changes, IsCore, Fields
<1> HIDE DEF u, ch, m
<1>6. CoreBase(u)
  BY <1>3, <1>5, <1>k DEF Changes, CoreBase, CoreTypes, Bounded, BatchEnded
<1>7. StepOf(c, u)
  BY <1>2, <1>5, <1>6, StayAt DEF StepOf
<1>8. u.S_DATA = core[c].S_DATA
  BY <1>5 DEF Changes
<1>9. NetOK(net') /\ \A d \in Cores : Under(net', FromHost(d)) = Under(net, FromHost(d))
  BY <1>2, <1>4, <1>k, PutOK DEF FromHost
<1> QED BY <1>2, <1>7, <1>8, <1>9, LocalStep
-----------------------------------------------------------------------------
(* The receiver.                                                           *)

\* A step of a core that uses up START messages.
LEMMA ShrinkingStep ==
  ASSUME SendRecvInv, NEW c \in Cores, NEW k, StepOf(c, k), UNCHANGED <<net, arrived, done>>,
         Len(k.S_DATA) <= Len(core[c].S_DATA)
  PROVE  SendRecvInv'
<1>1. Len(k.S_DATA) \in Nat /\ Len(core[c].S_DATA) \in Nat
  <2>1. k.S_DATA \in Seq(StartPackets) /\ core[c].S_DATA \in Seq(StartPackets)
    BY Known DEF StepOf, CoreOK, CoreBase, CoreTypes
  <2> QED BY <2>1, LenProperties
<1>2. Len(Under(net, FromHost(c))) \in Nat
  <2>1. Under(net, FromHost(c)) \in Seq(Content(FromHost(c)))
    BY Known DEF Under, NetOK
  <2> QED BY <2>1, LenProperties
<1>3. Len(Under(net, FromHost(c))) + Len(core[c].S_DATA) <= prog.starts[c] /\ prog.starts[c] \in Nat
  BY ProgramsAssumption DEF SendRecvInv
<1>4. Started(net', c, k) <= prog.starts[c]
  <2>1. net' = net
    OBVIOUS
  <2> QED BY <1>1, <1>2, <1>3, <2>1 DEF Started
<1>5. done' \in 0..prog.ends /\ arrived' = arrived
  BY DEF SendRecvInv
<1> QED BY <1>4, <1>5, SameNet, StepKeepsCores

\* RecvNothing keeps the invariant.
LEMMA RecvNothingKeeps ==
  ASSUME SendRecvInv, NEW c \in Cores, RecvNothing(c)
  PROVE  SendRecvInv'
<1> DEFINE u == Finish(core[c])
<1>k. /\ IsCore(core[c]) /\ CoreTypes(core[c]) /\ Bounded(core[c]) /\ BatchEnded(core[c])
      /\ Counting(core[c]) /\ NetOK(net) /\ c # Host
  BY Known
<1>1. At(c, Receives)
  BY DEF RecvNothing
<1>2. core' = [core EXCEPT ![c] = u] /\ UNCHANGED <<prog, net, arrived, done>>
  BY DEF RecvNothing
<1>3. CoreBase(core[c]) /\ Changes(core[c], core[c], {})
  BY <1>k DEF CoreBase, Changes
<1>4. CoreOK(u) /\ Changes(core[c], u, {"queue", "in"})
  BY <1>1, <1>3, FinishAt DEF Receives
<1> HIDE DEF u
<1>5. StepOf(c, u)
  BY <1>1, <1>2, <1>4, NotAtBarrier DEF StepOf, Receives
<1>6. u.S_DATA = core[c].S_DATA
  BY <1>4 DEF Changes
<1> QED BY <1>2, <1>5, <1>6, SameNet, LocalStep

\* RecvRound keeps the invariant.
LEMMA RecvRoundKeeps ==
  ASSUME SendRecvInv, NEW c \in Cores, RecvRound(c)
  PROVE  SendRecvInv'
<1> DEFINE n == Notice(core[c])
           in == [n.in EXCEPT !.noticed = TRUE]
           u == [n EXCEPT !.in = in]
<1>k. /\ IsCore(core[c]) /\ CoreTypes(core[c]) /\ Bounded(core[c]) /\ BatchEnded(core[c])
      /\ Counting(core[c]) /\ NetOK(net) /\ c # Host
  BY Known
<1>1. At(c, Receives)
  BY DEF RecvRound
<1>2. CoreBase(n) /\ Changes(core[c], n, {"REQUEST", "acks", "rounds", "fault"})
  BY <1>k, NoticeOK DEF CoreBase
<1> HIDE DEF n
<1>3. IsCore(n) /\ n.in \in Receptions
  BY <1>2 DEF CoreBase, CoreTypes
<1>4. core' = [core EXCEPT ![c] = u] /\ UNCHANGED <<prog, net, arrived, done>>
  BY DEF RecvRound, n
<1>5. in \in Receptions
  BY <1>3 DEF Receptions
<1> HIDE DEF in
<1>6. Changes(n, u, {"in"}) /\ u.in = in
  BY <1>3 DEF Changes, IsCore, Fields
<1> HIDE DEF u
<1>7. CoreBase(u)
  BY <1>2, <1>5, <1>6 DEF Changes, CoreBase, CoreTypes, Bounded, BatchEnded
<1>8. Changes(core[c], u, {"REQUEST", "acks", "rounds", "fault", "in"})
  BY <1>2, <1>6 DEF Changes
<1>9. StepOf(c, u)
  BY <1>4, <1>7, <1>8, StayAt DEF StepOf
<1>10. u.S_DATA = core[c].S_DATA
  BY <1>8 DEF Changes
<1> QED BY <1>4, <1>9, <1>10, SameNet, LocalStep

\* Assignments to the local variables of recv_logic.
LEMMA ReceptionsExcept ==
  ASSUME NEW r \in Receptions, NEW b \in BOOLEAN, NEW n \in Nat, NEW o \in Nat,
         NEW e \in SUBSET ((Cores \cup {Host}) \X Subflows)
  PROVE  /\ [r EXCEPT !.noticed = b, !.count = n] \in Receptions
         /\ [r EXCEPT !.tails = n, !.due = o, !.ends = e] \in Receptions
<1>1. [r EXCEPT !.noticed = b, !.count = n] \in Receptions
  BY DEF Receptions
<1>2. [r EXCEPT !.tails = n, !.due = o, !.ends = e] \in Receptions
  BY DEF Receptions
<1> QED BY <1>1, <1>2

\* A packet is counted.
LEMMA CountOK ==
  ASSUME NEW k, CoreBase(k), NEW m
  PROVE  CoreBase(Count(k, m)) /\ Changes(k, Count(k, m), {"in"})
<1> DEFINE in == [k.in EXCEPT !.noticed = FALSE, !.count = k.in.count + 1]
           u == Count(k, m)
<1>1. IsCore(k) /\ k.in \in Receptions
  BY DEF CoreBase, CoreTypes
<1>2. in \in Receptions
  <2>1. /\ k.in.count \in Nat /\ k.in.due \in Nat /\ k.in.tails \in Nat
        /\ k.in.ends \in SUBSET ((Cores \cup {Host}) \X Subflows)
    BY <1>1 DEF Receptions
  <2>2. FALSE \in BOOLEAN /\ k.in.count + 1 \in Nat
    BY <2>1
  <2> QED BY <1>1, <2>2, ReceptionsExcept
<1>3. u = [k EXCEPT !.in = in]
  BY DEF Count
<1> HIDE DEF in, u
<1>4. Changes(k, u, {"in"}) /\ u.in = in
  BY <1>1, <1>3 DEF Changes, IsCore, Fields
<1>5. CoreBase(u)
  BY <1>2, <1>4 DEF Changes, CoreBase, CoreTypes, Bounded, BatchEnded
<1> QED BY <1>4, <1>5 DEF u

\* A tail is counted, or refused.
LEMMA CountTailOK ==
  ASSUME NEW k, CoreBase(k), NEW m, m.src \in Cores \cup {Host}, m.sub \in Subflows, m.seq \in Nat
  PROVE  CoreBase(CountTail(k, m)) /\ Changes(k, CountTail(k, m), {"in", "fault"})
<1> DEFINE p == Head(k.queue)
           id == <<m.src, m.sub>>
           in == [k.in EXCEPT !.tails = k.in.tails + 1, !.due = k.in.due + m.seq,
                              !.ends = k.in.ends \cup {id}]
           tail == [k EXCEPT !.in = in]
           u == CountTail(k, m)
<1>1. IsCore(k) /\ k.in \in Receptions
  BY DEF CoreBase, CoreTypes
<1>2. in \in Receptions
  <2>1. id \in (Cores \cup {Host}) \X Subflows
    OBVIOUS
  <2> HIDE DEF id
  <2>2. /\ k.in.noticed \in BOOLEAN /\ k.in.count \in Nat /\ k.in.due \in Nat /\ k.in.tails \in Nat
        /\ k.in.ends \in SUBSET ((Cores \cup {Host}) \X Subflows)
    BY <1>1 DEF Receptions
  <2>3. k.in.due + m.seq \in Nat /\ k.in.tails + 1 \in Nat
    BY <2>2
  <2>4. k.in.ends \cup {id} \in SUBSET ((Cores \cup {Host}) \X Subflows)
    BY <2>1, <2>2
  <2> QED BY <1>1, <2>3, <2>4, ReceptionsExcept
<1>3. u \in {tail, Fail(k, "invalid DATA tail"), Fail(k, "duplicate DATA tail")}
  BY DEF CountTail, Fail
<1> HIDE DEF in, u
<1>4. Changes(k, tail, {"in"}) /\ tail.in = in
  BY <1>1 DEF Changes, IsCore, Fields
<1> HIDE DEF tail
<1>5. CoreBase(tail)
  BY <1>2, <1>4 DEF Changes, CoreBase, CoreTypes, Bounded, BatchEnded
<1>6. CASE u = tail
  BY <1>4, <1>5, <1>6 DEF u, Changes
<1>7. ASSUME NEW what, u = Fail(k, what)
      PROVE  CoreBase(u) /\ Changes(k, u, {"in", "fault"})
  <2>1. CoreBase(u) /\ Changes(k, u, {"fault"})
    BY <1>1, <1>7, FailOK
  <2> QED BY <2>1 DEF Changes
<1> QED BY <1>3, <1>6, <1>7 DEF u

\* The rounds of a complete receive are used up.
LEMMA CloseRoundsOK ==
  ASSUME NEW k, CoreBase(k)
  PROVE  CoreBase(CloseRounds(k)) /\ Changes(k, CloseRounds(k), {"rounds", "fault"})
<1> DEFINE p == Head(k.queue)
           sources == {e[1] : e \in k.in.ends}
           left == [key \in DOMAIN k.rounds |->
                      IF key \in {<<s, p.tag>> : s \in sources} THEN Tail(k.rounds[key])
                      ELSE k.rounds[key]]
           rounds == [key \in {x \in DOMAIN left : left[x] # <<>>} |-> left[key]]
           used == [k EXCEPT !.rounds = rounds]
           u == CloseRounds(k)
<1>1. IsCore(k) /\ k.rounds \in Rounds
  BY DEF CoreBase, CoreTypes
<1>2. u \in {k, used, Fail(k, "incomplete REQUEST metadata")}
  BY DEF CloseRounds, Fail
<1>3. rounds \in Rounds
  <2> HIDE DEF p, sources
  <2>1. PICK D \in SUBSET (Cores \X Tags) : k.rounds \in [D -> Seq(SUBSET Subflows) \ {<<>>}]
    BY <1>1 DEF Rounds
  <2>2. DOMAIN left = D /\ \A x \in D : left[x] \in Seq(SUBSET Subflows)
    <3>1. \A x \in D : k.rounds[x] \in Seq(SUBSET Subflows) /\ k.rounds[x] # <<>>
      BY <2>1
    <3>2. \A x \in D : Tail(k.rounds[x]) \in Seq(SUBSET Subflows)
      BY <3>1, HeadTail
    <3> QED BY <2>1, <3>1, <3>2
  <2> HIDE DEF left
  <2> DEFINE E == {x \in D : left[x] # <<>>}
  <2>3. rounds \in [E -> Seq(SUBSET Subflows) \ {<<>>}]
    BY <2>2
  <2>4. E \in SUBSET (Cores \X Tags)
    BY <2>1
  <2> QED BY <2>3, <2>4 DEF Rounds
<1> HIDE DEF rounds, u
<1>4. Changes(k, used, {"rounds"}) /\ used.rounds = rounds
  BY <1>1 DEF Changes, IsCore, Fields
<1> HIDE DEF used
<1>5. CoreBase(used)
  BY <1>3, <1>4 DEF Changes, CoreBase, CoreTypes, Bounded, BatchEnded
<1>6. CASE u = used
  BY <1>4, <1>5, <1>6 DEF u, Changes
<1>7. CASE u = k
  <2>1. Changes(k, u, {"rounds", "fault"})
    BY <1>1, <1>7 DEF Changes
  <2> QED BY <1>7, <2>1 DEF u
<1>8. CASE u = Fail(k, "incomplete REQUEST metadata")
  <2>1. CoreBase(u) /\ Changes(k, u, {"fault"})
    BY <1>1, <1>8, FailOK
  <2> QED BY <2>1 DEF Changes, u
<1> QED BY <1>2, <1>6, <1>7, <1>8

\* A packet is taken out of the buffer for DATA or for START messages.
LEMMA TakenOK ==
  ASSUME NEW k, CoreBase(k), NEW from \in {"DATA", "S_DATA"}, k[from] # <<>>
  PROVE  /\ CoreBase([k EXCEPT ![from] = Tail(@)])
         /\ Changes(k, [k EXCEPT ![from] = Tail(@)], {"DATA", "S_DATA"})
         /\ Len([k EXCEPT ![from] = Tail(@)].S_DATA) <= Len(k.S_DATA)
         /\ Head(k[from]).src \in Cores \cup {Host} /\ Head(k[from]).sub \in Subflows
         /\ Head(k[from]).seq \in Nat
<1>1. IsCore(k) /\ k.DATA \in Seq(DataPackets) /\ k.S_DATA \in Seq(StartPackets)
  BY DEF CoreBase, CoreTypes
<1>2. Len(k.DATA) \in Nat /\ Len(k.S_DATA) \in Nat /\ BufferSize \in Nat
  BY <1>1, LenProperties, ProgramsAssumption
<1>3. CASE from = "DATA"
  <2> DEFINE u == [k EXCEPT !.DATA = Tail(k.DATA)]
  <2>0. [k EXCEPT ![from] = Tail(@)] = u /\ k[from] = k.DATA
    BY <1>1, <1>3 DEF IsCore, Fields
  <2>1. Changes(k, u, {"DATA"}) /\ u.DATA = Tail(k.DATA)
    BY <1>1 DEF Changes, IsCore, Fields
  <2>2. /\ Tail(k.DATA) \in Seq(DataPackets) /\ Head(k.DATA) \in DataPackets
        /\ Len(Tail(k.DATA)) = Len(k.DATA) - 1
    BY <1>1, <2>0, HeadTail
  <2> HIDE DEF u
  <2>3. Held(u.DATA, k.dbusy, k.dseen)
    <3>1. Len(u.DATA) \in Nat /\ Len(u.DATA) <= Len(k.DATA)
      BY <1>2, <2>1, <2>2, LenProperties
    <3> QED BY <1>2, <3>1, HeldShrinks DEF CoreBase, Bounded
  <2>4. CoreBase(u)
    BY <2>1, <2>2, <2>3 DEF Changes, CoreBase, CoreTypes, Bounded, BatchEnded
  <2>5. Changes(k, u, {"DATA", "S_DATA"}) /\ u.S_DATA = k.S_DATA
    BY <2>1 DEF Changes
  <2>6. Head(k.DATA).src \in Cores /\ Head(k.DATA).sub \in Subflows /\ Head(k.DATA).seq \in Nat
    BY <2>2 DEF DataPackets, Packets
  <2>7. Len(u.S_DATA) <= Len(k.S_DATA)
    BY <1>2, <2>5
  <2> QED BY <2>0, <2>4, <2>5, <2>6, <2>7
<1>4. CASE from = "S_DATA"
  <2> DEFINE u == [k EXCEPT !.S_DATA = Tail(k.S_DATA)]
  <2>0. [k EXCEPT ![from] = Tail(@)] = u /\ k[from] = k.S_DATA
    BY <1>1, <1>4 DEF IsCore, Fields
  <2>1. Changes(k, u, {"S_DATA"}) /\ u.S_DATA = Tail(k.S_DATA)
    BY <1>1 DEF Changes, IsCore, Fields
  <2>2. /\ Tail(k.S_DATA) \in Seq(StartPackets) /\ Head(k.S_DATA) \in StartPackets
        /\ Len(Tail(k.S_DATA)) = Len(k.S_DATA) - 1
    BY <1>1, <2>0, HeadTail
  <2> HIDE DEF u
  <2>4. CoreBase(u)
    BY <2>1, <2>2 DEF Changes, CoreBase, CoreTypes, Bounded, BatchEnded
  <2>5. Changes(k, u, {"DATA", "S_DATA"})
    BY <2>1 DEF Changes
  <2>6. /\ Head(k.S_DATA).src = Host /\ Head(k.S_DATA).sub \in Subflows
        /\ Head(k.S_DATA).seq \in Nat
    BY <2>2 DEF StartPackets, Packets
  <2>7. Len(u.S_DATA) <= Len(k.S_DATA)
    BY <1>2, <2>1, <2>2
  <2> QED BY <2>0, <2>4, <2>5, <2>6, <2>7
<1> QED BY <1>3, <1>4

\* RecvPacket keeps the invariant.
LEMMA RecvPacketKeeps ==
  ASSUME SendRecvInv, NEW c \in Cores, RecvPacket(c)
  PROVE  SendRecvInv'
<1> DEFINE x == core[c]
           p == Head(x.queue)
           from == IF p.type = "RECV_DATA" THEN "DATA" ELSE "S_DATA"
           m == Head(x[from])
           a == [x EXCEPT ![from] = Tail(@)]
           taken == Count(a, m)
           k == CountTail(taken, m)
           closed == CloseRounds(k)
           S == {"DATA", "S_DATA", "in", "fault", "rounds"}
           u == CASE p.tag # OwnTag(c) /\ m.tag # p.tag -> Fail(x, "incompatible tag")
                  [] ~(p.tag # OwnTag(c) /\ m.tag # p.tag) /\ ~m.end -> taken
                  [] OTHER -> IF Faulty(k) \/ ~RecvComplete(k) THEN k ELSE Finish(closed)
<1>k. /\ IsCore(core[c]) /\ CoreTypes(core[c]) /\ Bounded(core[c]) /\ BatchEnded(core[c])
      /\ Counting(core[c]) /\ NetOK(net) /\ c # Host
  BY Known
<1>1. At(c, Receives) /\ x[from] # <<>>
  BY DEF RecvPacket
<1>2. core' = [core EXCEPT ![c] = u] /\ UNCHANGED <<prog, net, arrived, done>>
  BY DEF RecvPacket
<1>3. u \in {Fail(x, "incompatible tag"), taken, k, Finish(closed)}
  <2> HIDE DEF p, from, m, taken, k, closed, x
  <2> QED BY DEF Fail
<1>4. from \in {"DATA", "S_DATA"} /\ CoreBase(x) /\ IsCore(x)
  BY <1>k DEF CoreBase
<1> HIDE DEF u, from, x
<1>5. /\ CoreBase(a) /\ Changes(x, a, {"DATA", "S_DATA"}) /\ Len(a.S_DATA) <= Len(x.S_DATA)
      /\ m.src \in Cores \cup {Host} /\ m.sub \in Subflows /\ m.seq \in Nat
  BY <1>1, <1>4, TakenOK
<1> HIDE DEF a, m
<1>6. CoreBase(taken) /\ Changes(a, taken, {"in"})
  BY <1>5, CountOK
<1> HIDE DEF taken
<1>7. CoreBase(k) /\ Changes(taken, k, {"in", "fault"})
  BY <1>5, <1>6, CountTailOK
<1> HIDE DEF k
<1>8. CoreBase(closed) /\ Changes(k, closed, {"rounds", "fault"})
  BY <1>7, CloseRoundsOK
<1> HIDE DEF closed
<1>9. CoreBase(Fail(x, "incompatible tag")) /\ Changes(x, Fail(x, "incompatible tag"), {"fault"})
  BY <1>4, FailOK
<1>10. Changes(x, taken, S) /\ taken.S_DATA = a.S_DATA
  BY <1>5, <1>6 DEF Changes
<1>11. Changes(x, k, S) /\ k.S_DATA = a.S_DATA
  BY <1>7, <1>10 DEF Changes
<1>12. Changes(x, closed, S) /\ closed.S_DATA = a.S_DATA
  BY <1>8, <1>11 DEF Changes
<1>13. Changes(x, Fail(x, "incompatible tag"), S) /\ Fail(x, "incompatible tag").S_DATA = x.S_DATA
  BY <1>9 DEF Changes
<1>14. CoreOK(Finish(closed)) /\ Finish(closed).S_DATA = a.S_DATA
  <2>1. CoreOK(Finish(closed)) /\ Changes(closed, Finish(closed), {"queue", "in"})
    BY <1>1, <1>8, <1>12, FinishAt DEF Receives, x
  <2> QED BY <1>12, <2>1 DEF Changes
<1>15. CoreOK(u)
  <2>1. ASSUME NEW w, Changes(x, w, S), CoreBase(w) PROVE CoreOK(w)
    BY <2>1, StayAt DEF x
  <2> QED BY <1>3, <1>6, <1>7, <1>9, <1>10, <1>11, <1>13, <1>14, <2>1
<1>16. Len(u.S_DATA) <= Len(x.S_DATA)
  <2>1. Len(x.S_DATA) \in Nat
    <3>1. x.S_DATA \in Seq(StartPackets)
      BY <1>4 DEF CoreBase, CoreTypes
    <3> QED BY <3>1, LenProperties
  <2>2. u.S_DATA = a.S_DATA \/ u.S_DATA = x.S_DATA
    BY <1>3, <1>10, <1>11, <1>13, <1>14
  <2> QED BY <1>5, <2>1, <2>2
<1>17. StepOf(c, u)
  BY <1>1, <1>2, <1>15, NotAtBarrier DEF StepOf, Receives
<1> QED BY <1>2, <1>16, <1>17, ShrinkingStep DEF x
-----------------------------------------------------------------------------
(* Collective markers.                                                     *)

\* A marker ends, stays or fails, whatever it does to its own buffer.
LEMMA MarkerStep ==
  ASSUME SendRecvInv, NEW c \in Cores, NEW types, At(c, types),
         "SEND_REQ" \notin types, "SEND_DATA" \notin types, "BARRIER" \notin types,
         NEW v, Changes(core[c], v, {"gather", "reduce", "fault"}),
         core' = [core EXCEPT ![c] = v] \/ core' = [core EXCEPT ![c] = Finish(v)],
         UNCHANGED <<prog, net, arrived, done>>
  PROVE  SendRecvInv'
<1>k. /\ IsCore(core[c]) /\ CoreTypes(core[c]) /\ Bounded(core[c]) /\ BatchEnded(core[c])
      /\ Counting(core[c]) /\ NetOK(net) /\ c # Host
  BY Known
<1>1. CoreBase(v)
  BY <1>k DEF Changes, CoreBase, CoreTypes, Bounded, BatchEnded
<1>2. \A phase : ~BarrierAt(core[c], phase)
  BY NotAtBarrier
<1>3. CASE core' = [core EXCEPT ![c] = v]
  <2>1. StepOf(c, v)
    BY <1>1, <1>3, StayAt DEF StepOf
  <2>2. v.S_DATA = core[c].S_DATA
    BY DEF Changes
  <2> QED BY <2>1, <2>2, SameNet, LocalStep
<1>4. CASE core' = [core EXCEPT ![c] = Finish(v)]
  <2>1. CoreOK(Finish(v)) /\ Changes(v, Finish(v), {"queue", "in"})
    BY <1>1, FinishAt
  <2>2. StepOf(c, Finish(v))
    BY <1>2, <1>4, <2>1 DEF StepOf
  <2>3. Finish(v).S_DATA = core[c].S_DATA
    BY <2>1 DEF Changes
  <2> QED BY <2>2, <2>3, SameNet, LocalStep
<1> QED BY <1>3, <1>4

\* ProcessGatherReorderArrival keeps the invariant.
LEMMA GatherKeeps ==
  ASSUME SendRecvInv, NEW c \in Cores, ProcessGatherReorderArrival(c)
  PROVE  SendRecvInv'
<1> DEFINE p == Head(core[c].queue)
           slots == ExpectedGatherSlots(c)
           slot == CHOOSE i \in DOMAIN slots : slots[i] = p.peer
           g == core[c].gather
           next == CommitCycle([g EXCEPT !.received = @ \cup {slot}])
           kept == IF next.next > Len(slots) THEN [received |-> {}, next |-> 1] ELSE next
           rejected == Fail(core[c], "gather reorder rejected packet")
           full == [core[c] EXCEPT !.gather = CommitCycle(g)]
           entered == [core[c] EXCEPT !.gather = kept]
           u == CASE slot \in g.received \/ slot < g.next -> rejected
                  [] ~(slot \in g.received \/ slot < g.next) /\ GatherFull(g, slot, p.size) -> full
                  [] OTHER -> Finish(entered)
<1>k. /\ IsCore(core[c]) /\ CoreTypes(core[c]) /\ Bounded(core[c]) /\ BatchEnded(core[c])
      /\ Counting(core[c]) /\ NetOK(net) /\ c # Host
  BY Known
<1>1. At(c, {"GATHER_ARRIVAL"})
  BY DEF ProcessGatherReorderArrival
<1>2. core' = [core EXCEPT ![c] = u] /\ UNCHANGED <<prog, net, arrived, done>>
  BY DEF ProcessGatherReorderArrival
<1> HIDE DEF kept, slot, p
<1>3. u = rejected \/ u = full \/ u = Finish(entered)
  BY DEF Fail
<1> HIDE DEF u
<1>4. Changes(core[c], rejected, {"gather", "reduce", "fault"})
  <2>1. Changes(core[c], rejected, {"fault"})
    BY <1>k, FailOK
  <2> HIDE DEF rejected
  <2> QED BY <2>1 DEF Changes
<1>5. Changes(core[c], full, {"gather", "reduce", "fault"})
  <2> HIDE DEF g
  <2> QED BY <1>k DEF Changes, IsCore, Fields
<1>6. Changes(core[c], entered, {"gather", "reduce", "fault"})
  BY <1>k DEF Changes, IsCore, Fields
<1> HIDE DEF rejected, full, entered
<1>7. CASE u = rejected
  BY <1>1, <1>2, <1>4, <1>7, MarkerStep
<1>8. CASE u = full
  BY <1>1, <1>2, <1>5, <1>8, MarkerStep
<1>9. CASE u = Finish(entered)
  BY <1>1, <1>2, <1>6, <1>9, MarkerStep
<1> QED BY <1>3, <1>7, <1>8, <1>9

\* ProcessReduceRxArrival keeps the invariant.
LEMMA ReduceKeeps ==
  ASSUME SendRecvInv, NEW c \in Cores, ProcessReduceRxArrival(c)
  PROVE  SendRecvInv'
<1> DEFINE src == Head(core[c].queue).peer
           received == core[c].reduce \cup {src}
           kept == IF Cardinality(received) + 1 = Len(prog.group) THEN {} ELSE received
           rejected == Fail(core[c], "Reduce RX unexpected or duplicate source")
           entered == [core[c] EXCEPT !.reduce = kept]
           u == IF src = c \/ src \in core[c].reduce THEN rejected ELSE Finish(entered)
<1>k. /\ IsCore(core[c]) /\ CoreTypes(core[c]) /\ Bounded(core[c]) /\ BatchEnded(core[c])
      /\ Counting(core[c]) /\ NetOK(net) /\ c # Host
  BY Known
<1>1. At(c, {"REDUCE_ARRIVAL"})
  BY DEF ProcessReduceRxArrival
<1>2. core' = [core EXCEPT ![c] = u] /\ UNCHANGED <<prog, net, arrived, done>>
  BY DEF ProcessReduceRxArrival
<1> HIDE DEF kept, src
<1>3. u = rejected \/ u = Finish(entered)
  OBVIOUS
<1> HIDE DEF u
<1>4. Changes(core[c], rejected, {"gather", "reduce", "fault"})
  <2>1. Changes(core[c], rejected, {"fault"})
    BY <1>k, FailOK
  <2> HIDE DEF rejected
  <2> QED BY <2>1 DEF Changes
<1>5. Changes(core[c], entered, {"gather", "reduce", "fault"})
  BY <1>k DEF Changes, IsCore, Fields
<1> HIDE DEF rejected, entered
<1>6. CASE u = rejected
  BY <1>1, <1>2, <1>4, <1>6, MarkerStep
<1>7. CASE u = Finish(entered)
  BY <1>1, <1>2, <1>5, <1>7, MarkerStep
<1> QED BY <1>3, <1>6, <1>7

\* WaitCollectiveBarrier keeps the invariant: the last rank releases cores that
\* all are at this barrier.
LEMMA BarrierKeeps ==
  ASSUME SendRecvInv, NEW c \in Cores, WaitCollectiveBarrier(c)
  PROVE  SendRecvInv'
<1> DEFINE phase == Head(core[c].queue).tag[1]
           at == arrived \cup {<<c, phase>>}
           here == {x[1] : x \in {y \in at : y[2] = phase}}
           released == [r \in Cores |-> IF r \in here THEN Finish(core[r]) ELSE core[r]]
<1>k. /\ IsCore(core[c]) /\ CoreTypes(core[c]) /\ Bounded(core[c]) /\ BatchEnded(core[c])
      /\ Counting(core[c]) /\ NetOK(net) /\ c # Host
  BY Known
<1>1. At(c, {"BARRIER"}) /\ UNCHANGED <<prog, net, done>>
  BY DEF WaitCollectiveBarrier
<1>2. \/ core' = released /\ arrived' = {x \in at : x[2] # phase}
      \/ core' = core /\ arrived' = at
  BY DEF WaitCollectiveBarrier
<1>3. BarrierAt(core[c], phase)
  BY <1>1 DEF At, BarrierAt
<1>4. phase \in Nat
  <2>1. core[c].queue \in Seq(Prims) /\ core[c].queue # <<>> /\ Head(core[c].queue).type = "BARRIER"
    BY <1>1, <1>k DEF At, CoreTypes
  <2>2. Head(core[c].queue) \in Prims
    BY <2>1, HeadTail
  <2> QED BY <2>1, <2>2, PrimTypes
<1> HIDE DEF phase
<1>5. at \subseteq Cores \X Nat /\ \A x \in at : BarrierAt(core[x[1]], x[2])
  BY <1>3, <1>4 DEF SendRecvInv
<1>6. ASSUME NEW x \in at PROVE x[1] \in Cores /\ x[2] \in Nat
  BY <1>5
<1> HIDE DEF at
<1>7. prog' = prog /\ net' = net /\ done' = done
  BY <1>1
<1>8. NetOK(net)' /\ prog' \in Programs /\ done' \in 0..prog'.ends
  BY <1>7, <1>k DEF SendRecvInv, NetOK, Content, StartPackets, DataPackets, Messages, Packets
<1>9. /\ core' = [d \in Cores |-> core'[d]]
      /\ \A d \in Cores : CoreOK(core'[d]) /\ core'[d].S_DATA = core[d].S_DATA
      /\ arrived' \subseteq Cores \X Nat
      /\ \A x \in arrived' : BarrierAt(core'[x[1]], x[2])
  <2>1. CASE core' = core /\ arrived' = at
    BY <1>5, <2>1 DEF SendRecvInv
  <2>2. CASE core' = released /\ arrived' = {x \in at : x[2] # phase}
    <3>1. ASSUME NEW r \in here PROVE r \in Cores /\ BarrierAt(core[r], phase)
      BY <1>5, <1>6, <3>1
    <3>2. ASSUME NEW r \in Cores, BarrierAt(core[r], phase)
          PROVE  CoreOK(Finish(core[r])) /\ Finish(core[r]).S_DATA = core[r].S_DATA
      <4>1. CoreBase(core[r]) /\ Counting(core[r])
        BY Known
      <4>2. core[r].queue # <<>> /\ Head(core[r].queue).type = "BARRIER"
        BY <3>2 DEF BarrierAt
      <4>3. ~prog.parallel => core[r].out = 0
        BY <4>1, <4>2 DEF Counting, Sender
      <4> QED BY <4>1, <4>2, <4>3, FinishOK DEF Changes
    <3> HIDE DEF here
    <3>3. /\ core' = [d \in Cores |-> core'[d]]
          /\ \A d \in Cores : core'[d] = IF d \in here THEN Finish(core[d]) ELSE core[d]
      BY <2>2
    <3>4. ASSUME NEW d \in Cores PROVE CoreOK(core'[d]) /\ core'[d].S_DATA = core[d].S_DATA
      <4>1. CASE d \in here
        BY <3>1, <3>2, <3>3, <4>1
      <4>2. CASE d \notin here
        BY <3>3, <4>2, Known
      <4> QED BY <4>1, <4>2
    <3>5. ASSUME NEW x \in arrived' PROVE BarrierAt(core'[x[1]], x[2])
      <4>1. x \in at /\ x[2] # phase
        BY <2>2
      <4>2. BarrierAt(core[x[1]], x[2]) /\ x[1] \in Cores
        BY <1>5, <1>6, <4>1
      <4>3. x[1] \notin here
        BY <3>1, <4>1, <4>2 DEF BarrierAt
      <4> QED BY <3>3, <4>2, <4>3
    <3>6. arrived' \subseteq Cores \X Nat
      BY <1>5, <2>2
    <3> QED BY <3>3, <3>4, <3>5, <3>6
  <2> QED BY <1>2, <2>1, <2>2
<1>10. (\A d \in Cores : CoreOK(core[d]))'
  BY <1>7, <1>9 DEF CoreOK, CoreBase, BatchEnded, Counting, Sender, IsCore, CoreTypes, Bounded
<1>11. (\A d \in Cores : Len(Under(net, FromHost(d))) + Len(core[d].S_DATA) <= prog.starts[d])'
  <2>1. \A d \in Cores : Len(Under(net, FromHost(d))) + Len(core[d].S_DATA) <= prog.starts[d]
    BY DEF SendRecvInv
  <2> QED BY <1>7, <1>9, <2>1 DEF Under, FromHost
<1>12. (\A x \in arrived : BarrierAt(core[x[1]], x[2]))'
  BY <1>9 DEF BarrierAt
<1> QED BY <1>8, <1>9, <1>10, <1>11, <1>12 DEF SendRecvInv
-----------------------------------------------------------------------------
(* The channels into a core.                                               *)

\* CtrlChannelIdle keeps the invariant.
LEMMA IdleKeeps ==
  ASSUME SendRecvInv, NEW c \in Cores, CtrlChannelIdle(c)
  PROVE  SendRecvInv'
<1> DEFINE b == CtrlFull(core[c])
           u == [core[c] EXCEPT !.busy = b, !.seen = b, !.recheck = FALSE]
<1>k. /\ IsCore(core[c]) /\ CoreTypes(core[c]) /\ Bounded(core[c]) /\ BatchEnded(core[c])
      /\ Counting(core[c]) /\ NetOK(net) /\ c # Host
  BY Known
<1>1. core' = [core EXCEPT ![c] = u] /\ UNCHANGED <<prog, net, arrived, done>>
  BY DEF CtrlChannelIdle
<1>2. /\ Changes(core[c], u, {"busy", "seen", "recheck"})
      /\ u.busy = b /\ u.seen = b /\ u.recheck = FALSE
  <2> HIDE DEF b
  <2> QED BY <1>k DEF Changes, IsCore, Fields
<1> HIDE DEF u
<1>3. u.busy \in BOOLEAN /\ u.seen \in BOOLEAN /\ u.recheck \in BOOLEAN
  <2>1. b \in BOOLEAN
    BY DEF CtrlFull
  <2> HIDE DEF b
  <2> QED BY <1>2, <2>1
<1>4. /\ u.REQUEST = core[c].REQUEST /\ u.ACK = core[c].ACK /\ u.DATA = core[c].DATA
      /\ u.dbusy = core[c].dbusy /\ u.dseen = core[c].dseen
  BY <1>2 DEF Changes
<1>5. Bounded(u)
  <2>1. Len(core[c].REQUEST) \in Nat /\ Len(core[c].ACK) \in Nat /\ BufferSize \in Nat
    BY <1>k, LenProperties, Known DEF CoreTypes
  <2>2. ~b => Len(core[c].REQUEST) < BufferSize /\ Len(core[c].ACK) < BufferSize
    BY <2>1 DEF CtrlFull
  <2> HIDE DEF b
  <2>3. Held(core[c].REQUEST, b, b) /\ Held(core[c].ACK, b, b)
    BY <1>k, <2>1, <2>2, HeldAnew DEF Bounded
  <2> QED BY <1>2, <1>4, <1>k, <2>3 DEF Bounded
<1>6. CoreBase(u)
  BY <1>2, <1>3, <1>5, <1>k DEF Changes, CoreBase, CoreTypes, BatchEnded
<1>7. StepOf(c, u)
  BY <1>1, <1>2, <1>6, StayAt DEF StepOf
<1>8. u.S_DATA = core[c].S_DATA
  BY <1>2 DEF Changes
<1> QED BY <1>1, <1>7, <1>8, SameNet, LocalStep

\* DataChannelIdle keeps the invariant.
LEMMA DataIdleKeeps ==
  ASSUME SendRecvInv, NEW c \in Cores, DataChannelIdle(c)
  PROVE  SendRecvInv'
<1> DEFINE b == DataFull(core[c])
           u == [core[c] EXCEPT !.dbusy = b, !.dseen = b]
<1>k. /\ IsCore(core[c]) /\ CoreTypes(core[c]) /\ Bounded(core[c]) /\ BatchEnded(core[c])
      /\ Counting(core[c]) /\ NetOK(net) /\ c # Host
  BY Known
<1>1. core' = [core EXCEPT ![c] = u] /\ UNCHANGED <<prog, net, arrived, done>>
  BY DEF DataChannelIdle
<1>2. Changes(core[c], u, {"dbusy", "dseen"}) /\ u.dbusy = b /\ u.dseen = b
  <2> HIDE DEF b
  <2> QED BY <1>k DEF Changes, IsCore, Fields
<1> HIDE DEF u
<1>3. u.dbusy \in BOOLEAN /\ u.dseen \in BOOLEAN
  <2>1. b \in BOOLEAN
    BY DEF DataFull
  <2> HIDE DEF b
  <2> QED BY <1>2, <2>1
<1>4. /\ u.REQUEST = core[c].REQUEST /\ u.ACK = core[c].ACK /\ u.DATA = core[c].DATA
      /\ u.busy = core[c].busy /\ u.seen = core[c].seen
  BY <1>2 DEF Changes
<1>5. Bounded(u)
  <2>1. Len(core[c].DATA) \in Nat /\ BufferSize \in Nat
    BY <1>k, LenProperties, Known DEF CoreTypes
  <2>2. ~b => Len(core[c].DATA) < BufferSize
    BY <2>1 DEF DataFull
  <2> HIDE DEF b
  <2>3. Held(core[c].DATA, b, b)
    BY <1>k, <2>1, <2>2, HeldAnew DEF Bounded
  <2> QED BY <1>2, <1>4, <1>k, <2>3 DEF Bounded
<1>6. CoreBase(u)
  BY <1>2, <1>3, <1>5, <1>k DEF Changes, CoreBase, CoreTypes, BatchEnded
<1>7. StepOf(c, u)
  BY <1>1, <1>2, <1>6, StayAt DEF StepOf
<1>8. u.S_DATA = core[c].S_DATA
  BY <1>2 DEF Changes
<1> QED BY <1>1, <1>7, <1>8, SameNet, LocalStep

\* PollCtrlBuffer keeps the invariant: the router sends only while it does not see
\* the signal, and sees next what the core has driven before.
LEMMA PollCtrlKeeps ==
  ASSUME SendRecvInv, NEW c \in Cores, NEW s, NEW sub, PollCtrlBuffer(c, s, sub)
  PROVE  SendRecvInv'
<1> DEFINE ch == <<"ctrl", s, c, sub>>
           m == Head(net[ch])
           stored == [core[c] EXCEPT ![m.type] = Append(@, m)]
           b == CtrlFull(stored)
           driven == core[c].busy
           k == [stored EXCEPT !.busy = b, !.seen = driven, !.recheck = b \/ driven]
           u == IF m.type = "REQUEST" THEN Notice(k) ELSE k
<1>k. /\ IsCore(core[c]) /\ CoreTypes(core[c]) /\ Bounded(core[c]) /\ BatchEnded(core[c])
      /\ Counting(core[c]) /\ NetOK(net) /\ c # Host
  BY Known
<1>1. ch \in DOMAIN net /\ ~core[c].seen
  BY DEF PollCtrlBuffer
<1>2. core' = [core EXCEPT ![c] = u] /\ net' = Take(net, ch) /\ UNCHANGED <<prog, arrived, done>>
  BY DEF PollCtrlBuffer
<1>3. /\ NetOK(net') /\ m \in Content(ch)
      /\ \A d : d # ch => Under(net', d) = Under(net, d)
  BY <1>1, <1>2, <1>k, TakeOK
<1>4. \A d \in Cores : Under(net', FromHost(d)) = Under(net, FromHost(d))
  <2>1. \A d \in Cores : FromHost(d) # ch
    BY DEF FromHost
  <2> QED BY <1>3, <2>1
<1>5. m \in Requests \/ m \in Acks
  <2>1. m \in Messages({"REQUEST", "ACK"}, Cores)
    BY <1>3 DEF Content
  <2> QED BY <2>1 DEF Messages, Requests, Acks
<1>6. \/ m.type = "REQUEST" /\ m \in Requests
      \/ m.type = "ACK" /\ m \in Acks
  <2> HIDE DEF m
  <2>1. m \in Requests => m.type = "REQUEST"
    BY DEF Messages, Requests
  <2>2. m \in Acks => m.type = "ACK"
    BY DEF Messages, Acks
  <2> QED BY <1>5, <2>1, <2>2
<1> HIDE DEF m, ch
<1>7. /\ core[c].REQUEST \in Seq(Requests) /\ core[c].ACK \in Seq(Acks)
      /\ Len(core[c].REQUEST) \in Nat /\ Len(core[c].ACK) \in Nat /\ BufferSize \in Nat
  <2>1. core[c].REQUEST \in Seq(Requests) /\ core[c].ACK \in Seq(Acks)
    BY <1>k DEF CoreTypes
  <2> QED BY <2>1, LenProperties, Known
<1>9. /\ Changes(core[c], stored, {"REQUEST", "ACK"})
      /\ stored.REQUEST \in Seq(Requests) /\ Len(stored.REQUEST) <= Len(core[c].REQUEST) + 1
      /\ stored.ACK \in Seq(Acks) /\ Len(stored.ACK) <= Len(core[c].ACK) + 1
  <2>1. CASE m.type = "REQUEST" /\ m \in Requests
    <3> DEFINE q == Append(core[c].REQUEST, m)
    <3>1. q \in Seq(Requests) /\ Len(q) = Len(core[c].REQUEST) + 1
      BY <1>7, <2>1, AppendTo
    <3>2. stored = [core[c] EXCEPT !.REQUEST = q]
      BY <1>k, <2>1 DEF IsCore, Fields
    <3> HIDE DEF q, stored
    <3>3. /\ Changes(core[c], stored, {"REQUEST", "ACK"})
          /\ stored.REQUEST = q /\ stored.ACK = core[c].ACK
      BY <1>k, <3>2 DEF Changes, IsCore, Fields
    <3> QED BY <1>7, <3>1, <3>3
  <2>2. CASE m.type = "ACK" /\ m \in Acks
    <3> DEFINE q == Append(core[c].ACK, m)
    <3>1. q \in Seq(Acks) /\ Len(q) = Len(core[c].ACK) + 1
      BY <1>7, <2>2, AppendTo
    <3>2. stored = [core[c] EXCEPT !.ACK = q]
      BY <1>k, <2>2 DEF IsCore, Fields
    <3> HIDE DEF q, stored
    <3>3. /\ Changes(core[c], stored, {"REQUEST", "ACK"})
          /\ stored.REQUEST = core[c].REQUEST /\ stored.ACK = q
      BY <1>k, <3>2 DEF Changes, IsCore, Fields
    <3> QED BY <1>7, <3>1, <3>3
  <2> QED BY <1>6, <2>1, <2>2
<1> HIDE DEF stored
<1>10. /\ Changes(stored, k, {"busy", "seen", "recheck"})
       /\ k.busy = b /\ k.seen = driven /\ k.recheck = (b \/ driven)
  <2>1. IsCore(stored)
    BY <1>9 DEF Changes
  <2> HIDE DEF b, driven
  <2> QED BY <2>1 DEF Changes, IsCore, Fields
<1> HIDE DEF k
<1>11. k.busy \in BOOLEAN /\ k.seen \in BOOLEAN /\ k.recheck \in BOOLEAN
  <2>1. b \in BOOLEAN /\ driven \in BOOLEAN
    BY <1>k DEF CtrlFull, CoreTypes
  <2> HIDE DEF b, driven
  <2> QED BY <1>10, <2>1
<1>12. /\ k.REQUEST = stored.REQUEST /\ k.ACK = stored.ACK /\ k.DATA = core[c].DATA
       /\ k.dbusy = core[c].dbusy /\ k.dseen = core[c].dseen
  BY <1>9, <1>10 DEF Changes
<1>13. Bounded(k)
  <2>1. Len(stored.REQUEST) \in Nat /\ Len(stored.ACK) \in Nat
    BY <1>9, LenProperties
  <2>2. ~b => Len(stored.REQUEST) < BufferSize /\ Len(stored.ACK) < BufferSize
    BY <1>7, <2>1 DEF CtrlFull
  <2> HIDE DEF b
  <2>3. Held(stored.REQUEST, b, core[c].busy) /\ Held(stored.ACK, b, core[c].busy)
    BY <1>1, <1>7, <1>9, <1>k, <2>1, <2>2, HeldGrows DEF Bounded
  <2> QED BY <1>10, <1>12, <1>k, <2>3 DEF Bounded
<1> HIDE DEF b, driven
<1>14. Changes(core[c], k, {"REQUEST", "ACK", "busy", "seen", "recheck"})
  BY <1>9, <1>10 DEF Changes
<1>15. CoreBase(k)
  BY <1>9, <1>11, <1>12, <1>13, <1>14, <1>k DEF Changes, CoreBase, CoreTypes, BatchEnded
<1>16. /\ CoreBase(u)
       /\ Changes(core[c], u, {"REQUEST", "ACK", "busy", "seen", "recheck", "acks", "rounds",
                               "fault"})
  <2>1. CASE m.type = "REQUEST"
    <3>1. CoreBase(u) /\ Changes(k, u, {"REQUEST", "acks", "rounds", "fault"})
      BY <1>15, <2>1, NoticeOK
    <3> QED BY <1>14, <3>1 DEF Changes
  <2>2. CASE m.type # "REQUEST"
    <3>1. u = k
      BY <2>2
    <3> HIDE DEF u
    <3> QED BY <1>14, <1>15, <3>1 DEF Changes
  <2> QED BY <2>1, <2>2
<1> HIDE DEF u
<1>17. StepOf(c, u)
  BY <1>2, <1>16, StayAt DEF StepOf
<1>18. u.S_DATA = core[c].S_DATA
  BY <1>16 DEF Changes
<1> QED BY <1>2, <1>3, <1>4, <1>17, <1>18, LocalStep

\* PollBuffer keeps the invariant: the router sends only while it does not see the
\* signal, and a START message that is stored is no longer under way.
LEMMA PollBufferKeeps ==
  ASSUME SendRecvInv, NEW c \in Cores, NEW s, NEW sub, PollBuffer(c, s, sub)
  PROVE  SendRecvInv'
<1> DEFINE ch == <<"data", s, c, sub>>
           m == Head(net[ch])
           stored == [core[c] EXCEPT ![m.type] = Append(@, m)]
           b == DataFull(stored)
           driven == core[c].dbusy
           k == [stored EXCEPT !.dbusy = b, !.dseen = driven]
           u == IF m.type = "S_DATA" /\ b THEN Fail(k, "START clears a busy data channel") ELSE k
<1>k. /\ IsCore(core[c]) /\ CoreTypes(core[c]) /\ Bounded(core[c]) /\ BatchEnded(core[c])
      /\ Counting(core[c]) /\ NetOK(net) /\ c # Host
  BY Known
<1>1. ch \in DOMAIN net /\ ~core[c].dseen
  BY DEF PollBuffer
<1>2. core' = [core EXCEPT ![c] = u] /\ net' = Take(net, ch) /\ UNCHANGED <<prog, arrived, done>>
  BY DEF PollBuffer
<1>3. /\ NetOK(net') /\ m \in Content(ch)
      /\ Len(Under(net, ch)) \in Nat /\ Len(Under(net', ch)) = Len(Under(net, ch)) - 1
      /\ \A d : d # ch => Under(net', d) = Under(net, d)
  BY <1>1, <1>2, <1>k, TakeOK
<1>4. done' \in 0..prog.ends
  BY <1>2 DEF SendRecvInv
<1>5. /\ core[c].DATA \in Seq(DataPackets) /\ core[c].S_DATA \in Seq(StartPackets)
      /\ Len(core[c].DATA) \in Nat /\ Len(core[c].S_DATA) \in Nat /\ BufferSize \in Nat
  <2>1. core[c].DATA \in Seq(DataPackets) /\ core[c].S_DATA \in Seq(StartPackets)
    BY <1>k DEF CoreTypes
  <2> QED BY <2>1, LenProperties, Known
<1> HIDE DEF u
\* What remains when the message is in its buffer.
<1>6. ASSUME Changes(core[c], stored, {"DATA", "S_DATA"}),
             stored.DATA \in Seq(DataPackets), stored.S_DATA \in Seq(StartPackets),
             Len(stored.DATA) <= Len(core[c].DATA) + 1
      PROVE  StepOf(c, u) /\ u.S_DATA = stored.S_DATA
  <2> HIDE DEF m, stored
  <2>1. Changes(stored, k, {"dbusy", "dseen"}) /\ k.dbusy = b /\ k.dseen = driven
    <3>1. IsCore(stored)
      BY <1>6 DEF Changes
    <3> HIDE DEF b, driven
    <3> QED BY <3>1 DEF Changes, IsCore, Fields
  <2> HIDE DEF k
  <2>2. k.dbusy \in BOOLEAN /\ k.dseen \in BOOLEAN
    <3>1. b \in BOOLEAN /\ driven \in BOOLEAN
      BY <1>k DEF DataFull, CoreTypes
    <3> HIDE DEF b, driven
    <3> QED BY <2>1, <3>1
  <2>3. /\ k.REQUEST = core[c].REQUEST /\ k.ACK = core[c].ACK /\ k.DATA = stored.DATA
        /\ k.busy = core[c].busy /\ k.seen = core[c].seen /\ k.S_DATA = stored.S_DATA
    BY <1>6, <2>1 DEF Changes
  <2>4. Bounded(k)
    <3>1. Len(stored.DATA) \in Nat
      BY <1>6, LenProperties
    <3>2. ~b => Len(stored.DATA) < BufferSize
      BY <1>5, <3>1 DEF DataFull
    <3> HIDE DEF b
    <3>3. Held(stored.DATA, b, core[c].dbusy)
      BY <1>1, <1>5, <1>6, <1>k, <3>1, <3>2, HeldGrows DEF Bounded
    <3> QED BY <1>k, <2>1, <2>3, <3>3 DEF Bounded
  <2> HIDE DEF b, driven
  <2>5. Changes(core[c], k, {"DATA", "S_DATA", "dbusy", "dseen"})
    BY <1>6, <2>1 DEF Changes
  <2>6. CoreBase(k)
    BY <1>6, <1>k, <2>2, <2>3, <2>4, <2>5 DEF Changes, CoreBase, CoreTypes, BatchEnded
  <2>7. /\ CoreBase(u) /\ Changes(core[c], u, {"DATA", "S_DATA", "dbusy", "dseen", "fault"})
        /\ u.S_DATA = k.S_DATA
    <3>1. CASE m.type = "S_DATA" /\ b
      <4>1. u = Fail(k, "START clears a busy data channel")
        BY <3>1 DEF u
      <4>2. CoreBase(u) /\ Changes(k, u, {"fault"})
        BY <2>6, <4>1, FailOK DEF CoreBase
      <4> QED BY <2>5, <4>2 DEF Changes
    <3>2. CASE ~(m.type = "S_DATA" /\ b)
      <4>1. u = k
        BY <3>2 DEF u
      <4> QED BY <2>5, <2>6, <4>1 DEF Changes
    <3> QED BY <3>1, <3>2
  <2>8. StepOf(c, u)
    BY <1>2, <2>7, StayAt DEF StepOf
  <2> QED BY <2>3, <2>7, <2>8
<1>7. CASE s = Host
  <2>1. m \in StartPackets
    BY <1>3, <1>7 DEF Content
  <2>2. m.type = "S_DATA"
    <3> HIDE DEF m
    <3> QED BY <2>1 DEF StartPackets, Packets
  <2>3. ch = FromHost(c)
    BY <1>1, <1>7, <1>k DEF NetOK, FromHost
  <2> HIDE DEF m, ch
  <2> DEFINE q == Append(core[c].S_DATA, m)
  <2>4. q \in Seq(StartPackets) /\ Len(q) = Len(core[c].S_DATA) + 1
    BY <1>5, <2>1, AppendTo
  <2>5. stored = [core[c] EXCEPT !.S_DATA = q]
    BY <1>k, <2>2 DEF IsCore, Fields
  <2> HIDE DEF q, stored
  <2>6. Changes(core[c], stored, {"DATA", "S_DATA"}) /\ stored.S_DATA = q
        /\ stored.DATA = core[c].DATA
    BY <1>k, <2>5 DEF Changes, IsCore, Fields
  <2>7. Len(stored.DATA) <= Len(core[c].DATA) + 1
    BY <1>5, <2>6
  <2>8. StepOf(c, u) /\ u.S_DATA = q
    BY <1>5, <1>6, <2>4, <2>6, <2>7
  <2>9. Started(net', c, u) <= prog.starts[c]
    <3>1. Len(Under(net, FromHost(c))) + Len(core[c].S_DATA) <= prog.starts[c]
      BY DEF SendRecvInv
    <3>2. Len(Under(net', FromHost(c))) = Len(Under(net, FromHost(c))) - 1
      BY <1>3, <2>3
    <3>3. Len(Under(net, FromHost(c))) \in Nat /\ prog.starts[c] \in Nat
      BY <1>3, <2>3, ProgramsAssumption DEF SendRecvInv
    <3>4. Len(u.S_DATA) = Len(core[c].S_DATA) + 1
      BY <2>4, <2>8
    <3> QED BY <1>5, <3>1, <3>2, <3>3, <3>4 DEF Started
  <2>10. \A d \in Cores : d # c => Under(net', FromHost(d)) = Under(net, FromHost(d))
    <3>1. \A d \in Cores : d # c => FromHost(d) # ch
      BY <2>3 DEF FromHost
    <3> QED BY <1>3, <3>1
  <2> QED BY <1>2, <1>3, <1>4, <2>8, <2>9, <2>10, StepKeepsCores
<1>8. CASE s # Host
  <2>1. m \in DataPackets
    BY <1>3, <1>8 DEF Content
  <2>2. m.type = "DATA"
    <3> HIDE DEF m
    <3> QED BY <2>1 DEF DataPackets, Packets
  <2>3. \A d \in Cores : FromHost(d) # ch
    BY <1>8 DEF FromHost
  <2> HIDE DEF m, ch
  <2> DEFINE q == Append(core[c].DATA, m)
  <2>4. q \in Seq(DataPackets) /\ Len(q) = Len(core[c].DATA) + 1
    BY <1>5, <2>1, AppendTo
  <2>5. stored = [core[c] EXCEPT !.DATA = q]
    BY <1>k, <2>2 DEF IsCore, Fields
  <2> HIDE DEF q, stored
  <2>6. Changes(core[c], stored, {"DATA", "S_DATA"}) /\ stored.DATA = q
        /\ stored.S_DATA = core[c].S_DATA
    BY <1>k, <2>5 DEF Changes, IsCore, Fields
  <2>7. Len(stored.DATA) <= Len(core[c].DATA) + 1
    BY <1>5, <2>4, <2>6
  <2>8. StepOf(c, u) /\ u.S_DATA = core[c].S_DATA
    BY <1>5, <1>6, <2>4, <2>6, <2>7
  <2>9. \A d \in Cores : Under(net', FromHost(d)) = Under(net, FromHost(d))
    BY <1>3, <2>3
  <2> QED BY <1>2, <1>3, <2>8, <2>9, LocalStep
<1> QED BY <1>7, <1>8
-----------------------------------------------------------------------------
(* The theorem.                                                            *)

\* A core as it is configured.
LEMMA InitCoreOK ==
  ASSUME prog \in Programs, NEW c \in Cores
  PROVE  CoreOK(InitCore(prog, c)) /\ InitCore(prog, c).S_DATA = <<>>
<1> DEFINE u == InitCore(prog, c)
<1>1. IsCore(u)
  BY DEF InitCore, IsCore, Fields
<1>2. /\ u.queue = prog.queue[c] /\ u.para = <<>> /\ u.remaining = 0 /\ u.out = 0
      /\ u.acked = {} /\ u.in = FreshIn /\ u.REQUEST = <<>> /\ u.ACK = <<>> /\ u.DATA = <<>>
      /\ u.S_DATA = <<>> /\ u.acks = <<>> /\ u.rounds = <<>>
  BY DEF InitCore
<1>3. /\ u.sendDone = TRUE /\ u.token = FALSE /\ u.busy = FALSE /\ u.seen = FALSE
      /\ u.recheck = FALSE /\ u.dbusy = FALSE /\ u.dseen = FALSE
  BY DEF InitCore
<1> HIDE DEF u
<1>4. prog.queue[c] \in Seq(Prims) /\ BufferSize \in Nat \ {0}
  BY ProgramsAssumption
<1>5. <<>> \in Rounds
  <2>1. {} \in SUBSET (Cores \X Tags) /\ <<>> \in [{} -> Seq(SUBSET Subflows) \ {<<>>}]
    OBVIOUS
  <2> QED BY <2>1 DEF Rounds
<1>6. /\ u.sendDone \in BOOLEAN /\ u.token \in BOOLEAN /\ u.busy \in BOOLEAN
      /\ u.seen \in BOOLEAN /\ u.recheck \in BOOLEAN /\ u.dbusy \in BOOLEAN
      /\ u.dseen \in BOOLEAN
  BY <1>3
<1>7. /\ u.para \in Seq(Prims) /\ u.REQUEST \in Seq(Requests) /\ u.ACK \in Seq(Acks)
      /\ u.DATA \in Seq(DataPackets) /\ u.S_DATA \in Seq(StartPackets)
      /\ u.acks \in Seq(Requests)
  BY <1>2
<1>8. u.remaining \in Nat /\ u.out \in Nat /\ u.acked \in SUBSET Subflows
  BY <1>2
<1>9. CoreTypes(u)
  BY <1>2, <1>4, <1>5, <1>6, <1>7, <1>8, FreshType DEF CoreTypes
<1>10. Bounded(u)
  <2>1. Len(u.REQUEST) = 0 /\ Len(u.ACK) = 0 /\ Len(u.DATA) = 0
    BY <1>2
  <2> QED BY <1>4, <2>1 DEF Bounded, Held
<1>11. BatchEnded(u) /\ Counting(u)
  BY <1>2 DEF BatchEnded, Counting
<1> QED BY <1>1, <1>2, <1>9, <1>10, <1>11 DEF CoreOK, CoreBase, u

\* The invariant holds when the cores are configured and the host has sent START.
LEMMA InitInv == Init => SendRecvInv
<1> SUFFICES ASSUME Init PROVE SendRecvInv
  OBVIOUS
<1>1. prog \in Programs /\ core = [c \in Cores |-> InitCore(prog, c)] /\ arrived = {} /\ done = 0
  BY DEF Init
<1>2. \A c \in Cores : CoreOK(core[c]) /\ core[c].S_DATA = <<>>
  BY <1>1, InitCoreOK
<1>3. prog.starts \in [Cores -> Nat] /\ prog.ends \in Nat /\ Host \notin Cores
  BY <1>1, ProgramsAssumption
<1> DEFINE D == {<<"data", Host, c, 0>> : c \in {d \in Cores : prog.starts[d] > 0}}
           start(c) == [type |-> "S_DATA", src |-> Host, tag |-> OwnTag(c), sub |-> 0,
                        seq |-> 1, end |-> TRUE]
<1>4. net = [ch \in D |-> [i \in 1..prog.starts[ch[3]] |-> start(ch[3])]]
  BY DEF Init
<1>5. ASSUME NEW c \in Cores PROVE start(c) \in StartPackets
  <2>1. OwnTag(c) \in Tags /\ 0 \in Subflows /\ TRUE \in BOOLEAN
    BY DEF OwnTag, Tags, Subflows
  <2> QED BY <2>1 DEF StartPackets, Packets
<1> HIDE DEF start
<1>6. ASSUME NEW ch \in D
      PROVE  /\ ch[1] = "data" /\ ch[2] = Host /\ ch[4] = 0 /\ ch[3] \in Cores
             /\ ch = FromHost(ch[3])
             /\ net[ch] \in Seq(StartPackets) /\ net[ch] # <<>>
             /\ Len(net[ch]) = prog.starts[ch[3]] /\ Content(ch) = StartPackets
  <2>1. PICK c \in Cores : ch = <<"data", Host, c, 0>> /\ prog.starts[c] > 0
    OBVIOUS
  <2>2. net[ch] = [i \in 1..prog.starts[c] |-> start(c)]
    BY <1>4, <2>1
  <2>3. prog.starts[c] \in Nat
    BY <1>3
  <2>4. net[ch] \in Seq(StartPackets) /\ Len(net[ch]) = prog.starts[c]
    BY <1>5, <2>2, <2>3
  <2>5. net[ch] # <<>>
    <3>1. Len(net[ch]) # 0
      BY <2>1, <2>3, <2>4
    <3>2. Len(<<>>) = 0
      OBVIOUS
    <3> QED BY <3>1, <3>2, Zenon
  <2>6. Content(ch) = StartPackets
    BY <2>1 DEF Content
  <2> QED BY <2>1, <2>4, <2>5, <2>6 DEF FromHost
<1>7. DOMAIN net = D /\ net = [ch \in DOMAIN net |-> net[ch]]
  BY <1>4
<1> HIDE DEF D
<1>8. NetOK(net)
  BY <1>6, <1>7 DEF NetOK
<1>9. ASSUME NEW c \in Cores PROVE Len(Under(net, FromHost(c))) <= prog.starts[c]
  <2>1. CASE FromHost(c) \in D
    <3>1. FromHost(c)[3] = c
      BY DEF FromHost
    <3>2. Len(net[FromHost(c)]) = prog.starts[c]
      BY <1>6, <2>1, <3>1
    <3> QED BY <1>3, <1>7, <2>1, <3>2 DEF Under
  <2>2. CASE FromHost(c) \notin D
    <3>1. Len(Under(net, FromHost(c))) = 0
      BY <1>7, <2>2 DEF Under
    <3> QED BY <1>3, <3>1
  <2> QED BY <2>1, <2>2
<1>10. ASSUME NEW c \in Cores
       PROVE  Len(Under(net, FromHost(c))) + Len(core[c].S_DATA) <= prog.starts[c]
  <2>1. Len(core[c].S_DATA) = 0
    BY <1>2
  <2>2. Len(Under(net, FromHost(c))) \in Nat
    <3>1. Under(net, FromHost(c)) \in Seq(Content(FromHost(c)))
      BY <1>8 DEF Under, NetOK
    <3> QED BY <3>1, LenProperties
  <2> QED BY <1>9, <2>1, <2>2
<1>11. core = [c \in Cores |-> core[c]]
  BY <1>1
<1>12. done \in 0..prog.ends /\ arrived \subseteq Cores \X Nat
  BY <1>1, <1>3
<1> QED BY <1>1, <1>2, <1>8, <1>10, <1>11, <1>12 DEF SendRecvInv

\* Every step keeps the invariant.
LEMMA NextInv == SendRecvInv /\ [Next]_vars => SendRecvInv'
<1> SUFFICES ASSUME SendRecvInv, [Next]_vars PROVE SendRecvInv'
  OBVIOUS
<1>1. ASSUME NEW c \in Cores, WorkerStep(c) PROVE SendRecvInv'
  BY <1>1, StartBatchKeeps, ComputeKeeps, RecvNothingKeeps, RecvRoundKeeps, RecvPacketKeeps,
     BarrierKeeps, GatherKeeps, ReduceKeeps DEF WorkerStep
<1>2. ASSUME NEW c \in Cores, SenderStep(c) PROVE SendRecvInv'
  BY <1>2, SendReqKeeps, RecvAckKeeps, SendDataKeeps, SendDoneKeeps DEF SenderStep
<1>3. ASSUME NEW c \in Cores, NEW s, NEW sub, Arrival(c, s, sub) PROVE SendRecvInv'
  BY <1>3, PollCtrlKeeps, PollBufferKeeps DEF Arrival
<1>4. CASE UNCHANGED vars
  <2>1. /\ prog' = prog /\ core' = core /\ net' = net /\ arrived' = arrived /\ done' = done
    BY <1>4 DEF vars
  <2>2. (\A d \in Cores : CoreOK(core[d]))'
    <3>1. \A d \in Cores : CoreOK(core[d])
      BY DEF SendRecvInv
    <3> QED BY <2>1, <3>1 DEF CoreOK, CoreBase, BatchEnded, Counting, Sender, IsCore, CoreTypes,
                              Bounded, Held
  <2>3. NetOK(net)'
    <3>1. NetOK(net)
      BY DEF SendRecvInv
    <3> QED BY <2>1, <3>1 DEF NetOK, Content, StartPackets, DataPackets, Messages, Packets
  <2>4. (\A d \in Cores : Len(Under(net, FromHost(d))) + Len(core[d].S_DATA) <= prog.starts[d])'
    <3>1. \A d \in Cores : Len(Under(net, FromHost(d))) + Len(core[d].S_DATA) <= prog.starts[d]
      BY DEF SendRecvInv
    <3> QED BY <2>1, <3>1 DEF Under, FromHost
  <2>5. (\A x \in arrived : BarrierAt(core[x[1]], x[2]))'
    <3>1. \A x \in arrived : BarrierAt(core[x[1]], x[2])
      BY DEF SendRecvInv
    <3> QED BY <2>1, <3>1 DEF BarrierAt
  <2>6. /\ prog' \in Programs /\ core' = [c \in Cores |-> core'[c]]
        /\ arrived' \subseteq Cores \X Nat /\ done' \in 0..prog'.ends
    BY <2>1 DEF SendRecvInv
  <2> QED BY <2>2, <2>3, <2>4, <2>5, <2>6 DEF SendRecvInv
<1>5. CASE Next
  BY <1>1, <1>2, <1>3, <1>5, SendAckKeeps, IdleKeeps, DataIdleKeeps DEF Next
<1> QED BY <1>4, <1>5

\* The invariant holds always.
LEMMA SendRecvInvariant == Spec => []SendRecvInv
BY InitInv, NextInv, PTL DEF Spec

\* A queue within a bound.
LEMMA AtMostSeq ==
  ASSUME NEW S, NEW s \in Seq(S), NEW n, Len(s) <= n
  PROVE  AtMost(s, S, n)
BY LenProperties, ElementOfSeq DEF AtMost

\* The invariant says what TypeOK says.
LEMMA InvTypes == SendRecvInv => TypeOK
<1> SUFFICES ASSUME SendRecvInv PROVE TypeOK
  OBVIOUS
<1>1. ASSUME NEW c \in Cores
      PROVE  /\ AtMost(core[c].REQUEST, Messages({"REQUEST"}, Cores), BufferSize + 1)
             /\ AtMost(core[c].ACK, Messages({"ACK"}, Cores), BufferSize + 1)
             /\ AtMost(core[c].DATA, Packets("DATA", Cores), BufferSize + 1)
             /\ AtMost(core[c].S_DATA, Packets("S_DATA", {Host}), prog.starts[c])
  <2>1. CoreTypes(core[c]) /\ Bounded(core[c]) /\ NetOK(net)
    BY Known
  <2>2. Len(core[c].S_DATA) <= prog.starts[c]
    <3>1. Len(core[c].S_DATA) \in Nat
      BY <2>1, LenProperties DEF CoreTypes
    <3>2. Len(Under(net, FromHost(c))) \in Nat
      <4>1. Under(net, FromHost(c)) \in Seq(Content(FromHost(c)))
        BY <2>1 DEF Under, NetOK
      <4> QED BY <4>1, LenProperties
    <3>3. /\ Len(Under(net, FromHost(c))) + Len(core[c].S_DATA) <= prog.starts[c]
          /\ prog.starts[c] \in Nat
      BY ProgramsAssumption DEF SendRecvInv
    <3> QED BY <3>1, <3>2, <3>3
  <2> QED BY <2>1, <2>2, AtMostSeq
      DEF CoreTypes, Bounded, Held, Requests, Acks, DataPackets, StartPackets
<1>2. ASSUME NEW c \in Cores
      PROVE  /\ \A x \in {core[c].sendDone, core[c].token, core[c].busy, core[c].seen,
                          core[c].recheck, core[c].dbusy, core[c].dseen} : x \in BOOLEAN
             /\ core[c].out \in Nat /\ core[c].remaining \in Nat /\ core[c].acked \subseteq Subflows
             /\ core[c].in \in Receptions
  <2>1. CoreTypes(core[c])
    BY Known
  <2> QED BY <2>1 DEF CoreTypes
<1>3. DOMAIN core = Cores /\ prog \in Programs /\ arrived \subseteq Cores \X Nat /\ done \in 0..prog.ends
  BY DEF SendRecvInv
<1> QED BY <1>1, <1>2, <1>3 DEF TypeOK, Receptions

\* Whatever the cores are configured with, the buffers that poll_ctrl_buffer_i and
\* poll_buffer_i fill never hold more than MAX_BUFFER_PACKET_SIZE messages and the one
\* that the router sends before it sees the busy signal, and a core stores no more
\* START messages than the host sent it.
THEOREM CoreTypesAlways == Spec => []TypeOK
BY SendRecvInvariant, InvTypes, PTL

=============================================================================
