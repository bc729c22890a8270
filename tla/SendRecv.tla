------------------------------ MODULE SendRecv ------------------------------
(***************************************************************************)
(* The worker cores of the simulator at work on their primitives: the      *)
(* REQUEST / ACK / DATA protocol between cores (send_logic,                *)
(* send_para_logic, recv_logic, req_logic), the buffers that the router    *)
(* fills (poll_buffer_i, poll_ctrl_buffer_i), the primitive queue with its *)
(* refill (worker_core_execute) and the barriers, gather and reduce        *)
(* receivers of collective operations (coll_runtime.cpp).                  *)
(*                                                                         *)
(* Each thread of a core is an action or a group of actions; a step is     *)
(* what a thread does between two waits that another thread can tell       *)
(* apart.  The network is a first-in first-out channel per pair of cores,  *)
(* subflow and class of messages; the classes overtake each other.         *)
(***************************************************************************)
EXTENDS Workload, FiniteSets

CONSTANTS Cores,       \* the worker cores
          Host,        \* the endpoint that sends START data
          Programs,    \* what the cores may be configured with
          BufferSize   \* MAX_BUFFER_PACKET_SIZE

SendModule == {"SEND_REQ", "RECV_ACK", "SEND_DATA", "SEND_DONE"}
Receives == {"RECV_DATA", "RECV_START"}

\* With prim_refill, which every dataflow configuration sets, a finished primitive
\* goes to the end of the queue, except those of collectives and DONE.
NotRefilled == {"BARRIER", "GATHER_ARRIVAL", "REDUCE_ARRIVAL", "REDUCE_COMPUTE",
                "SEND_DONE"}

\* stripe_count is 1, 2 or 4.
Subflows == 0..3

\* Flows go to a core; the phases of barriers are counted from 0.
Tags == Int \X Cores
Prims ==
    {p \in [type : SendModule \cup Receives \cup NotRefilled \cup {"COMP", "SET"},
            peer : Cores \cup {""}, tag : Int \X (Cores \cup {""}),
            size : Nat, stripes : {1, 2, 4}] :
       /\ p.type \in {"SEND_REQ", "SEND_DATA"} => p.tag \in Tags
       /\ p.type = "BARRIER" => p.tag[1] \in Nat}

\* A program: the primitives of each core, how many START messages the host
\* sends it, send_recv_parallel, the collective (operation, cores of its ranks,
\* root rank; operation "NONE" if there is none), and how many DONE messages
\* end the simulation.
ASSUME ProgramsAssumption ==
    /\ Host \notin Cores
    /\ BufferSize \in Nat \ {0}
    /\ \A p \in Programs :
          /\ DOMAIN p = {"queue", "starts", "parallel", "op", "group", "root", "ends"}
          /\ p.queue \in [Cores -> Seq(Prims)]
          /\ p.starts \in [Cores -> Nat]
          /\ p.ends \in Nat
          /\ p.parallel \in BOOLEAN
          /\ p.parallel => \A c \in Cores : \A i \in DOMAIN p.queue[c] :
                              p.queue[c][i].stripes = 1

VARIABLES prog,      \* the configuration
          core,      \* the state of each core
          net,       \* <<class, source, destination, subflow>> -> messages under way
          arrived,   \* BarrierState::arrived, as pairs of core and phase
          done,      \* g_recv_done_cnt
          flowDone   \* the keys of g_flow_done_cycle

vars == <<prog, core, net, arrived, done, flowDone>>

\* Local variables of recv_logic when it starts a primitive.
FreshIn == [noticed |-> FALSE, count |-> 0, due |-> 0, tails |-> 0, ends |-> {}]

InitCore(p, c) ==
    [queue |-> p.queue[c], para |-> <<>>, sendDone |-> TRUE, token |-> FALSE,
     remaining |-> 0, out |-> 0, acked |-> {}, in |-> FreshIn,
     REQUEST |-> <<>>, ACK |-> <<>>, DATA |-> <<>>, S_DATA |-> <<>>,
     busy |-> FALSE, seen |-> FALSE, recheck |-> FALSE, dbusy |-> FALSE, dseen |-> FALSE,
     acks |-> <<>>, rounds |-> <<>>,
     gather |-> [received |-> {}, next |-> 1], reduce |-> {}, fault |-> ""]

Init ==
    /\ prog \in Programs
    /\ core = [c \in Cores |-> InitCore(prog, c)]
    /\ net = [ch \in {<<"data", Host, c, 0>> : c \in {d \in Cores : prog.starts[d] > 0}} |->
                [i \in 1..prog.starts[ch[3]] |->
                   [type |-> "S_DATA", src |-> Host, tag |-> OwnTag(ch[3]), sub |-> 0,
                    seq |-> 1, end |-> TRUE]]]
    /\ arrived = {}
    /\ done = 0
    /\ flowDone = {}

Faulty(k) == k.fault # ""
Fail(k, what) == [k EXCEPT !.fault = what]

\* The simulation stops when the host has all DONE messages, or on an error.
Running == done < prog.ends /\ \A c \in Cores : ~Faulty(core[c])

(***************************************************************************)
(* The network.                                                            *)
(***************************************************************************)
\* The entry x of a map is v.
With(f, x, v) == [y \in DOMAIN f \cup {x} |-> IF y = x THEN v ELSE f[y]]

Under(n, ch) == IF ch \in DOMAIN n THEN n[ch] ELSE <<>>
Put(n, ch, m) == With(n, ch, Append(Under(n, ch), m))
Take(n, ch) ==
    IF Len(n[ch]) = 1 THEN [d \in DOMAIN n \ {ch} |-> n[d]]
                      ELSE [n EXCEPT ![ch] = Tail(@)]

(***************************************************************************)
(* The primitive queue (worker_core_execute).                              *)
(***************************************************************************)
Finish(k) ==
    [k EXCEPT !.queue = Tail(@) \o (IF Head(@).type \in NotRefilled THEN <<>>
                                    ELSE <<Head(@)>>),
              !.in = FreshIn]

At(c, types) == Running /\ core[c].queue # <<>> /\ Head(core[c].queue).type \in types

\* The queue that the sending thread works on, and the end of its primitive.
Sender(k) == IF prog.parallel THEN k.para ELSE k.queue
Sending(c, type) == Running /\ Sender(core[c]) # <<>> /\ Head(Sender(core[c])).type = type

FinishSend(k) ==
    LET fresh == [k EXCEPT !.out = 0, !.acked = {}]
    IN  CASE ~prog.parallel -> Finish(fresh)
          [] prog.parallel /\ Len(k.para) > 1 -> [fresh EXCEPT !.para = Tail(@)]
          [] prog.parallel /\ Len(k.para) <= 1 /\ k.remaining # 0 ->
                Fail(fresh, "batch ended before every DATA tail")
          [] OTHER -> [fresh EXCEPT !.para = <<>>, !.sendDone = TRUE]

\* With send_recv_parallel the sending primitives at the front go to the sending
\* thread once it has finished with the ones before.  A configured queue always has
\* a receiving primitive, which ends the batch.
StartBatch(c) ==
    /\ prog.parallel
    /\ At(c, SendModule \ {"RECV_ACK"})
    /\ core[c].sendDone
    /\ LET q == core[c].queue
           n == CHOOSE i \in 1..Len(q) :
                   /\ \A j \in 1..i : q[j].type \in SendModule
                   /\ i < Len(q) => q[i + 1].type \notin SendModule
           batch == SubSeq(q, 1, n)
       IN  core' = [core EXCEPT ![c] =
                      [@ EXCEPT !.queue = SubSeq(q, n + 1, Len(q)) \o batch,
                                !.para = batch,
                                !.sendDone = FALSE,
                                !.remaining = Cardinality({i \in 1..n :
                                                  q[i].type = "SEND_DATA"})]]
    /\ UNCHANGED <<prog, net, arrived, done, flowDone>>

\* A computation, or another primitive of the task thread, ends: a sender that
\* waits with its last packet may go on when no computation follows.
Compute(c) ==
    /\ At(c, {"COMP", "SET", "REDUCE_COMPUTE"})
    /\ LET q == core[c].queue
           k == [core[c] EXCEPT !.token = @ \/ (Len(q) >= 2 /\ q[2].type # "COMP")]
       IN  core' = [core EXCEPT ![c] = Finish(k)]
    /\ UNCHANGED <<prog, net, arrived, done, flowDone>>

(***************************************************************************)
(* The sender: a REQUEST per subflow, an ACK for each, the packets in      *)
(* turn.                                                                   *)
(***************************************************************************)
SendReq(c) ==
    /\ Sending(c, "SEND_REQ")
    /\ LET p == Head(Sender(core[c]))
           sub == core[c].out
           k == [core[c] EXCEPT !.out = sub + 1]
       IN  /\ net' = Put(net, <<"ctrl", c, p.peer, sub>>,
                         [type |-> "REQUEST", src |-> c, tag |-> p.tag, sub |-> sub])
           /\ core' = [core EXCEPT ![c] = IF sub + 1 = p.stripes THEN FinishSend(k) ELSE k]
    /\ UNCHANGED <<prog, arrived, done, flowDone>>

RecvAck(c) ==
    /\ Sending(c, "RECV_ACK")
    /\ core[c].ACK # <<>>
    /\ LET p == Head(Sender(core[c]))
           sub == Head(core[c].ACK).sub
           k == [core[c] EXCEPT !.ACK = Tail(@), !.acked = @ \cup {sub}]
       IN  core' = [core EXCEPT ![c] =
                      CASE prog.parallel -> FinishSend(k)
                        [] ~prog.parallel /\ sub >= p.stripes -> Fail(k, "invalid ACK")
                        [] ~prog.parallel /\ sub < p.stripes /\ sub \in core[c].acked ->
                             Fail(k, "duplicate ACK")
                        [] OTHER -> IF Cardinality(k.acked) = p.stripes
                                    THEN FinishSend(k) ELSE k]
    /\ UNCHANGED <<prog, net, arrived, done, flowDone>>

StripePackets(packets, stripes, sub) == (packets - sub + stripes - 1) \div stripes

\* A parallel sender holds its last packet until a computation has ended; the
\* last tail of a batch uses the permission up.
ConsumeDataTail(k) ==
    IF k.remaining = 0 THEN Fail(k, "tail accounting underflow")
    ELSE [k EXCEPT !.remaining = @ - 1, !.token = @ /\ k.remaining > 1]

SendData(c) ==
    /\ Sending(c, "SEND_DATA")
    /\ LET p == Head(Sender(core[c]))
           sent == core[c].out
           last == sent + 1 = p.size
           sub == sent % p.stripes
           seq == sent \div p.stripes + 1
           k == [core[c] EXCEPT !.out = sent + 1]
       IN  /\ prog.parallel /\ last => core[c].token
           /\ net' = Put(net, <<"data", c, p.peer, sub>>,
                         [type |-> "DATA", src |-> c, tag |-> p.tag, sub |-> sub, seq |-> seq,
                          end |-> seq = StripePackets(p.size, p.stripes, sub)])
           /\ core' = [core EXCEPT ![c] =
                         IF ~last THEN k
                         ELSE FinishSend(IF prog.parallel THEN ConsumeDataTail(k) ELSE k)]
    /\ UNCHANGED <<prog, arrived, done, flowDone>>

SendDone(c) ==
    /\ Sending(c, "SEND_DONE")
    /\ core' = [core EXCEPT ![c] = FinishSend(@)]
    /\ done' = done + 1
    /\ UNCHANGED <<prog, net, arrived, flowDone>>

(***************************************************************************)
(* The receiver answers REQUESTs (req_logic).  The thread wakes up when a  *)
(* REQUEST arrives and at each round of recv_logic, takes the REQUESTs of  *)
(* the receive at the front, whichever their source, and sends their ACKs. *)
(* An event that fires while it sends is lost.  A sequential core runs     *)
(* with the DTE (SPEC_USE_BEHA_DTE) and books the size of the flow per     *)
(* round of source and tag; a parallel one runs without.                   *)
(***************************************************************************)
AllSubflows(stripes) == 0..(stripes - 1)
RoundsOf(k, m) == IF <<m.src, m.tag>> \in DOMAIN k.rounds THEN k.rounds[<<m.src, m.tag>>]
                  ELSE <<>>

BookRound(k, m, stripes) ==
    LET rounds == RoundsOf(k, m)
        open == rounds # <<>> /\ Last(rounds) # AllSubflows(stripes)
        booked == IF open THEN Front(rounds) \o <<Last(rounds) \cup {m.sub}>>
                          ELSE Append(rounds, {m.sub})
    IN  CASE prog.parallel -> k
          [] ~prog.parallel /\ open /\ m.sub \in Last(rounds) ->
                Fail(k, "REQUEST repeats a subflow")
          [] OTHER -> [k EXCEPT !.rounds = With(@, <<m.src, m.tag>>, booked)]

\* A mutant: a REQUEST of any tag is answered.
TakeRequestAnyTag(k, m) ==
    LET p == Head(k.queue)
    IN  IF m.sub >= p.stripes THEN Fail(k, "invalid REQUEST")
        ELSE [BookRound(k, m, p.stripes) EXCEPT !.acks = Append(@, m)]
TakeRequest(k, m) ==
    LET p == Head(k.queue)
    IN  CASE m.tag # p.tag -> [k EXCEPT !.REQUEST = Append(@, m)]
          [] m.tag = p.tag /\ m.sub >= p.stripes -> Fail(k, "invalid REQUEST")
          [] OTHER -> [BookRound(k, m, p.stripes) EXCEPT !.acks = Append(@, m)]

\* One activation of the thread, unless it is still sending.
Notice(k) ==
    IF k.acks = <<>> /\ k.queue # <<>> /\ Head(k.queue).type \in Receives
    THEN LET Taken[i \in 0..Len(k.REQUEST)] ==
               IF i = 0 THEN [k EXCEPT !.REQUEST = <<>>]
               ELSE TakeRequest(Taken[i - 1], k.REQUEST[i])
         IN  Taken[Len(k.REQUEST)]
    ELSE k

SendAck(c) ==
    /\ Running
    /\ core[c].acks # <<>>
    /\ LET req == Head(core[c].acks)
       IN  net' = Put(net, <<"ctrl", c, req.src, req.sub>>,
                      [type |-> "ACK", src |-> c, tag |-> OwnTag(req.src), sub |-> req.sub])
    /\ core' = [core EXCEPT ![c].acks = Tail(@)]
    /\ UNCHANGED <<prog, arrived, done, flowDone>>

(***************************************************************************)
(* recv_logic.  A receive of nothing ends at once; otherwise each round    *)
(* wakes req_logic and then takes one packet.                              *)
(***************************************************************************)
RecvNothing(c) ==
    /\ At(c, Receives)
    /\ Head(core[c].queue).size = 0
    /\ core' = [core EXCEPT ![c] = Finish(@)]
    /\ UNCHANGED <<prog, net, arrived, done, flowDone>>

\* A mutant: ev_prim_recv_notice is notified before the loop only.
RecvRoundNoticingOnce(c) ==
    /\ At(c, Receives)
    /\ Head(core[c].queue).size > 0
    /\ ~core[c].in.noticed
    /\ core' = [core EXCEPT ![c] = [(IF @.in.count = 0 THEN Notice(@) ELSE @)
                                     EXCEPT !.in.noticed = TRUE]]
    /\ UNCHANGED <<prog, net, arrived, done, flowDone>>
RecvRound(c) ==
    /\ At(c, Receives)
    /\ Head(core[c].queue).size > 0
    /\ ~core[c].in.noticed
    /\ core' = [core EXCEPT ![c] = [Notice(@) EXCEPT !.in.noticed = TRUE]]
    /\ UNCHANGED <<prog, net, arrived, done, flowDone>>

Count(k, m) == [k EXCEPT !.in = [k.in EXCEPT !.noticed = FALSE, !.count = @ + 1]]

\* A tail counts once per source and subflow, and says how many packets belong to it.
CountTail(k, m) ==
    LET p == Head(k.queue)
        id == <<m.src, m.sub>>
        tail == [k EXCEPT !.in = [k.in EXCEPT !.tails = @ + 1, !.due = @ + m.seq,
                                              !.ends = @ \cup {id}]]
    IN  CASE p.type = "RECV_DATA" /\ m.sub >= p.stripes -> Fail(k, "invalid DATA tail")
          [] p.type = "RECV_DATA" /\ m.sub < p.stripes /\ id \in k.in.ends ->
                Fail(k, "duplicate DATA tail")
          [] OTHER -> tail

\* The receive is complete: the booked rounds of its sources are used up.
CloseRounds(k) ==
    LET p == Head(k.queue)
        sources == {e[1] : e \in k.in.ends}
        Key(s) == <<s, p.tag>>
        Booked(s) == Key(s) \in DOMAIN k.rounds
        left == [key \in DOMAIN k.rounds |->
                   IF key \in {Key(s) : s \in sources} THEN Tail(k.rounds[key])
                   ELSE k.rounds[key]]
    IN  CASE prog.parallel \/ p.type = "RECV_START" -> k
          [] ~(prog.parallel \/ p.type = "RECV_START")
             /\ (\/ Cardinality(sources) # p.size
                 \/ \E s \in sources : \/ ~Booked(s)
                                       \/ Head(k.rounds[Key(s)]) # AllSubflows(p.stripes)) ->
                Fail(k, "incomplete REQUEST metadata")
          [] OTHER -> [k EXCEPT !.rounds =
                         [key \in {x \in DOMAIN left : left[x] # <<>>} |-> left[key]]]

RecvComplete(k) ==
    LET p == Head(k.queue)
    IN  /\ k.in.tails = p.size * (IF p.type = "RECV_DATA" THEN p.stripes ELSE 1)
        /\ k.in.count >= k.in.due

RecvPacket(c) ==
    /\ At(c, Receives)
    /\ core[c].in.noticed
    /\ LET p == Head(core[c].queue)
           from == IF p.type = "RECV_DATA" THEN "DATA" ELSE "S_DATA"
           m == Head(core[c][from])
           taken == Count([core[c] EXCEPT ![from] = Tail(@)], m)
           k == CountTail(taken, m)
       IN  /\ core[c][from] # <<>>
           /\ core' = [core EXCEPT ![c] =
                 CASE p.tag # OwnTag(c) /\ m.tag # p.tag -> Fail(@, "incompatible tag")
                   [] ~(p.tag # OwnTag(c) /\ m.tag # p.tag) /\ ~m.end -> taken
                   [] OTHER -> IF Faulty(k) \/ ~RecvComplete(k) THEN k
                               ELSE Finish(CloseRounds(k))]
           /\ flowDone' = IF from = "DATA" /\ m.end
                          THEN flowDone \cup {<<m.src, m.tag, c>>} ELSE flowDone
    /\ UNCHANGED <<prog, net, arrived, done>>

(***************************************************************************)
(* Collective markers.  The last rank to arrive releases all ranks of the  *)
(* barrier in the same instant and the barrier is forgotten.               *)
(***************************************************************************)
\* A mutant: the barrier opens one rank early.
BarrierReachedEarly(at, phase) ==
    Cardinality({x \in at : x[2] = phase}) + 1 >= Len(prog.group)
BarrierReached(at, phase) ==
    Cardinality({x \in at : x[2] = phase}) = Len(prog.group)

WaitCollectiveBarrier(c) ==
    /\ At(c, {"BARRIER"})
    /\ LET phase == Head(core[c].queue).tag[1]
           at == arrived \cup {<<c, phase>>}
           here == {x[1] : x \in {y \in at : y[2] = phase}}
       IN  /\ <<c, phase>> \notin arrived
           /\ IF BarrierReached(at, phase)
              THEN /\ core' = [r \in Cores |-> IF r \in here THEN Finish(core[r]) ELSE core[r]]
                   /\ arrived' = {x \in at : x[2] # phase}
              ELSE arrived' = at /\ UNCHANGED core
    /\ UNCHANGED <<prog, net, done, flowDone>>

\* GatherReorderBuffer of depth p.size: slots are committed in the order of the
\* ranks, and one entry is kept free for the slot to be committed next.
ExpectedGatherSlots(c) == SelectSeq(prog.group, LAMBDA r : r # c)

GatherFull(g, slot, depth) ==
    LET occupancy == Cardinality(g.received)
    IN  \/ occupancy = depth
        \/ slot # g.next /\ occupancy + 1 = depth /\ g.next \notin g.received

CommitCycle(g) ==
    IF g.next \in g.received
    THEN [received |-> g.received \ {g.next}, next |-> g.next + 1] ELSE g

ProcessGatherReorderArrival(c) ==
    /\ At(c, {"GATHER_ARRIVAL"})
    /\ LET p == Head(core[c].queue)
           slots == ExpectedGatherSlots(c)
           slot == CHOOSE i \in DOMAIN slots : slots[i] = p.peer
           g == core[c].gather
           next == CommitCycle([g EXCEPT !.received = @ \cup {slot}])
           kept == IF next.next > Len(slots) THEN [received |-> {}, next |-> 1] ELSE next
       IN  core' = [core EXCEPT ![c] =
                      CASE slot \in g.received \/ slot < g.next ->
                             Fail(@, "gather reorder rejected packet")
                        [] ~(slot \in g.received \/ slot < g.next)
                           /\ GatherFull(g, slot, p.size) ->
                             [@ EXCEPT !.gather = CommitCycle(g)]
                        [] OTHER -> Finish([@ EXCEPT !.gather = kept])]
    /\ UNCHANGED <<prog, net, arrived, done, flowDone>>

ProcessReduceRxArrival(c) ==
    /\ At(c, {"REDUCE_ARRIVAL"})
    /\ LET src == Head(core[c].queue).peer
           received == core[c].reduce \cup {src}
           all == Cardinality(received) + 1 = Len(prog.group)
       IN  core' = [core EXCEPT ![c] =
                      IF src = c \/ src \in core[c].reduce
                      THEN Fail(@, "Reduce RX unexpected or duplicate source")
                      ELSE Finish([@ EXCEPT !.reduce = IF all THEN {} ELSE received])]
    /\ UNCHANGED <<prog, net, arrived, done, flowDone>>

(***************************************************************************)
(* The channels into a core.  A message is stored whether there is room or *)
(* not, and the signals of a full buffer are written: busy and dbusy are   *)
(* what the core drives (ctrl_core_busy_o, core_busy_o), seen and dseen    *)
(* what the router acts on, which is a cycle behind.  So a message that    *)
(* follows at once slips in.  ctrl_core_busy_o is written once more in the *)
(* first idle cycle (which changes nothing unless it was set); then        *)
(* poll_ctrl_buffer_i sleeps until the next message.  core_busy_o is       *)
(* written when packets have been taken.                                   *)
(***************************************************************************)
CtrlFull(k) == Len(k.REQUEST) >= BufferSize \/ Len(k.ACK) >= BufferSize

PollCtrlBuffer(c, s, sub) ==
    LET ch == <<"ctrl", s, c, sub>>
    IN  /\ Running
        /\ ch \in DOMAIN net
        /\ ~core[c].seen
        /\ LET m == Head(net[ch])
               stored == [core[c] EXCEPT ![m.type] = Append(@, m)]
               k == [stored EXCEPT !.busy = CtrlFull(stored), !.seen = core[c].busy,
                                   !.recheck = CtrlFull(stored) \/ core[c].busy]
           IN  core' = [core EXCEPT ![c] = IF m.type = "REQUEST" THEN Notice(k) ELSE k]
        /\ net' = Take(net, ch)
        /\ UNCHANGED <<prog, arrived, done, flowDone>>

CtrlChannelIdle(c) ==
    /\ Running
    /\ core[c].recheck
    /\ core' = [core EXCEPT ![c] = [@ EXCEPT !.busy = CtrlFull(core[c]),
                                            !.seen = CtrlFull(core[c]),
                                            !.recheck = FALSE]]
    /\ UNCHANGED <<prog, net, arrived, done, flowDone>>

\* A mutant: one packet too many is let in.
DataFullOffByOne(k) == Len(k.DATA) > BufferSize
DataFull(k) == Len(k.DATA) >= BufferSize

\* A START message clears the signal even if DATA is full, and poll_buffer_i then
\* sleeps while the router goes on sending: the packets would be lost.
PollBuffer(c, s, sub) ==
    LET ch == <<"data", s, c, sub>>
    IN  /\ Running
        /\ ch \in DOMAIN net
        /\ ~core[c].dseen
        /\ LET m == Head(net[ch])
               stored == [core[c] EXCEPT ![m.type] = Append(@, m)]
               k == [stored EXCEPT !.dbusy = DataFull(stored), !.dseen = core[c].dbusy]
           IN  core' = [core EXCEPT ![c] =
                          IF m.type = "S_DATA" /\ DataFull(stored)
                          THEN Fail(k, "START clears a busy data channel") ELSE k]
        /\ net' = Take(net, ch)
        /\ UNCHANGED <<prog, arrived, done, flowDone>>

DataChannelIdle(c) ==
    LET full == DataFull(core[c])
    IN  /\ Running
        /\ <<core[c].dbusy, core[c].dseen>> # <<full, full>>
        /\ core' = [core EXCEPT ![c] = [@ EXCEPT !.dbusy = full, !.dseen = full]]
        /\ UNCHANGED <<prog, net, arrived, done, flowDone>>

WorkerStep(c) ==
    \/ StartBatch(c) \/ Compute(c) \/ RecvNothing(c) \/ RecvRound(c) \/ RecvPacket(c)
    \/ WaitCollectiveBarrier(c) \/ ProcessGatherReorderArrival(c) \/ ProcessReduceRxArrival(c)
SenderStep(c) == SendReq(c) \/ RecvAck(c) \/ SendData(c) \/ SendDone(c)
Arrival(c, s, sub) == PollCtrlBuffer(c, s, sub) \/ PollBuffer(c, s, sub)

Next ==
    \E c \in Cores :
       \/ WorkerStep(c) \/ SenderStep(c) \/ SendAck(c)
       \/ CtrlChannelIdle(c) \/ DataChannelIdle(c)
       \/ \E s \in Cores \cup {Host}, sub \in Subflows : Arrival(c, s, sub)

Spec == Init /\ [][Next]_vars

\* The simulation goes on as long as some thread can run.
FairSpec == Spec /\ WF_vars(Next)

(***************************************************************************)
(* Properties.                                                             *)
(***************************************************************************)
Messages(types, senders) ==
    [type : types, src : senders, tag : Tags, sub : Subflows]
Packets(type, senders) ==
    [type : {type}, src : senders, tag : Tags, sub : Subflows, seq : Nat, end : BOOLEAN]
AtMost(s, S, n) == Len(s) <= n /\ \A i \in DOMAIN s : s[i] \in S

\* Every field has its type, and no buffer of REQUEST, ACK or DATA messages that
\* poll_ctrl_buffer_i and poll_buffer_i fill exceeds MAX_BUFFER_PACKET_SIZE by more
\* than the message that the router sends before it sees that the core is busy.
TypeOK ==
    /\ prog \in Programs
    /\ DOMAIN core = Cores
    /\ \A c \in Cores :
          LET k == core[c]
          IN  /\ AtMost(k.REQUEST, Messages({"REQUEST"}, Cores), BufferSize + 1)
              /\ AtMost(k.ACK, Messages({"ACK"}, Cores), BufferSize + 1)
              /\ AtMost(k.DATA, Packets("DATA", Cores), BufferSize + 1)
              /\ AtMost(k.S_DATA, Packets("S_DATA", {Host}), prog.starts[c])
              /\ \A x \in {k.sendDone, k.token, k.busy, k.seen, k.recheck, k.dbusy, k.dseen} :
                    x \in BOOLEAN
              /\ k.out \in Nat /\ k.remaining \in Nat /\ k.acked \subseteq Subflows
              /\ k.in \in [noticed : BOOLEAN, count : Nat, due : Nat, tails : Nat,
                           ends : SUBSET ((Cores \cup {Host}) \X Subflows)]
    /\ arrived \subseteq Cores \X Nat
    /\ done \in 0..prog.ends

\* No thread of a core meets one of the errors it throws on: an ACK, a DATA tail or
\* a REQUEST twice for a subflow of one round, a packet of another tag, a batch
\* whose tails do not add up, a rank twice in a gather or a reduction.
NoFault == \A c \in Cores : ~Faulty(core[c])

\* The flows that the primitives of the program send.
Flows == UNION {{<<c, p.tag, p.peer>> :
                   p \in {q \in ToSet(prog.queue[c]) : q.type = "SEND_DATA"}} : c \in Cores}

\* Who gets data from whom by the definition of each operation.
Promise(op, group, root) ==
    LET R == {group[i] : i \in DOMAIN group}
        r == group[root + 1]
        others == R \ {r}
    IN  CASE op = "P2P" -> {<<group[1], group[2]>>}
          [] op \in {"BROADCAST", "SCATTER"} -> {r} \X others
          [] op \in {"GATHER", "REDUCE"} -> others \X {r}
          [] op \in {"ALLGATHER", "ALLTOALL"} -> {x \in R \X R : x[1] # x[2]}
          [] op \in {"ALLREDUCE", "REDUCESCATTER"} -> ({r} \X others) \cup (others \X {r})

\* The barriers of WaitCollectiveBarrier keep the phases of a collective apart: no
\* flow of a phase is delivered before all flows of the earlier phases, whichever
\* rank is slow.  When its root reports DONE, exactly the ranks that the operation
\* promises have got data from each other.
PhasesInOrder ==
    prog.op # "NONE" =>
      /\ \A f, g \in Flows : f[2][1] < g[2][1] /\ g \in flowDone => f \in flowDone
      /\ done > 0 => {<<f[1], f[3]>> : f \in flowDone} = Promise(prog.op, prog.group, prog.root)

\* Every configured program comes to its end: the host gets as many DONE messages as
\* it waits for, in spite of the events that req_logic misses while it sends ACKs, of
\* full buffers, and of control messages that overtake data.
EveryProgramEnds == <>(done = prog.ends)

\* poll_ctrl_buffer_i is busy because a buffer is full: once there is room in all of
\* them, the router is let in again.
BusyEnds == \A c \in Cores :
    (core[c].busy /\ ~CtrlFull(core[c])) ~> (~core[c].busy \/ CtrlFull(core[c]) \/ ~Running)

=============================================================================
