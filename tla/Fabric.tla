------------------------------- MODULE Fabric -------------------------------
(***************************************************************************)
(* Dies connected by bounded store-and-forward links: the routers (Router),*)
(* the links (D2DLink), the path reservations (SafLedger), an HBM channel  *)
(* at one tile (llm/src/memory/hbm_network.cpp), and cores that send flows *)
(* to each other and access the memory.                                    *)
(*                                                                         *)
(* The system is clocked.  In Cycle every router, every link and every     *)
(* core takes one step on the signals its neighbours have registered; the  *)
(* order in which the simulator runs them does not matter.  Between two    *)
(* cycles a core may begin its next primitive or take a packet it has      *)
(* received, and the memory may complete a request: that is when           *)
(* computations and the memory take their time.                            *)
(***************************************************************************)
EXTENDS Router

CONSTANTS
  Programs,        \* the programs the cores may be given
  ReqFlits,        \* flits of a memory request and of its response
  RspFlits,
  CompletedDepth   \* completed_queue_depth of the HBM bridge

\* A program is a sequence of sets of flows: a transfer that the core sends, with
\* subflows 0, 1, ...; flows of one tag that it receives; nothing for a memory access.
MemAccess == {}
IsSent(c, K) == K # {} /\ \A k \in K : k.src = c
IsReceived(c, K) == K # {} /\ \A k \in K : k.dst = c

ASSUME ProgramAssumption ==
  /\ \A prog \in Programs :
       /\ prog \in [Routers -> Seq(SUBSET Flows)]
       /\ \A c \in Routers : \A i \in DOMAIN prog[c] :
            LET K == prog[c][i]
            IN  /\ K = MemAccess \/ IsSent(c, K) \/ IsReceived(c, K)
                /\ IsSent(c, K) => {k.sub : k \in K} = 0 .. Cardinality(K) - 1
                /\ IsReceived(c, K) => \A j, k \in K : j.tag = k.tag
  /\ {ReqFlits, RspFlits, CompletedDepth} \subseteq Nat \ {0}

VARIABLES
  core,      \* the primitives, message buffers and signals of every core
  got,       \* packets of every flow that have reached their core
  memory,    \* HBMEndpointAgent with one worker
  halted,    \* a reservation was rejected: the simulation has stopped
  clock      \* the parity of the cycle

vars == <<ledgerVars, linkVars, router, core, got, memory, halted, clock>>

Init ==
  /\ LedgerInit /\ LinkInit /\ RouterInit
  /\ \E prog \in Programs :
       core = [c \in Routers |->
         [prog |-> prog[c],
          phase |-> "idle",
          next |-> 0,         \* next_subflow, data_packet_id
          acks |-> {},        \* ack_subflows
          REQUEST |-> <<>>, ACK |-> <<>>, DATA |-> <<>>,     \* msg_buffer_
          answers |-> <<>>,   \* ack_queue of req_logic
          ready |-> FALSE,    \* recv_logic looks for a packet
          count |-> 0,        \* recv_cnt
          ends |-> {},        \* ended_subflows
          busy |-> FALSE,     \* core_busy_o
          cbusy |-> FALSE,    \* ctrl_core_busy_o
          recheck |-> FALSE,  \* poll_ctrl_buffer_i has stored a message
          response |-> 0,     \* response_assemblies_: flits of the response
          tx |-> None, ctx |-> None,
          faults |-> {}]]
  /\ got = [k \in Flows |-> 0]
  /\ memory = [partial |-> [c \in Routers |-> 0],   \* partial_
               completed |-> <<>>,                  \* completed_
               active |-> None,                     \* the request of the worker
               served |-> FALSE]
  /\ halted = FALSE
  /\ clock = 0

\* The subflows of a transfer by number.
Sub(K, i) == CHOOSE k \in K : k.sub = i
Total(K) == SumFunctionOnSet(Packets, K)

Running ==
  /\ ~halted
  /\ \A r \in Routers : router[r].faults = {} /\ core[r].faults = {}
  /\ \A l \in Links : link[l].faults = {}

\* SEND_REQ: reserve the paths of all subflows, then send the first REQUEST.  A
\* path that is not admitted stops the simulation before any REQUEST.
StartSend(c) ==
  LET K == Head(core[c].prog)
  IN  /\ Running
      /\ core[c].phase = "idle"
      /\ core[c].prog # <<>> /\ IsSent(c, K)
      /\ router[c].cavail[Center]
      /\ core[c].ctx = None
      /\ \/ /\ ReserveSafPlans(K)
            /\ core' = [core EXCEPT
                 ![c].ctx = Request(Sub(K, 0)),
                 ![c].next = 1,
                 ![c].phase = "req"]
            /\ UNCHANGED halted
         \/ /\ DuplicateFlow(K) \/ ~Fits(K) \/ CommitMismatch(K)
            /\ halted' = TRUE
            /\ core' = [core EXCEPT ![c].faults =
                 FaultIf(~DuplicateFlow(K) /\ Fits(K), "commit mismatch")]
            /\ UNCHANGED ledgerVars
      /\ UNCHANGED <<linkVars, router, got, memory, clock>>

Copies(f, n) == [i \in 1..n |-> f]

\* HBMNetwork::Exchange(): the flits of the request are put into the router's
\* buffer while there is room; the rest waits.
StartMem(c) ==
  /\ Running
  /\ core[c].phase = "idle"
  /\ core[c].prog # <<>> /\ Head(core[c].prog) = MemAccess
  /\ core' = [core EXCEPT ![c].phase = "mem", ![c].response = 0]
  /\ router' = [router EXCEPT ![c] =
       InjectRequests([@ EXCEPT !.req = Copies(MemRequest(c), ReqFlits)])]
  /\ UNCHANGED <<ledgerVars, linkVars, got, memory, halted, clock>>

\* The elements of a sequence that are in a set, in their order.
Among(q, S) ==
  LET found[i \in 0..Len(q)] ==
        IF i = 0 THEN <<>>
        ELSE IF q[i] \in S THEN Append(found[i-1], q[i]) ELSE found[i-1]
  IN  found[Len(q)]

\* An activation of req_logic, unless it is still sending: the REQUESTs with the
\* tag of the receive at the front are to be answered, the others stay.
Notice(s) ==
  IF s.answers # <<>> \/ s.phase # "recv" THEN s
  ELSE LET tagged == {k \in Flows : \E j \in Head(s.prog) : j.tag = k.tag}
       IN  [s EXCEPT !.answers = Among(s.REQUEST, tagged),
                     !.REQUEST = Among(@, Flows \ tagged)]

\* req_logic sends an ACK when the core sends nothing else and the router has room.
SendAck(c, s) ==
  IF s.answers # <<>> /\ s.tx = None /\ s.ctx = None /\ router[c].cavail[Center]
  THEN [s EXCEPT !.ctx = Ack(Head(s.answers)), !.answers = Tail(@)]
  ELSE s

\* RECV_DATA begins.
StartRecv(c) ==
  /\ Running
  /\ core[c].phase = "idle"
  /\ core[c].prog # <<>> /\ IsReceived(c, Head(core[c].prog))
  /\ core' = [core EXCEPT ![c] =
       SendAck(c, Notice([@ EXCEPT !.phase = "recv", !.ready = TRUE,
                                   !.count = 0, !.ends = {}]))]
  /\ UNCHANGED <<ledgerVars, linkVars, router, got, memory, halted, clock>>

\* recv_logic takes a packet; the next one not before the next cycle.  The receive
\* is over with the tail of every flow and the packets that the tails count.
RecvPacket(c) ==
  LET s == core[c]
      K == Head(s.prog)
      f == Head(s.DATA)
      taken == [s EXCEPT !.DATA = Tail(@), !.ready = FALSE, !.count = @ + 1,
                         !.ends = IF f.end THEN @ \cup {f.flow} ELSE @]
      over == /\ f.end
              /\ Cardinality(taken.ends) = Cardinality(K)
              /\ taken.count >= Total(taken.ends)
  IN  /\ Running
      /\ s.phase = "recv" /\ s.ready /\ s.DATA # <<>>
      /\ core' = [core EXCEPT ![c] =
           [taken EXCEPT
              !.phase = IF over THEN "idle" ELSE @,
              !.prog = IF over THEN Tail(@) ELSE @,
              !.faults = FaultIf(\E k \in K : k.tag # f.flow.tag, "incompatible tag")
                           \cup FaultIf(f.end /\ f.flow \in s.ends, "duplicate DATA tail")]]
      /\ UNCHANGED <<ledgerVars, linkVars, router, got, memory, halted, clock>>

\* HandleRequest() returns: the worker injects the response, as far as there is
\* room in the control buffer.
MemComplete ==
  /\ Running
  /\ memory.active # None /\ ~memory.served
  /\ memory' = [memory EXCEPT !.served = TRUE]
  /\ router' = [router EXCEPT ![MemTile] =
       InjectResponses([@ EXCEPT !.rsp = Copies(MemResponse(memory.active), RspFlits)])]
  /\ UNCHANGED <<ledgerVars, linkVars, core, got, halted, clock>>
-----------------------------------------------------------------------------
(* The signals between the components.                                     *)

DataWires(r) == [p \in InPorts(r) |->
  CASE p = Center -> core[r].tx
    [] p \in Links -> link[p].out
    [] OTHER -> router[Source[p]].tx[p]]
CtrlWires(r) == [p \in InPorts(r) |->
  CASE p = Center -> core[r].ctx
    [] p \in Links -> link[p].cout
    [] OTHER -> router[Source[p]].ctx[p]]
Room(r) == [e \in OutEdges(r) |-> router[Target[e]].avail[e]]
CtrlRoom(r) == [e \in OutEdges(r) |-> router[Target[e]].cavail[e]]
-----------------------------------------------------------------------------
(* The HBM bridge.                                                         *)

\* TryAccept() refuses the flit that completes a request while the queue of
\* completed requests is full; the flit stays in the router.
TryAccept(f) ==
  \/ memory.partial[f.core] + 1 < ReqFlits
  \/ Len(memory.completed) < CompletedDepth

MemTaken(r) ==
  LET q == router[r].ob[Center]
  IN  q # <<>> /\ IsMem(Head(q)) /\ TryAccept(Head(q))

\* Bug: a refused flit is kept in the assembly and offered again.
AssembleTwice(m) ==
  LET q == router[MemTile].ob[Center]
      c == Head(q).core
  IN  IF q = <<>> \/ ~IsMem(Head(q)) THEN m
      ELSE IF m.partial[c] + 1 < ReqFlits
           THEN [m EXCEPT !.partial[c] = @ + 1]
           ELSE [m EXCEPT !.partial[c] = 0, !.completed = Append(@, c)]

\* A flit joins its request; a whole request waits for the worker.
Assemble(m) ==
  LET c == Head(router[MemTile].ob[Center]).core
  IN  CASE ~MemTaken(MemTile) -> m
        [] MemTaken(MemTile) /\ m.partial[c] + 1 < ReqFlits ->
             [m EXCEPT !.partial[c] = @ + 1]
        [] OTHER -> [m EXCEPT !.partial[c] = 0, !.completed = Append(@, c)]

\* Worker(): with the response injected it takes the next request.
WorkerStep(m, injected) ==
  LET free == m.active = None \/ (m.served /\ injected)
  IN  CASE free /\ m.completed # <<>> ->
             [m EXCEPT !.active = Head(m.completed), !.completed = Tail(@),
                       !.served = FALSE]
        [] free /\ m.completed = <<>> -> [m EXCEPT !.active = None, !.served = FALSE]
        [] OTHER -> m
-----------------------------------------------------------------------------
(* A cycle of a core.                                                      *)

Full(q) == Len(q) >= BufDepth

\* poll_ctrl_buffer_i stores what the router has sent in the cycle before, whether
\* there is room or not, and signals whether a buffer is full.  In the first cycle
\* without a message it looks once more, then not before the next message.  A
\* REQUEST wakes req_logic.
CtrlReceive(c, s) ==
  LET f == router[c].ctx[Center]
      stored == IF f = None THEN s ELSE [s EXCEPT ![f.type] = Append(@, f.flow)]
      full == Full(stored.REQUEST) \/ Full(stored.ACK)
      polled == IF f = None /\ ~s.recheck THEN s
                ELSE [stored EXCEPT !.cbusy = full, !.recheck = (f # None)]
  IN  IF f # None /\ f.type = "REQUEST" THEN Notice(polled) ELSE polled

\* poll_buffer_i does the same for DATA, and looks again whenever a packet was taken.
DataReceive(c, s) ==
  LET f == router[c].tx[Center]
      stored == IF f = None THEN s ELSE [s EXCEPT !.DATA = Append(@, f)]
  IN  [stored EXCEPT !.busy = Full(stored.DATA)]

\* recv_logic comes to its next round and wakes req_logic.
NextRound(s) == IF s.phase = "recv" /\ ~s.ready THEN Notice([s EXCEPT !.ready = TRUE])
                ELSE s

\* TryAcceptResponseFlit(), and IssueChunk() after the last one.
ResponseFlit(c, s) ==
  LET q == router[c].cob[Center]
  IN  CASE q = <<>> \/ ~IsMem(Head(q)) -> s
        [] q # <<>> /\ IsMem(Head(q)) /\ s.phase # "mem" ->
             [s EXCEPT !.faults = @ \cup {"response has no matching waiter"}]
        [] q # <<>> /\ IsMem(Head(q)) /\ s.phase = "mem" /\ s.response + 1 < RspFlits ->
             [s EXCEPT !.response = @ + 1]
        [] OTHER -> [s EXCEPT !.phase = "idle", !.prog = Tail(@)]

\* RECV_ACK takes an ACK; it is over when every subflow is acknowledged.
TakeAck(s) ==
  LET n == Cardinality(Head(s.prog))
      sub == Head(s.ACK).sub
      acks == s.acks \cup {sub}
      all == Cardinality(acks) = n
  IN  [s EXCEPT !.ACK = Tail(@),
                !.acks = IF all THEN {} ELSE acks,
                !.phase = IF all THEN "data" ELSE @,
                !.faults = @ \cup FaultIf(sub >= n, "invalid ACK subflow")
                             \cup FaultIf(sub \in s.acks, "duplicate ACK subflow")]

\* SEND_REQ sends the other REQUESTs, RECV_ACK waits, SEND_DATA sends a packet
\* of each subflow in turn.
CoreSend(c, s) ==
  LET K == Head(s.prog)
      n == Cardinality(K)
      g == s.next + 1                 \* global_seq
      free == s.ctx = None            \* of an ACK
  IN  CASE s.phase = "req" /\ s.next = n ->
             [s EXCEPT !.phase = "ack", !.next = 0]
        [] s.phase = "req" /\ s.next < n /\ free /\ router[c].cavail[Center] ->
             [s EXCEPT !.ctx = Request(Sub(K, s.next)), !.next = @ + 1]
        [] s.phase = "ack" /\ s.ACK # <<>> -> TakeAck(s)
        [] s.phase = "data" /\ g <= Total(K) /\ free /\ router[c].avail[Center] ->
             [s EXCEPT !.tx = Data(Sub(K, (g - 1) % n), (g - 1) \div n + 1),
                       !.next = g]
        [] s.phase = "data" /\ g > Total(K) ->
             [s EXCEPT !.phase = "idle", !.prog = Tail(@), !.next = 0]
        [] OTHER -> s

\* An ACK that had to wait goes out first.
CoreCycle(c) ==
  LET waiting == SendAck(c, [core[c] EXCEPT !.tx = None, !.ctx = None])
      received == ResponseFlit(c, DataReceive(c, CtrlReceive(c, waiting)))
  IN  SendAck(c, CoreSend(c, NextRound(received)))
-----------------------------------------------------------------------------
\* The clock ticks while no error has been thrown.
Tick == Running /\ clock' = 1 - clock

Cycle ==
  /\ Tick
  /\ router' = [r \in Routers |->
       RouterPass(r, DataWires(r), CtrlWires(r), Room(r), CtrlRoom(r), MemTaken(r),
                  core[r].busy, core[r].cbusy)]
  /\ link' = [l \in Links |->
       LinkStep(l, router[Source[l]].tx[l], router[Source[l]].ctx[l],
                router[Target[l]].avail[l], router[Target[l]].cavail[l])]
  /\ ArbiterCycle({l \in Links : Asks(l, Offered(l, router[Target[l]].avail[l]))})
  /\ ReleaseSafLinks(UNION {{<<l, k>> : k \in {link'[l].leaves} \ {None}} : l \in Links})
  /\ core' = [c \in Routers |-> CoreCycle(c)]
  /\ got' = [k \in Flows |->
       got[k] + IF \E f \in {router[k.dst].tx[Center]} :
                     f # None /\ f.flow = k THEN 1 ELSE 0]
  /\ memory' = WorkerStep(Assemble(memory), router'[MemTile].rsp = <<>>)
  /\ UNCHANGED halted

\* worker_core_execute(): the next primitive begins.
Begin(c) == StartSend(c) \/ StartMem(c) \/ StartRecv(c)

Next ==
  \/ Cycle
  \/ MemComplete
  \/ \E c \in Routers : Begin(c) \/ RecvPacket(c)

Spec == Init /\ [][Next]_vars

\* The clock never stops, a core does not compute for ever before its next primitive
\* or packet, and the memory answers.  A Cycle is the only step that changes the
\* clock.
Fairness ==
  /\ WF_clock(Tick)
  /\ WF_vars(MemComplete)
  /\ \A c \in Routers : WF_vars(Begin(c)) /\ WF_vars(RecvPacket(c))

FairSpec == Spec /\ Fairness
-----------------------------------------------------------------------------
(* Where flits are.                                                        *)

AsSeq(f) == IF f = None THEN <<>> ELSE <<f>>

\* What has left the SAF stage of a link and is not yet in the next router.
PastStage(l) ==
  AsSeq(link[l].out) \o link[l].rx
    \o [i \in DOMAIN link[l].inflight |-> link[l].inflight[i].flit]

OfFlow(q, k) == Len(SelectSeq(q, LAMBDA f : f.type = "DATA" /\ f.flow = k))

\* Packets of a flow between the output buffer of an edge and the input buffer
\* of the router behind it.
OnEdge(k, e) ==
  OfFlow(router[Source[e]].ob[e] \o AsSeq(router[Source[e]].tx[e])
           \o (IF e \in Links THEN link[e].saf[k] \o PastStage(e) ELSE <<>>)
           \o router[Target[e]].ib[e], k)

AtEnd(k) ==
  got[k] + OfFlow(router[k.dst].ob[Center] \o AsSeq(router[k.dst].tx[Center]), k)

\* Packets of a flow that have passed output o of router r.
Passed(k, r, o) ==
  IF o = Center THEN AtEnd(k)
  ELSE LET i == CHOOSE j \in DOMAIN Route[k] : Route[k][j] = o
       IN  AtEnd(k) + MapThenSumSet(LAMBDA j : OnEdge(k, Route[k][j]),
                                    i..Len(Route[k]))

Through(r, o) ==
  {k \in Flows : IF o = Center THEN k.dst = r ELSE Contains(Route[k], o)}

\* Flits of one type and core, on the data or on the control path.
MemOf(q, type, c) == Len(SelectSeq(q, LAMBDA f : f.type = type /\ f.core = c))
Requests(c) ==
  LET inRouter(r) ==
        MapThenSumSet(LAMBDA p : MemOf(router[r].ib[p], "MEMREQ", c), InPorts(r))
        + MapThenSumSet(LAMBDA p : MemOf(router[r].ob[p] \o AsSeq(router[r].tx[p]),
                                         "MEMREQ", c), OutPorts(r))
  IN  MapThenSumSet(inRouter, Routers)
      + MapThenSumSet(LAMBDA l : MemOf(link[l].mem \o PastStage(l), "MEMREQ", c),
                      Links)
Responses(c) ==
  LET inRouter(r) ==
        MapThenSumSet(LAMBDA p : MemOf(router[r].cib[p], "MEMRSP", c), InPorts(r))
        + MapThenSumSet(LAMBDA p : MemOf(router[r].cob[p] \o AsSeq(router[r].ctx[p]),
                                         "MEMRSP", c), OutPorts(r))
      inLink(l) ==
        MemOf([i \in DOMAIN link[l].ctrl |-> link[l].ctrl[i].flit]
                \o AsSeq(link[l].cout), "MEMRSP", c)
  IN  MapThenSumSet(inRouter, Routers) + MapThenSumSet(inLink, Links)
-----------------------------------------------------------------------------
Phases == {"idle", "req", "ack", "data", "mem", "recv"}

\* Types of the fields that other parts rely on, and bounds: the data outputs of a
\* router keep to MAX_BUFFER_PACKET_SIZE, the message buffers of a core, which learns
\* of a full buffer's signal a cycle late, exceed it by one packet at most.
TypeOK ==
  /\ reserved \in [Books -> 0..SafDepth]
  /\ \A k \in Flows : flowLinks[k] \subseteq Links /\ flowGroups[k] \subseteq Groups
  /\ \A l \in Links :
       /\ SafOccupancy(link[l]) \in 0..SafDepth
       /\ Len(link[l].inflight) \in 0..DataDepth
       /\ Len(link[l].rx) \in 0..RxDepth
       /\ Len(link[l].ctrl) \in 0..CtrlDepth
       /\ link[l].portTokens \in 0..PortRate[l].den
       /\ link[l].tokens \in 0..LinkRate[l].den
  /\ \A r \in Routers :
       /\ \A p \in OutPorts(r) : Len(router[r].ob[p]) <= BufDepth
       /\ core[r].phase \in Phases
       /\ \A q \in {core[r].REQUEST, core[r].ACK, core[r].DATA} : Len(q) <= BufDepth + 1
  /\ Len(memory.completed) <= CompletedDepth
  /\ halted \in BOOLEAN

\* No internal error of the links, the routers, the ledger or the protocol is
\* ever thrown: the reservation and the credits keep the SAF stage from
\* overflowing although memory flits share it, a REQUEST reaches every link
\* before its DATA, and what is released was reserved.
NoFault ==
  /\ \A l \in Links : link[l].faults = {}
  /\ \A r \in Routers : router[r].faults = {} /\ core[r].faults = {}

\* Every slot of a link's SAF stage is a credit of the router, a packet on the
\* wire or in the stage, or a toggled bit the router has yet to see; likewise
\* for the control FIFO.  A missed or doubled toggle would break it for ever.
CreditsConserved ==
  \A l \in Links :
    LET r == router[Source[l]]
    IN  /\ SafDepth = r.credit[l] + Len(AsSeq(r.tx[l])) + SafOccupancy(link[l])
                        + IF r.seen[l] # link[l].dataCredit THEN 1 ELSE 0
        /\ CtrlDepth = r.ccredit[l] + Len(AsSeq(r.ctx[l])) + Len(link[l].ctrl)
                        + IF r.cseen[l] # link[l].ctrlCredit THEN 1 ELSE 0

\* A flow that is announced to a link, or has packets in its SAF stage, on the
\* wire or in the output buffer before it, still holds its reservation there
\* and in the link's group.
TrafficIsReserved ==
  \A l \in Links, k \in Flows :
    LET r == router[Source[l]]
    IN  \/ k \in link[l].expected
        \/ OfFlow(r.ob[l] \o AsSeq(r.tx[l]) \o link[l].saf[k], k) > 0
        => /\ reservation[l][k] = Packets[k]
           /\ GroupOf[l] # None => reservation[GroupOf[l]][k] = Packets[k]

\* A packet that has left the SAF stage of a link has its whole flow with it:
\* the last one of its flow to leave is the tail, unless the flow is whole and
\* still being served.  No flow holds a link while it waits for packets of its
\* own.
FlowsLeaveWhole ==
  \A l \in Links, k \in Flows :
    LET past == PastStage(l)
        ofFlow == {i \in DOMAIN past : past[i].type = "DATA" /\ past[i].flow = k}
    IN  \A i \in ofFlow : (\A j \in ofFlow : j <= i) =>
          past[i].end \/ Contains(link[l].ready, k)

\* The lock of an output counts exactly the flows that have begun and not
\* finished to pass it; they all have the tag of the lock.  Packets of
\* different tags never interleave at an output, and no lock is left behind.
LocksMatchFlows ==
  \A r \in Routers : \A o \in OutPorts(r) :
    LET passing == {k \in Through(r, o) : Passed(k, r, o) % Packets[k] # 0}
    IN  /\ router[r].ref[o] = Cardinality(passing)
        /\ router[r].lock[o] = None <=> passing = {}
        /\ \A k \in passing : router[r].lock[o] = k.tag

\* The flits of a memory access are neither lost nor doubled on their way
\* through routers, links and the HBM bridge, which takes the last flit of a
\* request back when its queue is full: there is one whole request or one
\* whole response.
MemFlitsConserved ==
  \A c \in Routers :
    LET waiting == Contains(memory.completed, c) \/ (memory.active = c /\ ~memory.served)
        req == Len(router[c].req) + Requests(c) + memory.partial[c]
                 + IF waiting THEN ReqFlits ELSE 0
        rsp == core[c].response + Responses(c)
                 + IF memory.active = c THEN Len(router[MemTile].rsp) ELSE 0
    IN  IF core[c].phase = "mem"
        THEN <<req, rsp>> \in {<<ReqFlits, 0>>, <<0, RspFlits>>}
        ELSE req = 0 /\ Responses(c) = 0

\* Everything is back to its initial state: no reservation, no lock, all
\* credits, nothing in a buffer.
Drained ==
  /\ \A c \in Routers : /\ core[c].phase = "idle" /\ core[c].prog = <<>>
                        /\ \A b \in {"REQUEST", "ACK", "DATA"} : core[c][b] = <<>>
  /\ \A k \in Flows : got[k] % Packets[k] = 0
  /\ \A b \in Books : reserved[b] = 0
  /\ \A l \in Links : /\ SafOccupancy(link[l]) = 0
                      /\ PastStage(l) = <<>> /\ link[l].ctrl = <<>>
                      /\ router[Source[l]].credit[l] = SafDepth
                      /\ router[Source[l]].ccredit[l] = CtrlDepth
  /\ \A r \in Routers :
       /\ \A p \in InPorts(r) : router[r].ib[p] = <<>> /\ router[r].cib[p] = <<>>
       /\ \A p \in OutPorts(r) : /\ router[r].ob[p] = <<>>
                                 /\ router[r].cob[p] = <<>>
                                 /\ router[r].lock[p] = None

\* Unless a reservation is rejected, every transfer and every access ends, and
\* at the end credits, reservations and what routers and links hold are back
\* to zero.
EverythingDrains == <>(halted \/ Drained)

\* A memory access that a core has begun comes to its end, whatever else shares
\* the buffers with its flits.  It does not: InjectMemRequestFlit() waits for
\* mem_data_space_event, which router_execute() notifies only when a memory flit
\* leaves the buffer.  A request that starts to wait behind DATA sleeps on.
AccessesEnd ==
  \A c \in Routers : core[c].phase = "mem" ~> (halted \/ core[c].phase # "mem")
=============================================================================
