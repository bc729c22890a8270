------------------------------- MODULE Router -------------------------------
(***************************************************************************)
(* The router of a tile (router_execute() in llm/src/router/router.cpp).   *)
(*                                                                         *)
(* A router has an input and an output buffer for each neighbour and for   *)
(* its own core (Center), once for the data and once for the control       *)
(* channel.  An output is locked by the tag of the flow that passes it;    *)
(* flows of the same tag share the lock, which counts them.  Towards a     *)
(* die-to-die link the router spends credits, which come back as toggled   *)
(* bits; towards a neighbour on the die it reads whether there is room,    *)
(* towards its core whether the core is busy.                              *)
(*                                                                         *)
(* RouterPass is one pass of the handler.  It reads the registered signals *)
(* of the neighbours and yields the next record of the router, whose fields*)
(* tx, ctx, avail and cavail are the signals it drives.                    *)
(***************************************************************************)
EXTENDS D2DLink

CONSTANTS
  Routers,    \* tiles; a tile is named like its core
  Edges,      \* directed connections between routers
  Source,     \* the router an edge leaves
  Target,     \* the router it enters
  Center,     \* the port of the tile's core
  InOrder,    \* the input of every router from each direction, or None
  NextHop,    \* the output towards a destination: XY routing, pinned exits
  MemTile,    \* the tile with the HBM channel (AttachmentRouter())
  BufDepth    \* MAX_BUFFER_PACKET_SIZE

\* DIRECTIONS: west, east, north, south, and the core.
Directions == 5

ASSUME RouterAssumption ==
  /\ Links \subseteq Edges
  /\ Source \in [Edges -> Routers] /\ Target \in [Edges -> Routers]
  /\ Center \notin Edges
  /\ \A r \in Routers :
       /\ InOrder[r] \in [1..Directions -> Edges \cup {Center, None}]
       /\ {InOrder[r][i] : i \in 1..Directions} \ {None} =
            {e \in Edges : Target[e] = r} \cup {Center}
  /\ MemTile \in Routers
  /\ BufDepth \in Nat \ {0}

\* What passes the data and the control channel.
DataFlits == [type : {"DATA"}, flow : Flows, seq : Nat, end : BOOLEAN]
               \cup [type : {"MEMREQ"}, core : Routers]
CtrlFlits == [type : {"REQUEST", "ACK"}, flow : Flows]
               \cup [type : {"MEMRSP"}, core : Routers]

ASSUME FlitAssumption == None \notin DataFlits \cup CtrlFlits

VARIABLE router   \* the RouterUnit of every tile

InPorts(r) == {e \in Edges : Target[e] = r} \cup {Center}
OutEdges(r) == {e \in Edges : Source[e] = r}
OutPorts(r) == OutEdges(r) \cup {Center}
LinkOuts(r) == OutEdges(r) \cap Links

\* EnableD2DDataCredit(), EnableD2DCtrlCredit() and end_of_elaboration().
RouterInit ==
  router = [r \in Routers |->
    [ib |-> [p \in InPorts(r) |-> <<>>],    \* buffer_i
     ob |-> [p \in OutPorts(r) |-> <<>>],   \* buffer_o
     cib |-> [p \in InPorts(r) |-> <<>>],   \* ctrl_buffer_i
     cob |-> [p \in OutPorts(r) |-> <<>>],  \* ctrl_buffer_o
     lock |-> [p \in OutPorts(r) |-> None],
     ref |-> [p \in OutPorts(r) |-> 0],
     credit |-> [l \in LinkOuts(r) |-> SafDepth],
     ccredit |-> [l \in LinkOuts(r) |-> CtrlDepth],
     seen |-> [l \in LinkOuts(r) |-> FALSE],
     cseen |-> [l \in LinkOuts(r) |-> FALSE],
     first |-> 1,                           \* collective_rr_start
     req |-> <<>>,       \* flits that wait in InjectMemRequestFlit()
     rsp |-> <<>>,       \* flits that wait in InjectMemResponseFlit()
     tx |-> [p \in OutPorts(r) |-> None],
     ctx |-> [p \in OutPorts(r) |-> None],
     avail |-> [p \in InPorts(r) |-> TRUE],
     cavail |-> [p \in InPorts(r) |-> TRUE],
     faults |-> {}]]

\* ControlMsgNextHop(), DataMsgNextHop() and MemFlitNextHop().
Destination(f) == CASE f.type \in {"DATA", "REQUEST"} -> f.flow.dst
                    [] f.type = "ACK" -> f.flow.src
                    [] f.type = "MEMREQ" -> MemTile
                    [] f.type = "MEMRSP" -> f.core

Subflow(f) == CASE f.type = "MEMREQ" -> 2
                [] f.type = "MEMRSP" -> 3
                [] OTHER -> f.flow.sub

OutPort(r, f) == IF Destination(f) = r THEN Center
                 ELSE NextHop[r, Destination(f), Subflow(f)]

\* The edges a flow passes, and those of them that are links between dies.
Route ==
  [k \in Flows |->
     LET from[r \in Routers] ==
           IF r = k.dst THEN <<>>
           ELSE LET e == NextHop[r, k.dst, k.sub] IN <<e>> \o from[Target[e]]
     IN  from[k.src]]
WholeFlowSafPath(k) == SelectSeq(Route[k], LAMBDA e : e \in Links)

ASSUME PathAssumption == \A k \in Flows : Path[k] = WholeFlowSafPath(k)

\* Bug: off by one.
RoomForOneMore(q) == Len(q) <= BufDepth

RoomFor(q) == Len(q) < BufDepth
-----------------------------------------------------------------------------
(* The stages of a pass, in the order of the code.                         *)

\* A toggled bit returns one credit.
ReturnCredits(s) ==
  LET data == {l \in DOMAIN s.seen : link[l].dataCredit # s.seen[l]}
      ctrl == {l \in DOMAIN s.seen : link[l].ctrlCredit # s.cseen[l]}
  IN  [s EXCEPT
        !.credit = [l \in DOMAIN @ |-> IF l \in data THEN @[l] + 1 ELSE @[l]],
        !.ccredit = [l \in DOMAIN @ |-> IF l \in ctrl THEN @[l] + 1 ELSE @[l]],
        !.seen = [l \in DOMAIN @ |-> link[l].dataCredit],
        !.cseen = [l \in DOMAIN @ |-> link[l].ctrlCredit],
        !.faults = @ \cup
          FaultIf(\E l \in data : s.credit[l] >= SafDepth, "credit overflow")
          \cup FaultIf(\E l \in ctrl : s.ccredit[l] >= CtrlDepth,
                       "control credit overflow")]

\* What is on the wires enters the input buffers.
TakeInputs(s, data, ctrl) ==
  LET taken(q, f) == IF f = None THEN q ELSE Append(q, f)
  IN  [s EXCEPT !.ib = [p \in DOMAIN @ |-> taken(@[p], data[p])],
                !.cib = [p \in DOMAIN @ |-> taken(@[p], ctrl[p])]]

\* Bug: the reservation is trusted and credits are not looked at.
SendingUnchecked(s, room) ==
  {e \in DOMAIN s.ob \ {Center} : s.ob[e] # <<>> /\ (e \in Links \/ room[e])}

\* The outputs that send their first packet: towards a link while there is a
\* credit, towards a neighbour while it has room.
Sending(s, room) ==
  {e \in DOMAIN s.ob \ {Center} :
     /\ s.ob[e] # <<>>
     /\ IF e \in Links THEN s.credit[e] > 0 ELSE room[e]}
CtrlSending(s, room) ==
  {e \in DOMAIN s.cob \ {Center} :
     /\ s.cob[e] # <<>>
     /\ IF e \in Links THEN s.ccredit[e] > 0 ELSE room[e]}

\* A memory flit for this tile is taken by the HBM bridge, everything else goes
\* to the core unless it has signalled that its buffers are full.
ToCore(q, busy) == IF q # <<>> /\ ~IsMem(Head(q)) /\ ~busy THEN {Center} ELSE {}

\* memTaken: the HBM bridge takes the memory request at the head; busy and cbusy:
\* core_busy_i and ctrl_core_busy_i.
SendOutputs(s, room, croom, memTaken, busy, cbusy) ==
  LET out == Sending(s, room) \cup ToCore(s.ob[Center], busy)
      cout == CtrlSending(s, croom) \cup ToCore(s.cob[Center], cbusy)
      gone == out \cup (IF memTaken THEN {Center} ELSE {})
      response == s.cob[Center] # <<>> /\ IsMem(Head(s.cob[Center]))
      cgone == cout \cup (IF response THEN {Center} ELSE {})
  IN  [s EXCEPT
        !.tx = [p \in DOMAIN @ |-> IF p \in out THEN Head(s.ob[p]) ELSE None],
        !.ctx = [p \in DOMAIN @ |-> IF p \in cout THEN Head(s.cob[p]) ELSE None],
        !.ob = [p \in DOMAIN @ |-> IF p \in gone THEN Tail(@[p]) ELSE @[p]],
        !.cob = [p \in DOMAIN @ |-> IF p \in cgone THEN Tail(@[p]) ELSE @[p]],
        !.credit = [l \in DOMAIN @ |-> IF l \in out THEN @[l] - 1 ELSE @[l]],
        !.ccredit = [l \in DOMAIN @ |-> IF l \in cout THEN @[l] - 1 ELSE @[l]]]

\* The control channel has no locks.
RouteCtrl(r, s, p) ==
  IF p = None \/ s.cib[p] = <<>> THEN s
  ELSE LET f == Head(s.cib[p])
           o == OutPort(r, f)
       IN  IF RoomFor(s.cob[o])
           THEN [s EXCEPT !.cib[p] = Tail(@), !.cob[o] = Append(@, f)]
           ELSE s

Move(s, p, o) ==
  [s EXCEPT !.ib[p] = Tail(@), !.ob[o] = Append(@, Head(s.ib[p]))]

\* Bug: the lock is given up with every tail.
LockAfterUnlocking(s, o, f) ==
  LET n == s.ref[o] + (IF f.seq = 1 THEN 1 ELSE 0) - (IF f.end THEN 1 ELSE 0)
  IN  [s EXCEPT !.ref[o] = n,
                !.lock[o] = IF f.end THEN None
                            ELSE IF f.seq = 1 THEN f.flow.tag ELSE @]

\* The first packet of a flow takes the lock or joins it, the last one leaves
\* it; the lock is free when nobody is left.
LockAfter(s, o, f) ==
  LET n == s.ref[o] + (IF f.seq = 1 THEN 1 ELSE 0) - (IF f.end THEN 1 ELSE 0)
  IN  [s EXCEPT !.ref[o] = n,
                !.lock[o] = IF f.end /\ n = 0 THEN None
                            ELSE IF f.seq = 1 THEN f.flow.tag ELSE @,
                !.faults = @ \cup FaultIf(n < 0, "lock reference below zero")]

\* A packet of another tag than the lock's waits; a memory flit does not look at
\* locks and moves the first turn behind its input.
RouteData(r, s, i) ==
  LET p == InOrder[r][i]
      f == Head(s.ib[p])
      o == OutPort(r, f)
  IN  IF p = None \/ s.ib[p] = <<>> \/ ~RoomFor(s.ob[o]) THEN s
      ELSE CASE IsMem(f) -> [Move(s, p, o) EXCEPT !.first = (i % Directions) + 1]
             [] ~IsMem(f) /\ s.lock[o] \notin {None, f.flow.tag} -> s
             [] OTHER -> LockAfter(Move(s, p, o), o, f)

\* Round i of a pass.  collective_rr_start is read in each round, and a memory flit
\* moves it while the rounds count on: the input after the next one follows, and
\* others are passed over or served twice.
RouteRound(r, s, i) == RouteData(r, s, ((s.first - 1 + i - 1) % Directions) + 1)

RouteInputs(r, s) ==
  LET ctrl[i \in 0..Directions] ==
        IF i = 0 THEN s ELSE RouteCtrl(r, ctrl[i-1], InOrder[r][i])
      data[i \in 0..Directions] ==
        IF i = 0 THEN ctrl[Directions]
        ELSE RouteRound(r, data[i-1], i)
  IN  data[Directions]

\* Whether there is room is told to the neighbours.
Advertise(s) ==
  [s EXCEPT !.avail = [p \in DOMAIN @ |-> RoomFor(s.ib[p])],
            !.cavail = [p \in DOMAIN @ |-> RoomFor(s.cib[p])]]

\* How many of the flits w fit into the buffer q.
Entering(q, w) == Min({Len(w), Max({0, BufDepth - Len(q)})})

\* InjectMemRequestFlit() and InjectMemResponseFlit(): flits enter the buffer of
\* the core's port while there is room.
InjectRequests(s) ==
  LET n == Entering(s.ib[Center], s.req)
  IN  [s EXCEPT !.ib[Center] = @ \o SubSeq(s.req, 1, n),
                !.req = SubSeq(@, n + 1, Len(@))]
InjectResponses(s) ==
  LET n == Entering(s.cib[Center], s.rsp)
  IN  [s EXCEPT !.cib[Center] = @ \o SubSeq(s.rsp, 1, n),
                !.rsp = SubSeq(@, n + 1, Len(@))]

MemCount(q) == Len(SelectSeq(q, IsMem))

\* Bug: nobody notifies mem_data_space_event.
WakeResponses(s, before) ==
  IF MemCount(s.cib[Center]) < MemCount(before.cib[Center])
  THEN InjectResponses(s) ELSE s

\* mem_data_space_event and mem_ctrl_space_event wake them only after a pass in
\* which a memory flit left the buffer.
WakeInjectors(s, before) ==
  LET t == IF MemCount(s.ib[Center]) < MemCount(before.ib[Center])
           THEN InjectRequests(s) ELSE s
  IN  IF MemCount(s.cib[Center]) < MemCount(before.cib[Center])
      THEN InjectResponses(t) ELSE t

\* router_execute() of a tile without a host port: data and ctrl are what its
\* neighbours have put on the wires, room and croom what they advertise, busy and
\* cbusy what the core signals.
RouterPass(r, data, ctrl, room, croom, memTaken, busy, cbusy) ==
  WakeInjectors(
    Advertise(RouteInputs(r,
      SendOutputs(TakeInputs(ReturnCredits(router[r]), data, ctrl),
                  room, croom, memTaken, busy, cbusy))), router[r])
=============================================================================
