------------------------------- MODULE D2DLink -------------------------------
(***************************************************************************)
(* A directed die-to-die link in its production mode (forward_bounded_saf()*)
(* in llm/src/die/d2d_link.cpp) and the arbiter of a link group            *)
(* (V5LinkGroupGrant() in llm/src/die/port_config.cpp).                    *)
(*                                                                         *)
(* DATA packets gather in the store-and-forward (SAF) stage until the flow *)
(* is whole, then pass the rate-limited physical link (inflight, latency)  *)
(* and the finite receive stage to the next router.  REQUEST and ACK use a *)
(* control channel of their own; a REQUEST announces a flow to the stage.  *)
(* Memory flits pass the stage without a reservation and ahead of DATA.    *)
(*                                                                         *)
(* LinkStep is the handler, one call per cycle.  It reads the registered   *)
(* signals of its neighbours, given as parameters, and yields the next     *)
(* record of the link, whose fields out, cout, dataCredit and ctrlCredit   *)
(* are the signals it drives.                                              *)
(***************************************************************************)
EXTENDS SafLedger, SequencesExt

CONSTANTS
  Latency,     \* cycles on the physical link
  DataDepth,   \* packets on the physical link
  RxDepth,     \* packets in the receive stage
  CtrlDepth,   \* packets in the control FIFO
  PortRate,    \* port_rate and link_rate: packets (num) per cycles (den)
  LinkRate,
  LinkOrder    \* the links by index

ASSUME LinkAssumption ==
  /\ {Latency, DataDepth, RxDepth, CtrlDepth} \subseteq Nat \ {0}
  /\ \A rate \in {PortRate, LinkRate} :
       \A l \in Links : rate[l].den \in Nat /\ rate[l].num \in 1..rate[l].den
  /\ Links = {LinkOrder[i] : i \in DOMAIN LinkOrder}

VARIABLES
  link,      \* the D2DLinkUnit of every link
  pending,   \* pending of every group's arbiter: links that asked last cycle
  winner     \* last_winner, as an index of LinkOrder; 0 before the first

linkVars == <<link, pending, winner>>

\* Flits.  A DATA packet has its flow, its number and is_end_; REQUEST and ACK
\* have their flow; a memory flit has its source core.
Data(k, n) == [type |-> "DATA", flow |-> k, seq |-> n, end |-> n = Packets[k]]
Request(k) == [type |-> "REQUEST", flow |-> k]
Ack(k) == [type |-> "ACK", flow |-> k]
MemRequest(c) == [type |-> "MEMREQ", core |-> c]
MemResponse(c) == [type |-> "MEMRSP", core |-> c]

IsMem(f) == f.type \in {"MEMREQ", "MEMRSP"}

LinkInit ==
  /\ link = [l \in Links |->
       [saf |-> [k \in Flows |-> <<>>],   \* saf_flows_: packets of each flow
        expected |-> {},                  \* saf_expected_
        ready |-> <<>>,                   \* saf_ready_: flows that are whole
        mem |-> <<>>,                     \* mem_saf_fifo_
        inflight |-> <<>>,                \* fifo_
        rx |-> <<>>,                      \* rx_fifo_
        ctrl |-> <<>>,                    \* cfifo_
        portTokens |-> 0, tokens |-> 0,
        out |-> None, cout |-> None,
        dataCredit |-> FALSE, ctrlCredit |-> FALSE,
        leaves |-> None, faults |-> {}]]
  /\ pending = [g \in Groups |-> {}]
  /\ winner = [g \in Groups |-> 0]

FaultIf(condition, name) == IF condition THEN {name} ELSE {}

SafOccupancy(s) == Len(s.mem) + SumFunction([k \in Flows |-> Len(s.saf[k])])

\* Time passes for the packets on the link; one with no cycles left is mature.
Older(q) == [i \in DOMAIN q |-> [q[i] EXCEPT !.due = IF @ = 0 THEN 0 ELSE @ - 1]]
Mature(q) == q # <<>> /\ Head(q).due = 0

Index(l) == CHOOSE i \in DOMAIN LinkOrder : LinkOrder[i] = l

\* V5LinkGroupGrant() grants, in turn, a link that asked in the last cycle.
Granted(g) ==
  LET asked == {Index(l) : l \in pending[g]}
      later == {i \in asked : i > winner[g]}
  IN  CASE asked = {} -> None
        [] asked # {} /\ later # {} -> LinkOrder[Min(later)]
        [] OTHER -> LinkOrder[Min(asked)]
-----------------------------------------------------------------------------
(* The stages of forward_bounded_saf(), in the order of the code.          *)

\* Token buckets and time; no signal is driven yet.
Refill(l) ==
  [link[l] EXCEPT !.portTokens = @ + PortRate[l].num,
                  !.tokens = @ + LinkRate[l].num,
                  !.inflight = Older(@), !.ctrl = Older(@),
                  !.out = None, !.cout = None, !.leaves = None]

\* 1. The receive stage offers its first packet to the next router.
Deliver(s, avail) ==
  IF s.rx # <<>> /\ avail
  THEN [s EXCEPT !.out = Head(s.rx), !.rx = Tail(@)]
  ELSE s

\* 2. A packet that has passed the physical link enters the receive stage.
Arrive(s) ==
  IF Mature(s.inflight) /\ Len(s.rx) < RxDepth
  THEN [s EXCEPT !.rx = Append(@, Head(s.inflight).flit),
                 !.inflight = Tail(@)]
  ELSE s

\* group_request: there is something to send, and tokens and room for it.
Asks(l, s) ==
  /\ s.mem # <<>> \/ s.ready # <<>>
  /\ s.portTokens >= PortRate[l].den
  /\ s.tokens >= LinkRate[l].den
  /\ Len(s.inflight) < DataDepth

Sends(l, s) == Asks(l, s) /\ (GroupOf[l] = None \/ Granted(GroupOf[l]) = l)

\* Bug: the credit is returned only with the last packet of a flow.
SpendTailCredit(l, s, flit) ==
  [s EXCEPT !.inflight = Append(@, [due |-> Latency, flit |-> flit]),
            !.portTokens = @ - PortRate[l].den,
            !.tokens = @ - LinkRate[l].den,
            !.dataCredit = IF IsMem(flit) \/ flit.end THEN ~@ ELSE @]

\* A packet enters the physical link; the SAF stage has one slot more.
Spend(l, s, flit) ==
  [s EXCEPT !.inflight = Append(@, [due |-> Latency, flit |-> flit]),
            !.portTokens = @ - PortRate[l].den,
            !.tokens = @ - LinkRate[l].den,
            !.dataCredit = ~@]

\* 3. One packet leaves the SAF stage: a memory flit before DATA of the first
\* whole flow.  It returns one credit.  The last packet of a flow gives the
\* reservation back (leaves).
Serve(l, s) ==
  LET k == Head(s.ready)
      t == [Spend(l, s, Head(s.saf[k])) EXCEPT !.saf[k] = Tail(@)]
  IN  CASE ~Sends(l, s) -> s
        [] Sends(l, s) /\ s.mem # <<>> ->
             [Spend(l, s, Head(s.mem)) EXCEPT !.mem = Tail(@)]
        [] Sends(l, s) /\ s.mem = <<>> /\ s.saf[k] = <<>> ->
             [s EXCEPT !.faults = @ \cup {"ready queue mismatch"}]
        [] OTHER ->
             IF t.saf[k] # <<>> THEN t
             ELSE [t EXCEPT !.ready = Tail(@), !.expected = @ \ {k},
                            !.leaves = k,
                            !.faults = @ \cup
                              FaultIf(ReleaseFault(l, k, Packets[k]), "release")]

Saturate(l, s) ==
  [s EXCEPT !.portTokens = Min({@, PortRate[l].den}),
            !.tokens = Min({@, LinkRate[l].den})]

\* 4. The control channel: one packet out, which returns one control credit,
\* and one in; a REQUEST announces its flow.
CtrlOut(s, avail) ==
  IF Mature(s.ctrl) /\ avail
  THEN [s EXCEPT !.cout = Head(s.ctrl).flit, !.ctrl = Tail(@),
                 !.ctrlCredit = ~@]
  ELSE s

CtrlIn(s, f) ==
  CASE f = None -> s
    [] f # None /\ Len(s.ctrl) >= CtrlDepth ->
         [s EXCEPT !.faults = @ \cup {"control overflow"}]
    [] OTHER ->
         LET t == [s EXCEPT !.ctrl =
                     Append(@, [due |-> Latency, flit |-> f])]
         IN  IF f.type # "REQUEST" THEN t
             ELSE [t EXCEPT !.expected = @ \cup {f.flow},
                            !.faults = @ \cup
                              FaultIf(f.flow \in s.expected \/ s.saf[f.flow] # <<>>,
                                      "duplicate REQUEST")]

\* The reasons for which DATA may not enter the SAF stage.
CaptureFaults(s, f) ==
  LET n == Len(s.saf[f.flow]) + 1
      wrongTail == n # Packets[f.flow] \/ f.seq # n
  IN  FaultIf(f.flow \notin s.expected, "DATA before REQUEST")
        \cup FaultIf(Contains(s.ready, f.flow), "DATA after tail")
        \cup FaultIf(n > Packets[f.flow], "packet count")
        \cup FaultIf(f.end /\ wrongTail, "tail does not match REQUEST")

\* Bug: the flow may leave with its first packet (cut-through).
CaptureCutThrough(s, f) ==
  CASE f = None -> s
    [] f # None /\ IsMem(f) -> [s EXCEPT !.mem = Append(@, f)]
    [] OTHER ->
         [s EXCEPT !.saf[f.flow] = Append(@, f),
                   !.ready = IF f.seq = 1 THEN Append(@, f.flow) ELSE @]

\* 5. A packet from the router enters the SAF stage; a flow with its tail is
\* whole.
Capture(s, f) ==
  CASE f = None -> s
    [] f # None /\ SafOccupancy(s) >= SafDepth ->
         [s EXCEPT !.faults = @ \cup {"SAF overflow"}]
    [] f # None /\ SafOccupancy(s) < SafDepth /\ IsMem(f) ->
         [s EXCEPT !.mem = Append(@, f)]
    [] OTHER ->
         [s EXCEPT !.saf[f.flow] = Append(@, f),
                   !.ready = IF f.end THEN Append(@, f.flow) ELSE @,
                   !.faults = @ \cup CaptureFaults(s, f)]

\* Stages 1 and 2 decide whether the link asks its group for the next cycle.
Offered(l, avail) == Arrive(Deliver(Refill(l), avail))

\* forward_bounded_saf(): data and ctrl are what the router has put on the wire,
\* avail and cavail whether the next router has room.
LinkStep(l, data, ctrl, avail, cavail) ==
  Capture(CtrlIn(CtrlOut(Saturate(l, Serve(l, Offered(l, avail))), cavail),
                 ctrl), data)

\* The arbiters after a cycle in which the links of set A asked.
ArbiterCycle(A) ==
  /\ pending' = [g \in Groups |-> {l \in A : GroupOf[l] = g}]
  /\ winner' = [g \in Groups |->
                  IF Granted(g) = None THEN winner[g] ELSE Index(Granted(g))]
=============================================================================
