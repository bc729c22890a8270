------------------------------ MODULE Workload ------------------------------
(***************************************************************************)
(* The primitives a core is configured with in dataflow mode: the works of *)
(* its worklist (generate_prims, BuildConfigMessages) and the collective   *)
(* operations it takes part in without support in the network (tier 0: the *)
(* planner of include/dte/coll_plan.h and AppendCollectiveActions).        *)
(*                                                                         *)
(* The planner runs once per rank.  All runs walk through the same list of *)
(* transfers, barriers and reductions, and a rank keeps the entries it     *)
(* takes part in: Script is the list, PlanTier0Collective the rank's part. *)
(* Sizes and offsets of the chunks are left out.                           *)
(***************************************************************************)
EXTENDS Integers, Sequences, SequencesExt

GatherOps == {"GATHER", "ALLGATHER", "ALLTOALL"}
Reductions == {"REDUCE", "REDUCESCATTER", "ALLREDUCE"}

(***************************************************************************)
(* Primitives.  size is the number of packets of a send, the number of     *)
(* senders of a receive, and the reorder depth of a gather arrival.        *)
(* A tag pairs a number with the receiver.                                 *)
(***************************************************************************)
Prim(type, peer, tag, size, stripes) ==
    [type |-> type, peer |-> peer, tag |-> tag, size |-> size, stripes |-> stripes]
Other(type, peer, number) == Prim(type, peer, <<number, "">>, 0, 1)

\* One cast: REQUEST, ACK, DATA.
Sends(dest, tag, packets, stripes) ==
    <<Prim("SEND_REQ", dest, tag, packets, stripes),
      Prim("RECV_ACK", dest, tag, packets, stripes),
      Prim("SEND_DATA", dest, tag, packets, stripes)>>

\* The default tag of a receive is the core itself: it accepts any tag.
OwnTag(c) == <<-1, c>>
Recv(type, tag, senders, stripes) == Prim(type, "", tag, senders, stripes)

\* A work of one receive, its computation, and its casts or the final DONE.
GeneratePrims(recv, casts, isEnd) ==
    <<recv, Other("COMP", "", 0)>>
      \o (IF isEnd THEN <<Other("SEND_DONE", "", 0)>> ELSE FlattenSeq(casts))

\* The worklist once per pipeline round, each time after a Set_batch.
BuildConfigMessages(works, pipeline) ==
    FlattenSeq([j \in 1..pipeline |-> <<Other("SET", "", 0)>> \o FlattenSeq(works)])

(***************************************************************************)
(* Collectives.                                                            *)
(***************************************************************************)
Pair(phase, src, dst) == [kind |-> "PAIR", phase |-> phase, src |-> src, dst |-> dst]
Barrier(phase) == [kind |-> "BARRIER", phase |-> phase, src |-> 0, dst |-> 0]
Reduction(phase, root) ==
    [kind |-> "REDUCE_COMPUTE", phase |-> phase, src |-> root, dst |-> root]

\* The entries of all ranks, for n ranks 0..n-1.
Script(op, n, root) ==
    LET ForRanks(Entries(_)) == FlattenSeq([i \in 1..n |-> Entries(i - 1)])
        Fan(phase, src) ==
            ForRanks(LAMBDA dst : IF dst = src THEN <<>> ELSE <<Pair(phase, src, dst)>>)
                \o <<Barrier(phase)>>
        ToRoot(src) ==
            (IF src = root THEN <<>> ELSE <<Pair(src, src, root)>>) \o <<Barrier(src)>>
    IN  CASE op = "P2P" -> <<Pair(0, 0, 1), Barrier(0)>>
          [] op \in {"BROADCAST", "SCATTER"} -> Fan(0, root)
          [] op = "GATHER" -> ForRanks(ToRoot)
          [] op \in {"ALLGATHER", "ALLTOALL"} -> ForRanks(LAMBDA src : Fan(src, src))
          [] op \in Reductions ->
                ForRanks(ToRoot) \o <<Reduction(n, root), Barrier(n)>>
                  \o (IF op = "REDUCE" THEN <<>> ELSE Fan(n + 1, root))

PlanTier0Collective(op, n, root, self) ==
    SelectSeq(Script(op, n, root),
              LAMBDA e : e.kind = "BARRIER" \/ self \in {e.src, e.dst})

(***************************************************************************)
(* The primitives of one rank; group lists the cores of the ranks, depth   *)
(* is gather_reorder_depth (0: no reorder buffer), packets the length of a *)
(* chunk.  The root of a terminal collective reports DONE.                 *)
(* CollectiveFlowTag hashes the phase and the receiver; the configuration  *)
(* refuses two flows to one receiver with one tag.                         *)
(***************************************************************************)
CollectiveFlowTag(group, phase, rank) == <<phase, group[rank + 1]>>

AppendCollectiveActions(op, group, root, depth, packets, self) ==
    LET n == Len(group)
        Peer(rank) == group[rank + 1]
        Of(e) ==
            CASE e.kind = "PAIR" /\ e.src = self ->
                   Sends(Peer(e.dst), CollectiveFlowTag(group, e.phase, e.dst), packets, 1)
              [] e.kind = "PAIR" /\ e.dst = self ->
                   <<Prim("RECV_DATA", Peer(e.src),
                          CollectiveFlowTag(group, e.phase, self), 1, 1)>>
                   \o (IF depth # 0 /\ op \in GatherOps
                       THEN <<Prim("GATHER_ARRIVAL", Peer(e.src), <<e.phase, "">>, depth, 1)>>
                       ELSE <<>>)
                   \o (IF op \in Reductions /\ e.phase < n
                       THEN <<Other("REDUCE_ARRIVAL", Peer(e.src), e.phase)>>
                       ELSE <<>>)
              [] OTHER -> <<Other(e.kind, Peer(self), e.phase)>>
        plan == PlanTier0Collective(op, n, root, self)
    IN  FlattenSeq([i \in DOMAIN plan |-> Of(plan[i])])
          \o (IF self = root THEN <<Other("SEND_DONE", "", 0)>> ELSE <<>>)
=============================================================================
