----------------------------- MODULE MCSendRecv -----------------------------
(***************************************************************************)
(* Three cores: every collective, chains, a join and a fan-out, and a      *)
(* striped flow to a core that is busy with other work.                    *)
(***************************************************************************)
EXTENDS SendRecv

Program(queues, starts, parallel, ends) ==
    [queue |-> [c \in Cores |-> IF c \in DOMAIN queues THEN queues[c] ELSE <<>>],
     starts |-> [c \in Cores |-> IF c \in DOMAIN starts THEN starts[c] ELSE 0],
     parallel |-> parallel, op |-> "NONE", group |-> <<>>, root |-> 0, ends |-> ends]

Ranks == <<"A", "B", "C">>
Collective(op, group, root, depth) ==
    [queue |-> [c \in Cores |->
        IF c \notin ToSet(group) THEN <<>>
        ELSE LET self == (CHOOSE i \in DOMAIN group : group[i] = c) - 1
             IN  BuildConfigMessages(
                   <<AppendCollectiveActions(op, group, root, depth, 2, self)>>, 1)],
     starts |-> [c \in Cores |-> 0], parallel |-> FALSE,
     op |-> op, group |-> group, root |-> root, ends |-> 1]

Collectives ==
    {Collective("P2P", <<"A", "B">>, 1, 0)}
      \cup {Collective(op, Ranks, root, 0) :
               op \in {"BROADCAST", "SCATTER"} \cup Reductions, root \in 0..2}
      \cup {Collective(op, Ranks, 2, 0) : op \in GatherOps}
      \cup {Collective(op, Ranks, 0, 1) : op \in GatherOps}

Start(c) == Recv("RECV_START", OwnTag(c), 1, 1)
Data(c, senders, stripes) == Recv("RECV_DATA", OwnTag(c), senders, stripes)
To(c, packets, stripes) == Sends(c, OwnTag(c), packets, stripes)
Source(c, casts) == GeneratePrims(Start(c), casts, FALSE)
Sink(recv) == GeneratePrims(recv, <<>>, TRUE)

\* A to B to C, twice, with flows of so many packets.
Chain(first, second, parallel) ==
    Program([A |-> BuildConfigMessages(<<Source("A", <<To("B", first, 1)>>)>>, 2),
             B |-> BuildConfigMessages(
                     <<GeneratePrims(Data("B", 1, 1), <<To("C", second, 1)>>, FALSE)>>, 2),
             C |-> BuildConfigMessages(<<Sink(Data("C", 1, 1))>>, 2)],
            [A |-> 2], parallel, 2)

\* A and B to C, which waits for both.
Join ==
    Program([A |-> BuildConfigMessages(<<Source("A", <<To("C", 3, 1)>>)>>, 1),
             B |-> BuildConfigMessages(<<Source("B", <<To("C", 2, 1)>>)>>, 1),
             C |-> BuildConfigMessages(<<Sink(Data("C", 2, 1))>>, 1)],
            [A |-> 1, B |-> 1], FALSE, 1)

\* A and B to C under two tags, which C receives in the other order.
InTurn ==
    Program([A |-> BuildConfigMessages(<<Source("A", <<Sends("C", <<1, "C">>, 1, 1)>>)>>, 1),
             B |-> BuildConfigMessages(<<Source("B", <<Sends("C", <<2, "C">>, 1, 1)>>)>>, 1),
             C |-> BuildConfigMessages(
                     <<GeneratePrims(Recv("RECV_DATA", <<2, "C">>, 1, 1), <<>>, FALSE),
                       Sink(Recv("RECV_DATA", <<1, "C">>, 1, 1))>>, 1)],
            [A |-> 1, B |-> 1], FALSE, 1)

\* A to B and C in one batch of the parallel sender; B first computes without input.
FanOut ==
    Program([A |-> BuildConfigMessages(<<Source("A", <<To("B", 2, 1), To("C", 1, 1)>>)>>, 1),
             B |-> BuildConfigMessages(<<GeneratePrims(Data("B", 0, 1), <<>>, FALSE),
                                         Sink(Data("B", 1, 1))>>, 1),
             C |-> BuildConfigMessages(<<Sink(Data("C", 1, 1))>>, 1)],
            [A |-> 1], TRUE, 2)

MCPrograms ==
    Collectives \cup {Chain(3, 2, FALSE), Chain(1, 2, TRUE), Join, InTurn, FanOut}

\* A sends to B in four subflows, one more than the buffer for REQUESTs holds; B
\* has a computation of its own to do first.
Striped ==
    {Program([A |-> BuildConfigMessages(<<Source("A", <<To("B", 4, 4)>>)>>, 1),
              B |-> BuildConfigMessages(<<Source("B", <<>>), Sink(Data("B", 1, 4))>>, 1)],
             [A |-> 1, B |-> 1], FALSE, 1)}
=============================================================================
