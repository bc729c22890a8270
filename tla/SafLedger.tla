------------------------------ MODULE SafLedger ------------------------------
(***************************************************************************)
(* The whole-flow store-and-forward reservations (llm/src/die/             *)
(* port_config.cpp, WholeFlowSafAdmission in llm/include/common/flow.h).   *)
(*                                                                         *)
(* Before a sender injects a REQUEST it reserves, on every directed link   *)
(* of its path, room for all packets of the flow, and the same room in the *)
(* link group of each link.  There is one book per link and one per group. *)
(* A link gives its part back when the flow's last packet has left its     *)
(* store-and-forward stage.                                                *)
(***************************************************************************)
EXTENDS Integers, Sequences, FiniteSets, FiniteSetsExt, Functions

CONSTANTS
  Links,      \* directed die-to-die links (g_d2d_links)
  Groups,     \* SafGroupKeys: local die, remote die, link_group
  GroupOf,    \* GroupKeyForLink(), or None for a link without a group
  None,
  Flows,      \* FlowKeys: source, tag and subflow
  Packets,    \* packets of every flow
  Path,       \* WholeFlowSafPath(): the links of every flow, in order
  SafDepth    \* saf_buffer_depth

ASSUME LedgerAssumption ==
  /\ IsFiniteSet(Links) /\ IsFiniteSet(Groups) /\ IsFiniteSet(Flows)
  /\ Links \cap Groups = {}
  /\ None \notin Links \cup Groups
  /\ GroupOf \in [Links -> Groups \cup {None}]
  /\ Packets \in [Flows -> Nat \ {0}]
  /\ Path \in [Flows -> Seq(Links)]
  /\ SafDepth \in Nat \ {0}

VARIABLES
  reserved,     \* reserved_ of every book
  reservation,  \* reservations_ of every book: packets per flow, 0 for none
  flowLinks,    \* g_saf_flow_links: links a flow still holds, {} for no entry
  flowGroups    \* g_saf_flow_groups

ledgerVars == <<reserved, reservation, flowLinks, flowGroups>>

Books == Links \cup Groups

\* ResetWholeFlowSafRuntime().
LedgerInit ==
  /\ reserved = [b \in Books |-> 0]
  /\ reservation = [b \in Books |-> [k \in Flows |-> 0]]
  /\ flowLinks = [k \in Flows |-> {}]
  /\ flowGroups = [k \in Flows |-> {}]

Available(b) == SafDepth - reserved[b]

LinksOf(k) == {Path[k][i] : i \in DOMAIN Path[k]}
GroupsOf(k) == {GroupOf[l] : l \in LinksOf(k)} \ {None}

\* Bug: only the first link of the path is booked.
BookingsFirst(k, b) ==
  Cardinality({i \in DOMAIN Path[k] \cap {1} : b \in {Path[k][i], GroupOf[Path[k][i]]}})

\* How often the path of a flow books on b.
Bookings(k, b) ==
  Cardinality({i \in DOMAIN Path[k] : b \in {Path[k][i], GroupOf[Path[k][i]]}})

\* link_need and group_need of a set of flows reserved together.
Need(K, b) == SumFunction([k \in K |-> Packets[k] * Bookings(k, b)])

DuplicateFlow(K) == \E k \in K : flowLinks[k] # {}

\* Bug: every flow is held against the room on its own.
FitsAlone(K) ==
  \A k \in K, b \in Books : Need({k}, b) <= Available(b)

\* The checks made before anything is booked.
Fits(K) == \A b \in Books : Need(K, b) <= Available(b)

\* Reserve() of one book refuses a flow it has already: the commit stops, takes
\* back what it has booked and throws.
CommitMismatch(K) ==
  \E k \in K, b \in Books :
    \/ Bookings(k, b) > 1
    \/ Bookings(k, b) = 1 /\ reservation[b][k] # 0

\* ReserveSafPlans() for the subflows K of one transfer, when all its checks
\* pass.
ReserveSafPlans(K) ==
  /\ ~DuplicateFlow(K)
  /\ Fits(K)
  /\ ~CommitMismatch(K)
  /\ reserved' = [b \in Books |-> reserved[b] + Need(K, b)]
  /\ reservation' =
       [b \in Books |-> [k \in Flows |->
          IF k \in K /\ Bookings(k, b) > 0 THEN Packets[k]
                                           ELSE reservation[b][k]]]
  /\ flowLinks' =
       [k \in Flows |-> IF k \in K THEN LinksOf(k) ELSE flowLinks[k]]
  /\ flowGroups' =
       [k \in Flows |-> IF k \in K THEN flowGroups[k] \cup GroupsOf(k)
                                   ELSE flowGroups[k]]

\* ReleaseWholeFlowSafLink() throws: nothing of the flow to release here.
ReleaseFault(l, k, n) ==
  \/ l \notin flowLinks[k]
  \/ reservation[l][k] # n
  \/ /\ GroupOf[l] # None
     /\ \/ GroupOf[l] \notin flowGroups[k]
        \/ reservation[GroupOf[l]][k] # n

\* The flows whose reservation on book b is given back by the releases R, a set
\* of pairs of a link and the flow that leaves it.
ReleasedFrom(R, b) == {r[2] : r \in {q \in R : b \in {q[1], GroupOf[q[1]]}}}

\* ReleaseWholeFlowSafLink() for every link whose flow leaves in this cycle.
ReleaseSafLinks(R) ==
  /\ reserved' =
       [b \in Books |-> reserved[b] -
          SumFunctionOnSet(reservation[b], ReleasedFrom(R, b))]
  /\ reservation' =
       [b \in Books |-> [k \in Flows |->
          IF k \in ReleasedFrom(R, b) THEN 0 ELSE reservation[b][k]]]
  /\ flowLinks' =
       [k \in Flows |-> flowLinks[k] \ {r[1] : r \in {q \in R : q[2] = k}}]
  /\ flowGroups' =
       [k \in Flows |->
          flowGroups[k] \ {GroupOf[r[1]] : r \in {q \in R : q[2] = k}}]
-----------------------------------------------------------------------------
\* A book is the sum of its reservations and never holds more than the stage
\* has room for; a flow holds a link or a group in g_saf_flow_links and
\* g_saf_flow_groups exactly as long as the book has its packets.
LedgerBalanced ==
  /\ \A b \in Books :
       /\ reserved[b] = SumFunctionOnSet(reservation[b], Flows)
       /\ reserved[b] \in 0..SafDepth
  /\ \A k \in Flows :
       /\ flowLinks[k] = {l \in Links : reservation[l][k] # 0}
       /\ flowGroups[k] = {g \in Groups : reservation[g][k] # 0}
=============================================================================
