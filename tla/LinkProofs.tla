----------------------------- MODULE LinkProofs -----------------------------
(***************************************************************************)
(* A step of a die-to-die link yields a link: types, the bounds of its     *)
(* queues and token buckets, and what each stage does to the occupancy of  *)
(* the store-and-forward stage and to the credit bits, for every latency,  *)
(* depth and rate.  Before it, the books of the whole-flow reservations    *)
(* that the links share: a reservation of any set of flows and a release   *)
(* of any set of links keep LedgerBalanced, for every set of links, groups *)
(* and flows, every path and every depth of the stages.                    *)
(***************************************************************************)
EXTENDS Fabric, RouterProofs

-----------------------------------------------------------------------------
(* The books.                                                              *)

\* The types of the books.
LedgerTypes ==
  /\ reserved \in [Books -> Int]
  /\ reservation \in [Books -> [Flows -> Nat]]
  /\ flowLinks \in [Flows -> SUBSET Links]
  /\ flowGroups \in [Flows -> SUBSET Groups]

\* What both steps keep.
LedgerInv == LedgerTypes /\ LedgerBalanced
-----------------------------------------------------------------------------
\* ResetWholeFlowSafRuntime() leaves empty books.
LEMMA LedgerInitInv == LedgerInit => LedgerInv
<1> SUFFICES ASSUME LedgerInit PROVE LedgerInv
  OBVIOUS
<1> USE DEF LedgerInit
<1>1. LedgerTypes
  BY DEF LedgerTypes
<1>2. ASSUME NEW b \in Books
      PROVE  reserved[b] = SumFunctionOnSet(reservation[b], Flows) /\ reserved[b] = 0
  <2>1. \A k \in Flows : reservation[b][k] = 0
    OBVIOUS
  <2>2. SumFunctionOnSet(reservation[b], Flows) = 0
    BY <2>1, SumZero, LedgerAssumption
  <2> QED BY <2>2
<1>3. ASSUME NEW k \in Flows
      PROVE  /\ flowLinks[k] = {l \in Links : reservation[l][k] # 0}
             /\ flowGroups[k] = {g \in Groups : reservation[g][k] # 0}
  BY DEF Books
<1>4. \A b \in Books : reserved[b] \in 0..SafDepth
  BY <1>2, LedgerAssumption
<1> QED BY <1>1, <1>2, <1>3, <1>4 DEF LedgerInv, LedgerBalanced

\* WholeFlowSafPath() gives links.
LEMMA PathFacts ==
  ASSUME NEW k \in Flows
  PROVE  LinksOf(k) \subseteq Links
<1>1. Path[k] \in Seq(Links)
  BY LedgerAssumption
<1> QED BY <1>1 DEF LinksOf

\* The position of a link or a group on a path.
LEMMA BookingsFacts ==
  ASSUME NEW k \in Flows, NEW b \in Books
  PROVE  /\ Bookings(k, b) \in Nat
         /\ Bookings(k, b) > 0 <=>
              \E l \in LinksOf(k) : b = l \/ b = GroupOf[l]
<1> DEFINE D == DOMAIN Path[k]
           P == {i \in D : b \in {Path[k][i], GroupOf[Path[k][i]]}}
<1>1. Path[k] \in Seq(Links) /\ D = 1..Len(Path[k]) /\ Len(Path[k]) \in Nat
  BY LedgerAssumption
<1>2. IsFiniteSet(D)
  BY <1>1, FS_Interval
<1>3. P \in SUBSET D
  OBVIOUS
<1>4. IsFiniteSet(P)
  BY <1>2, <1>3, FS_Subset
<1>5. Cardinality(P) \in Nat /\ (Cardinality(P) = 0 <=> P = {})
  BY <1>4, FS_CardinalityType, FS_EmptySet
<1>6. Bookings(k, b) = Cardinality(P)
  BY DEF Bookings
<1>7. P # {} <=> \E l \in LinksOf(k) : b = l \/ b = GroupOf[l]
  BY DEF LinksOf
<1> HIDE DEF P
<1> QED BY <1>5, <1>6, <1>7

\* Links and groups are different books, and a link without a group has none.
LEMMA BookFacts ==
  /\ \A l \in Links : l \in Books /\ GroupOf[l] \notin Links
  /\ \A g \in Groups : g \in Books /\ g \notin Links
  /\ \A b \in Books : b # None
BY LedgerAssumption DEF Books

\* ReserveSafPlans() books every packet once on every link and group of the
\* path, and within the room that is left.
LEMMA ReserveInv ==
  ASSUME LedgerInv, NEW K \in SUBSET Flows, ReserveSafPlans(K)
  PROVE  LedgerInv'
<1> USE DEF LedgerInv
<1>1. IsFiniteSet(K) /\ IsFiniteSet(Flows) /\ IsFiniteSet(Flows \ K)
  BY LedgerAssumption, FS_Subset, FS_Difference
<1> DEFINE need(b) == [k \in K |-> Packets[k] * Bookings(k, b)]
<1>2. ASSUME NEW b \in Books
      PROVE  /\ reserved'[b] = reserved[b] + SumFunctionOnSet(need(b), K)
             /\ SumFunctionOnSet(need(b), K) <= SafDepth - reserved[b]
             /\ reservation'[b] \in [Flows -> Nat]
             /\ \A k \in Flows : reservation'[b][k] =
                  IF k \in K /\ Bookings(k, b) > 0 THEN Packets[k] ELSE reservation[b][k]
  <2>1. Need(K, b) = SumFunctionOnSet(need(b), K)
    BY DEF Need, SumFunction
  <2>2. Need(K, b) <= Available(b)
    BY DEF ReserveSafPlans, Fits
  <2>3. reserved'[b] = reserved[b] + Need(K, b)
    BY DEF ReserveSafPlans
  <2>4. \A k \in Flows : reservation'[b][k] =
           IF k \in K /\ Bookings(k, b) > 0 THEN Packets[k] ELSE reservation[b][k]
    BY DEF ReserveSafPlans
  <2>5. reservation'[b] = [k \in Flows |->
           IF k \in K /\ Bookings(k, b) > 0 THEN Packets[k] ELSE reservation[b][k]]
    BY DEF ReserveSafPlans
  <2>6. reservation'[b] \in [Flows -> Nat]
    BY <2>5, LedgerAssumption DEF LedgerTypes
  <2> QED BY <2>1, <2>2, <2>3, <2>4, <2>6 DEF Available
<1>3. ASSUME NEW b \in Books, NEW k \in K
      PROVE  /\ need(b)[k] \in Nat
             /\ reservation[b][k] \in Nat
             /\ reservation'[b][k] = reservation[b][k] + need(b)[k]
  <2>1. Bookings(k, b) \in Nat /\ Packets[k] \in Nat /\ reservation[b][k] \in Nat
    BY BookingsFacts, LedgerAssumption DEF LedgerTypes
  <2>2. Bookings(k, b) \in {0, 1}
        /\ (Bookings(k, b) = 1 => reservation[b][k] = 0)
    BY <2>1 DEF ReserveSafPlans, CommitMismatch
  <2>3. need(b)[k] = Packets[k] * Bookings(k, b)
    OBVIOUS
  <2>4. k \in Flows
    OBVIOUS
  <2> HIDE DEF need
  <2>5. CASE Bookings(k, b) = 0
    <3>1. need(b)[k] = 0
      BY <2>1, <2>3, <2>5
    <3> QED BY <2>1, <2>4, <2>5, <3>1, <1>2
  <2>6. CASE Bookings(k, b) = 1
    <3>1. need(b)[k] = Packets[k]
      BY <2>1, <2>3, <2>6
    <3> QED BY <2>1, <2>2, <2>4, <2>6, <3>1, <1>2
  <2> QED BY <2>2, <2>5, <2>6
<1> HIDE DEF need
<1>4. ASSUME NEW b \in Books
      PROVE  /\ reserved'[b] = SumFunctionOnSet(reservation'[b], Flows)
             /\ reserved'[b] \in 0..SafDepth
  <2> DEFINE f == reservation[b]
             h == reservation'[b]
  <2>1. \A k \in Flows : f[k] \in Nat /\ h[k] \in Nat
    BY <1>2 DEF LedgerTypes
  <2>2. \A k \in Flows \ K : h[k] = f[k]
    BY <1>2
  <2>3. \A k \in K : f[k] \in Int /\ need(b)[k] \in Int /\ h[k] = f[k] + need(b)[k]
    BY <1>3
  <2> HIDE DEF f, h
  <2>4. SumFunctionOnSet(h, K) = SumFunctionOnSet(f, K) + SumFunctionOnSet(need(b), K)
    BY <1>1, <2>3, SumPlus
  <2>5. SumFunctionOnSet(h, Flows \ K) = SumFunctionOnSet(f, Flows \ K)
    BY <1>1, <2>2, SumEqual
  <2>6. /\ SumFunctionOnSet(h, Flows) =
             SumFunctionOnSet(h, K) + SumFunctionOnSet(h, Flows \ K)
        /\ SumFunctionOnSet(f, Flows) =
             SumFunctionOnSet(f, K) + SumFunctionOnSet(f, Flows \ K)
    BY <1>1, <2>1, SumSplit
  <2>7. /\ SumFunctionOnSet(f, K) \in Int /\ SumFunctionOnSet(f, Flows \ K) \in Int
        /\ SumFunctionOnSet(need(b), K) \in Nat
    <3>1. \A k \in K : f[k] \in Int
      BY <2>1
    <3>2. \A k \in Flows \ K : f[k] \in Int
      BY <2>1
    <3>3. \A k \in K : need(b)[k] \in Nat
      BY <1>3
    <3> QED BY <1>1, <3>1, <3>2, <3>3, SumRemove, SumNat
  <2>8. reserved[b] = SumFunctionOnSet(f, Flows) /\ reserved[b] \in 0..SafDepth
    BY DEF LedgerBalanced, f
  <2>9. reserved'[b] = SumFunctionOnSet(h, Flows)
    BY <1>2, <2>4, <2>5, <2>6, <2>7, <2>8
  <2>10. reserved'[b] \in 0..SafDepth
    BY <1>2, <2>7, <2>8, LedgerAssumption
  <2> QED BY <2>9, <2>10 DEF h
<1>5. ASSUME NEW k \in Flows, k \in K
      PROVE  /\ flowLinks'[k] = LinksOf(k)
             /\ flowLinks[k] = {}
             /\ flowGroups'[k] = flowGroups[k] \cup GroupsOf(k)
             /\ Packets[k] # 0 /\ LinksOf(k) \subseteq Links
  <2>1. flowLinks'[k] = LinksOf(k) /\ flowGroups'[k] = flowGroups[k] \cup GroupsOf(k)
    BY <1>5 DEF ReserveSafPlans
  <2>2. flowLinks[k] = {}
    BY <1>5 DEF ReserveSafPlans, DuplicateFlow
  <2> QED BY <2>1, <2>2, PathFacts, LedgerAssumption
<1>6. ASSUME NEW k \in Flows, k \notin K
      PROVE  flowLinks'[k] = flowLinks[k] /\ flowGroups'[k] = flowGroups[k]
  BY <1>6 DEF ReserveSafPlans
<1>7. ASSUME NEW k \in Flows
      PROVE  /\ flowLinks'[k] = {l \in Links : reservation'[l][k] # 0}
             /\ flowGroups'[k] = {g \in Groups : reservation'[g][k] # 0}
  <2>1. CASE k \notin K
    BY <2>1, <1>2, <1>6 DEF LedgerBalanced, Books
  <2>2. CASE k \in K
    <3>1. \A l \in Links : reservation'[l][k] # 0 <=> l \in LinksOf(k)
      <4>1. \A l \in Links : reservation[l][k] = 0
        BY <2>2, <1>5 DEF LedgerBalanced
      <4>2. \A l \in Links : Bookings(k, l) > 0 <=> l \in LinksOf(k)
        BY <2>2, <1>5, BookingsFacts, BookFacts
      <4> QED BY <2>2, <4>1, <4>2, <1>2, <1>5, BookFacts
    <3>2. \A g \in Groups : Bookings(k, g) > 0 <=> g \in GroupsOf(k)
      BY <2>2, <1>5, BookingsFacts, BookFacts DEF GroupsOf
    <3>3. \A g \in Groups : reservation'[g][k] # 0 <=>
                              g \in flowGroups[k] \cup GroupsOf(k)
      BY <2>2, <3>2, <1>2, <1>5, BookFacts DEF LedgerBalanced
    <3>4. GroupsOf(k) \subseteq Groups /\ flowGroups[k] \subseteq Groups
      BY <2>2, <1>5, LedgerAssumption DEF GroupsOf, LedgerTypes
    <3> QED BY <2>2, <3>1, <3>3, <3>4, <1>5
  <2> QED BY <2>1, <2>2
<1>8. LedgerTypes'
  <2>1. reserved' \in [Books -> Int]
    <3>1. \A b \in Books : reserved'[b] \in Int
      BY <1>4
    <3> QED BY <3>1 DEF ReserveSafPlans
  <2>2. reservation' \in [Books -> [Flows -> Nat]]
    BY <1>2 DEF ReserveSafPlans
  <2>3. flowLinks' \in [Flows -> SUBSET Links] /\ flowGroups' \in [Flows -> SUBSET Groups]
    BY <1>7 DEF ReserveSafPlans
  <2> QED BY <2>1, <2>2, <2>3 DEF LedgerTypes
<1> QED BY <1>4, <1>7, <1>8 DEF LedgerBalanced

\* ReleaseWholeFlowSafLink() takes from a book exactly what the flows that
\* leave have in it.
LEMMA ReleaseInv ==
  ASSUME LedgerInv, NEW R \in SUBSET (Links \X Flows), ReleaseSafLinks(R)
  PROVE  LedgerInv'
<1> USE DEF LedgerInv
<1>1. ASSUME NEW b \in Books
      PROVE  /\ ReleasedFrom(R, b) \in SUBSET Flows
             /\ reserved'[b] = reserved[b] - SumFunctionOnSet(reservation[b], ReleasedFrom(R, b))
             /\ reservation'[b] = [k \in Flows |->
                  IF k \in ReleasedFrom(R, b) THEN 0 ELSE reservation[b][k]]
  <2>1. ReleasedFrom(R, b) \in SUBSET Flows
    BY DEF ReleasedFrom
  <2> QED BY <2>1 DEF ReleaseSafLinks
<1>2. ASSUME NEW b \in Books
      PROVE  /\ reserved'[b] = SumFunctionOnSet(reservation'[b], Flows)
             /\ reserved'[b] \in 0..SafDepth
             /\ reservation'[b] \in [Flows -> Nat]
  <2> DEFINE f == reservation[b]
             h == reservation'[b]
             G == ReleasedFrom(R, b)
  <2>1. G \in SUBSET Flows /\ \A k \in G : k \in Flows
    BY <1>1
  <2>2. \A k \in Flows : f[k] \in Nat /\ h[k] \in Nat
    <3>1. \A k \in Flows : f[k] \in Nat
      BY DEF LedgerTypes
    <3>2. \A k \in Flows : h[k] = IF k \in G THEN 0 ELSE f[k]
      BY <1>1
    <3> QED BY <3>1, <3>2
  <2>3. /\ \A k \in G : h[k] = 0
        /\ \A k \in Flows \ G : h[k] = f[k]
    BY <1>1
  <2>4. h \in [Flows -> Nat]
    BY <1>1, <2>2
  <2>5. reserved[b] = SumFunctionOnSet(f, Flows) /\ reserved[b] \in 0..SafDepth
        /\ reserved'[b] = reserved[b] - SumFunctionOnSet(f, G)
    BY <1>1 DEF LedgerBalanced
  <2> HIDE DEF f, h, G
  <2>6. IsFiniteSet(G) /\ IsFiniteSet(Flows) /\ IsFiniteSet(Flows \ G)
    BY <2>1, LedgerAssumption, FS_Subset, FS_Difference
  <2>7. /\ SumFunctionOnSet(h, Flows) =
             SumFunctionOnSet(h, G) + SumFunctionOnSet(h, Flows \ G)
        /\ SumFunctionOnSet(f, Flows) =
             SumFunctionOnSet(f, G) + SumFunctionOnSet(f, Flows \ G)
    BY <2>1, <2>2, <2>6, SumSplit
  <2>8. SumFunctionOnSet(h, G) = 0
    BY <2>3, <2>6, SumZero
  <2>9. SumFunctionOnSet(h, Flows \ G) = SumFunctionOnSet(f, Flows \ G)
    BY <2>3, <2>6, SumEqual
  <2>10. SumFunctionOnSet(f, G) \in Nat /\ SumFunctionOnSet(f, Flows \ G) \in Nat
    <3>1. \A k \in G : f[k] \in Nat
      BY <2>1, <2>2
    <3>2. \A k \in Flows \ G : f[k] \in Nat
      BY <2>2
    <3> QED BY <2>6, <3>1, <3>2, SumNat
  <2>11. reserved'[b] = SumFunctionOnSet(h, Flows) /\ reserved'[b] \in 0..SafDepth
    BY <2>5, <2>7, <2>8, <2>9, <2>10, LedgerAssumption
  <2> QED BY <2>4, <2>11 DEF h
<1>3. ASSUME NEW k \in Flows
      PROVE  /\ flowLinks'[k] = {l \in Links : reservation'[l][k] # 0}
             /\ flowGroups'[k] = {g \in Groups : reservation'[g][k] # 0}
  <2>1. \A b \in Books : reservation'[b][k] # 0 <=>
           reservation[b][k] # 0 /\ k \notin ReleasedFrom(R, b)
    BY <1>1
  <2>2. \A l \in Links : k \in ReleasedFrom(R, l) <=>
           l \in {r[1] : r \in {q \in R : q[2] = k}}
    BY BookFacts DEF ReleasedFrom
  <2>3. \A g \in Groups : k \in ReleasedFrom(R, g) <=>
           g \in {GroupOf[r[1]] : r \in {q \in R : q[2] = k}}
    BY BookFacts DEF ReleasedFrom
  <2>4. /\ flowLinks'[k] = flowLinks[k] \ {r[1] : r \in {q \in R : q[2] = k}}
        /\ flowGroups'[k] =
             flowGroups[k] \ {GroupOf[r[1]] : r \in {q \in R : q[2] = k}}
    BY DEF ReleaseSafLinks
  <2> QED BY <2>1, <2>2, <2>3, <2>4, BookFacts DEF LedgerBalanced
<1>4. LedgerTypes'
  <2>1. reserved' \in [Books -> Int]
    <3>1. \A b \in Books : reserved'[b] \in Int
      BY <1>2
    <3> QED BY <3>1 DEF ReleaseSafLinks
  <2>2. reservation' \in [Books -> [Flows -> Nat]]
    BY <1>2 DEF ReleaseSafLinks
  <2>3. flowLinks' \in [Flows -> SUBSET Links] /\ flowGroups' \in [Flows -> SUBSET Groups]
    BY <1>3, ZenonT(30) DEF ReleaseSafLinks
  <2> QED BY <2>1, <2>2, <2>3 DEF LedgerTypes
<1> QED BY <1>2, <1>3, <1>4 DEF LedgerBalanced

\* A step that does not touch the books keeps them.
LEMMA LedgerUnchanged ==
  ASSUME LedgerInv, UNCHANGED ledgerVars
  PROVE  LedgerInv'
BY DEF LedgerInv, LedgerTypes, LedgerBalanced, ledgerVars
-----------------------------------------------------------------------------
(* The links.                                                              *)

LinkFaults == {"ready queue mismatch", "release", "control overflow", "duplicate REQUEST",
               "DATA before REQUEST", "DATA after tail", "packet count",
               "tail does not match REQUEST", "SAF overflow"}

\* What is under way, with the cycles it still takes.
Timed(S) == [due : Nat, flit : S]

\* The memory flits among what passes the data channel.
MemFlits == [type : {"MEMREQ"}, core : Routers]

\* A D2DLinkUnit.
LinkRecords ==
  [saf : [Flows -> Seq(DataFlits)],
   expected : SUBSET Flows,
   ready : Seq(Flows),
   mem : Seq(MemFlits),
   inflight : Seq(Timed(DataFlits)),
   rx : Seq(DataFlits),
   ctrl : Seq(Timed(CtrlFlits)),
   portTokens : Nat,
   tokens : Nat,
   out : DataFlits \cup {None},
   cout : CtrlFlits \cup {None},
   dataCredit : BOOLEAN,
   ctrlCredit : BOOLEAN,
   leaves : Flows \cup {None},
   faults : SUBSET LinkFaults]

\* The queues behind the SAF stage are within their depths.
Bounded(s) ==
  /\ Len(s.inflight) <= DataDepth
  /\ Len(s.rx) <= RxDepth
  /\ Len(s.ctrl) <= CtrlDepth

\* The SAF stage is left alone, and the control channel.
SameData(s, t) ==
  t.saf = s.saf /\ t.mem = s.mem /\ t.ready = s.ready /\ t.dataCredit = s.dataCredit
SameCtrl(s, t) == Len(t.ctrl) = Len(s.ctrl) /\ t.ctrlCredit = s.ctrlCredit

Overflows(s) == s.faults \cap {"SAF overflow", "control overflow"}

\* The constants of a link.
LEMMA LinkConstants ==
  /\ Latency \in Nat \ {0} /\ DataDepth \in Nat \ {0} /\ RxDepth \in Nat \ {0}
  /\ CtrlDepth \in Nat \ {0} /\ SafDepth \in Nat \ {0}
  /\ \A l \in Links : /\ PortRate[l].den \in Nat /\ PortRate[l].num \in Nat
                      /\ LinkRate[l].den \in Nat /\ LinkRate[l].num \in Nat
  /\ \A k \in Flows : Packets[k] \in Nat \ {0}
BY LinkAssumption, LedgerAssumption

\* Time passes and nothing else changes.
LEMMA OlderType ==
  ASSUME NEW S, NEW q \in Seq(Timed(S))
  PROVE  /\ Older(q) \in Seq(Timed(S)) /\ Len(Older(q)) = Len(q)
         /\ \A i \in 1..Len(q) : Older(q)[i].flit = q[i].flit
<1> DEFINE older(x) == [x EXCEPT !.due = IF @ = 0 THEN 0 ELSE @ - 1]
<1>1. \A i \in 1..Len(q) : q[i] \in Timed(S)
  OBVIOUS
<1>2. \A x \in Timed(S) : older(x) \in Timed(S) /\ older(x).flit = x.flit
  BY DEF Timed
<1>3. Older(q) = [i \in 1..Len(q) |-> older(q[i])]
  BY DEF Older
<1> HIDE DEF older
<1> QED BY <1>1, <1>2, <1>3

\* The token buckets fill and time passes; no signal is driven yet.
LEMMA RefillType ==
  ASSUME NEW l \in Links, link[l] \in LinkRecords
  PROVE  LET s == link[l]
             t == Refill(l)
         IN  /\ t \in LinkRecords /\ SameData(s, t) /\ SameCtrl(s, t)
             /\ t.faults = s.faults /\ t.out = None /\ t.rx = s.rx
             /\ Len(t.inflight) = Len(s.inflight)
             /\ \A i \in 1..Len(s.inflight) : t.inflight[i].flit = s.inflight[i].flit
<1> DEFINE s == link[l]
           p == s.portTokens + PortRate[l].num
           k == s.tokens + LinkRate[l].num
           q == Older(s.inflight)
           c == Older(s.ctrl)
           t == [s EXCEPT !.portTokens = p, !.tokens = k, !.inflight = q, !.ctrl = c,
                          !.out = None, !.cout = None, !.leaves = None]
<1>1. Refill(l) = t
  BY DEF Refill
<1>2. p \in Nat /\ k \in Nat
  <2>1. s.portTokens \in Nat /\ s.tokens \in Nat
    BY DEF LinkRecords
  <2>2. PortRate[l].num \in Nat /\ LinkRate[l].num \in Nat
    BY LinkConstants
  <2> HIDE DEF s
  <2> QED BY <2>1, <2>2
<1>3. s.inflight \in Seq(Timed(DataFlits)) /\ s.ctrl \in Seq(Timed(CtrlFlits))
  BY DEF LinkRecords
<1>4. /\ q \in Seq(Timed(DataFlits)) /\ c \in Seq(Timed(CtrlFlits))
      /\ Len(q) = Len(s.inflight) /\ Len(c) = Len(s.ctrl)
      /\ \A i \in 1..Len(s.inflight) : q[i].flit = s.inflight[i].flit
  BY <1>3, OlderType
<1>5. s \in LinkRecords
  OBVIOUS
<1> HIDE DEF s, p, k, q, c
<1>6. /\ t \in LinkRecords /\ t.inflight = q /\ t.ctrl = c /\ SameData(s, t)
      /\ t.faults = s.faults /\ t.out = None /\ t.rx = s.rx /\ t.ctrlCredit = s.ctrlCredit
  BY <1>2, <1>4, <1>5 DEF LinkRecords, SameData
<1> HIDE DEF t
<1> QED BY <1>1, <1>4, <1>6 DEF s, SameCtrl

\* The receive stage offers its first packet.
LEMMA DeliverType ==
  ASSUME NEW s \in LinkRecords, NEW avail
  PROVE  LET t == Deliver(s, avail)
         IN  /\ t \in LinkRecords /\ SameData(s, t) /\ SameCtrl(s, t)
             /\ t.faults = s.faults /\ t.inflight = s.inflight
             /\ \/ t.out = s.out /\ t.rx = s.rx
                \/ s.rx # <<>> /\ t.out = Head(s.rx) /\ t.rx = Tail(s.rx)
<1> DEFINE t == Deliver(s, avail)
           f == Head(s.rx)
           q == Tail(s.rx)
<1>1. CASE s.rx # <<>> /\ avail
  <2>1. t = [s EXCEPT !.out = f, !.rx = q]
    BY <1>1 DEF Deliver, LinkRecords
  <2>2. s.rx \in Seq(DataFlits)
    BY DEF LinkRecords
  <2>3. f \in DataFlits /\ q \in Seq(DataFlits)
    BY <1>1, <2>2, HeadTail
  <2> HIDE DEF f, q, t
  <2>4. /\ t \in LinkRecords /\ SameData(s, t) /\ SameCtrl(s, t)
        /\ t.faults = s.faults /\ t.inflight = s.inflight /\ t.out = f /\ t.rx = q
    BY <2>1, <2>3 DEF LinkRecords, SameData, SameCtrl
  <2> QED BY <1>1, <2>4 DEF t, f, q
<1>2. CASE ~(s.rx # <<>> /\ avail)
  <2>1. t = s
    BY <1>2 DEF Deliver
  <2> HIDE DEF t
  <2> QED BY <2>1 DEF SameData, SameCtrl, t
<1> QED BY <1>1, <1>2

\* A packet that has passed the physical link enters the receive stage.
LEMMA ArriveType ==
  ASSUME NEW s \in LinkRecords
  PROVE  LET t == Arrive(s)
         IN  /\ t \in LinkRecords /\ SameData(s, t) /\ SameCtrl(s, t)
             /\ t.faults = s.faults /\ t.out = s.out
             /\ \/ t.rx = s.rx /\ t.inflight = s.inflight
                \/ /\ s.inflight # <<>> /\ Len(s.rx) < RxDepth
                   /\ t.rx = Append(s.rx, Head(s.inflight).flit)
                   /\ t.inflight = Tail(s.inflight)
<1> DEFINE t == Arrive(s)
           f == Head(s.inflight).flit
           r == Append(s.rx, f)
           q == Tail(s.inflight)
<1>1. CASE Mature(s.inflight) /\ Len(s.rx) < RxDepth
  <2>1. t = [s EXCEPT !.rx = r, !.inflight = q]
    BY <1>1 DEF Arrive, LinkRecords
  <2>2. s.inflight \in Seq(Timed(DataFlits)) /\ s.rx \in Seq(DataFlits) /\ s.inflight # <<>>
    BY <1>1 DEF LinkRecords, Mature
  <2>3. Head(s.inflight) \in Timed(DataFlits) /\ q \in Seq(Timed(DataFlits))
    BY <2>2, HeadTail
  <2>4. f \in DataFlits
    BY <2>3 DEF Timed
  <2> HIDE DEF f
  <2>5. r \in Seq(DataFlits)
    BY <2>2, <2>4
  <2> HIDE DEF r, q, t
  <2>6. /\ t \in LinkRecords /\ SameData(s, t) /\ SameCtrl(s, t)
        /\ t.faults = s.faults /\ t.out = s.out /\ t.rx = r /\ t.inflight = q
    BY <2>1, <2>3, <2>5 DEF LinkRecords, SameData, SameCtrl
  <2> QED BY <1>1, <2>2, <2>6 DEF t, r, q, f
<1>2. CASE ~(Mature(s.inflight) /\ Len(s.rx) < RxDepth)
  <2>1. t = s
    BY <1>2 DEF Arrive
  <2> HIDE DEF t
  <2> QED BY <2>1 DEF SameData, SameCtrl, t
<1> QED BY <1>1, <1>2

\* Memory flits and packets share the data channel.
LEMMA MemFlitFacts ==
  /\ MemFlits \subseteq DataFlits
  /\ \A f \in MemFlits : IsMem(f) /\ f.type = "MEMREQ"
  /\ \A f \in DataFlits : IsMem(f) => f \in MemFlits
  /\ \A f \in DataFlits : ~IsMem(f) => f.flow \in Flows /\ f.type = "DATA" /\ f.end \in BOOLEAN
BY DEF MemFlits, DataFlits, IsMem

\* The occupancy of the SAF stage is a number, and changes with the queue of one
\* flow by as much as that queue.
LEMMA OccupancyType ==
  ASSUME NEW s \in LinkRecords
  PROVE  /\ SafOccupancy(s) \in Nat
         /\ Len(s.mem) <= SafOccupancy(s)
         /\ \A k \in Flows : Len(s.saf[k]) <= SafOccupancy(s)
<1> DEFINE len == [k \in Flows |-> Len(s.saf[k])]
<1>1. \A k \in Flows : len[k] \in Nat
  BY DEF LinkRecords
<1>2. Len(s.mem) \in Nat
  BY DEF LinkRecords
<1>3. SafOccupancy(s) = Len(s.mem) + SumFunctionOnSet(len, Flows)
  BY DEF SafOccupancy, SumFunction
<1> HIDE DEF len
<1>4. SumFunctionOnSet(len, Flows) \in Nat /\ \A k \in Flows : len[k] <= SumFunctionOnSet(len, Flows)
  BY <1>1, SumNat, LedgerAssumption
<1>5. \A k \in Flows : len[k] = Len(s.saf[k])
  BY DEF len
<1> QED BY <1>1, <1>2, <1>3, <1>4, <1>5

\* The queue of one flow grows or shrinks.
LEMMA OccupancyOfFlow ==
  ASSUME NEW s \in LinkRecords, NEW t \in LinkRecords, NEW k \in Flows,
         Len(t.mem) = Len(s.mem), \A j \in Flows : j # k => Len(t.saf[j]) = Len(s.saf[j])
  PROVE  SafOccupancy(t) = SafOccupancy(s) + (Len(t.saf[k]) - Len(s.saf[k]))
<1> DEFINE a == [j \in Flows |-> Len(s.saf[j])]
           b == [j \in Flows |-> Len(t.saf[j])]
<1>1. \A j \in Flows : a[j] \in Int /\ b[j] \in Int
  BY DEF LinkRecords
<1>2. \A j \in Flows : j # k => b[j] = a[j]
  OBVIOUS
<1>3. Len(s.mem) \in Nat
  BY DEF LinkRecords
<1>4. /\ SafOccupancy(s) = Len(s.mem) + SumFunctionOnSet(a, Flows)
      /\ SafOccupancy(t) = Len(s.mem) + SumFunctionOnSet(b, Flows)
  BY DEF SafOccupancy, SumFunction
<1>5. a[k] = Len(s.saf[k]) /\ b[k] = Len(t.saf[k])
  OBVIOUS
<1> HIDE DEF a, b
<1>6. IsFiniteSet(Flows)
  BY LedgerAssumption
<1>7. SumFunctionOnSet(b, Flows) = SumFunctionOnSet(a, Flows) - a[k] + b[k]
  <2>1. \A f, e : (\A y \in Flows : f[y] \in Int /\ e[y] \in Int)
                    /\ (\A y \in Flows : y # k => e[y] = f[y])
          => SumFunctionOnSet(e, Flows) = SumFunctionOnSet(f, Flows) - f[k] + e[k]
    BY <1>6, SumUpdate
  <2> QED BY <1>1, <1>2, <2>1, Zenon
<1>8. PICK x \in Int : x = SumFunctionOnSet(a, Flows)
  BY <1>1, <1>6, SumRemove
<1>9. Len(s.saf[k]) \in Nat /\ Len(t.saf[k]) \in Nat
  <2>1. s.saf \in [Flows -> Seq(DataFlits)] /\ t.saf \in [Flows -> Seq(DataFlits)]
    BY DEF LinkRecords
  <2> QED BY <2>1
<1>10. SafOccupancy(t) = Len(s.mem) + (x - Len(s.saf[k]) + Len(t.saf[k]))
  BY <1>4, <1>5, <1>7, <1>8, Zenon
<1>11. SafOccupancy(s) = Len(s.mem) + x
  BY <1>4, <1>8, Zenon
<1>12. Len(s.saf[k]) \in Int /\ Len(t.saf[k]) \in Int /\ Len(s.mem) \in Int
  BY <1>3, <1>9
<1>13. \A a1, b1, m, z \in Int : m + (z - a1 + b1) = (m + z) + (b1 - a1)
  OBVIOUS
<1>14. Len(s.mem) + (x - Len(s.saf[k]) + Len(t.saf[k]))
         = (Len(s.mem) + x) + (Len(t.saf[k]) - Len(s.saf[k]))
  BY <1>12, <1>13, ZenonT(30)
<1> QED BY <1>10, <1>11, <1>14, Zenon

\* The memory flits come or go.
LEMMA OccupancyOfMem ==
  ASSUME NEW s \in LinkRecords, NEW t \in LinkRecords,
         \A j \in Flows : Len(t.saf[j]) = Len(s.saf[j])
  PROVE  SafOccupancy(t) = SafOccupancy(s) + (Len(t.mem) - Len(s.mem))
<1> DEFINE a == [j \in Flows |-> Len(s.saf[j])]
<1>1. \A j \in Flows : a[j] \in Int
  BY DEF LinkRecords
<1>2. Len(s.mem) \in Nat /\ Len(t.mem) \in Nat
  BY DEF LinkRecords
<1>3. /\ SafOccupancy(s) = Len(s.mem) + SumFunctionOnSet(a, Flows)
      /\ SafOccupancy(t) = Len(t.mem) + SumFunctionOnSet(a, Flows)
  BY DEF SafOccupancy, SumFunction
<1> HIDE DEF a
<1>4. PICK x \in Int : x = SumFunctionOnSet(a, Flows)
  BY <1>1, SumRemove, LedgerAssumption
<1>5. SafOccupancy(s) = Len(s.mem) + x /\ SafOccupancy(t) = Len(t.mem) + x
  BY <1>3, <1>4, Zenon
<1>6. Len(s.mem) \in Int /\ Len(t.mem) \in Int
  BY <1>2
<1>7. \A a1, b1, z \in Int : b1 + z = (a1 + z) + (b1 - a1)
  OBVIOUS
<1>8. Len(t.mem) + x = (Len(s.mem) + x) + (Len(t.mem) - Len(s.mem))
  BY <1>6, <1>7, Zenon
<1> QED BY <1>5, <1>8, Zenon

\* What the data path behind the SAF stage and the control channel have.
SameRest(s, t) ==
  /\ t.rx = s.rx /\ t.out = s.out /\ t.ctrl = s.ctrl /\ t.ctrlCredit = s.ctrlCredit

\* The packet enters the physical link and returns one credit.
LEMMA SpendType ==
  ASSUME NEW l \in Links, NEW s \in LinkRecords, NEW flit \in DataFlits, Asks(l, s)
  PROVE  LET u == Spend(l, s, flit)
         IN  /\ u \in LinkRecords /\ SameRest(s, u)
             /\ u.saf = s.saf /\ u.mem = s.mem /\ u.ready = s.ready
             /\ u.expected = s.expected /\ u.faults = s.faults
             /\ u.dataCredit = ~s.dataCredit
             /\ u.inflight = Append(s.inflight, [due |-> Latency, flit |-> flit])
<1> DEFINE u == Spend(l, s, flit)
           x == [due |-> Latency, flit |-> flit]
           q == Append(s.inflight, x)
           p == s.portTokens - PortRate[l].den
           k == s.tokens - LinkRate[l].den
           d == ~s.dataCredit
<1>1. u = [s EXCEPT !.inflight = q, !.portTokens = p, !.tokens = k, !.dataCredit = d]
  BY DEF Spend, LinkRecords
<1>2. p \in Nat /\ k \in Nat
  <2>1. s.portTokens \in Nat /\ s.tokens \in Nat
    BY DEF LinkRecords
  <2>2. PortRate[l].den \in Nat /\ LinkRate[l].den \in Nat
    BY LinkConstants
  <2>3. s.portTokens >= PortRate[l].den /\ s.tokens >= LinkRate[l].den
    BY DEF Asks
  <2> QED BY <2>1, <2>2, <2>3
<1>3. q \in Seq(Timed(DataFlits))
  <2>1. x \in Timed(DataFlits)
    BY LinkConstants DEF Timed
  <2>2. s.inflight \in Seq(Timed(DataFlits))
    BY DEF LinkRecords
  <2> HIDE DEF x
  <2> QED BY <2>1, <2>2
<1>4. d \in BOOLEAN
  OBVIOUS
<1> HIDE DEF u, q, p, k, d
<1>5. /\ u \in LinkRecords /\ SameRest(s, u)
      /\ u.saf = s.saf /\ u.mem = s.mem /\ u.ready = s.ready
      /\ u.expected = s.expected /\ u.faults = s.faults
      /\ u.dataCredit = d /\ u.inflight = q
  BY <1>1, <1>2, <1>3, <1>4 DEF LinkRecords, SameRest
<1> QED BY <1>5 DEF u, q, x, d

\* A memory flit leaves the SAF stage.
ServesMem(s, t) ==
  /\ s.mem # <<>>
  /\ t.mem = Tail(s.mem) /\ t.saf = s.saf /\ t.ready = s.ready
  /\ t.inflight = Append(s.inflight, [due |-> Latency, flit |-> Head(s.mem)])

\* A packet of the first whole flow leaves the SAF stage.
ServesData(s, t) ==
  LET k == Head(s.ready)
  IN  /\ s.ready # <<>> /\ s.saf[k] # <<>>
      /\ t.mem = s.mem /\ t.saf = [s.saf EXCEPT ![k] = Tail(s.saf[k])]
      /\ t.ready = IF Tail(s.saf[k]) = <<>> THEN Tail(s.ready) ELSE s.ready
      /\ t.inflight = Append(s.inflight, [due |-> Latency, flit |-> Head(s.saf[k])])

\* One packet leaves the SAF stage, or none.
LEMMA ServeType ==
  ASSUME NEW l \in Links, NEW s \in LinkRecords, Len(s.inflight) <= DataDepth
  PROVE  LET t == Serve(l, s)
         IN  /\ t \in LinkRecords /\ SameRest(s, t) /\ Overflows(t) = Overflows(s)
             /\ Len(t.inflight) <= DataDepth
             /\ \/ SameData(s, t) /\ t.inflight = s.inflight
                \/ t.dataCredit = ~s.dataCredit /\ (ServesMem(s, t) \/ ServesData(s, t))
<1> DEFINE t == Serve(l, s)
           k == Head(s.ready)
<1>0. /\ s.mem \in Seq(MemFlits) /\ s.ready \in Seq(Flows)
      /\ s.saf \in [Flows -> Seq(DataFlits)] /\ s.inflight \in Seq(Timed(DataFlits))
      /\ s.expected \in SUBSET Flows /\ s.faults \in SUBSET LinkFaults
  BY DEF LinkRecords
<1>1. CASE ~Sends(l, s)
  <2>1. t = s
    BY <1>1 DEF Serve
  <2> HIDE DEF t
  <2>2. SameRest(s, t) /\ SameData(s, t) /\ t.inflight = s.inflight
        /\ Len(t.inflight) <= DataDepth /\ Overflows(t) = Overflows(s)
    BY <2>1 DEF SameRest, SameData
  <2> QED BY <2>1, <2>2 DEF t
<1>2. ASSUME Sends(l, s), NEW f \in DataFlits
      PROVE  LET x == [due |-> Latency, flit |-> f]
             IN  Len(Append(s.inflight, x)) <= DataDepth
  BY <1>0, <1>2, LinkConstants DEF Sends, Asks
<1>3. CASE Sends(l, s) /\ s.mem # <<>>
  <2> DEFINE f == Head(s.mem)
             m == Tail(s.mem)
             u == Spend(l, s, f)
  <2>1. f \in MemFlits /\ m \in Seq(MemFlits)
    BY <1>0, <1>3, HeadTail
  <2>2. f \in DataFlits /\ Asks(l, s)
    BY <1>3, <2>1, MemFlitFacts DEF Sends
  <2>3. t = [u EXCEPT !.mem = m]
    <3>1. t = [u EXCEPT !.mem = Tail(@)]
      BY <1>3 DEF Serve
    <3>2. u.mem = s.mem
      BY <2>2, SpendType
    <3> HIDE DEF u, t
    <3> QED BY <3>1, <3>2
  <2> HIDE DEF f, m, u, t
  <2>4. /\ u \in LinkRecords /\ SameRest(s, u)
        /\ u.saf = s.saf /\ u.ready = s.ready
        /\ u.faults = s.faults /\ u.dataCredit = ~s.dataCredit
        /\ u.inflight = Append(s.inflight, [due |-> Latency, flit |-> f])
    BY <2>2, SpendType DEF u
  <2>5. /\ t \in LinkRecords /\ t.saf = u.saf /\ t.ready = u.ready
        /\ t.faults = u.faults /\ t.dataCredit = u.dataCredit /\ t.mem = m
        /\ t.inflight = u.inflight /\ SameRest(u, t)
    BY <2>1, <2>3, <2>4 DEF LinkRecords, SameRest
  <2>6. SameRest(s, t) /\ Overflows(t) = Overflows(s)
    BY <2>4, <2>5, Zenon DEF SameRest, Overflows
  <2>7. Len(t.inflight) <= DataDepth
    BY <1>2, <1>3, <2>2, <2>4, <2>5
  <2>8. t.dataCredit = ~s.dataCredit /\ ServesMem(s, t)
    BY <1>3, <2>4, <2>5, Zenon DEF ServesMem, f, m
  <2> QED BY <2>5, <2>6, <2>7, <2>8 DEF t
<1>4. CASE Sends(l, s) /\ s.mem = <<>> /\ s.saf[k] = <<>>
  <2> DEFINE e == s.faults \cup {"ready queue mismatch"}
  <2>1. t = [s EXCEPT !.faults = e]
    BY <1>4 DEF Serve
  <2>2. e \in SUBSET LinkFaults /\ e \cap {"SAF overflow", "control overflow"} = Overflows(s)
    BY <1>0 DEF LinkFaults, Overflows
  <2> HIDE DEF t, e
  <2>3. t \in LinkRecords /\ t.faults = e /\ SameRest(s, t) /\ SameData(s, t)
        /\ t.inflight = s.inflight
    BY <2>1, <2>2 DEF LinkRecords, SameRest, SameData
  <2> QED BY <2>2, <2>3 DEF t, Overflows
<1>5. CASE Sends(l, s) /\ s.mem = <<>> /\ s.saf[k] # <<>>
  <2> DEFINE f == Head(s.saf[k])
             q == Tail(s.saf[k])
             a == [s.saf EXCEPT ![k] = q]
             u == Spend(l, s, f)
             v == [u EXCEPT !.saf = a]
             e == s.faults \cup FaultIf(ReleaseFault(l, k, Packets[k]), "release")
             g == s.expected \ {k}
             w == [v EXCEPT !.ready = Tail(s.ready), !.expected = g, !.leaves = k, !.faults = e]
  <2>1. s.ready # <<>> /\ Asks(l, s)
    BY <1>5 DEF Sends, Asks
  <2>2. k \in Flows /\ Tail(s.ready) \in Seq(Flows)
    BY <1>0, <2>1, HeadTail
  <2>3. f \in DataFlits /\ q \in Seq(DataFlits)
    <3>1. s.saf[k] \in Seq(DataFlits)
      BY <1>0, <2>2
    <3> QED BY <1>5, <3>1, HeadTail
  <2>4. a \in [Flows -> Seq(DataFlits)] /\ a[k] = q
    <3> HIDE DEF k, q
    <3> QED BY <1>0, <2>2, <2>3
  <2>5. /\ u \in LinkRecords /\ SameRest(s, u) /\ u.saf = s.saf
        /\ u.mem = s.mem /\ u.ready = s.ready /\ u.expected = s.expected
        /\ u.faults = s.faults /\ u.dataCredit = ~s.dataCredit
        /\ u.inflight = Append(s.inflight, [due |-> Latency, flit |-> f])
    BY <2>1, <2>3, SpendType, SMTT(30)
  <2>6. /\ v \in LinkRecords /\ SameRest(u, v) /\ v.saf = a
        /\ v.mem = u.mem /\ v.ready = u.ready /\ v.expected = u.expected
        /\ v.faults = u.faults /\ v.dataCredit = u.dataCredit /\ v.inflight = u.inflight
    <3> HIDE DEF u, a
    <3> QED BY <2>4, <2>5 DEF LinkRecords, SameRest
  <2>7. t = IF v.saf[k] # <<>> THEN v
            ELSE [v EXCEPT !.ready = Tail(@), !.expected = @ \ {k}, !.leaves = k,
                           !.faults = @ \cup FaultIf(ReleaseFault(l, k, Packets[k]), "release")]
    <3> DEFINE z == [Spend(l, s, Head(s.saf[k])) EXCEPT !.saf[k] = Tail(@)]
    <3>1. t = IF z.saf[k] # <<>> THEN z
              ELSE [z EXCEPT !.ready = Tail(@), !.expected = @ \ {k}, !.leaves = k,
                             !.faults = @ \cup FaultIf(ReleaseFault(l, k, Packets[k]), "release")]
      BY <1>5 DEF Serve
    <3>2. z = v
      <4>1. z = [u EXCEPT !.saf = [u.saf EXCEPT ![k] = Tail(u.saf[k])]]
        OBVIOUS
      <4> HIDE DEF z, u
      <4> QED BY <2>5, <4>1
    <3> HIDE DEF z, v, t, k
    <3> QED BY <3>1, <3>2
  <2>8. Len(v.inflight) <= DataDepth
    <3> HIDE DEF u, v, f
    <3> QED BY <1>2, <1>5, <2>3, <2>5, <2>6
  <2>9. SameRest(s, v) /\ v.dataCredit = ~s.dataCredit
    <3> HIDE DEF u, v
    <3> QED BY <2>5, <2>6, Zenon DEF SameRest
  <2>10. CASE q # <<>>
    <3> HIDE DEF u, v, a, t
    <3>1. t = v
      BY <2>4, <2>6, <2>7, <2>10
    <3>2. ServesData(s, v)
      BY <1>5, <2>1, <2>5, <2>6, <2>10, Zenon DEF ServesData, a
    <3>3. Overflows(t) = Overflows(s)
      BY <2>5, <2>6, <3>1, Zenon DEF Overflows
    <3>4. t \in LinkRecords /\ SameRest(s, t) /\ Len(t.inflight) <= DataDepth
          /\ t.dataCredit = ~s.dataCredit /\ ServesData(s, t)
      BY <2>6, <2>8, <2>9, <3>1, <3>2, Zenon
    <3> QED BY <3>3, <3>4 DEF t
  <2>11. CASE q = <<>>
    <3>1. e \in SUBSET LinkFaults /\ e \cap {"SAF overflow", "control overflow"} = Overflows(s)
      BY <1>0 DEF LinkFaults, Overflows, FaultIf
    <3>2. g \in SUBSET Flows
      BY <1>0
    <3> HIDE DEF u, v, a, t, e, g, k
    <3>3. t = w
      BY <2>4, <2>5, <2>6, <2>7, <2>11 DEF e, g
    <3>4. /\ w \in LinkRecords /\ SameRest(v, w) /\ w.saf = v.saf /\ w.mem = v.mem
          /\ w.ready = Tail(s.ready) /\ w.dataCredit = v.dataCredit /\ w.inflight = v.inflight
          /\ w.faults = e
      BY <2>2, <2>6, <3>1, <3>2 DEF LinkRecords, SameRest
    <3> HIDE DEF w
    <3>5. ServesData(s, t)
      BY <1>5, <2>1, <2>5, <2>6, <2>11, <3>3, <3>4, Zenon DEF ServesData, a, k
    <3>6. SameRest(s, t) /\ Overflows(t) = Overflows(s) /\ t.dataCredit = ~s.dataCredit
      BY <2>9, <3>1, <3>3, <3>4, Zenon DEF SameRest, Overflows
    <3>7. Len(t.inflight) <= DataDepth /\ t \in LinkRecords
      BY <2>8, <3>3, <3>4, Zenon
    <3> QED BY <3>5, <3>6, <3>7 DEF t
  <2> QED BY <2>10, <2>11
<1> QED BY <1>1, <1>3, <1>4, <1>5

\* What leaves the SAF stage makes room for one.
LEMMA ServedOccupancy ==
  ASSUME NEW a \in LinkRecords, NEW b \in LinkRecords, ServesMem(a, b) \/ ServesData(a, b)
  PROVE  SafOccupancy(b) = SafOccupancy(a) - 1
<1>1. SafOccupancy(a) \in Nat
  BY OccupancyType
<1>2. CASE ServesMem(a, b)
  <2>1. a.mem \in Seq(MemFlits) /\ a.mem # <<>> /\ b.mem = Tail(a.mem) /\ b.saf = a.saf
    BY <1>2 DEF LinkRecords, ServesMem
  <2>2. Len(b.mem) = Len(a.mem) - 1 /\ Len(a.mem) \in Nat
    BY <2>1, HeadTail
  <2>3. \A j \in Flows : Len(b.saf[j]) = Len(a.saf[j])
    BY <2>1, Zenon
  <2>4. SafOccupancy(b) = SafOccupancy(a) + (Len(b.mem) - Len(a.mem))
    BY <2>3, OccupancyOfMem
  <2> QED BY <1>1, <2>2, <2>4
<1>3. CASE ServesData(a, b)
  <2> DEFINE k == Head(a.ready)
  <2>1. /\ a.ready \in Seq(Flows) /\ a.ready # <<>>
        /\ a.saf \in [Flows -> Seq(DataFlits)] /\ a.saf[k] # <<>>
        /\ b.mem = a.mem /\ b.saf = [a.saf EXCEPT ![k] = Tail(a.saf[k])]
    BY <1>3 DEF LinkRecords, ServesData
  <2>2. k \in Flows
    BY <2>1, HeadTail
  <2> HIDE DEF k
  <2>3. a.saf[k] \in Seq(DataFlits)
    BY <2>1, <2>2
  <2>4. Len(Tail(a.saf[k])) = Len(a.saf[k]) - 1 /\ Len(a.saf[k]) \in Nat
    BY <2>1, <2>3, HeadTail
  <2>5. b.saf[k] = Tail(a.saf[k]) /\ \A j \in Flows : j # k => b.saf[j] = a.saf[j]
    BY <2>1, <2>2
  <2>6. Len(b.mem) = Len(a.mem) /\ \A j \in Flows : j # k => Len(b.saf[j]) = Len(a.saf[j])
    BY <2>1, <2>5, Zenon
  <2>7. SafOccupancy(b) = SafOccupancy(a) + (Len(b.saf[k]) - Len(a.saf[k]))
    BY <2>2, <2>6, OccupancyOfFlow
  <2>8. Len(b.saf[k]) = Len(a.saf[k]) - 1
    BY <2>4, <2>5
  <2> QED BY <1>1, <2>4, <2>7, <2>8
<1> QED BY <1>2, <1>3

\* The path behind the SAF stage and the token buckets are left alone.
SamePast(s, t) == t.out = s.out /\ t.rx = s.rx /\ t.inflight = s.inflight
SameTokens(s, t) ==
  t.portTokens = s.portTokens /\ t.tokens = s.tokens /\ t.leaves = s.leaves

\* The token buckets do not overflow.
LEMMA SaturateType ==
  ASSUME NEW l \in Links, NEW s \in LinkRecords
  PROVE  LET t == Saturate(l, s)
         IN  /\ t \in LinkRecords /\ SameData(s, t) /\ SameRest(s, t)
             /\ t.inflight = s.inflight /\ t.faults = s.faults
             /\ t.portTokens \in 0..PortRate[l].den /\ t.tokens \in 0..LinkRate[l].den
<1> DEFINE t == Saturate(l, s)
           p == Min({s.portTokens, PortRate[l].den})
           k == Min({s.tokens, LinkRate[l].den})
<1>1. t = [s EXCEPT !.portTokens = p, !.tokens = k]
  BY DEF Saturate
<1>2. s.portTokens \in Nat /\ s.tokens \in Nat
  BY DEF LinkRecords
<1>3. PortRate[l].den \in Nat /\ LinkRate[l].den \in Nat
  BY LinkConstants
<1>4. p \in 0..PortRate[l].den /\ k \in 0..LinkRate[l].den
  BY <1>2, <1>3, MinOfTwo
<1>5. p \in Nat /\ k \in Nat
  BY <1>4
<1> HIDE DEF t, p, k
<1>6. /\ t \in LinkRecords /\ SameData(s, t) /\ SameRest(s, t)
      /\ t.inflight = s.inflight /\ t.faults = s.faults
      /\ t.portTokens = p /\ t.tokens = k
  BY <1>1, <1>5 DEF LinkRecords, SameData, SameRest
<1> QED BY <1>4, <1>6 DEF t

\* The control channel offers its first packet and returns one credit.
LEMMA CtrlOutType ==
  ASSUME NEW s \in LinkRecords, NEW avail
  PROVE  LET t == CtrlOut(s, avail)
         IN  /\ t \in LinkRecords /\ SameData(s, t) /\ SamePast(s, t) /\ SameTokens(s, t)
             /\ t.faults = s.faults
             /\ \/ Len(t.ctrl) = Len(s.ctrl) /\ t.ctrlCredit = s.ctrlCredit
                \/ Len(t.ctrl) = Len(s.ctrl) - 1 /\ t.ctrlCredit = ~s.ctrlCredit
<1> DEFINE t == CtrlOut(s, avail)
           f == Head(s.ctrl).flit
           q == Tail(s.ctrl)
           d == ~s.ctrlCredit
<1>1. CASE Mature(s.ctrl) /\ avail
  <2>1. t = [s EXCEPT !.cout = f, !.ctrl = q, !.ctrlCredit = d]
    BY <1>1 DEF CtrlOut
  <2>2. s.ctrl \in Seq(Timed(CtrlFlits)) /\ s.ctrl # <<>>
    BY <1>1 DEF LinkRecords, Mature
  <2>3. Head(s.ctrl) \in Timed(CtrlFlits) /\ q \in Seq(Timed(CtrlFlits)) /\ Len(q) = Len(s.ctrl) - 1
    BY <2>2, HeadTail
  <2>4. f \in CtrlFlits /\ d \in BOOLEAN
    BY <2>3 DEF Timed
  <2> HIDE DEF f, q, t, d
  <2>5. /\ t \in LinkRecords /\ SameData(s, t) /\ SamePast(s, t) /\ SameTokens(s, t)
        /\ t.faults = s.faults /\ t.ctrl = q /\ t.ctrlCredit = d
    BY <2>1, <2>3, <2>4 DEF LinkRecords, SameData, SamePast, SameTokens
  <2> QED BY <2>3, <2>5 DEF t, d
<1>2. CASE ~(Mature(s.ctrl) /\ avail)
  <2>1. t = s
    BY <1>2 DEF CtrlOut
  <2> HIDE DEF t
  <2>2. t \in LinkRecords /\ SameData(s, t) /\ SamePast(s, t) /\ SameTokens(s, t)
        /\ t.faults = s.faults /\ Len(t.ctrl) = Len(s.ctrl) /\ t.ctrlCredit = s.ctrlCredit
    BY <2>1 DEF SameData, SamePast, SameTokens
  <2> QED BY <2>2 DEF t
<1> QED BY <1>1, <1>2

\* A packet enters the control channel, which has room for it if the sender had
\* a credit.
LEMMA CtrlInType ==
  ASSUME NEW s \in LinkRecords, NEW f \in CtrlFlits \cup {None}, Len(s.ctrl) <= CtrlDepth
  PROVE  LET t == CtrlIn(s, f)
         IN  /\ t \in LinkRecords /\ SameData(s, t) /\ SamePast(s, t) /\ SameTokens(s, t)
             /\ t.ctrlCredit = s.ctrlCredit /\ Len(t.ctrl) <= CtrlDepth
             /\ Len(s.ctrl) + One(f # None) <= CtrlDepth =>
                  Len(t.ctrl) = Len(s.ctrl) + One(f # None) /\ Overflows(t) = Overflows(s)
<1> DEFINE t == CtrlIn(s, f)
<1>0. /\ s.ctrl \in Seq(Timed(CtrlFlits)) /\ Len(s.ctrl) \in Nat /\ s.faults \in SUBSET LinkFaults
      /\ s.expected \in SUBSET Flows /\ CtrlDepth \in Nat
  BY LinkConstants DEF LinkRecords
<1>1. CASE f = None
  <2>1. t = s
    BY <1>1 DEF CtrlIn
  <2>2. One(f # None) = 0
    BY <1>1 DEF One
  <2> HIDE DEF t
  <2>3. /\ t \in LinkRecords /\ SameData(s, t) /\ SamePast(s, t) /\ SameTokens(s, t)
        /\ Overflows(t) = Overflows(s) /\ t.ctrl = s.ctrl /\ t.ctrlCredit = s.ctrlCredit
    BY <2>1 DEF SameData, SamePast, SameTokens
  <2>4. Len(t.ctrl) = Len(s.ctrl) + One(f # None)
    BY <1>0, <2>2, <2>3
  <2> QED BY <2>3, <2>4 DEF t
<1>2. CASE f # None /\ Len(s.ctrl) >= CtrlDepth
  <2> DEFINE e == s.faults \cup {"control overflow"}
  <2>1. t = [s EXCEPT !.faults = e]
    BY <1>2 DEF CtrlIn
  <2>2. ~(Len(s.ctrl) + One(f # None) <= CtrlDepth)
    <3>1. One(f # None) = 1
      BY <1>2 DEF One
    <3> QED BY <1>0, <1>2, <3>1
  <2>3. e \in SUBSET LinkFaults
    BY <1>0 DEF LinkFaults
  <2> HIDE DEF t, e
  <2>4. /\ t \in LinkRecords /\ SameData(s, t) /\ SamePast(s, t) /\ SameTokens(s, t)
        /\ t.ctrl = s.ctrl /\ t.ctrlCredit = s.ctrlCredit
    BY <2>1, <2>3 DEF LinkRecords, SameData, SamePast, SameTokens
  <2> QED BY <2>2, <2>4 DEF t
<1>3. CASE f # None /\ Len(s.ctrl) < CtrlDepth
  <2> DEFINE x == [due |-> Latency, flit |-> f]
             q == Append(s.ctrl, x)
             u == [s EXCEPT !.ctrl = q]
  <2>1. q \in Seq(Timed(CtrlFlits)) /\ Len(q) = Len(s.ctrl) + 1
    <3>1. x \in Timed(CtrlFlits)
      BY <1>3, LinkConstants DEF Timed
    <3> HIDE DEF x
    <3> QED BY <1>0, <3>1
  <2>2. t = IF f.type # "REQUEST" THEN u
            ELSE [u EXCEPT !.expected = @ \cup {f.flow},
                           !.faults = @ \cup
                             FaultIf(f.flow \in s.expected \/ s.saf[f.flow] # <<>>,
                                     "duplicate REQUEST")]
    <3>1. ~(f = None) /\ ~(f # None /\ Len(s.ctrl) >= CtrlDepth)
      BY <1>0, <1>3
    <3> QED BY <3>1 DEF CtrlIn
  <2>3. One(f # None) = 1
    BY <1>3 DEF One
  <2> HIDE DEF q
  <2>4. /\ u \in LinkRecords /\ SameData(s, u) /\ SamePast(s, u) /\ SameTokens(s, u)
        /\ u.ctrl = q /\ u.ctrlCredit = s.ctrlCredit
        /\ u.faults = s.faults /\ u.expected = s.expected
    BY <2>1 DEF LinkRecords, SameData, SamePast, SameTokens
  <2> HIDE DEF u
  <2>5. CASE f.type # "REQUEST"
    <3>1. t = u
      BY <2>2, <2>5
    <3> HIDE DEF t
    <3>2. Overflows(t) = Overflows(s)
      BY <2>4, <3>1 DEF Overflows
    <3>3. Len(t.ctrl) = Len(s.ctrl) + One(f # None) /\ Len(t.ctrl) <= CtrlDepth
      BY <1>0, <1>3, <2>1, <2>3, <2>4, <3>1
    <3> QED BY <2>4, <3>1, <3>2, <3>3 DEF t
  <2>6. CASE f.type = "REQUEST"
    <3> DEFINE e == s.faults \cup
                      FaultIf(f.flow \in s.expected \/ s.saf[f.flow] # <<>>, "duplicate REQUEST")
               g == s.expected \cup {f.flow}
    <3>1. t = [u EXCEPT !.expected = g, !.faults = e]
      BY <2>2, <2>4, <2>6
    <3>2. e \in SUBSET LinkFaults /\ e \cap {"SAF overflow", "control overflow"} = Overflows(s)
      BY <1>0 DEF LinkFaults, Overflows, FaultIf
    <3>3. g \in SUBSET Flows
      BY <1>0, <1>3, <2>6 DEF CtrlFlits
    <3> HIDE DEF t, e, g
    <3>4. /\ t \in LinkRecords /\ SameData(u, t) /\ SamePast(u, t) /\ SameTokens(u, t)
          /\ t.ctrl = u.ctrl /\ t.ctrlCredit = u.ctrlCredit /\ t.faults = e
      BY <2>4, <3>1, <3>2, <3>3 DEF LinkRecords, SameData, SamePast, SameTokens
    <3>5. /\ SameData(s, t) /\ SamePast(s, t) /\ SameTokens(s, t)
          /\ t.ctrlCredit = s.ctrlCredit /\ Overflows(t) = Overflows(s)
      BY <2>4, <3>2, <3>4, Zenon DEF SameData, SamePast, SameTokens, Overflows
    <3>6. Len(t.ctrl) = Len(s.ctrl) + One(f # None) /\ Len(t.ctrl) <= CtrlDepth
      BY <1>0, <1>3, <2>1, <2>3, <2>4, <3>4
    <3> QED BY <3>4, <3>5, <3>6 DEF t
  <2> QED BY <2>5, <2>6
<1> QED BY <1>0, <1>1, <1>2, <1>3

\* What a captured packet does to the SAF stage.
Captures(s, t, f) ==
  /\ f # None /\ ~IsMem(f)
  /\ t.saf = [s.saf EXCEPT ![f.flow] = Append(s.saf[f.flow], f)]
  /\ t.ready = IF f.end THEN Append(s.ready, f.flow) ELSE s.ready
  /\ t.faults = {} => ~Contains(s.ready, f.flow)

\* A packet enters the SAF stage, which has room for it if the sender had a
\* credit.
LEMMA CaptureType ==
  ASSUME NEW s \in LinkRecords, NEW f \in DataFlits \cup {None}, SafOccupancy(s) <= SafDepth
  PROVE  LET t == Capture(s, f)
         IN  /\ t \in LinkRecords /\ SameCtrl(s, t) /\ SamePast(s, t) /\ SameTokens(s, t)
             /\ t.dataCredit = s.dataCredit
             /\ SafOccupancy(t) <= SafDepth
             /\ SafOccupancy(s) + One(f # None) <= SafDepth =>
                  /\ SafOccupancy(t) = SafOccupancy(s) + One(f # None)
                  /\ Overflows(t) = Overflows(s)
             /\ (t.saf = s.saf /\ t.ready = s.ready) \/ Captures(s, t, f)
<1> DEFINE t == Capture(s, f)
<1>0. /\ SafOccupancy(s) \in Nat /\ SafDepth \in Nat /\ s.faults \in SUBSET LinkFaults
      /\ s.mem \in Seq(MemFlits) /\ s.saf \in [Flows -> Seq(DataFlits)] /\ s.ready \in Seq(Flows)
  BY OccupancyType, LinkConstants DEF LinkRecords
<1>1. CASE f = None
  <2>1. t = s
    BY <1>1 DEF Capture
  <2>2. One(f # None) = 0
    BY <1>1 DEF One
  <2>3. SafOccupancy(s) + One(f # None) = SafOccupancy(s)
    BY <1>0, <2>2
  <2> HIDE DEF t
  <2>4. /\ SameCtrl(s, t) /\ SamePast(s, t) /\ SameTokens(s, t)
        /\ t.dataCredit = s.dataCredit /\ t.saf = s.saf /\ t.ready = s.ready
        /\ SafOccupancy(t) = SafOccupancy(s) /\ Overflows(t) = Overflows(s) /\ t \in LinkRecords
    BY <2>1, Zenon DEF SameCtrl, SamePast, SameTokens
  <2> QED BY <2>3, <2>4 DEF t
<1>2. CASE f # None /\ SafOccupancy(s) >= SafDepth
  <2> DEFINE e == s.faults \cup {"SAF overflow"}
  <2>1. t = [s EXCEPT !.faults = e]
    <3>1. ~(SafOccupancy(s) < SafDepth)
      BY <1>0, <1>2
    <3> QED BY <1>2, <3>1 DEF Capture
  <2>2. ~(SafOccupancy(s) + One(f # None) <= SafDepth)
    <3>1. One(f # None) = 1
      BY <1>2 DEF One
    <3> QED BY <1>0, <1>2, <3>1
  <2>3. e \in SUBSET LinkFaults
    BY <1>0 DEF LinkFaults
  <2> HIDE DEF t, e
  <2>4. /\ t \in LinkRecords /\ SameCtrl(s, t) /\ SamePast(s, t) /\ SameTokens(s, t)
        /\ t.dataCredit = s.dataCredit /\ t.saf = s.saf /\ t.ready = s.ready /\ t.mem = s.mem
    BY <2>1, <2>3 DEF LinkRecords, SameCtrl, SamePast, SameTokens
  <2>5. SafOccupancy(t) = SafOccupancy(s)
    BY <2>4, Zenon DEF SafOccupancy
  <2> QED BY <2>2, <2>4, <2>5 DEF t
<1>3. CASE f # None /\ SafOccupancy(s) < SafDepth /\ IsMem(f)
  <2> DEFINE m == Append(s.mem, f)
  <2>1. t = [s EXCEPT !.mem = m]
    <3>1. ~(SafOccupancy(s) >= SafDepth)
      BY <1>0, <1>3
    <3> QED BY <1>3, <3>1 DEF Capture
  <2>2. f \in MemFlits
    BY <1>3, MemFlitFacts
  <2>3. m \in Seq(MemFlits) /\ Len(m) = Len(s.mem) + 1 /\ Len(s.mem) \in Nat
    BY <1>0, <2>2
  <2>4. One(f # None) = 1
    BY <1>3 DEF One
  <2> HIDE DEF t, m
  <2>5. /\ t \in LinkRecords /\ SameCtrl(s, t) /\ SamePast(s, t) /\ SameTokens(s, t)
        /\ t.dataCredit = s.dataCredit /\ t.saf = s.saf /\ t.ready = s.ready /\ t.mem = m
        /\ Overflows(t) = Overflows(s)
    BY <2>1, <2>3 DEF LinkRecords, SameCtrl, SamePast, SameTokens, Overflows
  <2>6. SafOccupancy(t) = SafOccupancy(s) + (Len(m) - Len(s.mem))
    BY <2>5, OccupancyOfMem
  <2>7. SafOccupancy(t) = SafOccupancy(s) + One(f # None) /\ SafOccupancy(t) <= SafDepth
    BY <1>0, <1>3, <2>3, <2>4, <2>6
  <2> QED BY <2>5, <2>7 DEF t
<1>4. CASE f # None /\ SafOccupancy(s) < SafDepth /\ ~IsMem(f)
  <2> DEFINE v == Append(s.saf[f.flow], f)
             a == [s.saf EXCEPT ![f.flow] = v]
             r == IF f.end THEN Append(s.ready, f.flow) ELSE s.ready
             e == s.faults \cup CaptureFaults(s, f)
  <2>1. t = [s EXCEPT !.saf = a, !.ready = r, !.faults = e]
    <3>1. ~(SafOccupancy(s) >= SafDepth)
      BY <1>0, <1>4
    <3> QED BY <1>4, <3>1 DEF Capture
  <2>2. f.flow \in Flows /\ f \in DataFlits
    BY <1>4, MemFlitFacts
  <2>3. /\ v \in Seq(DataFlits) /\ Len(v) = Len(s.saf[f.flow]) + 1 /\ Len(s.saf[f.flow]) \in Nat
    <3>1. s.saf[f.flow] \in Seq(DataFlits)
      BY <1>0, <2>2
    <3> QED BY <2>2, <3>1
  <2>4. r \in Seq(Flows)
    BY <1>0, <2>2
  <2>5. e \in SUBSET LinkFaults /\ e \cap {"SAF overflow", "control overflow"} = Overflows(s)
    BY <1>0 DEF LinkFaults, Overflows, FaultIf, CaptureFaults
  <2>6. e = {} => ~Contains(s.ready, f.flow)
    BY DEF CaptureFaults, FaultIf
  <2>7. One(f # None) = 1
    BY <1>4 DEF One
  <2> HIDE DEF v, r, e, t
  <2>8. a \in [Flows -> Seq(DataFlits)] /\ a[f.flow] = v
        /\ \A j \in Flows : j # f.flow => a[j] = s.saf[j]
    BY <1>0, <2>2, <2>3
  <2> HIDE DEF a
  <2>9. /\ t \in LinkRecords /\ SameCtrl(s, t) /\ SamePast(s, t) /\ SameTokens(s, t)
        /\ t.dataCredit = s.dataCredit /\ t.saf = a /\ t.ready = r /\ t.mem = s.mem
        /\ t.faults = e
    BY <2>1, <2>4, <2>5, <2>8 DEF LinkRecords, SameCtrl, SamePast, SameTokens
  <2>10. SafOccupancy(t) = SafOccupancy(s) + (Len(v) - Len(s.saf[f.flow]))
    <3>1. /\ Len(t.mem) = Len(s.mem) /\ t.saf[f.flow] = v
          /\ \A j \in Flows : j # f.flow => Len(t.saf[j]) = Len(s.saf[j])
      BY <2>8, <2>9, Zenon
    <3>2. SafOccupancy(t) = SafOccupancy(s) + (Len(t.saf[f.flow]) - Len(s.saf[f.flow]))
      BY <2>2, <2>9, <3>1, OccupancyOfFlow
    <3> QED BY <3>1, <3>2, Zenon
  <2>11. SafOccupancy(t) = SafOccupancy(s) + One(f # None) /\ SafOccupancy(t) <= SafDepth
    BY <1>0, <1>4, <2>3, <2>7, <2>10
  <2>12. Overflows(t) = Overflows(s) /\ (t.faults = {} => ~Contains(s.ready, f.flow))
    BY <2>5, <2>6, <2>9, Zenon DEF Overflows
  <2>13. Captures(s, t, f)
    BY <1>4, <2>9, <2>12, Zenon DEF Captures, a, r, v
  <2> QED BY <2>9, <2>11, <2>12, <2>13 DEF t
<1> QED BY <1>0, <1>1, <1>2, <1>3, <1>4

\* The invariant of a link: its type and the bounds of its queues.
LinkOK(s) == s \in LinkRecords /\ Bounded(s) /\ SafOccupancy(s) <= SafDepth

\* Stages 1 and 2 leave the SAF stage alone and keep the bounds.
LEMMA OfferedFacts ==
  ASSUME NEW l \in Links, LinkOK(link[l]), NEW avail
  PROVE  LET s == link[l]
             t == Offered(l, avail)
         IN  /\ t \in LinkRecords /\ Bounded(t) /\ SameData(s, t) /\ SameCtrl(s, t)
             /\ t.faults = s.faults
<1> DEFINE s == link[l]
           a == Refill(l)
           b == Deliver(a, avail)
           t == Arrive(b)
<1>1. s \in LinkRecords /\ Bounded(s)
  BY DEF LinkOK
<1>2. /\ a \in LinkRecords /\ SameData(s, a) /\ SameCtrl(s, a) /\ a.faults = s.faults
      /\ a.rx = s.rx /\ Len(a.inflight) = Len(s.inflight)
  BY <1>1, RefillType
<1> HIDE DEF a
<1>3. /\ b \in LinkRecords /\ SameData(a, b) /\ SameCtrl(a, b) /\ b.faults = a.faults
      /\ b.inflight = a.inflight
      /\ \/ b.rx = a.rx
         \/ a.rx # <<>> /\ b.rx = Tail(a.rx)
  BY <1>2, DeliverType
<1> HIDE DEF b
<1>4. /\ t \in LinkRecords /\ SameData(b, t) /\ SameCtrl(b, t) /\ t.faults = b.faults
      /\ \/ t.rx = b.rx /\ t.inflight = b.inflight
         \/ /\ b.inflight # <<>> /\ Len(b.rx) < RxDepth
            /\ t.rx = Append(b.rx, Head(b.inflight).flit)
            /\ t.inflight = Tail(b.inflight)
  BY <1>3, ArriveType
<1>5. Offered(l, avail) = t
  BY DEF Offered, b, a
<1> HIDE DEF t
<1>6. SameData(s, t) /\ SameCtrl(s, t) /\ t.faults = s.faults
  BY <1>2, <1>3, <1>4, Zenon DEF SameData, SameCtrl
<1>7. Len(b.rx) <= RxDepth /\ Len(b.inflight) <= DataDepth
  <2>1. a.rx \in Seq(DataFlits) /\ Len(a.rx) \in Nat /\ Len(a.rx) <= RxDepth /\ RxDepth \in Nat
    BY <1>1, <1>2, LinkConstants DEF LinkRecords, Bounded
  <2>2. Len(b.inflight) <= DataDepth
    BY <1>1, <1>2, <1>3 DEF Bounded
  <2>3. CASE b.rx = a.rx
    BY <2>1, <2>2, <2>3
  <2>4. CASE a.rx # <<>> /\ b.rx = Tail(a.rx)
    <3>1. Len(Tail(a.rx)) = Len(a.rx) - 1
      BY <2>1, <2>4, HeadTail
    <3> QED BY <2>1, <2>2, <2>4, <3>1
  <2> QED BY <1>3, <2>3, <2>4
<1>8. Len(t.rx) <= RxDepth /\ Len(t.inflight) <= DataDepth
  <2>1. CASE t.rx = b.rx /\ t.inflight = b.inflight
    BY <1>7, <2>1
  <2>2. CASE /\ b.inflight # <<>> /\ Len(b.rx) < RxDepth
             /\ t.rx = Append(b.rx, Head(b.inflight).flit)
             /\ t.inflight = Tail(b.inflight)
    <3>1. /\ b.rx \in Seq(DataFlits) /\ b.inflight \in Seq(Timed(DataFlits))
          /\ Len(b.rx) \in Nat /\ Len(b.inflight) \in Nat
          /\ RxDepth \in Nat /\ DataDepth \in Nat
      BY <1>3, LinkConstants DEF LinkRecords
    <3>2. Len(t.inflight) = Len(b.inflight) - 1
      BY <2>2, <3>1, HeadTail
    <3>3. Len(t.rx) = Len(b.rx) + 1
      BY <2>2, <3>1
    <3> QED BY <1>7, <2>2, <3>1, <3>2, <3>3
  <2> QED BY <1>4, <2>1, <2>2
<1>9. Len(t.ctrl) <= CtrlDepth
  BY <1>1, <1>6 DEF SameCtrl, Bounded
<1> QED BY <1>4, <1>5, <1>6, <1>8, <1>9 DEF Bounded, s

\* What a step from s to t does to the room of a link: what leaves the SAF stage
\* returns one credit and makes room for one packet; what comes from the router
\* takes its room.  The same holds for the control channel.  Nothing overflows
\* if there was room.
RoomPassed(s, t, data, ctrl) ==
  LET room == SafOccupancy(s) + One(data # None) <= SafDepth
      croom == Len(s.ctrl) + One(ctrl # None) <= CtrlDepth
  IN  /\ room => SafOccupancy(t) + One(t.dataCredit # s.dataCredit)
                   = SafOccupancy(s) + One(data # None)
      /\ croom => Len(t.ctrl) + One(t.ctrlCredit # s.ctrlCredit)
                    = Len(s.ctrl) + One(ctrl # None)
      /\ room /\ croom => Overflows(t) = Overflows(s)

\* A step of a link.
LEMMA LinkStepFacts ==
  ASSUME NEW l \in Links, LinkOK(link[l]), NEW data \in DataFlits \cup {None},
         NEW ctrl \in CtrlFlits \cup {None}, NEW avail, NEW cavail
  PROVE  LET t == LinkStep(l, data, ctrl, avail, cavail)
         IN  /\ LinkOK(t)
             /\ t.portTokens \in 0..PortRate[l].den /\ t.tokens \in 0..LinkRate[l].den
             /\ RoomPassed(link[l], t, data, ctrl)
<1> DEFINE s == link[l]
           a == Offered(l, avail)
           b == Serve(l, a)
           c == Saturate(l, b)
           d == CtrlOut(c, cavail)
           e == CtrlIn(d, ctrl)
           t == Capture(e, data)
<1>0. LinkStep(l, data, ctrl, avail, cavail) = t
  BY DEF LinkStep
<1>1. s \in LinkRecords /\ Bounded(s) /\ SafOccupancy(s) <= SafDepth
  BY DEF LinkOK
<1>2. a \in LinkRecords /\ Bounded(a) /\ SameData(s, a) /\ SameCtrl(s, a) /\ a.faults = s.faults
  BY OfferedFacts
<1> HIDE DEF s, a
<1>3. /\ b \in LinkRecords /\ SameRest(a, b) /\ Overflows(b) = Overflows(a)
      /\ Len(b.inflight) <= DataDepth
      /\ \/ SameData(a, b) /\ b.inflight = a.inflight
         \/ b.dataCredit = ~a.dataCredit /\ (ServesMem(a, b) \/ ServesData(a, b))
  BY <1>2, ServeType DEF Bounded
<1> HIDE DEF b
<1>4. /\ c \in LinkRecords /\ SameData(b, c) /\ SameRest(b, c)
      /\ c.inflight = b.inflight /\ c.faults = b.faults
      /\ c.portTokens \in 0..PortRate[l].den /\ c.tokens \in 0..LinkRate[l].den
  BY <1>3, SaturateType
<1> HIDE DEF c
<1>5. /\ d \in LinkRecords /\ SameData(c, d) /\ SamePast(c, d) /\ SameTokens(c, d)
      /\ d.faults = c.faults
      /\ \/ Len(d.ctrl) = Len(c.ctrl) /\ d.ctrlCredit = c.ctrlCredit
         \/ Len(d.ctrl) = Len(c.ctrl) - 1 /\ d.ctrlCredit = ~c.ctrlCredit
  BY <1>4, CtrlOutType
<1> HIDE DEF d
<1>6. /\ Len(c.ctrl) = Len(s.ctrl) /\ c.ctrlCredit = s.ctrlCredit
      /\ Len(s.ctrl) \in Nat /\ Len(d.ctrl) \in Nat /\ CtrlDepth \in Nat
      /\ Len(s.ctrl) <= CtrlDepth /\ Len(d.ctrl) <= CtrlDepth
      /\ s.ctrlCredit \in BOOLEAN /\ d.ctrlCredit \in BOOLEAN
  <2>1. Len(c.ctrl) = Len(s.ctrl) /\ c.ctrlCredit = s.ctrlCredit
    BY <1>2, <1>3, <1>4, Zenon DEF SameCtrl, SameRest
  <2>2. Len(s.ctrl) \in Nat /\ Len(d.ctrl) \in Nat /\ CtrlDepth \in Nat
        /\ s.ctrlCredit \in BOOLEAN /\ d.ctrlCredit \in BOOLEAN
    BY <1>1, <1>5, LinkConstants DEF LinkRecords
  <2>3. Len(s.ctrl) <= CtrlDepth
    BY <1>1 DEF Bounded
  <2>4. Len(d.ctrl) = Len(s.ctrl) \/ Len(d.ctrl) = Len(s.ctrl) - 1
    BY <1>5, <2>1
  <2> QED BY <2>1, <2>2, <2>3, <2>4
<1>7. /\ e \in LinkRecords /\ SameData(d, e) /\ SamePast(d, e) /\ SameTokens(d, e)
      /\ e.ctrlCredit = d.ctrlCredit /\ Len(e.ctrl) <= CtrlDepth
      /\ Len(d.ctrl) + One(ctrl # None) <= CtrlDepth =>
           Len(e.ctrl) = Len(d.ctrl) + One(ctrl # None) /\ Overflows(e) = Overflows(d)
  BY <1>5, <1>6, CtrlInType
<1> HIDE DEF e
<1>8. /\ SafOccupancy(s) \in Nat /\ SafOccupancy(e) \in Nat /\ SafDepth \in Nat
      /\ SafOccupancy(e) + One(e.dataCredit # s.dataCredit) = SafOccupancy(s)
  <2>1. SafOccupancy(s) \in Nat /\ SafOccupancy(e) \in Nat /\ SafDepth \in Nat
    BY <1>1, <1>7, OccupancyType, LinkConstants
  <2>2. SafOccupancy(e) = SafOccupancy(b) /\ e.dataCredit = b.dataCredit
        /\ SafOccupancy(a) = SafOccupancy(s) /\ a.dataCredit = s.dataCredit
    BY <1>2, <1>4, <1>5, <1>7, Zenon DEF SameData, SafOccupancy
  <2>3. CASE SameData(a, b)
    <3>1. SafOccupancy(b) = SafOccupancy(a) /\ b.dataCredit = a.dataCredit
      BY <2>3, Zenon DEF SameData, SafOccupancy
    <3>2. One(e.dataCredit # s.dataCredit) = 0
      BY <2>2, <3>1, Zenon DEF One
    <3>3. SafOccupancy(e) = SafOccupancy(s)
      BY <2>2, <3>1, Zenon
    <3> QED BY <2>1, <3>2, <3>3
  <2>4. b.dataCredit = ~a.dataCredit => b.dataCredit # a.dataCredit
    <3>1. a.dataCredit \in BOOLEAN
      BY <1>2 DEF LinkRecords
    <3> QED BY <3>1
  <2>5. ASSUME b.dataCredit # a.dataCredit, SafOccupancy(b) = SafOccupancy(a) - 1
        PROVE  SafOccupancy(e) + One(e.dataCredit # s.dataCredit) = SafOccupancy(s)
    <3>1. e.dataCredit # s.dataCredit
      BY <2>2, <2>5, Zenon
    <3>2. One(e.dataCredit # s.dataCredit) = 1
      BY <3>1, Zenon DEF One
    <3>3. SafOccupancy(e) = SafOccupancy(s) - 1
      BY <2>2, <2>5, Zenon
    <3> QED BY <2>1, <3>2, <3>3
  <2>6. CASE b.dataCredit = ~a.dataCredit /\ (ServesMem(a, b) \/ ServesData(a, b))
    <3>1. SafOccupancy(b) = SafOccupancy(a) - 1
      BY <1>2, <1>3, <2>6, ServedOccupancy
    <3>2. b.dataCredit # a.dataCredit
      BY <2>6, <2>4
    <3> QED BY <2>1, <2>5, <3>1, <3>2, Zenon
  <2>7. SafOccupancy(e) + One(e.dataCredit # s.dataCredit) = SafOccupancy(s)
    BY <1>3, <2>3, <2>6
  <2> QED BY <2>1, <2>7
<1>9. SafOccupancy(e) <= SafDepth
  BY <1>1, <1>8 DEF One
<1>10. /\ t \in LinkRecords /\ SameCtrl(e, t) /\ SamePast(e, t) /\ SameTokens(e, t)
       /\ t.dataCredit = e.dataCredit
       /\ SafOccupancy(t) <= SafDepth
       /\ SafOccupancy(e) + One(data # None) <= SafDepth =>
            /\ SafOccupancy(t) = SafOccupancy(e) + One(data # None)
            /\ Overflows(t) = Overflows(e)
  BY <1>7, <1>9, CaptureType
<1> HIDE DEF t
<1>11. Bounded(t)
  <2>1. Len(t.inflight) = Len(b.inflight) /\ Len(t.rx) = Len(a.rx)
    BY <1>3, <1>4, <1>5, <1>7, <1>10, Zenon DEF SamePast, SameRest
  <2>2. Len(t.ctrl) <= CtrlDepth
    BY <1>7, <1>10 DEF SameCtrl
  <2> QED BY <1>2, <1>3, <2>1, <2>2 DEF Bounded
<1>12. t.portTokens \in 0..PortRate[l].den /\ t.tokens \in 0..LinkRate[l].den
  BY <1>4, <1>5, <1>7, <1>10, Zenon DEF SameTokens
<1>13. SafOccupancy(t) \in Nat /\ Len(t.ctrl) \in Nat
  BY <1>10, OccupancyType DEF LinkRecords
<1>14. ASSUME SafOccupancy(s) + One(data # None) <= SafDepth
       PROVE  /\ SafOccupancy(t) + One(t.dataCredit # s.dataCredit) = SafOccupancy(s) + One(data # None)
              /\ Overflows(t) = Overflows(e)
  <2>1. One(data # None) \in Nat /\ One(e.dataCredit # s.dataCredit) \in Nat
    BY DEF One
  <2>2. SafOccupancy(e) + One(data # None) <= SafDepth
    BY <1>8, <1>14, <2>1
  <2>3. SafOccupancy(t) = SafOccupancy(e) + One(data # None) /\ Overflows(t) = Overflows(e)
    BY <1>10, <2>2
  <2>4. One(t.dataCredit # s.dataCredit) = One(e.dataCredit # s.dataCredit)
    BY <1>10, Zenon
  <2> QED BY <1>8, <2>1, <2>3, <2>4
<1>15. ASSUME Len(s.ctrl) + One(ctrl # None) <= CtrlDepth
       PROVE  /\ Len(t.ctrl) + One(t.ctrlCredit # s.ctrlCredit) = Len(s.ctrl) + One(ctrl # None)
              /\ Overflows(e) = Overflows(d)
  <2>1. One(ctrl # None) \in Nat
    BY DEF One
  <2>2. Len(d.ctrl) + One(d.ctrlCredit # s.ctrlCredit) = Len(s.ctrl) /\ Len(d.ctrl) <= Len(s.ctrl)
    <3>1. CASE Len(d.ctrl) = Len(c.ctrl) /\ d.ctrlCredit = c.ctrlCredit
      <4>1. One(d.ctrlCredit # s.ctrlCredit) = 0
        BY <1>6, <3>1, Zenon DEF One
      <4> QED BY <1>6, <3>1, <4>1
    <3>2. CASE Len(d.ctrl) = Len(c.ctrl) - 1 /\ d.ctrlCredit = ~c.ctrlCredit
      <4>1. d.ctrlCredit # s.ctrlCredit
        BY <1>6, <3>2
      <4>2. One(d.ctrlCredit # s.ctrlCredit) = 1
        BY <4>1, Zenon DEF One
      <4> QED BY <1>6, <3>2, <4>2
    <3> QED BY <1>5, <3>1, <3>2
  <2>3. Len(e.ctrl) = Len(d.ctrl) + One(ctrl # None) /\ Overflows(e) = Overflows(d)
    BY <1>6, <1>7, <1>15, <2>1, <2>2
  <2>4. Len(t.ctrl) = Len(e.ctrl) /\ t.ctrlCredit = d.ctrlCredit
    BY <1>7, <1>10, Zenon DEF SameCtrl
  <2>5. One(t.ctrlCredit # s.ctrlCredit) = One(d.ctrlCredit # s.ctrlCredit)
    BY <2>4, Zenon
  <2>6. One(d.ctrlCredit # s.ctrlCredit) \in Nat
    BY DEF One
  <2> QED BY <1>6, <2>1, <2>2, <2>3, <2>4, <2>5, <2>6
<1>16. Overflows(d) = Overflows(s)
  BY <1>2, <1>3, <1>4, <1>5, Zenon DEF Overflows
<1>17. LinkOK(t)
  BY <1>10, <1>11 DEF LinkOK
<1>18. RoomPassed(s, t, data, ctrl)
  BY <1>14, <1>15, <1>16, Zenon DEF RoomPassed
<1> QED BY <1>0, <1>12, <1>17, <1>18, Zenon DEF s
-----------------------------------------------------------------------------
(* Flows leave the SAF stage whole.                                        *)

IsOf(f, k) == f.type = "DATA" /\ f.flow = k

Flits(q) == [i \in DOMAIN q |-> q[i].flit]
PastOf(s) == AsSeq(s.out) \o s.rx \o Flits(s.inflight)

\* The last packet of flow k in q is its tail, or the flow is one of ready.
WholeFlow(q, ready, k) ==
  \A i \in 1..Len(q) :
    IsOf(q[i], k) /\ (\A j \in 1..Len(q) : IsOf(q[j], k) => j <= i) =>
      q[i].end \/ Contains(ready, k)
Whole(q, ready) == \A k \in Flows : WholeFlow(q, ready, k)

\* Every packet of the stage is of the flow it waits with.
Sorted(s) == \A k \in Flows : \A i \in 1..Len(s.saf[k]) : IsOf(s.saf[k][i], k)

\* The tail of a flow that is ready is in the stage.
TailWaits(s, k) ==
  Contains(s.ready, k) => s.saf[k] # <<>> /\ s.saf[k][Len(s.saf[k])].end

\* No flow is ready twice, and the tail of one that is ready is in the stage.
ReadyOK(s) ==
  /\ \A i, j \in 1..Len(s.ready) : s.ready[i] = s.ready[j] => i = j
  /\ \A k \in Flows : TailWaits(s, k)

\* The inductive invariant of a link.
LinkWhole(s) == Whole(PastOf(s), s.ready) /\ Sorted(s) /\ (s.faults = {} => ReadyOK(s))

\* What is under way without the time it takes.
LEMMA FlitsType ==
  ASSUME NEW S, NEW q \in Seq(Timed(S))
  PROVE  /\ Flits(q) \in Seq(S) /\ Len(Flits(q)) = Len(q)
         /\ \A i \in 1..Len(q) : Flits(q)[i] = q[i].flit
<1>1. \A i \in 1..Len(q) : q[i].flit \in S
  <2>1. \A i \in 1..Len(q) : q[i] \in Timed(S)
    OBVIOUS
  <2>2. \A x \in Timed(S) : x.flit \in S
    BY DEF Timed
  <2> QED BY <2>1, <2>2
<1>2. Flits(q) = [i \in 1..Len(q) |-> q[i].flit]
  BY DEF Flits
<1> QED BY <1>1, <1>2

\* The packets behind the SAF stage.
LEMMA PastType ==
  ASSUME NEW s \in LinkRecords
  PROVE  /\ AsSeq(s.out) \in Seq(DataFlits) /\ s.rx \in Seq(DataFlits)
         /\ s.inflight \in Seq(Timed(DataFlits)) /\ Flits(s.inflight) \in Seq(DataFlits)
         /\ s.rx \o Flits(s.inflight) \in Seq(DataFlits) /\ PastOf(s) \in Seq(DataFlits)
<1>1. s.out \in DataFlits \cup {None} /\ s.rx \in Seq(DataFlits)
      /\ s.inflight \in Seq(Timed(DataFlits))
  BY DEF LinkRecords
<1>2. AsSeq(s.out) \in Seq(DataFlits)
  BY <1>1 DEF AsSeq
<1>3. Flits(s.inflight) \in Seq(DataFlits)
  BY <1>1, FlitsType
<1>4. s.rx \o Flits(s.inflight) \in Seq(DataFlits)
  BY <1>1, <1>3, ConcatProperties
<1>5. AsSeq(s.out) \o s.rx \in Seq(DataFlits)
  BY <1>1, <1>2, ConcatProperties
<1>6. PastOf(s) \in Seq(DataFlits)
  BY <1>3, <1>5, ConcatProperties DEF PastOf
<1> QED BY <1>1, <1>2, <1>3, <1>4, <1>6

\* The packets that have been delivered are of no account.
LEMMA WholeSuffix ==
  ASSUME NEW p \in Seq(DataFlits), NEW q \in Seq(DataFlits), NEW ready, Whole(p \o q, ready)
  PROVE  Whole(q, ready)
<1> DEFINE m == Len(p)
           n == Len(q)
           c == p \o q
<1>1. /\ m \in Nat /\ n \in Nat /\ Len(c) = m + n
      /\ \A i \in 1..m + n : c[i] = IF i <= m THEN p[i] ELSE q[i - m]
  BY ConcatProperties
<1>2. \A i \in 1..n : m + i \in 1..m + n /\ c[m + i] = q[i]
  <2> HIDE DEF m, n, c
  <2>1. ASSUME NEW i \in 1..n
        PROVE  m + i \in 1..m + n /\ ~(m + i <= m) /\ (m + i) - m = i
    BY <1>1
  <2> QED BY <1>1, <2>1
<1> HIDE DEF m, n, c
<1> SUFFICES ASSUME NEW k \in Flows, NEW i \in 1..n, IsOf(q[i], k),
                    \A j \in 1..n : IsOf(q[j], k) => j <= i
             PROVE  q[i].end \/ Contains(ready, k)
  BY DEF Whole, WholeFlow, n
<1>3. ASSUME NEW j \in 1..m + n, IsOf(c[j], k)
      PROVE  j <= m + i
  <2>1. CASE j <= m
    BY <1>1, <2>1
  <2>2. CASE j > m
    <3>1. j - m \in 1..n /\ c[j] = q[j - m]
      BY <1>1, <2>2
    <3>2. j - m <= i
      BY <1>3, <3>1
    <3> QED BY <1>1, <3>2
  <2> QED BY <1>1, <2>1, <2>2
<1>4. m + i \in 1..Len(c) /\ IsOf(c[m + i], k) /\ c[m + i] = q[i]
  BY <1>1, <1>2
<1>5. c[m + i].end \/ Contains(ready, k)
  BY <1>1, <1>3, <1>4 DEF Whole, WholeFlow, c
<1> QED BY <1>4, <1>5

\* A packet more, and a flow that is ready no longer.
LEMMA WholeAppend ==
  ASSUME NEW q \in Seq(DataFlits), NEW f \in DataFlits, NEW ready, NEW ready2,
         Whole(q, ready),
         \A k \in Flows : IsOf(f, k) => f.end \/ Contains(ready2, k),
         \A k \in Flows : ~IsOf(f, k) /\ Contains(ready, k) => Contains(ready2, k)
  PROVE  Whole(Append(q, f), ready2)
<1> DEFINE n == Len(q)
           c == Append(q, f)
<1>1. /\ n \in Nat /\ Len(c) = n + 1 /\ c[n + 1] = f
      /\ \A i \in 1..n : c[i] = q[i]
  OBVIOUS
<1> HIDE DEF n, c
<1> SUFFICES ASSUME NEW k \in Flows, NEW i \in 1..n + 1, IsOf(c[i], k),
                    \A j \in 1..n + 1 : IsOf(c[j], k) => j <= i
             PROVE  c[i].end \/ Contains(ready2, k)
  BY <1>1 DEF Whole, WholeFlow, c
<1>2. CASE i = n + 1
  BY <1>1, <1>2
<1>3. CASE i # n + 1
  <2>1. i \in 1..n /\ ~(n + 1 <= i)
    BY <1>1, <1>3
  <2>2. ~IsOf(f, k)
    BY <1>1, <2>1
  <2>3. \A j \in 1..n : IsOf(q[j], k) => j <= i
    BY <1>1
  <2>4. IsOf(q[i], k) /\ c[i] = q[i]
    BY <1>1, <2>1
  <2>5. q[i].end \/ Contains(ready, k)
    BY <2>1, <2>3, <2>4 DEF Whole, WholeFlow, n
  <2> QED BY <2>2, <2>4, <2>5
<1> QED BY <1>2, <1>3

\* The head of a queue before the rest of it is the queue.
LEMMA HeadConcatTail ==
  ASSUME NEW S, NEW q \in Seq(S), q # <<>>
  PROVE  <<Head(q)>> \o Tail(q) = q
<1> DEFINE a == <<Head(q)>>
           b == Tail(q)
<1>1. Head(q) \in S /\ b \in Seq(S) /\ Len(b) = Len(q) - 1 /\ Len(q) \in Nat \ {0}
  BY HeadTail
<1>2. a \in Seq(S) /\ Len(a) = 1 /\ a[1] = q[1]
  BY <1>1
<1>3. \A i \in 1..Len(b) : b[i] = q[i + 1]
  OBVIOUS
<1> HIDE DEF a, b
<1>4. /\ a \o b \in Seq(S) /\ Len(a \o b) = Len(a) + Len(b)
      /\ \A i \in 1..Len(a) + Len(b) : (a \o b)[i] = IF i <= Len(a) THEN a[i] ELSE b[i - Len(a)]
  BY <1>1, <1>2, ConcatProperties
<1>5. Len(a \o b) = Len(q)
  BY <1>1, <1>2, <1>4
<1>6. ASSUME NEW i \in 1..Len(q) PROVE (a \o b)[i] = q[i]
  <2>1. CASE i = 1
    BY <1>1, <1>2, <1>4, <2>1
  <2>2. CASE i # 1
    <3>1. i - 1 \in 1..Len(b) /\ (i - 1) + 1 = i /\ ~(i <= Len(a)) /\ i \in 1..Len(a) + Len(b)
      BY <1>1, <1>2, <2>2
    <3>2. (a \o b)[i] = b[i - 1]
      BY <1>2, <1>4, <3>1
    <3> QED BY <1>3, <3>1, <3>2
  <2> QED BY <2>1, <2>2
<1>7. a \o b = q
  BY <1>4, <1>5, <1>6, SeqEqual
<1> QED BY <1>7 DEF a, b

\* A packet appended to the second of two queues comes behind both.
LEMMA AppendConcat ==
  ASSUME NEW S, NEW p \in Seq(S), NEW q \in Seq(S), NEW f \in S
  PROVE  p \o Append(q, f) = Append(p \o q, f)
<1> DEFINE a == Append(q, f)
           b == p \o q
           c == Append(b, f)
           d == p \o a
           m == Len(p)
           n == Len(q)
<1>1. a \in Seq(S) /\ Len(a) = n + 1 /\ a[n + 1] = f /\ \A i \in 1..n : a[i] = q[i]
  OBVIOUS
<1>2. /\ m \in Nat /\ n \in Nat /\ b \in Seq(S) /\ Len(b) = m + n
      /\ \A i \in 1..m + n : b[i] = IF i <= m THEN p[i] ELSE q[i - m]
  BY ConcatProperties
<1> HIDE DEF b
<1>3. c \in Seq(S) /\ Len(c) = (m + n) + 1 /\ c[(m + n) + 1] = f /\ \A i \in 1..m + n : c[i] = b[i]
  BY <1>2
<1> HIDE DEF a, c
<1>4. /\ d \in Seq(S) /\ Len(d) = m + (n + 1)
      /\ \A i \in 1..m + (n + 1) : d[i] = IF i <= m THEN p[i] ELSE a[i - m]
  <2>1. /\ d \in Seq(S) /\ Len(d) = Len(p) + Len(a)
        /\ \A i \in 1..Len(p) + Len(a) : d[i] = IF i <= Len(p) THEN p[i] ELSE a[i - Len(p)]
    BY <1>1, ConcatProperties
  <2> HIDE DEF d
  <2> QED BY <1>1, <2>1, Zenon
<1> HIDE DEF d, m, n
<1>5. ASSUME NEW i \in 1..Len(d) PROVE d[i] = c[i]
  <2>1. CASE i <= m
    <3>1. i \in 1..m + n /\ i \in 1..m + (n + 1)
      BY <1>2, <1>4, <2>1
    <3> QED BY <1>2, <1>3, <1>4, <2>1, <3>1
  <2>2. CASE i > m /\ i <= m + n
    <3>1. i - m \in 1..n /\ i \in 1..m + n /\ ~(i <= m) /\ i \in 1..m + (n + 1)
      BY <1>2, <1>4, <2>2
    <3> QED BY <1>1, <1>2, <1>3, <1>4, <3>1
  <2>3. CASE i > m + n
    <3>1. i = (m + n) + 1 /\ i - m = n + 1 /\ ~(i <= m) /\ i \in 1..m + (n + 1)
      BY <1>2, <1>4, <2>3
    <3> QED BY <1>1, <1>3, <1>4, <3>1
  <2> QED BY <1>2, <1>4, <2>1, <2>2, <2>3
<1>6. Len(d) = Len(c)
  BY <1>2, <1>3, <1>4
<1>7. d = c
  BY <1>3, <1>4, <1>5, <1>6, SeqEqual
<1> QED BY <1>7 DEF a, b, c, d

\* A packet that moves from the head of one queue to the end of the one before it
\* keeps its place.
LEMMA MoveHead ==
  ASSUME NEW S, NEW p \in Seq(S), NEW q \in Seq(S), q # <<>>
  PROVE  Append(p, Head(q)) \o Tail(q) = p \o q
<1> DEFINE h == <<Head(q)>>
           u == Tail(q)
<1>1. h \in Seq(S) /\ u \in Seq(S) /\ Head(q) \in S
  BY HeadTail
<1>2. Append(p, Head(q)) = p \o h
  <2>1. p \o Append(<<>>, Head(q)) = Append(p \o <<>>, Head(q))
    BY <1>1, AppendConcat, EmptySeq
  <2>2. Append(<<>>, Head(q)) = h
    OBVIOUS
  <2>3. p \o <<>> = p
    BY ConcatEmptySeq
  <2> QED BY <2>1, <2>2, <2>3, Zenon
<1>3. h \o u = q
  BY HeadConcatTail
<1> HIDE DEF h, u
<1>4. (p \o h) \o u = p \o (h \o u)
  BY <1>1, ConcatAssociative
<1> QED BY <1>2, <1>3, <1>4, Zenon DEF u

\* The packets under way, when the first one leaves or one more enters.
LEMMA FlitsFacts ==
  ASSUME NEW S, NEW q \in Seq(Timed(S))
  PROVE  /\ q # <<>> => /\ Flits(q) # <<>> /\ Head(Flits(q)) = Head(q).flit
                        /\ Flits(Tail(q)) = Tail(Flits(q))
         /\ \A d \in Nat, f \in S :
              Flits(Append(q, [due |-> d, flit |-> f])) = Append(Flits(q), f)
<1>1. /\ Flits(q) \in Seq(S) /\ Len(Flits(q)) = Len(q) /\ Len(q) \in Nat
      /\ \A i \in 1..Len(q) : Flits(q)[i] = q[i].flit
  BY FlitsType
<1>2. ASSUME q # <<>>
      PROVE  /\ Flits(q) # <<>> /\ Head(Flits(q)) = Head(q).flit
             /\ Flits(Tail(q)) = Tail(Flits(q))
  <2> DEFINE u == Tail(q)
             v == Flits(u)
             g == Flits(q)
             w == Tail(g)
  <2>1. u \in Seq(Timed(S)) /\ Len(u) = Len(q) - 1 /\ Len(q) \in Nat \ {0}
    BY <1>2, HeadTail
  <2>2. \A i \in 1..Len(u) : u[i] = q[i + 1]
    BY <1>2
  <2>3. v \in Seq(S) /\ Len(v) = Len(u) /\ \A i \in 1..Len(u) : v[i] = u[i].flit
    BY <2>1, FlitsType
  <2> HIDE DEF u, v, g
  <2>4. /\ g # <<>> /\ Head(g) = g[1] /\ w \in Seq(S) /\ Len(w) = Len(q) - 1
        /\ \A i \in 1..Len(w) : w[i] = g[i + 1]
    BY <1>1, <2>1 DEF g
  <2>5. Head(q) = q[1]
    BY <1>2
  <2> HIDE DEF w
  <2>6. ASSUME NEW i \in 1..Len(v) PROVE v[i] = w[i]
    <3>1. i \in 1..Len(u) /\ i \in 1..Len(w) /\ i + 1 \in 1..Len(q)
      BY <2>1, <2>3, <2>4
    <3> QED BY <1>1, <2>2, <2>3, <2>4, <3>1 DEF g
  <2>7. v = w
    BY <2>1, <2>3, <2>4, <2>6, SeqEqual
  <2>8. g[1] = q[1].flit
    BY <1>1, <2>1 DEF g
  <2> QED BY <2>4, <2>5, <2>7, <2>8 DEF u, v, g, w
<1>3. ASSUME NEW d \in Nat, NEW f \in S
      PROVE  Flits(Append(q, [due |-> d, flit |-> f])) = Append(Flits(q), f)
  <2> DEFINE x == [due |-> d, flit |-> f]
             u == Append(q, x)
             v == Flits(u)
             g == Flits(q)
             w == Append(g, f)
  <2>1. x \in Timed(S) /\ x.flit = f
    BY DEF Timed
  <2> HIDE DEF x
  <2>2. /\ u \in Seq(Timed(S)) /\ Len(u) = Len(q) + 1 /\ u[Len(q) + 1] = x
        /\ \A i \in 1..Len(q) : u[i] = q[i]
    BY <2>1
  <2>3. v \in Seq(S) /\ Len(v) = Len(u) /\ \A i \in 1..Len(u) : v[i] = u[i].flit
    BY <2>2, FlitsType
  <2> HIDE DEF u, v, g
  <2>4. /\ w \in Seq(S) /\ Len(w) = Len(q) + 1 /\ w[Len(q) + 1] = f
        /\ \A i \in 1..Len(q) : w[i] = g[i]
    BY <1>1 DEF g
  <2> HIDE DEF w
  <2>5. ASSUME NEW i \in 1..Len(v) PROVE v[i] = w[i]
    <3>1. i \in 1..Len(q) \/ i = Len(q) + 1
      BY <1>1, <2>2, <2>3
    <3> QED BY <1>1, <2>1, <2>2, <2>3, <2>4, <3>1 DEF g
  <2>6. v = w
    BY <2>2, <2>3, <2>4, <2>5, SeqEqual
  <2> QED BY <2>6 DEF u, v, g, w, x
<1> QED BY <1>2, <1>3

\* Stages 1 and 2 only take the packet away that the next router has taken.
LEMMA OfferedPast ==
  ASSUME NEW l \in Links, link[l] \in LinkRecords, NEW avail
  PROVE  LET t == Offered(l, avail)
         IN  /\ t \in LinkRecords /\ SameData(link[l], t)
             /\ PastOf(t) = link[l].rx \o Flits(link[l].inflight)
<1> DEFINE s == link[l]
           a == Refill(l)
           b == Deliver(a, avail)
           t == Arrive(b)
           r == s.rx
           g == Flits(s.inflight)
<1>1. /\ a \in LinkRecords /\ SameData(s, a) /\ a.out = None /\ a.rx = s.rx
      /\ Len(a.inflight) = Len(s.inflight)
      /\ \A i \in 1..Len(s.inflight) : a.inflight[i].flit = s.inflight[i].flit
  BY RefillType
<1>2. r \in Seq(DataFlits) /\ g \in Seq(DataFlits) /\ s.inflight \in Seq(Timed(DataFlits))
  BY PastType
<1> HIDE DEF s, a
<1>3. Flits(a.inflight) = g
  <2> DEFINE h == Flits(a.inflight)
  <2>1. h \in Seq(DataFlits) /\ a.inflight \in Seq(Timed(DataFlits))
    BY <1>1, PastType
  <2>2. /\ Len(h) = Len(a.inflight) /\ \A i \in 1..Len(a.inflight) : h[i] = a.inflight[i].flit
        /\ Len(g) = Len(s.inflight) /\ \A i \in 1..Len(s.inflight) : g[i] = s.inflight[i].flit
    BY <1>2, <2>1, FlitsType
  <2> HIDE DEF h, g
  <2>3. h = g
    BY <1>1, <1>2, <2>1, <2>2, SeqEqual
  <2> QED BY <2>3 DEF h
<1>4. /\ b \in LinkRecords /\ SameData(a, b) /\ b.inflight = a.inflight
      /\ \/ b.out = None /\ b.rx = r
         \/ r # <<>> /\ b.out = Head(r) /\ b.rx = Tail(r)
  BY <1>1, DeliverType
<1> HIDE DEF b, r, g
<1>5. AsSeq(b.out) \o b.rx = r
  <2>1. CASE b.out = None /\ b.rx = r
    <3>1. AsSeq(b.out) = <<>>
      BY <2>1 DEF AsSeq
    <3>2. <<>> \o r = r
      BY <1>2, ConcatEmptySeq
    <3> QED BY <2>1, <3>1, <3>2, Zenon
  <2>2. CASE r # <<>> /\ b.out = Head(r) /\ b.rx = Tail(r)
    <3>1. Head(r) # None
      BY <1>2, <2>2, HeadTail, FlitAssumption
    <3>2. AsSeq(b.out) = <<Head(r)>>
      BY <2>2, <3>1, Zenon DEF AsSeq
    <3>3. <<Head(r)>> \o Tail(r) = r
      BY <1>2, <2>2, HeadConcatTail
    <3> QED BY <2>2, <3>2, <3>3, Zenon
  <2> QED BY <1>4, <2>1, <2>2
<1>6. Flits(b.inflight) = g
  BY <1>3, <1>4, Zenon
<1>7. /\ t \in LinkRecords /\ SameData(b, t) /\ t.out = b.out
      /\ \/ t.rx = b.rx /\ t.inflight = b.inflight
         \/ /\ b.inflight # <<>>
            /\ t.rx = Append(b.rx, Head(b.inflight).flit)
            /\ t.inflight = Tail(b.inflight)
  BY <1>4, ArriveType
<1> HIDE DEF t
<1>8. PastOf(t) = r \o g
  <2>1. CASE t.rx = b.rx /\ t.inflight = b.inflight
    BY <1>5, <1>6, <1>7, <2>1, Zenon DEF PastOf
  <2>2. CASE /\ b.inflight # <<>> /\ t.rx = Append(b.rx, Head(b.inflight).flit)
             /\ t.inflight = Tail(b.inflight)
    <3> DEFINE o == AsSeq(b.out)
    <3>1. /\ o \in Seq(DataFlits) /\ b.rx \in Seq(DataFlits)
          /\ b.inflight \in Seq(Timed(DataFlits))
      BY <1>4, PastType
    <3>2. g # <<>> /\ Head(g) = Head(b.inflight).flit /\ Flits(Tail(b.inflight)) = Tail(g)
      BY <1>6, <2>2, <3>1, FlitsFacts
    <3>3. Head(g) \in DataFlits
      BY <1>2, <3>2, HeadTail
    <3> HIDE DEF o
    <3>4. o \o Append(b.rx, Head(g)) = Append(o \o b.rx, Head(g))
      BY <3>1, <3>3, AppendConcat
    <3>5. Append(r, Head(g)) \o Tail(g) = r \o g
      BY <1>2, <3>2, MoveHead
    <3>6. PastOf(t) = (o \o Append(b.rx, Head(g))) \o Tail(g)
      BY <1>7, <2>2, <3>2, Zenon DEF PastOf, o
    <3> QED BY <1>5, <3>4, <3>5, <3>6, Zenon DEF o
  <2> QED BY <1>7, <2>1, <2>2
<1>9. SameData(s, t)
  BY <1>1, <1>4, <1>7, Zenon DEF SameData
<1> QED BY <1>7, <1>8, <1>9 DEF s, t, b, a, r, g, Offered

\* What enters the physical link comes behind everything that left before it.
LEMMA EnteredPast ==
  ASSUME NEW s \in LinkRecords, NEW t, SameRest(s, t), NEW f \in DataFlits,
         t.inflight = Append(s.inflight, [due |-> Latency, flit |-> f])
  PROVE  PastOf(t) = Append(PastOf(s), f)
<1> DEFINE o == AsSeq(s.out) \o s.rx
           g == Flits(s.inflight)
<1>1. /\ AsSeq(s.out) \in Seq(DataFlits) /\ s.rx \in Seq(DataFlits)
      /\ s.inflight \in Seq(Timed(DataFlits)) /\ g \in Seq(DataFlits)
  BY PastType
<1>2. o \in Seq(DataFlits)
  BY <1>1, ConcatProperties
<1>3. Flits(t.inflight) = Append(g, f)
  BY <1>1, FlitsFacts, LinkConstants
<1> HIDE DEF o, g
<1>4. o \o Append(g, f) = Append(o \o g, f)
  BY <1>1, <1>2, AppendConcat
<1> QED BY <1>3, <1>4, Zenon DEF PastOf, SameRest, o, g

\* The first whole flow, with or without it being ready any longer.
LEMMA ReadyFacts ==
  ASSUME NEW r \in Seq(Flows), r # <<>>
  PROVE  /\ Head(r) \in Flows /\ Contains(r, Head(r))
         /\ \A j \in Flows : Contains(Tail(r), j) => Contains(r, j)
         /\ \A j \in Flows : Contains(r, j) /\ j # Head(r) => Contains(Tail(r), j)
         /\ (\A i, j \in 1..Len(r) : r[i] = r[j] => i = j) =>
              /\ ~Contains(Tail(r), Head(r))
              /\ \A i, j \in 1..Len(Tail(r)) : Tail(r)[i] = Tail(r)[j] => i = j
<1> DEFINE u == Tail(r)
           n == Len(r)
<1>1. n \in Nat \ {0} /\ Len(u) = n - 1 /\ Head(r) = r[1] /\ Head(r) \in Flows
      /\ \A i \in 1..Len(u) : u[i] = r[i + 1]
  OBVIOUS
<1> HIDE DEF u
<1>2. 1 \in 1..n /\ \A i \in 1..Len(u) : i + 1 \in 1..n /\ i + 1 # 1
  BY <1>1
<1>3. \A i \in 1..n : i # 1 => i - 1 \in 1..Len(u) /\ (i - 1) + 1 = i
  BY <1>1
<1> HIDE DEF n
<1>4. Contains(r, Head(r))
  BY <1>1, <1>2 DEF Contains, n
<1>5. \A j \in Flows : Contains(u, j) => Contains(r, j)
  BY <1>1, <1>2 DEF Contains, n
<1>6. \A j \in Flows : Contains(r, j) /\ j # Head(r) => Contains(u, j)
  <2> SUFFICES ASSUME NEW j \in Flows, Contains(r, j), j # Head(r) PROVE Contains(u, j)
    OBVIOUS
  <2>1. PICK i \in 1..n : r[i] = j
    BY DEF Contains, n
  <2>2. i # 1
    BY <1>1, <2>1
  <2>3. u[i - 1] = j /\ i - 1 \in 1..Len(u)
    BY <1>1, <1>3, <2>1, <2>2
  <2> QED BY <2>3 DEF Contains
<1>7. ASSUME \A i, j \in 1..n : r[i] = r[j] => i = j
      PROVE  ~Contains(u, Head(r)) /\ \A i, j \in 1..Len(u) : u[i] = u[j] => i = j
  <2>1. ASSUME NEW i \in 1..Len(u) PROVE u[i] # Head(r)
    BY <1>1, <1>2, <1>7
  <2>2. ASSUME NEW i \in 1..Len(u), NEW j \in 1..Len(u), u[i] = u[j] PROVE i = j
    <3>1. i + 1 = j + 1
      BY <1>1, <1>2, <1>7, <2>2
    <3> QED BY <3>1
  <2> QED BY <2>1, <2>2 DEF Contains
<1> QED BY <1>1, <1>4, <1>5, <1>6, <1>7 DEF u, n

\* A packet of the first whole flow leaves.
LEMMA ServesDataWhole ==
  ASSUME NEW s \in LinkRecords, NEW t \in LinkRecords, SameRest(s, t), ServesData(s, t),
         Whole(PastOf(s), s.ready), Sorted(s), ReadyOK(s)
  PROVE  Whole(PastOf(t), t.ready) /\ Sorted(t) /\ ReadyOK(t)
<1> DEFINE k == Head(s.ready)
           q == s.saf[k]
           u == Tail(q)
           f == Head(q)
<1>1. s.ready \in Seq(Flows) /\ s.ready # <<>> /\ s.saf \in [Flows -> Seq(DataFlits)]
  BY DEF LinkRecords, ServesData
<1>2. /\ k \in Flows /\ Contains(s.ready, k)
      /\ \A j \in Flows : Contains(Tail(s.ready), j) => Contains(s.ready, j)
      /\ \A j \in Flows : Contains(s.ready, j) /\ j # k => Contains(Tail(s.ready), j)
      /\ ~Contains(Tail(s.ready), k)
      /\ \A i, j \in 1..Len(Tail(s.ready)) : Tail(s.ready)[i] = Tail(s.ready)[j] => i = j
  BY <1>1, ReadyFacts DEF ReadyOK
<1>3. /\ q # <<>> /\ t.saf = [s.saf EXCEPT ![k] = u]
      /\ t.ready = IF u = <<>> THEN Tail(s.ready) ELSE s.ready
      /\ t.inflight = Append(s.inflight, [due |-> Latency, flit |-> f])
  BY DEF ServesData
<1> HIDE DEF k
<1>4. q \in Seq(DataFlits)
  BY <1>1, <1>2
<1>5. /\ f \in DataFlits /\ f = q[1] /\ u \in Seq(DataFlits) /\ Len(u) = Len(q) - 1
      /\ Len(q) \in Nat \ {0} /\ \A i \in 1..Len(u) : u[i] = q[i + 1]
      /\ (u = <<>> <=> Len(q) = 1)
  <2>1. q # <<>> /\ q \in Seq(DataFlits)
    BY <1>3, <1>4
  <2> HIDE DEF q
  <2>2. f \in DataFlits /\ u \in Seq(DataFlits) /\ Len(u) = Len(q) - 1 /\ Len(q) \in Nat \ {0}
    BY <2>1, HeadTail
  <2>3. f = q[1] /\ \A i \in 1..Len(u) : u[i] = q[i + 1]
    BY <2>1
  <2> HIDE DEF u
  <2>4. u = <<>> <=> Len(u) = 0
    BY <2>2
  <2> QED BY <2>2, <2>3, <2>4
<1>6. t.saf[k] = u /\ \A j \in Flows : j # k => t.saf[j] = s.saf[j]
  BY <1>1, <1>2, <1>3
<1>7. /\ \A i \in 1..Len(q) : IsOf(q[i], k)
      /\ q[Len(q)].end
  BY <1>2 DEF Sorted, ReadyOK, TailWaits
<1> HIDE DEF q, u, f
<1>8. IsOf(f, k) /\ \A j \in Flows : IsOf(f, j) => j = k
  BY <1>5, <1>7 DEF IsOf
<1>9. Whole(PastOf(t), t.ready)
  <2>1. PastOf(t) = Append(PastOf(s), f)
    BY <1>3, <1>5, EnteredPast
  <2>2. f.end \/ Contains(t.ready, k)
    BY <1>2, <1>3, <1>5, <1>7
  <2>3. \A j \in Flows : IsOf(f, j) => f.end \/ Contains(t.ready, j)
    BY <1>8, <2>2
  <2>4. \A j \in Flows : ~IsOf(f, j) /\ Contains(s.ready, j) => Contains(t.ready, j)
    BY <1>2, <1>3, <1>8
  <2>5. PastOf(s) \in Seq(DataFlits)
    BY PastType
  <2> QED BY <1>5, <2>1, <2>3, <2>4, <2>5, WholeAppend
<1>10. Sorted(t)
  <2>1. \A i \in 1..Len(u) : IsOf(u[i], k)
    <3>1. \A i \in 1..Len(u) : i + 1 \in 1..Len(q)
      BY <1>5
    <3> QED BY <1>5, <1>7, <3>1
  <2> QED BY <1>6, <2>1 DEF Sorted
<1>11. ReadyOK(t)
  <2>1. \A i, j \in 1..Len(t.ready) : t.ready[i] = t.ready[j] => i = j
    BY <1>2, <1>3, Zenon DEF ReadyOK
  <2>2. ASSUME NEW j \in Flows, Contains(t.ready, j)
        PROVE  t.saf[j] # <<>> /\ t.saf[j][Len(t.saf[j])].end
    <3>1. CASE j = k
      <4>1. u # <<>>
        BY <1>2, <1>3, <2>2, <3>1
      <4>2. Len(u) \in 1..Len(u) /\ Len(u) + 1 = Len(q)
        BY <1>5, <4>1
      <4>3. u[Len(u)] = q[Len(q)]
        BY <1>5, <4>2
      <4> QED BY <1>6, <1>7, <3>1, <4>1, <4>3
    <3>2. CASE j # k
      <4>1. Contains(s.ready, j)
        BY <1>2, <1>3, <2>2
      <4>2. s.saf[j] # <<>> /\ s.saf[j][Len(s.saf[j])].end
        BY <4>1 DEF ReadyOK, TailWaits
      <4> QED BY <1>6, <3>2, <4>2
    <3> QED BY <3>1, <3>2
  <2> QED BY <2>1, <2>2, Zenon DEF ReadyOK, TailWaits
<1> QED BY <1>9, <1>10, <1>11

\* A packet leaves, or none.
LEMMA ServeWhole ==
  ASSUME NEW l \in Links, NEW s \in LinkRecords, Len(s.inflight) <= DataDepth,
         Whole(PastOf(s), s.ready), Sorted(s), ReadyOK(s)
  PROVE  LET t == Serve(l, s)
         IN  Whole(PastOf(t), t.ready) /\ Sorted(t) /\ ReadyOK(t)
<1> DEFINE t == Serve(l, s)
<1>1. /\ t \in LinkRecords /\ SameRest(s, t)
      /\ \/ SameData(s, t) /\ t.inflight = s.inflight
         \/ t.dataCredit = ~s.dataCredit /\ (ServesMem(s, t) \/ ServesData(s, t))
  BY ServeType
<1> HIDE DEF t
<1>2. CASE SameData(s, t) /\ t.inflight = s.inflight
  <2>1. PastOf(t) = PastOf(s) /\ t.ready = s.ready /\ t.saf = s.saf
    BY <1>1, <1>2, Zenon DEF PastOf, SameRest, SameData
  <2>2. Whole(PastOf(t), t.ready) /\ Sorted(t) /\ ReadyOK(t)
    BY <2>1, Zenon DEF Sorted, ReadyOK, TailWaits
  <2> QED BY <2>2 DEF t
<1>3. CASE ServesMem(s, t)
  <2> DEFINE f == Head(s.mem)
  <2>1. s.mem \in Seq(MemFlits) /\ s.mem # <<>>
    BY <1>3 DEF LinkRecords, ServesMem
  <2>2. f \in MemFlits
    BY <2>1, HeadTail
  <2>3. f \in DataFlits /\ f.type # "DATA"
    BY <2>2, MemFlitFacts
  <2>4. t.ready = s.ready /\ t.saf = s.saf
        /\ t.inflight = Append(s.inflight, [due |-> Latency, flit |-> f])
    BY <1>3, Zenon DEF ServesMem
  <2> HIDE DEF f
  <2>5. PastOf(t) = Append(PastOf(s), f)
    BY <1>1, <2>3, <2>4, EnteredPast
  <2>6. \A k \in Flows : ~IsOf(f, k)
    BY <2>3 DEF IsOf
  <2>7. PastOf(s) \in Seq(DataFlits)
    BY PastType
  <2>8. Whole(Append(PastOf(s), f), s.ready)
    BY <2>3, <2>6, <2>7, WholeAppend
  <2>9. Whole(PastOf(t), t.ready) /\ Sorted(t) /\ ReadyOK(t)
    BY <2>4, <2>5, <2>8, Zenon DEF Sorted, ReadyOK, TailWaits
  <2> QED BY <2>9 DEF t
<1>4. CASE ServesData(s, t)
  <2>1. Whole(PastOf(t), t.ready) /\ Sorted(t) /\ ReadyOK(t)
    BY <1>1, <1>4, ServesDataWhole
  <2> QED BY <2>1 DEF t
<1> QED BY <1>1, <1>2, <1>3, <1>4 DEF t

\* A packet enters the stage, or none: a flow becomes ready with its tail.
LEMMA CaptureWhole ==
  ASSUME NEW s \in LinkRecords, NEW f \in DataFlits \cup {None}, SafOccupancy(s) <= SafDepth,
         Whole(PastOf(s), s.ready), Sorted(s), ReadyOK(s)
  PROVE  LinkWhole(Capture(s, f))
<1> DEFINE t == Capture(s, f)
<1>1. SamePast(s, t) /\ ((t.saf = s.saf /\ t.ready = s.ready) \/ Captures(s, t, f))
  BY CaptureType
<1> HIDE DEF t
<1>2. PastOf(t) = PastOf(s)
  BY <1>1, Zenon DEF PastOf, SamePast
<1>3. CASE t.saf = s.saf /\ t.ready = s.ready
  <2>1. LinkWhole(t)
    BY <1>2, <1>3, Zenon DEF LinkWhole, Sorted, ReadyOK, TailWaits
  <2> QED BY <2>1 DEF t
<1>4. CASE Captures(s, t, f)
  <2> DEFINE k == f.flow
             q == s.saf[k]
             u == Append(q, f)
  <2>1. f \in DataFlits /\ ~IsMem(f)
    BY <1>4 DEF Captures
  <2>2. k \in Flows /\ f.type = "DATA"
    BY <2>1, MemFlitFacts
  <2>3. IsOf(f, k)
    BY <2>2 DEF IsOf
  <2>4. s.ready \in Seq(Flows) /\ s.saf \in [Flows -> Seq(DataFlits)]
    BY DEF LinkRecords
  <2>5. /\ t.saf = [s.saf EXCEPT ![k] = u]
        /\ t.ready = IF f.end THEN Append(s.ready, k) ELSE s.ready
        /\ t.faults = {} => ~Contains(s.ready, k)
    BY <1>4 DEF Captures
  <2>6. t.saf[k] = u /\ \A j \in Flows : j # k => t.saf[j] = s.saf[j]
    BY <2>2, <2>4, <2>5
  <2>7. q \in Seq(DataFlits)
    BY <2>2, <2>4
  <2> HIDE DEF q, k
  <2>8. /\ Len(u) = Len(q) + 1 /\ Len(q) \in Nat /\ u # <<>> /\ u[Len(u)] = f
        /\ \A i \in 1..Len(q) : u[i] = q[i]
    BY <2>1, <2>7
  <2> HIDE DEF u
  <2>9. /\ \A j \in Flows : Contains(s.ready, j) => Contains(t.ready, j)
        /\ \A j \in Flows : Contains(t.ready, j) => Contains(s.ready, j) \/ (j = k /\ f.end)
        /\ ~Contains(s.ready, k) =>
             ((\A i, j \in 1..Len(s.ready) : s.ready[i] = s.ready[j] => i = j) =>
                \A i, j \in 1..Len(t.ready) : t.ready[i] = t.ready[j] => i = j)
    <3> DEFINE r == s.ready
               v == Append(r, k)
               n == Len(r)
    <3>1. CASE ~f.end
      BY <2>5, <3>1, Zenon
    <3>2. CASE f.end
      <4>1. t.ready = v
        BY <2>5, <3>2
      <4>2. n \in Nat /\ Len(v) = n + 1 /\ v[n + 1] = k /\ \A i \in 1..n : v[i] = r[i]
        BY <2>2, <2>4
      <4> HIDE DEF r, v, n
      <4>3. \A i \in 1..n + 1 : i \in 1..n \/ i = n + 1
        BY <4>2
      <4>4. \A i \in 1..n : i \in 1..n + 1
        BY <4>2
      <4>5. n + 1 \in 1..n + 1
        BY <4>2
      <4>6. ASSUME NEW j \in Flows, Contains(r, j) PROVE Contains(v, j)
        BY <4>2, <4>4, <4>6 DEF Contains, n
      <4>7. ASSUME NEW j \in Flows, Contains(v, j) PROVE Contains(r, j) \/ j = k
        BY <4>2, <4>3, <4>7 DEF Contains, n
      <4>8. ASSUME ~Contains(r, k), \A i, j \in 1..n : r[i] = r[j] => i = j,
                   NEW i \in 1..n + 1, NEW j \in 1..n + 1, v[i] = v[j]
            PROVE  i = j
        <5>1. \A x \in 1..n : v[x] # k
          BY <4>2, <4>8 DEF Contains, n
        <5> QED BY <4>2, <4>3, <4>8, <5>1
      <4> QED BY <3>2, <4>1, <4>2, <4>6, <4>7, <4>8 DEF r, n
    <3> QED BY <3>1, <3>2
  <2>10. Whole(PastOf(t), t.ready)
    BY <1>2, <2>9, Zenon DEF Whole, WholeFlow
  <2>11. Sorted(t)
    <3>1. \A i \in 1..Len(q) : IsOf(q[i], k)
      BY <2>2 DEF Sorted, q, k
    <3>2. ASSUME NEW i \in 1..Len(u) PROVE IsOf(u[i], k)
      <4>1. i \in 1..Len(q) \/ i = Len(u)
        BY <2>8
      <4> QED BY <2>3, <2>8, <3>1, <4>1 DEF k
    <3> QED BY <2>6, <3>2 DEF Sorted
  <2>12. ASSUME t.faults = {} PROVE ReadyOK(t)
    <3>1. ~Contains(s.ready, k)
      BY <2>5, <2>12
    <3>2. \A i, j \in 1..Len(t.ready) : t.ready[i] = t.ready[j] => i = j
      BY <2>9, <3>1, Zenon DEF ReadyOK
    <3>3. ASSUME NEW j \in Flows, Contains(t.ready, j)
          PROVE  t.saf[j] # <<>> /\ t.saf[j][Len(t.saf[j])].end
      <4>1. CASE j = k
        <5>1. f.end
          BY <2>9, <3>1, <3>3, <4>1
        <5> QED BY <2>6, <2>8, <4>1, <5>1
      <4>2. CASE j # k
        <5>1. Contains(s.ready, j)
          BY <2>9, <3>3, <4>2
        <5>2. s.saf[j] # <<>> /\ s.saf[j][Len(s.saf[j])].end
          BY <5>1 DEF ReadyOK, TailWaits
        <5> QED BY <2>6, <4>2, <5>2
      <4> QED BY <4>1, <4>2
    <3> QED BY <3>2, <3>3, Zenon DEF ReadyOK, TailWaits
  <2>13. LinkWhole(t)
    BY <2>10, <2>11, <2>12 DEF LinkWhole
  <2> QED BY <2>13 DEF t
<1> QED BY <1>1, <1>3, <1>4

\* A step of a link without faults keeps flows whole.
LEMMA LinkStepWhole ==
  ASSUME NEW l \in Links, LinkOK(link[l]), LinkWhole(link[l]), link[l].faults = {},
         NEW data \in DataFlits \cup {None}, NEW ctrl \in CtrlFlits \cup {None},
         NEW avail, NEW cavail
  PROVE  LinkWhole(LinkStep(l, data, ctrl, avail, cavail))
<1> DEFINE s == link[l]
           a == Offered(l, avail)
           b == Serve(l, a)
           c == Saturate(l, b)
           d == CtrlOut(c, cavail)
           e == CtrlIn(d, ctrl)
           t == Capture(e, data)
<1>1. s \in LinkRecords /\ Bounded(s) /\ SafOccupancy(s) <= SafDepth
  BY DEF LinkOK
<1>2. Whole(PastOf(s), s.ready) /\ Sorted(s) /\ ReadyOK(s)
  BY DEF LinkWhole
<1>3. /\ a \in LinkRecords /\ Bounded(a) /\ SameData(s, a) /\ SameCtrl(s, a)
      /\ PastOf(a) = s.rx \o Flits(s.inflight)
  BY <1>1, OfferedFacts, OfferedPast
<1> HIDE DEF a
<1>4. Whole(PastOf(a), a.ready) /\ Sorted(a) /\ ReadyOK(a)
  <2> DEFINE o == AsSeq(s.out)
             g == Flits(s.inflight)
  <2>1. /\ o \in Seq(DataFlits) /\ s.rx \in Seq(DataFlits) /\ g \in Seq(DataFlits)
        /\ s.rx \o g \in Seq(DataFlits)
    BY <1>1, PastType
  <2> HIDE DEF o, g
  <2>2. PastOf(s) = o \o (s.rx \o g)
    <3>1. \A p, q, r \in Seq(DataFlits) : (p \o q) \o r = p \o (q \o r)
      BY ConcatAssociative
    <3>2. (o \o s.rx) \o g = o \o (s.rx \o g)
      BY <2>1, <3>1, ZenonT(30)
    <3> QED BY <3>2, Zenon DEF PastOf, o, g
  <2>3. Whole(o \o (s.rx \o g), s.ready)
    BY <1>2, <2>2, Zenon
  <2>4. Whole(s.rx \o g, s.ready)
    BY <2>1, <2>3, WholeSuffix
  <2> QED BY <1>2, <1>3, <2>4, Zenon DEF SameData, Sorted, ReadyOK, TailWaits, g
<1> HIDE DEF s
<1>5. /\ b \in LinkRecords /\ SameRest(a, b)
      /\ \/ SameData(a, b) /\ b.inflight = a.inflight
         \/ b.dataCredit = ~a.dataCredit /\ (ServesMem(a, b) \/ ServesData(a, b))
      /\ Whole(PastOf(b), b.ready) /\ Sorted(b) /\ ReadyOK(b)
  BY <1>3, <1>4, ServeType, ServeWhole DEF Bounded
<1> HIDE DEF b
<1>6. c \in LinkRecords /\ SameData(b, c) /\ SameRest(b, c) /\ c.inflight = b.inflight
  BY <1>5, SaturateType
<1> HIDE DEF c
<1>7. /\ d \in LinkRecords /\ SameData(c, d) /\ SamePast(c, d)
      /\ \/ Len(d.ctrl) = Len(c.ctrl)
         \/ Len(d.ctrl) = Len(c.ctrl) - 1
  BY <1>6, CtrlOutType
<1> HIDE DEF d
<1>8. Len(d.ctrl) <= CtrlDepth
  <2>1. Len(c.ctrl) = Len(a.ctrl) /\ Len(a.ctrl) <= CtrlDepth
    BY <1>3, <1>5, <1>6 DEF SameRest, Bounded
  <2>2. Len(c.ctrl) \in Nat
    BY <1>6 DEF LinkRecords
  <2> QED BY <1>7, <2>1, <2>2, LinkConstants
<1>9. e \in LinkRecords /\ SameData(d, e) /\ SamePast(d, e)
  BY <1>7, <1>8, CtrlInType
<1> HIDE DEF e
<1>10. e.saf = b.saf /\ e.ready = b.ready /\ e.mem = b.mem /\ PastOf(e) = PastOf(b)
  BY <1>6, <1>7, <1>9, Zenon DEF SameData, SamePast, SameRest, PastOf
<1>11. Whole(PastOf(e), e.ready) /\ Sorted(e) /\ ReadyOK(e)
  BY <1>5, <1>10, Zenon DEF Sorted, ReadyOK, TailWaits
<1>12. SafOccupancy(e) <= SafDepth
  <2>1. SafOccupancy(e) = SafOccupancy(b) /\ SafOccupancy(a) = SafOccupancy(s)
    BY <1>3, <1>10, Zenon DEF SameData, SafOccupancy
  <2>2. SafOccupancy(b) = SafOccupancy(a) \/ SafOccupancy(b) = SafOccupancy(a) - 1
    <3>1. SameData(a, b) => SafOccupancy(b) = SafOccupancy(a)
      BY Zenon DEF SameData, SafOccupancy
    <3> QED BY <1>3, <1>5, <3>1, ServedOccupancy
  <2>3. SafOccupancy(s) \in Nat /\ SafDepth \in Nat
    BY <1>1, OccupancyType, LinkConstants
  <2> QED BY <1>1, <2>1, <2>2, <2>3
<1>13. LinkWhole(t)
  BY <1>9, <1>11, <1>12, CaptureWhole
<1> QED BY <1>13 DEF t, e, d, c, b, a, LinkStep
=============================================================================
