--------------------------- MODULE DteUnitProofs ---------------------------
(***************************************************************************)
(* Theorems about DteUnit, for every number of contexts, channels and      *)
(* slots, every credit limit, launch time and set of port widths.          *)
(*                                                                         *)
(* The inductive invariant is the conjunction of what the runs check:      *)
(* types, the agreement of ports with masks, of queues with states and of  *)
(* counters with states.  Ports need queues (a context leaves the pending  *)
(* queue only while it holds no port), queues need states, counters need   *)
(* both.                                                                   *)
(***************************************************************************)
EXTENDS DteUnit, FiniteSetTheorems, SequenceTheorems, TLAPS

IInv ==
  /\ TypeOK
  /\ OwnersMatchMasks
  /\ QueuesMatchStates
  /\ activeCount = Cardinality(Admitted)
  /\ inflightCount = Cardinality(Unfinished)
-----------------------------------------------------------------------------
(* Facts about the constants and the helpers.                              *)

\* The command slots of the engine: a non-empty finite range of integers.
LEMMA SlotFacts ==
  /\ SlotCount \in Nat
  /\ SlotCount > 0
  /\ Slots \subseteq Int
  /\ \A s \in Slots : s \in 0 .. SlotCount - 1
BY ConfigAssumption DEF SlotCount, Slots

\* RequiredPorts() asks for known ports, and for at least one.
LEMMA PortFacts ==
  ASSUME NEW d \in Directions
  PROVE  RequiredPorts(d) \subseteq Ports /\ RequiredPorts(d) # {}
<1>1. CASE ~FineGrained
  BY <1>1 DEF RequiredPorts, Ports
<1>2. CASE FineGrained
  BY <1>2 DEF RequiredPorts, Ports, Directions
<1> QED BY <1>1, <1>2, ConfigAssumption

\* The service time of a transfer is a number of cycles.
LEMMA ServiceTimeType ==
  ASSUME NEW b \in Nat, NEW p \in Ports
  PROVE  ServiceTime(b, p) \in Nat
<1>1. PortWidth[p] \in Nat \ {0}
  BY ConfigAssumption
<1> DEFINE w == PortWidth[p]
<1>2. b + w - 1 \in Nat /\ w \in Nat \ {0}
  BY <1>1
<1> HIDE DEF w
<1>3. (b + w - 1) \div w \in Nat
  BY <1>2
<1> QED BY <1>3 DEF ServiceTime, w

\* The descriptor capacity is a positive number.
LEMMA CapacityFacts == DescriptorCapacity \in Nat /\ DescriptorCapacity > 0
<1>1. Cardinality(Xfers) \in Nat
  BY ConfigAssumption, FS_CardinalityType
<1> QED BY <1>1, SlotFacts, ConfigAssumption DEF DescriptorCapacity

\* Removing one element of a sequence closes the gap.
LEMMA RemoveAtFacts ==
  ASSUME NEW S, NEW q \in Seq(S), NEW i \in 1 .. Len(q)
  PROVE  /\ RemoveAt(q, i) \in Seq(S)
         /\ Len(RemoveAt(q, i)) = Len(q) - 1
         /\ \A j \in 1 .. Len(q) - 1 :
              RemoveAt(q, i)[j] = IF j < i THEN q[j] ELSE q[j + 1]
<1> DEFINE a == SubSeq(q, 1, i - 1)
           b == SubSeq(q, i + 1, Len(q))
<1>1. a \in Seq(S) /\ Len(a) = i - 1 /\ \A j \in 1 .. i - 1 : a[j] = q[j]
  OBVIOUS
<1>2. b \in Seq(S) /\ Len(b) = Len(q) - i
      /\ \A j \in 1 .. Len(q) - i : b[j] = q[j + i]
  OBVIOUS
<1> HIDE DEF a, b
<1>3. a \o b \in Seq(S) /\ Len(a \o b) = Len(q) - 1
  <2>1. a \o b \in Seq(S) /\ Len(a \o b) = Len(a) + Len(b)
    BY <1>1, <1>2, ConcatProperties, Zenon
  <2> QED BY <2>1, <1>1, <1>2
<1>4. ASSUME NEW j \in 1 .. Len(q) - 1
      PROVE  (a \o b)[j] = IF j < i THEN q[j] ELSE q[j + 1]
  <2>1. CASE j < i
    BY <2>1, <1>1, <1>2
  <2>2. CASE ~(j < i)
    <3>1. (a \o b)[j] = b[j - (i - 1)]
      BY <2>2, <1>1, <1>2
    <3>2. j - (i - 1) \in 1 .. Len(q) - i /\ (j - (i - 1)) + i = j + 1
      BY <2>2
    <3> QED BY <2>2, <3>1, <3>2, <1>2
  <2> QED BY <2>1, <2>2
<1>5. RemoveAt(q, i) = a \o b
  BY DEF RemoveAt, a, b
<1> QED BY <1>3, <1>4, <1>5

\* The sets the counters count are finite.
LEMMA Finite ==
  ASSUME TypeOK
  PROVE  /\ IsFiniteSet(Admitted) /\ Cardinality(Admitted) \in Nat
         /\ IsFiniteSet(Unfinished) /\ Cardinality(Unfinished) \in Nat
<1>1. Admitted \in SUBSET Xfers /\ Unfinished \in SUBSET Xfers
  BY DEF Admitted, Unfinished
<1>2. IsFiniteSet(Admitted) /\ IsFiniteSet(Unfinished)
  BY <1>1, ConfigAssumption, FS_Subset
<1> QED BY <1>2, FS_CardinalityType

\* The elements of the pending queue are contexts.
LEMMA PendingElements ==
  ASSUME TypeOK
  PROVE  \A i \in 1 .. Len(pending) : pending[i] \in Xfers
<1>1. pending \in Seq(Xfers)
  BY DEF TypeOK
<1> QED BY <1>1, ElementOfSeq, Zenon
-----------------------------------------------------------------------------
(* The clients keep the invariant.                                         *)

\* TryIssue() takes a credit that is free and appends the context.
LEMMA IssueInv ==
  ASSUME IInv, NEW x \in Xfers, NEW b \in Payloads, NEW d \in Dirs,
         Issue(x, b, d)
  PROVE  IInv'
<1> USE DEF IInv, Issue
<1>1. TypeOK'
  <2>1. inflightCount' \in 0 .. DescriptorCapacity
    BY CapacityFacts DEF TypeOK, CanAccept
  <2>2. state' \in [Xfers -> States] /\ dir' \in [Xfers -> Directions]
        /\ bits' \in [Xfers -> Nat] /\ pending' \in Seq(Xfers)
    BY ConfigAssumption DEF TypeOK, States
  <2> QED BY <2>1, <2>2 DEF TypeOK
<1>2. OwnersMatchMasks'
  BY DEF OwnersMatchMasks, TypeOK
<1>3. QueuesMatchStates'
  <2>1. /\ Len(pending') = Len(pending) + 1
        /\ pending'[Len(pending) + 1] = x
        /\ \A i \in 1 .. Len(pending) : pending'[i] = pending[i]
        /\ Len(pending) \in Nat
    BY DEF TypeOK
  <2>2. state'[x] = "PENDING" /\ \A y \in Xfers : y # x => state'[y] = state[y]
    BY DEF TypeOK
  <2>3. \A i \in 1 .. Len(pending) : pending[i] # x /\ pending[i] \in Xfers
    <3>1. \A i \in 1 .. Len(pending) : pending[i] \in Xfers
      BY PendingElements
    <3>2. \A i \in 1 .. Len(pending) : pending[i] # x
      BY DEF QueuesMatchStates
    <3> QED BY <3>1, <3>2
  <2>4. \A y \in Xfers : y \in Admitted' <=> y \in Admitted
    BY <2>2 DEF Admitted
  <2> QED BY <2>1, <2>2, <2>3, <2>4 DEF QueuesMatchStates
<1>4. activeCount' = Cardinality(Admitted')
  <2>1. Admitted' = Admitted
    BY DEF Admitted, TypeOK
  <2> QED BY <2>1
<1>5. inflightCount' = Cardinality(Unfinished')
  <2>1. Unfinished' = Unfinished \union {x} /\ x \notin Unfinished
    BY DEF Unfinished, Admitted, TypeOK
  <2> QED BY <2>1, Finite, FS_AddElement
<1> QED BY <1>1, <1>2, <1>3, <1>4, <1>5

\* Cancel() gives the credit back and takes the context out of the queue.
LEMMA CancelInv ==
  ASSUME IInv, NEW x \in Xfers, Cancel(x)
  PROVE  IInv'
<1> USE DEF IInv
<1>1. PICK i \in 1 .. Len(pending) :
        pending[i] = x /\ pending' = RemoveAt(pending, i)
  BY DEF Cancel
<1>2. /\ pending' \in Seq(Xfers)
      /\ Len(pending') = Len(pending) - 1
      /\ Len(pending) \in Nat
      /\ \A j \in 1 .. Len(pending) - 1 :
           pending'[j] = IF j < i THEN pending[j] ELSE pending[j + 1]
  <2>1. pending \in Seq(Xfers) /\ Len(pending) \in Nat
    BY DEF TypeOK
  <2>2. /\ RemoveAt(pending, i) \in Seq(Xfers)
        /\ Len(RemoveAt(pending, i)) = Len(pending) - 1
        /\ \A j \in 1 .. Len(pending) - 1 :
             RemoveAt(pending, i)[j] = IF j < i THEN pending[j] ELSE pending[j + 1]
    BY <2>1, RemoveAtFacts, Zenon
  <2> QED BY <2>1, <2>2, <1>1
<1>3. state'[x] = "CANCELLED" /\ state[x] = "PENDING"
      /\ \A y \in Xfers : y # x => state'[y] = state[y]
  BY DEF TypeOK, Cancel
<1>4. Unfinished' = Unfinished \ {x} /\ x \in Unfinished
  BY <1>3 DEF Unfinished, Admitted
<1>5. inflightCount' = Cardinality(Unfinished')
  BY <1>4, Finite, FS_RemoveElement DEF Cancel
<1>6. TypeOK'
  <2>1. inflightCount' \in 0 .. DescriptorCapacity
    <3>1. Cardinality(Unfinished') \in Nat
      BY <1>4, Finite, FS_RemoveElement, FS_CardinalityType
    <3> QED BY <3>1, <1>5, CapacityFacts DEF Cancel, TypeOK
  <2>2. state' \in [Xfers -> States]
    BY DEF TypeOK, Cancel, States
  <2> QED BY <2>1, <2>2, <1>2 DEF TypeOK, Cancel
<1>7. OwnersMatchMasks'
  BY <1>3 DEF OwnersMatchMasks, Cancel
<1>8. QueuesMatchStates'
  <2>1. \A y \in Xfers : y \in Admitted' <=> y \in Admitted
    BY <1>3 DEF Admitted
  <2>2. ASSUME NEW y \in Xfers
        PROVE  state'[y] = "PENDING" <=>
                 \E k \in 1 .. Len(pending') : pending'[k] = y
    <3>1. CASE y = x
      <4>1. ASSUME NEW k \in 1 .. Len(pending'), pending'[k] = x
            PROVE  FALSE
        <5>1. PICK n \in 1 .. Len(pending) : n # i /\ pending[n] = x
          BY <4>1, <1>2
        <5> QED BY <5>1, <1>1 DEF QueuesMatchStates
      <4> QED BY <4>1, <3>1, <1>3
    <3>2. CASE y # x
      <4>1. ASSUME NEW k \in 1 .. Len(pending), pending[k] = y
            PROVE  \E m \in 1 .. Len(pending') : pending'[m] = y
        <5>1. k # i
          BY <4>1, <3>2, <1>1
        <5>2. CASE k < i
          <6>1. k \in 1 .. Len(pending') /\ pending'[k] = y
            BY <5>2, <4>1, <1>2, <1>1
          <6> QED BY <6>1
        <5>3. CASE k > i
          <6>1. k - 1 \in 1 .. Len(pending') /\ pending'[k - 1] = y
            BY <5>3, <4>1, <1>2, <1>1
          <6> QED BY <6>1
        <5> QED BY <5>1, <5>2, <5>3
      <4>2. ASSUME NEW k \in 1 .. Len(pending'), pending'[k] = y
            PROVE  \E m \in 1 .. Len(pending) : pending[m] = y
        BY <4>2, <1>2
      <4> QED BY <4>1, <4>2, <3>2, <1>3 DEF QueuesMatchStates
    <3> QED BY <3>1, <3>2
  <2>3. \A k, m \in 1 .. Len(pending') : pending'[k] = pending'[m] => k = m
    <3> SUFFICES ASSUME NEW k \in 1 .. Len(pending'), NEW m \in 1 .. Len(pending'),
                        pending'[k] = pending'[m]
                 PROVE  k = m
      OBVIOUS
    <3> DEFINE kk == IF k < i THEN k ELSE k + 1
               mm == IF m < i THEN m ELSE m + 1
    <3>1. kk \in 1 .. Len(pending) /\ mm \in 1 .. Len(pending)
      BY <1>2
    <3>2. pending[kk] = pending'[k] /\ pending[mm] = pending'[m]
      BY <1>2
    <3>3. kk = mm
      BY <3>1, <3>2 DEF QueuesMatchStates
    <3> QED BY <3>3
  <2> QED BY <2>1, <2>2, <2>3 DEF QueuesMatchStates, Cancel
<1>9. activeCount' = Cardinality(Admitted')
  <2>1. Admitted' = Admitted
    BY <1>3 DEF Admitted
  <2> QED BY <2>1 DEF Cancel
<1> QED BY <1>5, <1>6, <1>7, <1>8, <1>9

\* Release() only touches a context that holds nothing.
LEMMA ReleaseInv ==
  ASSUME IInv, NEW x \in Xfers, Release(x)
  PROVE  IInv'
<1> USE DEF IInv, Release, Releasable, tableVars, loopVars
<1>1. state' \in [Xfers -> States] /\ dir' \in [Xfers -> Directions]
      /\ bits' \in [Xfers -> Nat]
  <2>1. AnyDir \in Directions
    BY DEF AnyDir, Directions
  <2> QED BY <2>1 DEF TypeOK, States
<1>2. TypeOK'
  BY <1>1 DEF TypeOK
<1>3. state[x] \in {"COMPLETED", "CANCELLED"} /\ state'[x] = "FREE"
      /\ \A y \in Xfers : y # x => state'[y] = state[y]
  BY DEF TypeOK
<1>4. OwnersMatchMasks'
  BY <1>3 DEF OwnersMatchMasks
<1>5. Admitted' = Admitted /\ Unfinished' = Unfinished
  BY <1>3 DEF Admitted, Unfinished
<1>6. QueuesMatchStates'
  BY <1>3, <1>5 DEF QueuesMatchStates
<1> QED BY <1>2, <1>4, <1>5, <1>6
-----------------------------------------------------------------------------
(* The scheduler keeps the invariant.                                      *)

\* The constructor establishes the invariant: everything is empty.
LEMMA InitInv == Init => IInv
<1> SUFFICES ASSUME Init PROVE IInv
  OBVIOUS
<1> USE DEF Init
<1>1. TypeOK
  <2>1. AnyDir \in Directions /\ NoTimes \in [Ports -> Nat]
    BY DEF AnyDir, Directions, NoTimes
  <2>2. pending \in Seq(Xfers)
    OBVIOUS
  <2>3. lastServed \in -1 .. SlotCount - 1 /\ inflightCount \in 0 .. DescriptorCapacity
    BY SlotFacts, CapacityFacts
  <2> QED BY <2>1, <2>2, <2>3 DEF TypeOK, States
<1>2. OwnersMatchMasks
  BY ConfigAssumption DEF OwnersMatchMasks
<1>3. Admitted = {} /\ Unfinished = {}
  BY DEF Admitted, Unfinished
<1>4. QueuesMatchStates
  <2>1. Len(pending) = 0 /\ \A i \in 1 .. Len(pending) : FALSE
    OBVIOUS
  <2> QED BY <2>1, <1>3, ConfigAssumption DEF QueuesMatchStates
<1>5. Cardinality(Admitted) = 0 /\ Cardinality(Unfinished) = 0
  BY <1>3, FS_EmptySet
<1> QED BY <1>1, <1>2, <1>4, <1>5 DEF IInv

\* A step that leaves the contexts' states, the queues, the ports and the
\* counters alone keeps the invariant if it keeps the types.
LEMMA QuietInv ==
  ASSUME IInv, TypeOK',
         UNCHANGED <<state, mask, pending, active, owner, activeCount, inflightCount>>
  PROVE  IInv'
<1>1. Admitted' = Admitted /\ Unfinished' = Unfinished
  BY DEF Admitted, Unfinished
<1>2. OwnersMatchMasks'
  BY DEF IInv, OwnersMatchMasks
<1>3. QueuesMatchStates'
  BY <1>1 DEF IInv, QueuesMatchStates
<1> QED BY <1>1, <1>2, <1>3 DEF IInv

\* The scheduler's own bookkeeping and the passage of time.
LEMMA LoopInv ==
  ASSUME IInv, Wake \/ AdmitDone \/ RoundDone \/ Tick
  PROVE  IInv'
<1> USE DEF ctxVars, tableVars, loopVars
<1>1. CASE Wake
  <2>1. TypeOK'
    BY <1>1 DEF Wake, IInv, TypeOK
  <2> QED BY <1>1, <2>1, QuietInv DEF Wake
<1>2. CASE AdmitDone
  <2>1. TypeOK'
    BY <1>2 DEF AdmitDone, IInv, TypeOK
  <2> QED BY <1>2, <2>1, QuietInv DEF AdmitDone
<1>3. CASE RoundDone
  <2>1. TypeOK'
    BY <1>3 DEF RoundDone, IInv, TypeOK
  <2> QED BY <1>3, <2>1, QuietInv DEF RoundDone
<1>4. CASE Tick
  <2>1. launchLeft' \in [Xfers -> Nat]
    BY <1>4 DEF Tick, IInv, TypeOK
  <2>2. portLeft' \in [Xfers -> [Ports -> Nat]]
    BY <1>4 DEF Tick, IInv, TypeOK
  <2>3. TypeOK'
    BY <1>4, <2>1, <2>2 DEF Tick, IInv, TypeOK
  <2> QED BY <1>4, <2>3, QuietInv DEF Tick
<1> QED BY <1>1, <1>2, <1>3, <1>4

\* finishLaunches() moves contexts between two admitted states that hold no
\* port.
LEMMA FinishLaunchesInv ==
  ASSUME IInv, FinishLaunches
  PROVE  IInv'
<1> USE DEF FinishLaunches, tableVars
<1>1. TypeOK'
  <2>1. state' \in [Xfers -> States]
    BY DEF IInv, TypeOK, States
  <2>2. progressed' \in BOOLEAN
    BY DEF IInv, TypeOK
  <2> QED BY <2>1, <2>2 DEF IInv, TypeOK
<1>2. \A x \in Xfers : \/ state'[x] = state[x]
                       \/ state[x] = "LAUNCHING" /\ state'[x] = "BUS_WAIT"
  BY DEF LaunchesDue
<1>3. Admitted' = Admitted /\ Unfinished' = Unfinished
  BY <1>2 DEF Admitted, Unfinished
<1>4. OwnersMatchMasks'
  BY <1>2 DEF IInv, OwnersMatchMasks
<1>5. QueuesMatchStates'
  BY <1>2, <1>3 DEF IInv, QueuesMatchStates
<1> QED BY <1>1, <1>3, <1>4, <1>5 DEF IInv

\* finishPortServices() frees the ports whose service ended and, with a
\* context's last port, its slot, its count and its credit.
LEMMA FinishPortServicesInv ==
  ASSUME IInv, FinishPortServices
  PROVE  IInv'
<1> USE DEF FinishPortServices
<1>1. Completing \subseteq Admitted /\ Completing \subseteq Unfinished
      /\ Completing \subseteq ServicesDue /\ ServicesDue \subseteq Xfers
  BY DEF Completing, ServicesDue, Admitted, Unfinished
<1>2. \A x \in Xfers :
        /\ x \in Completing => state[x] = "TRANSMITTING" /\ state'[x] = "COMPLETED"
        /\ x \notin Completing => state'[x] = state[x]
  BY DEF Completing, ServicesDue
<1>3. Admitted' = Admitted \ Completing /\ Unfinished' = Unfinished \ Completing
  BY <1>2 DEF Admitted, Unfinished
<1>4. /\ activeCount' = Cardinality(Admitted')
      /\ inflightCount' = Cardinality(Unfinished')
      /\ activeCount' \in Nat /\ inflightCount' \in Nat
      /\ inflightCount' <= inflightCount
  <2>1. TypeOK
    BY DEF IInv
  <2>2. Admitted \cap Completing = Completing /\ Unfinished \cap Completing = Completing
    BY <1>1
  <2>3. /\ IsFiniteSet(Admitted \ Completing)
        /\ Cardinality(Admitted \ Completing)
             = Cardinality(Admitted) - Cardinality(Admitted \cap Completing)
    BY <2>1, Finite, FS_Difference
  <2>4. /\ IsFiniteSet(Unfinished \ Completing)
        /\ Cardinality(Unfinished \ Completing)
             = Cardinality(Unfinished) - Cardinality(Unfinished \cap Completing)
    BY <2>1, Finite, FS_Difference
  <2>5. Cardinality(Completing) \in Nat
    BY <1>1, <2>1, Finite, FS_Subset, FS_CardinalityType
  <2>6. Cardinality(Admitted') \in Nat /\ Cardinality(Unfinished') \in Nat
    BY <1>3, <2>3, <2>4, FS_CardinalityType
  <2>7. activeCount' = Cardinality(Admitted')
        /\ inflightCount' = Cardinality(Unfinished')
    BY <2>2, <2>3, <2>4, <1>3 DEF IInv
  <2> QED BY <2>5, <2>6, <2>7 DEF IInv, TypeOK
<1>5. TypeOK'
  <2>1. state' \in [Xfers -> States] /\ mask' \in [Xfers -> SUBSET Ports]
    BY DEF IInv, TypeOK, States
  <2>2. NoTimes \in [Ports -> Nat]
    BY DEF NoTimes
  <2>3. portLeft' \in [Xfers -> [Ports -> Nat]]
    BY <2>2 DEF IInv, TypeOK
  <2>4. active' \in [Slots -> Xfers \union {None}]
        /\ owner' \in [Ports -> Xfers \union {None}]
    BY DEF IInv, TypeOK
  <2>5. inflightCount' \in 0 .. DescriptorCapacity
    BY <1>4, CapacityFacts DEF IInv, TypeOK
  <2> QED BY <1>4, <2>1, <2>3, <2>4, <2>5 DEF IInv, TypeOK
<1>6. OwnersMatchMasks'
  <2> SUFFICES ASSUME NEW p \in Ports, NEW x \in Xfers
               PROVE  owner'[p] = x <=> state'[x] = "TRANSMITTING" /\ p \in mask'[x]
    BY DEF OwnersMatchMasks
  <2>1. owner[p] = x <=> state[x] = "TRANSMITTING" /\ p \in mask[x]
    BY DEF IInv, OwnersMatchMasks
  <2>2. \A y \in ServicesDue : p \in DuePorts(y) => owner[p] = y
    BY DEF IInv, OwnersMatchMasks, ServicesDue, DuePorts
  <2>3. mask'[x] = IF x \in ServicesDue THEN mask[x] \ DuePorts(x) ELSE mask[x]
    OBVIOUS
  <2>4. CASE \E y \in ServicesDue : p \in DuePorts(y)
    <3>1. PICK y \in ServicesDue : p \in DuePorts(y)
      BY <2>4
    <3>2. owner'[p] = None /\ owner[p] = y
      BY <2>2, <3>1
    <3>3. owner'[p] # x
      BY <3>2, ConfigAssumption
    <3>4. CASE x = y
      BY <3>1, <3>3, <3>4, <2>3
    <3>5. CASE x # y
      <4>1. ~(state[x] = "TRANSMITTING" /\ p \in mask[x])
        BY <3>2, <3>5, <2>1
      <4> QED BY <4>1, <3>3, <2>3, <1>2
    <3> QED BY <3>4, <3>5
  <2>5. CASE ~(\E y \in ServicesDue : p \in DuePorts(y))
    <3>1. owner'[p] = owner[p]
      BY <2>5
    <3>2. p \in mask'[x] <=> p \in mask[x]
      BY <2>3, <2>5
    <3>3. x \in Completing => p \notin mask[x]
      BY <2>5 DEF Completing
    <3> QED BY <3>1, <3>2, <3>3, <2>1, <1>2
  <2> QED BY <2>4, <2>5
<1>7. QueuesMatchStates'
  <2>1. \A x \in Xfers : state'[x] = "PENDING" <=> state[x] = "PENDING"
    BY <1>2
  <2>2. \A s \in Slots : active'[s] = IF active[s] \in Completing THEN None ELSE active[s]
    OBVIOUS
  <2>3. \A x \in Xfers : x \in Admitted' <=> \E s \in Slots : active'[s] = x
    BY <1>3, <2>2, ConfigAssumption DEF IInv, QueuesMatchStates
  <2>4. \A s, t \in Slots : active'[s] = active'[t] => s = t \/ active'[s] = None
    BY <2>2 DEF IInv, QueuesMatchStates
  <2> QED BY <2>1, <2>3, <2>4 DEF IInv, QueuesMatchStates
<1> QED BY <1>4, <1>5, <1>6, <1>7 DEF IInv

\* admitPending() moves the head of the queue into a slot that was free.
LEMMA AdmitPendingInv ==
  ASSUME IInv, AdmitPending
  PROVE  IInv'
<1> DEFINE x == Head(pending)
<1>1. /\ pending \in Seq(Xfers) /\ pending # <<>> /\ Len(pending) \in Nat
      /\ Len(pending) >= 1
      /\ x = pending[1] /\ pending' = Tail(pending)
      /\ Tail(pending) \in Seq(Xfers)
      /\ Len(Tail(pending)) = Len(pending) - 1
      /\ \A i \in 1 .. Len(pending) - 1 : Tail(pending)[i] = pending[i + 1]
  BY DEF AdmitPending, Admissible, IInv, TypeOK
<1>2. x \in Xfers /\ state[x] = "PENDING"
  <2>1. 1 \in 1 .. Len(pending)
    BY <1>1
  <2>2. x \in Xfers
    BY <2>1, <1>1, PendingElements DEF IInv
  <2> QED BY <2>1, <2>2, <1>1 DEF IInv, QueuesMatchStates
<1>3. PICK s \in Slots : /\ active[s] = None
                         /\ active' = [active EXCEPT ![s] = x]
                         /\ state' = [state EXCEPT ![x] = "LAUNCHING"]
                         /\ launchLeft' = [launchLeft EXCEPT ![x] = LaunchTime]
  BY DEF AdmitPending
<1> HIDE DEF x
<1>4. state'[x] = "LAUNCHING" /\ \A y \in Xfers : y # x => state'[y] = state[y]
  BY <1>2, <1>3 DEF IInv, TypeOK
<1>5. active'[s] = x /\ \A t \in Slots : t # s => active'[t] = active[t]
  BY <1>3 DEF IInv, TypeOK
<1>6. Admitted' = Admitted \union {x} /\ x \notin Admitted /\ Unfinished' = Unfinished
  BY <1>2, <1>4 DEF Admitted, Unfinished
<1>7. activeCount' = Cardinality(Admitted') /\ inflightCount' = Cardinality(Unfinished')
  <2>1. Cardinality(Admitted \union {x}) = Cardinality(Admitted) + 1
    BY <1>6, Finite, FS_AddElement DEF IInv
  <2> QED BY <2>1, <1>6 DEF IInv, AdmitPending
<1>8. TypeOK'
  <2>1. state' \in [Xfers -> States] /\ active' \in [Slots -> Xfers \union {None}]
    BY <1>2, <1>3 DEF IInv, TypeOK, States
  <2>2. launchLeft' \in [Xfers -> Nat]
    BY <1>2, <1>3, ConfigAssumption DEF IInv, TypeOK
  <2> QED BY <2>1, <2>2, <1>1 DEF IInv, TypeOK, AdmitPending
<1>9. OwnersMatchMasks'
  BY <1>2, <1>4 DEF IInv, OwnersMatchMasks, AdmitPending
<1>10. QueuesMatchStates'
  <2>1. \A i \in 1 .. Len(pending) : i # 1 => pending[i] # x
    BY <1>1 DEF IInv, QueuesMatchStates
  <2>2. ASSUME NEW y \in Xfers
        PROVE  state'[y] = "PENDING" <=> \E i \in 1 .. Len(pending') : pending'[i] = y
    <3>1. CASE y = x
      <4>1. ASSUME NEW i \in 1 .. Len(pending'), pending'[i] = x
            PROVE  FALSE
        BY <4>1, <2>1, <1>1
      <4> QED BY <4>1, <3>1, <1>4
    <3>2. CASE y # x
      <4>1. ASSUME NEW i \in 1 .. Len(pending), pending[i] = y
            PROVE  \E j \in 1 .. Len(pending') : pending'[j] = y
        <5>1. i - 1 \in 1 .. Len(pending') /\ pending'[i - 1] = y
          BY <4>1, <3>2, <1>1
        <5> QED BY <5>1
      <4>2. ASSUME NEW j \in 1 .. Len(pending'), pending'[j] = y
            PROVE  \E i \in 1 .. Len(pending) : pending[i] = y
        <5>1. j + 1 \in 1 .. Len(pending) /\ pending[j + 1] = y
          BY <4>2, <1>1
        <5> QED BY <5>1
      <4> QED BY <4>1, <4>2, <3>2, <1>4 DEF IInv, QueuesMatchStates
    <3> QED BY <3>1, <3>2
  <2>3. \A i, j \in 1 .. Len(pending') : pending'[i] = pending'[j] => i = j
    <3> SUFFICES ASSUME NEW i \in 1 .. Len(pending'), NEW j \in 1 .. Len(pending'),
                        pending'[i] = pending'[j]
                 PROVE  i = j
      OBVIOUS
    <3>1. /\ i + 1 \in 1 .. Len(pending) /\ j + 1 \in 1 .. Len(pending)
          /\ pending[i + 1] = pending[j + 1]
      BY <1>1
    <3>2. i + 1 = j + 1
      BY <3>1 DEF IInv, QueuesMatchStates
    <3> QED BY <3>2
  <2>4. \A y \in Xfers : y \in Admitted' <=> \E t \in Slots : active'[t] = y
    BY <1>2, <1>3, <1>5, <1>6, ConfigAssumption DEF IInv, QueuesMatchStates
  <2>5. \A t, u \in Slots : active'[t] = active'[u] => t = u \/ active'[t] = None
    <3>1. \A t \in Slots : active[t] # x
      BY <1>2, <1>6 DEF IInv, QueuesMatchStates
    <3> QED BY <3>1, <1>5 DEF IInv, QueuesMatchStates
  <2> QED BY <2>2, <2>3, <2>4, <2>5 DEF QueuesMatchStates
<1> QED BY <1>7, <1>8, <1>9, <1>10 DEF IInv

\* startReadyTransfers() gives a waiting context ports that nobody owns.
LEMMA StartReadyTransferInv ==
  ASSUME IInv, StartReadyTransfer
  PROVE  IInv'
<1>1. PICK offset \in 1 .. SlotCount :
        LET s == ProbedSlot(offset)
            x == active[s]
        IN /\ SlotReady(s)
           /\ state' = [state EXCEPT ![x] = "TRANSMITTING"]
           /\ mask' = [mask EXCEPT ![x] = RequiredPorts(dir[x])]
           /\ owner' = [p \in Ports |->
                          IF p \in RequiredPorts(dir[x]) THEN x ELSE owner[p]]
           /\ portLeft' = [portLeft EXCEPT ![x] =
                             [p \in Ports |-> IF p \in RequiredPorts(dir[x])
                                              THEN ServiceTime(bits[x], p) ELSE 0]]
           /\ lastServed' = s
  BY DEF StartReadyTransfer
<1> DEFINE s == ProbedSlot(offset)
           x == active[s]
           R == RequiredPorts(dir[x])
<1>2. s \in Slots
  <2>1. lastServed \in Int /\ lastServed + offset + SlotCount \in Int
    BY SlotFacts DEF IInv, TypeOK
  <2>2. (lastServed + offset + SlotCount) % SlotCount \in 0 .. SlotCount - 1
    BY <2>1, SlotFacts
  <2> QED BY <2>2 DEF ProbedSlot, Slots
<1>3. x \in Xfers /\ state[x] = "BUS_WAIT" /\ \A p \in R : owner[p] = None
  BY <1>1, <1>2 DEF SlotReady, ResourcesAvailable, IInv, TypeOK
<1>4. R \subseteq Ports
  BY <1>3, PortFacts DEF IInv, TypeOK
<1>5. /\ state' = [state EXCEPT ![x] = "TRANSMITTING"]
      /\ mask' = [mask EXCEPT ![x] = R]
      /\ owner' = [p \in Ports |-> IF p \in R THEN x ELSE owner[p]]
      /\ portLeft' = [portLeft EXCEPT ![x] =
                        [p \in Ports |-> IF p \in R THEN ServiceTime(bits[x], p) ELSE 0]]
      /\ lastServed' = s
  BY <1>1
<1>6. [p \in Ports |-> IF p \in R THEN ServiceTime(bits[x], p) ELSE 0] \in [Ports -> Nat]
  BY <1>3, ServiceTimeType DEF IInv, TypeOK
<1> HIDE DEF s, x, R
<1>7. state'[x] = "TRANSMITTING" /\ \A y \in Xfers : y # x => state'[y] = state[y]
  BY <1>3, <1>5 DEF IInv, TypeOK
<1>8. TypeOK'
  <2>1. state' \in [Xfers -> States] /\ mask' \in [Xfers -> SUBSET Ports]
    BY <1>3, <1>4, <1>5 DEF IInv, TypeOK, States
  <2>2. owner' \in [Ports -> Xfers \union {None}]
    BY <1>3, <1>5 DEF IInv, TypeOK
  <2>3. portLeft' \in [Xfers -> [Ports -> Nat]]
    BY <1>3, <1>5, <1>6 DEF IInv, TypeOK
  <2>4. lastServed' \in -1 .. SlotCount - 1
    BY <1>2, <1>5, SlotFacts
  <2> QED BY <2>1, <2>2, <2>3, <2>4 DEF StartReadyTransfer, IInv, TypeOK
<1>9. Admitted' = Admitted /\ Unfinished' = Unfinished
  BY <1>3, <1>7 DEF Admitted, Unfinished
<1>10. OwnersMatchMasks'
  <2> SUFFICES ASSUME NEW p \in Ports, NEW y \in Xfers
               PROVE  owner'[p] = y <=> state'[y] = "TRANSMITTING" /\ p \in mask'[y]
    BY DEF OwnersMatchMasks
  <2>1. owner[p] = y <=> state[y] = "TRANSMITTING" /\ p \in mask[y]
    BY DEF IInv, OwnersMatchMasks
  <2>2. owner'[p] = IF p \in R THEN x ELSE owner[p]
    BY <1>5
  <2>3. mask'[y] = IF y = x THEN R ELSE mask[y]
    BY <1>3, <1>5 DEF IInv, TypeOK
  <2>4. CASE y = x
    <3>1. owner[p] # x
      BY <2>1, <2>4, <1>3
    <3> QED BY <2>2, <2>3, <2>4, <3>1, <1>7
  <2>5. CASE y # x
    <3>1. p \in R => owner[p] # y
      BY <1>3, ConfigAssumption
    <3> QED BY <2>1, <2>2, <2>3, <2>5, <3>1, <1>7
  <2> QED BY <2>4, <2>5
<1>11. QueuesMatchStates'
  BY <1>3, <1>7, <1>9 DEF IInv, QueuesMatchStates, StartReadyTransfer
<1> QED BY <1>8, <1>9, <1>10, <1>11 DEF IInv, StartReadyTransfer
-----------------------------------------------------------------------------
(* The theorems.                                                           *)

\* Every action, and a step of the environment, keeps the invariant.
LEMMA NextInv == IInv /\ [Next]_vars => IInv'
<1> SUFFICES ASSUME IInv, [Next]_vars PROVE IInv'
  OBVIOUS
<1>1. CASE Client
  BY <1>1, IssueInv, CancelInv, ReleaseInv DEF Client
<1>2. CASE Scheduler
  BY <1>2, LoopInv, FinishPortServicesInv, FinishLaunchesInv, AdmitPendingInv,
     StartReadyTransferInv DEF Scheduler
<1>3. CASE Tick
  BY <1>3, LoopInv
<1>4. CASE UNCHANGED vars
  <2>1. TypeOK'
    BY <1>4 DEF vars, IInv, TypeOK
  <2> QED BY <2>1, <1>4, QuietInv DEF vars
<1> QED BY <1>1, <1>2, <1>3, <1>4 DEF Next

\* The invariant holds in every reachable state.
THEOREM Invariance == Spec => []IInv
BY InitInv, NextInv, PTL DEF Spec

\* Every field keeps its type, and inflight_count_ stays between zero and
\* the descriptor capacity: no credit is lost or invented.
THEOREM TypeCorrect == Spec => []TypeOK
<1>1. IInv => TypeOK
  BY DEF IInv
<1> QED BY <1>1, Invariance, PTL

\* A port has at most one owner, and it is a transmitting context that waits
\* for it: finishPortServices() never finds an owner mismatch.
THEOREM PortsExclusive == Spec => []OwnersMatchMasks
<1>1. IInv => OwnersMatchMasks
  BY DEF IInv
<1> QED BY <1>1, Invariance, PTL

\* Every live context is in the pending queue or in one command slot, once.
THEOREM QueuesConsistent == Spec => []QueuesMatchStates
<1>1. IInv => QueuesMatchStates
  BY DEF IInv
<1> QED BY <1>1, Invariance, PTL

\* Each slot holds at most one context, so active_count_ is at most the
\* number of slots.
LEMMA SlotsSuffice ==
  ASSUME IInv
  PROVE  activeCount <= SlotCount
<1>1. IsFiniteSet(Slots) /\ Cardinality(Slots) = SlotCount
  <2>1. 0 \in Int /\ SlotCount - 1 \in Int /\ ~(0 > SlotCount - 1)
    BY SlotFacts
  <2>2. /\ IsFiniteSet(0 .. SlotCount - 1)
        /\ Cardinality(0 .. SlotCount - 1) = (SlotCount - 1) - 0 + 1
    BY <2>1, FS_Interval
  <2> QED BY <2>2, SlotFacts DEF Slots
<1> DEFINE seat == [x \in Admitted |-> CHOOSE s \in Slots : active[s] = x]
<1>2. \A x \in Admitted : seat[x] \in Slots /\ active[seat[x]] = x
  BY DEF IInv, QueuesMatchStates, Admitted
<1>3. seat \in [Admitted -> Slots] /\ DOMAIN seat = Admitted
  BY <1>2
<1> HIDE DEF seat
<1>4. seat \in Injection(Admitted, Slots)
  BY <1>2, <1>3 DEF Injection, IsInjective
<1>5. Cardinality(Admitted) <= Cardinality(Slots)
  BY <1>1, <1>4, FS_Injection
<1> QED BY <1>1, <1>5 DEF IInv

\* The two counters always equal the number of contexts they stand for.
THEOREM CountersCorrect == Spec => []CountersMatchStates
<1>1. IInv => CountersMatchStates
  BY SlotsSuffice DEF IInv, CountersMatchStates
<1> QED BY <1>1, Invariance, PTL

\* admitPending() finds a free slot whenever active_count_ says there is one,
\* so it never throws "active count/free-slot mismatch".
FreeSlotFound == Admissible => \E s \in Slots : active[s] = None

\* The counter test of admitPending() implies that findFreeSlot() succeeds.
THEOREM AdmissionFindsSlot == Spec => []FreeSlotFound
<1>1. ASSUME IInv, Admissible, \A s \in Slots : active[s] # None
      PROVE  FALSE
  <2>1. \A s \in Slots : active[s] \in Admitted
    BY <1>1 DEF IInv, TypeOK, QueuesMatchStates
  <2>2. active \in [Slots -> Admitted]
    BY <1>1, <2>1 DEF IInv, TypeOK
  <2>3. active \in Injection(Slots, Admitted)
    BY <1>1, <2>2 DEF Injection, IsInjective, IInv, QueuesMatchStates
  <2>4. Cardinality(Slots) <= Cardinality(Admitted)
    BY <2>3, <1>1, Finite, FS_Injection DEF IInv
  <2>5. Cardinality(Slots) = SlotCount
    <3>1. 0 \in Int /\ SlotCount - 1 \in Int /\ ~(0 > SlotCount - 1)
      BY SlotFacts
    <3>2. Cardinality(0 .. SlotCount - 1) = (SlotCount - 1) - 0 + 1
      BY <3>1, FS_Interval
    <3> QED BY <3>2, SlotFacts DEF Slots
  <2> QED BY <1>1, <2>4, <2>5, SlotFacts DEF IInv, Admissible, TypeOK
<1>2. IInv => FreeSlotFound
  BY <1>1 DEF FreeSlotFound
<1> QED BY <1>2, Invariance, PTL
-----------------------------------------------------------------------------
(* The scheduler never sleeps beside work it could do.                     *)

\* What each pass of the loop has established: admitPending() left nothing
\* to admit, startReadyTransfers() nothing to start, and while the thread
\* sleeps only a notification can change either.
PassesDone ==
  /\ sched = "start" => ~Admissible
  /\ sched = "sleep" /\ ~notified =>
       ~Admissible /\ \A s \in Slots : ~SlotReady(s)

\* A step that leaves the queue, the slots and the ports alone, and the
\* states and directions of the contexts in the slots, keeps what is ready.
LEMMA ReadyUnchanged ==
  ASSUME IInv, UNCHANGED <<pending, active, owner, activeCount>>,
         \A x \in Admitted : state'[x] = state[x] /\ dir'[x] = dir[x]
  PROVE  /\ Admissible' <=> Admissible
         /\ \A s \in Slots : SlotReady(s)' <=> SlotReady(s)
<1>1. Admissible' <=> Admissible
  BY DEF Admissible
<1>2. ASSUME NEW s \in Slots
      PROVE  SlotReady(s)' <=> SlotReady(s)
  <2>1. CASE active[s] = None
    BY <2>1 DEF SlotReady
  <2>2. CASE active[s] # None
    <3>1. active[s] \in Admitted
      BY <2>2 DEF IInv, TypeOK, QueuesMatchStates
    <3> QED BY <3>1 DEF SlotReady, ResourcesAvailable
  <2> QED BY <2>1, <2>2
<1> QED BY <1>1, <1>2

\* Every step keeps what the passes of the scheduler established.
LEMMA PassesDoneInv ==
  ASSUME IInv, PassesDone, [Next]_vars
  PROVE  PassesDone'
<1> USE DEF IInv
<1>1. ASSUME NEW x \in Xfers, NEW b \in Payloads, NEW d \in Dirs, Issue(x, b, d)
      PROVE  PassesDone'
  BY <1>1 DEF Issue, PassesDone
<1>2. ASSUME NEW x \in Xfers, Cancel(x)
      PROVE  PassesDone'
  BY <1>2 DEF Cancel, PassesDone
<1>3. ASSUME NEW x \in Xfers, Release(x)
      PROVE  PassesDone'
  <2>1. x \notin Admitted
    BY <1>3 DEF Release, Releasable, Admitted
  <2>2. \A y \in Admitted : state'[y] = state[y] /\ dir'[y] = dir[y]
    BY <1>3, <2>1 DEF Release, TypeOK, Admitted
  <2> QED BY <1>3, <2>2, ReadyUnchanged DEF Release, tableVars, loopVars, PassesDone
<1>4. CASE Wake \/ FinishPortServices \/ FinishLaunches \/ AdmitPending
  BY <1>4 DEF Wake, FinishPortServices, FinishLaunches, AdmitPending, PassesDone
<1>5. CASE AdmitDone
  BY <1>5 DEF AdmitDone, PassesDone, ctxVars, tableVars, Admissible
<1>6. CASE StartReadyTransfer
  BY <1>6 DEF StartReadyTransfer, PassesDone, Admissible
<1>7. CASE RoundDone
  <2>1. /\ \A s \in Slots : SlotReady(s)' <=> SlotReady(s)
        /\ Admissible' <=> Admissible
    BY <1>7, ReadyUnchanged DEF RoundDone, ctxVars, tableVars
  <2> QED BY <1>7, <2>1 DEF RoundDone, PassesDone
<1>8. CASE Tick
  BY <1>8, ReadyUnchanged DEF Tick, tableVars, loopVars, PassesDone
<1>9. CASE UNCHANGED vars
  BY <1>9, ReadyUnchanged DEF vars, PassesDone
<1> QED BY <1>1, <1>2, <1>3, <1>4, <1>5, <1>6, <1>7, <1>8, <1>9
        DEF Next, Client, Scheduler

\* A free slot is one that active_count_ leaves uncounted.
LEMMA FreeSlotUncounted ==
  ASSUME IInv, NEW s \in Slots, active[s] = None
  PROVE  activeCount < SlotCount
<1>1. IsFiniteSet(Slots) /\ Cardinality(Slots) = SlotCount
  <2>1. 0 \in Int /\ SlotCount - 1 \in Int /\ ~(0 > SlotCount - 1)
    BY SlotFacts
  <2>2. /\ IsFiniteSet(0 .. SlotCount - 1)
        /\ Cardinality(0 .. SlotCount - 1) = (SlotCount - 1) - 0 + 1
    BY <2>1, FS_Interval
  <2> QED BY <2>2, SlotFacts DEF Slots
<1>2. /\ IsFiniteSet(Slots \ {s})
      /\ Cardinality(Slots \ {s}) = SlotCount - 1
  BY <1>1, FS_RemoveElement
<1> DEFINE seat == [x \in Admitted |-> CHOOSE t \in Slots : active[t] = x]
<1>3. \A x \in Admitted : seat[x] \in Slots /\ active[seat[x]] = x
  BY DEF IInv, QueuesMatchStates, Admitted
<1>4. \A x \in Admitted : seat[x] \in Slots \ {s}
  BY <1>3, ConfigAssumption DEF Admitted
<1>5. seat \in [Admitted -> Slots \ {s}] /\ DOMAIN seat = Admitted
  BY <1>4
<1> HIDE DEF seat
<1>6. seat \in Injection(Admitted, Slots \ {s})
  BY <1>3, <1>5 DEF Injection, IsInjective
<1>7. Cardinality(Admitted) <= Cardinality(Slots \ {s})
  BY <1>2, <1>6, FS_Injection
<1> QED BY <1>2, <1>7, SlotFacts DEF IInv, TypeOK

\* When no context transmits, every port is free, so a context that waits
\* for its ports is ready: the waiting contexts cannot wait for each other.
LEMMA WaitersHaveAnOwner ==
  ASSUME IInv, \A s \in Slots : ~SlotReady(s), Admitted # {}
  PROVE  \E x \in Xfers : state[x] \in {"LAUNCHING", "TRANSMITTING"}
<1> SUFFICES ASSUME \A x \in Xfers : state[x] \notin {"LAUNCHING", "TRANSMITTING"}
             PROVE  FALSE
  OBVIOUS
<1>1. PICK x \in Xfers : x \in Admitted
  BY DEF Admitted
<1>2. state[x] = "BUS_WAIT"
  BY <1>1 DEF Admitted
<1>3. PICK s \in Slots : active[s] = x
  BY <1>1 DEF IInv, QueuesMatchStates
<1>4. \A p \in Ports : owner[p] = None
  BY DEF IInv, TypeOK, OwnersMatchMasks
<1>5. RequiredPorts(dir[x]) \subseteq Ports
  BY PortFacts DEF IInv, TypeOK
<1>6. SlotReady(s)
  BY <1>2, <1>3, <1>4, <1>5, ConfigAssumption DEF SlotReady, ResourcesAvailable
<1> QED BY <1>6

\* The scheduler thread never suspends with work it could do: no pending
\* descriptor beside a free slot, no waiting transfer whose ports are free,
\* and always a deadline ahead while a transfer is admitted.  The lost
\* wake-up that would hang the clients in WaitForCredit() cannot happen.
THEOREM NeverAsleepBesideWork == Spec => []NoWorkLeftAsleep
<1>1. Init => PassesDone
  BY DEF Init, PassesDone
<1>2. IInv /\ PassesDone /\ [Next]_vars => PassesDone'
  BY PassesDoneInv
<1>3. IInv /\ PassesDone => NoWorkLeftAsleep
  <2> SUFFICES ASSUME IInv, PassesDone, sched = "sleep", ~notified
               PROVE  /\ ~(pending # <<>> /\ \E s \in Slots : active[s] = None)
                      /\ \A s \in Slots : ~SlotReady(s)
                      /\ Admitted # {} =>
                           \E x \in Xfers : state[x] \in {"LAUNCHING", "TRANSMITTING"}
    BY DEF NoWorkLeftAsleep
  <2>1. ~Admissible /\ \A s \in Slots : ~SlotReady(s)
    BY DEF PassesDone
  <2>2. ~(pending # <<>> /\ \E s \in Slots : active[s] = None)
    BY <2>1, FreeSlotUncounted DEF Admissible
  <2> QED BY <2>1, <2>2, WaitersHaveAnOwner
<1> QED BY <1>1, <1>2, <1>3, Invariance, PTL DEF Spec
-----------------------------------------------------------------------------
(* Round robin.                                                            *)

\* Remainders are unique.
LEMMA Remainder ==
  ASSUME NEW n \in Nat \ {0}, NEW a \in Int, NEW q \in Int, NEW r \in 0 .. n - 1,
         a = n * q + r
  PROVE  a % n = r
<1>1. a % n \in 0 .. n - 1 /\ a = n * (a \div n) + (a % n) /\ a \div n \in Int
  OBVIOUS
<1>2. a \div n = q
  <2>1. n * (q - (a \div n)) = (a % n) - r
    BY <1>1
  <2>2. CASE q - (a \div n) >= 1
    BY <2>1, <2>2, <1>1
  <2>3. CASE q - (a \div n) <= -1
    BY <2>1, <2>3, <1>1
  <2> QED BY <2>1, <2>2, <2>3, <1>1
<1> QED BY <1>1, <1>2

\* What chooseReadySlot() computes with its offsets: slot s is probed at the
\* offset after Distance(s), and serving an earlier offset brings s nearer by
\* exactly that offset.
LEMMA ProbeArithmetic ==
  ASSUME NEW n \in Nat \ {0}, NEW l \in -1 .. n - 1, NEW s \in 0 .. n - 1
  PROVE  LET D == (s - l - 1 + n) % n
         IN /\ D \in 0 .. n - 1
            /\ (l + (D + 1) + n) % n = s
            /\ \A o \in 1 .. D :
                 (s - ((l + o + n) % n) - 1 + n) % n = D - o
<1> DEFINE D == (s - l - 1 + n) % n
<1>1. \/ D = s - l - 1
      \/ D = s - l - 1 + n
  <2>1. CASE s - l - 1 >= 0
    <3>1. s - l - 1 + n = n * 1 + (s - l - 1) /\ s - l - 1 \in 0 .. n - 1
      BY <2>1
    <3> QED BY <3>1, Remainder
  <2>2. CASE s - l - 1 < 0
    <3>1. s - l - 1 + n = n * 0 + (s - l - 1 + n) /\ s - l - 1 + n \in 0 .. n - 1
      BY <2>2
    <3> QED BY <3>1, Remainder
  <2> QED BY <2>1, <2>2
<1>2. D \in 0 .. n - 1
  OBVIOUS
<1> HIDE DEF D
<1>3. (l + (D + 1) + n) % n = s
  <2>1. CASE D = s - l - 1
    <3>1. l + (D + 1) + n = n * 1 + s
      BY <2>1
    <3> QED BY <3>1, <1>2, Remainder
  <2>2. CASE D = s - l - 1 + n
    <3>1. l + (D + 1) + n = n * 2 + s
      BY <2>2
    <3> QED BY <3>1, <1>2, Remainder
  <2> QED BY <1>1, <2>1, <2>2
<1>4. ASSUME NEW o \in 1 .. D
      PROVE  (s - ((l + o + n) % n) - 1 + n) % n = D - o
  <2> DEFINE c == (l + o + n) % n
  <2>1. c = l + o \/ c = l + o - n
    <3>1. CASE l + o < n
      <4>1. l + o + n = n * 1 + (l + o) /\ l + o \in 0 .. n - 1
        BY <3>1, <1>2
      <4> QED BY <4>1, Remainder
    <3>2. CASE l + o >= n
      <4>1. l + o + n = n * 2 + (l + o - n) /\ l + o - n \in 0 .. n - 1
        BY <3>2, <1>2
      <4> QED BY <4>1, Remainder
    <3> QED BY <3>1, <3>2, <1>2
  <2>2. D - o \in 0 .. n - 1 /\ c \in Int
    BY <1>2, <2>1
  <2> HIDE DEF c
  <2>3. \/ s - c - 1 + n = n * 0 + (D - o)
        \/ s - c - 1 + n = n * 1 + (D - o)
        \/ s - c - 1 + n = n * 2 + (D - o)
    BY <1>1, <1>2, <2>1
  <2>4. (s - c - 1 + n) % n = D - o
    <3>1. s - c - 1 + n \in Int
      BY <2>2
    <3>2. CASE s - c - 1 + n = n * 0 + (D - o)
      BY <3>1, <3>2, <2>2, Remainder
    <3>3. CASE s - c - 1 + n = n * 1 + (D - o)
      BY <3>1, <3>3, <2>2, Remainder
    <3>4. CASE s - c - 1 + n = n * 2 + (D - o)
      BY <3>1, <3>4, <2>2, Remainder
    <3> QED BY <2>3, <3>2, <3>3, <3>4
  <2> QED BY <2>4 DEF c
<1> QED BY <1>2, <1>3, <1>4 DEF D

\* Whenever a transfer starts, every other ready slot comes strictly nearer
\* to its turn: a slot whose ports stay free is passed over less than
\* SlotCount times.
THEOREM RoundRobinHolds == Spec => RoundRobin
<1>1. ASSUME IInv, NEW s \in Slots, StartReadyTransfer, SlotReady(s), lastServed' # s
      PROVE  (s - lastServed' - 1 + SlotCount) % SlotCount < Distance(s)
  <2> DEFINE n == SlotCount
             l == lastServed
             D == Distance(s)
  <2>1. n \in Nat \ {0} /\ l \in -1 .. n - 1 /\ s \in 0 .. n - 1
    BY <1>1, SlotFacts DEF IInv, TypeOK
  <2>2. /\ D \in 0 .. n - 1
        /\ ProbedSlot(D + 1) = s
        /\ \A o \in 1 .. D : (s - ProbedSlot(o) - 1 + n) % n = D - o
    <3> HIDE DEF n, l
    <3>1. LET d == (s - l - 1 + n) % n
          IN /\ d \in 0 .. n - 1
             /\ (l + (d + 1) + n) % n = s
             /\ \A o \in 1 .. d : (s - ((l + o + n) % n) - 1 + n) % n = d - o
      BY <2>1, ProbeArithmetic, ZenonT(30)
    <3> QED BY <3>1 DEF Distance, ProbedSlot, n, l
  <2>3. PICK o \in 1 .. n :
          /\ lastServed' = ProbedSlot(o)
          /\ \A k \in 1 .. o - 1 : ~SlotReady(ProbedSlot(k))
    BY <1>1 DEF StartReadyTransfer
  <2> HIDE DEF n, l, D
  <2>4. o \in 1 .. D
    <3>1. o # D + 1
      BY <2>2, <2>3, <1>1
    <3>2. ~(D + 1 \in 1 .. o - 1)
      BY <2>2, <2>3, <1>1
    <3> QED BY <3>1, <3>2, <2>1, <2>2
  <2>5. (s - lastServed' - 1 + n) % n = D - o /\ D - o < D
    BY <2>1, <2>2, <2>3, <2>4
  <2> QED BY <2>5 DEF n, D
<1>2. IInv /\ [Next]_vars =>
        [\A s \in Slots :
           (StartReadyTransfer /\ SlotReady(s) /\ lastServed' # s) =>
             (s - lastServed' - 1 + SlotCount) % SlotCount < Distance(s)]_vars
  BY <1>1
<1> QED BY <1>2, Invariance, PTL DEF Spec, RoundRobin
-----------------------------------------------------------------------------
(* The engine implements DtePool.                                          *)

\* The phase a client sees of every context: the refinement mapping.
Mapping == [x \in Xfers |-> PhaseOf(x)]

\* The pool's live descriptors are the contexts that hold a credit.
LEMMA LiveIsUnfinished ==
  ASSUME TypeOK
  PROVE  Pool!Live = Unfinished
BY DEF Pool!Live, Unfinished, Admitted, PhaseOf, TypeOK, States

\* A step that changes the state of one context maps to a change of its phase.
LEMMA OneContextMoves ==
  ASSUME NEW x \in Xfers, NEW v,
         state' = [state EXCEPT ![x] = v], TypeOK
  PROVE  Mapping' = [Mapping EXCEPT ![x] = IF v \in {"LAUNCHING", "BUS_WAIT", "TRANSMITTING"}
                                           THEN "ACTIVE" ELSE v]
<1>1. \A y \in Xfers : state'[y] = IF y = x THEN v ELSE state[y]
  BY DEF TypeOK
<1> QED BY <1>1 DEF Mapping, PhaseOf, Admitted

\* A client's call is the pool's call of the same name.
LEMMA ClientImplements ==
  ASSUME IInv, NEW x \in Xfers,
         \/ \E b \in Payloads, d \in Dirs : Issue(x, b, d)
         \/ Cancel(x)
         \/ Release(x)
  PROVE  Pool!PoolIssue(x) \/ Pool!PoolCancel(x) \/ Pool!PoolRelease(x)
<1> USE DEF IInv
<1>1. CASE \E b \in Payloads, d \in Dirs : Issue(x, b, d)
  <2>1. state[x] = "FREE" /\ CanAccept /\ state' = [state EXCEPT ![x] = "PENDING"]
    BY <1>1 DEF Issue
  <2>2. Mapping[x] = "FREE"
    BY <2>1 DEF Mapping, PhaseOf, Admitted
  <2>3. Mapping' = [Mapping EXCEPT ![x] = "PENDING"]
    BY <2>1, OneContextMoves
  <2>4. Pool!CanAccept(DescriptorCapacity)
    <3>1. Pool!Cardinality(Unfinished) = Cardinality(Unfinished)
      BY Zenon DEF Pool!Cardinality, Cardinality
    <3> QED BY <2>1, <3>1, LiveIsUnfinished DEF Pool!CanAccept, CanAccept
  <2> QED BY <2>2, <2>3, <2>4 DEF Pool!PoolIssue, Pool!PoolIssueUpTo, Mapping
<1>2. CASE Cancel(x)
  <2>1. state[x] = "PENDING" /\ state' = [state EXCEPT ![x] = "CANCELLED"]
    BY <1>2 DEF Cancel
  <2>2. Mapping[x] = "PENDING"
    BY <2>1 DEF Mapping, PhaseOf, Admitted
  <2>3. Mapping' = [Mapping EXCEPT ![x] = "CANCELLED"]
    BY <2>1, OneContextMoves
  <2> QED BY <2>2, <2>3 DEF Pool!PoolCancel, Mapping
<1>3. CASE Release(x)
  <2>1. state[x] \in {"COMPLETED", "CANCELLED"} /\ state' = [state EXCEPT ![x] = "FREE"]
    BY <1>3 DEF Release, Releasable
  <2>2. Mapping[x] \in {"COMPLETED", "CANCELLED"}
    BY <2>1 DEF Mapping, PhaseOf, Admitted
  <2>3. Mapping' = [Mapping EXCEPT ![x] = "FREE"]
    BY <2>1, OneContextMoves
  <2> QED BY <2>2, <2>3 DEF Pool!PoolRelease, Mapping
<1> QED BY <1>1, <1>2, <1>3

\* A step that only moves contexts between admitted states, or none, is a
\* stutter of the pool.
LEMMA Stutters ==
  ASSUME \A x \in Xfers : \/ state'[x] = state[x]
                          \/ {state[x], state'[x]} \subseteq
                               {"LAUNCHING", "BUS_WAIT", "TRANSMITTING"}
  PROVE  Mapping' = Mapping
BY DEF Mapping, PhaseOf, Admitted

\* A pass of the scheduler admits, completes, or is invisible to clients.
LEMMA SchedulerImplements ==
  ASSUME IInv, Scheduler \/ Tick
  PROVE  \/ \E x \in Xfers : Pool!PoolAdmit(x)
         \/ \E done \in SUBSET Xfers : Pool!PoolComplete(done)
         \/ Mapping' = Mapping
<1> USE DEF IInv
<1>1. CASE Wake \/ AdmitDone \/ RoundDone \/ Tick
  BY <1>1, Stutters DEF Wake, AdmitDone, RoundDone, Tick, ctxVars
<1>2. CASE FinishLaunches
  BY <1>2, Stutters DEF FinishLaunches, LaunchesDue
<1>3. CASE StartReadyTransfer
  <2>1. PICK offset \in 1 .. SlotCount :
          /\ SlotReady(ProbedSlot(offset))
          /\ state' = [state EXCEPT ![active[ProbedSlot(offset)]] = "TRANSMITTING"]
    BY <1>3 DEF StartReadyTransfer
  <2>2. state[active[ProbedSlot(offset)]] = "BUS_WAIT"
    BY <2>1 DEF SlotReady
  <2> QED BY <2>1, <2>2, Stutters DEF TypeOK
<1>4. CASE FinishPortServices
  <2>1. state' = [x \in Xfers |-> IF x \in Completing THEN "COMPLETED" ELSE state[x]]
    BY <1>4 DEF FinishPortServices
  <2>2. Completing \in SUBSET Xfers /\ \A x \in Completing : Mapping[x] = "ACTIVE"
    BY DEF Completing, ServicesDue, Mapping, PhaseOf, Admitted
  <2>3. Mapping' = [x \in Xfers |-> IF x \in Completing THEN "COMPLETED" ELSE Mapping[x]]
    BY <2>1 DEF Mapping, PhaseOf, Admitted
  <2>4. CASE Completing = {}
    BY <2>1, <2>4, Stutters
  <2>5. CASE Completing # {}
    <3>1. Pool!PoolComplete(Completing)
      BY <2>2, <2>3, <2>5 DEF Pool!PoolComplete, Mapping
    <3> QED BY <3>1, <2>2
  <2> QED BY <2>4, <2>5
<1>5. CASE AdmitPending
  <2> DEFINE x == Head(pending)
  <2>1. pending \in Seq(Xfers) /\ pending # <<>> /\ 1 \in 1 .. Len(pending) /\ x = pending[1]
    BY <1>5 DEF AdmitPending, Admissible, TypeOK
  <2>2. x \in Xfers
    BY <2>1, PendingElements
  <2>3. state[x] = "PENDING"
    BY <2>1, <2>2 DEF QueuesMatchStates
  <2>4. state' = [state EXCEPT ![x] = "LAUNCHING"]
    BY <1>5 DEF AdmitPending
  <2> HIDE DEF x
  <2>5. Mapping[x] = "PENDING"
    BY <2>2, <2>3 DEF Mapping, PhaseOf, Admitted
  <2>6. Mapping' = [Mapping EXCEPT ![x] = "ACTIVE"]
    BY <2>2, <2>4, OneContextMoves
  <2>7. Pool!PoolAdmit(x)
    BY <2>5, <2>6 DEF Pool!PoolAdmit, Mapping
  <2> QED BY <2>2, <2>7
<1> QED BY <1>1, <1>2, <1>3, <1>4, <1>5 DEF Scheduler

\* Whatever the slots, ports, launch delays and arbitration do, a client
\* sees a bounded pool of descriptors: issued on a free credit, admitted in
\* some order, completed once, cancelled only while pending.
THEOREM Implementation == Spec => ImplementsPool
<1>1. Init => Pool!PoolInit
  BY DEF Init, Pool!PoolInit, PhaseOf, Admitted
<1>2. IInv /\ [Next]_vars => [Pool!PoolNext]_Mapping
  <2> SUFFICES ASSUME IInv, [Next]_vars
               PROVE  Pool!PoolNext \/ Mapping' = Mapping
    OBVIOUS
  <2>1. CASE Client
    BY <2>1, ClientImplements DEF Client, Pool!PoolNext
  <2>2. CASE Scheduler \/ Tick
    BY <2>2, SchedulerImplements DEF Pool!PoolNext
  <2>3. CASE UNCHANGED vars
    BY <2>3, Stutters DEF vars
  <2> QED BY <2>1, <2>2, <2>3 DEF Next
<1> QED BY <1>1, <1>2, Invariance, PTL DEF Spec, ImplementsPool, Pool!PoolSpec, Mapping
=============================================================================
