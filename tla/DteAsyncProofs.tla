--------------------------- MODULE DteAsyncProofs ---------------------------
(***************************************************************************)
(* Theorems about DteAsync, for every program of tokens and every          *)
(* configuration in which aggregation is used only on an engine that never *)
(* runs out of credits.                                                    *)
(***************************************************************************)
EXTENDS DteAsync, SumProofs, SequenceTheorems

\* Aggregation is used on the single-bus engine, whose credits are unbounded.
\* Without this FlushGroup() may suspend between its copy of a group and the
\* erasure of the group, and NoFault fails (run async_both).
CreditsNeverRunOut ==
  \A m \in Modes : m.aggregation => m.capacity > Cardinality(Xfers)
-----------------------------------------------------------------------------
(* The data of the tracker.                                                *)

RecordType == [desc : DescType, xfer : Xfers \union {None}, staged : BOOLEAN,
               group : GroupIds \union {None}]

GroupType == [key : Dirs \X Nat \X Nat, tokens : Seq(Tokens), bytes : Int,
              nextSpm : Nat, nextRem : Nat, left : 0 .. TimeoutCycles]

BatchType == [remaining : Nat, members : Nat]

Types ==
  /\ mode \in Modes
  /\ PoolTypeOK
  /\ DOMAIN rec \subseteq Tokens
  /\ rec \in [DOMAIN rec -> RecordType]
  /\ \A t \in DOMAIN rec : rec[t].desc \in mode.descs
  /\ order \in Seq(Tokens)
  /\ DOMAIN groups \subseteq GroupIds
  /\ groups \in [DOMAIN groups -> GroupType]
  /\ byKey \in [DOMAIN byKey -> GroupIds]
  /\ DOMAIN batches \subseteq Xfers
  /\ batches \in [DOMAIN batches -> BatchType]
  /\ other \in Xfers \union {None}
  /\ turn \in Threads \union {None}

\* order lists every outstanding token once.
OrderInv == IsInjective(order) /\ ToSet(order) = DOMAIN rec

\* The tokens that share a context.
Sharers(x) == {t \in DOMAIN rec : rec[t].xfer = x}

\* The contexts in use are those of the batches and of a SEND or RECV, and a
\* batch counts its tokens.
BatchInv ==
  /\ \A x \in DOMAIN batches :
       /\ batches[x].remaining = Cardinality(Sharers(x))
       /\ batches[x].remaining > 0
       /\ batches[x].remaining <= batches[x].members
       /\ phase[x] # "FREE"
       /\ x # other
  /\ \A t \in DOMAIN rec : rec[t].xfer \in DOMAIN batches \union {None}
  /\ \A x \in Xfers : phase[x] # "FREE" => x \in DOMAIN batches \/ x = other
  /\ other # None => phase[other] # "FREE"

\* d ends where e begins, in the SPM and at the remote side.
Continues(d, e) == d.spm + d.size = e.spm /\ d.rem + d.size = e.rem

\* An open group: its tokens, its limits and where it may be continued.
GroupInv(g) ==
  LET toks == groups[g].tokens IN
  /\ toks # <<>>
  /\ IsInjective(toks)
  /\ \A i \in 1 .. Len(toks) : toks[i] \in DOMAIN rec
                               /\ rec[toks[i]].staged
                               /\ rec[toks[i]].group = g
  /\ Len(toks) <= MaxDescriptors
  /\ groups[g].bytes <= MaxBytes
  /\ \A i \in 1 .. Len(toks) - 1 :
       Continues(rec[toks[i]].desc, rec[toks[i + 1]].desc)
  /\ groups[g].nextSpm = rec[Last(toks)].desc.spm + rec[Last(toks)].desc.size
  /\ groups[g].nextRem = rec[Last(toks)].desc.rem + rec[Last(toks)].desc.size
  /\ groups[g].key \in DOMAIN byKey
  /\ byKey[groups[g].key] = g

\* A staged token waits in the group it names.
StagedInv(t) ==
  rec[t].staged => /\ rec[t].xfer = None
                   /\ rec[t].group \in DOMAIN groups
                   /\ t \in ToSet(groups[rec[t].group].tokens)

KeyInv ==
  /\ \A k \in DOMAIN byKey : byKey[k] \in DOMAIN groups /\ groups[byKey[k]].key = k
  /\ DOMAIN groups # {} => mode.aggregation

HazardInv ==
  \A t, u \in DOMAIN rec :
    t # u /\ ~Complete(t) /\ ~Complete(u) => ~HasHazard(rec[t].desc, rec[u].desc)

DataInv ==
  /\ Types
  /\ OrderInv
  /\ BatchInv
  /\ \A g \in DOMAIN groups : GroupInv(g)
  /\ \A t \in DOMAIN rec : StagedInv(t)
  /\ KeyInv
  /\ HazardInv
-----------------------------------------------------------------------------
(* What the threads have left to do.                                       *)

OpNames == {"await", "settle", "release", "flush", "bind", "create", "start",
            "collect", "fenced", "transfer", "transferred"}

OpType == [op : OpNames, token : Tokens \union {None},
           desc : DescType \union {None}, group : GroupIds \union {None},
           key : (Dirs \X Nat \X Nat) \union {None}, tokens : Seq(Tokens)]

Todo == todo["dispatcher"]

\* The order of the operations of one call, whatever they are applied to.
Shape(s) ==
  \A i \in 1 .. Len(s) :
    /\ s[i].op \in {"create", "start", "collect", "fenced", "transfer",
                    "transferred"} => i = Len(s)
    /\ s[i].op \in {"bind", "transfer", "transferred"} => i = 1
    /\ s[i].op = "bind" /\ s[i].group = None => i = Len(s)
    /\ s[i].op \in {"settle", "start"} /\ i # 1 =>
         i = 2 /\ s[1].op \in {"flush", "bind"}
    /\ s[i].op = "release" =>
         /\ i # 1 => s[i - 1].op \in {"await", "settle"}
                     /\ s[i - 1].token = s[i].token
         /\ \A j \in i + 1 .. Len(s) : s[j].token # s[i].token

\* Bind of a copy that is still the group, or of a token of its own.
BindOK(o) ==
  o.op = "bind" =>
    IF o.group = None
    THEN \E t \in DOMAIN rec : /\ o.tokens = <<t>>
                               /\ rec[t].xfer = None /\ ~rec[t].staged
    ELSE /\ o.group \in DOMAIN groups
         /\ o.tokens = groups[o.group].tokens
         /\ o.key = groups[o.group].key

\* Operations on a token that has a record.
TokenOK(s) ==
  \A i \in 1 .. Len(s) :
    LET t == s[i].token IN
    /\ s[i].op \in {"await", "settle", "release", "start"} => t \in DOMAIN rec
    /\ s[i].op \in {"settle", "release"} /\ i = 1 => rec[t].xfer # None
    /\ s[i].op = "settle" /\ i = 2 =>
         rec[t].xfer # None \/ (rec[t].staged /\ rec[t].group = s[1].group)

\* A new token: its name is free, and it conflicts only with tokens that are
\* complete or still to be waited for.
CreateOK(s) ==
  \A i \in 1 .. Len(s) : s[i].op = "create" =>
    /\ s[i].token \in Tokens \ DOMAIN rec
    /\ s[i].desc \in mode.descs
    /\ DOMAIN groups # GroupIds
    /\ \A u \in DOMAIN rec :
         ~Complete(u) /\ HasHazard(rec[u].desc, s[i].desc) =>
           \E j \in 1 .. Len(s) : s[j].op \in {"await", "settle"} /\ s[j].token = u

\* A new group: its key is free, or held by the group being flushed.
StartOK(s) ==
  \A i \in 1 .. Len(s) : s[i].op = "start" =>
    LET t == s[i].token  k == GroupKey(rec[t].desc) IN
    /\ mode.aggregation
    /\ s[i].group = None
    /\ rec[t].xfer = None /\ ~rec[t].staged
    /\ rec[t].desc.size <= MaxBytes
    /\ DOMAIN groups # GroupIds
    /\ i = 1 => k \notin DOMAIN byKey
    /\ i = 2 /\ k \in DOMAIN byKey => byKey[k] = s[1].group

\* A fence has still to release every outstanding token.
FenceOK(s) ==
  \A i \in 1 .. Len(s) : s[i].op = "fenced" =>
    \A t \in DOMAIN rec : \E j \in 1 .. Len(s) : s[j].op = "release" /\ s[j].token = t

\* A token that is neither staged nor bound is about to be.
LooseOK(s) ==
  \A t \in DOMAIN rec : ~rec[t].staged /\ rec[t].xfer = None =>
    \E i \in 1 .. Len(s) :
      \/ s[i].op = "start" /\ s[i].token = t
      \/ s[i].op = "bind" /\ s[i].group = None /\ s[i].tokens = <<t>>

\* A dispatcher that does not run waits for a credit or a completion.
Parked ==
  /\ turn # "dispatcher" /\ Todo # <<>> =>
       \/ Todo[1].op \in {"settle", "transfer", "transferred"}
       \/ Todo[1].op = "bind" /\ ~mode.aggregation
  /\ other # None => Todo # <<>> /\ Todo[1].op = "transferred"

\* timeoutWorker flushes, and keeps the processor while it does.
WorkerOK ==
  todo["worker"] # <<>> =>
    /\ turn = "worker" /\ mode.aggregation
    /\ \A i \in 1 .. Len(todo["worker"]) :
         LET o == todo["worker"][i] IN
         \/ o.op = "flush"
         \/ o.op = "bind" /\ i = 1 /\ o.group # None /\ BindOK(o)

DispatcherOK ==
  /\ Shape(Todo)
  /\ \A i \in 1 .. Len(Todo) : BindOK(Todo[i])
  /\ TokenOK(Todo)
  /\ CreateOK(Todo)
  /\ StartOK(Todo)
  /\ FenceOK(Todo)
  /\ LooseOK(Todo)

CtrlInv ==
  /\ todo \in [Threads -> Seq(OpType)]
  /\ DispatcherOK
  /\ Parked
  /\ WorkerOK

AsyncInv == DataInv /\ CtrlInv /\ NoFault
-----------------------------------------------------------------------------
(* Sequences and operations.                                               *)

\* What follows the first operation of s, behind new ones.
LEMMA Rest ==
  ASSUME NEW T, NEW s \in Seq(T), s # <<>>, NEW ops \in Seq(T)
  PROVE  LET r == ops \o Tail(s) IN
         /\ r \in Seq(T)
         /\ Len(r) = Len(ops) + Len(s) - 1
         /\ \A i \in 1 .. Len(ops) : r[i] = ops[i]
         /\ \A i \in Len(ops) + 1 .. Len(r) : r[i] = s[i - Len(ops) + 1]
         /\ Head(s) = s[1] /\ Len(s) \in Nat \ {0}
<1>1. Len(s) \in Nat /\ Len(s) # 0 /\ Head(s) = s[1]
  OBVIOUS
<1>2. /\ Tail(s) \in Seq(T) /\ Len(Tail(s)) = Len(s) - 1
      /\ \A i \in 1 .. Len(s) - 1 : Tail(s)[i] = s[i + 1]
  BY <1>1
<1> QED BY <1>1, <1>2

\* A sequence with one element added by concatenation.
LEMMA Ended ==
  ASSUME NEW T, NEW s \in Seq(T), NEW e \in T
  PROVE  /\ s \o <<e>> \in Seq(T) /\ Len(s \o <<e>>) = Len(s) + 1
         /\ \A i \in 1 .. Len(s) : (s \o <<e>>)[i] = s[i]
         /\ (s \o <<e>>)[Len(s) + 1] = e
         /\ s \o <<e>> # <<>>
<1>1. Len(s) \in Nat
  OBVIOUS
<1>2. s \o <<e>> = Append(s, e)
  OBVIOUS
<1>3. /\ Append(s, e) \in Seq(T) /\ Len(Append(s, e)) = Len(s) + 1
      /\ \A i \in 1 .. Len(s) : Append(s, e)[i] = s[i]
      /\ Append(s, e)[Len(s) + 1] = e
  BY AppendProperties
<1>4. Append(s, e) # <<>>
  BY <1>1, <1>3
<1> QED BY <1>2, <1>3, <1>4

\* A sequence without repetitions is as long as the set of its elements.
LEMMA InjectiveLen ==
  ASSUME NEW T, NEW s \in Seq(T), IsInjective(s)
  PROVE  IsFiniteSet(ToSet(s)) /\ Cardinality(ToSet(s)) = Len(s)
<1>1. DOMAIN s = 1 .. Len(s) /\ Len(s) \in Nat
  OBVIOUS
<1>2. s \in Bijection(1 .. Len(s), ToSet(s))
  BY <1>1 DEF IsInjective, ToSet, Bijection, Injection, Surjection, IsInjective
<1>3. ExistsBijection(1 .. Len(s), ToSet(s))
  BY <1>2 DEF ExistsBijection
<1>4. IsFiniteSet(1 .. Len(s)) /\ Cardinality(1 .. Len(s)) = Len(s)
  BY <1>1, FS_Interval
<1> QED BY <1>3, <1>4, FS_Bijection

\* A sequence of one element.
LEMMA Single ==
  ASSUME NEW T, NEW t \in T
  PROVE  /\ <<t>> \in Seq(T) /\ <<t>> # <<>> /\ Len(<<t>>) = 1 /\ <<t>>[1] = t
         /\ IsInjective(<<t>>) /\ ToSet(<<t>>) = {t}
<1>1. /\ <<t>> \in Seq(T) /\ <<t>> # <<>> /\ Len(<<t>>) = 1 /\ <<t>>[1] = t
      /\ DOMAIN <<t>> = {1}
  OBVIOUS
<1>2. \A a \in DOMAIN <<t>> : a = 1
  BY <1>1
<1>3. IsInjective(<<t>>)
  BY <1>2 DEF IsInjective
<1>4. ToSet(<<t>>) = {t}
  BY <1>1 DEF ToSet
<1> QED BY <1>1, <1>3, <1>4

\* Among() keeps the elements of the set and nothing else.
LEMMA AmongElements ==
  ASSUME NEW T, NEW s \in Seq(T), NEW S
  PROVE  /\ Among(s, S) \in Seq(T)
         /\ ToSet(Among(s, S)) = ToSet(s) \intersect S
<1> DEFINE P == {i \in 1 .. Len(s) : s[i] \in S}
           upTo(i) == {j \in P : j <= i}
           rank == [i \in P |-> Cardinality(upTo(i))]
           n == Cardinality(P)
           at(k) == CHOOSE i \in P : Cardinality(upTo(i)) = k
           r == [k \in 1 .. n |-> s[at(k)]]
<1>0. r = Among(s, S)
  BY DEF Among
<1>1. Len(s) \in Nat /\ IsFiniteSet(P) /\ n \in Nat
  <2>1. Len(s) \in Nat /\ P \in SUBSET (1 .. Len(s))
    OBVIOUS
  <2>2. IsFiniteSet(1 .. Len(s))
    BY <2>1, FS_Interval
  <2> QED BY <2>1, <2>2, FS_Subset, FS_CardinalityType
<1>2. \A i \in P : /\ upTo(i) \in SUBSET P /\ i \in upTo(i)
                   /\ IsFiniteSet(upTo(i))
                   /\ rank[i] \in 1 .. n
  <2> TAKE i \in P
  <2>1. upTo(i) \in SUBSET P /\ i \in upTo(i)
    OBVIOUS
  <2>2. IsFiniteSet(upTo(i)) /\ Cardinality(upTo(i)) <= n /\ Cardinality(upTo(i)) \in Nat
    BY <1>1, <2>1, FS_Subset, FS_CardinalityType
  <2>3. Cardinality(upTo(i)) # 0
    BY <2>1, <2>2, FS_EmptySet
  <2> HIDE DEF P, upTo, n
  <2>4. rank[i] = Cardinality(upTo(i))
    OBVIOUS
  <2> QED BY <1>1, <2>1, <2>2, <2>3, <2>4
<1>3. \A i, j \in P : rank[i] = rank[j] => i = j
  <2>1. ASSUME NEW i \in P, NEW j \in P, i < j
        PROVE  rank[i] # rank[j]
    <3>1. upTo(i) \in SUBSET upTo(j) /\ upTo(i) # upTo(j)
      <4>1. j \in upTo(j) /\ j \notin upTo(i)
        BY <2>1
      <4>2. upTo(i) \subseteq upTo(j)
        BY <2>1
      <4> QED BY <4>1, <4>2
    <3>2. Cardinality(upTo(i)) # Cardinality(upTo(j))
      BY <1>2, <3>1, FS_Subset
    <3> HIDE DEF upTo
    <3> QED BY <3>2
  <2>2. \A i, j \in P : i \in Int /\ j \in Int
    OBVIOUS
  <2> HIDE DEF P, upTo, rank
  <2>3. \A i, j \in P : i < j \/ j < i \/ i = j
    BY <2>2
  <2> QED BY <2>1, <2>3
<1>4. rank \in Injection(P, 1 .. n)
  <2>1. rank \in [P -> 1 .. n]
    BY <1>2
  <2> HIDE DEF P, n, rank
  <2> QED BY <1>3, <2>1 DEF Injection, IsInjective
<1>5. rank \in Surjection(P, 1 .. n)
  <2>1. IsFiniteSet(1 .. n) /\ Cardinality(1 .. n) = n
    BY <1>1, FS_Interval
  <2> QED BY <1>4, <2>1, FS_Injection
<1>6. \A k \in 1 .. n : at(k) \in P /\ rank[at(k)] = k
  <2> TAKE k \in 1 .. n
  <2>1. \E i \in P : rank[i] = k
    BY <1>5 DEF Surjection
  <2>2. \E i \in P : Cardinality(upTo(i)) = k
    BY <2>1
  <2> QED BY <2>2
<1>7. \A i \in P : at(rank[i]) = i
  BY <1>2, <1>3, <1>6
<1>8. r \in Seq(T) /\ Len(r) = n /\ DOMAIN r = 1 .. n
  <2>1. \A k \in 1 .. n : s[at(k)] \in T
    <3>1. \A i \in P : s[i] \in T
      OBVIOUS
    <3> QED BY <1>6, <3>1
  <2> HIDE DEF at, n
  <2> QED BY <1>1, <2>1
<1>9. ToSet(r) \subseteq ToSet(s) \intersect S
  <2>1. ASSUME NEW e \in ToSet(r) PROVE e \in ToSet(s) \intersect S
    <3>1. PICK k \in 1 .. n : e = r[k]
      BY <1>8 DEF ToSet
    <3>2. e = s[at(k)] /\ at(k) \in P
      BY <1>6, <3>1
    <3>3. at(k) \in DOMAIN s /\ s[at(k)] \in S
      BY <3>2
    <3> HIDE DEF at
    <3> QED BY <3>2, <3>3 DEF ToSet
  <2> QED BY <2>1
<1>10. ToSet(s) \intersect S \subseteq ToSet(r)
  <2>1. ASSUME NEW e \in ToSet(s) \intersect S PROVE e \in ToSet(r)
    <3>1. PICK i \in P : e = s[i]
      BY DEF ToSet
    <3>2. r[rank[i]] = s[at(rank[i])] /\ rank[i] \in 1 .. n
      BY <1>2
    <3> QED BY <1>7, <1>8, <3>1, <3>2 DEF ToSet
  <2> QED BY <2>1
<1> QED BY <1>0, <1>8, <1>9, <1>10

\* Forget() takes one element out of a sequence without repetitions.
LEMMA ForgetElement ==
  ASSUME NEW T, NEW s \in Seq(T), IsInjective(s), NEW t \in ToSet(s)
  PROVE  LET r == RemoveAt(s, CHOOSE i \in 1 .. Len(s) : s[i] = t) IN
         /\ r \in Seq(T)
         /\ IsInjective(r)
         /\ ToSet(r) = ToSet(s) \ {t}
<1> DEFINE k == CHOOSE i \in 1 .. Len(s) : s[i] = t
           r == RemoveAt(s, k)
           a == SubSeq(s, 1, k - 1)
           b == SubSeq(s, k + 1, Len(s))
<1>1. DOMAIN s = 1 .. Len(s) /\ Len(s) \in Nat
  OBVIOUS
<1>2. k \in 1 .. Len(s) /\ s[k] = t
  BY <1>1 DEF ToSet
<1> HIDE DEF k
<1>3. /\ a \in Seq(T) /\ Len(a) = k - 1
      /\ \A i \in 1 .. k - 1 : a[i] = s[i]
  BY <1>1, <1>2
<1>4. /\ b \in Seq(T) /\ Len(b) = Len(s) - k
      /\ \A i \in 1 .. Len(s) - k : b[i] = s[k + i]
  <2>1. k + 1 \in 1 .. Len(s) + 1
    BY <1>1, <1>2
  <2>2. /\ b \in Seq(T)
        /\ Len(b) = IF k + 1 <= Len(s) THEN Len(s) - (k + 1) + 1 ELSE 0
        /\ \A i \in 1 .. Len(s) - (k + 1) + 1 : b[i] = s[k + 1 + i - 1]
    BY <1>1, <2>1, SubSeqProperties
  <2> HIDE DEF b
  <2>3. \A i \in 1 .. Len(s) - k : b[i] = s[k + i]
    <3> TAKE i \in 1 .. Len(s) - k
    <3>1. i \in 1 .. Len(s) - (k + 1) + 1 /\ k + 1 + i - 1 = k + i
      BY <1>1, <1>2
    <3>2. b[i] = s[k + 1 + i - 1]
      BY <2>2, <3>1
    <3> QED BY <3>1, <3>2
  <2>4. Len(b) = Len(s) - k
    <3>1. Len(b) = IF k + 1 <= Len(s) THEN Len(s) - (k + 1) + 1 ELSE 0
      BY <2>2
    <3>2. k \in Int /\ Len(s) \in Int /\ k <= Len(s)
      BY <1>1, <1>2
    <3>3. k + 1 <= Len(s) \/ k = Len(s)
      BY <3>2
    <3> QED BY <3>1, <3>2, <3>3
  <2> QED BY <2>2, <2>3, <2>4
<1> HIDE DEF a, b
<1>5. r = a \o b
  BY DEF RemoveAt, a, b
<1> HIDE DEF r
<1>6. /\ r \in Seq(T) /\ Len(r) = Len(s) - 1
      /\ \A i \in 1 .. Len(s) - 1 : r[i] = IF i < k THEN s[i] ELSE s[i + 1]
  <2>1. /\ r \in Seq(T) /\ Len(r) = Len(a) + Len(b)
        /\ \A i \in 1 .. Len(a) + Len(b) :
             r[i] = IF i <= Len(a) THEN a[i] ELSE b[i - Len(a)]
    BY <1>3, <1>4, <1>5, ConcatProperties
  <2>2. Len(r) = Len(s) - 1
    BY <1>1, <1>2, <1>3, <1>4, <2>1
  <2>3. ASSUME NEW i \in 1 .. Len(s) - 1
        PROVE  r[i] = IF i < k THEN s[i] ELSE s[i + 1]
    <3>1. r[i] = IF i <= Len(a) THEN a[i] ELSE b[i - Len(a)]
      BY <1>1, <1>2, <1>3, <1>4, <2>1
    <3>2. CASE i < k
      BY <1>1, <1>2, <1>3, <3>1, <3>2
    <3>3. CASE ~(i < k)
      <4>1. i - (k - 1) \in 1 .. Len(s) - k /\ k + (i - (k - 1)) = i + 1
        BY <1>1, <1>2, <3>3
      <4>2. r[i] = b[i - (k - 1)]
        BY <1>1, <1>2, <1>3, <3>1, <3>3
      <4>3. b[i - (k - 1)] = s[k + (i - (k - 1))]
        BY <1>4, <4>1
      <4> QED BY <3>3, <4>1, <4>2, <4>3
    <3> QED BY <3>2, <3>3
  <2> QED BY <2>1, <2>2, <2>3
<1>7. DOMAIN r = 1 .. Len(s) - 1
  BY <1>1, <1>6
<1>8. \A i, j \in 1 .. Len(s) : s[i] = s[j] => i = j
  BY <1>1 DEF IsInjective
<1>9. IsInjective(r)
  BY <1>1, <1>2, <1>6, <1>7, <1>8 DEF IsInjective
<1>10. ToSet(r) \subseteq ToSet(s) \ {t}
  <2>1. ASSUME NEW i \in 1 .. Len(s) - 1 PROVE r[i] \in ToSet(s) \ {t}
    <3>1. CASE i < k
      BY <1>1, <1>2, <1>6, <1>8, <3>1 DEF ToSet
    <3>2. CASE ~(i < k)
      <4>1. i + 1 \in 1 .. Len(s) /\ i + 1 # k
        BY <1>1, <1>2, <3>2
      <4> QED BY <1>1, <1>2, <1>6, <1>8, <3>2, <4>1, ZenonT(30) DEF ToSet
    <3> QED BY <3>1, <3>2
  <2> QED BY <1>7, <2>1 DEF ToSet
<1>11. ToSet(s) \ {t} \subseteq ToSet(r)
  <2>1. ASSUME NEW i \in 1 .. Len(s), s[i] # t PROVE s[i] \in ToSet(r)
    <3>1. CASE i < k
      <4>1. i \in 1 .. Len(s) - 1 /\ r[i] = s[i]
        BY <1>1, <1>2, <1>6, <3>1
      <4> QED BY <1>7, <4>1 DEF ToSet
    <3>2. CASE k < i
      <4>1. i - 1 \in 1 .. Len(s) - 1 /\ r[i - 1] = s[i]
        BY <1>1, <1>2, <1>6, <3>2
      <4> QED BY <1>7, <4>1 DEF ToSet
    <3> QED BY <1>1, <1>2, <2>1, <3>1, <3>2
  <2> QED BY <1>1, <2>1 DEF ToSet
<1> QED BY <1>6, <1>9, <1>10, <1>11 DEF r, k

\* The operations a call is made of.
LEMMA Operations ==
  /\ \A n \in OpNames : Op(n) \in OpType /\ Op(n).op = n
  /\ \A n \in OpNames, t \in Tokens :
       LET o == TokenOp(n, t) IN o \in OpType /\ o.op = n /\ o.token = t /\ o.group = None
  /\ \A n \in OpNames, g \in GroupIds :
       LET o == GroupOp(n, g) IN o \in OpType /\ o.op = n /\ o.group = g
  /\ \A toks \in Seq(Tokens), g \in GroupIds \union {None},
       k \in (Dirs \X Nat \X Nat) \union {None} :
       LET o == BindOp(toks, g, k) IN
       /\ o \in OpType /\ o.op = "bind"
       /\ o.tokens = toks /\ o.group = g /\ o.key = k
  /\ \A t \in Tokens, d \in DescType :
       LET o == [TokenOp("create", t) EXCEPT !.desc = d] IN
       /\ o \in OpType /\ o.op = "create" /\ o.token = t /\ o.desc = d
       /\ o.group = None
<1>1. <<>> \in Seq(Tokens)
  OBVIOUS
<1> DEFINE K == (Dirs \X Nat \X Nat) \union {None}
<1>2. None \in K
  OBVIOUS
<1> HIDE DEF K
<1>3. OpType = [op : OpNames, token : Tokens \union {None},
                desc : DescType \union {None}, group : GroupIds \union {None},
                key : K, tokens : Seq(Tokens)]
  BY DEF OpType, K
<1>4. "bind" \in OpNames /\ "create" \in OpNames
  BY DEF OpNames
<1>5. \A n \in OpNames : Op(n) \in OpType /\ Op(n).op = n
  BY <1>1, <1>2, <1>3 DEF Op, NoOp
<1>6. \A n \in OpNames, t \in Tokens :
       LET o == TokenOp(n, t) IN o \in OpType /\ o.op = n /\ o.token = t /\ o.group = None
  BY <1>1, <1>2, <1>3 DEF TokenOp, NoOp
<1>7. \A n \in OpNames, g \in GroupIds :
       LET o == GroupOp(n, g) IN o \in OpType /\ o.op = n /\ o.group = g
  BY <1>1, <1>2, <1>3 DEF GroupOp, NoOp
<1>8. \A toks \in Seq(Tokens), g \in GroupIds \union {None}, k \in K :
       LET o == BindOp(toks, g, k) IN
       /\ o \in OpType /\ o.op = "bind"
       /\ o.tokens = toks /\ o.group = g /\ o.key = k
  BY <1>3, <1>4 DEF BindOp, NoOp
<1>9. \A t \in Tokens, d \in DescType :
       LET o == [TokenOp("create", t) EXCEPT !.desc = d] IN
       /\ o \in OpType /\ o.op = "create" /\ o.token = t /\ o.desc = d
       /\ o.group = None
  BY <1>1, <1>2, <1>3, <1>4 DEF TokenOp, NoOp
<1> QED BY <1>5, <1>6, <1>7, <1>8, <1>9 DEF K
-----------------------------------------------------------------------------
(* Descriptors.                                                            *)

\* The ranges of a descriptor, and hazards, which work both ways.
LEMMA Ranges ==
  /\ \A d \in DescType : /\ ReadRange(d) \in [addr : Nat, size : Nat]
                         /\ WriteRange(d) \in [addr : Nat, size : Nat]
  /\ \A d, e \in DescType : HasHazard(d, e) => HasHazard(e, d)
<1>1. \A d \in DescType : /\ ReadRange(d) \in [addr : Nat, size : Nat]
                          /\ WriteRange(d) \in [addr : Nat, size : Nat]
  <2> TAKE d \in DescType
  <2>1. /\ d.dir \in Dirs /\ d.spm \in Nat /\ d.size \in Nat /\ d.rem \in Nat
        /\ d.peer \in Nat /\ d.size # 0
    BY DEF DescType
  <2>2. Access(d) \in {"READ", "WRITE", "READ_WRITE"}
    BY <2>1 DEF Access, Dirs
  <2> QED BY <2>1, <2>2 DEF ReadRange, WriteRange, NoRange
<1>2. \A l, r \in [addr : Nat, size : Nat] : RangeOverlaps(l, r) => RangeOverlaps(r, l)
  BY DEF RangeOverlaps
<1> QED BY <1>1, <1>2 DEF HasHazard

\* Ranges that share a byte overlap.
LEMMA SharedByte ==
  ASSUME NEW l \in [addr : Nat, size : Nat], NEW r \in [addr : Nat, size : Nat],
         NEW b \in l.addr .. l.addr + l.size - 1,
         b \in r.addr .. r.addr + r.size - 1
  PROVE  RangeOverlaps(l, r)
<1>1. l.addr \in Nat /\ l.size \in Nat /\ r.addr \in Nat /\ r.size \in Nat
  OBVIOUS
<1>2. /\ b \in Int /\ b >= l.addr /\ b <= l.addr + l.size - 1
      /\ b >= r.addr /\ b <= r.addr + r.size - 1
  BY <1>1
<1> QED BY <1>1, <1>2 DEF RangeOverlaps

\* The key of a descriptor, as an aggregating configuration computes it.
LEMMA KeyType ==
  ASSUME NEW m \in Modes, m.aggregation, NEW d \in DescType
  PROVE  GroupKey(d) \in Dirs \X Nat \X Nat
<1>1. BlockBytes \in Nat \ {0}
  BY AsyncAssumption
<1>2. d.dir \in Dirs /\ d.peer \in Nat /\ d.rem \in Nat
  BY DEF DescType
<1>3. d.rem \div BlockBytes \in Nat
  BY <1>1, <1>2
<1> QED BY <1>2, <1>3 DEF GroupKey
-----------------------------------------------------------------------------
(* Contexts and credits.                                                   *)

\* An engine that is shared by aggregation has a credit at any time.
LEMMA Credit ==
  ASSUME CreditsNeverRunOut, NEW m \in Modes, m.aggregation
  PROVE  CanAccept(m.capacity) /\ CanAccept(m.capacity)'
<1>1. m.capacity > Cardinality(Xfers) /\ m.capacity \in Nat
  BY AsyncAssumption, PoolAssumption DEF CreditsNeverRunOut, ModeType
<1>2. Live \in SUBSET Xfers /\ Live' \in SUBSET Xfers
  BY DEF Live
<1>3. /\ Cardinality(Live) <= Cardinality(Xfers) /\ Cardinality(Live) \in Nat
      /\ Cardinality(Live') <= Cardinality(Xfers) /\ Cardinality(Live') \in Nat
      /\ Cardinality(Xfers) \in Nat
  BY <1>2, PoolAssumption, FS_Subset, FS_CardinalityType
<1> QED BY <1>1, <1>3 DEF CanAccept

\* A token that is not bound, or a dispatcher without a transfer of its own,
\* leaves a context free.
LEMMA FreeContext ==
  ASSUME Types, BatchInv, other = None \/ \E t \in DOMAIN rec : rec[t].xfer = None
  PROVE  LET x == CHOOSE y \in Xfers : phase[y] = "FREE" IN
         x \in Xfers /\ phase[x] = "FREE" /\ x \notin DOMAIN batches /\ x # other
         /\ \A t \in DOMAIN rec : rec[t].xfer # x
<1>1. \E y \in Xfers : phase[y] = "FREE"
  <2>1. SUFFICES ASSUME \A y \in Xfers : phase[y] # "FREE"
                 PROVE  FALSE
    OBVIOUS
  <2>2. \A y \in Xfers : y # other => \E t \in Tokens : t \in DOMAIN rec /\ rec[t].xfer = y
    <3> TAKE y \in Xfers
    <3> HAVE y # other
    <3>1. y \in DOMAIN batches /\ Cardinality(Sharers(y)) > 0
      BY <2>1 DEF BatchInv
    <3>2. Sharers(y) # {}
      BY <3>1, FS_EmptySet
    <3> QED BY <3>2 DEF Sharers, Types
  <2> DEFINE loose == CHOOSE t \in Tokens : t \in DOMAIN rec /\ rec[t].xfer = None
             f == [y \in Xfers |-> IF y = other THEN loose
                                   ELSE CHOOSE t \in Tokens : t \in DOMAIN rec /\ rec[t].xfer = y]
  <2>3. other \in Xfers => loose \in Tokens /\ loose \in DOMAIN rec /\ rec[loose].xfer = None
    BY AsyncAssumption DEF Types
  <2>4. \A y \in Xfers : y # other => /\ f[y] \in Tokens
                                      /\ rec[f[y]].xfer = y
    BY <2>2
  <2>5. f \in [Xfers -> Tokens]
    BY <2>3, <2>4
  <2>6. \A y \in Xfers : y = other => f[y] = loose
    OBVIOUS
  <2> HIDE DEF f
  <2>7. \E y, z \in Xfers : y # z /\ f[y] = f[z]
    <3>1. IsFiniteSet(Xfers) /\ IsFiniteSet(Tokens) /\ Cardinality(Tokens) < Cardinality(Xfers)
      BY AsyncAssumption, PoolAssumption, FS_CardinalityType
    <3> QED BY <2>5, <3>1, FS_PigeonHole
  <2> QED BY <2>3, <2>4, <2>6, <2>7, AsyncAssumption
<1> DEFINE x == CHOOSE y \in Xfers : phase[y] = "FREE"
<1>2. x \in Xfers /\ phase[x] = "FREE"
  BY <1>1
<1> HIDE DEF x
<1>3. x \notin DOMAIN batches /\ x # other
  BY <1>2, AsyncAssumption DEF BatchInv
<1>4. \A t \in DOMAIN rec : rec[t].xfer # x
  BY <1>2, <1>3, AsyncAssumption DEF BatchInv
<1> QED BY <1>2, <1>3, <1>4 DEF x
-----------------------------------------------------------------------------
(* The data of the tracker, step by step.                                  *)

dataVars == <<mode, phase, rec, order, groups, byKey, batches, other>>

Turns == Threads \union {None}

\* A step that only changes what the threads have left to do.
LEMMA DataKept ==
  ASSUME DataInv, UNCHANGED dataVars, turn' \in Turns
  PROVE  DataInv' /\ \A t \in DOMAIN rec : Complete(t)' = Complete(t)
<1> USE DEF dataVars
<1>1. Types'
  BY DEF DataInv, Types, PoolTypeOK, Turns
<1>2. OrderInv'
  BY DEF DataInv, OrderInv
<1>3. BatchInv'
  BY DEF DataInv, BatchInv, Sharers
<1>4. ASSUME NEW g \in DOMAIN groups' PROVE GroupInv(g)'
  BY DEF DataInv, GroupInv
<1>5. ASSUME NEW t \in DOMAIN rec' PROVE StagedInv(t)'
  BY DEF DataInv, StagedInv
<1>6. KeyInv'
  BY DEF DataInv, KeyInv
<1>7. HazardInv'
  BY DEF DataInv, HazardInv, Complete
<1>8. \A t \in DOMAIN rec : Complete(t)' = Complete(t)
  BY DEF Complete
<1> QED BY <1>1, <1>2, <1>3, <1>4, <1>5, <1>6, <1>7, <1>8 DEF DataInv

\* IssuePhysical() and the erasure of the group: what Bind does, and to what.
Binds(toks, g, key, x) ==
  /\ x \in Xfers /\ phase[x] = "FREE" /\ x \notin DOMAIN batches /\ x # other
  /\ \A t \in DOMAIN rec : rec[t].xfer # x
  /\ toks \in Seq(Tokens) /\ toks # <<>> /\ IsInjective(toks)
  /\ ToSet(toks) \subseteq DOMAIN rec
  /\ \A t \in ToSet(toks) : rec[t].xfer = None
  /\ \/ g = None /\ \A t \in ToSet(toks) : ~rec[t].staged
     \/ g \in DOMAIN groups /\ toks = groups[g].tokens /\ key = groups[g].key
  /\ phase' = [phase EXCEPT ![x] = "PENDING"]
  /\ batches' = With(batches, x, Batch(Len(toks)))
  /\ rec' = [t \in DOMAIN rec |->
               IF t \in ToSet(toks)
               THEN [rec[t] EXCEPT !.xfer = x, !.staged = FALSE]
               ELSE rec[t]]
  /\ groups' = IF g = None THEN groups ELSE Without(groups, g)
  /\ byKey' = IF g = None THEN byKey ELSE Without(byKey, key)
  /\ UNCHANGED <<mode, order, other>>

\* The tokens of an open group.
LEMMA GroupTokens ==
  ASSUME DataInv, NEW g \in DOMAIN groups
  PROVE  LET s == groups[g].tokens IN
         /\ s \in Seq(Tokens) /\ s # <<>> /\ IsInjective(s)
         /\ Len(s) \in Nat \ {0} /\ Last(s) = s[Len(s)]
         /\ \A i \in 1 .. Len(s) : s[i] \in ToSet(s)
         /\ \A t \in ToSet(s) : /\ t \in DOMAIN rec /\ rec[t].staged
                                 /\ rec[t].group = g /\ rec[t].xfer = None
<1> DEFINE s == groups[g].tokens
<1>1. s \in Seq(Tokens) /\ GroupInv(g)
  BY DEF DataInv, Types, GroupType
<1>2. /\ s # <<>> /\ IsInjective(s)
      /\ \A i \in 1 .. Len(s) : /\ s[i] \in DOMAIN rec /\ rec[s[i]].staged
                                 /\ rec[s[i]].group = g
  BY <1>1 DEF GroupInv
<1> HIDE DEF s
<1>3. Len(s) \in Nat \ {0} /\ Last(s) = s[Len(s)] /\ DOMAIN s = 1 .. Len(s)
  BY <1>1, <1>2 DEF Last
<1>4. \A i \in 1 .. Len(s) : s[i] \in ToSet(s)
  BY <1>3 DEF ToSet
<1>5. \A t \in ToSet(s) : t \in DOMAIN rec /\ rec[t].staged /\ rec[t].group = g
  BY <1>2, <1>3 DEF ToSet
<1>6. \A t \in ToSet(s) : rec[t].xfer = None
  BY <1>5 DEF DataInv, StagedInv
<1> QED BY <1>1, <1>2, <1>3, <1>4, <1>5, <1>6 DEF s

\* Bind raises no error when it is given a current copy.
LEMMA BindEffect ==
  ASSUME DataInv, UNCHANGED mode, NEW th \in Threads, Bind(th), BindOK(Arg(th))
  PROVE  /\ \E x : Binds(Arg(th).tokens, Arg(th).group, Arg(th).key, x)
         /\ Continue(th, <<>>)
         /\ UNCHANGED fault
<1> DEFINE toks == Arg(th).tokens
           g == Arg(th).group
           key == Arg(th).key
           x == CHOOSE y \in Xfers : phase[y] = "FREE"
<1>1. Arg(th).op = "bind"
  BY DEF Bind, Runs, Arg
<1>2. /\ toks \in Seq(Tokens) /\ toks # <<>> /\ IsInjective(toks)
      /\ ToSet(toks) \subseteq DOMAIN rec
      /\ \A t \in ToSet(toks) : rec[t].xfer = None
      /\ \/ g = None /\ \A t \in ToSet(toks) : ~rec[t].staged
         \/ g \in DOMAIN groups /\ toks = groups[g].tokens /\ key = groups[g].key
  <2>1. CASE g = None
    <3>1. PICK t \in DOMAIN rec : toks = <<t>> /\ rec[t].xfer = None /\ ~rec[t].staged
      BY <1>1, <2>1 DEF BindOK
    <3>2. t \in Tokens
      BY DEF DataInv, Types
    <3>3. <<t>> \in Seq(Tokens) /\ <<t>> # <<>> /\ IsInjective(<<t>>) /\ ToSet(<<t>>) = {t}
      BY <3>2, Single
    <3> HIDE DEF toks
    <3> QED BY <2>1, <3>1, <3>3
  <2>2. CASE g # None
    <3>1. g \in DOMAIN groups /\ toks = groups[g].tokens /\ key = groups[g].key
      BY <1>1, <2>2 DEF BindOK
    <3> HIDE DEF toks, g, key
    <3>2. /\ groups[g].tokens \in Seq(Tokens) /\ groups[g].tokens # <<>>
          /\ IsInjective(groups[g].tokens)
          /\ \A t \in ToSet(groups[g].tokens) : t \in DOMAIN rec /\ rec[t].xfer = None
      BY <3>1, GroupTokens
    <3> QED BY <3>1, <3>2
  <2> QED BY <2>1, <2>2
<1>3. \E t \in DOMAIN rec : rec[t].xfer = None
  <2>1. 1 \in DOMAIN toks
    BY <1>2
  <2>2. toks[1] \in ToSet(toks)
    BY <2>1 DEF ToSet
  <2> QED BY <1>2, <2>2
<1>4. /\ x \in Xfers /\ phase[x] = "FREE" /\ x \notin DOMAIN batches /\ x # other
      /\ \A t \in DOMAIN rec : rec[t].xfer # x
  BY <1>3, FreeContext DEF DataInv
<1>5. g = None \/ g \in DOMAIN groups
  BY <1>2
<1> HIDE DEF toks, g, key, x
<1>6. /\ PoolIssueUpTo(x, mode.capacity)
      /\ batches' = With(batches, x, Batch(Len(toks)))
      /\ rec' = [t \in DOMAIN rec |->
                   IF t \in ToSet(toks)
                   THEN [rec[t] EXCEPT !.xfer = x, !.staged = FALSE]
                   ELSE rec[t]]
      /\ groups' = IF g = None THEN groups ELSE Without(groups, g)
      /\ byKey' = IF g = None THEN byKey ELSE Without(byKey, key)
      /\ UNCHANGED <<order, alarm, other, fault>>
      /\ Continue(th, <<>>)
  BY <1>2, <1>5, Zenon DEF Bind, toks, g, key, x
<1>7. phase' = [phase EXCEPT ![x] = "PENDING"]
  BY <1>6 DEF PoolIssueUpTo
<1>8. Binds(toks, g, key, x)
  BY <1>2, <1>4, <1>6, <1>7 DEF Binds
<1> QED BY <1>6, <1>8 DEF toks, g, key

\* What makes a group whole after a step.
LEMMA GroupIntro ==
  ASSUME NEW g, NEW s, groups'[g].tokens = s, s # <<>>, IsInjective(s),
         \A i \in 1 .. Len(s) : /\ s[i] \in DOMAIN rec' /\ rec'[s[i]].staged
                                /\ rec'[s[i]].group = g,
         Len(s) <= MaxDescriptors, groups'[g].bytes <= MaxBytes,
         \A i \in 1 .. Len(s) - 1 : Continues(rec'[s[i]].desc, rec'[s[i + 1]].desc),
         groups'[g].nextSpm = rec'[Last(s)].desc.spm + rec'[Last(s)].desc.size,
         groups'[g].nextRem = rec'[Last(s)].desc.rem + rec'[Last(s)].desc.size,
         groups'[g].key \in DOMAIN byKey', byKey'[groups'[g].key] = g
  PROVE  GroupInv(g)'
BY DEF GroupInv, Continues

\* A group of which a step changes neither the tokens nor the place in the
\* index.
LEMMA GroupUntouched ==
  ASSUME DataInv, NEW h \in DOMAIN groups,
         /\ groups'[h].tokens = groups[h].tokens
         /\ groups'[h].bytes = groups[h].bytes
         /\ groups'[h].nextSpm = groups[h].nextSpm
         /\ groups'[h].nextRem = groups[h].nextRem
         /\ groups'[h].key = groups[h].key,
         \A t \in ToSet(groups[h].tokens) : t \in DOMAIN rec' /\ rec'[t] = rec[t],
         groups[h].key \in DOMAIN byKey', byKey'[groups[h].key] = h
  PROVE  GroupInv(h)'
<1> DEFINE s == groups[h].tokens
<1>1. GroupInv(h)
  BY DEF DataInv
<1>2. /\ s \in Seq(Tokens) /\ s # <<>> /\ IsInjective(s)
      /\ Len(s) \in Nat \ {0} /\ Last(s) = s[Len(s)]
      /\ \A i \in 1 .. Len(s) : s[i] \in ToSet(s)
  BY GroupTokens
<1>3. \A i \in 1 .. Len(s) : s[i] \in DOMAIN rec' /\ rec'[s[i]] = rec[s[i]]
  BY <1>2
<1>4. rec'[Last(s)] = rec[Last(s)]
  BY <1>2, <1>3
<1>5. \A i \in 1 .. Len(s) : s[i] \in DOMAIN rec' /\ rec'[s[i]].staged /\ rec'[s[i]].group = h
  BY <1>1, <1>3 DEF GroupInv
<1>6. \A i \in 1 .. Len(s) - 1 : Continues(rec'[s[i]].desc, rec'[s[i + 1]].desc)
  <2> TAKE i \in 1 .. Len(s) - 1
  <2>1. i \in 1 .. Len(s) /\ i + 1 \in 1 .. Len(s)
    BY <1>2
  <2> QED BY <1>1, <1>3, <2>1 DEF GroupInv
<1>7. /\ groups[h].nextSpm = rec'[Last(s)].desc.spm + rec'[Last(s)].desc.size
      /\ groups[h].nextRem = rec'[Last(s)].desc.rem + rec'[Last(s)].desc.size
      /\ Len(s) <= MaxDescriptors /\ groups[h].bytes <= MaxBytes
  BY <1>1, <1>4 DEF GroupInv
<1> HIDE DEF s
<1>8. groups'[h].tokens = s
  BY DEF s
<1> QED BY <1>2, <1>5, <1>6, <1>7, <1>8 DEF GroupInv, Continues

\* Binding a batch keeps the data consistent; nothing becomes complete.
LEMMA BindData ==
  ASSUME DataInv, turn' \in Turns,
         NEW toks, NEW g, NEW key, NEW x, Binds(toks, g, key, x)
  PROVE  /\ DataInv'
         /\ \A t \in DOMAIN rec : Complete(t)' = Complete(t)
<1>1. /\ x \in Xfers /\ phase[x] = "FREE" /\ x \notin DOMAIN batches /\ x # other
      /\ \A t \in DOMAIN rec : rec[t].xfer # x
      /\ toks \in Seq(Tokens) /\ toks # <<>> /\ IsInjective(toks)
      /\ ToSet(toks) \subseteq DOMAIN rec
      /\ \A t \in ToSet(toks) : rec[t].xfer = None
  BY DEF Binds
<1>2. \/ g = None /\ \A t \in ToSet(toks) : ~rec[t].staged
      \/ g \in DOMAIN groups /\ toks = groups[g].tokens /\ key = groups[g].key
  BY DEF Binds
<1>3. /\ phase \in [Xfers -> Phases] /\ phase' = [phase EXCEPT ![x] = "PENDING"]
      /\ phase'[x] = "PENDING"
      /\ \A y \in Xfers : y # x => phase'[y] = phase[y]
  BY <1>1 DEF Binds, DataInv, Types, PoolTypeOK
<1>4. /\ DOMAIN rec' = DOMAIN rec
      /\ \A t \in DOMAIN rec : rec[t] \in RecordType
      /\ \A t \in ToSet(toks) : rec'[t] = [rec[t] EXCEPT !.xfer = x, !.staged = FALSE]
      /\ \A t \in DOMAIN rec : t \notin ToSet(toks) => rec'[t] = rec[t]
  BY <1>1 DEF Binds, DataInv, Types
<1>5. \A t \in ToSet(toks) : /\ rec'[t] \in RecordType
                             /\ rec'[t].xfer = x /\ rec'[t].staged = FALSE
                             /\ rec'[t].desc = rec[t].desc
                             /\ rec'[t].group = rec[t].group
  <2> TAKE t \in ToSet(toks)
  <2>1. rec[t] \in RecordType /\ rec'[t] = [rec[t] EXCEPT !.xfer = x, !.staged = FALSE]
    BY <1>1, <1>4
  <2> QED BY <1>1, <2>1 DEF RecordType
<1>6. \A t \in DOMAIN rec : rec'[t] \in RecordType /\ rec'[t].desc = rec[t].desc
  BY <1>4, <1>5
<1>7. /\ DOMAIN groups' \subseteq DOMAIN groups
      /\ DOMAIN byKey' \subseteq DOMAIN byKey
      /\ \A h \in DOMAIN groups : h # g => h \in DOMAIN groups'
      /\ \A h \in DOMAIN groups' : groups'[h] = groups[h] /\ h # g
      /\ \A k \in DOMAIN byKey' : byKey'[k] = byKey[k]
      /\ \A k \in DOMAIN byKey : (g = None \/ k # key) => k \in DOMAIN byKey'
      /\ groups' \in [DOMAIN groups' -> GroupType]
      /\ byKey' \in [DOMAIN byKey' -> GroupIds]
      /\ g # None => key \notin DOMAIN byKey'
  <2>1. /\ groups \in [DOMAIN groups -> GroupType] /\ byKey \in [DOMAIN byKey -> GroupIds]
        /\ None \notin DOMAIN groups
    BY AsyncAssumption DEF DataInv, Types
  <2>2. CASE g = None
    BY <2>1, <2>2 DEF Binds
  <2>3. CASE g # None
    BY <2>1, <2>3 DEF Binds, Without, Restrict
  <2> QED BY <2>2, <2>3
<1>8. /\ DOMAIN batches' = DOMAIN batches \union {x}
      /\ batches'[x] = Batch(Len(toks))
      /\ \A y \in DOMAIN batches : batches'[y] = batches[y]
      /\ batches' \in [DOMAIN batches' -> BatchType]
  <2>1. batches \in [DOMAIN batches -> BatchType]
    BY DEF DataInv, Types
  <2>2. Len(toks) \in Nat
    BY <1>1
  <2>3. Batch(Len(toks)) \in BatchType
    BY <2>2 DEF Batch, BatchType
  <2>4. batches' = [y \in DOMAIN batches \union {x} |->
                      IF y = x THEN Batch(Len(toks)) ELSE batches[y]]
    BY DEF Binds, With
  <2> HIDE DEF Batch
  <2> QED BY <1>1, <2>1, <2>3, <2>4
<1>9. UNCHANGED <<mode, order, other>>
  BY DEF Binds
<1>10. \A t \in ToSet(toks) : \A h \in DOMAIN groups' : t \notin ToSet(groups[h].tokens)
  <2>1. ASSUME NEW t \in ToSet(toks), NEW h \in DOMAIN groups', t \in ToSet(groups[h].tokens)
        PROVE  FALSE
    <3>1. h \in DOMAIN groups /\ h # g /\ GroupInv(h) /\ groups[h].tokens \in Seq(Tokens)
      BY <1>7 DEF DataInv, Types, GroupType
    <3>2. rec[t].staged /\ rec[t].group = h
      BY <2>1, <3>1 DEF GroupInv, ToSet
    <3>3. g \in DOMAIN groups /\ toks = groups[g].tokens
      BY <1>2, <3>2
    <3>4. GroupInv(g) /\ groups[g].tokens \in Seq(Tokens)
      BY <3>3 DEF DataInv, Types, GroupType
    <3>5. rec[t].group = g
      BY <2>1, <3>3, <3>4 DEF GroupInv, ToSet
    <3> QED BY <3>1, <3>2, <3>5
  <2> QED BY <2>1
<1>11. Types'
  <2>1. phase' \in [Xfers -> Phases]
    BY <1>3 DEF Phases
  <2>2. rec' \in [DOMAIN rec' -> RecordType]
    <3>1. rec' = [t \in DOMAIN rec' |-> rec'[t]]
      BY DEF Binds
    <3> QED BY <1>4, <1>6, <3>1
  <2>3. \A t \in DOMAIN rec' : rec'[t].desc \in mode.descs
    BY <1>4, <1>6 DEF DataInv, Types
  <2> QED BY <1>1, <1>4, <1>7, <1>8, <1>9, <2>1, <2>2, <2>3
          DEF DataInv, Types, PoolTypeOK, Turns
<1>12. OrderInv'
  BY <1>4, <1>9 DEF DataInv, OrderInv
<1>13. BatchInv'
  <2>1. Sharers(x)' = ToSet(toks)
    BY <1>1, <1>4, <1>5 DEF Sharers
  <2>2. \A y \in DOMAIN batches : Sharers(y)' = Sharers(y)
    <3> TAKE y \in DOMAIN batches
    <3>1. y # x /\ y # None
      BY <1>1, AsyncAssumption DEF DataInv, Types
    <3> QED BY <1>1, <1>4, <1>5, <3>1 DEF Sharers
  <2>3. /\ batches'[x].remaining = Cardinality(Sharers(x))' /\ batches'[x].remaining > 0
        /\ batches'[x].remaining <= batches'[x].members
    <3>1. Cardinality(ToSet(toks)) = Len(toks) /\ Len(toks) > 0
      BY <1>1, InjectiveLen
    <3> QED BY <1>8, <2>1, <3>1 DEF Batch
  <2>4. \A y \in DOMAIN batches' :
          /\ batches'[y].remaining = Cardinality(Sharers(y))'
          /\ batches'[y].remaining > 0
          /\ batches'[y].remaining <= batches'[y].members
          /\ phase'[y] # "FREE"
          /\ y # other'
    <3> TAKE y \in DOMAIN batches'
    <3>1. CASE y = x
      BY <1>1, <1>3, <1>9, <2>3, <3>1
    <3>2. CASE y # x
      <4>1. y \in DOMAIN batches /\ batches'[y] = batches[y] /\ y \in Xfers
        BY <1>8, <3>2 DEF DataInv, Types
      <4> QED BY <1>3, <1>9, <2>2, <3>2, <4>1 DEF DataInv, BatchInv
    <3> QED BY <3>1, <3>2
  <2>5. \A t \in DOMAIN rec' : rec'[t].xfer \in DOMAIN batches' \union {None}
    BY <1>1, <1>4, <1>5, <1>8 DEF DataInv, BatchInv
  <2>6. \A y \in Xfers : phase'[y] # "FREE" => y \in DOMAIN batches' \/ y = other'
    BY <1>3, <1>8, <1>9 DEF DataInv, BatchInv
  <2>7. other' # None => phase'[other'] # "FREE"
    BY <1>1, <1>3, <1>9 DEF DataInv, BatchInv, Types
  <2> QED BY <2>4, <2>5, <2>6, <2>7 DEF BatchInv
<1>14. ASSUME NEW h \in DOMAIN groups' PROVE GroupInv(h)'
  <2>1. h \in DOMAIN groups /\ h # g /\ groups'[h] = groups[h] /\ GroupInv(h)
    BY <1>7 DEF DataInv
  <2>2. \A t \in ToSet(groups[h].tokens) : t \in DOMAIN rec' /\ rec'[t] = rec[t]
    BY <1>4, <1>10, <2>1, GroupTokens
  <2>3. groups[h].key \in DOMAIN byKey'
    <3>1. g # None => groups[h].key # key
      BY <1>2, <2>1 DEF GroupInv, DataInv
    <3> QED BY <1>7, <2>1, <3>1 DEF GroupInv
  <2>4. byKey'[groups[h].key] = h
    BY <1>7, <2>1, <2>3 DEF GroupInv
  <2> QED BY <2>1, <2>2, <2>3, <2>4, GroupUntouched
<1>15. ASSUME NEW t \in DOMAIN rec' PROVE StagedInv(t)'
  <2>1. CASE t \in ToSet(toks)
    BY <1>5, <2>1 DEF StagedInv
  <2>2. CASE t \notin ToSet(toks)
    <3>1. t \in DOMAIN rec /\ rec'[t] = rec[t] /\ StagedInv(t)
      BY <1>4, <2>2 DEF DataInv
    <3>2. rec[t].staged => rec[t].group # g
      BY <1>2, <2>2, <3>1, AsyncAssumption DEF StagedInv, DataInv, Types
    <3> QED BY <1>7, <3>1, <3>2 DEF StagedInv
  <2> QED BY <2>1, <2>2
<1>16. KeyInv'
  <2>1. ASSUME NEW k \in DOMAIN byKey'
        PROVE  byKey'[k] \in DOMAIN groups' /\ groups'[byKey'[k]].key = k
    <3>1. k \in DOMAIN byKey /\ byKey'[k] = byKey[k]
      BY <1>7
    <3>2. byKey[k] \in DOMAIN groups /\ groups[byKey[k]].key = k
      BY <3>1 DEF DataInv, KeyInv
    <3>3. byKey[k] # g
      BY <1>2, <1>7, <3>1, <3>2, AsyncAssumption DEF DataInv, Types
    <3> QED BY <1>7, <3>1, <3>2, <3>3
  <2>2. DOMAIN groups' # {} => mode'.aggregation
    BY <1>7, <1>9 DEF DataInv, KeyInv
  <2> QED BY <2>1, <2>2 DEF KeyInv
<1>17. \A t \in DOMAIN rec : Complete(t)' = Complete(t)
  <2> TAKE t \in DOMAIN rec
  <2>1. CASE t \in ToSet(toks)
    BY <1>1, <1>3, <1>5, <2>1 DEF Complete
  <2>2. CASE t \notin ToSet(toks)
    <3>1. rec'[t] = rec[t] /\ rec[t].xfer # x
      BY <1>1, <1>4, <2>2
    <3>2. rec[t].xfer # None => rec[t].xfer \in Xfers
      BY DEF DataInv, BatchInv, Types
    <3> QED BY <1>3, <3>1, <3>2 DEF Complete
  <2> QED BY <2>1, <2>2
<1>18. HazardInv'
  BY <1>4, <1>6, <1>17 DEF DataInv, HazardInv
<1> QED BY <1>11, <1>12, <1>13, <1>14, <1>15, <1>16, <1>17, <1>18 DEF DataInv

\* The engine moves a transfer on: no context becomes free, and what is
\* complete stays complete.
LEMMA PhaseData ==
  ASSUME DataInv, turn' \in Turns, phase' \in [Xfers -> Phases],
         UNCHANGED <<mode, rec, order, groups, byKey, batches, other>>,
         \A x \in Xfers : /\ phase'[x] = "FREE" <=> phase[x] = "FREE"
                          /\ phase[x] = "COMPLETED" => phase'[x] = "COMPLETED"
  PROVE  /\ DataInv'
         /\ \A t \in DOMAIN rec : Complete(t) => Complete(t)'
<1>1. Types'
  BY DEF DataInv, Types, PoolTypeOK, Turns
<1>2. OrderInv'
  BY DEF DataInv, OrderInv
<1>3. BatchInv'
  <2>1. DOMAIN batches \subseteq Xfers /\ other \in Xfers \union {None}
    BY DEF DataInv, Types
  <2> QED BY <2>1 DEF DataInv, BatchInv, Sharers
<1>4. ASSUME NEW g \in DOMAIN groups' PROVE GroupInv(g)'
  BY DEF DataInv, GroupInv
<1>5. ASSUME NEW t \in DOMAIN rec' PROVE StagedInv(t)'
  BY DEF DataInv, StagedInv
<1>6. KeyInv'
  BY DEF DataInv, KeyInv
<1>7. \A t \in DOMAIN rec : Complete(t) => Complete(t)'
  <2>1. \A t \in DOMAIN rec : rec[t].xfer # None => rec[t].xfer \in Xfers
    BY DEF DataInv, BatchInv, Types
  <2> QED BY <2>1 DEF Complete
<1>8. HazardInv'
  BY <1>7 DEF DataInv, HazardInv
<1> QED BY <1>1, <1>2, <1>3, <1>4, <1>5, <1>6, <1>7, <1>8 DEF DataInv

\* A SEND or RECV takes a context for itself, or gives it back.
LEMMA OtherData ==
  ASSUME DataInv, turn' \in Turns, phase' \in [Xfers -> Phases],
         UNCHANGED <<mode, rec, order, groups, byKey, batches>>,
         other' \in Xfers \union {None}, other' \notin DOMAIN batches,
         \A x \in DOMAIN batches : phase'[x] = phase[x],
         \A x \in Xfers \ DOMAIN batches : phase'[x] # "FREE" <=> x = other'
  PROVE  /\ DataInv'
         /\ \A t \in DOMAIN rec : Complete(t)' = Complete(t)
<1>1. Types'
  BY DEF DataInv, Types, PoolTypeOK, Turns
<1>2. OrderInv'
  BY DEF DataInv, OrderInv
<1>3. BatchInv'
  BY SMTT(30) DEF DataInv, BatchInv, Sharers
<1>4. ASSUME NEW g \in DOMAIN groups' PROVE GroupInv(g)'
  BY DEF DataInv, GroupInv
<1>5. ASSUME NEW t \in DOMAIN rec' PROVE StagedInv(t)'
  BY DEF DataInv, StagedInv
<1>6. KeyInv'
  BY DEF DataInv, KeyInv
<1>7. \A t \in DOMAIN rec : Complete(t)' = Complete(t)
  BY DEF Complete, DataInv, BatchInv
<1>8. HazardInv'
  BY <1>7 DEF DataInv, HazardInv
<1> QED BY <1>1, <1>2, <1>3, <1>4, <1>5, <1>6, <1>7, <1>8 DEF DataInv

\* records_.erase(): the record of a token is gone, and its place in the order.
Erases(t) == rec' = Without(rec, t) /\ order' = Forget(t)

\* What is left after the erasure of one token.
LEMMA Erased ==
  ASSUME DataInv, NEW t \in DOMAIN rec, Erases(t)
  PROVE  /\ DOMAIN rec' = DOMAIN rec \ {t}
         /\ \A u \in DOMAIN rec' : rec'[u] = rec[u]
         /\ rec' \in [DOMAIN rec' -> RecordType]
         /\ order' \in Seq(Tokens)
         /\ OrderInv'
<1>1. /\ DOMAIN rec' = DOMAIN rec \ {t}
      /\ \A u \in DOMAIN rec' : rec'[u] = rec[u]
      /\ rec' \in [DOMAIN rec' -> RecordType]
  BY DEF Erases, Without, Restrict, DataInv, Types
<1>2. order \in Seq(Tokens) /\ IsInjective(order) /\ ToSet(order) = DOMAIN rec
  BY DEF DataInv, Types, OrderInv
<1>3. order' \in Seq(Tokens) /\ IsInjective(order') /\ ToSet(order') = DOMAIN rec \ {t}
  BY <1>2, ForgetElement DEF Erases, Forget
<1> QED BY <1>1, <1>3 DEF OrderInv

\* A token that is bound is erased; its groups are untouched.
LEMMA ErasedBound ==
  ASSUME DataInv, NEW t \in DOMAIN rec, Erases(t), rec[t].xfer # None,
         UNCHANGED <<mode, groups, byKey>>
  PROVE  /\ \A g \in DOMAIN groups' : GroupInv(g)'
         /\ \A u \in DOMAIN rec' : StagedInv(u)'
         /\ KeyInv'
<1>1. /\ DOMAIN rec' = DOMAIN rec \ {t}
      /\ \A u \in DOMAIN rec' : rec'[u] = rec[u]
  BY Erased
<1>2. ASSUME NEW g \in DOMAIN groups' PROVE GroupInv(g)'
  <2>1. g \in DOMAIN groups /\ GroupInv(g)
    BY DEF DataInv
  <2>2. \A u \in ToSet(groups[g].tokens) : u \in DOMAIN rec' /\ rec'[u] = rec[u]
    BY <1>1, <2>1, GroupTokens
  <2>3. groups[g].key \in DOMAIN byKey' /\ byKey'[groups[g].key] = g
    BY <2>1 DEF GroupInv
  <2> QED BY <2>1, <2>2, <2>3, GroupUntouched
<1>3. ASSUME NEW u \in DOMAIN rec' PROVE StagedInv(u)'
  BY <1>1 DEF DataInv, StagedInv
<1>4. KeyInv'
  BY DEF DataInv, KeyInv
<1> QED BY <1>2, <1>3, <1>4

\* The last token of a batch is erased, and its context released.
LEMMA EraseLast ==
  ASSUME DataInv, turn' \in Turns, NEW t \in DOMAIN rec, Erases(t),
         NEW x \in DOMAIN batches, rec[t].xfer = x, batches[x].remaining = 1,
         phase' = [phase EXCEPT ![x] = "FREE"],
         batches' = Without(batches, x),
         UNCHANGED <<mode, groups, byKey, other>>
  PROVE  /\ DataInv'
         /\ \A u \in DOMAIN rec' : Complete(u)' = Complete(u)
<1>1. /\ DOMAIN rec' = DOMAIN rec \ {t}
      /\ \A u \in DOMAIN rec' : rec'[u] = rec[u]
      /\ rec' \in [DOMAIN rec' -> RecordType]
      /\ order' \in Seq(Tokens)
      /\ OrderInv'
  BY Erased
<1>2. /\ DOMAIN batches \subseteq Xfers /\ x # None /\ phase \in [Xfers -> Phases]
      /\ IsFiniteSet(Tokens) /\ DOMAIN rec \subseteq Tokens
      /\ batches \in [DOMAIN batches -> BatchType]
  BY AsyncAssumption DEF DataInv, Types, PoolTypeOK
<1>3. \A u \in DOMAIN rec : rec[u].xfer = x => u = t
  <2>1. Sharers(x) \in SUBSET Tokens /\ t \in Sharers(x)
    BY <1>2 DEF Sharers
  <2>2. IsFiniteSet(Sharers(x)) /\ Cardinality(Sharers(x)) = 1
    BY <1>2, <2>1, FS_Subset DEF DataInv, BatchInv
  <2>3. PICK e : Sharers(x) = {e}
    BY <2>2, FS_Singleton
  <2> QED BY <2>1, <2>3 DEF Sharers
<1>4. /\ DOMAIN batches' = DOMAIN batches \ {x}
      /\ \A y \in DOMAIN batches' : batches'[y] = batches[y]
      /\ batches' \in [DOMAIN batches' -> BatchType]
  BY <1>2 DEF Without, Restrict
<1>5. /\ phase' \in [Xfers -> Phases] /\ phase'[x] = "FREE"
      /\ \A y \in Xfers : y # x => phase'[y] = phase[y]
  BY <1>2 DEF Phases
<1>6. Types'
  BY <1>1, <1>2, <1>4, <1>5 DEF DataInv, Types, PoolTypeOK, Turns
<1>7. BatchInv'
  <2>1. \A y \in DOMAIN batches' : Sharers(y)' = Sharers(y)
    BY <1>1, <1>4 DEF Sharers
  <2>2. \A y \in DOMAIN batches' :
          /\ batches'[y].remaining = Cardinality(Sharers(y))'
          /\ batches'[y].remaining > 0
          /\ batches'[y].remaining <= batches'[y].members
          /\ phase'[y] # "FREE"
          /\ y # other'
    BY <1>2, <1>4, <1>5, <2>1 DEF DataInv, BatchInv
  <2>3. \A u \in DOMAIN rec' : rec'[u].xfer \in DOMAIN batches' \union {None}
    BY <1>1, <1>3, <1>4 DEF DataInv, BatchInv
  <2>4. \A y \in Xfers : phase'[y] # "FREE" => y \in DOMAIN batches' \/ y = other'
    BY <1>4, <1>5 DEF DataInv, BatchInv
  <2>5. other' # None => phase'[other'] # "FREE"
    BY <1>2, <1>5 DEF DataInv, BatchInv, Types
  <2> QED BY <2>2, <2>3, <2>4, <2>5 DEF BatchInv
<1>8. \A u \in DOMAIN rec' : Complete(u)' = Complete(u)
  BY <1>1, <1>2, <1>3, <1>5 DEF Complete, DataInv, BatchInv
<1>9. HazardInv'
  BY <1>1, <1>8 DEF DataInv, HazardInv
<1> QED BY <1>1, <1>2, <1>6, <1>7, <1>8, <1>9, ErasedBound DEF DataInv

\* A token is erased that is not the last of its batch.
LEMMA EraseShared ==
  ASSUME DataInv, turn' \in Turns, NEW t \in DOMAIN rec, Erases(t),
         NEW x \in DOMAIN batches, rec[t].xfer = x, batches[x].remaining # 1,
         batches' = [batches EXCEPT ![x].remaining = @ - 1],
         UNCHANGED <<mode, phase, groups, byKey, other>>
  PROVE  /\ DataInv'
         /\ \A u \in DOMAIN rec' : Complete(u)' = Complete(u)
<1>1. /\ DOMAIN rec' = DOMAIN rec \ {t}
      /\ \A u \in DOMAIN rec' : rec'[u] = rec[u]
      /\ rec' \in [DOMAIN rec' -> RecordType]
      /\ order' \in Seq(Tokens)
      /\ OrderInv'
  BY Erased
<1>2. /\ DOMAIN batches \subseteq Xfers /\ x # None
      /\ IsFiniteSet(Tokens) /\ DOMAIN rec \subseteq Tokens
      /\ batches \in [DOMAIN batches -> BatchType]
      /\ batches[x].remaining \in Nat /\ batches[x].remaining > 1
      /\ batches[x].members \in Nat /\ batches[x].remaining <= batches[x].members
  BY AsyncAssumption DEF DataInv, Types, BatchInv, BatchType
<1>3. /\ DOMAIN batches' = DOMAIN batches
      /\ \A y \in DOMAIN batches : y # x => batches'[y] = batches[y]
      /\ batches'[x].remaining = batches[x].remaining - 1
      /\ batches'[x].members = batches[x].members
      /\ batches' \in [DOMAIN batches' -> BatchType]
  BY <1>2 DEF BatchType
<1>4. Types'
  BY <1>1, <1>2, <1>3 DEF DataInv, Types, PoolTypeOK, Turns
<1>5. BatchInv'
  <2>1. \A y \in DOMAIN batches : y # x => Sharers(y)' = Sharers(y)
    BY <1>1 DEF Sharers
  <2>2. Sharers(x)' = Sharers(x) \ {t} /\ t \in Sharers(x) /\ Sharers(x) \in SUBSET Tokens
    BY <1>1, <1>2 DEF Sharers
  <2>3. Cardinality(Sharers(x))' = Cardinality(Sharers(x)) - 1
    BY <1>2, <2>2, FS_Subset, FS_RemoveElement
  <2>4. Cardinality(Sharers(x)) = batches[x].remaining
    BY DEF DataInv, BatchInv
  <2>5. \A y \in DOMAIN batches' :
          /\ batches'[y].remaining = Cardinality(Sharers(y))'
          /\ batches'[y].remaining > 0
          /\ batches'[y].remaining <= batches'[y].members
          /\ phase'[y] # "FREE"
          /\ y # other'
    <3> TAKE y \in DOMAIN batches'
    <3>1. CASE y = x
      <4>1. phase'[x] # "FREE" /\ x # other'
        BY DEF DataInv, BatchInv
      <4> QED BY <1>2, <1>3, <2>3, <2>4, <3>1, <4>1
    <3>2. CASE y # x
      BY <1>3, <2>1, <3>2 DEF DataInv, BatchInv
    <3> QED BY <3>1, <3>2
  <2>6. \A u \in DOMAIN rec' : rec'[u].xfer \in DOMAIN batches' \union {None}
    BY <1>1, <1>3 DEF DataInv, BatchInv
  <2>7. /\ \A y \in Xfers : phase'[y] # "FREE" => y \in DOMAIN batches' \/ y = other'
        /\ other' # None => phase'[other'] # "FREE"
    BY <1>3 DEF DataInv, BatchInv
  <2> QED BY <2>5, <2>6, <2>7 DEF BatchInv
<1>6. \A u \in DOMAIN rec' : Complete(u)' = Complete(u)
  BY <1>1 DEF Complete
<1>7. HazardInv'
  BY <1>1, <1>6 DEF DataInv, HazardInv
<1> QED BY <1>1, <1>2, <1>4, <1>5, <1>6, <1>7, ErasedBound DEF DataInv

\* The configuration in use.
LEMMA ModeFacts ==
  ASSUME Types
  PROVE  /\ mode.descs \subseteq DescType
         /\ mode.aggregation => /\ MaxDescriptors \in Nat \ {0, 1}
                                /\ MaxBytes \in Nat \ {0}
                                /\ TimeoutCycles \in Nat \ {0}
BY AsyncAssumption DEF Types, ModeType

\* A cycle passes: only the time left to the groups changes.
LEMMA TickData ==
  ASSUME DataInv, turn' \in Turns,
         UNCHANGED <<mode, phase, rec, order, byKey, batches, other>>,
         groups' = [g \in DOMAIN groups |->
                      [groups[g] EXCEPT !.left = IF @ > 0 THEN @ - 1 ELSE 0]]
  PROVE  /\ DataInv' /\ DOMAIN groups' = DOMAIN groups
         /\ \A t \in DOMAIN rec : Complete(t)' = Complete(t)
         /\ \A g \in DOMAIN groups : /\ groups'[g].tokens = groups[g].tokens
                                     /\ groups'[g].key = groups[g].key
<1>1. \A g \in DOMAIN groups : groups[g] \in GroupType /\ mode.aggregation
  BY DEF DataInv, Types, KeyInv
<1>2. DOMAIN groups # {} => TimeoutCycles \in Nat
  BY <1>1, ModeFacts DEF DataInv
<1>3. DOMAIN groups' = DOMAIN groups
  OBVIOUS
<1>4. ASSUME NEW g \in DOMAIN groups
      PROVE  /\ groups'[g] \in GroupType
             /\ groups'[g].tokens = groups[g].tokens
             /\ groups'[g].bytes = groups[g].bytes
             /\ groups'[g].nextSpm = groups[g].nextSpm
             /\ groups'[g].nextRem = groups[g].nextRem
             /\ groups'[g].key = groups[g].key
  <2>1. groups[g].left \in 0 .. TimeoutCycles /\ groups[g] \in GroupType
    BY <1>1 DEF GroupType
  <2> DEFINE n == IF groups[g].left > 0 THEN groups[g].left - 1 ELSE 0
  <2>2. n \in 0 .. TimeoutCycles
    BY <1>2, <2>1
  <2>3. groups'[g] = [groups[g] EXCEPT !.left = n]
    OBVIOUS
  <2> HIDE DEF n
  <2> QED BY <2>1, <2>2, <2>3 DEF GroupType
<1>5. groups' \in [DOMAIN groups' -> GroupType]
  BY <1>3, <1>4
<1>6. Types'
  BY <1>3, <1>5 DEF DataInv, Types, PoolTypeOK, Turns
<1>7. OrderInv'
  BY DEF DataInv, OrderInv
<1>8. BatchInv'
  BY DEF DataInv, BatchInv, Sharers
<1>9. ASSUME NEW g \in DOMAIN groups' PROVE GroupInv(g)'
  <2>1. g \in DOMAIN groups /\ GroupInv(g)
    BY <1>3 DEF DataInv
  <2>2. \A t \in ToSet(groups[g].tokens) : t \in DOMAIN rec' /\ rec'[t] = rec[t]
    BY <2>1, GroupTokens
  <2>3. groups[g].key \in DOMAIN byKey' /\ byKey'[groups[g].key] = g
    BY <2>1 DEF GroupInv
  <2> QED BY <1>4, <2>1, <2>2, <2>3, GroupUntouched
<1>10. ASSUME NEW t \in DOMAIN rec' PROVE StagedInv(t)'
  BY <1>3, <1>4 DEF DataInv, StagedInv
<1>11. KeyInv'
  BY <1>3, <1>4 DEF DataInv, KeyInv
<1>12. \A t \in DOMAIN rec : Complete(t)' = Complete(t)
  BY DEF Complete
<1>13. HazardInv'
  BY <1>12 DEF DataInv, HazardInv
<1> QED BY <1>3, <1>4, <1>6, <1>7, <1>8, <1>9, <1>10, <1>11, <1>12, <1>13 DEF DataInv

\* A record enters records_; it conflicts with nothing that is incomplete.
LEMMA NewRecord ==
  ASSUME DataInv, NEW t \in Tokens, t \notin DOMAIN rec, NEW new \in RecordType,
         new.desc \in mode.descs, new.xfer = None,
         \A u \in DOMAIN rec : ~Complete(u) => ~HasHazard(rec[u].desc, new.desc),
         rec' = With(rec, t, new), order' = Append(order, t),
         UNCHANGED <<mode, phase, batches, other>>
  PROVE  /\ DOMAIN rec' = DOMAIN rec \union {t} /\ rec'[t] = new
         /\ \A u \in DOMAIN rec : rec'[u] = rec[u] /\ Complete(u)' = Complete(u)
         /\ DOMAIN rec' \subseteq Tokens /\ rec' \in [DOMAIN rec' -> RecordType]
         /\ \A u \in DOMAIN rec' : rec'[u].desc \in mode.descs
         /\ order' \in Seq(Tokens)
         /\ OrderInv' /\ BatchInv' /\ HazardInv'
<1>1. /\ DOMAIN rec' = DOMAIN rec \union {t} /\ rec'[t] = new
      /\ \A u \in DOMAIN rec : rec'[u] = rec[u] /\ u # t
      /\ DOMAIN rec' \subseteq Tokens /\ rec' \in [DOMAIN rec' -> RecordType]
  BY DEF With, DataInv, Types
<1>2. \A u \in DOMAIN rec' : rec'[u].desc \in mode.descs
  BY <1>1 DEF DataInv, Types
<1>3. order' \in Seq(Tokens) /\ OrderInv'
  <2>1. /\ order \in Seq(Tokens) /\ IsInjective(order) /\ ToSet(order) = DOMAIN rec
        /\ DOMAIN order = 1 .. Len(order) /\ Len(order) \in Nat
    BY DEF DataInv, Types, OrderInv
  <2>2. /\ order' \in Seq(Tokens) /\ Len(order') = Len(order) + 1
        /\ DOMAIN order' = 1 .. Len(order) + 1
        /\ order'[Len(order) + 1] = t
        /\ \A i \in 1 .. Len(order) : order'[i] = order[i]
    BY <2>1
  <2>3. \A i \in 1 .. Len(order) : order[i] \in DOMAIN rec
    BY <2>1 DEF ToSet
  <2>4. ASSUME NEW i \in DOMAIN order', NEW j \in DOMAIN order', order'[i] = order'[j]
        PROVE  i = j
    <3>1. i \in 1 .. Len(order) \/ i = Len(order) + 1
      BY <2>1, <2>2
    <3>2. j \in 1 .. Len(order) \/ j = Len(order) + 1
      BY <2>1, <2>2
    <3> QED BY <2>1, <2>2, <2>3, <2>4, <3>1, <3>2 DEF IsInjective
  <2>5. ToSet(order') = DOMAIN rec'
    <3>1. ASSUME NEW u \in ToSet(order') PROVE u \in DOMAIN rec'
      <4>1. PICK i \in 1 .. Len(order) + 1 : order'[i] = u
        BY <2>2 DEF ToSet
      <4>2. i \in 1 .. Len(order) \/ i = Len(order) + 1
        BY <2>1
      <4> QED BY <1>1, <2>2, <2>3, <4>1, <4>2
    <3>2. ASSUME NEW u \in DOMAIN rec' PROVE u \in ToSet(order')
      <4>1. CASE u = t
        <5>1. Len(order) + 1 \in DOMAIN order'
          BY <2>1, <2>2
        <5> QED BY <2>2, <4>1, <5>1 DEF ToSet
      <4>2. CASE u \in DOMAIN rec
        <5>1. PICK i \in 1 .. Len(order) : order[i] = u
          BY <2>1, <4>2 DEF ToSet
        <5>2. i \in DOMAIN order' /\ order'[i] = u
          BY <2>1, <2>2, <5>1
        <5> QED BY <5>2 DEF ToSet
      <4> QED BY <1>1, <4>1, <4>2
    <3> QED BY <3>1, <3>2
  <2> QED BY <2>2, <2>4, <2>5 DEF OrderInv, IsInjective
<1>4. BatchInv'
  <2>1. \A x \in DOMAIN batches : Sharers(x)' = Sharers(x)
    <3> TAKE x \in DOMAIN batches
    <3>1. x # None
      BY AsyncAssumption DEF DataInv, Types
    <3> QED BY <1>1, <3>1 DEF Sharers
  <2>2. \A u \in DOMAIN rec' : rec'[u].xfer \in DOMAIN batches \union {None}
    BY <1>1 DEF DataInv, BatchInv
  <2> QED BY <2>1, <2>2 DEF DataInv, BatchInv
<1>5. \A u \in DOMAIN rec : Complete(u)' = Complete(u)
  BY <1>1 DEF Complete
<1>6. HazardInv'
  <2>1. mode.descs \subseteq DescType
    BY ModeFacts DEF DataInv
  <2>2. \A u \in DOMAIN rec : ~Complete(u) => ~HasHazard(new.desc, rec[u].desc)
    BY <2>1, Ranges DEF DataInv, Types
  <2> QED BY <1>1, <1>5, <2>2 DEF DataInv, HazardInv
<1> QED BY <1>1, <1>2, <1>3, <1>4, <1>5, <1>6

\* The new record is neither staged nor bound yet.
LEMMA CreateLoose ==
  ASSUME DataInv, turn' \in Turns,
         NEW t \in Tokens, t \notin DOMAIN rec, NEW new \in RecordType,
         new.desc \in mode.descs, new.xfer = None, ~new.staged,
         \A u \in DOMAIN rec : ~Complete(u) => ~HasHazard(rec[u].desc, new.desc),
         rec' = With(rec, t, new), order' = Append(order, t),
         UNCHANGED <<mode, phase, batches, other, groups, byKey>>
  PROVE  DataInv'
<1>1. /\ DOMAIN rec' = DOMAIN rec \union {t} /\ rec'[t] = new
      /\ \A u \in DOMAIN rec : rec'[u] = rec[u]
      /\ DOMAIN rec' \subseteq Tokens /\ rec' \in [DOMAIN rec' -> RecordType]
      /\ \A u \in DOMAIN rec' : rec'[u].desc \in mode.descs
      /\ order' \in Seq(Tokens)
      /\ OrderInv' /\ BatchInv' /\ HazardInv'
  BY NewRecord
<1>2. Types'
  BY <1>1 DEF DataInv, Types, PoolTypeOK, Turns
<1>3. ASSUME NEW g \in DOMAIN groups' PROVE GroupInv(g)'
  <2>1. g \in DOMAIN groups /\ GroupInv(g)
    BY DEF DataInv
  <2>2. \A u \in ToSet(groups[g].tokens) : u \in DOMAIN rec' /\ rec'[u] = rec[u]
    BY <1>1, <2>1, GroupTokens
  <2>3. groups[g].key \in DOMAIN byKey' /\ byKey'[groups[g].key] = g
    BY <2>1 DEF GroupInv
  <2> QED BY <2>1, <2>2, <2>3, GroupUntouched
<1>4. ASSUME NEW u \in DOMAIN rec' PROVE StagedInv(u)'
  BY <1>1 DEF DataInv, StagedInv
<1>5. KeyInv'
  BY DEF DataInv, KeyInv
<1> QED BY <1>1, <1>2, <1>3, <1>4, <1>5 DEF DataInv

\* AppendToAggregationGroup(): the new record is staged in an open group that
\* it continues.
LEMMA CreateAppend ==
  ASSUME DataInv, turn' \in Turns,
         NEW t \in Tokens, t \notin DOMAIN rec, NEW new \in RecordType,
         new.desc \in mode.descs, new.xfer = None,
         \A u \in DOMAIN rec : ~Complete(u) => ~HasHazard(rec[u].desc, new.desc),
         rec' = With(rec, t, new), order' = Append(order, t),
         UNCHANGED <<mode, phase, batches, other, byKey>>,
         NEW g \in DOMAIN groups, new.staged, new.group = g,
         CanAppend(groups[g], new.desc),
         groups' = [groups EXCEPT ![g] =
                      [groups[g] EXCEPT !.tokens = Append(@, t),
                                        !.bytes = @ + new.desc.size,
                                        !.nextSpm = new.desc.spm + new.desc.size,
                                        !.nextRem = new.desc.rem + new.desc.size]]
  PROVE  DataInv'
<1>1. /\ DOMAIN rec' = DOMAIN rec \union {t} /\ rec'[t] = new
      /\ \A u \in DOMAIN rec : rec'[u] = rec[u]
      /\ DOMAIN rec' \subseteq Tokens /\ rec' \in [DOMAIN rec' -> RecordType]
      /\ \A u \in DOMAIN rec' : rec'[u].desc \in mode.descs
      /\ order' \in Seq(Tokens)
      /\ OrderInv' /\ BatchInv' /\ HazardInv'
  BY NewRecord
<1> DEFINE s == groups[g].tokens
           r == Append(s, t)
           d == new.desc
<1>2. /\ s \in Seq(Tokens) /\ s # <<>> /\ IsInjective(s)
      /\ Len(s) \in Nat \ {0} /\ Last(s) = s[Len(s)]
      /\ \A i \in 1 .. Len(s) : s[i] \in ToSet(s)
      /\ \A u \in ToSet(s) : u \in DOMAIN rec /\ rec[u].staged /\ rec[u].group = g
  BY GroupTokens
<1>3. d.spm \in Nat /\ d.size \in Nat /\ d.rem \in Nat
  BY ModeFacts DEF DataInv, DescType
<1>4. /\ r \in Seq(Tokens) /\ Len(r) = Len(s) + 1 /\ r # <<>>
      /\ r[Len(s) + 1] = t /\ \A i \in 1 .. Len(s) : r[i] = s[i]
      /\ DOMAIN r = 1 .. Len(s) + 1 /\ DOMAIN s = 1 .. Len(s)
  <2> HIDE DEF s
  <2>1. /\ r \in Seq(Tokens) /\ Len(r) = Len(s) + 1
        /\ \A i \in 1 .. Len(s) : r[i] = s[i]
        /\ r[Len(s) + 1] = t
    BY <1>2, AppendProperties
  <2>2. DOMAIN r = 1 .. Len(r) /\ DOMAIN s = 1 .. Len(s)
    BY <1>2, <2>1
  <2>3. r # <<>>
    BY <1>2, <2>1
  <2> QED BY <2>1, <2>2, <2>3
<1>5. groups[g] \in GroupType /\ groups[g].bytes \in Int
  BY DEF DataInv, Types, GroupType
<1>6. /\ groups'[g] \in GroupType
      /\ groups'[g].tokens = r /\ groups'[g].bytes = groups[g].bytes + d.size
      /\ groups'[g].nextSpm = d.spm + d.size /\ groups'[g].nextRem = d.rem + d.size
      /\ groups'[g].key = groups[g].key
  <2> DEFINE b == groups[g].bytes + d.size
             ns == d.spm + d.size
             nr == d.rem + d.size
  <2>1. b \in Int /\ ns \in Nat /\ nr \in Nat
    BY <1>3, <1>5, SMTT(30)
  <2>2. groups'[g] = [groups[g] EXCEPT !.tokens = r, !.bytes = b,
                                       !.nextSpm = ns, !.nextRem = nr]
    BY <1>5 DEF GroupType
  <2> HIDE DEF r, b, ns, nr
  <2>3. /\ groups'[g] \in GroupType /\ groups'[g].tokens = r /\ groups'[g].bytes = b
        /\ groups'[g].nextSpm = ns /\ groups'[g].nextRem = nr
        /\ groups'[g].key = groups[g].key
    BY <1>4, <1>5, <2>1, <2>2, ZenonT(30) DEF GroupType
  <2> QED BY <2>3 DEF b, ns, nr
<1>7. /\ DOMAIN groups' = DOMAIN groups
      /\ \A h \in DOMAIN groups : h # g => groups'[h] = groups[h]
  OBVIOUS
<1>8. groups' \in [DOMAIN groups' -> GroupType]
  <2>1. \A h \in DOMAIN groups : groups'[h] \in GroupType
    BY <1>6, <1>7 DEF DataInv, Types
  <2>2. groups' = [h \in DOMAIN groups' |-> groups'[h]]
    OBVIOUS
  <2> QED BY <1>7, <2>1, <2>2
<1>9. Types'
  BY <1>1, <1>7, <1>8 DEF DataInv, Types, PoolTypeOK, Turns
<1>10. /\ Len(s) < MaxDescriptors /\ groups[g].bytes <= MaxBytes - d.size
       /\ groups[g].nextSpm = d.spm /\ groups[g].nextRem = d.rem
  BY DEF CanAppend
<1>11. MaxBytes \in Nat /\ MaxDescriptors \in Nat
  BY ModeFacts DEF DataInv, KeyInv
<1>12. GroupInv(g)
  BY DEF DataInv
<1> HIDE DEF s, r, d
<1>13. \A i \in 1 .. Len(r) : i \in 1 .. Len(s) \/ i = Len(s) + 1
  BY <1>2, <1>4
<1>14. IsInjective(r)
  <2>1. ASSUME NEW i \in 1 .. Len(r), NEW j \in 1 .. Len(r), r[i] = r[j]
        PROVE  i = j
    <3>1. CASE i \in 1 .. Len(s) /\ j \in 1 .. Len(s)
      BY <1>2, <1>4, <2>1, <3>1 DEF IsInjective
    <3>2. \A k \in 1 .. Len(s) : r[k] # t
      BY <1>2, <1>4
    <3> QED BY <1>4, <1>13, <2>1, <3>1, <3>2
  <2> QED BY <1>4, <2>1 DEF IsInjective
<1>15. \A i \in 1 .. Len(r) : r[i] \in DOMAIN rec' /\ rec'[r[i]].staged /\ rec'[r[i]].group = g
  <2> TAKE i \in 1 .. Len(r)
  <2>1. CASE i \in 1 .. Len(s)
    BY <1>1, <1>2, <1>4, <2>1
  <2>2. CASE i = Len(s) + 1
    BY <1>1, <1>4, <2>2
  <2> QED BY <1>13, <2>1, <2>2
<1>16. \A i \in 1 .. Len(r) - 1 : Continues(rec'[r[i]].desc, rec'[r[i + 1]].desc)
  <2> TAKE i \in 1 .. Len(r) - 1
  <2>1. i \in 1 .. Len(s)
    BY <1>2, <1>4
  <2>2. rec'[r[i]] = rec[s[i]]
    BY <1>1, <1>2, <1>4, <2>1
  <2>3. CASE i = Len(s)
    <3>1. rec'[r[i + 1]].desc = d
      BY <1>1, <1>4, <2>3 DEF d
    <3>2. /\ groups[g].nextSpm = rec[s[i]].desc.spm + rec[s[i]].desc.size
          /\ groups[g].nextRem = rec[s[i]].desc.rem + rec[s[i]].desc.size
      BY <1>2, <1>12, <2>3 DEF GroupInv, s
    <3> QED BY <1>10, <2>2, <3>1, <3>2 DEF Continues
  <2>4. CASE i # Len(s)
    <3>1. i \in 1 .. Len(s) - 1 /\ i + 1 \in 1 .. Len(s)
      BY <1>2, <2>1, <2>4
    <3>2. rec'[r[i + 1]] = rec[s[i + 1]]
      BY <1>1, <1>2, <1>4, <3>1
    <3> QED BY <1>12, <2>2, <3>1, <3>2 DEF GroupInv, s
  <2> QED BY <2>3, <2>4
<1>17. Last(r) = t
  BY <1>4 DEF Last
<1>18. GroupInv(g)'
  <2>1. Len(r) <= MaxDescriptors /\ groups'[g].bytes <= MaxBytes
    BY <1>2, <1>3, <1>4, <1>5, <1>6, <1>10, <1>11 DEF d
  <2>2. /\ groups'[g].nextSpm = rec'[Last(r)].desc.spm + rec'[Last(r)].desc.size
        /\ groups'[g].nextRem = rec'[Last(r)].desc.rem + rec'[Last(r)].desc.size
    BY <1>1, <1>6, <1>17 DEF d
  <2>3. groups'[g].key \in DOMAIN byKey' /\ byKey'[groups'[g].key] = g
    BY <1>6, <1>12 DEF GroupInv
  <2>4. groups'[g].tokens = r
    BY <1>6
  <2> QED BY <1>4, <1>14, <1>15, <1>16, <2>1, <2>2, <2>3, <2>4, GroupIntro
<1>19. ASSUME NEW h \in DOMAIN groups', h # g PROVE GroupInv(h)'
  <2>1. h \in DOMAIN groups /\ GroupInv(h) /\ groups'[h] = groups[h]
    BY <1>7, <1>19 DEF DataInv
  <2>2. \A u \in ToSet(groups[h].tokens) : u \in DOMAIN rec' /\ rec'[u] = rec[u]
    BY <1>1, <2>1, GroupTokens
  <2>3. groups[h].key \in DOMAIN byKey' /\ byKey'[groups[h].key] = h
    BY <2>1 DEF GroupInv
  <2> QED BY <2>1, <2>2, <2>3, GroupUntouched
<1>20. ASSUME NEW u \in DOMAIN rec' PROVE StagedInv(u)'
  <2>1. ToSet(s) \subseteq ToSet(r) /\ t \in ToSet(r)
    <3>1. Len(s) + 1 \in DOMAIN r
      BY <1>2, <1>4
    <3>2. \A i \in DOMAIN s : i \in DOMAIN r /\ s[i] = r[i]
      BY <1>2, <1>4
    <3>3. t \in ToSet(r)
      BY <1>4, <3>1 DEF ToSet
    <3>4. ToSet(s) \subseteq ToSet(r)
      BY <3>2 DEF ToSet
    <3> QED BY <3>3, <3>4
  <2>2. CASE u = t
    BY <1>1, <1>6, <1>7, <2>1, <2>2 DEF StagedInv
  <2>3. CASE u # t
    <3>1. u \in DOMAIN rec /\ rec'[u] = rec[u] /\ StagedInv(u)
      BY <1>1, <2>3 DEF DataInv
    <3>2. \A h \in DOMAIN groups : ToSet(groups[h].tokens) \subseteq ToSet(groups'[h].tokens)
      BY <1>6, <1>7, <2>1 DEF s
    <3> QED BY <1>7, <3>1, <3>2 DEF StagedInv
  <2> QED BY <2>2, <2>3
<1>21. KeyInv'
  BY <1>6, <1>7 DEF DataInv, KeyInv
<1> QED BY <1>1, <1>9, <1>18, <1>19, <1>20, <1>21 DEF DataInv

\* StartAggregationGroup(): a loose token opens a group under a free key.
LEMMA StartData ==
  ASSUME DataInv, turn' \in Turns, mode.aggregation,
         NEW t \in DOMAIN rec, rec[t].xfer = None, ~rec[t].staged,
         rec[t].desc.size <= MaxBytes,
         NEW g \in GroupIds, g \notin DOMAIN groups,
         NEW k \in Dirs \X Nat \X Nat, k \notin DOMAIN byKey,
         groups' = With(groups, g,
                        [key |-> k, tokens |-> <<t>>, bytes |-> rec[t].desc.size,
                         nextSpm |-> rec[t].desc.spm + rec[t].desc.size,
                         nextRem |-> rec[t].desc.rem + rec[t].desc.size,
                         left |-> TimeoutCycles]),
         byKey' = With(byKey, k, g),
         rec' = [rec EXCEPT ![t].group = g, ![t].staged = TRUE],
         UNCHANGED <<mode, phase, order, batches, other>>
  PROVE  DataInv'
<1> DEFINE d == rec[t].desc
           new == [key |-> k, tokens |-> <<t>>, bytes |-> d.size,
                   nextSpm |-> d.spm + d.size, nextRem |-> d.rem + d.size,
                   left |-> TimeoutCycles]
<1>1. rec[t] \in RecordType /\ t \in Tokens /\ d \in mode.descs
  BY DEF DataInv, Types
<1>2. d.spm \in Nat /\ d.size \in Nat /\ d.rem \in Nat
  BY <1>1, ModeFacts DEF DataInv, DescType
<1>3. MaxDescriptors \in Nat \ {0, 1} /\ MaxBytes \in Nat /\ TimeoutCycles \in Nat
  BY ModeFacts DEF DataInv
<1>4. /\ <<t>> \in Seq(Tokens) /\ <<t>> # <<>> /\ Len(<<t>>) = 1 /\ <<t>>[1] = t
      /\ IsInjective(<<t>>) /\ ToSet(<<t>>) = {t} /\ Last(<<t>>) = t
  BY <1>1, Single DEF Last
<1>5. new \in GroupType /\ new.tokens = <<t>>
  <2>1. d.spm + d.size \in Nat /\ d.rem + d.size \in Nat /\ d.size \in Int
        /\ TimeoutCycles \in 0 .. TimeoutCycles
    BY <1>2, <1>3
  <2> DEFINE a == d.spm + d.size
             b == d.rem + d.size
             s == <<t>>
  <2> HIDE DEF a, b, s, d
  <2>2. new = [key |-> k, tokens |-> s, bytes |-> d.size, nextSpm |-> a, nextRem |-> b,
               left |-> TimeoutCycles] /\ s \in Seq(Tokens) /\ a \in Nat /\ b \in Nat
    BY <1>4, <2>1 DEF a, b, s
  <2>3. new \in GroupType
    BY <2>1, <2>2 DEF GroupType
  <2> QED BY <2>3
<1>6. /\ DOMAIN rec' = DOMAIN rec
      /\ rec' \in [DOMAIN rec' -> RecordType]
      /\ rec'[t].staged /\ rec'[t].group = g /\ rec'[t].xfer = None /\ rec'[t].desc = d
      /\ \A u \in DOMAIN rec : u # t => rec'[u] = rec[u]
  BY <1>1 DEF RecordType, DataInv, Types
<1>7. \A u \in DOMAIN rec : rec'[u].desc = rec[u].desc /\ rec'[u].xfer = rec[u].xfer
  BY <1>6
<1>8. /\ DOMAIN groups' = DOMAIN groups \union {g} /\ groups'[g] = new
      /\ \A h \in DOMAIN groups : groups'[h] = groups[h] /\ h # g
      /\ groups' \in [DOMAIN groups' -> GroupType]
  <2> HIDE DEF new
  <2>1. groups' = With(groups, g, new)
    BY DEF new
  <2> QED BY <1>5, <2>1 DEF With, DataInv, Types
<1>9. /\ DOMAIN byKey' = DOMAIN byKey \union {k} /\ byKey'[k] = g
      /\ \A l \in DOMAIN byKey : byKey'[l] = byKey[l] /\ l # k
      /\ byKey' \in [DOMAIN byKey' -> GroupIds]
  BY DEF With, DataInv, Types
<1> HIDE DEF new
<1>10. Types'
  <2>1. \A u \in DOMAIN rec' : rec'[u].desc \in mode.descs
    BY <1>6, <1>7 DEF DataInv, Types
  <2> QED BY <1>6, <1>8, <1>9, <2>1 DEF DataInv, Types, PoolTypeOK, Turns
<1>11. OrderInv'
  BY <1>6 DEF DataInv, OrderInv
<1>12. BatchInv'
  <2>1. \A x \in DOMAIN batches : Sharers(x)' = Sharers(x)
    BY <1>6, <1>7 DEF Sharers
  <2> QED BY <1>6, <1>7, <2>1 DEF DataInv, BatchInv
<1>13. GroupInv(g)'
  <2>1. /\ groups'[g].tokens = <<t>> /\ groups'[g].bytes = d.size
        /\ groups'[g].nextSpm = d.spm + d.size /\ groups'[g].nextRem = d.rem + d.size
        /\ groups'[g].key = k
    BY <1>8 DEF new
  <2>2. \A i \in 1 .. Len(<<t>>) : <<t>>[i] \in DOMAIN rec' /\ rec'[<<t>>[i]].staged
                                   /\ rec'[<<t>>[i]].group = g
    BY <1>4, <1>6
  <2>3. \A i \in 1 .. Len(<<t>>) - 1 : FALSE
    BY <1>4
  <2>4. Len(<<t>>) <= MaxDescriptors /\ d.size <= MaxBytes
    BY <1>2, <1>3, <1>4
  <2> DEFINE s == <<t>>
  <2>5. Last(s) = t /\ s # <<>> /\ IsInjective(s)
    BY <1>4
  <2> HIDE DEF s, d
  <2>6. rec'[Last(s)].desc = d
    BY <1>6, <2>5
  <2>7. groups'[g].tokens = s /\ Len(s) <= MaxDescriptors
    BY <2>1, <2>4 DEF s
  <2>8. /\ \A i \in 1 .. Len(s) : s[i] \in DOMAIN rec' /\ rec'[s[i]].staged
                                  /\ rec'[s[i]].group = g
        /\ \A i \in 1 .. Len(s) - 1 : FALSE
    BY <2>2, <2>3 DEF s
  <2>9. \A i \in 1 .. Len(s) - 1 : Continues(rec'[s[i]].desc, rec'[s[i + 1]].desc)
    BY <2>8
  <2>10. /\ groups'[g].nextSpm = rec'[Last(s)].desc.spm + rec'[Last(s)].desc.size
         /\ groups'[g].nextRem = rec'[Last(s)].desc.rem + rec'[Last(s)].desc.size
         /\ groups'[g].bytes <= MaxBytes
         /\ groups'[g].key \in DOMAIN byKey' /\ byKey'[groups'[g].key] = g
    BY <1>9, <2>1, <2>4, <2>6
  <2> QED BY <2>5, <2>7, <2>8, <2>9, <2>10, GroupIntro
<1>14. ASSUME NEW h \in DOMAIN groups', h # g PROVE GroupInv(h)'
  <2>1. h \in DOMAIN groups /\ GroupInv(h) /\ groups'[h] = groups[h]
    BY <1>8, <1>14 DEF DataInv
  <2>2. \A u \in ToSet(groups[h].tokens) : u \in DOMAIN rec' /\ rec'[u] = rec[u]
    BY <1>6, <2>1, GroupTokens
  <2>3. groups[h].key \in DOMAIN byKey' /\ byKey'[groups[h].key] = h
    BY <1>9, <2>1 DEF GroupInv
  <2> QED BY <2>1, <2>2, <2>3, GroupUntouched
<1>15. ASSUME NEW u \in DOMAIN rec' PROVE StagedInv(u)'
  <2>1. CASE u = t
    <3>1. groups'[g].tokens = <<t>> /\ g \in DOMAIN groups'
      BY <1>5, <1>8
    <3> QED BY <1>4, <1>6, <2>1, <3>1 DEF StagedInv
  <2>2. CASE u # t
    <3>1. u \in DOMAIN rec /\ rec'[u] = rec[u] /\ StagedInv(u)
      BY <1>6, <2>2 DEF DataInv
    <3> QED BY <1>8, <3>1 DEF StagedInv
  <2> QED BY <2>1, <2>2
<1>16. KeyInv'
  <2>1. groups'[g].key = k
    BY <1>8 DEF new
  <2> QED BY <1>8, <1>9, <2>1 DEF DataInv, KeyInv
<1>17. HazardInv'
  <2>1. \A u \in DOMAIN rec : Complete(u)' = Complete(u)
    BY <1>7 DEF Complete
  <2> QED BY <1>6, <1>7, <2>1 DEF DataInv, HazardInv
<1> QED BY <1>10, <1>11, <1>12, <1>13, <1>14, <1>15, <1>16, <1>17 DEF DataInv

\* A token that is not bound is erased; the batches are untouched.
LEMMA ErasedUnbound ==
  ASSUME DataInv, NEW t \in DOMAIN rec, Erases(t), rec[t].xfer = None,
         UNCHANGED <<mode, phase, batches, other>>
  PROVE  /\ BatchInv' /\ HazardInv'
         /\ \A u \in DOMAIN rec' : Complete(u)' = Complete(u)
<1>1. /\ DOMAIN rec' = DOMAIN rec \ {t}
      /\ \A u \in DOMAIN rec' : rec'[u] = rec[u]
  BY Erased
<1>2. \A x \in DOMAIN batches : Sharers(x)' = Sharers(x)
  <2> TAKE x \in DOMAIN batches
  <2>1. x # None
    BY AsyncAssumption DEF DataInv, Types
  <2> QED BY <1>1, <2>1 DEF Sharers
<1>3. BatchInv'
  BY <1>1, <1>2 DEF DataInv, BatchInv
<1>4. \A u \in DOMAIN rec' : Complete(u)' = Complete(u)
  BY <1>1 DEF Complete
<1>5. HazardInv'
  BY <1>1, <1>4 DEF DataInv, HazardInv
<1> QED BY <1>3, <1>4, <1>5

\* A group without its tail.
LEMMA FrontOf ==
  ASSUME NEW T, NEW s \in Seq(T), s # <<>>
  PROVE  /\ Front(s) \in Seq(T) /\ Len(Front(s)) = Len(s) - 1
         /\ \A i \in 1 .. Len(s) - 1 : Front(s)[i] = s[i]
         /\ Front(s) = <<>> <=> Len(s) = 1
<1>1. Len(s) \in Nat \ {0} /\ \A i \in 1 .. Len(s) : s[i] \in T
  OBVIOUS
<1> DEFINE r == Front(s)
<1>2. /\ r \in Seq(T) /\ Len(r) = Len(s) - 1
      /\ \A i \in 1 .. Len(s) - 1 : r[i] = s[i]
  <2>1. 1 \in Int /\ Len(s) - 1 \in Int /\ \A i \in 1 .. Len(s) - 1 : s[i] \in T
    BY <1>1
  <2>2. /\ SubSeq(s, 1, Len(s) - 1) \in Seq(T)
        /\ Len(SubSeq(s, 1, Len(s) - 1)) = IF 1 <= Len(s) - 1 THEN Len(s) - 1 - 1 + 1 ELSE 0
        /\ \A i \in 1 .. Len(s) - 1 - 1 + 1 : SubSeq(s, 1, Len(s) - 1)[i] = s[1 + i - 1]
    BY <2>1, SubSeqProperties
  <2>3. r = SubSeq(s, 1, Len(s) - 1)
    BY DEF Front
  <2> HIDE DEF r
  <2>4. Len(r) = Len(s) - 1
    <3>1. Len(r) = IF 1 <= Len(s) - 1 THEN Len(s) - 1 - 1 + 1 ELSE 0
      BY <2>2, <2>3
    <3> DEFINE n == Len(s)
    <3>2. n \in Nat \ {0} /\ Len(r) = IF 1 <= n - 1 THEN n - 1 - 1 + 1 ELSE 0
      BY <1>1, <3>1
    <3> HIDE DEF n
    <3>3. Len(r) = n - 1
      BY <3>2
    <3> QED BY <3>3 DEF n
  <2>5. \A i \in 1 .. Len(s) - 1 : r[i] = s[i]
    <3> TAKE i \in 1 .. Len(s) - 1
    <3>1. i \in 1 .. Len(s) - 1 - 1 + 1 /\ 1 + i - 1 = i
      BY <1>1
    <3>2. r[i] = s[1 + i - 1]
      BY <2>2, <2>3, <3>1
    <3> QED BY <3>1, <3>2
  <2> QED BY <2>2, <2>3, <2>4, <2>5
<1> HIDE DEF r
<1>3. r = <<>> <=> Len(r) = 0
  BY <1>2
<1> QED BY <1>1, <1>2, <1>3 DEF r

\* CancelStagedToken(): the only token of a group is cancelled with the group.
LEMMA CancelWhole ==
  ASSUME DataInv, turn' \in Turns, NEW t \in DOMAIN rec, Erases(t), rec[t].staged,
         NEW g \in DOMAIN groups, rec[t].group = g,
         Front(groups[g].tokens) = <<>>, Last(groups[g].tokens) = t,
         byKey' = Without(byKey, groups[g].key), groups' = Without(groups, g),
         UNCHANGED <<mode, phase, batches, other>>
  PROVE  DataInv'
<1>1. /\ DOMAIN rec' = DOMAIN rec \ {t}
      /\ \A u \in DOMAIN rec' : rec'[u] = rec[u]
      /\ rec' \in [DOMAIN rec' -> RecordType]
      /\ order' \in Seq(Tokens)
      /\ OrderInv'
  BY Erased
<1>2. BatchInv' /\ HazardInv'
  BY ErasedUnbound DEF DataInv, StagedInv
<1>3. /\ DOMAIN groups' = DOMAIN groups \ {g}
      /\ \A h \in DOMAIN groups' : groups'[h] = groups[h]
      /\ groups' \in [DOMAIN groups' -> GroupType]
      /\ DOMAIN byKey' = DOMAIN byKey \ {groups[g].key}
      /\ \A k \in DOMAIN byKey' : byKey'[k] = byKey[k]
      /\ byKey' \in [DOMAIN byKey' -> GroupIds]
  BY DEF Without, Restrict, DataInv, Types
<1>4. \A u \in ToSet(groups[g].tokens) : u = t
  <2> DEFINE s == groups[g].tokens
  <2>1. s \in Seq(Tokens) /\ s # <<>> /\ Last(s) = s[Len(s)]
    BY GroupTokens
  <2> HIDE DEF s
  <2>2. Len(s) = 1
    BY <2>1, FrontOf DEF s
  <2>3. s[1] = t /\ DOMAIN s = 1 .. 1
    BY <2>1, <2>2 DEF s
  <2>4. \A u \in ToSet(s) : u = t
    BY <2>3 DEF ToSet
  <2> QED BY <2>4 DEF s
<1>5. Types'
  BY <1>1, <1>3 DEF DataInv, Types, PoolTypeOK, Turns
<1>6. ASSUME NEW h \in DOMAIN groups' PROVE GroupInv(h)'
  <2>1. h \in DOMAIN groups /\ h # g /\ GroupInv(h) /\ groups'[h] = groups[h]
    BY <1>3 DEF DataInv
  <2>2. \A u \in ToSet(groups[h].tokens) : u \in DOMAIN rec' /\ rec'[u] = rec[u]
    BY <1>1, <2>1, GroupTokens
  <2>3. groups[h].key # groups[g].key
    BY <2>1 DEF DataInv, GroupInv
  <2>4. groups[h].key \in DOMAIN byKey' /\ byKey'[groups[h].key] = h
    BY <1>3, <2>1, <2>3 DEF GroupInv
  <2> QED BY <2>1, <2>2, <2>4, GroupUntouched
<1>7. ASSUME NEW u \in DOMAIN rec' PROVE StagedInv(u)'
  BY <1>1, <1>3, <1>4 DEF DataInv, StagedInv
<1>8. KeyInv'
  BY <1>3 DEF DataInv, KeyInv
<1> QED BY <1>1, <1>2, <1>5, <1>6, <1>7, <1>8 DEF DataInv

\* The group g loses its tail t; tail is the descriptor of the new one.
CutsTail(g, t, tail) ==
  /\ tail = rec[Last(Front(groups[g].tokens))].desc
  /\ groups' = [groups EXCEPT ![g].tokens = Front(groups[g].tokens),
                              ![g].bytes = @ - rec[t].desc.size,
                              ![g].nextSpm = tail.spm + tail.size,
                              ![g].nextRem = tail.rem + tail.size]

\* CancelStagedToken(): the tail of a longer group is cancelled, and the group
\* may be continued where the new tail ends.
LEMMA CancelTail ==
  ASSUME DataInv, turn' \in Turns, NEW t \in DOMAIN rec, Erases(t), rec[t].staged,
         NEW g \in DOMAIN groups, rec[t].group = g,
         Front(groups[g].tokens) # <<>>, Last(groups[g].tokens) = t,
         NEW tail, CutsTail(g, t, tail),
         UNCHANGED <<mode, phase, batches, other, byKey>>
  PROVE  DataInv'
<1>1. /\ DOMAIN rec' = DOMAIN rec \ {t}
      /\ \A u \in DOMAIN rec' : rec'[u] = rec[u]
      /\ rec' \in [DOMAIN rec' -> RecordType]
      /\ order' \in Seq(Tokens)
      /\ OrderInv'
  BY Erased
<1>2. BatchInv' /\ HazardInv'
  BY ErasedUnbound DEF DataInv, StagedInv
<1> DEFINE s == groups[g].tokens
           r == Front(s)
<1>3. /\ s \in Seq(Tokens) /\ s # <<>> /\ IsInjective(s)
      /\ Len(s) \in Nat \ {0} /\ Last(s) = s[Len(s)]
      /\ \A i \in 1 .. Len(s) : s[i] \in ToSet(s)
      /\ \A u \in ToSet(s) : u \in DOMAIN rec /\ rec[u].staged /\ rec[u].group = g
  BY GroupTokens
<1> HIDE DEF s
<1>4. /\ r \in Seq(Tokens) /\ Len(r) = Len(s) - 1 /\ \A i \in 1 .. Len(s) - 1 : r[i] = s[i]
      /\ Len(s) # 1
  BY <1>3, FrontOf DEF s
<1> HIDE DEF r
<1>5. /\ r # <<>> /\ Len(s) - 1 \in Nat \ {0} /\ DOMAIN s = 1 .. Len(s)
      /\ DOMAIN r = 1 .. Len(s) - 1 /\ s[Len(s)] = t
      /\ Last(r) = s[Len(s) - 1]
  <2>1. Last(r) = r[Len(r)] /\ s[Len(s)] = t
    BY <1>3 DEF Last, s
  <2>2. Len(s) - 1 \in Nat \ {0} /\ Len(s) - 1 \in 1 .. Len(s) - 1
    BY <1>3, <1>4
  <2>3. DOMAIN s = 1 .. Len(s) /\ DOMAIN r = 1 .. Len(s) - 1 /\ r # <<>>
    BY <1>3, <1>4, <2>2
  <2>4. r[Len(s) - 1] = s[Len(s) - 1] /\ Last(r) = r[Len(s) - 1]
    BY <1>4, <2>1, <2>2
  <2> QED BY <2>1, <2>2, <2>3, <2>4
<1>6. \A i \in 1 .. Len(s) - 1 : i \in 1 .. Len(s) /\ s[i] # t
  <2> TAKE i \in 1 .. Len(s) - 1
  <2>1. i \in 1 .. Len(s) /\ i # Len(s) /\ Len(s) \in 1 .. Len(s)
    BY <1>3
  <2>2. i \in DOMAIN s /\ Len(s) \in DOMAIN s
    BY <1>5, <2>1
  <2>3. s[i] # s[Len(s)]
    BY <1>3, <2>1, <2>2 DEF IsInjective
  <2> QED BY <1>5, <2>1, <2>3
<1>7. Last(r) \in DOMAIN rec' /\ tail = rec'[Last(r)].desc
  <2>1. Len(s) - 1 \in 1 .. Len(s) - 1
    BY <1>5
  <2>2. Last(r) \in DOMAIN rec /\ Last(r) # t
    BY <1>3, <1>5, <1>6, <2>1
  <2>3. tail = rec[Last(r)].desc
    BY DEF CutsTail, r, s
  <2> QED BY <1>1, <2>2, <2>3
<1>8. tail.spm \in Nat /\ tail.size \in Nat /\ tail.rem \in Nat
  BY <1>1, <1>7 DEF RecordType, DescType
<1>9. rec[t].desc.size \in Nat /\ groups[g].bytes \in Int /\ groups[g] \in GroupType
  BY DEF DataInv, Types, RecordType, DescType, GroupType
<1>10. /\ DOMAIN groups' = DOMAIN groups
       /\ \A h \in DOMAIN groups : h # g => groups'[h] = groups[h]
       /\ groups'[g].tokens = r
       /\ groups'[g].bytes = groups[g].bytes - rec[t].desc.size
       /\ groups'[g].nextSpm = tail.spm + tail.size
       /\ groups'[g].nextRem = tail.rem + tail.size
       /\ groups'[g].key = groups[g].key
       /\ groups' \in [DOMAIN groups' -> GroupType]
  <2> DEFINE b == groups[g].bytes - rec[t].desc.size
             ns == tail.spm + tail.size
             nr == tail.rem + tail.size
  <2>1. b \in Int /\ ns \in Nat /\ nr \in Nat
    BY <1>8, <1>9, SMTT(30)
  <2>2. groups' = [groups EXCEPT ![g] = [groups[g] EXCEPT !.tokens = r, !.bytes = b,
                                                         !.nextSpm = ns, !.nextRem = nr]]
    BY <1>9 DEF CutsTail, GroupType, r, s
  <2> HIDE DEF b, ns, nr
  <2> DEFINE G == [groups[g] EXCEPT !.tokens = r, !.bytes = b, !.nextSpm = ns, !.nextRem = nr]
  <2>3. /\ G \in GroupType /\ G.tokens = r /\ G.bytes = b /\ G.nextSpm = ns /\ G.nextRem = nr
        /\ G.key = groups[g].key
    BY <1>4, <1>9, <2>1 DEF GroupType
  <2>4. groups \in [DOMAIN groups -> GroupType]
    BY DEF DataInv, Types
  <2> HIDE DEF G
  <2>5. groups' = [groups EXCEPT ![g] = G]
    BY <2>2 DEF G
  <2>6. /\ DOMAIN groups' = DOMAIN groups /\ groups'[g] = G
        /\ \A h \in DOMAIN groups : h # g => groups'[h] = groups[h]
        /\ groups' \in [DOMAIN groups' -> GroupType]
    BY <2>3, <2>4, <2>5
  <2> QED BY <2>3, <2>6 DEF b, ns, nr
<1>11. Types'
  BY <1>1, <1>10 DEF DataInv, Types, PoolTypeOK, Turns
<1>12. GroupInv(g)'
  <2>1. GroupInv(g)
    BY DEF DataInv
  <2>2. MaxBytes \in Nat /\ MaxDescriptors \in Nat
    BY ModeFacts DEF DataInv, KeyInv
  <2>3. Len(r) <= MaxDescriptors /\ groups'[g].bytes <= MaxBytes
    <3>1. Len(s) <= MaxDescriptors /\ groups[g].bytes <= MaxBytes
      BY <2>1 DEF GroupInv, s
    <3> QED BY <1>3, <1>4, <1>9, <1>10, <2>2, <3>1
  <2>4. groups'[g].key \in DOMAIN byKey' /\ byKey'[groups'[g].key] = g
    BY <1>10, <2>1 DEF GroupInv
  <2>5. \A i \in 1 .. Len(s) - 1 : r[i] \in DOMAIN rec' /\ rec'[r[i]] = rec[s[i]]
    BY <1>1, <1>3, <1>4, <1>6
  <2>6. \A i \in 1 .. Len(r) : /\ r[i] \in DOMAIN rec' /\ rec'[r[i]].staged
                               /\ rec'[r[i]].group = g
    BY <1>3, <1>4, <1>6, <2>5
  <2>7. IsInjective(r)
    <3>1. ASSUME NEW i \in 1 .. Len(s) - 1, NEW j \in 1 .. Len(s) - 1, r[i] = r[j]
          PROVE  i = j
      BY <1>3, <1>4, <1>5, <1>6, <3>1 DEF IsInjective
    <3> QED BY <1>5, <3>1 DEF IsInjective
  <2>8. \A i \in 1 .. Len(r) - 1 : Continues(rec'[r[i]].desc, rec'[r[i + 1]].desc)
    <3> TAKE i \in 1 .. Len(r) - 1
    <3>1. i \in 1 .. Len(s) - 1 /\ i + 1 \in 1 .. Len(s) - 1
      BY <1>4, <1>5
    <3>2. rec'[r[i]] = rec[s[i]] /\ rec'[r[i + 1]] = rec[s[i + 1]]
      BY <2>5, <3>1
    <3> QED BY <2>1, <3>1, <3>2 DEF GroupInv, s
  <2>9. /\ groups'[g].nextSpm = rec'[Last(r)].desc.spm + rec'[Last(r)].desc.size
        /\ groups'[g].nextRem = rec'[Last(r)].desc.rem + rec'[Last(r)].desc.size
    BY <1>7, <1>10
  <2> QED BY <1>5, <1>10, <2>3, <2>4, <2>6, <2>7, <2>8, <2>9, GroupIntro, SMTT(30)
<1>13. ASSUME NEW h \in DOMAIN groups', h # g PROVE GroupInv(h)'
  <2>1. h \in DOMAIN groups /\ GroupInv(h) /\ groups'[h] = groups[h]
    BY <1>10, <1>13 DEF DataInv
  <2>2. \A u \in ToSet(groups[h].tokens) : u \in DOMAIN rec' /\ rec'[u] = rec[u]
    BY <1>1, <1>13, <2>1, GroupTokens
  <2>3. groups[h].key \in DOMAIN byKey' /\ byKey'[groups[h].key] = h
    BY <2>1 DEF GroupInv
  <2> QED BY <2>1, <2>2, <2>3, GroupUntouched
<1>14. ASSUME NEW u \in DOMAIN rec' PROVE StagedInv(u)'
  <2>1. u \in DOMAIN rec /\ u # t /\ rec'[u] = rec[u] /\ StagedInv(u)
    BY <1>1 DEF DataInv
  <2>2. u \in ToSet(s) => u \in ToSet(r)
    <3> HAVE u \in ToSet(s)
    <3>1. PICK i \in 1 .. Len(s) : s[i] = u
      BY <1>5 DEF ToSet
    <3>2. i # Len(s)
      BY <1>5, <2>1, <3>1
    <3>3. i \in 1 .. Len(s) - 1
      BY <1>3, <3>2
    <3> QED BY <1>4, <1>5, <3>1, <3>3 DEF ToSet
  <2>3. CASE rec[u].group = g
    BY <1>10, <2>1, <2>2, <2>3 DEF StagedInv, s
  <2>4. CASE rec[u].group # g
    BY <1>10, <2>1, <2>4 DEF StagedInv
  <2> QED BY <2>3, <2>4
<1>15. KeyInv'
  BY <1>10 DEF DataInv, KeyInv
<1> QED BY <1>1, <1>2, <1>11, <1>12, <1>13, <1>14, <1>15 DEF DataInv
-----------------------------------------------------------------------------
(* What the dispatcher has left to do, step by step.                       *)

\* Its next operation is done, or replaced by one or two others: where each
\* operation comes from, and where it goes.
Pops ==
  /\ Len(Todo) \in Nat \ {0} /\ Len(Todo') = Len(Todo) - 1
  /\ \A i \in 1 .. Len(Todo') : i + 1 \in 2 .. Len(Todo) /\ Todo'[i] = Todo[i + 1]
  /\ \A j \in 2 .. Len(Todo) : j - 1 \in 1 .. Len(Todo') /\ Todo'[j - 1] = Todo[j]

Puts(o) ==
  /\ Len(Todo) \in Nat \ {0} /\ Len(Todo') = Len(Todo) /\ Todo'[1] = o
  /\ \A i \in 2 .. Len(Todo) : Todo'[i] = Todo[i]

PutsTwo(o, p) ==
  /\ Len(Todo) \in Nat \ {0} /\ Len(Todo') = Len(Todo) + 1
  /\ Todo'[1] = o /\ Todo'[2] = p
  /\ \A i \in 3 .. Len(Todo') : i - 1 \in 2 .. Len(Todo) /\ Todo'[i] = Todo[i - 1]
  /\ \A j \in 2 .. Len(Todo) : j + 1 \in 3 .. Len(Todo') /\ Todo'[j + 1] = Todo[j]

\* No record is neither staged nor bound.
NoneLoose == \A t \in DOMAIN rec : rec[t].staged \/ rec[t].xfer # None

\* The order of the operations is kept when the first one is done.
LEMMA PopShape ==
  ASSUME Shape(Todo), Pops
  PROVE  Shape(Todo)'
<1> SUFFICES ASSUME NEW i \in 1 .. Len(Todo')
             PROVE  /\ Todo'[i].op \in {"create", "start", "collect", "fenced", "transfer",
                                        "transferred"} => i = Len(Todo')
                    /\ Todo'[i].op \in {"bind", "transfer", "transferred"} => i = 1
                    /\ Todo'[i].op = "bind" /\ Todo'[i].group = None => i = Len(Todo')
                    /\ Todo'[i].op \in {"settle", "start"} /\ i # 1 =>
                         i = 2 /\ Todo'[1].op \in {"flush", "bind"}
                    /\ Todo'[i].op = "release" =>
                         /\ i # 1 => /\ Todo'[i - 1].op \in {"await", "settle"}
                                     /\ Todo'[i - 1].token = Todo'[i].token
                         /\ \A j \in i + 1 .. Len(Todo') : Todo'[j].token # Todo'[i].token
  BY DEF Shape
<1>1. Len(Todo) \in Nat \ {0} /\ Len(Todo') = Len(Todo) - 1
  BY DEF Pops
<1>2. i + 1 \in 2 .. Len(Todo) /\ i + 1 \in 1 .. Len(Todo) /\ Todo'[i] = Todo[i + 1]
  BY <1>1 DEF Pops
<1>3. Todo'[i].op \in {"create", "start", "collect", "fenced", "transfer",
                      "transferred"} => i = Len(Todo')
  BY <1>1, <1>2 DEF Shape
<1>4. Todo'[i].op \notin {"bind", "transfer", "transferred"}
  BY <1>1, <1>2 DEF Shape
<1>5. Todo'[i].op \in {"settle", "start"} => i = 1
  BY <1>1, <1>2 DEF Shape
<1>6. Todo'[i].op = "release" /\ i # 1 => /\ Todo'[i - 1].op \in {"await", "settle"}
                                         /\ Todo'[i - 1].token = Todo'[i].token
  <2> HAVE Todo'[i].op = "release" /\ i # 1
  <2>1. i - 1 \in 1 .. Len(Todo') /\ (i - 1) + 1 = i
    BY <1>1
  <2>2. Todo'[i - 1] = Todo[i]
    BY <2>1 DEF Pops
  <2>3. i + 1 # 1 /\ (i + 1) - 1 = i
    BY <1>1
  <2> QED BY <1>2, <2>2, <2>3 DEF Shape
<1>7. Todo'[i].op = "release" =>
        \A j \in i + 1 .. Len(Todo') : Todo'[j].token # Todo'[i].token
  <2> HAVE Todo'[i].op = "release"
  <2> TAKE j \in i + 1 .. Len(Todo')
  <2>1. j \in 1 .. Len(Todo') /\ j + 1 \in (i + 1) + 1 .. Len(Todo)
    BY <1>1
  <2>2. Todo'[j] = Todo[j + 1]
    BY <2>1 DEF Pops
  <2> QED BY <1>2, <2>1, <2>2 DEF Shape
<1> QED BY <1>3, <1>4, <1>5, <1>6, <1>7

\* FlushGroup() of a group that is gone, or the end of a wait.
LEMMA PopDispatcher ==
  ASSUME DataInv, DispatcherOK, UNCHANGED dataVars, Pops,
         \/ Todo[1].op = "flush" /\ Todo[1].group \notin DOMAIN groups
         \/ Todo[1].op = "settle" /\ Complete(Todo[1].token)
  PROVE  DispatcherOK'
<1> USE DEF dataVars
<1>1. Shape(Todo)'
  BY PopShape DEF DispatcherOK
<1>2. \A i \in 1 .. Len(Todo') : BindOK(Todo[i])'
  BY DEF DispatcherOK, Shape, Pops, BindOK
<1>3. TokenOK(Todo)'
  <2>1. \A t \in DOMAIN rec : rec[t].staged => rec[t].group \in DOMAIN groups
    BY DEF DataInv, StagedInv
  <2> QED BY <2>1 DEF DispatcherOK, Shape, Pops, TokenOK
<1>4. CreateOK(Todo)'
  <2>1. ASSUME NEW i \in 1 .. Len(Todo'), Todo'[i].op = "create"
        PROVE  /\ Todo'[i].token \in Tokens \ DOMAIN rec
               /\ Todo'[i].desc \in mode.descs
               /\ DOMAIN groups # GroupIds
               /\ \A u \in DOMAIN rec :
                    ~Complete(u) /\ HasHazard(rec[u].desc, Todo'[i].desc) =>
                      \E j \in 1 .. Len(Todo) :
                        Todo[j].op \in {"await", "settle"} /\ Todo[j].token = u
    <3>1. i + 1 \in 1 .. Len(Todo) /\ Todo'[i] = Todo[i + 1]
      BY DEF Pops
    <3> QED BY <2>1, <3>1 DEF DispatcherOK, CreateOK
  <2>2. ASSUME NEW u \in DOMAIN rec, ~Complete(u),
               NEW j \in 1 .. Len(Todo), Todo[j].op \in {"await", "settle"}, Todo[j].token = u
        PROVE  \E k \in 1 .. Len(Todo') : Todo'[k].op \in {"await", "settle"} /\ Todo'[k].token = u
    <3>1. j # 1
      BY <2>2
    <3>2. j \in 2 .. Len(Todo)
      BY <3>1 DEF Pops
    <3> QED BY <2>2, <3>2 DEF Pops
  <2>3. \A u \in DOMAIN rec : Complete(u)' = Complete(u)
    BY DEF Complete
  <2> QED BY <2>1, <2>2, <2>3 DEF CreateOK
<1>5. StartOK(Todo)'
  <2> SUFFICES ASSUME NEW i \in 1 .. Len(Todo'), Todo'[i].op = "start"
               PROVE  LET t == Todo'[i].token  k == GroupKey(rec[t].desc) IN
                      /\ mode.aggregation
                      /\ Todo'[i].group = None
                      /\ rec[t].xfer = None /\ ~rec[t].staged
                      /\ rec[t].desc.size <= MaxBytes
                      /\ DOMAIN groups # GroupIds
                      /\ i = 1 => k \notin DOMAIN byKey
                      /\ i = 2 /\ k \in DOMAIN byKey => byKey[k] = Todo'[1].group
    BY DEF StartOK
  <2>1. i + 1 \in 1 .. Len(Todo) /\ i + 1 # 1 /\ Todo'[i] = Todo[i + 1]
    BY DEF Pops
  <2>2. i + 1 = 2 /\ Todo[1].op \in {"flush", "bind"}
    BY <2>1 DEF DispatcherOK, Shape
  <2>3. i = 1 /\ 2 \in 1 .. Len(Todo) /\ Todo'[1] = Todo[2] /\ Todo[2].op = "start"
    BY <2>1, <2>2
  <2>4. Todo[1].group \notin DOMAIN groups
    BY <2>2
  <2>5. \A k \in DOMAIN byKey : byKey[k] # Todo[1].group
    BY <2>4 DEF DataInv, KeyInv
  <2> QED BY <2>3, <2>5 DEF DispatcherOK, StartOK
<1>6. FenceOK(Todo)'
  <2>1. ASSUME NEW j \in 1 .. Len(Todo), NEW t, Todo[j].op = "release", Todo[j].token = t
        PROVE  \E k \in 1 .. Len(Todo') : Todo'[k].op = "release" /\ Todo'[k].token = t
    <3>1. j \in 2 .. Len(Todo)
      BY <2>1 DEF Pops
    <3> QED BY <2>1, <3>1 DEF Pops
  <2>2. \A i \in 1 .. Len(Todo') : i + 1 \in 1 .. Len(Todo) /\ Todo'[i] = Todo[i + 1]
    BY DEF Pops
  <2>3. ASSUME NEW i \in 1 .. Len(Todo'), Todo'[i].op = "fenced", NEW t \in DOMAIN rec
        PROVE  \E k \in 1 .. Len(Todo') : Todo'[k].op = "release" /\ Todo'[k].token = t
    <3>1. PICK j \in 1 .. Len(Todo) : Todo[j].op = "release" /\ Todo[j].token = t
      BY <2>2, <2>3 DEF DispatcherOK, FenceOK
    <3> QED BY <2>1, <3>1
  <2> QED BY <2>3 DEF FenceOK
<1>7. LooseOK(Todo)'
  <2>1. ASSUME NEW i \in 1 .. Len(Todo), Todo[i].op \in {"start", "bind"}
        PROVE  i - 1 \in 1 .. Len(Todo') /\ Todo'[i - 1] = Todo[i]
    <3>1. i \in 2 .. Len(Todo)
      BY <2>1 DEF Pops
    <3> QED BY <3>1 DEF Pops
  <2>2. ASSUME NEW t \in DOMAIN rec, ~rec[t].staged, rec[t].xfer = None
        PROVE  \E i \in 1 .. Len(Todo') :
                 \/ Todo'[i].op = "start" /\ Todo'[i].token = t
                 \/ Todo'[i].op = "bind" /\ Todo'[i].group = None /\ Todo'[i].tokens = <<t>>
    <3>1. PICK i \in 1 .. Len(Todo) :
                 \/ Todo[i].op = "start" /\ Todo[i].token = t
                 \/ Todo[i].op = "bind" /\ Todo[i].group = None /\ Todo[i].tokens = <<t>>
      BY <2>2 DEF DispatcherOK, LooseOK
    <3>2. i - 1 \in 1 .. Len(Todo') /\ Todo'[i - 1] = Todo[i]
      BY <2>1, <3>1
    <3> QED BY <3>1, <3>2
  <2> QED BY <2>2 DEF LooseOK
<1> QED BY <1>1, <1>2, <1>3, <1>4, <1>5, <1>6, <1>7 DEF DispatcherOK

\* What Bind changes, for the operations that follow it.
Bound(toks, g, x) ==
  /\ x # None
  /\ UNCHANGED mode
  /\ DOMAIN rec' = DOMAIN rec /\ DOMAIN groups' = DOMAIN groups \ {g}
  /\ \A t \in DOMAIN rec :
       /\ rec'[t].desc = rec[t].desc
       /\ t \in ToSet(toks) => rec[t].xfer = None /\ rec'[t].xfer = x
       /\ t \notin ToSet(toks) => rec'[t] = rec[t]
       /\ Complete(t)' = Complete(t)
  /\ \A h \in DOMAIN groups' : groups'[h] = groups[h]
  /\ \A k \in DOMAIN byKey' : /\ k \in DOMAIN byKey /\ byKey'[k] = byKey[k]
                              /\ byKey[k] # g

LEMMA BoundFacts ==
  ASSUME DataInv, turn' \in Turns,
         NEW toks, NEW g, NEW key, NEW x, Binds(toks, g, key, x)
  PROVE  Bound(toks, g, x)
<1>1. \A t \in DOMAIN rec : Complete(t)' = Complete(t)
  BY BindData
<1>2. x \in Xfers /\ x # None /\ UNCHANGED mode
  BY AsyncAssumption DEF Binds
<1>3. /\ DOMAIN rec' = DOMAIN rec
      /\ \A t \in DOMAIN rec :
           /\ rec'[t].desc = rec[t].desc
           /\ t \in ToSet(toks) => rec[t].xfer = None /\ rec'[t].xfer = x
           /\ t \notin ToSet(toks) => rec'[t] = rec[t]
  <2>0. \A t \in ToSet(toks) : rec[t].xfer = None
    BY DEF Binds
  <2>1. rec' = [t \in DOMAIN rec |->
                  IF t \in ToSet(toks)
                  THEN [rec[t] EXCEPT !.xfer = x, !.staged = FALSE]
                  ELSE rec[t]]
    BY DEF Binds
  <2>2. \A t \in DOMAIN rec : rec[t] \in RecordType
    BY DEF DataInv, Types
  <2>3. DOMAIN rec' = DOMAIN rec
    BY <2>1
  <2> SUFFICES ASSUME NEW t \in DOMAIN rec
               PROVE  /\ rec'[t].desc = rec[t].desc
                      /\ t \in ToSet(toks) => rec'[t].xfer = x
                      /\ t \notin ToSet(toks) => rec'[t] = rec[t]
    BY <2>0, <2>3
  <2>4. rec'[t] = IF t \in ToSet(toks)
                  THEN [rec[t] EXCEPT !.xfer = x, !.staged = FALSE]
                  ELSE rec[t]
    BY <2>1
  <2>5. rec[t] \in RecordType
    BY <2>2
  <2> QED BY <2>4, <2>5 DEF RecordType
<1>4. CASE g = None
  <2>1. groups' = groups /\ byKey' = byKey
    BY <1>4 DEF Binds
  <2>2. g \notin DOMAIN groups
    BY <1>4, AsyncAssumption DEF DataInv, Types
  <2>3. \A k \in DOMAIN byKey : byKey[k] # g
    BY <2>2 DEF DataInv, KeyInv
  <2> QED BY <1>1, <1>2, <1>3, <2>1, <2>2, <2>3 DEF Bound
<1>5. CASE g # None
  <2>1. g \in DOMAIN groups /\ key = groups[g].key
    BY <1>5 DEF Binds
  <2>2. groups' = Without(groups, g) /\ byKey' = Without(byKey, key)
    BY <1>5 DEF Binds
  <2>3. /\ DOMAIN groups' = DOMAIN groups \ {g}
        /\ \A h \in DOMAIN groups' : groups'[h] = groups[h]
    BY <2>2 DEF Without, Restrict
  <2>4. /\ DOMAIN byKey' = DOMAIN byKey \ {key}
        /\ \A k \in DOMAIN byKey' : byKey'[k] = byKey[k]
    BY <2>2 DEF Without, Restrict
  <2>5. \A k \in DOMAIN byKey' : byKey[k] # g
    BY <2>1, <2>4 DEF DataInv, KeyInv
  <2> QED BY <1>1, <1>2, <1>3, <2>3, <2>4, <2>5 DEF Bound
<1> QED BY <1>4, <1>5

\* IssuePhysical() and the rest of FlushGroup() by the dispatcher.
LEMMA BindDispatcher ==
  ASSUME DataInv, DispatcherOK, Pops, Todo[1].op = "bind",
         NEW x, Bound(Todo[1].tokens, Todo[1].group, x)
  PROVE  DispatcherOK'
<1> DEFINE g == Todo[1].group
           toks == Todo[1].tokens
<1>0. 1 \in 1 .. Len(Todo)
  BY DEF Pops
<1>1. Shape(Todo)'
  BY PopShape DEF DispatcherOK
<1>2. \A i \in 1 .. Len(Todo') : Todo'[i].op # "bind"
  BY DEF DispatcherOK, Shape, Pops
<1>3. \A i \in 1 .. Len(Todo') : BindOK(Todo[i])'
  BY <1>2 DEF BindOK
<1>4. \A t \in DOMAIN rec : /\ rec[t].xfer # None => t \notin ToSet(toks)
                           /\ rec[t].staged /\ rec[t].group = g => t \in ToSet(toks)
  <2>1. BindOK(Todo[1])
    BY <1>0 DEF DispatcherOK
  <2>2. CASE g = None
    <3>1. PICK u \in DOMAIN rec : toks = <<u>> /\ rec[u].xfer = None /\ ~rec[u].staged
      BY <2>1, <2>2 DEF BindOK
    <3>2. ToSet(toks) = {u}
      BY <3>1, Single
    <3>3. \A t \in DOMAIN rec : rec[t].staged => rec[t].group # None
      BY AsyncAssumption DEF DataInv, Types, StagedInv
    <3> QED BY <2>2, <3>1, <3>2, <3>3
  <2>3. CASE g # None
    <3>1. g \in DOMAIN groups /\ toks = groups[g].tokens
      BY <2>1, <2>3 DEF BindOK
    <3>2. \A t \in ToSet(toks) : rec[t].xfer = None
      BY <3>1, GroupTokens
    <3> QED BY <3>1, <3>2 DEF DataInv, StagedInv
  <2> QED BY <2>2, <2>3
<1>5. TokenOK(Todo)'
  <2> SUFFICES ASSUME NEW i \in 1 .. Len(Todo')
               PROVE  LET t == Todo'[i].token IN
                      /\ Todo'[i].op \in {"await", "settle", "release", "start"} => t \in DOMAIN rec'
                      /\ Todo'[i].op \in {"settle", "release"} /\ i = 1 => rec'[t].xfer # None
                      /\ Todo'[i].op = "settle" => i # 2
    BY DEF TokenOK
  <2>1. i + 1 \in 2 .. Len(Todo) /\ i + 1 \in 1 .. Len(Todo) /\ Todo'[i] = Todo[i + 1]
    BY DEF Pops
  <2>2. Todo'[i].op \in {"await", "settle", "release", "start"} => Todo'[i].token \in DOMAIN rec
    BY <2>1 DEF DispatcherOK, TokenOK
  <2>3. Todo'[i].op = "settle" => i # 2
    BY <2>1 DEF DispatcherOK, Shape
  <2>4. i = 1 => Todo'[i].op # "release"
    BY <2>1 DEF DispatcherOK, Shape
  <2>5. ASSUME Todo'[i].op = "settle", i = 1
        PROVE  rec'[Todo'[i].token].xfer # None
    <3>1. Todo[2].op = "settle" /\ Todo'[i].token = Todo[2].token /\ 2 \in 1 .. Len(Todo)
      BY <2>1, <2>5
    <3>2. \/ rec[Todo[2].token].xfer # None
          \/ rec[Todo[2].token].staged /\ rec[Todo[2].token].group = g
      BY <3>1 DEF DispatcherOK, TokenOK
    <3>3. Todo[2].token \in DOMAIN rec
      BY <2>2, <2>5, <3>1
    <3> QED BY <1>4, <3>1, <3>2, <3>3 DEF Bound
  <2> QED BY <2>2, <2>3, <2>4, <2>5 DEF Bound
<1>6. CreateOK(Todo)'
  <2> SUFFICES ASSUME NEW i \in 1 .. Len(Todo'), Todo'[i].op = "create"
               PROVE  /\ Todo'[i].token \in Tokens \ DOMAIN rec'
                      /\ Todo'[i].desc \in mode'.descs
                      /\ DOMAIN groups' # GroupIds
                      /\ \A u \in DOMAIN rec' :
                           ~Complete(u)' /\ HasHazard(rec'[u].desc, Todo'[i].desc) =>
                             \E j \in 1 .. Len(Todo') :
                               Todo'[j].op \in {"await", "settle"} /\ Todo'[j].token = u
    BY DEF CreateOK, HasHazard
  <2>1. i + 1 \in 1 .. Len(Todo) /\ Todo'[i] = Todo[i + 1]
    BY DEF Pops
  <2>2. /\ Todo'[i].token \in Tokens \ DOMAIN rec
        /\ Todo'[i].desc \in mode.descs
        /\ DOMAIN groups # GroupIds
        /\ \A u \in DOMAIN rec :
             ~Complete(u) /\ HasHazard(rec[u].desc, Todo'[i].desc) =>
               \E j \in 1 .. Len(Todo) :
                 Todo[j].op \in {"await", "settle"} /\ Todo[j].token = u
    BY <2>1 DEF DispatcherOK, CreateOK
  <2>3. DOMAIN groups' # GroupIds
    <3>1. DOMAIN groups \subseteq GroupIds /\ DOMAIN groups' \subseteq DOMAIN groups
      BY DEF DataInv, Types, Bound
    <3> QED BY <2>2, <3>1
  <2>4. ASSUME NEW u \in DOMAIN rec', ~Complete(u)', HasHazard(rec'[u].desc, Todo'[i].desc)
        PROVE  \E j \in 1 .. Len(Todo') :
                 Todo'[j].op \in {"await", "settle"} /\ Todo'[j].token = u
    <3>1. u \in DOMAIN rec /\ ~Complete(u) /\ rec'[u].desc = rec[u].desc
      BY <2>4 DEF Bound
    <3>2. PICK j \in 1 .. Len(Todo) : Todo[j].op \in {"await", "settle"} /\ Todo[j].token = u
      BY <2>2, <2>4, <3>1
    <3>3. j \in 2 .. Len(Todo)
      BY <3>2 DEF Pops
    <3> QED BY <3>2, <3>3 DEF Pops
  <2> QED BY <2>2, <2>3, <2>4 DEF Bound
<1>7. StartOK(Todo)'
  <2> SUFFICES ASSUME NEW i \in 1 .. Len(Todo'), Todo'[i].op = "start"
               PROVE  LET t == Todo'[i].token  k == GroupKey(rec'[t].desc) IN
                      /\ mode'.aggregation
                      /\ Todo'[i].group = None
                      /\ rec'[t].xfer = None /\ ~rec'[t].staged
                      /\ rec'[t].desc.size <= MaxBytes
                      /\ DOMAIN groups' # GroupIds
                      /\ k \notin DOMAIN byKey'
                      /\ i # 2
    BY DEF StartOK, GroupKey
  <2> DEFINE t == Todo'[i].token
             k == GroupKey(rec[t].desc)
  <2>1. i = 1 /\ 2 \in 1 .. Len(Todo) /\ Todo'[i] = Todo[2]
    <3>1. i + 1 \in 2 .. Len(Todo) /\ Todo'[i] = Todo[i + 1]
      BY DEF Pops
    <3>2. i + 1 \in 1 .. Len(Todo) /\ i + 1 # 1
      BY <3>1
    <3>3. i + 1 = 2
      BY <3>1, <3>2 DEF DispatcherOK, Shape
    <3> QED BY <3>1, <3>3
  <2>2. t \in DOMAIN rec
    BY <2>1 DEF DispatcherOK, TokenOK
  <2>3. /\ mode.aggregation
        /\ Todo'[i].group = None
        /\ rec[t].xfer = None /\ ~rec[t].staged
        /\ rec[t].desc.size <= MaxBytes
        /\ DOMAIN groups # GroupIds
        /\ k \in DOMAIN byKey => byKey[k] = g
    BY <2>1 DEF DispatcherOK, StartOK
  <2>4. g # None
    BY <1>0, <2>1 DEF DispatcherOK, Shape
  <2>5. t \notin ToSet(toks)
    <3>1. BindOK(Todo[1])
      BY <1>0 DEF DispatcherOK
    <3>2. g \in DOMAIN groups /\ toks = groups[g].tokens
      BY <2>4, <3>1 DEF BindOK
    <3> QED BY <2>3, <3>2, GroupTokens
  <2>6. rec'[t] = rec[t]
    BY <2>2, <2>5 DEF Bound
  <2>7. DOMAIN groups' # GroupIds
    <3>1. DOMAIN groups \subseteq GroupIds /\ DOMAIN groups' \subseteq DOMAIN groups
      BY DEF DataInv, Types, Bound
    <3> QED BY <2>3, <3>1
  <2>8. k \notin DOMAIN byKey'
    BY <2>3 DEF Bound
  <2> QED BY <2>1, <2>3, <2>6, <2>7, <2>8 DEF Bound
<1>8. FenceOK(Todo)'
  <2>1. ASSUME NEW i \in 1 .. Len(Todo'), Todo'[i].op = "fenced", NEW t \in DOMAIN rec'
        PROVE  \E k \in 1 .. Len(Todo') : Todo'[k].op = "release" /\ Todo'[k].token = t
    <3>1. i + 1 \in 1 .. Len(Todo) /\ Todo'[i] = Todo[i + 1] /\ t \in DOMAIN rec
      BY DEF Pops, Bound
    <3>2. PICK j \in 1 .. Len(Todo) : Todo[j].op = "release" /\ Todo[j].token = t
      BY <2>1, <3>1 DEF DispatcherOK, FenceOK
    <3>3. j \in 2 .. Len(Todo)
      BY <3>2 DEF Pops
    <3> QED BY <3>2, <3>3 DEF Pops
  <2> QED BY <2>1 DEF FenceOK
<1>9. LooseOK(Todo)'
  <2>1. ASSUME NEW t \in DOMAIN rec', ~rec'[t].staged, rec'[t].xfer = None
        PROVE  \E i \in 1 .. Len(Todo') :
                 \/ Todo'[i].op = "start" /\ Todo'[i].token = t
                 \/ Todo'[i].op = "bind" /\ Todo'[i].group = None /\ Todo'[i].tokens = <<t>>
    <3>1. t \in DOMAIN rec /\ t \notin ToSet(toks) /\ rec'[t] = rec[t]
      BY <2>1 DEF Bound
    <3>2. PICK i \in 1 .. Len(Todo) :
                 \/ Todo[i].op = "start" /\ Todo[i].token = t
                 \/ Todo[i].op = "bind" /\ Todo[i].group = None /\ Todo[i].tokens = <<t>>
      BY <2>1, <3>1 DEF DispatcherOK, LooseOK
    <3>3. i # 1
      <4>1. ToSet(<<t>>) = {t}
        BY Single
      <4> QED BY <3>1, <3>2, <4>1
    <3>4. i \in 2 .. Len(Todo)
      BY <3>3 DEF Pops
    <3>5. i - 1 \in 1 .. Len(Todo') /\ Todo'[i - 1] = Todo[i]
      BY <3>4 DEF Pops
    <3> QED BY <3>2, <3>5
  <2> QED BY <2>1 DEF LooseOK
<1> QED BY <1>1, <1>3, <1>5, <1>6, <1>7, <1>8, <1>9 DEF DispatcherOK

\* WaitAndRelease(): the operations that follow are about other tokens.
LEMMA ReleaseDispatcher ==
  ASSUME DataInv, DispatcherOK, Pops, Todo[1].op = "release",
         DOMAIN rec' = DOMAIN rec \ {Todo[1].token},
         \A u \in DOMAIN rec' : rec'[u] = rec[u] /\ Complete(u)' = Complete(u),
         UNCHANGED <<mode, groups, byKey>>
  PROVE  DispatcherOK'
<1> DEFINE t == Todo[1].token
<1>0. 1 \in 1 .. Len(Todo) /\ \A j \in 2 .. Len(Todo) : Todo[j].token # t
  <2>1. 1 \in 1 .. Len(Todo) /\ 1 + 1 = 2
    BY DEF Pops
  <2>2. \A j \in 1 + 1 .. Len(Todo) : Todo[j].token # Todo[1].token
    BY <2>1 DEF DispatcherOK, Shape
  <2> QED BY <2>1, <2>2
<1>1. Shape(Todo)'
  BY PopShape DEF DispatcherOK
<1>2. \A i \in 1 .. Len(Todo') :
        /\ i + 1 \in 2 .. Len(Todo) /\ i + 1 \in 1 .. Len(Todo) /\ Todo'[i] = Todo[i + 1]
        /\ Todo'[i].op \notin {"bind", "settle", "start"}
        /\ i = 1 => Todo'[i].op # "release"
  BY DEF DispatcherOK, Shape, Pops
<1>3. \A i \in 1 .. Len(Todo') : BindOK(Todo[i])'
  BY <1>2 DEF BindOK
<1>4. TokenOK(Todo)'
  <2> SUFFICES ASSUME NEW i \in 1 .. Len(Todo'),
                      Todo'[i].op \in {"await", "settle", "release", "start"}
               PROVE  Todo'[i].token \in DOMAIN rec'
    BY <1>2 DEF TokenOK
  <2>1. Todo[i + 1].token \in DOMAIN rec
    BY <1>2 DEF DispatcherOK, TokenOK
  <2> QED BY <1>0, <1>2, <2>1
<1>5. CreateOK(Todo)'
  <2> SUFFICES ASSUME NEW i \in 1 .. Len(Todo'), Todo'[i].op = "create"
               PROVE  /\ Todo'[i].token \in Tokens \ DOMAIN rec'
                      /\ Todo'[i].desc \in mode'.descs
                      /\ DOMAIN groups' # GroupIds
                      /\ \A u \in DOMAIN rec' :
                           ~Complete(u)' /\ HasHazard(rec'[u].desc, Todo'[i].desc) =>
                             \E j \in 1 .. Len(Todo') :
                               Todo'[j].op \in {"await", "settle"} /\ Todo'[j].token = u
    BY DEF CreateOK, HasHazard
  <2>1. /\ Todo'[i].token \in Tokens \ DOMAIN rec
        /\ Todo'[i].desc \in mode.descs
        /\ DOMAIN groups # GroupIds
        /\ \A u \in DOMAIN rec :
             ~Complete(u) /\ HasHazard(rec[u].desc, Todo'[i].desc) =>
               \E j \in 1 .. Len(Todo) :
                 Todo[j].op \in {"await", "settle"} /\ Todo[j].token = u
    BY <1>2 DEF DispatcherOK, CreateOK
  <2>2. ASSUME NEW u \in DOMAIN rec', ~Complete(u)', HasHazard(rec'[u].desc, Todo'[i].desc)
        PROVE  \E j \in 1 .. Len(Todo') :
                 Todo'[j].op \in {"await", "settle"} /\ Todo'[j].token = u
    <3>1. u \in DOMAIN rec /\ ~Complete(u) /\ rec'[u] = rec[u]
      BY <2>2
    <3>2. PICK j \in 1 .. Len(Todo) : Todo[j].op \in {"await", "settle"} /\ Todo[j].token = u
      BY <2>1, <2>2, <3>1
    <3>3. j \in 2 .. Len(Todo)
      BY <3>2 DEF Pops
    <3> QED BY <3>2, <3>3 DEF Pops
  <2> QED BY <2>1, <2>2
<1>6. StartOK(Todo)'
  BY <1>2 DEF StartOK
<1>7. FenceOK(Todo)'
  <2>1. ASSUME NEW i \in 1 .. Len(Todo'), Todo'[i].op = "fenced", NEW u \in DOMAIN rec'
        PROVE  \E k \in 1 .. Len(Todo') : Todo'[k].op = "release" /\ Todo'[k].token = u
    <3>1. u \in DOMAIN rec /\ u # t
      OBVIOUS
    <3>2. PICK j \in 1 .. Len(Todo) : Todo[j].op = "release" /\ Todo[j].token = u
      BY <1>2, <2>1, <3>1 DEF DispatcherOK, FenceOK
    <3>3. j \in 2 .. Len(Todo)
      BY <3>1, <3>2 DEF Pops
    <3> QED BY <3>2, <3>3 DEF Pops
  <2> QED BY <2>1 DEF FenceOK
<1>8. LooseOK(Todo)'
  <2>1. ASSUME NEW u \in DOMAIN rec', ~rec'[u].staged, rec'[u].xfer = None
        PROVE  \E i \in 1 .. Len(Todo') :
                 \/ Todo'[i].op = "start" /\ Todo'[i].token = u
                 \/ Todo'[i].op = "bind" /\ Todo'[i].group = None /\ Todo'[i].tokens = <<u>>
    <3>1. u \in DOMAIN rec /\ rec'[u] = rec[u]
      OBVIOUS
    <3>2. PICK i \in 1 .. Len(Todo) :
                 \/ Todo[i].op = "start" /\ Todo[i].token = u
                 \/ Todo[i].op = "bind" /\ Todo[i].group = None /\ Todo[i].tokens = <<u>>
      BY <2>1, <3>1 DEF DispatcherOK, LooseOK
    <3>3. i \in 2 .. Len(Todo)
      BY <3>2 DEF Pops
    <3>4. i - 1 \in 1 .. Len(Todo') /\ Todo'[i - 1] = Todo[i]
      BY <3>3 DEF Pops
    <3> QED BY <3>2, <3>4
  <2> QED BY <2>1 DEF LooseOK
<1> QED BY <1>1, <1>3, <1>4, <1>5, <1>6, <1>7, <1>8 DEF DispatcherOK

\* The parts of DispatcherOK that only ask for later operations carry over
\* when the first one, which is no part of them, is replaced.
LEMMA LaterDispatcher ==
  ASSUME DataInv, DispatcherOK, UNCHANGED dataVars,
         \A i \in 1 .. Len(Todo') : Todo'[i].op \in {"create", "fenced"} =>
           \E j \in 1 .. Len(Todo) : Todo'[i] = Todo[j],
         \A j \in 1 .. Len(Todo) :
           \/ Todo[j].op \in {"await", "flush"}
           \/ \E i \in 1 .. Len(Todo') : Todo'[i] = Todo[j],
         \A j \in 1 .. Len(Todo) : Todo[j].op = "await" =>
           \E k \in 1 .. Len(Todo') : /\ Todo'[k].op \in {"await", "settle"}
                                      /\ Todo'[k].token = Todo[j].token
  PROVE  CreateOK(Todo)' /\ FenceOK(Todo)' /\ LooseOK(Todo)'
<1> USE DEF dataVars
<1>0. \A u \in DOMAIN rec : Complete(u)' = Complete(u)
  BY DEF Complete
<1>1. CreateOK(Todo)'
  <2> SUFFICES ASSUME NEW i \in 1 .. Len(Todo'), Todo'[i].op = "create"
               PROVE  /\ Todo'[i].token \in Tokens \ DOMAIN rec
                      /\ Todo'[i].desc \in mode.descs
                      /\ DOMAIN groups # GroupIds
                      /\ \A u \in DOMAIN rec :
                           ~Complete(u) /\ HasHazard(rec[u].desc, Todo'[i].desc) =>
                             \E j \in 1 .. Len(Todo') :
                               Todo'[j].op \in {"await", "settle"} /\ Todo'[j].token = u
    BY <1>0 DEF CreateOK
  <2>1. /\ Todo'[i].token \in Tokens \ DOMAIN rec
        /\ Todo'[i].desc \in mode.descs
        /\ DOMAIN groups # GroupIds
        /\ \A u \in DOMAIN rec :
             ~Complete(u) /\ HasHazard(rec[u].desc, Todo'[i].desc) =>
               \E j \in 1 .. Len(Todo) :
                 Todo[j].op \in {"await", "settle"} /\ Todo[j].token = u
    BY DEF DispatcherOK, CreateOK
  <2>2. ASSUME NEW u \in DOMAIN rec, ~Complete(u), HasHazard(rec[u].desc, Todo'[i].desc)
        PROVE  \E j \in 1 .. Len(Todo') :
                 Todo'[j].op \in {"await", "settle"} /\ Todo'[j].token = u
    <3>1. PICK j \in 1 .. Len(Todo) : Todo[j].op \in {"await", "settle"} /\ Todo[j].token = u
      BY <2>1, <2>2
    <3>2. CASE Todo[j].op = "await"
      BY <3>1, <3>2
    <3>3. CASE Todo[j].op = "settle"
      <4>1. \E k \in 1 .. Len(Todo') : Todo'[k] = Todo[j]
        BY <3>3
      <4> QED BY <3>1, <4>1
    <3> QED BY <3>1, <3>2, <3>3
  <2> QED BY <2>1, <2>2
<1>2. FenceOK(Todo)'
  <2>1. ASSUME NEW i \in 1 .. Len(Todo'), Todo'[i].op = "fenced", NEW u \in DOMAIN rec
        PROVE  \E k \in 1 .. Len(Todo') : Todo'[k].op = "release" /\ Todo'[k].token = u
    <3>1. PICK j \in 1 .. Len(Todo) : Todo[j].op = "release" /\ Todo[j].token = u
      BY <2>1 DEF DispatcherOK, FenceOK
    <3>2. \E k \in 1 .. Len(Todo') : Todo'[k] = Todo[j]
      BY <3>1
    <3> QED BY <3>1, <3>2
  <2> QED BY <2>1 DEF FenceOK
<1>3. LooseOK(Todo)'
  <2>1. ASSUME NEW u \in DOMAIN rec, ~rec[u].staged, rec[u].xfer = None
        PROVE  \E i \in 1 .. Len(Todo') :
                 \/ Todo'[i].op = "start" /\ Todo'[i].token = u
                 \/ Todo'[i].op = "bind" /\ Todo'[i].group = None /\ Todo'[i].tokens = <<u>>
    <3>1. PICK j \in 1 .. Len(Todo) :
                 \/ Todo[j].op = "start" /\ Todo[j].token = u
                 \/ Todo[j].op = "bind" /\ Todo[j].group = None /\ Todo[j].tokens = <<u>>
      BY <2>1 DEF DispatcherOK, LooseOK
    <3>2. \E k \in 1 .. Len(Todo') : Todo'[k] = Todo[j]
      BY <3>1
    <3> QED BY <3>1, <3>2
  <2> QED BY <2>1 DEF LooseOK
<1> QED BY <1>1, <1>2, <1>3

\* FlushGroup() up to its wait for a credit: the copy is the group.
LEMMA FlushDispatcher ==
  ASSUME DataInv, DispatcherOK, UNCHANGED dataVars, NEW o, Puts(o),
         Todo[1].op = "flush", o.op = "bind", o.group = Todo[1].group, o.group # None,
         BindOK(o)
  PROVE  DispatcherOK'
<1> USE DEF dataVars
<1>0. /\ 1 \in 1 .. Len(Todo) /\ Len(Todo') = Len(Todo) /\ Todo'[1] = o
      /\ \A i \in 1 .. Len(Todo) : i # 1 => Todo'[i] = Todo[i]
  BY DEF Puts
<1>1. Shape(Todo)'
  <2>1. \A i \in 1 .. Len(Todo) : Todo[i].op = "release" => i # 2
    BY DEF DispatcherOK, Shape
  <2>2. \A i \in 1 .. Len(Todo) : i # 1 =>
          Todo[i].op \notin {"bind", "transfer", "transferred"}
    BY DEF DispatcherOK, Shape
  <2>3. ASSUME NEW i \in 1 .. Len(Todo), i # 1, Todo[i].op = "release"
        PROVE  /\ Todo'[i - 1].op \in {"await", "settle"} /\ Todo'[i - 1].token = Todo'[i].token
               /\ \A j \in i + 1 .. Len(Todo) : Todo'[j].token # Todo'[i].token
    <3>1. /\ Todo[i - 1].op \in {"await", "settle"} /\ Todo[i - 1].token = Todo[i].token
          /\ \A j \in i + 1 .. Len(Todo) : Todo[j].token # Todo[i].token
      BY <2>3 DEF DispatcherOK, Shape
    <3>2. i - 1 # 1 /\ i - 1 \in 1 .. Len(Todo) /\ Len(Todo) \in Nat
      BY <2>1, <2>3 DEF Puts
    <3>3. Todo'[i - 1] = Todo[i - 1] /\ Todo'[i] = Todo[i]
      BY <1>0, <2>3, <3>2
    <3>4. \A j \in i + 1 .. Len(Todo) : Todo'[j] = Todo[j]
      BY <1>0, <2>3, <3>2
    <3> QED BY <3>1, <3>3, <3>4
  <2>4. ASSUME NEW i \in 1 .. Len(Todo), i # 1
        PROVE  /\ Todo'[i].op \in {"create", "start", "collect", "fenced", "transfer",
                                   "transferred"} => i = Len(Todo)
               /\ Todo'[i].op \in {"settle", "start"} => i = 2
    BY <1>0, <2>4 DEF DispatcherOK, Shape
  <2> QED BY <1>0, <2>2, <2>3, <2>4 DEF Shape
<1>2. \A i \in 1 .. Len(Todo') : BindOK(Todo[i])'
  <2>1. \A i \in 1 .. Len(Todo') : BindOK(Todo'[i])
    BY <1>0 DEF DispatcherOK
  <2> QED BY <2>1 DEF BindOK
<1>3. TokenOK(Todo)'
  <2>1. \A i \in 1 .. Len(Todo') :
          LET t == Todo'[i].token IN
          /\ Todo'[i].op \in {"await", "settle", "release", "start"} => t \in DOMAIN rec
          /\ Todo'[i].op \in {"settle", "release"} => i # 1
          /\ Todo'[i].op = "settle" /\ i = 2 =>
               rec[t].xfer # None \/ (rec[t].staged /\ rec[t].group = Todo'[1].group)
    BY <1>0 DEF DispatcherOK, TokenOK
  <2> QED BY <2>1 DEF TokenOK
<1>4. StartOK(Todo)'
  <2>1. \A i \in 1 .. Len(Todo') : Todo'[i].op = "start" =>
          LET t == Todo'[i].token  k == GroupKey(rec[t].desc) IN
          /\ mode.aggregation
          /\ Todo'[i].group = None
          /\ rec[t].xfer = None /\ ~rec[t].staged
          /\ rec[t].desc.size <= MaxBytes
          /\ DOMAIN groups # GroupIds
          /\ i # 1
          /\ i = 2 /\ k \in DOMAIN byKey => byKey[k] = Todo'[1].group
    BY <1>0 DEF DispatcherOK, StartOK
  <2> QED BY <2>1 DEF StartOK
<1>5. CreateOK(Todo)' /\ FenceOK(Todo)' /\ LooseOK(Todo)'
  <2>2. \A i \in 1 .. Len(Todo') : Todo'[i].op \in {"create", "fenced"} =>
          \E j \in 1 .. Len(Todo) : Todo'[i] = Todo[j]
    BY <1>0
  <2>3. \A j \in 1 .. Len(Todo) :
          \/ Todo[j].op \in {"await", "flush"}
          \/ \E i \in 1 .. Len(Todo') : Todo'[i] = Todo[j]
    BY <1>0
  <2>4. \A j \in 1 .. Len(Todo) : Todo[j].op = "await" =>
          \E k \in 1 .. Len(Todo') : /\ Todo'[k].op \in {"await", "settle"}
                                     /\ Todo'[k].token = Todo[j].token
    BY <1>0
  <2> HIDE DEF dataVars
  <2> QED BY <2>2, <2>3, <2>4, LaterDispatcher
<1> QED BY <1>1, <1>2, <1>3, <1>4, <1>5 DEF DispatcherOK

\* WaitForCompletion() of a token that has its transfer.
LEMMA SettleDispatcher ==
  ASSUME DataInv, DispatcherOK, UNCHANGED dataVars, NEW o, Puts(o),
         Todo[1].op = "await", o.op = "settle", o.token = Todo[1].token,
         rec[o.token].xfer # None
  PROVE  DispatcherOK'
<1> USE DEF dataVars
<1>0. /\ 1 \in 1 .. Len(Todo) /\ Len(Todo') = Len(Todo) /\ Todo'[1] = o
      /\ \A i \in 1 .. Len(Todo) : i # 1 => Todo'[i] = Todo[i]
  BY DEF Puts
<1>1. \A i \in 1 .. Len(Todo) : i # 1 =>
        Todo[i].op \notin {"bind", "transfer", "transferred", "settle", "start"}
  BY DEF DispatcherOK, Shape
<1>2. Shape(Todo)'
  <2>1. ASSUME NEW i \in 1 .. Len(Todo), i # 1, Todo[i].op = "release"
        PROVE  /\ Todo'[i - 1].op \in {"await", "settle"} /\ Todo'[i - 1].token = Todo'[i].token
               /\ \A j \in i + 1 .. Len(Todo) : Todo'[j].token # Todo'[i].token
    <3>1. /\ Todo[i - 1].op \in {"await", "settle"} /\ Todo[i - 1].token = Todo[i].token
          /\ \A j \in i + 1 .. Len(Todo) : Todo[j].token # Todo[i].token
      BY <2>1 DEF DispatcherOK, Shape
    <3>2. i - 1 \in 1 .. Len(Todo) /\ Len(Todo) \in Nat
      BY <2>1 DEF Puts
    <3>3. Todo'[i] = Todo[i] /\ \A j \in i + 1 .. Len(Todo) : Todo'[j] = Todo[j]
      BY <1>0, <2>1, <3>2
    <3>4. Todo'[i - 1].op \in {"await", "settle"} /\ Todo'[i - 1].token = Todo[i].token
      BY <1>0, <3>1, <3>2
    <3> QED BY <3>1, <3>3, <3>4
  <2>2. ASSUME NEW i \in 1 .. Len(Todo), i # 1
        PROVE  Todo'[i].op \in {"create", "start", "collect", "fenced", "transfer",
                                "transferred"} => i = Len(Todo)
    BY <1>0, <2>2 DEF DispatcherOK, Shape
  <2> QED BY <1>0, <1>1, <2>1, <2>2 DEF Shape
<1>3. \A i \in 1 .. Len(Todo') : BindOK(Todo[i])'
  BY <1>0, <1>1 DEF BindOK
<1>4. TokenOK(Todo)'
  <2>1. \A i \in 1 .. Len(Todo') :
          LET t == Todo'[i].token IN
          /\ Todo'[i].op \in {"await", "settle", "release", "start"} => t \in DOMAIN rec
          /\ i = 1 => rec[t].xfer # None
          /\ Todo'[i].op = "settle" => i # 2
    BY <1>0, <1>1 DEF DispatcherOK, TokenOK
  <2> QED BY <2>1 DEF TokenOK
<1>5. StartOK(Todo)'
  BY <1>0, <1>1 DEF StartOK
<1>6. CreateOK(Todo)' /\ FenceOK(Todo)' /\ LooseOK(Todo)'
  <2>1. \A i \in 1 .. Len(Todo') : Todo'[i].op \in {"create", "fenced"} =>
          \E j \in 1 .. Len(Todo) : Todo'[i] = Todo[j]
    BY <1>0
  <2>2. \A j \in 1 .. Len(Todo) :
          \/ Todo[j].op \in {"await", "flush"}
          \/ \E i \in 1 .. Len(Todo') : Todo'[i] = Todo[j]
    BY <1>0
  <2>3. \A j \in 1 .. Len(Todo) : Todo[j].op = "await" =>
          \E k \in 1 .. Len(Todo') : /\ Todo'[k].op \in {"await", "settle"}
                                     /\ Todo'[k].token = Todo[j].token
    BY <1>0
  <2> HIDE DEF dataVars
  <2> QED BY <2>1, <2>2, <2>3, LaterDispatcher
<1> QED BY <1>2, <1>3, <1>4, <1>5, <1>6 DEF DispatcherOK

\* WaitForCompletion() of a staged token: its group is flushed first.
LEMMA FlushSettleDispatcher ==
  ASSUME DataInv, DispatcherOK, UNCHANGED dataVars, NEW o, NEW p, PutsTwo(o, p),
         Todo[1].op = "await", o.op = "flush", p.op = "settle",
         p.token = Todo[1].token, rec[p.token].staged, o.group = rec[p.token].group
  PROVE  DispatcherOK'
<1> USE DEF dataVars
<1>0. /\ Len(Todo) \in Nat \ {0} /\ Len(Todo') = Len(Todo) + 1
      /\ 1 \in 1 .. Len(Todo) /\ Todo'[1] = o /\ Todo'[2] = p
      /\ 1 \in 1 .. Len(Todo') /\ 2 \in 1 .. Len(Todo')
      /\ \A j \in 1 .. Len(Todo) :
           j # 1 => j + 1 \in 1 .. Len(Todo') /\ Todo'[j + 1] = Todo[j]
  BY DEF PutsTwo
<1>1. \A i \in 1 .. Len(Todo') :
        \/ i = 1 \/ i = 2
        \/ i \in 3 .. Len(Todo') /\ i - 1 \in 1 .. Len(Todo) /\ i - 1 # 1
           /\ Todo'[i] = Todo[i - 1]
  BY <1>0 DEF PutsTwo
<1>2. \A j \in 1 .. Len(Todo) : j # 1 =>
        Todo[j].op \notin {"bind", "transfer", "transferred", "settle", "start"}
  BY DEF DispatcherOK, Shape
<1>3. \A i \in 3 .. Len(Todo') :
        Todo'[i].op \notin {"bind", "transfer", "transferred", "settle", "start"}
  BY <1>0, <1>1, <1>2
<1>4. Shape(Todo)'
  <2>1. ASSUME NEW i \in 1 .. Len(Todo'), Todo'[i].op = "release"
        PROVE  /\ Todo'[i - 1].op \in {"await", "settle"} /\ Todo'[i - 1].token = Todo'[i].token
               /\ \A j \in i + 1 .. Len(Todo') : Todo'[j].token # Todo'[i].token
    <3>1. i # 1 /\ i # 2
      BY <1>0, <2>1
    <3>2. i \in 3 .. Len(Todo') /\ i - 1 \in 1 .. Len(Todo) /\ i - 1 # 1 /\ Todo'[i] = Todo[i - 1]
      BY <1>1, <3>1
    <3> DEFINE k == i - 1
    <3>3. /\ Todo[k - 1].op \in {"await", "settle"} /\ Todo[k - 1].token = Todo[k].token
          /\ \A j \in k + 1 .. Len(Todo) : Todo[j].token # Todo[k].token
      BY <2>1, <3>2 DEF DispatcherOK, Shape
    <3>4. k - 1 \in 1 .. Len(Todo)
      BY <1>0, <3>2
    <3>5. Todo'[i - 1].op \in {"await", "settle"} /\ Todo'[i - 1].token = Todo[k].token
      <4>1. CASE k - 1 = 1
        <5>1. i - 1 = 2
          BY <3>2, <4>1
        <5> QED BY <1>0, <3>3, <4>1, <5>1
      <4>2. CASE k - 1 # 1
        <5>1. Todo'[(k - 1) + 1] = Todo[k - 1] /\ (k - 1) + 1 = i - 1
          BY <1>0, <3>2, <3>4, <4>2
        <5> QED BY <3>3, <5>1
      <4> QED BY <4>1, <4>2
    <3>6. ASSUME NEW j \in i + 1 .. Len(Todo')
          PROVE  Todo'[j].token # Todo'[i].token
      <4>1. j \in 1 .. Len(Todo') /\ j # 1 /\ j # 2
        BY <1>0, <3>2
      <4>2. Todo'[j] = Todo[j - 1]
        BY <1>1, <4>1
      <4>3. j - 1 \in k + 1 .. Len(Todo)
        BY <1>0, <3>2
      <4> QED BY <3>2, <3>3, <4>2, <4>3
    <3> QED BY <3>2, <3>5, <3>6
  <2>2. ASSUME NEW i \in 1 .. Len(Todo')
        PROVE  Todo'[i].op \in {"create", "start", "collect", "fenced", "transfer",
                                "transferred"} => i = Len(Todo')
    <3>1. CASE i = 1 \/ i = 2
      BY <1>0, <3>1
    <3>2. CASE i # 1 /\ i # 2
      <4>1. i - 1 \in 1 .. Len(Todo) /\ Todo'[i] = Todo[i - 1]
        BY <1>1, <3>2
      <4>2. Todo'[i].op \in {"create", "start", "collect", "fenced", "transfer",
                             "transferred"} => i - 1 = Len(Todo)
        BY <4>1 DEF DispatcherOK, Shape
      <4> QED BY <1>0, <4>1, <4>2
    <3> QED BY <3>1, <3>2
  <2>3. \A i \in 1 .. Len(Todo') : Todo'[i].op \notin {"bind", "transfer", "transferred", "start"}
    BY <1>0, <1>1, <1>3
  <2>4. \A i \in 1 .. Len(Todo') : Todo'[i].op = "settle" => i = 2
    BY <1>0, <1>1, <1>3
  <2> QED BY <1>0, <2>1, <2>2, <2>3, <2>4 DEF Shape
<1>5. \A i \in 1 .. Len(Todo') : Todo'[i].op \notin {"bind", "start"}
  BY <1>0, <1>1, <1>3
<1>6. \A i \in 1 .. Len(Todo') : BindOK(Todo[i])'
  BY <1>5 DEF BindOK
<1>7. TokenOK(Todo)'
  <2>1. ASSUME NEW i \in 1 .. Len(Todo'),
               Todo'[i].op \in {"await", "settle", "release", "start"}
        PROVE  Todo'[i].token \in DOMAIN rec
    <3>1. CASE i = 1 \/ i = 2
      BY <1>0, <2>1, <3>1 DEF DispatcherOK, TokenOK
    <3>2. CASE i # 1 /\ i # 2
      <4>1. i - 1 \in 1 .. Len(Todo) /\ Todo'[i] = Todo[i - 1]
        BY <1>1, <3>2
      <4> QED BY <2>1, <4>1 DEF DispatcherOK, TokenOK
    <3> QED BY <3>1, <3>2
  <2> QED BY <1>0, <2>1 DEF TokenOK
<1>8. StartOK(Todo)'
  BY <1>5 DEF StartOK
<1>9. CreateOK(Todo)' /\ FenceOK(Todo)' /\ LooseOK(Todo)'
  <2>1. \A i \in 1 .. Len(Todo') : Todo'[i].op \in {"create", "fenced"} =>
          \E j \in 1 .. Len(Todo) : Todo'[i] = Todo[j]
    BY <1>0, <1>1
  <2>2. \A j \in 1 .. Len(Todo) :
          \/ Todo[j].op \in {"await", "flush"}
          \/ \E i \in 1 .. Len(Todo') : Todo'[i] = Todo[j]
    BY <1>0
  <2>3. \A j \in 1 .. Len(Todo) : Todo[j].op = "await" =>
          \E k \in 1 .. Len(Todo') : /\ Todo'[k].op \in {"await", "settle"}
                                     /\ Todo'[k].token = Todo[j].token
    BY <1>0
  <2> HIDE DEF dataVars
  <2> QED BY <2>1, <2>2, <2>3, LaterDispatcher
<1> QED BY <1>4, <1>6, <1>7, <1>8, <1>9 DEF DispatcherOK

\* A call that only flushes, collects or transfers.
LEMMA PlainDispatcher ==
  ASSUME NoneLoose',
         \A i \in 1 .. Len(Todo') :
           \/ Todo'[i].op = "flush"
           \/ Todo'[i].op \in {"collect", "fenced", "transfer", "transferred"} /\ i = Len(Todo')
              /\ (Todo'[i].op \in {"transfer", "transferred"} => i = 1)
              /\ (Todo'[i].op = "fenced" => DOMAIN rec' = {})
  PROVE  DispatcherOK'
<1>1. \A i \in 1 .. Len(Todo') : Todo'[i].op \notin {"bind", "await", "settle", "release",
                                                    "create", "start"}
  OBVIOUS
<1>2. Shape(Todo)'
  BY <1>1 DEF Shape
<1>3. (\A i \in 1 .. Len(Todo) : BindOK(Todo[i]))'
  BY <1>1 DEF BindOK
<1>4. TokenOK(Todo)'
  BY <1>1 DEF TokenOK
<1>5. CreateOK(Todo)' /\ StartOK(Todo)'
  BY <1>1 DEF CreateOK, StartOK
<1>6. FenceOK(Todo)'
  BY DEF FenceOK
<1>7. LooseOK(Todo)'
  BY DEF LooseOK, NoneLoose
<1> QED BY <1>2, <1>3, <1>4, <1>5, <1>6, <1>7 DEF DispatcherOK

\* Without a new token among the operations, no token is loose.
LEMMA AllBound ==
  ASSUME LooseOK(Todo), \A i \in 1 .. Len(Todo) : Todo[i].op \notin {"start", "bind"}
  PROVE  NoneLoose
BY DEF LooseOK, NoneLoose

\* A step of the engine, of timeoutWorker or of time that the dispatcher's
\* operations do not notice.
LEMMA DispatcherKept ==
  ASSUME DispatcherOK, Todo' = Todo, UNCHANGED <<mode, rec, byKey>>,
         DOMAIN groups' = DOMAIN groups,
         \A g \in DOMAIN groups : /\ groups'[g].tokens = groups[g].tokens
                                  /\ groups'[g].key = groups[g].key,
         \A t \in DOMAIN rec : Complete(t) => Complete(t)'
  PROVE  DispatcherOK'
<1>1. Shape(Todo)'
  BY DEF DispatcherOK, Shape
<1>2. (\A i \in 1 .. Len(Todo) : BindOK(Todo[i]))'
  <2>1. \A i \in 1 .. Len(Todo) : BindOK(Todo[i])
    BY DEF DispatcherOK
  <2> SUFFICES ASSUME NEW i \in 1 .. Len(Todo) PROVE BindOK(Todo[i])'
    OBVIOUS
  <2>2. BindOK(Todo[i])
    BY <2>1
  <2>3. Todo'[i] = Todo[i]
    OBVIOUS
  <2> QED BY <2>2, <2>3 DEF BindOK
<1>3. TokenOK(Todo)'
  BY DEF DispatcherOK, TokenOK
<1>4. CreateOK(Todo)'
  BY DEF DispatcherOK, CreateOK
<1>5. StartOK(Todo)'
  BY DEF DispatcherOK, StartOK
<1>6. FenceOK(Todo)'
  BY DEF DispatcherOK, FenceOK
<1>7. LooseOK(Todo)'
  BY DEF DispatcherOK, LooseOK
<1> QED BY <1>1, <1>2, <1>3, <1>4, <1>5, <1>6, <1>7 DEF DispatcherOK

\* timeoutWorker binds a group while the dispatcher waits for a completion.
LEMMA DispatcherOvertaken ==
  ASSUME DataInv, DispatcherOK, Todo' = Todo, Len(Todo) \in Nat,
         Todo # <<>> => Todo[1].op \in {"settle", "transfer", "transferred"},
         NEW toks, NEW g, NEW x, Bound(toks, g, x)
  PROVE  DispatcherOK'
<1>0. \A i \in 1 .. Len(Todo) : Todo # <<>> /\ 1 \in 1 .. Len(Todo)
  OBVIOUS
<1>1. \A i \in 1 .. Len(Todo) :
        /\ Todo[i].op \notin {"bind", "start"}
        /\ Todo[i].op = "settle" => i = 1
        /\ Todo[i].op = "release" => i # 1
  BY <1>0 DEF DispatcherOK, Shape
<1>2. Shape(Todo)'
  BY DEF DispatcherOK, Shape
<1>3. (\A i \in 1 .. Len(Todo) : BindOK(Todo[i]))'
  BY <1>1 DEF BindOK
<1>4. TokenOK(Todo)'
  <2>1. \A i \in 1 .. Len(Todo) :
          LET t == Todo[i].token IN
          /\ Todo[i].op \in {"await", "settle", "release", "start"} => t \in DOMAIN rec
          /\ Todo[i].op \in {"settle", "release"} /\ i = 1 => rec[t].xfer # None
          /\ Todo[i].op = "settle" => i # 2
    BY <1>1 DEF DispatcherOK, TokenOK
  <2>2. \A t \in DOMAIN rec : t \in DOMAIN rec' /\ (rec[t].xfer # None => rec'[t].xfer # None)
    BY DEF Bound
  <2> QED BY <2>1, <2>2 DEF TokenOK
<1>5. CreateOK(Todo)'
  <2> SUFFICES ASSUME NEW i \in 1 .. Len(Todo), Todo[i].op = "create"
               PROVE  /\ Todo[i].token \in Tokens \ DOMAIN rec'
                      /\ Todo[i].desc \in mode'.descs
                      /\ DOMAIN groups' # GroupIds
                      /\ \A u \in DOMAIN rec' :
                           ~Complete(u)' /\ HasHazard(rec'[u].desc, Todo[i].desc) =>
                             \E j \in 1 .. Len(Todo) :
                               Todo[j].op \in {"await", "settle"} /\ Todo[j].token = u
    BY DEF CreateOK, HasHazard
  <2>1. /\ Todo[i].token \in Tokens \ DOMAIN rec
        /\ Todo[i].desc \in mode.descs
        /\ DOMAIN groups # GroupIds
        /\ \A u \in DOMAIN rec :
             ~Complete(u) /\ HasHazard(rec[u].desc, Todo[i].desc) =>
               \E j \in 1 .. Len(Todo) :
                 Todo[j].op \in {"await", "settle"} /\ Todo[j].token = u
    BY DEF DispatcherOK, CreateOK
  <2>2. DOMAIN groups' # GroupIds
    <3>1. DOMAIN groups \subseteq GroupIds /\ DOMAIN groups' \subseteq DOMAIN groups
      BY DEF DataInv, Types, Bound
    <3> QED BY <2>1, <3>1
  <2> QED BY <2>1, <2>2 DEF Bound
<1>6. StartOK(Todo)'
  BY <1>1 DEF StartOK
<1>7. FenceOK(Todo)'
  BY DEF DispatcherOK, FenceOK, Bound
<1>8. LooseOK(Todo)'
  <2>1. NoneLoose
    BY <1>1, AllBound DEF DispatcherOK
  <2> QED BY <2>1 DEF Bound, NoneLoose, LooseOK
<1> QED BY <1>2, <1>3, <1>4, <1>5, <1>6, <1>7, <1>8 DEF DispatcherOK

\* IssueToken() of a token of its own.
LEMMA CreateBindDispatcher ==
  ASSUME NoneLoose, NEW t \in Tokens,
         DOMAIN rec' = DOMAIN rec \union {t},
         \A u \in DOMAIN rec : rec'[u] = rec[u],
         rec'[t].xfer = None, ~rec'[t].staged,
         Len(Todo') = 1, Todo'[1].op = "bind", Todo'[1].group = None,
         Todo'[1].tokens = <<t>>
  PROVE  DispatcherOK'
<1>0. \A i \in 1 .. Len(Todo') : i = 1
  OBVIOUS
<1>1. Shape(Todo)'
  BY <1>0 DEF Shape
<1>2. (\A i \in 1 .. Len(Todo) : BindOK(Todo[i]))'
  BY <1>0 DEF BindOK
<1>3. TokenOK(Todo)'
  BY <1>0 DEF TokenOK
<1>4. CreateOK(Todo)' /\ StartOK(Todo)' /\ FenceOK(Todo)'
  BY <1>0 DEF CreateOK, StartOK, FenceOK
<1>5. LooseOK(Todo)'
  BY DEF LooseOK, NoneLoose
<1> QED BY <1>1, <1>2, <1>3, <1>4, <1>5 DEF DispatcherOK

\* IssueToken() of a token that starts a group, after the flush of the group
\* that holds its key.
LEMMA CreateStartDispatcher ==
  ASSUME NoneLoose, NEW t \in Tokens,
         DOMAIN rec' = DOMAIN rec \union {t},
         \A u \in DOMAIN rec : rec'[u] = rec[u],
         rec'[t].xfer = None, ~rec'[t].staged, rec'[t].desc.size <= MaxBytes,
         mode'.aggregation, DOMAIN groups' # GroupIds,
         NEW n \in {1, 2}, Len(Todo') = n,
         Todo'[n].op = "start", Todo'[n].token = t, Todo'[n].group = None,
         n = 1 => GroupKey(rec'[t].desc) \notin DOMAIN byKey',
         n = 2 => /\ Todo'[1].op = "flush"
                  /\ byKey'[GroupKey(rec'[t].desc)] = Todo'[1].group
  PROVE  DispatcherOK'
<1>0. \A i \in 1 .. Len(Todo') : i = n \/ (i = 1 /\ n = 2)
  OBVIOUS
<1>1. \A i \in 1 .. Len(Todo') :
        /\ Todo'[i].op \in {"start", "flush"}
        /\ Todo'[i].op = "start" => i = n
        /\ Todo'[i].op = "flush" => i = 1 /\ n = 2
  BY <1>0
<1>2. Shape(Todo)'
  BY <1>1 DEF Shape
<1>3. (\A i \in 1 .. Len(Todo) : BindOK(Todo[i]))'
  BY <1>1 DEF BindOK
<1>4. TokenOK(Todo)'
  BY <1>1 DEF TokenOK
<1>5. CreateOK(Todo)' /\ FenceOK(Todo)'
  BY <1>1 DEF CreateOK, FenceOK
<1>6. StartOK(Todo)'
  <2> SUFFICES ASSUME NEW i \in 1 .. Len(Todo'), Todo'[i].op = "start"
               PROVE  LET u == Todo'[i].token  k == GroupKey(rec'[u].desc) IN
                      /\ mode'.aggregation
                      /\ Todo'[i].group = None
                      /\ rec'[u].xfer = None /\ ~rec'[u].staged
                      /\ rec'[u].desc.size <= MaxBytes
                      /\ DOMAIN groups' # GroupIds
                      /\ i = 1 => k \notin DOMAIN byKey'
                      /\ i = 2 /\ k \in DOMAIN byKey' => byKey'[k] = Todo'[1].group
    BY DEF StartOK, GroupKey
  <2>1. i = n
    BY <1>1
  <2> QED BY <2>1
<1>7. LooseOK(Todo)'
  BY DEF LooseOK, NoneLoose
<1> QED BY <1>2, <1>3, <1>4, <1>5, <1>6, <1>7 DEF DispatcherOK

\* WaitToken(): a wait and a release.
LEMMA WaitDispatcher ==
  ASSUME NoneLoose', NEW t \in DOMAIN rec', Len(Todo') = 2,
         Todo'[1].op = "await", Todo'[1].token = t,
         Todo'[2].op = "release", Todo'[2].token = t
  PROVE  DispatcherOK'
<1>0. \A i \in 1 .. Len(Todo') : i = 1 \/ i = 2
  OBVIOUS
<1>1. Shape(Todo)'
  <2>1. 2 - 1 = 1 /\ 2 + 1 .. 2 = {}
    OBVIOUS
  <2> QED BY <1>0, <2>1 DEF Shape
<1>2. (\A i \in 1 .. Len(Todo) : BindOK(Todo[i]))'
  BY <1>0 DEF BindOK
<1>3. TokenOK(Todo)'
  BY <1>0 DEF TokenOK
<1>4. CreateOK(Todo)' /\ FenceOK(Todo)' /\ StartOK(Todo)'
  BY <1>0 DEF CreateOK, FenceOK, StartOK
<1>5. LooseOK(Todo)'
  BY DEF LooseOK, NoneLoose
<1> QED BY <1>1, <1>2, <1>3, <1>4, <1>5 DEF DispatcherOK

\* IssueToken(): the conflicting tokens are waited for first.
LEMMA IssueDispatcher ==
  ASSUME NoneLoose, UNCHANGED dataVars,
         NEW t \in Tokens \ DOMAIN rec, NEW d \in mode.descs, DOMAIN groups # GroupIds,
         NEW c, Len(c) \in Nat, \A i \in 1 .. Len(c) : c[i] \in DOMAIN rec,
         \A u \in DOMAIN rec :
           ~Complete(u) /\ HasHazard(rec[u].desc, d) => \E i \in 1 .. Len(c) : c[i] = u,
         Len(Todo') = Len(c) + 1,
         \A i \in 1 .. Len(c) : Todo'[i].op = "await" /\ Todo'[i].token = c[i],
         Todo'[Len(c) + 1].op = "create", Todo'[Len(c) + 1].token = t,
         Todo'[Len(c) + 1].desc = d
  PROVE  DispatcherOK'
<1> USE DEF dataVars
<1>0. \A i \in 1 .. Len(Todo') :
        \/ i \in 1 .. Len(c) /\ Todo'[i].op = "await"
        \/ i = Len(c) + 1 /\ Todo'[i].op = "create"
  <2> TAKE i \in 1 .. Len(Todo')
  <2>1. CASE i = Len(c) + 1
    BY <2>1
  <2>2. CASE i # Len(c) + 1
    <3>1. i \in 1 .. Len(c)
      BY <2>2
    <3> QED BY <3>1
  <2> QED BY <2>1, <2>2
<1>1. Shape(Todo)'
  BY <1>0 DEF Shape
<1>2. (\A i \in 1 .. Len(Todo) : BindOK(Todo[i]))'
  BY <1>0 DEF BindOK
<1>3. TokenOK(Todo)'
  BY <1>0 DEF TokenOK
<1>4. FenceOK(Todo)' /\ StartOK(Todo)'
  BY <1>0 DEF FenceOK, StartOK
<1>5. CreateOK(Todo)'
  <2>1. \A u \in DOMAIN rec : Complete(u)' = Complete(u)
    BY DEF Complete
  <2> SUFFICES ASSUME NEW u \in DOMAIN rec, ~Complete(u), HasHazard(rec[u].desc, d)
               PROVE  \E j \in 1 .. Len(Todo') :
                        Todo'[j].op \in {"await", "settle"} /\ Todo'[j].token = u
    BY <1>0, <2>1 DEF CreateOK
  <2>2. PICK i \in 1 .. Len(c) : c[i] = u
    OBVIOUS
  <2>3. i \in 1 .. Len(Todo')
    OBVIOUS
  <2> QED BY <2>2, <2>3
<1>6. LooseOK(Todo)'
  BY DEF LooseOK, NoneLoose
<1> QED BY <1>1, <1>2, <1>3, <1>4, <1>5, <1>6 DEF DispatcherOK

\* Halves of a position in a list of pairs.
LEMMA Halves ==
  ASSUME NEW n \in Nat, NEW i \in 1 .. 2 * n
  PROVE  \E k \in 1 .. n : /\ k = (i + 1) \div 2
                           /\ (i % 2 = 1 /\ i = 2 * k - 1) \/ (i % 2 # 1 /\ i = 2 * k)
<1> DEFINE k == (i + 1) \div 2
<1>1. k \in Int /\ 2 * k <= i + 1 /\ i + 1 < 2 * k + 2
  OBVIOUS
<1>2. i \in Int /\ k = (i + 1) \div 2
  OBVIOUS
<1> HIDE DEF k
<1>3. k \in 1 .. n
  BY <1>1
<1>4. (i % 2 = 1 /\ i = 2 * k - 1) \/ (i % 2 # 1 /\ i = 2 * k)
  BY <1>1, <1>2
<1> QED BY <1>2, <1>3, <1>4

\* Fence() once the groups are flushed: every outstanding token is waited for
\* and released.
LEMMA CollectDispatcher ==
  ASSUME NoneLoose', NEW s \in Seq(Tokens), IsInjective(s), ToSet(s) = DOMAIN rec',
         Len(Todo') = 2 * Len(s) + 1,
         \A i \in 1 .. 2 * Len(s) :
           /\ Todo'[i].op = IF i % 2 = 1 THEN "await" ELSE "release"
           /\ Todo'[i].token = s[(i + 1) \div 2],
         Todo'[2 * Len(s) + 1].op = "fenced", Todo'[2 * Len(s) + 1].token = None
  PROVE  DispatcherOK'
<1> DEFINE n == Len(s)
           m == 2 * n + 1
<1>1. n \in Nat /\ m \in Nat /\ Len(Todo') = m
  OBVIOUS
<1>2. ASSUME NEW k \in 1 .. n
      PROVE  s[k] \in DOMAIN rec' /\ s[k] # None
  BY AsyncAssumption DEF ToSet
<1>3. \A k, l \in 1 .. n : s[k] = s[l] => k = l
  BY DEF IsInjective
<1>4. ASSUME NEW i \in 1 .. m, i # m
      PROVE  \E k \in 1 .. n :
               /\ Todo'[i].token = s[k]
               /\ \/ Todo'[i].op = "await" /\ i = 2 * k - 1
                  \/ Todo'[i].op = "release" /\ i = 2 * k
  <2>1. i \in 1 .. 2 * n
    BY <1>1, <1>4
  <2>2. PICK k \in 1 .. n : /\ k = (i + 1) \div 2
                            /\ (i % 2 = 1 /\ i = 2 * k - 1) \/ (i % 2 # 1 /\ i = 2 * k)
    BY <1>1, <2>1, Halves
  <2>3. Todo'[i].op = (IF i % 2 = 1 THEN "await" ELSE "release") /\ Todo'[i].token = s[k]
    BY <2>1, <2>2
  <2> QED BY <2>2, <2>3
<1>5. ASSUME NEW k \in 1 .. n
      PROVE  /\ 2 * k - 1 \in 1 .. m /\ 2 * k \in 1 .. m /\ 2 * k # m /\ 2 * k - 1 # m
             /\ Todo'[2 * k].op = "release" /\ Todo'[2 * k].token = s[k]
             /\ Todo'[2 * k - 1].op = "await" /\ Todo'[2 * k - 1].token = s[k]
  <2>1. 2 * k - 1 \in 1 .. m /\ 2 * k \in 1 .. m /\ 2 * k # m /\ 2 * k - 1 # m
    BY <1>1
  <2>2. PICK l \in 1 .. n : /\ Todo'[2 * k].token = s[l]
                            /\ \/ Todo'[2 * k].op = "await" /\ 2 * k = 2 * l - 1
                               \/ Todo'[2 * k].op = "release" /\ 2 * k = 2 * l
    BY <1>4, <2>1
  <2>3. PICK j \in 1 .. n : /\ Todo'[2 * k - 1].token = s[j]
                            /\ \/ Todo'[2 * k - 1].op = "await" /\ 2 * k - 1 = 2 * j - 1
                               \/ Todo'[2 * k - 1].op = "release" /\ 2 * k - 1 = 2 * j
    BY <1>4, <2>1
  <2>4. k \in Int /\ l \in Int /\ j \in Int
    BY <1>1
  <2>5. l = k /\ j = k /\ 2 * k # 2 * l - 1 /\ 2 * k - 1 # 2 * j
    BY <2>2, <2>3, <2>4
  <2> QED BY <2>1, <2>2, <2>3, <2>5
<1> HIDE DEF n, m
<1>6. Todo'[m].op = "fenced" /\ Todo'[m].token = None
  BY DEF n, m
<1>7. \A i \in 1 .. Len(Todo') :
        Todo'[i].op \in {"await", "release"} \/ (i = m /\ Todo'[i].op = "fenced")
  <2> TAKE i \in 1 .. Len(Todo')
  <2>1. CASE i = m
    BY <1>6, <2>1
  <2>2. CASE i # m
    <3>1. i \in 1 .. m
      BY <1>1
    <3>2. Todo'[i].op = "await" \/ Todo'[i].op = "release"
      BY <1>4, <2>2, <3>1
    <3> QED BY <3>2
  <2> QED BY <2>1, <2>2
<1>8. Shape(Todo)'
  <2>1. ASSUME NEW i \in 1 .. m, Todo'[i].op = "release"
        PROVE  /\ Todo'[i - 1].op \in {"await", "settle"} /\ Todo'[i - 1].token = Todo'[i].token
               /\ \A j \in i + 1 .. m : Todo'[j].token # Todo'[i].token
    <3>1. PICK k \in 1 .. n : Todo'[i].token = s[k] /\ i = 2 * k
      BY <1>4, <1>6, <2>1
    <3>2. ASSUME NEW j \in i + 1 .. m
          PROVE  Todo'[j].token # s[k]
      <4>1. CASE j = m
        BY <1>2, <1>6, <4>1
      <4>2. CASE j # m
        <5>1. j \in 1 .. m
          BY <1>1
        <5>2. PICK l \in 1 .. n : /\ Todo'[j].token = s[l]
                                  /\ j = 2 * l - 1 \/ j = 2 * l
          BY <1>4, <4>2, <5>1
        <5>3. l # k
          BY <1>1, <3>1, <5>2
        <5> QED BY <1>3, <5>2, <5>3
      <4> QED BY <4>1, <4>2
    <3>3. Todo'[i - 1].op = "await" /\ Todo'[i - 1].token = s[k]
      BY <1>5, <3>1
    <3> QED BY <3>1, <3>2, <3>3
  <2> QED BY <1>1, <1>7, <2>1 DEF Shape
<1>9. (\A i \in 1 .. Len(Todo) : BindOK(Todo[i]))'
  BY <1>7 DEF BindOK
<1>10. TokenOK(Todo)'
  <2>1. ASSUME NEW i \in 1 .. m, Todo'[i].op \in {"await", "release"}
        PROVE  Todo'[i].token \in DOMAIN rec' /\ (Todo'[i].op = "release" => i # 1)
    <3>1. PICK k \in 1 .. n : /\ Todo'[i].token = s[k]
                              /\ \/ Todo'[i].op = "await" /\ i = 2 * k - 1
                                 \/ Todo'[i].op = "release" /\ i = 2 * k
      BY <1>4, <1>6, <2>1
    <3>2. 2 * k # 1
      BY <1>1
    <3> QED BY <1>2, <3>1, <3>2
  <2> QED BY <1>1, <1>7, <2>1 DEF TokenOK
<1>11. CreateOK(Todo)' /\ StartOK(Todo)'
  BY <1>7 DEF CreateOK, StartOK
<1>12. FenceOK(Todo)'
  <2>1. ASSUME NEW t \in DOMAIN rec'
        PROVE  \E j \in 1 .. Len(Todo') : Todo'[j].op = "release" /\ Todo'[j].token = t
    <3>1. PICK k \in 1 .. n : s[k] = t
      BY DEF ToSet, n
    <3> QED BY <1>1, <1>5, <3>1, SMTT(30)
  <2> QED BY <2>1 DEF FenceOK
<1>13. LooseOK(Todo)'
  BY DEF LooseOK, NoneLoose
<1> QED BY <1>8, <1>9, <1>10, <1>11, <1>12, <1>13 DEF DispatcherOK
-----------------------------------------------------------------------------
(* The steps of the dispatcher.                                            *)

\* What a dispatcher that does not run waits for.
Waits ==
  turn # "dispatcher" /\ Todo # <<>> =>
    \/ Todo[1].op \in {"settle", "transfer", "transferred"}
    \/ Todo[1].op = "bind" /\ ~mode.aggregation

\* A thread that is not running suspended at an operation that blocks.
LEMMA BlockedWaits ==
  ASSUME CreditsNeverRunOut, mode \in Modes, NEW o, Blocked(o)
  PROVE  \/ o.op \in {"settle", "transfer", "transferred"}
         \/ o.op = "bind" /\ ~mode.aggregation
<1>1. mode.aggregation => CanAccept(mode.capacity)
  BY Credit
<1> QED BY <1>1 DEF Blocked

\* The same after a step that keeps the mode.
LEMMA BlockedWaitsNext ==
  ASSUME CreditsNeverRunOut, mode \in Modes, UNCHANGED mode,
         NEW th \in Threads, Blocked(Head(todo[th]))'
  PROVE  \/ Head(todo'[th]).op \in {"settle", "transfer", "transferred"}
         \/ Head(todo'[th]).op = "bind" /\ ~mode'.aggregation
<1>1. mode.aggregation => CanAccept(mode.capacity)'
  BY Credit
<1>2. mode'.aggregation => CanAccept(mode.capacity)'
  BY <1>1
<1> QED BY <1>2 DEF Blocked, CanAccept

\* The dispatcher replaces its first operation.
LEMMA Continues1 ==
  ASSUME CreditsNeverRunOut, AsyncInv, NEW name, Runs("dispatcher", name),
         NEW ops \in Seq(OpType), Continue("dispatcher", ops), UNCHANGED mode
  PROVE  /\ Todo \in Seq(OpType) /\ Todo # <<>> /\ Len(Todo) \in Nat \ {0}
         /\ Todo[1] = Arg("dispatcher") /\ Todo[1].op = name /\ ~Blocked(Todo[1])
         /\ Todo' = ops \o Tail(Todo)
         /\ todo' \in [Threads -> Seq(OpType)]
         /\ turn' \in Turns
         /\ WorkerOK'
         /\ Waits'
<1>1. /\ todo \in [Threads -> Seq(OpType)] /\ mode \in Modes
      /\ todo["dispatcher"] \in Seq(OpType) /\ todo["dispatcher"] # <<>>
      /\ Head(todo["dispatcher"]).op = name /\ ~Blocked(Head(todo["dispatcher"]))
      /\ "dispatcher" \in Threads
  BY DEF AsyncInv, CtrlInv, DataInv, Types, Runs, Threads
<1>2. todo' = [todo EXCEPT !["dispatcher"] = ops \o Tail(todo["dispatcher"])]
  BY DEF Continue
<1>3. /\ ops \o Tail(todo["dispatcher"]) \in Seq(OpType)
      /\ Head(todo["dispatcher"]) = todo["dispatcher"][1]
      /\ Len(todo["dispatcher"]) \in Nat \ {0}
  BY <1>1, Rest
<1>4. /\ todo' \in [Threads -> Seq(OpType)]
      /\ todo'["dispatcher"] = ops \o Tail(todo["dispatcher"])
      /\ todo'["worker"] = todo["worker"]
  BY <1>1, <1>2, <1>3 DEF Threads
<1>5. todo["worker"] = <<>>
  <2>1. turn \in {None, "dispatcher"} /\ None # "worker"
    BY AsyncAssumption DEF Runs, Threads
  <2> QED BY <2>1 DEF AsyncInv, CtrlInv, WorkerOK
<1>6. WorkerOK'
  BY <1>4, <1>5 DEF WorkerOK
<1>7. /\ turn' = IF \/ todo'["dispatcher"] = <<>>
                    \/ todo'["dispatcher"] # <<>> /\ Blocked(Head(todo["dispatcher"]))'
                 THEN None ELSE "dispatcher"
  BY DEF Continue
<1>8. turn' \in Turns
  BY <1>7 DEF Turns, Threads
<1>9. Waits'
  <2> SUFFICES ASSUME turn' # "dispatcher", Todo' # <<>>
               PROVE  \/ Todo'[1].op \in {"settle", "transfer", "transferred"}
                      \/ Todo'[1].op = "bind" /\ ~mode'.aggregation
    BY DEF Waits
  <2>1. Blocked(Head(todo["dispatcher"]))'
    BY <1>7 DEF Todo
  <2>2. Head(todo'["dispatcher"]) = Todo'[1]
    BY <1>3, <1>4 DEF Todo
  <2> QED BY <1>1, <2>1, <2>2, BlockedWaitsNext
<1> QED BY <1>1, <1>3, <1>4, <1>6, <1>8, <1>9 DEF Todo, Arg

\* Nothing, one or two operations in the place of the first.
LEMMA Replaced ==
  ASSUME NEW s \in Seq(OpType), s # <<>>, Todo = s,
         NEW ops \in Seq(OpType), Todo' = ops \o Tail(s)
  PROVE  /\ ops = <<>> => Pops
         /\ Len(ops) = 1 => Puts(ops[1])
         /\ Len(ops) = 2 => PutsTwo(ops[1], ops[2])
<1> DEFINE r == ops \o Tail(s)
<1>1. /\ r \in Seq(OpType)
      /\ Len(r) = Len(ops) + Len(s) - 1
      /\ \A i \in 1 .. Len(ops) : r[i] = ops[i]
      /\ \A i \in Len(ops) + 1 .. Len(r) : r[i] = s[i - Len(ops) + 1]
      /\ Len(s) \in Nat \ {0} /\ Len(ops) \in Nat
  BY Rest
<1>2. Todo' = r
  OBVIOUS
<1> HIDE DEF r
<1> DEFINE n == Len(s)
           m == Len(ops)
<1>3. /\ n \in Nat \ {0} /\ m \in Nat /\ Len(r) = m + n - 1
      /\ \A i \in 1 .. m : r[i] = ops[i]
      /\ \A i \in m + 1 .. m + n - 1 : r[i] = s[i - m + 1]
  BY <1>1
<1>4. Len(Todo) = n /\ Len(Todo') = m + n - 1
  BY <1>2, <1>3
<1> HIDE DEF n, m
<1>5. ASSUME ops = <<>> PROVE Pops
  <2>1. m = 0
    BY <1>5 DEF m
  <2>2. \A i \in 1 .. n - 1 : i + 1 \in 2 .. n /\ Todo'[i] = Todo[i + 1]
    <3> TAKE i \in 1 .. n - 1
    <3>1. i \in m + 1 .. m + n - 1 /\ i - m + 1 = i + 1 /\ i + 1 \in 2 .. n
      BY <1>3, <2>1
    <3> QED BY <1>2, <1>3, <3>1
  <2>3. \A j \in 2 .. n : j - 1 \in 1 .. n - 1 /\ Todo'[j - 1] = Todo[j]
    <3> TAKE j \in 2 .. n
    <3>1. j - 1 \in 1 .. n - 1 /\ (j - 1) + 1 = j
      BY <1>3
    <3> QED BY <2>2, <3>1
  <2>4. Len(Todo) = n /\ Len(Todo') = n - 1
    BY <1>3, <1>4, <2>1
  <2> QED BY <1>3, <2>2, <2>3, <2>4 DEF Pops
<1>6. ASSUME Len(ops) = 1 PROVE Puts(ops[1])
  <2>1. m = 1
    BY <1>6 DEF m
  <2>2. Len(Todo') = n
    BY <1>3, <1>4, <2>1
  <2>3. \A i \in 2 .. n : Todo'[i] = Todo[i]
    <3> TAKE i \in 2 .. n
    <3>1. i \in m + 1 .. m + n - 1 /\ i - m + 1 = i
      BY <1>3, <2>1
    <3> QED BY <1>2, <1>3, <3>1
  <2>4. 1 \in 1 .. m /\ Todo'[1] = ops[1]
    BY <1>2, <1>3, <2>1
  <2> QED BY <1>3, <1>4, <2>2, <2>3, <2>4 DEF Puts
<1>7. ASSUME Len(ops) = 2 PROVE PutsTwo(ops[1], ops[2])
  <2>1. m = 2
    BY <1>7 DEF m
  <2>2. Len(Todo') = n + 1
    BY <1>3, <1>4, <2>1
  <2>3. \A j \in 2 .. n : j + 1 \in 3 .. n + 1 /\ Todo'[j + 1] = Todo[j]
    <3> TAKE j \in 2 .. n
    <3>1. j + 1 \in m + 1 .. m + n - 1 /\ (j + 1) - m + 1 = j /\ j + 1 \in 3 .. n + 1
      BY <1>3, <2>1
    <3> QED BY <1>2, <1>3, <3>1
  <2>4. \A i \in 3 .. n + 1 : i - 1 \in 2 .. n /\ Todo'[i] = Todo[i - 1]
    <3> TAKE i \in 3 .. n + 1
    <3>1. i - 1 \in 2 .. n /\ (i - 1) + 1 = i
      BY <1>3
    <3> QED BY <2>3, <3>1
  <2>5. 1 \in 1 .. m /\ 2 \in 1 .. m
    BY <2>1
  <2>6. Todo'[1] = ops[1] /\ Todo'[2] = ops[2]
    BY <1>2, <1>3, <2>5, SMTT(30)
  <2> QED BY <1>3, <1>4, <2>2, <2>3, <2>4, <2>6 DEF PutsTwo
<1> QED BY <1>5, <1>6, <1>7 DEF m

\* A call of the program begins: no thread was running.
LEMMA Starts1 ==
  ASSUME CreditsNeverRunOut, AsyncInv, NEW ops \in Seq(OpType), ops # <<>>,
         Start(ops), UNCHANGED mode
  PROVE  /\ UNCHANGED dataVars /\ UNCHANGED fault
         /\ Todo = <<>> /\ Todo' = ops
         /\ todo' \in [Threads -> Seq(OpType)]
         /\ turn' \in Turns
         /\ WorkerOK'
         /\ Waits'
         /\ NoneLoose /\ other = None
<1>1. /\ todo \in [Threads -> Seq(OpType)] /\ mode \in Modes
      /\ todo["dispatcher"] = <<>> /\ turn = None
  BY DEF AsyncInv, CtrlInv, DataInv, Types, Start, Idle
<1>2. todo' = [todo EXCEPT !["dispatcher"] = ops]
  BY DEF Start
<1>3. /\ todo' \in [Threads -> Seq(OpType)]
      /\ todo'["dispatcher"] = ops
      /\ todo'["worker"] = todo["worker"]
  BY <1>1, <1>2 DEF Threads
<1>4. todo["worker"] = <<>>
  <2>1. None # "worker"
    BY AsyncAssumption DEF Threads
  <2> QED BY <1>1, <2>1 DEF AsyncInv, CtrlInv, WorkerOK
<1>5. WorkerOK'
  BY <1>3, <1>4 DEF WorkerOK
<1>6. UNCHANGED dataVars /\ UNCHANGED fault
  BY DEF Start, dataVars, trackVars
<1>7. turn' = IF Blocked(Head(ops)) THEN None ELSE "dispatcher"
  BY DEF Start
<1>8. turn' \in Turns
  BY <1>7 DEF Turns, Threads
<1>9. Waits'
  <2> SUFFICES ASSUME turn' # "dispatcher", Todo' # <<>>
               PROVE  \/ Todo'[1].op \in {"settle", "transfer", "transferred"}
                      \/ Todo'[1].op = "bind" /\ ~mode'.aggregation
    BY DEF Waits
  <2>1. Blocked(Head(ops))
    BY <1>7
  <2>2. Head(ops) = Todo'[1]
    BY <1>3 DEF Todo
  <2>3. \/ Head(ops).op \in {"settle", "transfer", "transferred"}
        \/ Head(ops).op = "bind" /\ ~mode.aggregation
    BY <1>1, <2>1, BlockedWaits
  <2> QED BY <2>2, <2>3
<1>10. NoneLoose
  <2>1. LooseOK(<<>>)
    BY <1>1 DEF AsyncInv, CtrlInv, DispatcherOK, Todo
  <2>2. 1 .. Len(<<>>) = {}
    OBVIOUS
  <2> QED BY <2>1, <2>2 DEF LooseOK, NoneLoose
<1>11. other = None
  BY <1>1 DEF AsyncInv, CtrlInv, Parked, Todo
<1> QED BY <1>1, <1>3, <1>5, <1>6, <1>8, <1>9, <1>10, <1>11 DEF Todo

\* The parts of the invariant put together after a step.
LEMMA Assemble ==
  ASSUME DataInv', DispatcherOK', todo' \in [Threads -> Seq(OpType)], WorkerOK', Waits',
         fault' = "none",
         other' = None \/ (Todo' # <<>> /\ Todo'[1].op = "transferred")
  PROVE  AsyncInv'
BY DEF AsyncInv, CtrlInv, Parked, Waits, NoFault

\* A SEND or RECV is in progress only before its own last operation.
LEMMA NoOther ==
  ASSUME AsyncInv, Todo # <<>> => Todo[1].op # "transferred"
  PROVE  other = None
BY DEF AsyncInv, CtrlInv, Parked

\* An operation that stands alone.
LEMMA Alone ==
  ASSUME AsyncInv, Todo # <<>>, Todo \in Seq(OpType),
         Todo[1].op \in {"create", "start", "collect", "fenced", "transfer", "transferred"}
         \/ (Todo[1].op = "bind" /\ Todo[1].group = None)
  PROVE  /\ Len(Todo) = 1 /\ Tail(Todo) = <<>>
         /\ Todo[1].op \in {"collect", "create", "transfer", "transferred", "fenced"} => NoneLoose
<1>1. 1 \in 1 .. Len(Todo)
  OBVIOUS
<1>2. Len(Todo) = 1
  BY <1>1 DEF AsyncInv, CtrlInv, DispatcherOK, Shape
<1>3. Tail(Todo) = <<>>
  <2>1. Tail(Todo) \in Seq(OpType) /\ Len(Tail(Todo)) = Len(Todo) - 1
    BY HeadTailProperties
  <2>2. Tail(Todo) # <<>> => Len(Tail(Todo)) \in Nat \ {0}
    BY <2>1, EmptySeq
  <2>3. Len(Tail(Todo)) = 0
    BY <1>2, <2>1
  <2> QED BY <2>2, <2>3
<1>4. ASSUME Todo[1].op \in {"collect", "create", "transfer", "transferred", "fenced"}
      PROVE  NoneLoose
  <2>1. \A i \in 1 .. Len(Todo) : Todo[i].op \notin {"start", "bind"}
    BY <1>2, <1>4
  <2> QED BY <2>1, AllBound DEF AsyncInv, CtrlInv, DispatcherOK
<1> QED BY <1>2, <1>3, <1>4

\* FlushGroup() copies the group, or finds it gone.
LEMMA FlushStep ==
  ASSUME CreditsNeverRunOut, AsyncInv, UNCHANGED mode, FlushGroup("dispatcher")
  PROVE  AsyncInv'
<1> DEFINE g == Arg("dispatcher").group
           o == BindOp(groups[g].tokens, g, groups[g].key)
           ops == IF g \in DOMAIN groups THEN <<o>> ELSE <<>>
<1>1. Runs("dispatcher", "flush") /\ Continue("dispatcher", ops)
  BY DEF FlushGroup
<1>2. UNCHANGED dataVars /\ UNCHANGED fault
  BY DEF FlushGroup, dataVars, trackVars
<1>3. DataInv /\ DispatcherOK /\ NoFault /\ DOMAIN groups \subseteq GroupIds /\ UNCHANGED other
  BY <1>2 DEF AsyncInv, CtrlInv, DataInv, Types, dataVars
<1>4. g \in DOMAIN groups =>
        /\ o \in OpType /\ o.op = "bind" /\ o.tokens = groups[g].tokens
        /\ o.group = g /\ o.key = groups[g].key /\ g # None /\ BindOK(o)
  <2> HAVE g \in DOMAIN groups
  <2>1. groups[g] \in GroupType /\ g \in GroupIds /\ g # None
    BY <1>3, AsyncAssumption DEF DataInv, Types
  <2>2. groups[g].tokens \in Seq(Tokens) /\ groups[g].key \in Dirs \X Nat \X Nat
    BY <2>1 DEF GroupType
  <2>3. /\ o \in OpType /\ o.op = "bind" /\ o.tokens = groups[g].tokens
        /\ o.group = g /\ o.key = groups[g].key
    BY <2>1, <2>2, Operations
  <2> HIDE DEF g, o
  <2> QED BY <2>1, <2>3 DEF BindOK
<1> HIDE DEF o
<1>5. ops \in Seq(OpType)
  BY <1>4, Single
<1>6. /\ Todo \in Seq(OpType) /\ Todo # <<>> /\ Todo[1] = Arg("dispatcher")
      /\ Todo[1].op = "flush" /\ Todo' = ops \o Tail(Todo)
      /\ todo' \in [Threads -> Seq(OpType)] /\ turn' \in Turns /\ WorkerOK' /\ Waits'
  BY <1>1, <1>5, Continues1
<1>7. DispatcherOK'
  <2>1. CASE g \in DOMAIN groups
    <3>1. Len(ops) = 1 /\ ops[1] = o
      BY <2>1
    <3>2. Puts(o)
      BY <1>5, <1>6, <3>1, Replaced
    <3> QED BY <1>2, <1>3, <1>4, <1>6, <2>1, <3>2, FlushDispatcher
  <2>2. CASE g \notin DOMAIN groups
    <3>1. ops = <<>>
      BY <2>2
    <3>2. Pops
      BY <1>5, <1>6, <3>1, Replaced
    <3> QED BY <1>2, <1>3, <1>6, <2>2, <3>2, PopDispatcher
  <2> QED BY <2>1, <2>2
<1>8. DataInv'
  BY <1>2, <1>3, <1>6, DataKept
<1>9. other' = None /\ fault' = "none"
  BY <1>2, <1>3, <1>6, NoOther DEF NoFault
<1> QED BY <1>6, <1>7, <1>8, <1>9, Assemble

\* IssuePhysical() by the dispatcher.
LEMMA BindStep ==
  ASSUME CreditsNeverRunOut, AsyncInv, UNCHANGED mode, Bind("dispatcher")
  PROVE  AsyncInv'
<1>0. DataInv /\ DispatcherOK /\ NoFault
  BY DEF AsyncInv, CtrlInv
<1>1. Runs("dispatcher", "bind")
  BY DEF Bind
<1>2. Todo # <<>> /\ Todo[1] = Arg("dispatcher") /\ 1 \in 1 .. Len(Todo)
  <2>1. Todo \in Seq(OpType) /\ Todo # <<>> /\ Arg("dispatcher") = Head(Todo)
    BY <1>1 DEF AsyncInv, CtrlInv, Threads, Runs, Todo, Arg
  <2> QED BY <2>1
<1>3. BindOK(Arg("dispatcher"))
  BY <1>0, <1>2 DEF DispatcherOK
<1>4. /\ \E x : Binds(Todo[1].tokens, Todo[1].group, Todo[1].key, x)
      /\ Continue("dispatcher", <<>>)
      /\ UNCHANGED fault
  BY <1>0, <1>2, <1>3, BindEffect DEF Threads
<1>5. PICK x : Binds(Todo[1].tokens, Todo[1].group, Todo[1].key, x)
  BY <1>4
<1>6. /\ Todo \in Seq(OpType) /\ Todo # <<>>
      /\ Todo[1].op = "bind" /\ Todo' = <<>> \o Tail(Todo)
      /\ todo' \in [Threads -> Seq(OpType)] /\ turn' \in Turns /\ WorkerOK' /\ Waits'
  BY <1>1, <1>4, Continues1, EmptySeq
<1>7. Pops
  BY <1>6, Replaced, EmptySeq
<1>8. DataInv' /\ Bound(Todo[1].tokens, Todo[1].group, x)
  BY <1>0, <1>5, <1>6, BindData, BoundFacts
<1>9. DispatcherOK'
  BY <1>0, <1>6, <1>7, <1>8, BindDispatcher
<1>10. other' = None /\ fault' = "none"
  <2>1. other' = other
    BY <1>5 DEF Binds
  <2> QED BY <1>0, <1>4, <1>6, <2>1, NoOther DEF NoFault
<1> QED BY <1>6, <1>8, <1>9, <1>10, Assemble

\* WaitForCompletion() up to its wait.
LEMMA AwaitStep ==
  ASSUME CreditsNeverRunOut, AsyncInv, UNCHANGED mode, Await
  PROVE  AsyncInv'
<1> DEFINE t == Arg("dispatcher").token
           p == TokenOp("settle", t)
           o == GroupOp("flush", rec[t].group)
           ops == IF rec[t].staged THEN <<o, p>> ELSE <<p>>
<1>0. DataInv /\ DispatcherOK /\ NoFault
  BY DEF AsyncInv, CtrlInv
<1>1. Runs("dispatcher", "await") /\ Continue("dispatcher", ops)
  BY DEF Await
<1>2. UNCHANGED dataVars /\ UNCHANGED fault /\ UNCHANGED other
  BY DEF Await, dataVars, trackVars
<1>3. Todo \in Seq(OpType) /\ Todo # <<>> /\ Todo[1] = Arg("dispatcher") /\ 1 \in 1 .. Len(Todo)
      /\ Todo[1].op = "await"
  <2>1. /\ Todo \in Seq(OpType) /\ Todo # <<>> /\ Arg("dispatcher") = Head(Todo)
        /\ Head(Todo).op = "await"
    BY <1>1 DEF AsyncInv, CtrlInv, Threads, Runs, Todo, Arg
  <2> QED BY <2>1
<1>4. t \in DOMAIN rec /\ t = Todo[1].token
  BY <1>0, <1>3 DEF DispatcherOK, TokenOK
<1>5. t \in Tokens /\ rec[t].staged \in BOOLEAN
      /\ (rec[t].staged => rec[t].group \in GroupIds)
  BY <1>0, <1>4 DEF DataInv, Types, RecordType, StagedInv
<1>6. p \in OpType /\ p.op = "settle" /\ p.token = t
  BY <1>5, Operations DEF OpNames
<1>7. rec[t].staged => o \in OpType /\ o.op = "flush" /\ o.group = rec[t].group
  BY <1>5, Operations DEF OpNames
<1> HIDE DEF t, o, p
<1>8. ops \in Seq(OpType)
  BY <1>6, <1>7
<1>9. /\ Todo' = ops \o Tail(Todo)
      /\ todo' \in [Threads -> Seq(OpType)] /\ turn' \in Turns /\ WorkerOK' /\ Waits'
  BY <1>1, <1>8, Continues1
<1>10. DispatcherOK'
  <2>1. CASE rec[t].staged
    <3>1. Len(ops) = 2 /\ ops[1] = o /\ ops[2] = p
      BY <2>1
    <3>2. PutsTwo(o, p)
      BY <1>3, <1>8, <1>9, <3>1, Replaced
    <3> QED BY <1>0, <1>2, <1>3, <1>4, <1>6, <1>7, <2>1, <3>2, FlushSettleDispatcher
  <2>2. CASE ~rec[t].staged
    <3>1. Len(ops) = 1 /\ ops[1] = p
      BY <2>2
    <3>2. Puts(p)
      BY <1>3, <1>8, <1>9, <3>1, Replaced
    <3>3. rec[t].xfer # None
      <4> SUFFICES ASSUME rec[t].xfer = None PROVE FALSE
        OBVIOUS
      <4>1. PICK i \in 1 .. Len(Todo) :
              \/ Todo[i].op = "start" /\ Todo[i].token = t
              \/ Todo[i].op = "bind" /\ Todo[i].group = None /\ Todo[i].tokens = <<t>>
        BY <1>0, <1>4, <2>2 DEF DispatcherOK, LooseOK
      <4>2. i # 1
        BY <1>3, <4>1
      <4> QED BY <1>0, <1>3, <4>1, <4>2 DEF DispatcherOK, Shape
    <3> QED BY <1>0, <1>2, <1>3, <1>4, <1>6, <3>2, <3>3, SettleDispatcher
  <2> QED BY <2>1, <2>2
<1>11. DataInv'
  BY <1>0, <1>2, <1>9, DataKept
<1>12. other' = None /\ fault' = "none"
  BY <1>0, <1>2, <1>3, NoOther DEF NoFault
<1> QED BY <1>9, <1>10, <1>11, <1>12, Assemble

\* The end of WaitForCompletion(): the token has a transfer.
LEMMA SettleStep ==
  ASSUME CreditsNeverRunOut, AsyncInv, UNCHANGED mode, Settle
  PROVE  AsyncInv'
<1> DEFINE t == Arg("dispatcher").token
<1>0. DataInv /\ DispatcherOK /\ NoFault
  BY DEF AsyncInv, CtrlInv
<1>1. Runs("dispatcher", "settle")
  BY DEF Settle
<1>2. /\ Todo \in Seq(OpType) /\ Todo # <<>> /\ Todo[1] = Arg("dispatcher")
      /\ 1 \in 1 .. Len(Todo) /\ Todo[1].op = "settle" /\ ~Blocked(Todo[1])
  <2>1. /\ Todo \in Seq(OpType) /\ Todo # <<>> /\ Arg("dispatcher") = Head(Todo)
        /\ Head(Todo).op = "settle" /\ ~Blocked(Head(Todo))
    BY <1>1 DEF AsyncInv, CtrlInv, Threads, Runs, Todo, Arg
  <2> QED BY <2>1
<1>3. rec[t].xfer # None /\ t = Todo[1].token
  BY <1>0, <1>2 DEF DispatcherOK, TokenOK
<1>4. Complete(Todo[1].token)
  BY <1>2, <1>3 DEF Blocked
<1>5. Continue("dispatcher", <<>>) /\ UNCHANGED dataVars /\ UNCHANGED fault /\ UNCHANGED other
  BY <1>3 DEF Settle, dataVars, trackVars
<1>6. /\ Todo' = <<>> \o Tail(Todo)
      /\ todo' \in [Threads -> Seq(OpType)] /\ turn' \in Turns /\ WorkerOK' /\ Waits'
  BY <1>1, <1>5, Continues1, EmptySeq
<1>7. Pops
  BY <1>2, <1>6, Replaced, EmptySeq
<1>8. DispatcherOK'
  BY <1>0, <1>2, <1>4, <1>5, <1>7, PopDispatcher
<1>9. DataInv'
  BY <1>0, <1>5, <1>6, DataKept
<1>10. other' = None /\ fault' = "none"
  BY <1>0, <1>2, <1>5, NoOther DEF NoFault
<1> QED BY <1>6, <1>8, <1>9, <1>10, Assemble

\* An operation that ends a call is replaced by others.
LEMMA Sole ==
  ASSUME CreditsNeverRunOut, AsyncInv, UNCHANGED mode,
         NEW name \in {"create", "start", "collect", "fenced", "transfer", "transferred"},
         Runs("dispatcher", name),
         NEW ops \in Seq(OpType), Continue("dispatcher", ops)
  PROVE  /\ Len(Todo) = 1 /\ Todo[1] = Arg("dispatcher") /\ Todo[1].op = name
         /\ Todo # <<>> /\ Todo' = ops
         /\ todo' \in [Threads -> Seq(OpType)] /\ turn' \in Turns /\ WorkerOK' /\ Waits'
         /\ name # "start" => NoneLoose
<1>1. /\ Todo \in Seq(OpType) /\ Todo # <<>>
      /\ Todo[1] = Arg("dispatcher") /\ Todo[1].op = name
      /\ Todo' = ops \o Tail(Todo)
      /\ todo' \in [Threads -> Seq(OpType)] /\ turn' \in Turns /\ WorkerOK' /\ Waits'
  BY Continues1
<1>2. Len(Todo) = 1 /\ Tail(Todo) = <<>>
  BY <1>1, Alone
<1>3. name # "start" => NoneLoose
  BY <1>1, Alone
<1>4. Todo' = ops
  BY <1>1, <1>2, ConcatEmptySeq
<1> QED BY <1>1, <1>2, <1>3, <1>4

\* WaitAndRelease() after its wait.
LEMMA ReleaseStep ==
  ASSUME CreditsNeverRunOut, AsyncInv, UNCHANGED mode, ReleaseToken
  PROVE  AsyncInv'
<1> DEFINE t == Arg("dispatcher").token
           x == rec[t].xfer
<1>0. DataInv /\ DispatcherOK /\ NoFault
  BY DEF AsyncInv, CtrlInv
<1>1. Runs("dispatcher", "release")
  BY DEF ReleaseToken
<1>2. /\ Todo \in Seq(OpType) /\ Todo # <<>> /\ Todo[1] = Arg("dispatcher")
      /\ 1 \in 1 .. Len(Todo) /\ Todo[1].op = "release"
  <2>1. /\ Todo \in Seq(OpType) /\ Todo # <<>> /\ Arg("dispatcher") = Head(Todo)
        /\ Head(Todo).op = "release"
    BY <1>1 DEF AsyncInv, CtrlInv, Threads, Runs, Todo, Arg
  <2> QED BY <2>1
<1>3. t = Todo[1].token /\ t \in DOMAIN rec /\ x # None
  BY <1>0, <1>2 DEF DispatcherOK, TokenOK
<1>4. x \in DOMAIN batches /\ batches[x].remaining > 0 /\ batches[x].remaining \in Nat
  <2>1. x \in DOMAIN batches
    BY <1>0, <1>3 DEF DataInv, BatchInv
  <2>2. batches[x].remaining > 0 /\ batches[x] \in BatchType
    BY <1>0, <2>1 DEF DataInv, BatchInv, Types
  <2> QED BY <2>1, <2>2 DEF BatchType
<1>5. batches[x].remaining # 0
  BY <1>4
<1>6. /\ Erases(t)
      /\ \/ /\ LastToken(x)
            /\ PoolRelease(x)
            /\ batches' = Without(batches, x)
         \/ /\ ~LastToken(x)
            /\ batches' = [batches EXCEPT ![x].remaining = @ - 1]
            /\ UNCHANGED phase
      /\ UNCHANGED <<groups, byKey, alarm, changed, other, fault>>
      /\ Continue("dispatcher", <<>>)
  BY <1>4, <1>5 DEF ReleaseToken, Erases
<1>7. /\ Todo' = <<>> \o Tail(Todo)
      /\ todo' \in [Threads -> Seq(OpType)] /\ turn' \in Turns /\ WorkerOK' /\ Waits'
  BY <1>1, <1>6, Continues1, EmptySeq
<1>8. Pops
  BY <1>2, <1>7, Replaced, EmptySeq
<1> HIDE DEF t, x
<1>9. DataInv' /\ \A u \in DOMAIN rec' : Complete(u)' = Complete(u)
  <2>1. CASE LastToken(x)
    <3>1. batches[x].remaining = 1 /\ phase' = [phase EXCEPT ![x] = "FREE"]
          /\ batches' = Without(batches, x)
      BY <1>6, <2>1 DEF LastToken, PoolRelease
    <3>2. UNCHANGED <<mode, groups, byKey, other>> /\ rec[t].xfer = x
      BY <1>6 DEF x
    <3> QED BY <1>0, <1>3, <1>4, <1>6, <1>7, <3>1, <3>2, EraseLast
  <2>2. CASE ~LastToken(x)
    <3>1. /\ batches[x].remaining # 1
          /\ batches' = [batches EXCEPT ![x].remaining = @ - 1]
      BY <1>6, <2>2 DEF LastToken
    <3>2. UNCHANGED <<mode, phase, groups, byKey, other>> /\ rec[t].xfer = x
      BY <1>6, <2>2 DEF x
    <3> QED BY <1>0, <1>3, <1>4, <1>6, <1>7, <3>1, <3>2, EraseShared
  <2> QED BY <2>1, <2>2
<1>10. DOMAIN rec' = DOMAIN rec \ {t} /\ \A u \in DOMAIN rec' : rec'[u] = rec[u]
  BY <1>6 DEF Erases, Without, Restrict
<1>11. DispatcherOK'
  <2>1. UNCHANGED <<mode, groups, byKey>>
    BY <1>6
  <2> QED BY <1>0, <1>2, <1>3, <1>8, <1>9, <1>10, <2>1, ReleaseDispatcher
<1>12. other' = None /\ fault' = "none"
  BY <1>0, <1>2, <1>6, NoOther DEF NoFault
<1> QED BY <1>7, <1>9, <1>11, <1>12, Assemble

\* Fence() reads the outstanding tokens.
LEMMA CollectStep ==
  ASSUME CreditsNeverRunOut, AsyncInv, UNCHANGED mode, Collect
  PROVE  AsyncInv'
<1> DEFINE n == Len(order)
           a == [i \in 1 .. 2 * n |->
                   TokenOp(IF i % 2 = 1 THEN "await" ELSE "release", order[(i + 1) \div 2])]
           b == <<Op("fenced")>>
<1>0. /\ DataInv /\ DispatcherOK /\ NoFault
      /\ order \in Seq(Tokens) /\ IsInjective(order) /\ ToSet(order) = DOMAIN rec
      /\ n \in Nat /\ 2 * n \in Nat
  BY DEF AsyncInv, CtrlInv, DataInv, Types, OrderInv
<1>1. Runs("dispatcher", "collect") /\ Continue("dispatcher", a \o b)
  BY DEF Collect, FenceTokens
<1>2. UNCHANGED dataVars /\ UNCHANGED fault /\ UNCHANGED other /\ UNCHANGED rec
  BY DEF Collect, dataVars, trackVars
<1>3. ASSUME NEW i \in 1 .. 2 * n
      PROVE  /\ a[i] \in OpType
             /\ a[i].op = IF i % 2 = 1 THEN "await" ELSE "release"
             /\ a[i].token = order[(i + 1) \div 2]
  <2> DEFINE k == (i + 1) \div 2
             name == IF i % 2 = 1 THEN "await" ELSE "release"
  <2>1. k \in 1 .. n
    BY <1>0, Halves
  <2>2. order[k] \in Tokens /\ name \in OpNames
    BY <1>0, <2>1 DEF OpNames
  <2>3. a[i] = TokenOp(name, order[k])
    OBVIOUS
  <2> HIDE DEF k, name, a
  <2>4. a[i] \in OpType /\ a[i].op = name /\ a[i].token = order[k]
    BY <2>2, <2>3, Operations
  <2> QED BY <2>4 DEF k, name
<1>4. a \in Seq(OpType) /\ Len(a) = 2 * n
  <2>1. a \in [1 .. 2 * n -> OpType]
    <3> HIDE DEF n
    <3>1. \A i \in 1 .. 2 * n : a[i] \in OpType
      BY <1>3
    <3> QED BY <3>1
  <2> HIDE DEF a, n
  <2> QED BY <1>0, <2>1
<1>5. b \in Seq(OpType) /\ Len(b) = 1 /\ b[1].op = "fenced" /\ b[1].token = None
  <2>1. Op("fenced") \in OpType /\ Op("fenced").op = "fenced"
    BY Operations DEF OpNames
  <2>2. Op("fenced").token = None
    BY DEF Op, NoOp
  <2> QED BY <2>1, <2>2
<1> HIDE DEF a, b, n
<1>6. /\ a \o b \in Seq(OpType) /\ Len(a \o b) = 2 * n + 1
      /\ \A i \in 1 .. 2 * n : (a \o b)[i] = a[i]
      /\ (a \o b)[2 * n + 1] = b[1]
  <2>1. Op("fenced") \in OpType /\ b = <<Op("fenced")>>
    BY Operations DEF OpNames, b
  <2> QED BY <1>4, <2>1, Ended
<1>7. /\ Todo # <<>> /\ Todo[1].op = "collect" /\ Todo' = a \o b /\ NoneLoose
      /\ todo' \in [Threads -> Seq(OpType)] /\ turn' \in Turns /\ WorkerOK' /\ Waits'
  BY <1>1, <1>6, Sole
<1>8. DispatcherOK'
  <2>1. NoneLoose' /\ DOMAIN rec' = DOMAIN rec
    BY <1>2, <1>7 DEF NoneLoose
  <2>2. Len(Todo') = 2 * Len(order) + 1
    BY <1>6, <1>7 DEF n
  <2>3. \A i \in 1 .. 2 * Len(order) :
           /\ Todo'[i].op = IF i % 2 = 1 THEN "await" ELSE "release"
           /\ Todo'[i].token = order[(i + 1) \div 2]
    BY <1>3, <1>6, <1>7 DEF n
  <2>4. Todo'[2 * Len(order) + 1].op = "fenced" /\ Todo'[2 * Len(order) + 1].token = None
    BY <1>5, <1>6, <1>7 DEF n
  <2> QED BY <1>0, <2>1, <2>2, <2>3, <2>4, CollectDispatcher
<1>9. DataInv'
  BY <1>0, <1>2, <1>7, DataKept
<1>10. other' = None /\ fault' = "none"
  BY <1>0, <1>2, <1>7, NoOther DEF NoFault
<1> QED BY <1>7, <1>8, <1>9, <1>10, Assemble

\* The end of Fence().
LEMMA FenceEndStep ==
  ASSUME CreditsNeverRunOut, AsyncInv, UNCHANGED mode, FenceEnd
  PROVE  AsyncInv'
<1>0. DataInv /\ NoFault
  BY DEF AsyncInv
<1>1. /\ Runs("dispatcher", "fenced") /\ Continue("dispatcher", <<>>)
      /\ UNCHANGED dataVars /\ UNCHANGED fault /\ UNCHANGED other /\ UNCHANGED rec
  BY DEF FenceEnd, dataVars, trackVars
<1>2. /\ Todo # <<>> /\ Todo[1].op = "fenced" /\ Todo' = <<>> /\ NoneLoose
      /\ todo' \in [Threads -> Seq(OpType)] /\ turn' \in Turns /\ WorkerOK' /\ Waits'
  BY <1>1, Sole, EmptySeq
<1>3. DispatcherOK'
  <2>1. NoneLoose' /\ 1 .. Len(Todo') = {}
    BY <1>1, <1>2 DEF NoneLoose
  <2> QED BY <2>1, PlainDispatcher
<1>4. DataInv'
  BY <1>0, <1>1, <1>2, DataKept
<1>5. other' = None /\ fault' = "none"
  BY <1>0, <1>1, <1>2, NoOther DEF NoFault
<1> QED BY <1>2, <1>3, <1>4, <1>5, Assemble

\* A SEND or RECV issues its transfer.
LEMMA TransferStep ==
  ASSUME CreditsNeverRunOut, AsyncInv, UNCHANGED mode, Transfer
  PROVE  AsyncInv'
<1> DEFINE x == CHOOSE y \in Xfers : phase[y] = "FREE"
           o == Op("transferred")
<1>0. DataInv /\ NoFault /\ Types /\ BatchInv
  BY DEF AsyncInv, DataInv
<1>1. /\ Runs("dispatcher", "transfer") /\ Continue("dispatcher", <<o>>)
      /\ phase' = [phase EXCEPT ![x] = "PENDING"] /\ other' = x
      /\ UNCHANGED <<mode, rec, order, groups, byKey, batches>> /\ UNCHANGED fault
  BY DEF Transfer, PoolIssueUpTo, trackVars
<1>2. o \in OpType /\ o.op = "transferred"
  BY Operations DEF OpNames
<1> HIDE DEF o
<1>3. <<o>> \in Seq(OpType) /\ Len(<<o>>) = 1 /\ <<o>>[1] = o /\ <<o>> # <<>>
  BY <1>2
<1>4. /\ Todo # <<>> /\ Todo[1].op = "transfer" /\ Todo' = <<o>> /\ NoneLoose
      /\ todo' \in [Threads -> Seq(OpType)] /\ turn' \in Turns /\ WorkerOK' /\ Waits'
  BY <1>1, <1>3, Sole
<1>5. other = None
  BY <1>4, NoOther
<1>6. x \in Xfers /\ phase[x] = "FREE" /\ x \notin DOMAIN batches
  BY <1>0, <1>5, FreeContext
<1> HIDE DEF x
<1>7. DataInv'
  <2>1. phase \in [Xfers -> Phases] /\ phase' \in [Xfers -> Phases]
    BY <1>0, <1>1 DEF Types, PoolTypeOK, Phases
  <2>2. \A y \in DOMAIN batches : phase'[y] = phase[y]
    BY <1>0, <1>1, <1>6, <2>1 DEF Types
  <2>3. \A y \in Xfers \ DOMAIN batches : phase'[y] # "FREE" <=> y = other'
    BY <1>0, <1>1, <1>5, <1>6, <2>1, AsyncAssumption DEF BatchInv
  <2> QED BY <1>0, <1>1, <1>4, <1>6, <2>1, <2>2, <2>3, OtherData
<1>8. DispatcherOK'
  <2>1. NoneLoose'
    BY <1>1, <1>4 DEF NoneLoose
  <2>2. Len(Todo') = 1 /\ Todo'[1].op = "transferred"
    BY <1>2, <1>3, <1>4
  <2>3. \A i \in 1 .. Len(Todo') : i = 1 /\ i = Len(Todo')
    BY <2>2
  <2> QED BY <2>1, <2>2, <2>3, PlainDispatcher
<1>9. fault' = "none" /\ Todo' # <<>> /\ Todo'[1].op = "transferred"
  BY <1>0, <1>1, <1>2, <1>3, <1>4 DEF NoFault
<1> QED BY <1>4, <1>7, <1>8, <1>9, Assemble

\* A SEND or RECV is over.
LEMMA TransferDoneStep ==
  ASSUME CreditsNeverRunOut, AsyncInv, UNCHANGED mode, TransferDone
  PROVE  AsyncInv'
<1>0. DataInv /\ NoFault /\ Types /\ BatchInv
  BY DEF AsyncInv, DataInv
<1>1. /\ Runs("dispatcher", "transferred") /\ Continue("dispatcher", <<>>)
      /\ phase' = [phase EXCEPT ![other] = "FREE"] /\ other' = None
      /\ UNCHANGED <<mode, rec, order, groups, byKey, batches>> /\ UNCHANGED fault
  BY DEF TransferDone, PoolRelease, trackVars
<1>2. /\ Todo # <<>> /\ Todo[1].op = "transferred" /\ Todo' = <<>> /\ NoneLoose
      /\ todo' \in [Threads -> Seq(OpType)] /\ turn' \in Turns /\ WorkerOK' /\ Waits'
  BY <1>1, Sole, EmptySeq
<1>3. DataInv'
  <2>1. phase \in [Xfers -> Phases] /\ phase' \in [Xfers -> Phases]
    BY <1>0, <1>1 DEF Types, PoolTypeOK, Phases
  <2>2. \A y \in DOMAIN batches : y # other /\ y \in Xfers
    BY <1>0 DEF BatchInv, Types
  <2>3. \A y \in DOMAIN batches : phase'[y] = phase[y]
    BY <1>1, <2>1, <2>2
  <2>4. \A y \in Xfers \ DOMAIN batches : phase'[y] = "FREE" /\ y # None
    BY <1>0, <1>1, <2>1, AsyncAssumption DEF BatchInv
  <2>5. None \notin DOMAIN batches
    BY <1>0, AsyncAssumption DEF Types
  <2> QED BY <1>0, <1>1, <1>2, <2>1, <2>3, <2>4, <2>5, OtherData
<1>4. DispatcherOK'
  <2>1. NoneLoose' /\ 1 .. Len(Todo') = {}
    BY <1>1, <1>2 DEF NoneLoose
  <2> QED BY <2>1, PlainDispatcher
<1>5. fault' = "none"
  BY <1>0, <1>1 DEF NoFault
<1> QED BY <1>1, <1>2, <1>3, <1>4, <1>5, Assemble

\* IssueToken() after its waits: the token conflicts with no incomplete one.
LEMMA CreateFacts ==
  ASSUME AsyncInv, Todo # <<>>, Len(Todo) = 1, Todo[1].op = "create"
  PROVE  LET t == Todo[1].token  d == Todo[1].desc IN
         /\ t \in Tokens /\ t \notin DOMAIN rec
         /\ d \in mode.descs /\ d \in DescType
         /\ DOMAIN groups # GroupIds
         /\ \A u \in DOMAIN rec : ~Complete(u) => ~HasHazard(rec[u].desc, d)
<1> DEFINE t == Todo[1].token
           d == Todo[1].desc
<1>1. 1 \in 1 .. Len(Todo) /\ \A i \in 1 .. Len(Todo) : i = 1
  OBVIOUS
<1>2. /\ t \in Tokens \ DOMAIN rec /\ d \in mode.descs /\ DOMAIN groups # GroupIds
      /\ \A u \in DOMAIN rec : ~Complete(u) /\ HasHazard(rec[u].desc, d) =>
           \E j \in 1 .. Len(Todo) : Todo[j].op \in {"await", "settle"} /\ Todo[j].token = u
  BY <1>1 DEF AsyncInv, CtrlInv, DispatcherOK, CreateOK
<1>3. d \in DescType
  BY <1>2, ModeFacts DEF AsyncInv, DataInv
<1>4. ASSUME NEW u \in DOMAIN rec, ~Complete(u)
      PROVE  ~HasHazard(rec[u].desc, d)
  BY <1>1, <1>2, <1>4
<1> QED BY <1>2, <1>3, <1>4

\* IssueToken() puts the record into records_.
LEMMA CreateStep ==
  ASSUME CreditsNeverRunOut, AsyncInv, UNCHANGED mode, CreateRecord
  PROVE  AsyncInv'
<1> DEFINE t == Arg("dispatcher").token
           d == Arg("dispatcher").desc
           new == [desc |-> d, xfer |-> None, staged |-> FALSE, group |-> None]
           single == ~mode.aggregation \/ d.size > MaxBytes
           g == byKey[GroupKey(d)]
           grown == [groups[g] EXCEPT !.tokens = Append(@, t),
                                      !.bytes = @ + d.size,
                                      !.nextSpm = d.spm + d.size,
                                      !.nextRem = d.rem + d.size]
           new2 == [new EXCEPT !.group = g, !.staged = TRUE]
<1>0. DataInv /\ NoFault /\ Types
  BY DEF AsyncInv, DataInv
<1>1. /\ Runs("dispatcher", "create")
      /\ order' = Append(order, t)
      /\ UNCHANGED <<phase, byKey, batches, alarm, changed, other, fault>>
  BY DEF CreateRecord
<1>2. /\ Todo # <<>> /\ Todo[1] = Arg("dispatcher") /\ Todo[1].op = "create"
      /\ Len(Todo) = 1
  <2>1. /\ Todo \in Seq(OpType) /\ Todo # <<>> /\ Arg("dispatcher") = Head(Todo)
        /\ Head(Todo).op = "create"
    BY <1>1 DEF AsyncInv, CtrlInv, Threads, Runs, Todo, Arg
  <2>2. Todo[1] = Head(Todo)
    BY <2>1
  <2> QED BY <2>1, <2>2, Alone
<1>3. /\ t \in Tokens /\ t \notin DOMAIN rec
      /\ d \in mode.descs /\ d \in DescType
      /\ DOMAIN groups # GroupIds
      /\ \A u \in DOMAIN rec : ~Complete(u) => ~HasHazard(rec[u].desc, d)
  BY <1>2, CreateFacts
<1>4. /\ new \in RecordType /\ new.desc = d /\ new.xfer = None /\ new.staged = FALSE
  BY <1>3 DEF RecordType
<1>5. other = None /\ other' = None /\ fault' = "none"
  BY <1>0, <1>1, <1>2, NoOther DEF NoFault
<1>6. UNCHANGED <<mode, phase, batches, other>>
  BY <1>1
<1>7. <<t>> \in Seq(Tokens)
  BY <1>3, Single
<1> USE <1>3 DEF NoFault
<1> HIDE DEF t, d
<1>8. CASE single
  <2> DEFINE o == BindOp(<<t>>, None, None)
  <2>1. rec' = With(rec, t, new) /\ UNCHANGED groups /\ Continue("dispatcher", <<o>>)
    BY <1>8 DEF CreateRecord, t, d
  <2>2. o \in OpType /\ o.op = "bind" /\ o.tokens = <<t>> /\ o.group = None
    <3>1. None \in GroupIds \union {None} /\ None \in (Dirs \X Nat \X Nat) \union {None}
      OBVIOUS
    <3> DEFINE toks == <<t>>
    <3>2. toks \in Seq(Tokens)
      BY <1>7
    <3> HIDE DEF toks
    <3>3. LET b == BindOp(toks, None, None) IN
          b \in OpType /\ b.op = "bind" /\ b.tokens = toks /\ b.group = None
      BY <3>1, <3>2, Operations
    <3> QED BY <3>3 DEF toks
  <2> HIDE DEF o
  <2>3. <<o>> \in Seq(OpType) /\ Len(<<o>>) = 1 /\ <<o>>[1] = o
    BY <2>2
  <2>4. /\ Todo' = <<o>> /\ NoneLoose
        /\ todo' \in [Threads -> Seq(OpType)] /\ turn' \in Turns /\ WorkerOK' /\ Waits'
    BY <1>1, <2>1, <2>3, Sole
  <2> HIDE DEF new
  <2>5. /\ DOMAIN rec' = DOMAIN rec \union {t} /\ rec'[t] = new
        /\ \A u \in DOMAIN rec : rec'[u] = rec[u]
    BY <1>0, <1>1, <1>4, <1>6, <2>1, NewRecord
  <2>6. DataInv'
    BY <1>0, <1>1, <1>4, <1>6, <2>1, <2>4, CreateLoose
  <2>7. DispatcherOK'
    <3>1. Len(Todo') = 1 /\ Todo'[1] = o
      BY <2>3, <2>4
    <3> QED BY <1>4, <2>2, <2>4, <2>5, <3>1, CreateBindDispatcher
  <2> QED BY <1>5, <2>4, <2>6, <2>7, Assemble
<1>9. ASSUME ~single PROVE mode.aggregation /\ d.size <= MaxBytes
  <2>1. mode.aggregation /\ ~(d.size > MaxBytes)
    BY <1>9, <1>0, AsyncAssumption DEF Types, ModeType
  <2>2. d.size \in Nat /\ MaxBytes \in Nat
    BY <1>0, <2>1, ModeFacts DEF DescType
  <2> QED BY <2>1, <2>2
<1> HIDE DEF single
<1>10. CASE ~single /\ GroupKey(d) \notin DOMAIN byKey
  <2> DEFINE o == TokenOp("start", t)
  <2>1. rec' = With(rec, t, new) /\ UNCHANGED groups /\ Continue("dispatcher", <<o>>)
    BY <1>10 DEF CreateRecord, t, d, single
  <2>2. o \in OpType /\ o.op = "start" /\ o.token = t /\ o.group = None
    BY Operations DEF OpNames
  <2> HIDE DEF o
  <2>3. <<o>> \in Seq(OpType) /\ Len(<<o>>) = 1 /\ <<o>>[1] = o
    BY <2>2
  <2>4. /\ Todo' = <<o>> /\ NoneLoose
        /\ todo' \in [Threads -> Seq(OpType)] /\ turn' \in Turns /\ WorkerOK' /\ Waits'
    BY <1>1, <2>1, <2>3, Sole
  <2> HIDE DEF new
  <2>5. /\ DOMAIN rec' = DOMAIN rec \union {t} /\ rec'[t] = new
        /\ \A u \in DOMAIN rec : rec'[u] = rec[u]
    BY <1>0, <1>1, <1>4, <1>6, <2>1, NewRecord
  <2>6. DataInv'
    BY <1>0, <1>1, <1>4, <1>6, <2>1, <2>4, CreateLoose
  <2>7. DispatcherOK'
    <3>1. Len(Todo') = 1 /\ Todo'[1] = o
      BY <2>3, <2>4
    <3>2. /\ rec'[t].xfer = None /\ ~rec'[t].staged /\ rec'[t].desc.size <= MaxBytes
          /\ mode'.aggregation /\ DOMAIN groups' # GroupIds
          /\ GroupKey(rec'[t].desc) \notin DOMAIN byKey'
      BY <1>1, <1>4, <1>9, <1>10, <2>1, <2>5
    <3> QED BY <2>2, <2>4, <2>5, <3>1, <3>2, CreateStartDispatcher
  <2> QED BY <1>5, <2>4, <2>6, <2>7, Assemble
<1>11. ASSUME GroupKey(d) \in DOMAIN byKey
       PROVE  g \in DOMAIN groups /\ g \in GroupIds /\ g # None
  BY <1>0, <1>11, AsyncAssumption DEF DataInv, KeyInv, Types
<1>12. CASE ~single /\ GroupKey(d) \in DOMAIN byKey /\ ~CanAppend(groups[g], d)
  <2> DEFINE o == GroupOp("flush", g)
             p == TokenOp("start", t)
  <2>1. rec' = With(rec, t, new) /\ UNCHANGED groups /\ Continue("dispatcher", <<o, p>>)
    BY <1>12 DEF CreateRecord, t, d, single
  <2>2. p \in OpType /\ p.op = "start" /\ p.token = t /\ p.group = None
    BY Operations DEF OpNames
  <2>3. o \in OpType /\ o.op = "flush" /\ o.group = g
    BY <1>11, <1>12, Operations DEF OpNames
  <2> HIDE DEF o, p
  <2>4. <<o, p>> \in Seq(OpType) /\ Len(<<o, p>>) = 2 /\ <<o, p>>[1] = o /\ <<o, p>>[2] = p
    BY <2>2, <2>3
  <2>5. /\ Todo' = <<o, p>> /\ NoneLoose
        /\ todo' \in [Threads -> Seq(OpType)] /\ turn' \in Turns /\ WorkerOK' /\ Waits'
    BY <1>1, <2>1, <2>4, Sole
  <2> HIDE DEF new
  <2>6. /\ DOMAIN rec' = DOMAIN rec \union {t} /\ rec'[t] = new
        /\ \A u \in DOMAIN rec : rec'[u] = rec[u]
    BY <1>0, <1>1, <1>4, <1>6, <2>1, NewRecord
  <2>7. DataInv'
    BY <1>0, <1>1, <1>4, <1>6, <2>1, <2>5, CreateLoose
  <2>8. DispatcherOK'
    <3>1. Len(Todo') = 2 /\ Todo'[1] = o /\ Todo'[2] = p
      BY <2>4, <2>5
    <3>2. /\ rec'[t].xfer = None /\ ~rec'[t].staged /\ rec'[t].desc.size <= MaxBytes
          /\ mode'.aggregation /\ DOMAIN groups' # GroupIds
          /\ byKey'[GroupKey(rec'[t].desc)] = o.group
      BY <1>1, <1>4, <1>9, <1>12, <2>1, <2>3, <2>6
    <3> QED BY <2>2, <2>3, <2>5, <2>6, <3>1, <3>2, CreateStartDispatcher
  <2> QED BY <1>5, <2>5, <2>7, <2>8, Assemble
<1>13. CASE ~single /\ GroupKey(d) \in DOMAIN byKey /\ CanAppend(groups[g], d)
  <2> DEFINE o == GroupOp("flush", g)
             ops == IF Full(grown) THEN <<o>> ELSE <<>>
  <2>1. /\ rec' = With(rec, t, new2) /\ groups' = [groups EXCEPT ![g] = grown]
        /\ Continue("dispatcher", ops)
    BY <1>13 DEF CreateRecord, t, d, single
  <2>2. new2 \in RecordType /\ new2.desc = d /\ new2.xfer = None /\ new2.staged /\ new2.group = g
    BY <1>11, <1>13, <1>4 DEF RecordType
  <2>3. o \in OpType /\ o.op = "flush" /\ o.group = g
    BY <1>11, <1>13, Operations DEF OpNames
  <2> HIDE DEF o
  <2>4. /\ ops \in Seq(OpType) /\ Len(ops) \in {0, 1}
        /\ \A i \in 1 .. Len(ops) : ops[i] = o
    BY <2>3
  <2> HIDE DEF ops
  <2>5. /\ Todo' = ops /\ NoneLoose
        /\ todo' \in [Threads -> Seq(OpType)] /\ turn' \in Turns /\ WorkerOK' /\ Waits'
    BY <1>1, <2>1, <2>4, Sole
  <2>6. groups' = [groups EXCEPT ![g] =
                      [groups[g] EXCEPT !.tokens = Append(@, t),
                                        !.bytes = @ + new2.desc.size,
                                        !.nextSpm = new2.desc.spm + new2.desc.size,
                                        !.nextRem = new2.desc.rem + new2.desc.size]]
    BY <2>1, <2>2, Zenon
  <2> HIDE DEF new2, grown, new
  <2>7. /\ DOMAIN rec' = DOMAIN rec \union {t} /\ rec'[t] = new2
        /\ \A u \in DOMAIN rec : rec'[u] = rec[u]
    BY <1>0, <1>1, <1>6, <2>1, <2>2, NewRecord
  <2> HIDE DEF g
  <2>8. UNCHANGED byKey /\ CanAppend(groups[g], new2.desc) /\ g \in DOMAIN groups
    BY <1>1, <1>11, <1>13, <2>2
  <2>9. DataInv'
    BY <1>0, <1>1, <1>6, <2>1, <2>2, <2>5, <2>6, <2>8, CreateAppend
  <2>10. DispatcherOK'
    <3>1. NoneLoose'
      BY <2>2, <2>5, <2>7 DEF NoneLoose
    <3> QED BY <2>3, <2>4, <2>5, <3>1, PlainDispatcher
  <2> QED BY <1>5, <2>5, <2>9, <2>10, Assemble
<1> QED BY <1>8, <1>10, <1>12, <1>13

\* Ids are never used twice: only open groups are referred to.
LEMMA GroupIdFree ==
  ASSUME AsyncInv, Todo # <<>>, Len(Todo) = 1, Todo[1].op = "start",
         todo["worker"] = <<>>
  PROVE  LET g == CHOOSE i \in GroupIds \ UsedGroups :
                    \A j \in GroupIds \ UsedGroups : i <= j
         IN g \in GroupIds /\ g \notin DOMAIN groups
<1> DEFINE S == GroupIds \ UsedGroups
<1>1. /\ 1 \in 1 .. Len(Todo) /\ \A i \in 1 .. Len(Todo) : i = 1
      /\ 1 .. Len(<<>>) = {}
  OBVIOUS
<1>2. Todo[1].group = None /\ DOMAIN groups # GroupIds /\ DOMAIN groups \subseteq GroupIds
  BY <1>1 DEF AsyncInv, CtrlInv, DispatcherOK, StartOK, DataInv, Types
<1>3. UsedGroups = DOMAIN groups
  <2>1. \A i \in 1 .. Len(todo["dispatcher"]) : todo["dispatcher"][i].group = None
    BY <1>1, <1>2 DEF Todo
  <2>2. 1 .. Len(todo["worker"]) = {}
    BY <1>1
  <2>3. \A g \in GroupIds : g # None
    BY AsyncAssumption
  <2> QED BY <2>1, <2>2, <2>3 DEF UsedGroups, Threads
<1>4. S # {} /\ S \subseteq Nat
  BY <1>2, <1>3, AsyncAssumption
<1>5. \E i \in S : \A j \in S : i <= j
  BY <1>4, LeastNatural
<1> HIDE DEF S
<1>6. (CHOOSE i \in S : \A j \in S : i <= j) \in S
  BY <1>5
<1> QED BY <1>3, <1>6 DEF S

\* StartAggregationGroup() and the flush of a group that is full at once.
LEMMA StartGroupStep ==
  ASSUME CreditsNeverRunOut, AsyncInv, UNCHANGED mode, StartGroup
  PROVE  AsyncInv'
<1> DEFINE t == Arg("dispatcher").token
           d == rec[t].desc
           g == CHOOSE i \in GroupIds \ UsedGroups :
                  \A j \in GroupIds \ UsedGroups : i <= j
           new == [key |-> GroupKey(d), tokens |-> <<t>>, bytes |-> d.size,
                   nextSpm |-> d.spm + d.size, nextRem |-> d.rem + d.size,
                   left |-> TimeoutCycles]
           o == GroupOp("flush", g)
           ops == IF Full(new) THEN <<o>> ELSE <<>>
<1>0. DataInv /\ NoFault /\ DispatcherOK /\ Types
  BY DEF AsyncInv, CtrlInv, DataInv
<1>1. /\ Runs("dispatcher", "start") /\ Continue("dispatcher", ops)
      /\ groups' = With(groups, g, new)
      /\ byKey' = With(byKey, GroupKey(d), g)
      /\ rec' = [rec EXCEPT ![t].group = g, ![t].staged = TRUE]
      /\ UNCHANGED <<phase, order, batches, alarm, other, fault>>
  BY DEF StartGroup
<1>2. /\ Todo \in Seq(OpType) /\ Todo # <<>> /\ Todo[1] = Arg("dispatcher")
      /\ Todo[1].op = "start"
  <2>1. /\ Todo \in Seq(OpType) /\ Todo # <<>> /\ Arg("dispatcher") = Head(Todo)
        /\ Head(Todo).op = "start"
    BY <1>1 DEF AsyncInv, CtrlInv, Threads, Runs, Todo, Arg
  <2> QED BY <2>1
<1>3. Len(Todo) = 1 /\ 1 \in 1 .. Len(Todo) /\ \A i \in 1 .. Len(Todo) : i = 1
  <2>1. Len(Todo) = 1
    BY <1>2, Alone
  <2> QED BY <2>1
<1>4. t \in DOMAIN rec /\ t = Todo[1].token
  BY <1>0, <1>2, <1>3 DEF DispatcherOK, TokenOK
<1>5. /\ mode.aggregation /\ rec[t].xfer = None /\ ~rec[t].staged
      /\ rec[t].desc.size <= MaxBytes /\ GroupKey(d) \notin DOMAIN byKey
  BY <1>0, <1>2, <1>3 DEF DispatcherOK, StartOK
<1>6. todo["worker"] = <<>>
  <2>1. turn \in {None, "dispatcher"} /\ None # "worker"
    BY <1>1, AsyncAssumption DEF Runs, Threads
  <2> QED BY <2>1 DEF AsyncInv, CtrlInv, WorkerOK
<1>7. g \in GroupIds /\ g \notin DOMAIN groups
  BY <1>2, <1>3, <1>6, GroupIdFree
<1>8. GroupKey(d) \in Dirs \X Nat \X Nat
  <2>1. d \in DescType /\ mode \in Modes
    BY <1>0, <1>4 DEF Types, RecordType
  <2> QED BY <1>5, <2>1, KeyType
<1>9. o \in OpType /\ o.op = "flush"
  BY <1>7, Operations DEF OpNames
<1> HIDE DEF o, g
<1>10. /\ ops \in Seq(OpType) /\ Len(ops) \in {0, 1}
       /\ \A i \in 1 .. Len(ops) : ops[i] = o
  BY <1>9
<1> HIDE DEF ops
<1>11. /\ Todo' = ops
       /\ todo' \in [Threads -> Seq(OpType)] /\ turn' \in Turns /\ WorkerOK' /\ Waits'
  BY <1>1, <1>10, Sole
<1> HIDE DEF t
<1>12. DataInv'
  BY <1>0, <1>1, <1>4, <1>5, <1>7, <1>8, <1>11, StartData
<1>13. DispatcherOK'
  <2>1. rec \in [DOMAIN rec -> RecordType]
    BY <1>0 DEF Types
  <2>2. \A u \in DOMAIN rec : u # t => rec[u].staged \/ rec[u].xfer # None
    BY <1>0, <1>2, <1>3, <1>4 DEF DispatcherOK, LooseOK
  <2>3. DOMAIN rec' = DOMAIN rec /\ \A u \in DOMAIN rec : u # t => rec'[u] = rec[u]
    BY <1>1
  <2>4. rec'[t].staged
    BY <1>1, <1>4, <2>1 DEF RecordType
  <2>5. NoneLoose'
    BY <2>2, <2>3, <2>4 DEF NoneLoose
  <2> QED BY <1>9, <1>10, <1>11, <2>5, PlainDispatcher
<1>14. other' = None /\ fault' = "none"
  BY <1>0, <1>1, <1>2, NoOther DEF NoFault
<1> QED BY <1>11, <1>12, <1>13, <1>14, Assemble
-----------------------------------------------------------------------------
(* The calls of the program.                                               *)

\* IssueToken() waits for the outstanding tokens that conflict.
LEMMA IssueStep ==
  ASSUME CreditsNeverRunOut, AsyncInv, UNCHANGED mode,
         NEW t \in Tokens, NEW d \in mode.descs, IssueToken(t, d)
  PROVE  AsyncInv'
<1> DEFINE c == Conflicts(d)
           a == [i \in 1 .. Len(c) |-> TokenOp("await", c[i])]
           e == [TokenOp("create", t) EXCEPT !.desc = d]
<1>0. DataInv /\ NoFault /\ Types /\ OrderInv
  BY DEF AsyncInv, DataInv
<1>1. t \notin DOMAIN rec /\ UsedGroups # GroupIds /\ Start(a \o <<e>>)
  BY DEF IssueToken
<1>2. d \in DescType
  BY <1>0, ModeFacts
<1>3. c \in Seq(Tokens) /\ Len(c) \in Nat
      /\ ToSet(c) = DOMAIN rec \intersect
                    {u \in DOMAIN rec : ~Complete(u) /\ HasHazard(rec[u].desc, d)}
  <2>1. order \in Seq(Tokens) /\ ToSet(order) = DOMAIN rec
    BY <1>0 DEF Types, OrderInv
  <2>2. c \in Seq(Tokens)
        /\ ToSet(c) = DOMAIN rec \intersect
                    {u \in DOMAIN rec : ~Complete(u) /\ HasHazard(rec[u].desc, d)}
    BY <2>1, AmongElements DEF Conflicts
  <2> HIDE DEF c
  <2> QED BY <2>2
<1> HIDE DEF c
<1>4. \A i \in 1 .. Len(c) : c[i] \in Tokens /\ c[i] \in DOMAIN rec
  <2>1. \A i \in 1 .. Len(c) : c[i] \in ToSet(c)
    BY <1>3 DEF ToSet
  <2> QED BY <1>3, <2>1
<1>5. \A u \in DOMAIN rec :
        ~Complete(u) /\ HasHazard(rec[u].desc, d) => \E i \in 1 .. Len(c) : c[i] = u
  <2> SUFFICES ASSUME NEW u \in DOMAIN rec, ~Complete(u), HasHazard(rec[u].desc, d)
               PROVE  \E i \in 1 .. Len(c) : c[i] = u
    OBVIOUS
  <2>1. u \in ToSet(c)
    BY <1>3
  <2> QED BY <1>3, <2>1 DEF ToSet
<1>6. \A i \in 1 .. Len(c) : a[i] \in OpType /\ a[i].op = "await" /\ a[i].token = c[i]
  BY <1>4, Operations DEF OpNames
<1>7. a \in Seq(OpType) /\ Len(a) = Len(c)
  <2>1. \A i \in 1 .. Len(c) : TokenOp("await", c[i]) \in OpType
    BY <1>4, Operations DEF OpNames
  <2> QED BY <1>3, <2>1
<1>8. e \in OpType /\ e.op = "create" /\ e.token = t /\ e.desc = d
  BY <1>2, Operations
<1> HIDE DEF a, e
<1> DEFINE s == a \o <<e>>
<1>9. /\ s \in Seq(OpType) /\ Len(s) = Len(c) + 1 /\ s # <<>>
      /\ \A i \in 1 .. Len(c) : s[i] = a[i]
      /\ s[Len(c) + 1] = e
  BY <1>7, <1>8, Ended
<1>10. Start(s)
  BY <1>1
<1> HIDE DEF s
<1>11. /\ UNCHANGED dataVars /\ UNCHANGED fault /\ Todo' = s
       /\ todo' \in [Threads -> Seq(OpType)] /\ turn' \in Turns /\ WorkerOK' /\ Waits'
       /\ NoneLoose /\ other = None
  BY <1>9, <1>10, Starts1
<1>12. DOMAIN groups # GroupIds
  <2>1. DOMAIN groups \subseteq GroupIds
    BY <1>0 DEF Types
  <2> QED BY <1>1, <2>1 DEF UsedGroups
<1>13. DispatcherOK'
  <2>1. /\ Len(Todo') = Len(c) + 1
        /\ \A i \in 1 .. Len(c) : Todo'[i].op = "await" /\ Todo'[i].token = c[i]
        /\ Todo'[Len(c) + 1].op = "create" /\ Todo'[Len(c) + 1].token = t
        /\ Todo'[Len(c) + 1].desc = d
    BY <1>6, <1>8, <1>9, <1>11
  <2>2. t \in Tokens \ DOMAIN rec /\ \A i \in 1 .. Len(c) : c[i] \in DOMAIN rec
    BY <1>1, <1>4
  <2>3. Len(c) \in Nat /\ NoneLoose /\ UNCHANGED dataVars
    BY <1>3, <1>11
  <2> QED BY <1>5, <1>12, <2>1, <2>2, <2>3, IssueDispatcher
<1>14. DataInv'
  BY <1>0, <1>11, DataKept
<1>15. other' = None /\ fault' = "none"
  BY <1>0, <1>11 DEF dataVars, NoFault
<1> QED BY <1>11, <1>13, <1>14, <1>15, Assemble

\* WaitToken().
LEMMA WaitStep ==
  ASSUME CreditsNeverRunOut, AsyncInv, UNCHANGED mode,
         NEW t \in Tokens, WaitToken(t)
  PROVE  AsyncInv'
<1> DEFINE a == TokenOp("await", t)
           b == TokenOp("release", t)
           s == <<a, b>>
<1>0. DataInv /\ NoFault
  BY DEF AsyncInv
<1>1. t \in DOMAIN rec /\ Start(s)
  BY DEF WaitToken
<1>2. /\ a \in OpType /\ a.op = "await" /\ a.token = t
      /\ b \in OpType /\ b.op = "release" /\ b.token = t
  BY Operations DEF OpNames
<1> HIDE DEF a, b
<1>3. s \in Seq(OpType) /\ Len(s) = 2 /\ s # <<>> /\ s[1] = a /\ s[2] = b
  BY <1>2
<1> HIDE DEF s
<1>4. /\ UNCHANGED dataVars /\ UNCHANGED fault /\ Todo' = s
      /\ todo' \in [Threads -> Seq(OpType)] /\ turn' \in Turns /\ WorkerOK' /\ Waits'
      /\ NoneLoose /\ other = None
  BY <1>1, <1>3, Starts1
<1>5. NoneLoose' /\ t \in DOMAIN rec'
  BY <1>1, <1>4 DEF dataVars, NoneLoose
<1>6. DispatcherOK'
  BY <1>2, <1>3, <1>4, <1>5, WaitDispatcher
<1>7. DataInv'
  BY <1>0, <1>4, DataKept
<1>8. other' = None /\ fault' = "none"
  BY <1>0, <1>4 DEF dataVars, NoFault
<1> QED BY <1>4, <1>6, <1>7, <1>8, Assemble

\* The flushes of a set of open groups.
LEMMA FlushList ==
  ASSUME DataInv, NEW S \in SUBSET DOMAIN groups
  PROVE  /\ FlushOps(S) \in Seq(OpType)
         /\ \A i \in 1 .. Len(FlushOps(S)) : FlushOps(S)[i].op = "flush"
<1> DEFINE H == {Head(groups[g].tokens) : g \in S}
           h == Among(order, H)
           gs == [i \in 1 .. Len(h) |-> CHOOSE g \in S : Head(groups[g].tokens) = h[i]]
           f == [i \in 1 .. Len(gs) |-> GroupOp("flush", gs[i])]
<1>1. h \in Seq(Tokens) /\ ToSet(h) = ToSet(order) \intersect H
  BY AmongElements DEF DataInv, Types
<1> HIDE DEF h
<1>2. Len(h) \in Nat /\ \A i \in 1 .. Len(h) : h[i] \in H
  <2>1. \A i \in 1 .. Len(h) : h[i] \in ToSet(h)
    BY <1>1 DEF ToSet
  <2> QED BY <1>1, <2>1
<1>3. \A i \in 1 .. Len(h) : gs[i] \in S
  <2> TAKE i \in 1 .. Len(h)
  <2>1. \E g \in S : Head(groups[g].tokens) = h[i]
    BY <1>2
  <2>2. (CHOOSE g \in S : Head(groups[g].tokens) = h[i]) \in S
    BY <2>1
  <2> QED BY <2>2
<1>4. gs \in Seq(S) /\ Len(gs) = Len(h)
  <2>1. gs \in [1 .. Len(h) -> S]
    BY <1>3
  <2> HIDE DEF gs
  <2> QED BY <1>2, <2>1
<1> HIDE DEF gs
<1>5. \A i \in 1 .. Len(gs) : GroupOp("flush", gs[i]) \in OpType
                             /\ GroupOp("flush", gs[i]).op = "flush"
  <2>1. S \subseteq GroupIds
    BY DEF DataInv, Types
  <2> QED BY <1>3, <1>4, <2>1, Operations DEF OpNames
<1>6. f \in Seq(OpType) /\ Len(f) = Len(gs) /\ \A i \in 1 .. Len(f) : f[i].op = "flush"
  <2>1. Len(gs) \in Nat
    BY <1>2, <1>4
  <2> QED BY <1>5, <2>1
<1> QED BY <1>6 DEF FlushOps, ByFirstToken, gs, h

\* Fence() flushes every group first.
LEMMA FenceStep ==
  ASSUME CreditsNeverRunOut, AsyncInv, UNCHANGED mode, Fence
  PROVE  AsyncInv'
<1> DEFINE a == FlushAllOpenGroups
           e == Op("collect")
           s == a \o <<e>>
<1>0. DataInv /\ NoFault
  BY DEF AsyncInv
<1>1. Start(s)
  BY DEF Fence
<1>2. a \in Seq(OpType) /\ \A i \in 1 .. Len(a) : a[i].op = "flush"
  <2>1. DOMAIN groups \in SUBSET DOMAIN groups
    OBVIOUS
  <2> QED BY <1>0, <2>1, FlushList DEF FlushAllOpenGroups
<1>3. e \in OpType /\ e.op = "collect"
  BY Operations DEF OpNames
<1> HIDE DEF a, e
<1>4. /\ s \in Seq(OpType) /\ Len(s) = Len(a) + 1 /\ s # <<>> /\ Len(a) \in Nat
      /\ \A i \in 1 .. Len(a) : s[i] = a[i]
      /\ s[Len(a) + 1] = e
  BY <1>2, <1>3, Ended
<1> HIDE DEF s
<1>5. /\ UNCHANGED dataVars /\ UNCHANGED fault /\ Todo' = s
      /\ todo' \in [Threads -> Seq(OpType)] /\ turn' \in Turns /\ WorkerOK' /\ Waits'
      /\ NoneLoose /\ other = None
  BY <1>1, <1>4, Starts1
<1>6. NoneLoose'
  BY <1>5 DEF dataVars, NoneLoose
<1>7. \A i \in 1 .. Len(Todo') :
        \/ Todo'[i].op = "flush"
        \/ Todo'[i].op = "collect" /\ i = Len(Todo')
  <2> TAKE i \in 1 .. Len(Todo')
  <2>1. CASE i = Len(a) + 1
    BY <1>3, <1>4, <1>5, <2>1
  <2>2. CASE i # Len(a) + 1
    <3>1. i \in 1 .. Len(a)
      BY <1>4, <1>5, <2>2
    <3> QED BY <1>2, <1>4, <1>5, <3>1
  <2> QED BY <2>1, <2>2
<1>8. DispatcherOK'
  BY <1>6, <1>7, PlainDispatcher
<1>9. DataInv'
  BY <1>0, <1>5, DataKept
<1>10. other' = None /\ fault' = "none"
  BY <1>0, <1>5 DEF dataVars, NoFault
<1> QED BY <1>5, <1>8, <1>9, <1>10, Assemble

\* A SEND or RECV begins.
LEMMA SendRecvStep ==
  ASSUME CreditsNeverRunOut, AsyncInv, UNCHANGED mode, SendRecv
  PROVE  AsyncInv'
<1> DEFINE e == Op("transfer")
           s == <<e>>
<1>0. DataInv /\ NoFault
  BY DEF AsyncInv
<1>1. Start(s)
  BY DEF SendRecv
<1>2. e \in OpType /\ e.op = "transfer"
  BY Operations DEF OpNames
<1> HIDE DEF e
<1>3. s \in Seq(OpType) /\ Len(s) = 1 /\ s # <<>> /\ s[1] = e
  BY <1>2
<1> HIDE DEF s
<1>4. /\ UNCHANGED dataVars /\ UNCHANGED fault /\ Todo' = s
      /\ todo' \in [Threads -> Seq(OpType)] /\ turn' \in Turns /\ WorkerOK' /\ Waits'
      /\ NoneLoose /\ other = None
  BY <1>1, <1>3, Starts1
<1>5. NoneLoose'
  BY <1>4 DEF dataVars, NoneLoose
<1>6. \A i \in 1 .. Len(Todo') : i = 1 /\ i = Len(Todo') /\ Todo'[i].op = "transfer"
  <2>1. Len(Todo') = 1 /\ Todo'[1].op = "transfer"
    BY <1>2, <1>3, <1>4
  <2>2. \A i \in 1 .. Len(Todo') : i = 1
    BY <2>1
  <2> QED BY <2>1, <2>2
<1>7. DispatcherOK'
  BY <1>5, <1>6, PlainDispatcher
<1>8. DataInv'
  BY <1>0, <1>4, DataKept
<1>9. other' = None /\ fault' = "none"
  BY <1>0, <1>4 DEF dataVars, NoFault
<1> QED BY <1>4, <1>7, <1>8, <1>9, Assemble

\* A call that erases a token at once, between two primitives.
LEMMA IdleAfter ==
  ASSUME AsyncInv, Idle, DataInv', UNCHANGED <<mode, todo, turn, other, fault>>,
         \A u \in DOMAIN rec' : u \in DOMAIN rec /\ rec'[u] = rec[u]
  PROVE  AsyncInv'
<1>1. Todo = <<>> /\ Todo' = <<>> /\ turn = None /\ 1 .. Len(Todo') = {}
  BY DEF Idle, Todo
<1>2. NoneLoose'
  <2>1. 1 .. Len(Todo) = {}
    BY <1>1
  <2>2. NoneLoose
    BY <2>1, AllBound DEF AsyncInv, CtrlInv, DispatcherOK
  <2> QED BY <2>2 DEF NoneLoose
<1>3. DispatcherOK'
  BY <1>1, <1>2, PlainDispatcher
<1>4. todo["worker"] = <<>> /\ todo'["worker"] = <<>>
  <2>1. None # "worker"
    BY AsyncAssumption DEF Threads
  <2> QED BY <1>1, <2>1 DEF AsyncInv, CtrlInv, WorkerOK
<1>5. WorkerOK' /\ Waits'
  BY <1>1, <1>4 DEF WorkerOK, Waits
<1>6. other' = None
  BY <1>1 DEF AsyncInv, CtrlInv, Parked
<1>7. todo' \in [Threads -> Seq(OpType)] /\ fault' = "none"
  BY DEF AsyncInv, CtrlInv, NoFault
<1> QED BY <1>3, <1>5, <1>6, <1>7, Assemble

\* CancelStagedToken().
LEMMA CancelStagedStep ==
  ASSUME CreditsNeverRunOut, AsyncInv, UNCHANGED mode,
         NEW t \in Tokens, CancelStaged(t)
  PROVE  AsyncInv'
<1> DEFINE g == rec[t].group
           rest == Front(groups[g].tokens)
           tail == rec[Last(rest)].desc
<1>0. DataInv /\ NoFault /\ turn \in Turns
  BY DEF AsyncInv, DataInv, Types, Turns
<1>1. Idle /\ t \in DOMAIN rec /\ rec[t].staged
  BY DEF CancelStaged
<1>2. g \in DOMAIN groups
  BY <1>0, <1>1 DEF DataInv, StagedInv
<1>3. /\ Last(groups[g].tokens) = t
      /\ Erases(t)
      /\ \/ /\ rest = <<>>
            /\ byKey' = Without(byKey, groups[g].key)
            /\ groups' = Without(groups, g)
         \/ /\ rest # <<>>
            /\ CutsTail(g, t, tail)
            /\ UNCHANGED byKey
      /\ UNCHANGED <<phase, batches, todo, turn, alarm, other, fault>>
  BY <1>2 DEF CancelStaged, Erases, CutsTail
<1>4. UNCHANGED <<mode, phase, batches, other>> /\ UNCHANGED <<mode, todo, turn, other, fault>>
      /\ turn' \in Turns
  BY <1>0, <1>3
<1> HIDE DEF g, tail
<1>5. DataInv'
  <2>1. rec[t].group = g
    BY DEF g
  <2>2. CASE rest = <<>>
    BY <1>0, <1>1, <1>2, <1>3, <1>4, <2>1, <2>2, CancelWhole
  <2>3. CASE rest # <<>>
    <3>1. CutsTail(g, t, tail) /\ UNCHANGED <<mode, phase, batches, other, byKey>>
      BY <1>3, <1>4, <2>3
    <3> QED BY <1>0, <1>1, <1>2, <1>3, <1>4, <2>1, <2>3, <3>1, CancelTail
  <2> QED BY <2>2, <2>3
<1>6. \A u \in DOMAIN rec' : u \in DOMAIN rec /\ rec'[u] = rec[u]
  BY <1>0, <1>1, <1>3, Erased
<1> QED BY <1>1, <1>4, <1>5, <1>6, IdleAfter

\* CancelToken() of a token alone in its batch.
LEMMA CancelIssuedStep ==
  ASSUME CreditsNeverRunOut, AsyncInv, UNCHANGED mode,
         NEW t \in Tokens, CancelIssued(t)
  PROVE  AsyncInv'
<1> DEFINE x == rec[t].xfer
<1>0. DataInv /\ NoFault /\ turn \in Turns
  BY DEF AsyncInv, DataInv, Types, Turns
<1>1. /\ Idle /\ t \in DOMAIN rec /\ x \in DOMAIN batches /\ batches[x].members = 1
      /\ phase' = [phase EXCEPT ![x] = "FREE"] /\ batches' = Without(batches, x)
      /\ Erases(t)
      /\ UNCHANGED <<groups, byKey, todo, turn, alarm, changed, other, fault>>
  BY DEF CancelIssued, Erases
<1>2. batches[x].remaining = 1
  <2>1. batches[x] \in BatchType /\ batches[x].remaining > 0
        /\ batches[x].remaining <= batches[x].members
    BY <1>0, <1>1 DEF DataInv, BatchInv, Types
  <2> QED BY <1>1, <2>1 DEF BatchType
<1>3. /\ UNCHANGED <<mode, groups, byKey, other>> /\ UNCHANGED <<mode, todo, turn, other, fault>>
      /\ turn' \in Turns /\ rec[t].xfer = x
  BY <1>0, <1>1
<1> HIDE DEF x
<1>4. DataInv'
  BY <1>0, <1>1, <1>2, <1>3, EraseLast
<1>5. \A u \in DOMAIN rec' : u \in DOMAIN rec /\ rec'[u] = rec[u]
  BY <1>0, <1>1, Erased
<1> QED BY <1>1, <1>3, <1>4, <1>5, IdleAfter
-----------------------------------------------------------------------------
(* timeoutWorker, time and the engine.                                     *)

\* The dispatcher's part of the invariant after a step of someone else.
LEMMA OthersDone ==
  ASSUME AsyncInv, DataInv', DispatcherOK', Todo' = Todo,
         todo' \in [Threads -> Seq(OpType)], WorkerOK',
         turn # "dispatcher" \/ turn' = "dispatcher",
         UNCHANGED <<mode, other, fault>>
  PROVE  AsyncInv'
<1>1. Waits'
  BY DEF AsyncInv, CtrlInv, Parked, Waits
<1>2. other' = None \/ (Todo' # <<>> /\ Todo'[1].op = "transferred")
  BY DEF AsyncInv, CtrlInv, Parked
<1>3. fault' = "none"
  BY DEF AsyncInv, NoFault
<1> QED BY <1>1, <1>2, <1>3, Assemble

\* A pass of timeoutWorker's loop.
LEMMA WorkerLoopStep ==
  ASSUME CreditsNeverRunOut, AsyncInv, UNCHANGED mode, WorkerLoop
  PROVE  AsyncInv'
<1>0. /\ DataInv /\ DispatcherOK /\ todo \in [Threads -> Seq(OpType)]
      /\ None # "dispatcher" /\ None # "worker"
  BY AsyncAssumption DEF AsyncInv, CtrlInv, Threads
<1>1. /\ todo["worker"] = <<>> /\ turn \in {None, "worker"}
      /\ turn' \in {None, "worker"}
      /\ UNCHANGED dataVars /\ UNCHANGED <<mode, other, fault>>
      /\ \/ UNCHANGED todo
         \/ /\ turn' = "worker" /\ mode.aggregation
            /\ todo' = [todo EXCEPT !["worker"] = FlushOps(Due)]
  BY DEF WorkerLoop, dataVars, trackVars
<1>2. turn' \in Turns /\ turn # "dispatcher"
  BY <1>0, <1>1 DEF Turns, Threads
<1>3. DataInv'
  BY <1>0, <1>1, <1>2, DataKept
<1>4. /\ FlushOps(Due) \in Seq(OpType)
      /\ \A i \in 1 .. Len(FlushOps(Due)) : FlushOps(Due)[i].op = "flush"
  <2>1. Due \in SUBSET DOMAIN groups
    BY DEF Due
  <2> QED BY <1>0, <2>1, FlushList
<1>5. todo' \in [Threads -> Seq(OpType)] /\ todo'["dispatcher"] = todo["dispatcher"]
  BY <1>0, <1>1, <1>4 DEF Threads
<1>6. WorkerOK'
  <2>1. CASE UNCHANGED todo
    BY <1>1, <2>1 DEF WorkerOK
  <2>2. CASE ~UNCHANGED todo
    <3>1. todo'["worker"] = FlushOps(Due) /\ turn' = "worker" /\ mode'.aggregation
      BY <1>0, <1>1, <2>2 DEF Threads
    <3> QED BY <1>4, <3>1 DEF WorkerOK
  <2> QED BY <2>1, <2>2
<1>7. Todo' = Todo
  BY <1>5 DEF Todo
<1>8. DispatcherOK'
  <2>1. \A t \in DOMAIN rec : Complete(t) => Complete(t)'
    BY <1>1 DEF dataVars, Complete
  <2>2. UNCHANGED <<mode, rec, byKey>> /\ groups' = groups
    BY <1>1 DEF dataVars
  <2> QED BY <1>0, <1>7, <2>1, <2>2, DispatcherKept
<1> QED BY <1>1, <1>2, <1>3, <1>5, <1>6, <1>7, <1>8, OthersDone

\* timeoutWorker replaces its first operation and keeps the processor.
LEMMA WorkerContinues ==
  ASSUME CreditsNeverRunOut, AsyncInv, UNCHANGED mode, NEW name, Runs("worker", name),
         NEW ops \in Seq(OpType), Continue("worker", ops), Len(ops) <= 1,
         \A i \in 1 .. Len(ops) : ops[i].op = "bind"
  PROVE  /\ todo["worker"] \in Seq(OpType) /\ todo["worker"] # <<>>
         /\ Arg("worker") = todo["worker"][1] /\ todo["worker"][1].op = name
         /\ 1 \in 1 .. Len(todo["worker"])
         /\ todo' \in [Threads -> Seq(OpType)] /\ Todo' = Todo
         /\ turn' = "worker" /\ turn = "worker" /\ mode.aggregation
         /\ \A i \in 1 .. Len(todo'["worker"]) :
              \/ todo'["worker"][i].op = "flush"
              \/ i = 1 /\ Len(ops) = 1 /\ todo'["worker"][i] = ops[1]
<1> DEFINE s == todo["worker"]
           r == ops \o Tail(s)
<1>1. /\ todo \in [Threads -> Seq(OpType)] /\ mode \in Modes
      /\ s \in Seq(OpType) /\ s # <<>> /\ Head(s).op = name /\ Arg("worker") = Head(s)
  BY DEF AsyncInv, CtrlInv, DataInv, Types, Runs, Threads, Arg
<1>2. /\ r \in Seq(OpType) /\ Len(r) = Len(ops) + Len(s) - 1
      /\ \A i \in 1 .. Len(ops) : r[i] = ops[i]
      /\ \A i \in Len(ops) + 1 .. Len(r) : r[i] = s[i - Len(ops) + 1]
      /\ Head(s) = s[1] /\ Len(s) \in Nat \ {0} /\ Len(ops) \in Nat
  BY <1>1, Rest
<1>3. todo' = [todo EXCEPT !["worker"] = r]
  BY DEF Continue
<1>4. /\ todo' \in [Threads -> Seq(OpType)] /\ todo'["worker"] = r
      /\ todo'["dispatcher"] = todo["dispatcher"]
  BY <1>1, <1>2, <1>3 DEF Threads
<1> HIDE DEF r
<1>5. /\ turn = "worker" /\ mode.aggregation
      /\ \A i \in 1 .. Len(s) : s[i].op = "flush" \/ i = 1
  BY <1>1 DEF AsyncInv, CtrlInv, WorkerOK
<1>6. \A i \in 1 .. Len(r) :
        r[i].op = "flush" \/ (i = 1 /\ Len(ops) = 1 /\ r[i] = ops[1])
  <2> TAKE i \in 1 .. Len(r)
  <2>1. CASE i \in 1 .. Len(ops)
    <3> DEFINE n == Len(ops)
    <3>1. n \in Nat /\ n <= 1 /\ i \in 1 .. n
      BY <1>2, <2>1
    <3> HIDE DEF n
    <3>2. i = 1 /\ n = 1
      BY <3>1
    <3> QED BY <1>2, <2>1, <3>2 DEF n
  <2>2. CASE i \notin 1 .. Len(ops)
    <3> DEFINE k == i - Len(ops) + 1
    <3>1. i \in Len(ops) + 1 .. Len(r) /\ k \in 1 .. Len(s) /\ k # 1
      BY <1>2, <2>2
    <3>2. r[i] = s[k]
      BY <1>2, <3>1
    <3> HIDE DEF k
    <3>3. s[k].op = "flush"
      BY <1>5, <3>1
    <3> QED BY <3>2, <3>3
  <2> QED BY <2>1, <2>2
<1>7. turn' = IF todo'["worker"] # <<>> /\ Blocked(Head(todo["worker"]))'
              THEN None ELSE "worker"
  BY DEF Continue
<1>8. turn' = "worker"
  <2> SUFFICES ASSUME todo'["worker"] # <<>>, Blocked(Head(todo["worker"]))'
               PROVE  FALSE
    BY <1>7
  <2>1. Head(r) = r[1] /\ 1 \in 1 .. Len(r)
    BY <1>2, <1>4
  <2>2. r[1].op \in {"flush", "bind"}
    BY <1>2, <1>6, <2>1
  <2>3. \/ Head(todo'["worker"]).op \in {"settle", "transfer", "transferred"}
        \/ Head(todo'["worker"]).op = "bind" /\ ~mode'.aggregation
    BY <1>1, BlockedWaitsNext DEF Threads
  <2> QED BY <1>4, <1>5, <2>1, <2>2, <2>3
<1> QED BY <1>1, <1>2, <1>4, <1>5, <1>6, <1>8 DEF Todo

\* timeoutWorker copies a group, or finds it gone.
LEMMA WorkerFlushStep ==
  ASSUME CreditsNeverRunOut, AsyncInv, UNCHANGED mode, FlushGroup("worker")
  PROVE  AsyncInv'
<1> DEFINE g == Arg("worker").group
           o == BindOp(groups[g].tokens, g, groups[g].key)
           ops == IF g \in DOMAIN groups THEN <<o>> ELSE <<>>
<1>1. Runs("worker", "flush") /\ Continue("worker", ops)
  BY DEF FlushGroup
<1>2. UNCHANGED dataVars /\ UNCHANGED <<mode, other, fault>>
  BY DEF FlushGroup, dataVars, trackVars
<1>3. DataInv /\ DispatcherOK /\ DOMAIN groups \subseteq GroupIds
  BY DEF AsyncInv, CtrlInv, DataInv, Types
<1>4. g \in DOMAIN groups =>
        /\ o \in OpType /\ o.op = "bind" /\ o.tokens = groups[g].tokens
        /\ o.group = g /\ o.key = groups[g].key /\ g # None
  <2> HAVE g \in DOMAIN groups
  <2>1. groups[g] \in GroupType /\ g \in GroupIds /\ g # None
    BY <1>3, AsyncAssumption DEF DataInv, Types
  <2>2. groups[g].tokens \in Seq(Tokens) /\ groups[g].key \in Dirs \X Nat \X Nat
    BY <2>1 DEF GroupType
  <2>3. /\ o \in OpType /\ o.op = "bind" /\ o.tokens = groups[g].tokens
        /\ o.group = g /\ o.key = groups[g].key
    BY <2>1, <2>2, Operations
  <2> QED BY <2>1, <2>3
<1> HIDE DEF o
<1>5. /\ ops \in Seq(OpType) /\ Len(ops) <= 1
      /\ \A i \in 1 .. Len(ops) : ops[i].op = "bind"
      /\ Len(ops) = 1 => g \in DOMAIN groups /\ ops[1] = o
  BY <1>4
<1> HIDE DEF ops, g
<1>6. /\ todo' \in [Threads -> Seq(OpType)] /\ Todo' = Todo
      /\ turn' = "worker" /\ turn = "worker" /\ mode.aggregation
      /\ \A i \in 1 .. Len(todo'["worker"]) :
           \/ todo'["worker"][i].op = "flush"
           \/ i = 1 /\ Len(ops) = 1 /\ todo'["worker"][i] = ops[1]
  BY <1>1, <1>5, WorkerContinues
<1>7. groups' = groups
  BY <1>2 DEF dataVars
<1>8. WorkerOK'
  <2>1. \A i \in 1 .. Len(todo'["worker"]) :
          LET p == todo'["worker"][i] IN
          \/ p.op = "flush"
          \/ /\ p.op = "bind" /\ i = 1 /\ p.group # None
             /\ p.group \in DOMAIN groups' /\ p.tokens = groups'[p.group].tokens
             /\ p.key = groups'[p.group].key
    BY <1>4, <1>5, <1>6, <1>7
  <2>2. mode'.aggregation
    BY <1>6
  <2> QED BY <1>6, <2>1, <2>2 DEF WorkerOK, BindOK
<1>9. DataInv'
  <2>1. turn' \in Turns
    BY <1>6 DEF Turns, Threads
  <2> QED BY <1>2, <1>3, <2>1, DataKept
<1>10. DispatcherOK'
  <2>1. \A t \in DOMAIN rec : Complete(t) => Complete(t)'
    BY <1>2 DEF dataVars, Complete
  <2>2. UNCHANGED <<mode, rec, byKey>> /\ groups' = groups
    BY <1>2 DEF dataVars
  <2> QED BY <1>3, <1>6, <2>1, <2>2, DispatcherKept
<1>11. turn # "dispatcher"
  BY <1>6
<1> QED BY <1>2, <1>6, <1>8, <1>9, <1>10, <1>11, OthersDone

\* timeoutWorker binds a group to a new context.
LEMMA WorkerBindStep ==
  ASSUME CreditsNeverRunOut, AsyncInv, UNCHANGED mode, Bind("worker")
  PROVE  AsyncInv'
<1> DEFINE o == Arg("worker")
<1>0. DataInv /\ DispatcherOK
  BY DEF AsyncInv, CtrlInv
<1>1. Runs("worker", "bind")
  BY DEF Bind
<1>2. BindOK(o)
  <2>1. /\ todo["worker"] \in Seq(OpType) /\ todo["worker"] # <<>>
        /\ o = Head(todo["worker"]) /\ Head(todo["worker"]).op = "bind"
    BY <1>1 DEF AsyncInv, CtrlInv, Threads, Runs, Arg
  <2>2. Head(todo["worker"]) = todo["worker"][1] /\ 1 \in 1 .. Len(todo["worker"])
    BY <2>1
  <2> QED BY <2>1, <2>2 DEF AsyncInv, CtrlInv, WorkerOK
<1>3. /\ \E x : Binds(o.tokens, o.group, o.key, x)
      /\ Continue("worker", <<>>)
      /\ UNCHANGED fault
  BY <1>0, <1>2, BindEffect DEF Threads
<1>4. PICK x : Binds(o.tokens, o.group, o.key, x)
  BY <1>3
<1>5. /\ todo' \in [Threads -> Seq(OpType)] /\ Todo' = Todo
      /\ turn' = "worker" /\ turn = "worker" /\ mode.aggregation
      /\ \A i \in 1 .. Len(todo'["worker"]) : todo'["worker"][i].op = "flush"
  <2>1. <<>> \in Seq(OpType) /\ Len(<<>>) = 0
    BY EmptySeq
  <2>2. Len(<<>>) <= 1 /\ Len(<<>>) # 1 /\ 1 .. Len(<<>>) = {}
    BY <2>1
  <2> QED BY <1>1, <1>3, <2>1, <2>2, WorkerContinues
<1> HIDE DEF o
<1>6. turn' \in Turns /\ turn # "dispatcher"
  BY <1>5 DEF Turns, Threads
<1>7. DataInv' /\ Bound(o.tokens, o.group, x)
  BY <1>0, <1>4, <1>6, BindData, BoundFacts
<1>8. WorkerOK'
  BY <1>5 DEF WorkerOK
<1>9. DispatcherOK'
  <2>1. Todo # <<>> => Todo[1].op \in {"settle", "transfer", "transferred"}
    BY <1>5, <1>6 DEF AsyncInv, CtrlInv, Parked
  <2>2. Len(Todo) \in Nat
    <3>1. Todo \in Seq(OpType)
      BY DEF AsyncInv, CtrlInv, Threads, Todo
    <3> QED BY <3>1
  <2> QED BY <1>0, <1>5, <1>7, <2>1, <2>2, DispatcherOvertaken
<1>10. UNCHANGED <<mode, other, fault>>
  BY <1>3, <1>4 DEF Binds
<1> QED BY <1>5, <1>6, <1>7, <1>8, <1>9, <1>10, OthersDone

\* A cycle passes.
LEMMA TickStep ==
  ASSUME AsyncInv, Tick
  PROVE  AsyncInv'
<1>0. DataInv /\ DispatcherOK /\ turn \in Turns /\ None # "dispatcher"
      /\ todo \in [Threads -> Seq(OpType)] /\ WorkerOK
  BY AsyncAssumption DEF AsyncInv, CtrlInv, DataInv, Types, Turns, Threads
<1>1. /\ turn = None
      /\ groups' = [g \in DOMAIN groups |->
                      [groups[g] EXCEPT !.left = IF @ > 0 THEN @ - 1 ELSE 0]]
      /\ UNCHANGED <<mode, phase, rec, order, byKey, batches, other>>
      /\ UNCHANGED <<todo, turn, fault>>
  BY DEF Tick
<1>2. turn' \in Turns
  BY <1>0, <1>1
<1>3. /\ DataInv' /\ DOMAIN groups' = DOMAIN groups
      /\ \A t \in DOMAIN rec : Complete(t)' = Complete(t)
      /\ \A g \in DOMAIN groups : /\ groups'[g].tokens = groups[g].tokens
                                  /\ groups'[g].key = groups[g].key
  BY <1>0, <1>1, <1>2, TickData
<1>4. Todo' = Todo /\ todo' \in [Threads -> Seq(OpType)]
  BY <1>0, <1>1 DEF Todo
<1>5. DispatcherOK'
  <2>1. UNCHANGED <<mode, rec, byKey>>
    BY <1>1
  <2> QED BY <1>0, <1>3, <1>4, <2>1, DispatcherKept
<1>6. WorkerOK'
  <2>1. todo["worker"] = <<>>
    <3>1. None # "worker"
      BY AsyncAssumption DEF Threads
    <3> QED BY <1>0, <1>1, <3>1 DEF WorkerOK
  <2> QED BY <1>1, <2>1 DEF WorkerOK
<1>7. UNCHANGED <<mode, other, fault>> /\ turn # "dispatcher"
  BY <1>0, <1>1
<1> QED BY <1>3, <1>4, <1>5, <1>6, <1>7, OthersDone

\* The engine admits or completes a transfer.
LEMMA EngineStep ==
  ASSUME AsyncInv, NEW x \in Xfers, Engine(x)
  PROVE  AsyncInv'
<1>0. DataInv /\ DispatcherOK /\ turn \in Turns /\ None # "dispatcher"
      /\ todo \in [Threads -> Seq(OpType)] /\ WorkerOK /\ phase \in [Xfers -> Phases]
  BY AsyncAssumption DEF AsyncInv, CtrlInv, DataInv, Types, Turns, Threads, PoolTypeOK
<1>1. /\ turn = None
      /\ UNCHANGED <<mode, rec, order, groups, byKey, batches, other>>
      /\ UNCHANGED <<todo, turn, fault>>
      /\ PoolAdmit(x) \/ PoolComplete({x})
  BY DEF Engine, trackVars
<1>2. /\ phase' \in [Xfers -> Phases]
      /\ \A y \in Xfers : /\ phase'[y] = "FREE" <=> phase[y] = "FREE"
                          /\ phase[y] = "COMPLETED" => phase'[y] = "COMPLETED"
  <2>1. CASE PoolAdmit(x)
    <3>1. phase[x] = "PENDING" /\ phase' = [phase EXCEPT ![x] = "ACTIVE"]
      BY <2>1 DEF PoolAdmit
    <3>2. phase' \in [Xfers -> Phases]
      BY <1>0, <3>1 DEF Phases
    <3> QED BY <1>0, <3>1, <3>2
  <2>2. CASE PoolComplete({x})
    <3>1. phase[x] = "ACTIVE"
          /\ phase' = [y \in Xfers |-> IF y \in {x} THEN "COMPLETED" ELSE phase[y]]
      BY <2>2 DEF PoolComplete
    <3>2. phase' \in [Xfers -> Phases]
      BY <1>0, <3>1 DEF Phases
    <3> QED BY <1>0, <3>1, <3>2
  <2> QED BY <1>1, <2>1, <2>2
<1>3. DataInv' /\ \A t \in DOMAIN rec : Complete(t) => Complete(t)'
  <2>1. turn' \in Turns
    BY <1>0, <1>1
  <2> QED BY <1>0, <1>1, <1>2, <2>1, PhaseData
<1>4. Todo' = Todo /\ todo' \in [Threads -> Seq(OpType)]
  BY <1>0, <1>1 DEF Todo
<1>5. DispatcherOK'
  <2>1. UNCHANGED <<mode, rec, byKey>> /\ groups' = groups
    BY <1>1
  <2> QED BY <1>0, <1>3, <1>4, <2>1, DispatcherKept
<1>6. WorkerOK'
  <2>1. todo["worker"] = <<>>
    <3>1. None # "worker"
      BY AsyncAssumption DEF Threads
    <3> QED BY <1>0, <1>1, <3>1 DEF WorkerOK
  <2> QED BY <1>1, <2>1 DEF WorkerOK
<1>7. UNCHANGED <<mode, other, fault>> /\ turn # "dispatcher"
  BY <1>0, <1>1
<1> QED BY <1>3, <1>4, <1>5, <1>6, <1>7, OthersDone
-----------------------------------------------------------------------------
(* The invariant of the specification.                                     *)

\* A tracker without tokens.
LEMMA AsyncInitial ==
  ASSUME Init PROVE AsyncInv
<1> USE DEF Init
<1>1. /\ DOMAIN rec = {} /\ DOMAIN groups = {} /\ DOMAIN byKey = {} /\ DOMAIN batches = {}
      /\ order = <<>> /\ other = None /\ turn = None
  OBVIOUS
<1>2. Types
  <2>1. phase \in [Xfers -> Phases]
    BY DEF PoolInit, Phases
  <2>2. /\ rec \in [DOMAIN rec -> RecordType] /\ groups \in [DOMAIN groups -> GroupType]
        /\ byKey \in [DOMAIN byKey -> GroupIds] /\ batches \in [DOMAIN batches -> BatchType]
    OBVIOUS
  <2>3. order \in Seq(Tokens)
    BY EmptySeq
  <2> QED BY <1>1, <2>1, <2>2, <2>3 DEF Types, PoolTypeOK
<1>3. OrderInv
  <2>1. DOMAIN order = {}
    BY <1>1
  <2> QED BY <1>1, <2>1 DEF OrderInv, IsInjective, ToSet
<1>4. BatchInv
  BY <1>1 DEF BatchInv, PoolInit
<1>5. DataInv
  BY <1>1, <1>2, <1>3, <1>4 DEF DataInv, KeyInv, HazardInv
<1>6. todo \in [Threads -> Seq(OpType)] /\ Todo = <<>> /\ todo["worker"] = <<>>
  BY EmptySeq DEF Threads, Todo
<1>7. DispatcherOK
  <2>1. 1 .. Len(Todo) = {}
    BY <1>6
  <2> QED BY <1>1, <2>1
       DEF DispatcherOK, Shape, TokenOK, CreateOK, StartOK, FenceOK, LooseOK
<1>8. Parked /\ WorkerOK
  BY <1>1, <1>6 DEF Parked, WorkerOK
<1> QED BY <1>5, <1>6, <1>7, <1>8 DEF AsyncInv, CtrlInv, NoFault

\* Every step of a thread, of time and of the engine keeps the invariant.
LEMMA AsyncPreserved ==
  ASSUME CreditsNeverRunOut, AsyncInv, [Next]_vars
  PROVE  AsyncInv'
<1>1. CASE Program
  <2>1. UNCHANGED mode
    BY <1>1 DEF Program
  <2>2. CASE \E t \in Tokens : \E d \in mode.descs : IssueToken(t, d)
    BY <2>1, <2>2, IssueStep
  <2>3. CASE \E t \in Tokens : WaitToken(t)
    BY <2>1, <2>3, WaitStep
  <2>4. CASE \E t \in Tokens : CancelStaged(t)
    BY <2>1, <2>4, CancelStagedStep
  <2>5. CASE \E t \in Tokens : CancelIssued(t)
    BY <2>1, <2>5, CancelIssuedStep
  <2>6. CASE Fence
    BY <2>1, <2>6, FenceStep
  <2>7. CASE SendRecv
    BY <2>1, <2>7, SendRecvStep
  <2> QED BY <1>1, <2>2, <2>3, <2>4, <2>5, <2>6, <2>7 DEF Program
<1>2. CASE Dispatcher
  <2>1. UNCHANGED mode
    BY <1>2 DEF Dispatcher
  <2>2. CASE FlushGroup("dispatcher")
    BY <2>1, <2>2, FlushStep
  <2>3. CASE Bind("dispatcher")
    BY <2>1, <2>3, BindStep
  <2>4. CASE CreateRecord
    BY <2>1, <2>4, CreateStep
  <2>5. CASE StartGroup
    BY <2>1, <2>5, StartGroupStep
  <2>6. CASE Await
    BY <2>1, <2>6, AwaitStep
  <2>7. CASE Settle
    BY <2>1, <2>7, SettleStep
  <2>8. CASE ReleaseToken
    BY <2>1, <2>8, ReleaseStep
  <2>9. CASE Collect
    BY <2>1, <2>9, CollectStep
  <2>10. CASE FenceEnd
    BY <2>1, <2>10, FenceEndStep
  <2>11. CASE Transfer
    BY <2>1, <2>11, TransferStep
  <2>12. CASE TransferDone
    BY <2>1, <2>12, TransferDoneStep
  <2> QED BY <1>2, <2>2, <2>3, <2>4, <2>5, <2>6, <2>7, <2>8, <2>9, <2>10, <2>11, <2>12
          DEF Dispatcher
<1>3. CASE Worker
  <2>1. UNCHANGED mode
    BY <1>3 DEF Worker
  <2>2. CASE WorkerLoop
    BY <2>1, <2>2, WorkerLoopStep
  <2>3. CASE FlushGroup("worker")
    BY <2>1, <2>3, WorkerFlushStep
  <2>4. CASE Bind("worker")
    BY <2>1, <2>4, WorkerBindStep
  <2> QED BY <1>3, <2>2, <2>3, <2>4 DEF Worker
<1>4. CASE Tick
  BY <1>4, TickStep
<1>5. CASE \E x \in Xfers : Engine(x)
  BY <1>5, EngineStep
<1>6. CASE UNCHANGED vars
  <2>1. /\ UNCHANGED dataVars /\ UNCHANGED <<mode, other, fault>> /\ UNCHANGED <<todo, turn>>
        /\ UNCHANGED <<mode, rec, byKey>> /\ groups' = groups
    BY <1>6 DEF vars, dataVars
  <2>2. DataInv /\ DispatcherOK /\ WorkerOK /\ todo \in [Threads -> Seq(OpType)]
        /\ turn' \in Turns
    BY <2>1 DEF AsyncInv, CtrlInv, DataInv, Types, Turns
  <2>3. DataInv' /\ \A t \in DOMAIN rec : Complete(t) => Complete(t)'
    BY <2>1, <2>2, DataKept
  <2>4. Todo' = Todo
    BY <2>1 DEF Todo
  <2>5. DispatcherOK'
    BY <2>1, <2>2, <2>3, <2>4, DispatcherKept
  <2>6. WorkerOK'
    BY <2>1, <2>2 DEF WorkerOK, BindOK
  <2>7. todo' \in [Threads -> Seq(OpType)] /\ (turn # "dispatcher" \/ turn' = "dispatcher")
    BY <2>1, <2>2
  <2> QED BY <2>1, <2>3, <2>4, <2>5, <2>6, <2>7, OthersDone
<1> QED BY <1>1, <1>2, <1>3, <1>4, <1>5, <1>6 DEF Next

\* The invariant holds in every state.
THEOREM AsyncInvariant ==
  ASSUME CreditsNeverRunOut PROVE Spec => []AsyncInv
<1>1. Init => AsyncInv
  BY AsyncInitial
<1>2. AsyncInv /\ [Next]_vars => AsyncInv'
  BY AsyncPreserved
<1> QED BY <1>1, <1>2, PTL DEF Spec

\* Records, groups and batches keep the shape of the structs of the tracker,
\* and order lists every outstanding token once (TypeOK).
THEOREM AsyncTypes ==
  ASSUME CreditsNeverRunOut PROVE Spec => []TypeOK
<1>1. AsyncInv => TypeOK
  <2> SUFFICES ASSUME AsyncInv PROVE TypeOK
    OBVIOUS
  <2>1. DataInv /\ Types /\ OrderInv
    BY DEF AsyncInv, DataInv
  <2>2. ToSet(order) = DOMAIN rec /\ Len(order) = Cardinality(DOMAIN rec)
    BY <2>1, InjectiveLen DEF Types, OrderInv
  <2>3. \A t \in DOMAIN rec :
          /\ rec[t].desc \in mode.descs
          /\ rec[t].xfer \in Xfers \union {None}
          /\ rec[t].staged \in BOOLEAN
          /\ rec[t].group \in GroupIds \union {None}
    BY <2>1 DEF Types, RecordType
  <2>4. \A g \in DOMAIN groups : groups[g].left \in 0 .. TimeoutCycles
    BY <2>1 DEF Types, GroupType
  <2> QED BY <2>1, <2>2, <2>3, <2>4 DEF TypeOK, Types
<1> QED BY <1>1, AsyncInvariant, PTL

\* No call of the tracker ends in an internal error, a records_.at() of an
\* erased token or a second erase of a group (NoFault), whatever the program
\* issues, waits for, cancels and fences while timeoutWorker flushes.
THEOREM CallsNeverFault ==
  ASSUME CreditsNeverRunOut PROVE Spec => []NoFault
<1>1. AsyncInv => NoFault
  BY DEF AsyncInv
<1> QED BY <1>1, AsyncInvariant, PTL

\* A context is released exactly once, with the last of the tokens that share
\* it: the batch counts them (BatchesMatchTokens).
THEOREM BatchesCountTokens ==
  ASSUME CreditsNeverRunOut PROVE Spec => []BatchesMatchTokens
<1>1. AsyncInv => BatchesMatchTokens
  BY DEF AsyncInv, DataInv, BatchInv, Sharers, BatchesMatchTokens
<1> QED BY <1>1, AsyncInvariant, PTL

\* Staged tokens, open groups and the key index agree (GroupsMatchTokens): a
\* token waits in one group, whose members continue each other.
THEOREM GroupsHoldStagedTokens ==
  ASSUME CreditsNeverRunOut PROVE Spec => []GroupsMatchTokens
<1>1. AsyncInv => GroupsMatchTokens
  <2> SUFFICES ASSUME AsyncInv PROVE GroupsMatchTokens
    OBVIOUS
  <2>0. DataInv
    BY DEF AsyncInv
  <2>1. ASSUME NEW t \in DOMAIN rec, NEW g \in DOMAIN groups
        PROVE  t \in ToSet(groups[g].tokens) <=> rec[t].staged /\ rec[t].group = g
    BY <2>0, GroupTokens DEF DataInv, StagedInv
  <2>2. \A t \in DOMAIN rec : rec[t].staged => rec[t].group \in DOMAIN groups
    BY <2>0 DEF DataInv, StagedInv
  <2>3. ASSUME NEW g \in DOMAIN groups
        PROVE  LET toks == groups[g].tokens IN
               /\ toks # <<>> /\ ToSet(toks) \subseteq DOMAIN rec
               /\ Len(toks) <= MaxDescriptors /\ groups[g].bytes <= MaxBytes
               /\ \A i \in 1 .. Len(toks) - 1 :
                    LET d == rec[toks[i]].desc  e == rec[toks[i + 1]].desc
                    IN d.spm + d.size = e.spm /\ d.rem + d.size = e.rem
               /\ byKey[groups[g].key] = g
    <3>1. ToSet(groups[g].tokens) \subseteq DOMAIN rec
      BY <2>0, GroupTokens
    <3>2. GroupInv(g)
      BY <2>0 DEF DataInv
    <3> QED BY <3>1, <3>2 DEF GroupInv, Continues
  <2>4. \A k \in DOMAIN byKey : byKey[k] \in DOMAIN groups
    BY <2>0 DEF DataInv, KeyInv
  <2> QED BY <2>1, <2>2, <2>3, <2>4 DEF GroupsMatchTokens
<1> QED BY <1>1, AsyncInvariant, PTL

\* Two incomplete tokens never touch the same SPM byte when one of them writes
\* it (NoHazardInFlight): IssueToken() has waited for every predecessor, and
\* none becomes incomplete again.
THEOREM NoHazardsInFlight ==
  ASSUME CreditsNeverRunOut PROVE Spec => []NoHazardInFlight
<1>1. AsyncInv => NoHazardInFlight
  <2> SUFFICES ASSUME AsyncInv, NEW t \in DOMAIN rec, NEW u \in DOMAIN rec,
                      t # u, ~Complete(t), ~Complete(u)
               PROVE  LET cells(r) == r.addr .. r.addr + r.size - 1
                          d == rec[t].desc
                          e == rec[u].desc
                      IN cells(WriteRange(d)) \intersect
                           (cells(ReadRange(e)) \union cells(WriteRange(e))) = {}
    BY DEF NoHazardInFlight
  <2> DEFINE d == rec[t].desc
             e == rec[u].desc
             cells(r) == r.addr .. r.addr + r.size - 1
  <2>1. d \in DescType /\ e \in DescType
    BY DEF AsyncInv, DataInv, Types, RecordType
  <2>2. ~HasHazard(d, e)
    BY DEF AsyncInv, DataInv, HazardInv
  <2>3. ~HasHazard(e, d)
    BY <2>1, <2>2, Ranges
  <2> HIDE DEF d, e
  <2>4. /\ WriteRange(d) \in [addr : Nat, size : Nat]
        /\ ReadRange(e) \in [addr : Nat, size : Nat]
        /\ WriteRange(e) \in [addr : Nat, size : Nat]
    BY <2>1, Ranges
  <2>5. ASSUME NEW b \in cells(WriteRange(d)), b \in cells(ReadRange(e)) PROVE FALSE
    <3>1. RangeOverlaps(WriteRange(d), ReadRange(e))
      BY <2>4, <2>5, SharedByte
    <3> QED BY <2>2, <3>1 DEF HasHazard
  <2>6. ASSUME NEW b \in cells(WriteRange(d)), b \in cells(WriteRange(e)) PROVE FALSE
    <3>1. RangeOverlaps(WriteRange(d), WriteRange(e))
      BY <2>4, <2>6, SharedByte
    <3> QED BY <2>2, <3>1 DEF HasHazard
  <2> HIDE DEF cells
  <2>7. cells(WriteRange(d)) \intersect
          (cells(ReadRange(e)) \union cells(WriteRange(e))) = {}
    BY <2>5, <2>6
  <2> QED BY <2>7 DEF d, e, cells
<1> QED BY <1>1, AsyncInvariant, PTL

\* When Fence() reports that no token is outstanding, none is, no group is
\* open and the tracker holds no context (FenceLeavesNothing).
THEOREM FencesLeaveNothing ==
  ASSUME CreditsNeverRunOut PROVE Spec => []FenceLeavesNothing
<1>1. AsyncInv => FenceLeavesNothing
  <2> SUFFICES ASSUME AsyncInv, todo["dispatcher"] # <<>>,
                      Head(todo["dispatcher"]).op = "fenced"
               PROVE  rec = <<>> /\ groups = <<>> /\ batches = <<>>
    BY DEF FenceLeavesNothing
  <2>0. DataInv /\ Types /\ BatchInv /\ DispatcherOK
    BY DEF AsyncInv, CtrlInv, DataInv
  <2>1. Todo \in Seq(OpType) /\ Todo # <<>> /\ Todo[1].op = "fenced"
    <3>1. todo["dispatcher"] \in Seq(OpType)
      BY DEF AsyncInv, CtrlInv, Threads
    <3>2. Head(todo["dispatcher"]) = todo["dispatcher"][1]
      BY <3>1
    <3> QED BY <3>1, <3>2 DEF Todo
  <2>2. 1 \in 1 .. Len(Todo) /\ \A i \in 1 .. Len(Todo) : i = 1
    <3>1. Len(Todo) = 1
      BY <2>1, Alone
    <3> QED BY <3>1
  <2>3. DOMAIN rec = {}
    BY <2>0, <2>1, <2>2 DEF DispatcherOK, FenceOK
  <2>4. DOMAIN groups = {}
    <3> SUFFICES ASSUME NEW g \in DOMAIN groups PROVE FALSE
      OBVIOUS
    <3>1. LET s == groups[g].tokens IN
          Len(s) \in Nat \ {0} /\ (\A i \in 1 .. Len(s) : s[i] \in ToSet(s))
          /\ \A t \in ToSet(s) : t \in DOMAIN rec
      BY <2>0, GroupTokens
    <3> QED BY <2>3, <3>1
  <2>5. DOMAIN batches = {}
    <3> SUFFICES ASSUME NEW x \in DOMAIN batches PROVE FALSE
      OBVIOUS
    <3>1. Cardinality(Sharers(x)) > 0
      BY <2>0 DEF BatchInv
    <3>2. Sharers(x) = {}
      BY <2>3 DEF Sharers
    <3> QED BY <3>1, <3>2, FS_EmptySet
  <2>6. /\ rec \in [DOMAIN rec -> RecordType] /\ groups \in [DOMAIN groups -> GroupType]
        /\ batches \in [DOMAIN batches -> BatchType]
    BY <2>0 DEF Types
  <2>7. rec = <<>>
    BY <2>3, <2>6
  <2>8. groups = <<>>
    BY <2>4, <2>6
  <2>9. batches = <<>>
    BY <2>5, <2>6
  <2> QED BY <2>7, <2>8, <2>9
<1> QED BY <1>1, AsyncInvariant, PTL
=============================================================================
