------------------------------ MODULE DteAsync ------------------------------
(***************************************************************************)
(* DteAsyncTracker (llm/src/dte/dte_async.cpp): the logical tokens a core  *)
(* program issues, waits for, cancels and fences, on top of the descriptor *)
(* pool of its DTE (DtePool; EXTENDS gives the engine's actions).          *)
(*                                                                         *)
(* Two SystemC threads call into the tracker: the core's dispatcher, which *)
(* runs one primitive at a time, and timeoutWorker, which flushes          *)
(* aggregation groups at their deadline.  Threads are cooperative: one     *)
(* keeps the processor (turn) until it suspends in WaitForCredit(), in     *)
(* wait(done) or at the end of its work.  What a thread still has to do is *)
(* todo[thread], the operations up to the end of the call in progress.     *)
(*                                                                         *)
(* issue_sequence numbers are kept as the order of outstanding tokens, and *)
(* group ids are reused once nothing refers to them.                       *)
(***************************************************************************)
EXTENDS DtePool, Integers, Sequences, SequencesExt

CONSTANTS
  Tokens,           \* logical tokens of the core's program
  Modes,            \* the configurations of a core
  None,             \* no context, group or alarm
  MaxDescriptors,   \* aggregation_.max_descriptors
  MaxBytes,         \* aggregation_.max_payload_bytes
  TimeoutCycles,    \* aggregation_.timeout_cycles
  BlockBytes,       \* aggregation_.address_block_bytes
  GroupIds          \* ids of open groups

Dirs == {"SPM_TO_REMOTE", "REMOTE_TO_SPM", "SPM_TO_SPM",
         "SPM_TO_DRAM", "DRAM_TO_SPM"}

\* A descriptor: direction, SPM range, remote peer and address.  The payload
\* fills the range, as ValidateIssue() demands of an aggregated one.
DescType == [dir : Dirs, spm : Nat, size : Nat \ {0}, peer : Nat, rem : Nat]

\* A configuration: aggregation_.enabled, the descriptors of the engine, and the
\* descriptors the program may issue.
ModeType == [aggregation : BOOLEAN, capacity : 1 .. Capacity, descs : SUBSET DescType]

Threads == {"dispatcher", "worker"}

\* ValidateDteAggregationConfig() and ValidateIssue(); a name for the context
\* of every token and of a SEND or RECV.
ASSUME AsyncAssumption ==
  /\ IsFiniteSet(Tokens) /\ Tokens # {}
  /\ Cardinality(Xfers) > Cardinality(Tokens)
  /\ None \notin Tokens /\ None \notin Xfers
  /\ None \notin GroupIds /\ None \notin Threads
  /\ Modes \subseteq ModeType
  /\ GroupIds \subseteq Nat /\ IsFiniteSet(GroupIds)
  /\ \A m \in Modes : m.aggregation =>
       /\ MaxDescriptors \in Nat \ {0, 1}
       /\ MaxBytes \in Nat \ {0}
       /\ TimeoutCycles \in Nat \ {0}
       /\ BlockBytes \in Nat \ {0}
       /\ \A d \in m.descs :
            /\ d.dir \in {"SPM_TO_REMOTE", "REMOTE_TO_SPM"}
            /\ d.rem \div BlockBytes = (d.rem + d.size - 1) \div BlockBytes

VARIABLES
  mode,      \* the configuration of the core
  rec,       \* records_: the record of every outstanding token
  order,     \* the outstanding tokens by issue_sequence
  groups,    \* open_groups_
  byKey,     \* group_by_key_
  batches,   \* physical_batches_, by context
  todo,      \* what each thread has left to do of its present call
  turn,      \* the thread that is running, or None
  alarm,     \* cycles until timeoutWorker's timed wait ends (None: no deadline)
  changed,   \* a pending notification of aggregation_changed_
  ready,     \* the dispatcher has waited its cycle after the last primitive
  other,     \* the context of the SEND or RECV in progress, or None
  fault      \* an internal error has been raised

trackVars == <<rec, order, groups, byKey, batches, fault>>
vars == <<mode, phase, rec, order, groups, byKey, batches, todo, turn, alarm,
          changed, ready, other, fault>>

Init ==
  /\ mode \in Modes
  /\ PoolInit
  /\ rec = <<>>
  /\ order = <<>>
  /\ groups = <<>>
  /\ byKey = <<>>
  /\ batches = <<>>
  /\ todo = [th \in Threads |-> <<>>]
  /\ turn = None
  /\ alarm = None
  /\ changed = TRUE        \* SC_THREAD: the kernel starts timeoutWorker once
  /\ ready = TRUE
  /\ other = None
  /\ fault = "none"
-----------------------------------------------------------------------------
(* Descriptors and hazards.                                                *)

Access(d) == CASE d.dir \in {"SPM_TO_REMOTE", "SPM_TO_DRAM"} -> "READ"
               [] d.dir \in {"REMOTE_TO_SPM", "DRAM_TO_SPM"} -> "WRITE"
               [] d.dir = "SPM_TO_SPM" -> "READ_WRITE"

\* PopulateSpmRanges(): the address and size of what is read and written.
NoRange == [addr |-> 0, size |-> 0]
ReadRange(d) == IF Access(d) = "WRITE" THEN NoRange
                ELSE [addr |-> d.spm, size |-> d.size]
WriteRange(d) == CASE Access(d) = "READ" -> NoRange
                   [] Access(d) = "WRITE" -> [addr |-> d.spm, size |-> d.size]
                   [] Access(d) = "READ_WRITE" ->
                        [addr |-> d.rem, size |-> d.size]

RangeOverlaps(l, r) ==
  /\ l.size # 0 /\ r.size # 0
  /\ l.addr < r.addr + r.size
  /\ r.addr < l.addr + l.size

\* Bug: write after read is not a hazard.
HasHazardNoWAR(e, i) ==
  \/ RangeOverlaps(WriteRange(e), ReadRange(i))
  \/ RangeOverlaps(WriteRange(e), WriteRange(i))

HasHazard(e, i) ==
  \/ RangeOverlaps(WriteRange(e), ReadRange(i))
  \/ RangeOverlaps(WriteRange(e), WriteRange(i))
  \/ RangeOverlaps(ReadRange(e), WriteRange(i))

Complete(t) == rec[t].xfer # None /\ phase[rec[t].xfer] = "COMPLETED"

\* The elements of s that are in S, in the order of s.
Among(s, S) ==
  LET P == {i \in 1 .. Len(s) : s[i] \in S}
  IN [n \in 1 .. Cardinality(P) |->
        s[CHOOSE i \in P : Cardinality({j \in P : j <= i}) = n]]

\* Outstanding tokens an incoming descriptor has to wait for, oldest first.
Conflicts(d) ==
  Among(order, {t \in DOMAIN rec : ~Complete(t) /\ HasHazard(rec[t].desc, d)})

GroupKey(d) == <<d.dir, d.peer, d.rem \div BlockBytes>>

\* Bug: the addresses need not continue the group.
CanAppendAnywhere(g, d) ==
  /\ Len(g.tokens) < MaxDescriptors
  /\ g.bytes <= MaxBytes - d.size

CanAppend(g, d) ==
  /\ Len(g.tokens) < MaxDescriptors
  /\ g.bytes <= MaxBytes - d.size
  /\ g.nextSpm = d.spm
  /\ g.nextRem = d.rem
-----------------------------------------------------------------------------
(* Threads.                                                                *)

\* An operation: its name and what it is applied to.
NoOp == [op |-> "none", token |-> None, desc |-> None, group |-> None,
         key |-> None, tokens |-> <<>>]

Op(name) == [NoOp EXCEPT !.op = name]
TokenOp(name, t) == [NoOp EXCEPT !.op = name, !.token = t]
GroupOp(name, g) == [NoOp EXCEPT !.op = name, !.group = g]

\* Where a thread suspends within a call: WaitForCredit() and wait(done).
Blocked(o) ==
  \/ o.op \in {"bind", "transfer"} /\ ~CanAccept(mode.capacity)
  \/ o.op = "settle" /\ rec[o.token].xfer # None /\ ~Complete(o.token)
  \/ o.op = "transferred" /\ phase[other] # "COMPLETED"

\* Thread th performs its next operation, which is a name.
Runs(th, name) ==
  /\ fault = "none"
  /\ turn \in {None, th}
  /\ todo[th] # <<>>
  /\ Head(todo[th]).op = name
  /\ ~Blocked(Head(todo[th]))

Arg(th) == Head(todo[th])

\* The operation is replaced by ops; the thread keeps the processor unless
\* its call is over or it blocks.  timeoutWorker goes back to its loop.
Continue(th, ops) ==
  /\ todo' = [todo EXCEPT ![th] = ops \o Tail(@)]
  /\ turn' = IF \/ todo'[th] = <<>> /\ th = "dispatcher"
                \/ todo'[th] # <<>> /\ Blocked(Head(todo[th]))'
             THEN None ELSE th
  /\ UNCHANGED ready

\* A thrown logic_error, an out_of_range or undefined behaviour.
Raise(what) ==
  /\ fault' = what
  /\ UNCHANGED <<phase, rec, order, groups, byKey, batches, todo, turn, alarm,
                 changed, ready, other>>

Without(f, k) == Restrict(f, DOMAIN f \ {k})
With(f, k, v) == [x \in DOMAIN f \union {k} |-> IF x = k THEN v ELSE f[x]]
-----------------------------------------------------------------------------
(* Physical batches and aggregation groups.                                *)

\* Bug: the batch forgets the member that closed the group.
BatchOffByOne(n) == [remaining |-> n - 1, members |-> n]

Batch(n) == [remaining |-> n, members |-> n]

BindOp(toks, g, key) == [NoOp EXCEPT !.op = "bind", !.tokens = toks,
                                     !.group = g, !.key = key]

\* FlushGroup() up to IssuePhysical()'s WaitForCredit(): the group is copied.
FlushGroup(th) ==
  /\ Runs(th, "flush")
  /\ UNCHANGED <<phase, trackVars, alarm, changed, other>>
  /\ LET g == Arg(th).group
     IN Continue(th, IF g \in DOMAIN groups
                     THEN <<BindOp(groups[g].tokens, g, groups[g].key)>>
                     ELSE <<>>)

\* IssuePhysical() once a credit is free, and the rest of FlushGroup(): the
\* tokens of the copy are bound to a new context, the group is erased.
Bind(th) ==
  LET toks == Arg(th).tokens
      g == Arg(th).group
      x == CHOOSE y \in Xfers : phase[y] = "FREE"
  IN
  /\ Runs(th, "bind")
  /\ \/ /\ ~(ToSet(toks) \subseteq DOMAIN rec)
        /\ Raise("token without a record")
     \/ /\ ToSet(toks) \subseteq DOMAIN rec
        /\ g # None /\ g \notin DOMAIN groups
        /\ Raise("group erased twice")
     \/ /\ ToSet(toks) \subseteq DOMAIN rec
        /\ g = None \/ g \in DOMAIN groups
        /\ PoolIssueUpTo(x, mode.capacity)
        /\ batches' = With(batches, x, Batch(Len(toks)))
        /\ rec' = [t \in DOMAIN rec |->
                     IF t \in ToSet(toks)
                     THEN [rec[t] EXCEPT !.xfer = x, !.staged = FALSE]
                     ELSE rec[t]]
        /\ groups' = IF g = None THEN groups ELSE Without(groups, g)
        /\ byKey' = IF g = None THEN byKey ELSE Without(byKey, Arg(th).key)
        /\ changed' = (changed \/ g # None)
        /\ UNCHANGED <<order, alarm, other, fault>>
        /\ Continue(th, <<>>)

\* Group ids something still refers to.
UsedGroups ==
  DOMAIN groups \union
  {g \in GroupIds : \E th \in Threads : \E i \in 1 .. Len(todo[th]) :
                      todo[th][i].group = g}

\* A group is full: IssueToken() flushes it at once.
Full(g) == Len(g.tokens) >= MaxDescriptors \/ g.bytes >= MaxBytes

\* Bug: the new group does not wake timeoutWorker.
NoNotify == changed

NotifyChanged == TRUE

\* StartAggregationGroup() and the test for a full group after it.
StartGroup ==
  /\ Runs("dispatcher", "start")
  /\ LET t == Arg("dispatcher").token
         d == rec[t].desc
         g == CHOOSE i \in GroupIds \ UsedGroups :
                \A j \in GroupIds \ UsedGroups : i <= j
         new == [key |-> GroupKey(d), tokens |-> <<t>>, bytes |-> d.size,
                 nextSpm |-> d.spm + d.size, nextRem |-> d.rem + d.size,
                 left |-> TimeoutCycles]
     IN /\ groups' = With(groups, g, new)
        /\ byKey' = With(byKey, GroupKey(d), g)
        /\ rec' = [rec EXCEPT ![t].group = g, ![t].staged = TRUE]
        /\ changed' = NotifyChanged
        /\ UNCHANGED <<phase, order, batches, alarm, other, fault>>
        /\ Continue("dispatcher",
                    IF Full(new) THEN <<GroupOp("flush", g)>> ELSE <<>>)

\* The record of a token enters records_; AppendToAggregationGroup() if its
\* key has an open group it extends, else a new group or a transfer of its own.
CreateRecord ==
  LET t == Arg("dispatcher").token
      d == Arg("dispatcher").desc
      new == [desc |-> d, xfer |-> None, staged |-> FALSE, group |-> None]
      single == ~mode.aggregation \/ d.size > MaxBytes
      g == byKey[GroupKey(d)]
      grown == [groups[g] EXCEPT !.tokens = Append(@, t),
                                 !.bytes = @ + d.size,
                                 !.nextSpm = d.spm + d.size,
                                 !.nextRem = d.rem + d.size]
  IN
  /\ Runs("dispatcher", "create")
  /\ order' = Append(order, t)
  /\ UNCHANGED <<phase, byKey, batches, alarm, changed, other, fault>>
  /\ \/ /\ single
        /\ rec' = With(rec, t, new)
        /\ UNCHANGED groups
        /\ Continue("dispatcher",
                    <<BindOp(<<t>>, None, None)>>)
     \/ /\ ~single
        /\ GroupKey(d) \notin DOMAIN byKey
        /\ rec' = With(rec, t, new)
        /\ UNCHANGED groups
        /\ Continue("dispatcher", <<TokenOp("start", t)>>)
     \/ /\ ~single
        /\ GroupKey(d) \in DOMAIN byKey
        /\ CanAppend(groups[g], d)
        /\ rec' = With(rec, t, [new EXCEPT !.group = g, !.staged = TRUE])
        /\ groups' = [groups EXCEPT ![g] = grown]
        /\ Continue("dispatcher",
                    IF Full(grown) THEN <<GroupOp("flush", g)>> ELSE <<>>)
     \/ /\ ~single
        /\ GroupKey(d) \in DOMAIN byKey
        /\ ~CanAppend(groups[g], d)
        /\ rec' = With(rec, t, new)
        /\ UNCHANGED groups
        /\ Continue("dispatcher", <<GroupOp("flush", g), TokenOp("start", t)>>)
-----------------------------------------------------------------------------
(* Waiting, releasing, cancelling.                                         *)

\* WaitForCompletion() up to its wait: a staged token's group is flushed.
Await ==
  LET t == Arg("dispatcher").token
  IN /\ Runs("dispatcher", "await")
     /\ UNCHANGED <<phase, trackVars, alarm, changed, other>>
     /\ Continue("dispatcher",
                 IF rec[t].staged
                 THEN <<GroupOp("flush", rec[t].group), TokenOp("settle", t)>>
                 ELSE <<TokenOp("settle", t)>>)

\* The rest of WaitForCompletion(), once the transfer is complete.
Settle ==
  LET t == Arg("dispatcher").token
  IN /\ Runs("dispatcher", "settle")
     /\ \/ /\ rec[t].xfer = None
           /\ Raise("token/context mapping is corrupt")
        \/ /\ rec[t].xfer # None
           /\ UNCHANGED <<phase, trackVars, alarm, changed, other>>
           /\ Continue("dispatcher", <<>>)

\* Bug: an erased token keeps its place in the order.
ForgetNothing(t) == order

\* records_.erase(token)
Forget(t) == RemoveAt(order, CHOOSE i \in 1 .. Len(order) : order[i] = t)

\* Bug: the context is released with the first token of its batch.
ReleasesEarly(x) == TRUE

LastToken(x) == batches[x].remaining = 1

\* WaitAndRelease() after its wait: the last token of a batch releases it.
ReleaseToken ==
  LET t == Arg("dispatcher").token
      x == rec[t].xfer
  IN /\ Runs("dispatcher", "release")
     /\ \/ /\ x \notin DOMAIN batches \/ batches[x].remaining = 0
           /\ Raise("physical batch accounting is corrupt")
        \/ /\ x \in DOMAIN batches /\ batches[x].remaining > 0
           /\ rec' = Without(rec, t)
           /\ order' = Forget(t)
           /\ \/ /\ LastToken(x)
                 /\ PoolRelease(x)
                 /\ batches' = Without(batches, x)
              \/ /\ ~LastToken(x)
                 /\ batches' = [batches EXCEPT ![x].remaining = @ - 1]
                 /\ UNCHANGED phase
           /\ UNCHANGED <<groups, byKey, alarm, changed, other, fault>>
           /\ Continue("dispatcher", <<>>)

\* A SEND or RECV of the same dispatcher runs a transfer of its own: it waits
\* for a credit, issues, waits for the completion and releases.
Transfer ==
  LET x == CHOOSE y \in Xfers : phase[y] = "FREE"
  IN /\ Runs("dispatcher", "transfer")
     /\ PoolIssueUpTo(x, mode.capacity)
     /\ other' = x
     /\ UNCHANGED <<trackVars, alarm, changed>>
     /\ Continue("dispatcher", <<Op("transferred")>>)

TransferDone ==
  /\ Runs("dispatcher", "transferred")
  /\ PoolRelease(other)
  /\ other' = None
  /\ UNCHANGED <<trackVars, alarm, changed>>
  /\ Continue("dispatcher", <<>>)

\* The core program starts a call: its dispatcher is between primitives.
Idle == fault = "none" /\ turn = None /\ ready /\ todo["dispatcher"] = <<>>

Start(ops) ==
  /\ Idle
  /\ todo' = [todo EXCEPT !["dispatcher"] = ops]
  /\ turn' = IF Blocked(Head(ops)) THEN None ELSE "dispatcher"
  /\ ready' = FALSE
  /\ UNCHANGED <<phase, trackVars, alarm, changed, other>>

\* IssueToken(): wait for the conflicting tokens, then create the record.
IssueToken(t, d) ==
  /\ t \notin DOMAIN rec
  /\ UsedGroups # GroupIds
  /\ Start([i \in 1 .. Len(Conflicts(d)) |-> TokenOp("await", Conflicts(d)[i])]
           \o <<[TokenOp("create", t) EXCEPT !.desc = d]>>)

WaitToken(t) ==
  /\ t \in DOMAIN rec
  /\ Start(<<TokenOp("await", t), TokenOp("release", t)>>)

SendRecv == Start(<<Op("transfer")>>)

\* Groups in the order of their first token's issue_sequence.
ByFirstToken(S) ==
  LET heads == Among(order, {Head(groups[g].tokens) : g \in S})
  IN [i \in 1 .. Len(heads) |->
        CHOOSE g \in S : Head(groups[g].tokens) = heads[i]]

FlushOps(S) ==
  LET gs == ByFirstToken(S) IN [i \in 1 .. Len(gs) |-> GroupOp("flush", gs[i])]

FlushAllOpenGroups == FlushOps(DOMAIN groups)

\* Fence(): flush every open group, then wait for and release every token.
Fence == Start(FlushAllOpenGroups \o <<Op("collect")>>)

\* Bug: the last outstanding token is not waited for.
FenceTokensButLast == SubSeq(order, 1, Len(order) - 1)

\* The outstanding tokens by issue_sequence.
FenceTokens == order

Collect ==
  /\ Runs("dispatcher", "collect")
  /\ UNCHANGED <<phase, trackVars, alarm, changed, other>>
  /\ Continue("dispatcher",
              [i \in 1 .. 2 * Len(FenceTokens) |->
                 TokenOp(IF i % 2 = 1 THEN "await" ELSE "release",
                         FenceTokens[(i + 1) \div 2])]
              \o <<Op("fenced")>>)

\* The fence is over: the trace says that no token is outstanding.
FenceEnd ==
  /\ Runs("dispatcher", "fenced")
  /\ UNCHANGED <<phase, trackVars, alarm, changed, other>>
  /\ Continue("dispatcher", <<>>)

\* CancelStagedToken(): only the tail of an open group may be cancelled.
CancelStaged(t) ==
  /\ Idle
  /\ t \in DOMAIN rec
  /\ rec[t].staged
  /\ LET g == rec[t].group
         rest == Front(groups[g].tokens)
         tail == rec[Last(rest)].desc
     IN \/ /\ g \notin DOMAIN groups
           /\ Raise("staged token has no open group")
        \/ /\ g \in DOMAIN groups
           /\ Last(groups[g].tokens) = t
           /\ rec' = Without(rec, t)
           /\ order' = Forget(t)
           /\ \/ /\ rest = <<>>
                 /\ byKey' = Without(byKey, groups[g].key)
                 /\ groups' = Without(groups, g)
              \/ /\ rest # <<>>
                 /\ groups' = [groups EXCEPT
                                 ![g].tokens = rest,
                                 ![g].bytes = @ - rec[t].desc.size,
                                 ![g].nextSpm = tail.spm + tail.size,
                                 ![g].nextRem = tail.rem + tail.size]
                 /\ UNCHANGED byKey
           /\ changed' = TRUE
           /\ ready' = FALSE
           /\ UNCHANGED <<phase, batches, todo, turn, alarm, other, fault>>

\* CancelToken() of an issued token: alone in its batch and still pending;
\* the context is cancelled and released at once.
CancelIssued(t) ==
  /\ Idle
  /\ t \in DOMAIN rec
  /\ ~rec[t].staged
  /\ LET x == rec[t].xfer
     IN /\ x \in DOMAIN batches
        /\ batches[x].members = 1
        /\ phase[x] = "PENDING"
        /\ phase' = [phase EXCEPT ![x] = "FREE"]
        /\ batches' = Without(batches, x)
  /\ rec' = Without(rec, t)
  /\ order' = Forget(t)
  /\ ready' = FALSE
  /\ UNCHANGED <<groups, byKey, todo, turn, alarm, changed, other, fault>>
-----------------------------------------------------------------------------
(* timeoutWorker, time, the engine and the other clients of the engine.    *)

Due == {g \in DOMAIN groups : groups[g].left = 0}

Deadlines == {groups[g].left : g \in DOMAIN groups}

\* One pass of the loop: sleep until a change, until the earliest deadline,
\* or flush the groups whose deadline has come.
WorkerLoop ==
  /\ fault = "none"
  /\ todo["worker"] = <<>>
  /\ \/ turn = "worker" /\ UNCHANGED changed
     \/ /\ turn = None
        /\ changed \/ alarm = 0
        /\ changed' = FALSE
  /\ \/ /\ ~mode.aggregation \/ groups = <<>>
        /\ alarm' = None
        /\ turn' = None
        /\ UNCHANGED todo
     \/ /\ mode.aggregation /\ groups # <<>> /\ Due = {}
        /\ alarm' = CHOOSE n \in Deadlines : \A m \in Deadlines : n <= m
        /\ turn' = None
        /\ UNCHANGED todo
     \/ /\ mode.aggregation /\ Due # {}
        /\ alarm' = None
        /\ turn' = "worker"
        /\ todo' = [todo EXCEPT !["worker"] = FlushOps(Due)]
  /\ UNCHANGED <<phase, trackVars, ready, other>>

\* Simulated time advances by a cycle when no thread is runnable; it ends the
\* wait(CYCLE) of worker_core_execute() between two primitives.
Tick ==
  /\ fault = "none" /\ turn = None /\ ~changed /\ alarm # 0
  /\ \A th \in Threads : todo[th] # <<>> => Blocked(Head(todo[th]))
  /\ ready' = (todo["dispatcher"] = <<>>)
  /\ alarm' = IF alarm = None THEN None ELSE alarm - 1
  /\ groups' = [g \in DOMAIN groups |->
                  [groups[g] EXCEPT !.left = IF @ > 0 THEN @ - 1 ELSE 0]]
  /\ UNCHANGED <<mode, phase, rec, order, byKey, batches, todo, turn, changed,
                 other, fault>>

Engine(x) ==
  /\ fault = "none" /\ turn = None
  /\ PoolAdmit(x) \/ PoolComplete({x})
  /\ UNCHANGED <<mode, trackVars, todo, turn, alarm, changed, ready, other>>

Program ==
  /\ UNCHANGED mode
  /\ \/ \E t \in Tokens : \/ \E d \in mode.descs : IssueToken(t, d)
                          \/ WaitToken(t)
                          \/ CancelStaged(t)
                          \/ CancelIssued(t)
     \/ Fence
     \/ SendRecv

Dispatcher ==
  /\ UNCHANGED mode
  /\ \/ FlushGroup("dispatcher") \/ Bind("dispatcher")
     \/ CreateRecord \/ StartGroup \/ Await \/ Settle \/ ReleaseToken
     \/ Collect \/ FenceEnd \/ Transfer \/ TransferDone

Worker ==
  /\ UNCHANGED mode
  /\ WorkerLoop \/ FlushGroup("worker") \/ Bind("worker")

Next ==
  \/ Program \/ Dispatcher \/ Worker \/ Tick
  \/ \E x \in Xfers : Engine(x)

Spec == Init /\ [][Next]_vars

\* The threads run when they can, time passes, and the engine serves every
\* transfer (DteUnit's EveryTransferEnds in the single-bus mode).
Fairness ==
  /\ WF_vars(Dispatcher)
  /\ WF_vars(Worker)
  /\ WF_vars(Tick)
  /\ \A x \in Xfers : SF_vars(Engine(x))

FairSpec == Spec /\ Fairness
-----------------------------------------------------------------------------
(* Properties.                                                             *)

\* Records, groups and batches have the shape of the structs of the tracker.
TypeOK ==
  /\ PoolTypeOK
  /\ DOMAIN rec \subseteq Tokens
  /\ \A t \in DOMAIN rec :
       /\ rec[t].desc \in mode.descs
       /\ rec[t].xfer \in Xfers \union {None}
       /\ rec[t].staged \in BOOLEAN
       /\ rec[t].group \in GroupIds \union {None}
  /\ ToSet(order) = DOMAIN rec
  /\ Len(order) = Cardinality(DOMAIN rec)
  /\ DOMAIN groups \subseteq GroupIds
  /\ \A g \in DOMAIN groups : groups[g].left \in 0 .. TimeoutCycles
  /\ DOMAIN batches \subseteq Xfers
  /\ other \in Xfers \union {None}
  /\ turn \in Threads \union {None}

\* No call ends in one of the tracker's internal errors ("mapping is corrupt",
\* "batch accounting is corrupt", "staged token has no open group"), in a
\* records_.at() of an erased token, or in an erase of a group already erased.
NoFault == fault = "none"

\* Every context the tracker holds is shared by exactly the tokens still to
\* be consumed, so it is released once, with the last of them; a context no
\* token refers to would never be released, and no token refers to a context
\* that has been released.
BatchesMatchTokens ==
  /\ \A x \in DOMAIN batches :
       /\ batches[x].remaining = Cardinality({t \in DOMAIN rec : rec[t].xfer = x})
       /\ batches[x].remaining > 0
       /\ phase[x] # "FREE"
       /\ x # other
  /\ \A t \in DOMAIN rec : rec[t].xfer \in DOMAIN batches \union {None}

\* A staged token is a member of the open group it names and of no other, and
\* an open group holds staged tokens only, within the configured limits; the
\* key index names every open group.
GroupsMatchTokens ==
  /\ \A t \in DOMAIN rec, g \in DOMAIN groups :
       t \in ToSet(groups[g].tokens) <=> rec[t].staged /\ rec[t].group = g
  /\ \A t \in DOMAIN rec : rec[t].staged => rec[t].group \in DOMAIN groups
  /\ \A g \in DOMAIN groups :
       LET toks == groups[g].tokens IN
       /\ toks # <<>> /\ ToSet(toks) \subseteq DOMAIN rec
       /\ Len(toks) <= MaxDescriptors /\ groups[g].bytes <= MaxBytes
       /\ \A i \in 1 .. Len(toks) - 1 :
            LET d == rec[toks[i]].desc  e == rec[toks[i + 1]].desc
            IN d.spm + d.size = e.spm /\ d.rem + d.size = e.rem
       /\ byKey[groups[g].key] = g
  /\ \A k \in DOMAIN byKey : byKey[k] \in DOMAIN groups

\* Two incomplete tokens never touch the same SPM bytes when one of them
\* writes: IssueToken() has waited for every RAW, WAW and WAR predecessor.
NoHazardInFlight ==
  \A t, u \in DOMAIN rec :
    t # u /\ ~Complete(t) /\ ~Complete(u) =>
      LET cells(r) == r.addr .. r.addr + r.size - 1
          d == rec[t].desc
          e == rec[u].desc
      IN cells(WriteRange(d)) \intersect
           (cells(ReadRange(e)) \union cells(WriteRange(e))) = {}

\* When Fence() reports "count=0", no token is outstanding, no group is open
\* and the tracker holds no context.
FenceLeavesNothing ==
  todo["dispatcher"] # <<>> /\ Head(todo["dispatcher"]).op = "fenced" =>
    rec = <<>> /\ groups = <<>> /\ batches = <<>>

\* A staged token is bound to a transfer or cancelled without any further
\* call of the program: timeoutWorker never misses a group.
StagedIsFlushed ==
  \A t \in Tokens :
    (t \in DOMAIN rec /\ rec[t].staged) ~> ~(t \in DOMAIN rec /\ rec[t].staged)

\* Every call of the program returns.
CallsReturn == todo["dispatcher"] # <<>> ~> todo["dispatcher"] = <<>>
=============================================================================
