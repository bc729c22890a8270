------------------------------ MODULE DteUnit ------------------------------
(***************************************************************************)
(* DTEUnit (llm/src/dte/dte_unit.cpp): the per-core data transfer engine.  *)
(*                                                                         *)
(* Clients (the SEND and RECV tasks and the asynchronous tracker of a      *)
(* worker core) call Issue, Cancel and Release; the SC_THREAD scheduler    *)
(* admits pending descriptors into command slots, waits out their launch   *)
(* delay, gives them the ports their direction needs, round robin over the *)
(* slots, and completes them when their slowest port is done.              *)
(*                                                                         *)
(* SystemC threads are cooperative: a client runs only while the scheduler *)
(* is suspended, so client actions require sched = "sleep" and the passes  *)
(* of the scheduler loop are consecutive actions ordered by sched.         *)
(* Time is kept as cycles left to each deadline; Tick advances it.         *)
(***************************************************************************)
EXTENDS Integers, FiniteSets, Sequences, SequencesExt

CONSTANTS
  Xfers,            \* names of transfer contexts
  None,             \* a null context pointer
  FineGrained,      \* config.fine_grained_resources (the V4 engine)
  Channels,         \* config.channel_count
  SlotsPerChannel,  \* config.command_slots_per_channel
  PendingDepth,     \* config.pending_queue_depth
  LaunchTime,       \* gamma_cycles + tau_launch_cycles
  Dirs,             \* transfer directions the clients use
  Payloads,         \* payload_bits the clients use
  PortWidth         \* width of every port in bits per cycle

Directions == {"SPM_TO_REMOTE", "REMOTE_TO_SPM", "SPM_TO_SPM",
               "SPM_TO_DRAM", "DRAM_TO_SPM", "DRAM_TO_REMOTE"}

Ports == {"LEGACY_BUS", "SPM_READ", "SPM_WRITE", "AXI_READ", "AXI_WRITE"}

\* ValidateConfig(), and the directions TryIssue() accepts in legacy mode.
ASSUME ConfigAssumption ==
  /\ IsFiniteSet(Xfers)
  /\ None \notin Xfers
  /\ FineGrained \in BOOLEAN
  /\ Channels \in Nat \ {0}
  /\ SlotsPerChannel \in Nat \ {0}
  /\ FineGrained => SlotsPerChannel = 2
  /\ PendingDepth \in Nat \ {0}
  /\ LaunchTime \in Nat
  /\ Dirs \subseteq Directions
  /\ ~FineGrained => Dirs \subseteq {"SPM_TO_REMOTE", "REMOTE_TO_SPM"}
  /\ Payloads \subseteq Nat \ {0}
  /\ PortWidth \in [Ports -> Nat \ {0}]

SlotCount == Channels * SlotsPerChannel
Slots == 0 .. SlotCount - 1

\* RequiredPorts(dir, fine_grained)
RequiredPorts(d) ==
  IF ~FineGrained
  THEN {"LEGACY_BUS"}
  ELSE CASE d = "SPM_TO_REMOTE"  -> {"SPM_READ"}
         [] d = "REMOTE_TO_SPM"  -> {"SPM_WRITE"}
         [] d = "SPM_TO_SPM"     -> {"SPM_READ", "SPM_WRITE"}
         [] d = "SPM_TO_DRAM"    -> {"SPM_READ", "AXI_WRITE"}
         [] d = "DRAM_TO_SPM"    -> {"AXI_READ", "SPM_WRITE"}
         [] d = "DRAM_TO_REMOTE" -> {"AXI_READ"}

\* serviceTime(): ceil(payload_bits / width) cycles.
ServiceTime(b, p) == (b + PortWidth[p] - 1) \div PortWidth[p]

\* descriptorCapacity(); unbounded in legacy mode, where the names of
\* contexts are the only bound of the model.
DescriptorCapacity ==
  IF FineGrained THEN SlotCount + PendingDepth ELSE Cardinality(Xfers) + 1

States == {"FREE", "PENDING", "LAUNCHING", "BUS_WAIT", "TRANSMITTING",
           "COMPLETED", "CANCELLED"}

VARIABLES
  state,           \* DteTransferState of every context ("FREE": not allocated)
  dir,             \* direction of every context
  bits,            \* payload_bits of every context
  launchLeft,      \* launch_done_time - now
  portLeft,        \* resource_done_times - now, per context and port
  mask,            \* active_resource_mask
  pending,         \* pending_: the queue of admitted descriptors
  active,          \* active_: the context in every command slot
  owner,           \* resource_owners_: the context that holds every port
  activeCount,     \* active_count_
  inflightCount,   \* inflight_count_
  lastServed,      \* last_served_slot_
  sched,           \* where the scheduler thread is
  progressed,      \* its local flag
  notified         \* a pending notification of state_changed_

ctxVars   == <<state, dir, bits, launchLeft, portLeft, mask>>
tableVars == <<pending, active, owner, activeCount, inflightCount, lastServed>>
loopVars  == <<sched, progressed, notified>>
vars      == <<state, dir, bits, launchLeft, portLeft, mask,
               pending, active, owner, activeCount, inflightCount, lastServed,
               sched, progressed, notified>>

AnyDir  == CHOOSE d \in Directions : TRUE
NoTimes == [p \in Ports |-> 0]

Init ==
  /\ state = [x \in Xfers |-> "FREE"]
  /\ dir = [x \in Xfers |-> AnyDir]
  /\ bits = [x \in Xfers |-> 0]
  /\ launchLeft = [x \in Xfers |-> 0]
  /\ portLeft = [x \in Xfers |-> NoTimes]
  /\ mask = [x \in Xfers |-> {}]
  /\ pending = <<>>
  /\ active = [s \in Slots |-> None]
  /\ owner = [p \in Ports |-> None]
  /\ activeCount = 0
  /\ inflightCount = 0
  /\ lastServed = -1
  /\ sched = "sleep"      \* SC_THREAD: the kernel starts it at time 0, before
  /\ notified = TRUE      \* or after the clients' first step
  /\ progressed = FALSE
-----------------------------------------------------------------------------
(* The clients.                                                            *)

\* Bug: one descriptor more than the credits.
OverAccept == inflightCount <= DescriptorCapacity

CanAccept == inflightCount < DescriptorCapacity

\* TryIssue() on a free credit.  A client that finds none is blocked in
\* WaitForCredit(), which re-tests CanAccept() whenever it is woken.
Issue(x, b, d) ==
  /\ sched = "sleep"
  /\ state[x] = "FREE"
  /\ CanAccept
  /\ state' = [state EXCEPT ![x] = "PENDING"]
  /\ dir' = [dir EXCEPT ![x] = d]
  /\ bits' = [bits EXCEPT ![x] = b]
  /\ pending' = Append(pending, x)
  /\ inflightCount' = inflightCount + 1
  /\ notified' = TRUE
  /\ UNCHANGED <<launchLeft, portLeft, mask, active, owner, activeCount,
                 lastServed, sched, progressed>>

\* Cancel() returns false, changing nothing, unless the context is pending.
Cancel(x) ==
  /\ sched = "sleep"
  /\ state[x] = "PENDING"
  /\ \E i \in 1 .. Len(pending) :
       /\ pending[i] = x
       /\ pending' = RemoveAt(pending, i)
  /\ state' = [state EXCEPT ![x] = "CANCELLED"]
  /\ inflightCount' = inflightCount - 1
  /\ notified' = TRUE
  /\ UNCHANGED <<dir, bits, launchLeft, portLeft, mask, active, owner,
                 activeCount, lastServed, sched, progressed>>

\* Bug: a context is erased although the engine still refers to it.
ReleasableAnytime(x) == state[x] # "FREE"

Releasable(x) == state[x] \in {"COMPLETED", "CANCELLED"}

\* Release() erases the context of a completed or cancelled transfer.
Release(x) ==
  /\ sched = "sleep"
  /\ Releasable(x)
  /\ state' = [state EXCEPT ![x] = "FREE"]
  /\ dir' = [dir EXCEPT ![x] = AnyDir]
  /\ bits' = [bits EXCEPT ![x] = 0]
  /\ UNCHANGED <<launchLeft, portLeft, mask, tableVars, loopVars>>
-----------------------------------------------------------------------------
(* The scheduler thread.                                                   *)

\* Ports of a transmitting context whose service has ended.
DuePorts(x) == {p \in mask[x] : portLeft[x][p] = 0}

ServicesDue == {x \in Xfers : state[x] = "TRANSMITTING" /\ DuePorts(x) # {}}
LaunchesDue == {x \in Xfers : state[x] = "LAUNCHING" /\ launchLeft[x] = 0}

\* The deadline the scheduler sleeps for has been reached.
DeadlineReached == ServicesDue # {} \/ LaunchesDue # {}

Wake ==
  /\ sched = "sleep"
  /\ notified \/ DeadlineReached
  /\ sched' = "ports"
  /\ progressed' = FALSE
  /\ notified' = FALSE
  /\ UNCHANGED <<ctxVars, tableVars>>

\* Bug: a compound transfer completes with its fastest port.
CompletingWithFirstPort == ServicesDue

\* Contexts of the slots whose last port service ends in this pass.
Completing == {x \in ServicesDue : DuePorts(x) = mask[x]}

FinishPortServices ==
  /\ sched = "ports"
  /\ owner' = [p \in Ports |->
                 IF \E x \in ServicesDue : p \in DuePorts(x) THEN None
                                                             ELSE owner[p]]
  /\ mask' = [x \in Xfers |->
                IF x \in ServicesDue THEN mask[x] \ DuePorts(x) ELSE mask[x]]
  /\ state' = [x \in Xfers |->
                 IF x \in Completing THEN "COMPLETED" ELSE state[x]]
  /\ portLeft' = [x \in Xfers |->
                    IF x \in Completing THEN NoTimes ELSE portLeft[x]]
  /\ active' = [s \in Slots |->
                  IF active[s] \in Completing THEN None ELSE active[s]]
  /\ activeCount' = activeCount - Cardinality(Completing)
  /\ inflightCount' = inflightCount - Cardinality(Completing)
  /\ progressed' = (ServicesDue # {})
  /\ sched' = "launches"
  /\ UNCHANGED <<dir, bits, launchLeft, pending, lastServed, notified>>

FinishLaunches ==
  /\ sched = "launches"
  /\ state' = [x \in Xfers |->
                 IF x \in LaunchesDue THEN "BUS_WAIT" ELSE state[x]]
  /\ progressed' = (progressed \/ LaunchesDue # {})
  /\ sched' = "admit"
  /\ UNCHANGED <<dir, bits, launchLeft, portLeft, mask, tableVars, notified>>

\* Bug: the last slot is never used.
AdmissibleOffByOne == pending # <<>> /\ activeCount + 1 < SlotCount

Admissible == pending # <<>> /\ activeCount < SlotCount

\* One iteration of admitPending(): the head of pending_ takes the first
\* free slot.
AdmitPending ==
  /\ sched = "admit"
  /\ Admissible
  /\ LET x == Head(pending)
     IN \E s \in Slots :
          /\ active[s] = None
          /\ \A t \in Slots : t < s => active[t] # None
          /\ active' = [active EXCEPT ![s] = x]
          /\ state' = [state EXCEPT ![x] = "LAUNCHING"]
          /\ launchLeft' = [launchLeft EXCEPT ![x] = LaunchTime]
  /\ pending' = Tail(pending)
  /\ activeCount' = activeCount + 1
  /\ progressed' = TRUE
  /\ UNCHANGED <<dir, bits, portLeft, mask, owner, inflightCount, lastServed,
                 sched, notified>>

AdmitDone ==
  /\ sched = "admit"
  /\ ~Admissible
  /\ sched' = "start"
  /\ UNCHANGED <<ctxVars, tableVars, progressed, notified>>

ResourcesAvailable(x) == \A p \in RequiredPorts(dir[x]) : owner[p] = None

SlotReady(s) ==
  /\ active[s] # None
  /\ state[active[s]] = "BUS_WAIT"
  /\ ResourcesAvailable(active[s])

\* Bug: the probe restarts at slot 0, which is a fixed priority.
ProbedFromZero(offset) == (offset - 1) % SlotCount

\* Bug: the probe starts at the last served slot itself.
ProbedFromLast(offset) == (lastServed + offset - 1 + SlotCount) % SlotCount

\* The slot chooseReadySlot() probes at an offset after the last served one.
ProbedSlot(offset) == (lastServed + offset + SlotCount) % SlotCount

\* One iteration of startReadyTransfers(): the first ready slot after the
\* last served one takes all its ports at once.
StartReadyTransfer ==
  /\ sched = "start"
  /\ \E offset \in 1 .. SlotCount :
       LET s == ProbedSlot(offset)
           x == active[s]
       IN /\ SlotReady(s)
          /\ \A o \in 1 .. offset - 1 : ~SlotReady(ProbedSlot(o))
          /\ state' = [state EXCEPT ![x] = "TRANSMITTING"]
          /\ mask' = [mask EXCEPT ![x] = RequiredPorts(dir[x])]
          /\ owner' = [p \in Ports |->
                         IF p \in RequiredPorts(dir[x]) THEN x ELSE owner[p]]
          /\ portLeft' =
               [portLeft EXCEPT ![x] =
                  [p \in Ports |-> IF p \in RequiredPorts(dir[x])
                                   THEN ServiceTime(bits[x], p) ELSE 0]]
          /\ lastServed' = s
  /\ progressed' = TRUE
  /\ UNCHANGED <<dir, bits, launchLeft, pending, active, activeCount,
                 inflightCount, sched, notified>>

\* startReadyTransfers() finds nothing more: the loop repeats if any pass
\* progressed or a deadline is already due, else the thread suspends.
RoundDone ==
  /\ sched = "start"
  /\ \A s \in Slots : ~SlotReady(s)
  /\ sched' = IF progressed \/ DeadlineReached THEN "ports" ELSE "sleep"
  /\ progressed' = FALSE
  /\ UNCHANGED <<ctxVars, tableVars, notified>>

\* Simulated time advances by a cycle when no thread is runnable.
Tick ==
  /\ sched = "sleep"
  /\ ~notified
  /\ ~DeadlineReached
  /\ \E x \in Xfers : state[x] \in {"LAUNCHING", "TRANSMITTING"}
  /\ launchLeft' = [x \in Xfers |->
                      IF launchLeft[x] > 0 THEN launchLeft[x] - 1 ELSE 0]
  /\ portLeft' = [x \in Xfers |->
                    [p \in Ports |->
                       IF portLeft[x][p] > 0 THEN portLeft[x][p] - 1 ELSE 0]]
  /\ UNCHANGED <<state, dir, bits, mask, tableVars, loopVars>>

Client ==
  \E x \in Xfers : \/ \E b \in Payloads, d \in Dirs : Issue(x, b, d)
                   \/ Cancel(x)
                   \/ Release(x)

Scheduler ==
  \/ Wake \/ FinishPortServices \/ FinishLaunches
  \/ AdmitPending \/ AdmitDone \/ StartReadyTransfer \/ RoundDone

Next == Client \/ Scheduler \/ Tick

Spec == Init /\ [][Next]_vars

\* A runnable SystemC thread runs, and simulated time advances however often
\* clients issue and cancel: each of their calls is followed by a wait.
Fairness == WF_vars(Scheduler) /\ SF_vars(Tick)

FairSpec == Spec /\ Fairness
-----------------------------------------------------------------------------
(* Properties.                                                             *)

Admitted == {x \in Xfers : state[x] \in {"LAUNCHING", "BUS_WAIT", "TRANSMITTING"}}

\* Every variable has the type of the field it models, and the credit count
\* never leaves the range descriptorCapacity() gives it.
TypeOK ==
  /\ state \in [Xfers -> States]
  /\ dir \in [Xfers -> Directions]
  /\ bits \in [Xfers -> Nat]
  /\ launchLeft \in [Xfers -> Nat]
  /\ portLeft \in [Xfers -> [Ports -> Nat]]
  /\ mask \in [Xfers -> SUBSET Ports]
  /\ pending \in Seq(Xfers)
  /\ active \in [Slots -> Xfers \union {None}]
  /\ owner \in [Ports -> Xfers \union {None}]
  /\ activeCount \in Nat
  /\ inflightCount \in 0 .. DescriptorCapacity
  /\ lastServed \in -1 .. SlotCount - 1
  /\ sched \in {"sleep", "ports", "launches", "admit", "start"}
  /\ progressed \in BOOLEAN
  /\ notified \in BOOLEAN

\* A port's owner is exactly the transmitting context that has not released
\* it: no two transfers share a port, no finished transfer keeps one, and
\* finishPortServices() never throws "DTE resource owner mismatch".
OwnersMatchMasks ==
  \A p \in Ports, x \in Xfers :
    owner[p] = x <=> state[x] = "TRANSMITTING" /\ p \in mask[x]

\* pending_ holds the pending contexts, each once; the command slots hold the
\* admitted ones, each in one slot.  Cancel() never throws "pending context
\* is absent" and no context is served twice or lost.
QueuesMatchStates ==
  /\ \A x \in Xfers :
       state[x] = "PENDING" <=> \E i \in 1 .. Len(pending) : pending[i] = x
  /\ \A i, j \in 1 .. Len(pending) : pending[i] = pending[j] => i = j
  /\ \A x \in Xfers : x \in Admitted <=> \E s \in Slots : active[s] = x
  /\ \A s, t \in Slots : active[s] = active[t] => s = t \/ active[s] = None

\* Contexts that hold a credit.
Unfinished == Admitted \union {x \in Xfers : state[x] = "PENDING"}

\* The two counters agree with the contexts they count and the slots suffice,
\* so admitPending() never throws "active count/free-slot mismatch" and every
\* credit taken by Issue() comes back exactly once, by completion or by
\* cancellation.
CountersMatchStates ==
  /\ activeCount = Cardinality(Admitted)
  /\ inflightCount = Cardinality(Unfinished)
  /\ activeCount <= SlotCount

\* When the scheduler suspends with nothing to wake it but time, it leaves no
\* work behind: no pending transfer beside a free slot, no waiting transfer
\* whose ports are all free, no deadline that has passed, and some deadline
\* ahead whenever a transfer is admitted.
NoWorkLeftAsleep ==
  sched = "sleep" /\ ~notified /\ ~DeadlineReached =>
    /\ ~(pending # <<>> /\ \E s \in Slots : active[s] = None)
    /\ \A s \in Slots : ~SlotReady(s)
    /\ Admitted # {} =>
         \E x \in Xfers : state[x] \in {"LAUNCHING", "TRANSMITTING"}

\* Slots the round robin has to pass before it reaches slot s.
Distance(s) == (s - lastServed - 1 + SlotCount) % SlotCount

\* Round robin: when a transfer starts, every other slot that was ready comes
\* strictly nearer to its turn, so a ready slot is passed over at most
\* SlotCount - 1 times.
RoundRobin ==
  [][\A s \in Slots :
       (StartReadyTransfer /\ SlotReady(s) /\ lastServed' # s) =>
         (s - lastServed' - 1 + SlotCount) % SlotCount < Distance(s)]_vars

\* What a client sees of a context: DtePool's phase.
PhaseOf(x) == IF x \in Admitted THEN "ACTIVE" ELSE state[x]

Pool == INSTANCE DtePool WITH
          Capacity <- DescriptorCapacity,
          phase <- [x \in Xfers |-> PhaseOf(x)]

\* The engine implements the pool of descriptors its clients rely on.
ImplementsPool == Pool!PoolSpec

\* A transfer that was issued is completed or cancelled.
EveryTransferEnds ==
  \A x \in Xfers :
    state[x] = "PENDING" ~> state[x] \in {"COMPLETED", "CANCELLED"}
=============================================================================
