------------------------------ MODULE DtePool ------------------------------
(***************************************************************************)
(* What a core's DTE (data transfer engine) promises its clients: a pool   *)
(* of transfer descriptors with a bounded number of live ones.             *)
(*                                                                         *)
(* A descriptor is issued only while a credit is free, waits in the        *)
(* pending queue, becomes active, completes, and keeps its context until   *)
(* the client releases it.  A pending descriptor may be cancelled.  How    *)
(* and when the engine serves active descriptors (command slots, launch    *)
(* delay, ports, round robin) is the business of DteUnit, which implements *)
(* this module; DteAsync is a client of it.                                *)
(***************************************************************************)
EXTENDS Naturals, FiniteSets

CONSTANTS
  Xfers,     \* names of transfer contexts; a name is reused after its release
  Capacity   \* descriptorCapacity(): live descriptors the engine accepts

ASSUME PoolAssumption ==
  /\ IsFiniteSet(Xfers)
  /\ Capacity \in Nat \ {0}

VARIABLE phase   \* phase of every context: the observable part of its state

Phases == {"FREE", "PENDING", "ACTIVE", "COMPLETED", "CANCELLED"}

PoolTypeOK == phase \in [Xfers -> Phases]

\* Descriptors that hold a credit (inflight_count_ counts them).
Live == {x \in Xfers : phase[x] \in {"PENDING", "ACTIVE"}}

\* There is a credit in an engine of n descriptors.
CanAccept(n) == Cardinality(Live) < n

PoolInit == phase = [x \in Xfers |-> "FREE"]

\* Issue(): TryIssue() succeeds; WaitForCredit() has returned.
PoolIssueUpTo(x, n) ==
  /\ phase[x] = "FREE"
  /\ CanAccept(n)
  /\ phase' = [phase EXCEPT ![x] = "PENDING"]

PoolIssue(x) == PoolIssueUpTo(x, Capacity)

\* The engine moves a pending descriptor into a command slot.
PoolAdmit(x) ==
  /\ phase[x] = "PENDING"
  /\ phase' = [phase EXCEPT ![x] = "ACTIVE"]

\* One scheduler pass completes every descriptor whose last port service ended.
PoolComplete(done) ==
  /\ done # {}
  /\ \A x \in done : phase[x] = "ACTIVE"
  /\ phase' = [x \in Xfers |-> IF x \in done THEN "COMPLETED" ELSE phase[x]]

\* Cancel() succeeds only on a descriptor that is still pending.
PoolCancel(x) ==
  /\ phase[x] = "PENDING"
  /\ phase' = [phase EXCEPT ![x] = "CANCELLED"]

\* Release() frees the context of a finished descriptor.
PoolRelease(x) ==
  /\ phase[x] \in {"COMPLETED", "CANCELLED"}
  /\ phase' = [phase EXCEPT ![x] = "FREE"]

PoolNext ==
  \/ \E x \in Xfers : \/ PoolIssue(x)
                      \/ PoolAdmit(x)
                      \/ PoolCancel(x)
                      \/ PoolRelease(x)
  \/ \E done \in SUBSET Xfers : PoolComplete(done)

PoolSpec == PoolInit /\ [][PoolNext]_phase
=============================================================================
