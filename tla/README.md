# WaferAI-SIM: a TLA+ verification development

WaferAI-SIM is a SystemC simulator of a wafer-scale or multi-core LLM
accelerator. A host distributes a workload to worker cores over a mesh of
routers (and, between dies, over D2D links), the cores run primitives
(compute, SEND, RECV, DTE transfers, collectives) and report back to the host.
All of `src/llm` runs in one process under the SystemC kernel: `SC_THREAD`s are
cooperative (a thread runs until it calls `wait`), events wake only the threads
that wait for them at that moment, and simulated time advances when no thread
can run. Most of what is hard in this code comes from that: state read before a
`wait` and used after it, an event notified while its thread waits for
something else, counters and queues kept by several threads.

This directory holds the specifications, their TLC configurations and the
proofs. `PROJECT.json` is the index: components, runs, the map from definitions
to source lines, mutants, findings, hazards and theorems.

## 1. Inventory

| Component (source under `src/llm`) | State | Operations and interactions | What is hard | What makes it correct |
|---|---|---|---|---|
| DTE unit (`src/dte/dte_unit.cpp`) | contexts, `pending_`, `active_` slots, `resource_owners_`, two counters, `last_served_slot_` | `CanAccept`, `WaitForCredit`, `Issue`, `Cancel`, `Release` by clients; the `scheduler` thread admits, launches, serves, completes | clients act between scheduler passes; ports of one transfer end at different times; deadlines and notifications race | a port has one owner; queues and counters agree with the contexts; never asleep on work; round robin; a bounded pool of descriptors |
| DTE asynchronous tracker (`src/dte/dte_async.cpp`) | `records_`, `open_groups_`, `group_by_key_`, `physical_batches_` | `IssueToken`, `WaitAndRelease`, `CancelToken`, `Fence` by the core's dispatcher; `timeoutWorker` | two threads suspend inside calls on the same maps; one context shared by several tokens | no internal error; each batch is released once; no two conflicting transfers in flight; a fence leaves nothing; a staged token is flushed |
| PDS host scheduler (`src/monitor/config_helper_pds.cpp`) | request records, batches per core, `req_decode`, `idle_decode`, `busy_*`, `wait_schedule_*`, `temp_config` | `iter_start`, `iter_done`, `parse_ack_msg`, `parse_done_msg`, called by the host threads | iterations of two jobs overlap and share `temp_config` | no request is lost or scheduled twice; chunks are counted once; unsent configs are kept |
| Host memory interface (`src/monitor/mem_interface.cpp`) | `write_buffer`, `write_done`, `need_trigger_send_start`, events | `distribute_config`, `distribute_start_data`, `write_helper`, `recv_ack`, `recv_done`, `req_handler` | a thread misses an event while it waits for another one | CONFIG and START alternate per core; every request finishes |
| PD-fusion and GPU schedulers (`src/monitor/config_helper_pd.cpp`, ...) | mixed batches, `unfinished_prefill`, `prim_index` | as PDS, on one job; the GPU runs a batch primitive by primitive | credits split by `HW_PD_RATIO` | as PDS |
| Router (`src/router/router.cpp`) | per-direction buffers, per-tag output locks with counts, D2D credits | one `router_execute` pass per cycle | locks joined and released in the same cycle, host traffic behind locks, full buffers | a lock ends with its last tail; packets of one flow are not interleaved; no credit lost; memory flits are let in |
| D2D link (`src/die/d2d_link.cpp`) | pipeline, store-and-forward stage | accept, forward, return of credits | DATA before REQUEST, stage at its limit | the exceptions it can throw are unreachable |
| SAF paths and link groups (`src/die/port_config.cpp`) | reservations per link and flow key, grants | reserve a whole path, release per link, arbitrate | reservation of several resources with rollback | all or nothing; released once; fair grants |
| SEND/RECV protocol (`src/workercore/logic.cpp`) | REQUEST/ACK/DATA counts | rendezvous of many senders with one receiver | order of tails and data | received once, in full |
| Worker core executor (`src/workercore/workercore.cpp`) | primitive queue, message buffers, busy signals | dispatch, poll of buffers | a busy signal recomputed only on arrival | no buffer stays blocked |
| Collectives (`src/dte/coll_runtime.cpp`, ...) | barrier, reorder buffer, operand matching | arrive, depart, accept packet | next round before the last one has left; full reorder buffer | no rank is lost, no deadlock |
| HBM network path (`src/memory/hbm_network.cpp`, `core_mem_adapter.cpp`) | outstanding transactions, bounded queue | assemble, enqueue, serve, answer | full queue, identifier wrap | each request answered once |
| HBM address map, multi-chip set-up, SRAM/KV bookkeeping, compute primitives, watchdog, trace | no protocol state of their own, or sequential | | | |
| DRAMSys | vendored | | | |

`PROJECT.json` lists every component with its status, and 40 hazards at the
line where they bite. Two of them have no property: packets of the host
behind a locked output (the host port is not modelled), and pipelines of one stage
in `config_helper_pd`, which read `coreStatus[-1]`.

How the parts interact. The host scheduler decides which core runs what in an
iteration; the memory interface carries its CONFIG and START messages to the
cores and their ACK and DONE messages back. A core's executor runs primitives:
DTE tokens go through the tracker to the DTE unit; SEND and RECV run the
REQUEST/ACK/DATA protocol with other cores; collectives are programs of SEND,
RECV and barriers. Messages go through the routers and, between dies, through
links whose buffers a sender reserves along the whole path before its REQUEST.
Accesses to HBM are flits that share routers and links with them.

## 2. Modules

```
DtePool                 abstract: a bounded pool of transfer descriptors
  ^ implemented by        ^ EXTENDS (the engine a client sees)
DteUnit                 DteAsync           PdHost        Workload
  ^                       ^                  ^             ^
MCDteUnit               MCDteAsync         MCPdHost      SendRecv
DteUnitProofs           DteAsyncProofs     PdHostProofs    ^
                                                         MCSendRecv
                                                         SendRecvProofs
SafLedger <- D2DLink <- Router <- Fabric <- MCFabric     (each EXTENDS its left)

SumProofs <- PdHostProofs, DteAsyncProofs, SendRecvProofs
SumProofs <- RouterProofs (about Router) <- LinkProofs <- FabricProofs
                          (about SafLedger and D2DLink)  (about Fabric)
```

**DtePool** is what a DTE promises: a descriptor is issued only while a credit
is free, becomes active, completes or is cancelled while pending, and keeps its
context until released. It does not say when or in which order transfers are
served.

**DteUnit** is `DTEUnit`. Client actions are `Issue`, `Cancel` and `Release`;
they require the scheduler to be suspended, as threads are cooperative. A client
without credit is blocked in `WaitForCredit`, which is the guard `CanAccept` of
`Issue`. The scheduler loop is split into `Wake`, `FinishPortServices`,
`FinishLaunches`, `AdmitPending` (one iteration of `admitPending`), `AdmitDone`,
`StartReadyTransfer` (one iteration of `startReadyTransfers`) and `RoundDone`,
taken in the order of the code; `RoundDone` decides as the code does between
another round and sleep. Deadlines are kept as cycles left, so that no absolute
time grows; `Tick` advances them when no thread can run. A pending notification
of `state_changed_` is the flag `notified`. Statistics and trace output are left
out. Both modes exist: the single bus (`FineGrained = FALSE`, unbounded credits)
and the four-port engine (V4).

**DteAsync** is `DteAsyncTracker` with the thread that calls it and
`timeoutWorker`. What a thread has left to do of its present call is a sequence
of operations; a thread keeps the processor (`turn`) until its next operation
would suspend. The places where the code suspends are exactly `WaitForCredit`
(operation `bind` or `transfer`) and the wait for completion (`settle`,
`transferred`). A SEND or RECV of the same dispatcher competes for credits
through `SendRecv`. Errors the code raises by exception are `Raise`, so that
`NoFault` says they are unreachable. The sequence `order` replaces the growing
`issue_sequence`; group ids are reused from a finite set once nothing refers to
them. Aggregation, the engine's capacity and the descriptors are a `mode` chosen
at the start.

**PdHost** composes a scheduler with the `MemInterface` threads it runs under
and with the cores as the host sees them. A `setup` names the scheduler:
`config_helper_pds` (PDS: two jobs whose iterations overlap),
`config_helper_pd` (PD: one job of mixed batches, pipelines given as decode
pipelines) or `config_helper_gpu_pd` (GPU_PD: one mixed batch, run primitive by
primitive). `IterStartPrefill` and `IterStartDecode` are the two calls of
`iter_start` in `distribute_config`; `IterStartMixed`, `PickChunk` (one chunk of
its loop) and `MixedReady` are the one call of the mixed schedulers. None of them
suspends before `FillQueueConfig`. The schedule of PDS goes through the first
cores of the pipelines with `PickPrefill` or `PickDecode`. `RecvDone` includes
`iter_done`, which goes through the cores in the order of their DONEs (`CountCore`)
and through the stages of the last ones (`CountStage`). `WriteBegin` and `WriteStep` are `write_helper`. `pend` holds the
notified events: an event that fires while its thread is elsewhere has no effect,
which is how wake-ups are missed. Events notified for the present instant are
urgent, the others (one cycle ahead) fire in any order with message steps, which
over-approximates lane latencies. One "core" is a tensor-parallel group, or the
SMs that take part in a primitive; CONFIG and START stand for all packets of one
configuration. `generate_prims` is abstracted to "a config for every core of the
job".

**SafLedger** is the reservation of `port_config.cpp`: `ReserveSafPlans` books
all links and groups of all subflows of a transfer or none, and raises the
code's own "commit mismatch"; `ReleaseSafLinks` gives back one link. It has the
books per link and group (`reserved`, `reservation`) and the sets per flow
(`flowLinks`, `flowGroups`), which the code keeps separately.

**D2DLink** is `forward_bounded_saf` as a function from the record of a link and
the signals of its neighbours to the next record (`LinkStep`, in the order of
the code: `Refill`, `Deliver`, `Arrive`, `Serve`, `Saturate`, control out and in,
`Capture`), and the link-group arbiter. Exceptions are collected in `faults`.

**Router** is `router_execute` in the same style (`RouterPass`): credits seen as
toggled bits, inputs, outputs, control, data with per-tag locks counted in
`ref`, and the injection of memory flits with its two events. Nothing is sent to
a core that has signalled `core_busy_o` or `ctrl_core_busy_o`; the pass reads
these as the core registered them in the cycle before. The loop over the inputs
runs `DIRECTIONS` rounds (`RouteRound`) from `collective_rr_start`, which a memory
flit moves within the loop, so that inputs are passed over or served twice as in
the code.

**Fabric** composes routers, links and ledger with cores that run a sequence of
primitives, and with one HBM endpoint. A primitive sends a transfer with its
subflows, receives the flows of one tag, or accesses memory. A core has the
bounded buffers of REQUESTs, ACKs and DATA: `CtrlReceive` and `DataReceive` are
the poll threads, which store what comes and then write the busy signals,
`Notice` and `SendAck` are `req_logic`, which answers the REQUESTs with the tag of
the receive at the front and nothing else, `TakeAck` and `CoreSend` are the
sender, `RecvPacket` and `NextRound` `recv_logic`. `Cycle` moves everything once
on the registered signals, so the order in which the kernel runs the clocked
processes cannot matter; between cycles a core begins its next primitive or takes
a packet it has received, and the memory completes. A `halted` simulation is one
whose reservation was rejected.

**Workload** builds the primitives that the host configures: `GeneratePrims` and
`BuildConfigMessages` from works and casts, `PlanTier0Collective` and
`AppendCollectiveActions` from a collective.

**SendRecv** runs them: `StartBatch` and `Finish` are the executor with its
batches and refill, `SendReq`/`RecvAck`/`SendData`/`SendDone` the sequential or
the parallel sender, `RecvRound`/`RecvPacket` the receiver, `Notice` and
`SendAck` the thread `req_logic`, `PollCtrlBuffer` and `CtrlChannelIdle`,
`PollBuffer` and `DataChannelIdle` the threads that fill the bounded buffers, and
the barrier, the gather reorder buffer and the reduction at a receiver. The poll
threads store without looking for room and write their busy signals (`busy`,
`dbusy`) afterwards; the router decides on the signals of the cycle before
(`seen`, `dseen`), so a message that follows at once slips in behind a full
buffer. An idle cycle brings the two together; `poll_ctrl_buffer_i` tests once
more in it and then sleeps. The network is a FIFO per
pair of cores, subflow and message class; classes overtake each other. What
routers and links do to that FIFO is the matter of `Fabric`.

## 3. Runs

| Run | Instance | What it shows |
|---|---|---|
| `dte_v4` | V4, 1 channel with 2 slots, pending depth 1 (capacity 3), 4 contexts, 3 directions, one slow port; symmetric contexts | ports exclusive, queues and counters consistent, no sleep on work, round robin, refinement of `DtePool` |
| `dte_legacy` | one bus, 3 slots, 3 contexts, 2 payload sizes, no symmetry | no sleep on work, round robin over 3 slots, every transfer ends |
| `dte_stream` (violation) | V4, 4 slots, one compound transfer against two pairs of single-port streams | `EveryTransferEnds` fails: finding 1 |
| `async_safe` | 3 tokens, 4 contexts; with aggregation 5 credits, groups of at most 2 bytes, timeout 1; without aggregation 3 credits and copies that read and write; symmetric tokens | the tracker's invariants in both modes |
| `async_live` | 2 tokens, timeout 2, no symmetry | staged tokens are flushed, calls return |
| `async_both` (violation) | aggregation and 3 credits, 4 tokens | `NoFault` fails: finding 2 |
| `pd_host` | five set-ups: PDS with all prompts at the start, PDS with late arrivals, two chunks per prompt and two prefill pipelines of two stages, PD with one pipeline (3 chunks, 3 credits, ratio 2), PD with two pipelines, GPU_PD with two primitives | the scheduler's accounting, the message protocol, `EveryRequestFinishes` |
| `pds_idle` (violation) | PDS, 2 requests, late arrivals, the same pipelines | `UnsentConfigsKept` fails: finding 3 |
| `fabric` | 4 tiles on 3 dies, 5 links, a group of two, flows of 2 or 3 packets, a stage of 6, router and core buffers of 3 (the code's value), memory requests of 5 flits, one link at a quarter of the rate; 5 programs | no exception, ledger balanced, credits conserved, traffic reserved, flows leave whole, locks exact, memory flits conserved, everything drains |
| `fabric_behind` (violation) | the same dies, a stage of 7, a slow link A to B; B sends 3 packets to C behind a striped flow to D and then accesses memory | `AccessesEnd` fails: finding 5 |
| `sendrecv` | 3 cores, buffers of 2; every tier-0 collective (every root of broadcast, scatter and the reductions, two roots of the gathers, reorder depth unbounded and 1), two chains with refill, a join, two tags received in turn, a fan-out through the parallel sender | no protocol error, phases in order and what the operation promises, every program ends |
| `sendrecv_busy` (violation) | 2 cores, buffers of 3 (the code's value), a flow of 4 subflows to a core that has other work first | `BusyEnds` fails: finding 4 |

Why the bounds are enough to be interesting. `dte_v4` has one context more than
credits, so issue blocks; fewer slots than credits, so the pending queue is
used; directions that share one port and directions that need two, with
different service times. In `dte_legacy` three slots make the round robin wrap
with a slot skipped. In `async_safe` a group can be closed by size, by a
descriptor that does not continue it, by a conflicting receive, by the timeout,
by a wait and by a fence, and one descriptor is too large to aggregate. In
`pd_host` one credit and three requests fill the decode core, `idle_decode` is
used, iterations of the two jobs overlap, `ev_write` is missed while
`write_helper` sends and START of one job is queued behind a write of the other;
in the mixed set-ups a chunk does not fit beside two decodes, prompts go back to
the queue of their pipeline, and arrivals meet a busy job. In `fabric` two flows
and memory flits meet at the slow link, two transfers do not fit into one stage
and a reservation is rejected, subflows of one transfer go over both links of the
group, a transfer is repeated before its links are all free, a memory request is
longer than the router's input, requests of three cores are refused by a completed
queue of one, and a core that is slow to receive fills its DATA buffer and stops
its router. A control buffer does not fill in these programs: what happens then is
finding 4. Buffers of 2 instead of 3 in `sendrecv` keep the state space small and
fill sooner: every buffer fills there, a message slips in behind each of them, and
REQUESTs arrive while `req_logic` sends ACKs.
The `ASSUME`s of the modules state what the code's own validation guarantees of
the parameters, and for the mixed scheduler that a pipeline has more than one
stage (see the hazard at `config_helper_pd.cpp:221`).

Deadlock checking is switched off where the system ends or may really stop: at
the end of the programs of `fabric` and `sendrecv`, after a raised exception
(`async_both`), and in the PDS set-up with late arrivals, where finding 3 stops the
host. The liveness property of each of these runs says what must have happened
by then: for late arrivals under PDS, all requests are finished or a config was
erased, and nothing else stops the host.

Symmetry is used only in runs whose properties are safety properties and whose
permuted values are interchangeable names. (`CHOOSE` of a free context picks one
of several interchangeable ones; contexts are not permuted in the DteAsync runs,
tokens are.)

**Fairness.** `DteUnit`: weak fairness of the scheduler thread, as the kernel
runs a runnable thread; strong fairness of `Tick`, as every client call is
followed by a wait and time passes however often clients issue and cancel.
`DteAsync`: weak fairness of the dispatcher, of `timeoutWorker` and of time, and
strong fairness of the engine on each context, which is what `EveryTransferEnds`
establishes for the single-bus engine (`dte_legacy`); it is not assumed for V4,
where finding 1 refutes it, and `async_live` has the credits of the single-bus
mode. No fairness of the core's program is assumed: `StagedIsFlushed` holds
though it may never call again. `PdHost` and `SendRecv`: weak fairness of `Next`
as a whole, the kernel goes on while some process can run; programs are finite,
so this is enough. `Fabric`: the clock never stops (weak fairness of `Tick` with
respect to `clock`, which only a cycle changes), a core begins its next primitive
and takes a packet that is there some time (`Begin`, `RecvPacket`), and the memory
answers.

## 4. Findings

1. **`dte_stream`** A transfer that needs two ports is started only when both
   are free in the same pass, and nothing is reserved for it. Two streams that
   keep one port each busy at staggered times starve it, while the DTE
   acceptance checklist says that continuing new requests must not starve an old
   one. With a single bus (`dte_legacy`) the property holds.
2. **`async_both`** `FlushGroup` copies a group and then suspends in
   `WaitForCredit` with the group still open. If the tail token is cancelled
   meanwhile, the copy names a record that no longer exists and
   `records_.at(token)` throws. It needs aggregation on an engine whose credits
   run out (V4); with the unbounded credits of the single bus (`async_safe`) the
   invariant holds.
3. **`pds_idle`** An idle decode iteration clears `temp_config`, including the
   prefill configs put there in the same `distribute_config` pass. `busy_p`
   stays set and the prefill job is never scheduled again. It needs a decode job
   that drained before the next prefill iteration. The mixed schedulers have one
   job and are not affected.
4. **`sendrecv_busy`** `poll_ctrl_buffer_i` tests for room only in the first idle
   cycle after a message, then waits for the next message, which the router may
   not send while `ctrl_core_busy_o` is set. A control buffer that was full at
   that test and is drained later leaves the core closed to control messages: with
   four subflows and the code's buffer of three, the transfer never ends. The
   fourth message must come two cycles after the third or later; one that follows
   at once slips in, but busy stays set for whatever comes after it.
5. **`fabric_behind`** `InjectMemRequestFlit` waits for `mem_data_space_event`,
   which `router_execute` notifies only when a memory flit leaves the input from
   the core. A core that has filled that input with DATA packets, which wait there
   for the lock of a flow to another tile, finished its SEND and then accesses
   memory sleeps for ever: the DATA packets leave without a notification. The HBM plan asks for no deadlock under back-pressure. The
   passing run `fabric` has the memory access first, or a core that only
   accesses memory.

Two more behaviours are outside the programs of the passing runs, and are listed
as hazards. `req_logic` accepts a REQUEST by its tag alone: in a join of two
rounds a fast sender gets its ACK for the second round in the first one, and its
second tail raises the duplicate-tail error (`logic.cpp:1213`, `:926`); joins in
`sendrecv` run one round. And a flow of several subflows whose last REQUEST is
missed while `req_logic` sends ACKs has no later event that makes up for it
(`logic.cpp:1256`); striped flows occur in `sendrecv_busy` and in `fabric`, where
the receiver sends nothing else and answers each REQUEST in the cycle it comes.

## 5. Proofs

Every theorem below holds for every value of the constants that satisfies the
named assumptions of the module that declares them: `ConfigAssumption` (DteUnit),
`AsyncAssumption` (DteAsync), `PdAssumption` (PdHost), `LedgerAssumption`
(SafLedger), `LinkAssumption` (D2DLink), `RouterAssumption`, `FlitAssumption` and
`PathAssumption` (Router), `ProgramAssumption` (Fabric), `ProgramsAssumption`
(SendRecv). They say what the code validates when
it reads a configuration (depths and rates are positive, a route is a path of the
topology, an aggregated descriptor stays in its block, a flow has 1, 2 or 4 subflows
and only one in the parallel sender, `logic.cpp:606`) and what makes names usable
(finite sets; `None` names nothing; the host is no core). Each run evaluates them on its instance.

| theorem | states, of every reachable state or step |
| --- | --- |
| `TypeCorrect`, `PortsExclusive`, `QueuesConsistent`, `CountersCorrect` | the invariants of `dte_v4` |
| `AdmissionFindsSlot` | "active count/free-slot mismatch" of `admitPending` is unreachable |
| `NeverAsleepBesideWork` | `NoWorkLeftAsleep` |
| `RoundRobinHolds` | the action property `RoundRobin` |
| `Implementation` | `DteUnit` implements `DtePool`, on which `DteAsync` rests |
| `CallsNeverFault`, `AsyncTypes` | `NoFault` and `TypeOK` of `DteAsync` * |
| `BatchesCountTokens`, `GroupsHoldStagedTokens` | `BatchesMatchTokens`, `GroupsMatchTokens` * |
| `NoHazardsInFlight` | `NoHazardInFlight` * |
| `FencesLeaveNothing` | `FenceLeavesNothing` * |
| `MessagesTakeTurns` | `MessagesInTurn` of `PdHost` |
| `DecodesAreAccounted`, `ChunksAreAccounted` | `DecodesAccounted`, `ChunksAccounted` |
| `HostTypes` | `TypeOK` of `PdHost`: no batch exceeds HW_CORE_CREDIT |
| `Bounds`, `CreditsSuffice` | `TypeOK` of `Fabric`: router data outputs, stages and queues keep to their depths, buffers of cores to MAX_BUFFER_PACKET_SIZE + 1; the overflow errors are unreachable |
| `CreditsNeverLeak` | `CreditsConserved` |
| `BooksBalanced` | `LedgerBalanced` |
| `WholeFlowsLeave` | `FlowsLeaveWhole` |
| `CoreTypesAlways` | `TypeOK` of `SendRecv`: buffers of at most MAX_BUFFER_PACKET_SIZE + 1 messages, for any queues of primitives |

\* under `CreditsNeverRunOut`, see below.

### DteUnitProofs

The inductive invariant is `IInv` (theorem `Invariance`): `TypeOK`,
`OwnersMatchMasks`, `QueuesMatchStates` and the two equalities between counters
and cardinalities. None of its parts is inductive alone: completing a transfer
decrements counters by the number of completing contexts, which is right only if
each of them is in one slot; starting one takes ports that must be free of other
owners; `TypeOK` bounds the credit count, which needs the count to be that of the
unfinished contexts, or cancelling could make it negative.
`activeCount <= SlotCount` is not needed in the induction: `SlotsSuffice` derives
it from the injection of admitted contexts into slots. There is one lemma per
action (`IssueInv`, `CancelInv`, ..., `StartReadyTransferInv`), combined by
`NextInv`. The round robin rests on `ProbeArithmetic`, a lemma on `%`; the
refinement has one lemma for client steps, one for scheduler steps and one for
stuttering.

`NoWorkLeftAsleep` needs the scheduler's program counter: `PassesDone` says what
each pass has established when the next begins, and that nothing but a
notification undoes it while the thread sleeps. A pending descriptor then waits
because all slots are taken, and a ready slot because a port it needs has an
owner; that owner is transmitting, so a deadline will wake the thread
(`WaitersHaveAnOwner`).

### DteAsyncProofs

The invariant `AsyncInv` joins three parts.

* `DataInv`, what the maps of the tracker say of each other: `order` lists the
  records once (`OrderInv`); a batch counts the records that share its context,
  and the contexts in use are those of batches and of a SEND or RECV
  (`BatchInv`); a group's tokens are exactly the staged records that name it, in
  a contiguous run within the limits (`GroupInv`, `StagedInv`, `KeyInv`); no two
  incomplete records conflict (`HazardInv`).
* `CtrlInv`, what the rest of a suspended call may assume when it goes on. The
  operations that are left to a thread have a shape (`Shape`); a pending `bind`
  still has its tokens (`BindOK`), a pending wait or release its record
  (`TokenOK`), a pending `create` conflicts only with tokens that are complete or
  that a wait before it names (`CreateOK`), a pending `start` finds its key free
  (`StartOK`), a fence that is to report has a release ahead for every record
  (`FenceOK`), and a record that is neither staged nor bound is about to be
  (`LooseOK`). `Parked` says where the dispatcher may be suspended, `WorkerOK`
  that timeoutWorker never is.
* `NoFault`.

Control is needed because each property is about a call whose decision and
effect are apart: `IssueToken` scans for conflicts, suspends in waits, and
creates the record afterwards. There is one lemma per action and part that the
action can disturb.

The hypothesis `CreditsNeverRunOut` says that aggregation is used only with more
credits than there are contexts. That is the single-bus engine, whose credits the
code does not bound. It is not a convenience: with fewer credits `FlushGroup`
suspends with a stale copy of the group, `WorkerOK` is not inductive and `NoFault`
is false, which is the finding of `async_both`. Without aggregation nothing is
assumed about credits, so the theorems cover the V4 engine with exhausted credits.

### PdHostProofs

`MessagesInTurn` says that CONFIG and START alternate at each core. The invariant
`TurnInv` says in which of eight exclusive places of its iteration a core is:
`Unsent`, `Configuring`, `Answering`, `Acked`, `Starting`, `Running`, `Finishing`,
`Over`. Each place fixes the core's state, where its one message is (`Carries`)
and whether it is in `acks`, `dones` or `doneMsg`. Per job (`JobTurn`) the count
of ACKs is the number of cores that are `Acked`, or the job is due to start and
all of them are; no core has begun before all were acknowledged; a DONE is counted
once. `Threads` and `ConfigTurn` tie these to the host's flags and events, as a
missed event must leave the job startable. The counts make the step from "the
last ACK" to "all cores" possible, which no statement about single cores gives.

The theorems about the schedule have a second invariant, `ServeInv`, which is
inductive together with `TurnInv`: the types of the threads' flags (`Flags`) and
the books of the scheduler (`Books`).

* `Recorded`: the counters of a request fit its phase. A prompt is counted no
  further than it was distributed, and a request that decodes has all its chunks.
* `BatchOK`: a batch that `iter_done` has yet to count is `Loaded`: it has work of
  its job's kind and fits in the credit. One that was counted is `Settled`: what
  `iter_done` made of it stays until the next `iter_start` of the job, and a
  finished prompt there has no chunks left, which is why the first core, which
  may be the last one too, does not go on with it. Which batches are which is
  `Open`, the state's own `Uncounted`.
* `Placed`: a request is in one place if it decodes and in none otherwise. The
  property says the first half only; without the second, `iter_done` could count
  a request twice.
* `Chunked` and `Queued`: the two halves of `ChunksAccounted`.

The record decides what `iter_done` does with a stage, not the stage's own type,
so the step that counts a stage needs a fact about the record: a chunk that is on
its way belongs to a request in PREFILL, because it makes `distribute` exceed
`prefills`, and a decode to one in DECODE, by `Placed` (`StagePhase`). Between the
stages of one `iter_done` the invariant is `Ledger`, with what is still to be
counted made explicit by marking the stages that were (`Marked`, `LeftAt`,
`LeftBy`). A new iteration moves every batch to the next core of its pipeline;
`PipelineFacts` says where the cores of a pipeline are, by arithmetic on `%` and
`\div`, `ShiftCopies` that this shift neither loses nor doubles a stage but those
of the last cores, and `PrefillPlanFacts`, `DecodePlanFacts` and `MixedPlanFacts`
what the first cores take instead. There is one lemma per action: `PrefillBooks`,
`DecodeBooks`, `MixedBooks`, `PickChunkBooks`, `MixedReadyBooks`, `RecvDoneBooks`,
and `ThreadBooks` for those that leave the schedule alone. They need `TurnInv` for
one thing: that DONEs come from each core once and from cores of a busy job
(`DonesOnce`), so that `iter_done` counts every last core exactly once.

### RouterProofs, LinkProofs, FabricProofs

`FabricInv` is `Types /\ LedgerInv /\ CreditsConserved /\ CreditsPositive /\
NothingOverflows /\ BuffersHeld`. The parts need each other: the stage of a link does not
overflow because credits, packets on the wires, packets in the stage and toggled
credit bits add up to its depth and each is at least zero; a router sends only on
a positive credit, so it stays at least zero; the equation is kept only while no
overflow was met, as the code throws there. The books (`LedgerInv`) are in it
because `TypeOK` bounds what is reserved.

`BuffersHeld` is what the bound of a core's buffers needs, as a router decides on
the busy signal of the cycle before. A core that does not signal busy has room
(`Signals`), and a buffer with what is on the wire to it is at most one above its
size (`Takes`): nothing is sent to a core that was busy, and to one that was not
there was room for what was on the wire, and one message more is sent.

`LinkProofs` takes the stages of `LinkStep` one by one and adds up what
each does to the counts; `RouterProofs` does the same for `RouterPass`, whose loop
over the inputs of a router is a recursive function (`IterationStays`). The
section of `LinkProofs` on the books shows that an all-or-nothing reservation of
several subflows and the release of one link keep them equal to the sums.

`FlowsLeaveWhole` has an invariant of its own per link, `LinkWhole`: among what
has passed the stage, the last packet of a flow is its tail or the flow is still
`ready` (`Whole`); packets wait with their own flow (`Sorted`); no flow is ready
twice, and the tail of a ready flow is in the stage (`ReadyOK`). The order of the
serving list is what makes it inductive: a flow is taken off `ready` exactly when
its tail leaves.

`SumProofs` has the facts on sums over finite sets that these use, and on loops
that are recursive functions: what holds of the first value and is kept by each
round holds of the last one (`IterationKeeps`).
Where a textbook argument would be an induction, it takes the least
counterexample of a well-founded order (`WFMin`), as no prover here instantiates
an induction theorem.

### SendRecvProofs

`TypeOK` of `SendRecv` is proved for every program and every buffer size, not for
the programs that the configuration builds. `SendRecvInv` adds to it what makes
it inductive.

* `Bounded`: the poll threads store without testing, so a buffer's bound rests on
  the signals. `Held` says of each REQUEST, ACK and DATA buffer that it has at
  most one message more than its size, at most its size while the router still
  sees the core as not busy, and room left while the core drives not busy. The
  three cases are the cycle in which the signal is on its way: a message sent in
  it is the one above the size. For this no other thread may fill a buffer:
  `SortedOK` and `NoticeOK` show that
  `req_logic`, which takes the REQUESTs out and puts back those it does not want,
  leaves no more than there were.
* `Counting`: a sender that has begun to count subflows is at a SEND_REQ or
  SEND_DATA and, for SEND_REQ, has a subflow left. This is what keeps the
  subflow of a REQUEST within the flow, and it survives the refill of the queue
  because `out` is cleared with the primitive. In the parallel sender it is about
  `para`, which is empty whenever a batch has ended (`BatchEnded`).
* `NetOK`: each channel carries messages of its class, and the host's channel
  only START packets. START messages under way and stored are together at most
  what the host sent, which bounds the one buffer that has no size of its own.
* A core that has arrived at a barrier has that barrier at the front
  (`BarrierAt`), so that the release, which finishes a primitive of every core
  that has arrived, takes the barrier and nothing else.
* `done` stays within `ends`, as the simulation stops with the last DONE.

`LocalStep` reduces a step of one core to facts about its record, `ShrinkingStep`
does so for the threads that only consume; there is one lemma per action.

### Only model-checked

* All liveness properties: the prover reasons neither about fairness nor about
  `ENABLED`.
* `Fabric.NoFault`, `TrafficIsReserved`, `LocksMatchFlows`, `MemFlitsConserved`:
  they count packets of a flow with `SelectSeq` over every queue along a route, so
  each needs lemmas on how the loop of `RouterPass` moves a packet from one queue
  to another. Of the faults, the overflows are proved unreachable
  (`CreditsSuffice`).
* `SendRecv.NoFault` and `PhasesInOrder` hold for the programs that the
  configuration builds, not for any queue of primitives: a theorem would be about
  `GeneratePrims` and `PlanTier0Collective`, which are data. The bounds of its
  buffers hold for any queue and are proved.

No module declares a RECURSIVE operator, so each of them can be proved about.

## 6. Plan

What is left is to prove, in this order:

1. `LocksMatchFlows` of `Router`, restricted to one output: the lock count of an
   output is the number of flows whose tail has not passed it.
2. `TrafficIsReserved`: a DATA packet in a stage belongs to a flow that holds a
   reservation there. It builds on `BooksBalanced` and needs the order of packets
   along a route.

## 7. Not modelled

* Tier-1 and tier-2 collectives: the multicast fork and the in-network reduction
  of the router, and their receivers. They need a tree of routers with several
  outputs per packet, which multiplies the states of `Fabric`.
* The host port of the router, and `distribute_data` and `switch_phase` of the
  memory interface (dataflow and GPU modes with fixed programs); START data and
  DONE are modelled at the cores only.
* The functional, latency-only and bounded pass-through modes of a D2D link, and
  the behavioral NoC and DTE variants of SEND and RECV: simpler queues without
  the reservation and credit protocols. `RECV_WEIGHT`.
* Transaction identifiers (one that is outstanding is skipped after a wrap,
  and exhaustion thrown, where one is allocated, `core_mem_adapter.cpp:35`) and several outstanding accesses of one core, several
  workers of an HBM endpoint, and the splitting of an access into chunks.
* The HBM address map, exit selection and topology checks (pure functions of the
  configuration), parsing and normalisation of workloads, multi-chip set-up.
* Cost formulas of compute primitives, the GPU cache, SRAM and KV bookkeeping
  (sequential, inside one core), the watchdog (it only observes), trace output,
  self-tests, and the vendored DRAMSys and JSON libraries. These are by far the
  most of the repository's 114,000 lines, so the share of lines that the map
  covers stays small although the concurrent core of the program is modelled.
