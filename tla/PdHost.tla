------------------------------ MODULE PdHost ------------------------------
(***************************************************************************)
(* The host of a simulation that serves requests: a scheduler, which gives *)
(* prompts and decodes to the cores iteration by iteration, and            *)
(* MemInterface, whose SC_THREADs send CONFIG and START messages and       *)
(* collect ACK and DONE.  There are three schedulers:                      *)
(*   PDS     config_helper_pds: some cores prefill, the others decode;     *)
(*   PD      config_helper_pd: every pipeline does both in mixed batches;  *)
(*   GPU_PD  config_helper_gpu_pd: one mixed batch for all SMs, which run  *)
(*           it primitive by primitive.                                    *)
(*                                                                         *)
(* One iteration of a job: distribute_config -> CONFIG to every core of    *)
(* the job -> their ACKs -> distribute_start_data -> START -> their DONEs  *)
(* -> iter_done -> ev_dis_config.  The iterations of the two jobs of PDS   *)
(* overlap and share the threads, the write buffers and temp_config.       *)
(*                                                                         *)
(* A thread with static sensitivity misses an event that is notified while *)
(* it waits for something else: pend is the set of notified events, and an *)
(* event that fires while its thread is elsewhere has no effect.  A core   *)
(* stands for a tensor-parallel group, or for the SMs that take part in a  *)
(* primitive: the ACKs and DONEs of its members are one ACK and one DONE   *)
(* here.  CONFIG and START each stand for all packets of one core's        *)
(* configuration and start data.                                           *)
(***************************************************************************)
EXTENDS Integers, FiniteSets, FiniteSetsExt, Functions, Sequences, SequencesExt

CONSTANT
  Setups      \* the workloads and machines to be simulated

\* mode: the scheduler; requests: how many there are; late: they arrive one by
\* one instead of all at the start; a prompt has so many chunks
\* (prefill_iters), a decode takes so many iterations (the decode_counter at
\* which eof_chance ends it); credit is HW_CORE_CREDIT, what a core takes per
\* iteration, ratio is HW_PD_RATIO, the credit of a chunk in a mixed batch;
\* prims: the primitives of a GPU stream.  Pipelines of mixed batches are
\* given as decode pipelines.
ASSUME PdAssumption ==
  \A s \in Setups :
    /\ s \in [mode : {"PDS", "PD", "GPU_PD"}, requests : Nat \ {0}, late : BOOLEAN,
               prefillCores : Nat, prefillStages : Nat \ {0},
               decodeCores : Nat \ {0}, decodeStages : Nat \ {0},
               prefillIters : Nat \ {0}, decodeIters : Nat \ {0},
               credit : Nat \ {0}, ratio : Nat \ {0}, prims : Nat \ {0}]
    /\ s.prefillCores % s.prefillStages = 0
    /\ s.decodeCores % s.decodeStages = 0
    /\ s.prefillCores = 0 <=> s.mode # "PDS"
    /\ s.mode = "PD" => s.decodeStages > 1     \* else iter_start reads coreStatus[-1]
    /\ s.mode = "GPU_PD" => s.decodeCores = 1
    /\ s.mode # "GPU_PD" => s.prims = 1
    /\ s.ratio <= s.credit

VARIABLE setup    \* the one of this simulation

Mixed == setup.mode # "PDS"
PrefillCores == setup.prefillCores       \* prefill_core: groups that prefill
PrefillStages == setup.prefillStages     \* prefill_stage: length of a pipeline
DecodeCores == setup.decodeCores         \* decode_core, attend_cores
DecodeStages == setup.decodeStages       \* decode_stage, model_stage
PrefillIters == setup.prefillIters
DecodeIters == setup.decodeIters
CoreCredit == setup.credit

Reqs  == 1 .. setup.requests
Cores == 0 .. PrefillCores + DecodeCores - 1
Jobs  == IF Mixed THEN {"BOTH"} ELSE {"PREFILL", "DECODE"}

\* job_type and stage_index of a core.
JobOf(c) == IF Mixed THEN "BOTH"
            ELSE IF c < PrefillCores THEN "PREFILL" ELSE "DECODE"
JobCores(j) == {c \in Cores : JobOf(c) = j}
StageIndex(c) == IF c < PrefillCores
                 THEN (c % PrefillStages) + 1
                 ELSE ((c - PrefillCores) % DecodeStages) + 1
Stages(j) == IF j = "PREFILL" THEN PrefillStages ELSE DecodeStages
FirstCores(j) ==
  IF j = "PREFILL"
  THEN [k \in 1 .. PrefillCores \div PrefillStages |-> (k - 1) * PrefillStages]
  ELSE [k \in 1 .. DecodeCores \div DecodeStages |->
          PrefillCores + (k - 1) * DecodeStages]

\* The events of MemInterface: those notified in the current instant, and
\* those a CYCLE ahead (retry_start is ev_dis_start notified a CYCLE ahead).
NowEvents   == {"catch_dis_start", "dis_start"}
CycleEvents == {"dis_config", "retry_start", "write"}

VARIABLES
  req,          \* requestRecords
  arrived,      \* the requests whose arrival time has come
  batch,        \* batchInfo of every core
  reqDecode,    \* req_decode: prefilled requests waiting for a decode core
  idleDecode,   \* idle_decode of every decode pipeline
  unfinished,   \* unfinished_prefill of every mixed pipeline
  primIndex,    \* prim_index: the primitive of the GPU stream
  busy,         \* busy_p, busy_d
  waitSchedule, \* wait_schedule_p, wait_schedule_d
  waitStart,    \* wait_send_start_prefill, wait_send_start_decode
  ackCnt,       \* g_recv_ack_cnt_p, g_recv_ack_cnt_d
  doneMsg,      \* g_done_msg_p, g_done_msg_d
  tempConfig,   \* temp_config: the cores with a config not yet queued
  writeBuffer,  \* write_buffer, per core
  outgoing,     \* write_helper's temp_buffer, per core
  config,       \* where distribute_config is
  start,        \* where distribute_start_data is
  helper,       \* where write_helper is
  needTrigger,  \* need_trigger_send_start
  pend,         \* events notified and not yet fired
  inbox,        \* messages a core has received and not yet taken
  core,         \* what a core waits for or does
  acks, dones   \* cores whose ACK or DONE is on its way to the host

schedVars == <<req, batch, reqDecode, idleDecode, unfinished, primIndex, busy,
               waitSchedule>>
netVars   == <<inbox, core, acks, dones>>
vars == <<setup, req, arrived, batch, reqDecode, idleDecode, unfinished,
          primIndex, busy, waitSchedule,
          waitStart, ackCnt, doneMsg, tempConfig, writeBuffer, outgoing,
          config, start, helper, needTrigger, pend, inbox, core, acks, dones>>

\* The pipelines that decode.
Pipes == 0 .. DecodeCores \div DecodeStages - 1
PipeOf(c) == (c - PrefillCores) \div DecodeStages

NoMessages == [c \in Cores |-> <<>>]

Init ==
  /\ setup \in Setups
  /\ req = [r \in Reqs |-> [phase |-> "UNTOUCHED", distribute |-> 0,
                            prefills |-> 0, decodes |-> 0]]
  /\ arrived = IF setup.late THEN {} ELSE Reqs
  /\ batch = [c \in Cores |-> <<>>]
  /\ reqDecode = <<>>
  /\ idleDecode = [g \in Pipes |-> <<>>]
  /\ unfinished = [g \in Pipes |-> <<>>]
  /\ primIndex = 0
  /\ busy = [j \in Jobs |-> FALSE]
  /\ waitSchedule = [j \in Jobs |-> j # "DECODE"]
  /\ waitStart = [j \in Jobs |-> FALSE]
  /\ ackCnt = [j \in Jobs |-> 0]
  /\ doneMsg = [j \in Jobs |-> <<>>]
  /\ tempConfig = {}
  /\ writeBuffer = NoMessages
  /\ outgoing = NoMessages
  /\ config = "wait"
  /\ start = "wait"
  /\ helper = "wait"
  /\ needTrigger = FALSE
  /\ pend = {"dis_config"}          \* start_i.pos()
  /\ inbox = NoMessages
  /\ core = [c \in Cores |-> "idle"]
  /\ acks = {}
  /\ dones = {}

\* distribute_config runs from its event to its wait without suspending.
Suspended == config \in {"wait", "writing"}

\* Simulated time can pass: no thread is running and no event is due now.
Idle == Suspended /\ pend \cap NowEvents = {}
-----------------------------------------------------------------------------
(* The schedule of one iteration.                                          *)

Phases == {"UNTOUCHED", "PREFILL", "DECODE", "PD_DONE"}
StageType == [req : Reqs, type : Phases]

\* The elements of s that are in P, in their order.
Among(s, P) ==
  LET kept[n \in 0 .. Len(s)] ==
        IF n = 0 THEN <<>>
        ELSE IF s[n] \in P THEN Append(kept[n - 1], s[n]) ELSE kept[n - 1]
  IN kept[Len(s)]

\* prefill_distribute < prefill_iters.
ChunksLeft(q) == q.distribute < PrefillIters

\* iter_start(JOB_PREFILL) for the first core of a pipeline: go on with the
\* prompt in hand, else take the first one with chunks left or untouched.
\* st is the schedule of the cores before it.
PickPrefill(st, c) ==
  LET kept == Among(batch[c], {s \in StageType : ChunksLeft(st.req[s.req])})
      open == {r \in Reqs :
                 \/ st.req[r].phase = "PREFILL" /\ ChunksLeft(st.req[r])
                 \/ st.req[r].phase = "UNTOUCHED" /\ r \in arrived}
      take(r, stages) ==
        [req   |-> [st.req EXCEPT ![r].phase = "PREFILL",
                                  ![r].distribute = @ + 1],
         picks |-> [st.picks EXCEPT ![c] = stages]]
  IN IF kept # <<>> THEN take(kept[1].req, kept)
     ELSE IF open = {} THEN [st EXCEPT !.picks[c] = <<>>]
     ELSE take(Min(open), <<[req |-> Min(open), type |-> "PREFILL"]>>)

PrefillPlan ==
  LET firsts == FirstCores("PREFILL")
      plan[n \in 0 .. Len(firsts)] ==
        IF n = 0 THEN [req |-> req, picks |-> batch]
        ELSE PickPrefill(plan[n - 1], firsts[n])
  IN plan[Len(firsts)]

\* Bug: what is taken from a queue is not popped.
NotPopped(n, s) == s

\* The first n of a queue, as many as there are, and what is left after them.
First(n, s) == SubSeq(s, 1, Min({n, Len(s)}))
Rest(n, s) == SubSeq(s, Min({n, Len(s)}) + 1, Len(s))

AsStages(ids) == [i \in 1 .. Len(ids) |-> [req |-> ids[i], type |-> "DECODE"]]
AsIds(stages) == [i \in 1 .. Len(stages) |-> stages[i].req]

\* Bug: the credit is compared with <= instead of <.
CreditOffByOne == CoreCredit + 1

\* The decodes a core takes in one iteration.
Credit == CoreCredit

\* iter_start(JOB_DECODE) for the first core of a pipeline: what comes down
\* from its last stage, then its waiting list, then new decodes, one credit
\* each.
PickDecode(st, c) ==
  LET g     == PipeOf(c)
      live  == Among(batch[c + DecodeStages - 1],
                     {s \in StageType : s.type # "PD_DONE"})
      room1 == Credit - Len(First(Credit, live))
      idle  == st.idle[g] \o AsIds(Rest(Credit, live))
      room2 == room1 - Len(First(room1, idle))
  IN [picks |-> [st.picks EXCEPT ![c] = First(Credit, live)
                                        \o AsStages(First(room1, idle))
                                        \o AsStages(First(room2, st.queue))],
      idle  |-> [st.idle EXCEPT ![g] = Rest(room1, idle)],
      queue |-> Rest(room2, st.queue)]

DecodePlan ==
  LET firsts == FirstCores("DECODE")
      plan[n \in 0 .. Len(firsts)] ==
        IF n = 0 THEN [picks |-> batch, idle |-> idleDecode, queue |-> reqDecode]
        ELSE PickDecode(plan[n - 1], firsts[n])
  IN plan[Len(firsts)]

\* iter_start() of the mixed schedulers for the first core of a pipeline: the
\* decodes that come down from its last stage, then its waiting list, one
\* credit each.
Returning(c) == Among(batch[c + DecodeStages - 1], {s \in StageType : s.type = "DECODE"})
Waiting(c) == idleDecode[PipeOf(c)] \o AsIds(Rest(Credit, Returning(c)))
RoomToWait(c) == Credit - Len(First(Credit, Returning(c)))

\* How often x is in a queue.
Occurrences(x, queue) == Cardinality({i \in DOMAIN queue : queue[i] = x})

\* The credit that the batch b of a core of job j uses up: one for a decode,
\* HW_PD_RATIO for a chunk in a mixed batch; a core that only prefills takes one
\* prompt.
CreditOf(j, b) ==
  LET chunks == Occurrences("PREFILL", [i \in 1 .. Len(b) |-> b[i].type])
  IN  IF j = "PREFILL" THEN Len(b) * CoreCredit
      ELSE Len(b) - chunks + chunks * setup.ratio

\* The prompts of which a chunk may be taken next: the one in hand, else those
\* untouched.
Candidates(c) ==
  IF unfinished[PipeOf(c)] # <<>> THEN {Head(unfinished[PipeOf(c)])}
  ELSE {r \in arrived : req[r].phase = "UNTOUCHED"}

\* The first cores that have room for one more chunk.
Hungry == {c \in Range(FirstCores("BOTH")) :
             Credit - CreditOf("BOTH", batch[c]) >= setup.ratio /\ Candidates(c) # {}}

\* Bug: a later stage keeps its own batch instead of its predecessor's.
OwnBatch(c) == batch[c]

\* A core that is not first in its pipeline takes over its predecessor's
\* batch of the last iteration.
PredecessorBatch(c) == batch[c - 1]

\* generate_prims: a config for every core of the job, with work or without.
GeneratePrims(j) == JobCores(j)

\* The configs of this job join those already in temp_config.
Collected(j) == tempConfig \union GeneratePrims(j)

\* The common end of iter_start: an idle job gives back its turn and clears
\* temp_config, else its cores have configs to send.
Announce(j, new) ==
  LET idle == \A c \in JobCores(j) : new[c] = <<>>
  IN /\ busy' = [busy EXCEPT ![j] = ~idle]
     /\ waitSchedule' = [waitSchedule EXCEPT ![j] = idle]
     /\ tempConfig' = IF idle THEN {} ELSE Collected(j)

\* Every core of the job gets its batch.
NewBatches(j, picks) ==
  [c \in Cores |-> IF JobOf(c) # j THEN batch[c]
                   ELSE IF StageIndex(c) = 1 THEN picks[c]
                   ELSE PredecessorBatch(c)]

Install(j, picks) ==
  \E new \in {NewBatches(j, picks)} : batch' = new /\ Announce(j, new)

IterStartPrefill ==
  /\ config = "prefill"
  /\ config' = "decode"
  /\ IF waitSchedule["PREFILL"] /\ ~busy["PREFILL"]
     THEN \E plan \in {PrefillPlan} :
            /\ Install("PREFILL", plan.picks)
            /\ req' = plan.req
     ELSE UNCHANGED <<req, batch, busy, waitSchedule, tempConfig>>
  /\ UNCHANGED <<arrived, reqDecode, idleDecode, unfinished, primIndex, waitStart,
                 ackCnt, doneMsg, writeBuffer, outgoing, start, helper,
                 needTrigger, pend, netVars>>

IterStartDecode ==
  /\ config = "decode"
  /\ config' = "fill"
  /\ IF waitSchedule["DECODE"] /\ ~busy["DECODE"]
     THEN \E plan \in {DecodePlan} :
            /\ Install("DECODE", plan.picks)
            /\ idleDecode' = plan.idle
            /\ reqDecode' = plan.queue
     ELSE UNCHANGED <<batch, busy, waitSchedule, tempConfig, idleDecode,
                      reqDecode>>
  /\ UNCHANGED <<req, arrived, unfinished, primIndex, waitStart, ackCnt, doneMsg,
                 writeBuffer, outgoing, start, helper, needTrigger, pend,
                 netVars>>

\* The decodes of a new iteration.  The GPU goes on with the batch in hand until
\* its last primitive is done.
IterStartMixed ==
  /\ config = "both"
  /\ config' = IF busy["BOTH"] THEN "fill" ELSE "chunks"
  /\ IF busy["BOTH"] \/ primIndex # 0
     THEN UNCHANGED <<batch, idleDecode>>
     ELSE /\ batch' = NewBatches("BOTH",
               [c \in Range(FirstCores("BOTH")) |->
                  First(Credit, Returning(c))
                    \o AsStages(First(RoomToWait(c), Waiting(c)))])
          /\ idleDecode' = [g \in Pipes |->
               LET c == FirstCores("BOTH")[g + 1]
               IN  Rest(RoomToWait(c), Waiting(c))]
  /\ UNCHANGED <<req, arrived, reqDecode, unfinished, primIndex, busy, waitSchedule,
                 waitStart, ackCnt, doneMsg, tempConfig, writeBuffer, outgoing,
                 start, helper, needTrigger, pend, netVars>>

\* One more chunk; a prompt with more chunks queues up again behind the others.
PickChunk ==
  /\ config = "chunks" /\ primIndex = 0 /\ Hungry # {}
  /\ LET c == Min(Hungry)
         r == Min(Candidates(c))
     IN  /\ req' = [req EXCEPT ![r].phase = "PREFILL", ![r].distribute = @ + 1]
         /\ batch' = [batch EXCEPT ![c] = Append(@, [req |-> r, type |-> "PREFILL"])]
         /\ unfinished' = [unfinished EXCEPT ![PipeOf(c)] =
              (IF @ = <<>> THEN <<>> ELSE Tail(@))
                \o (IF ChunksLeft(req'[r]) THEN <<r>> ELSE <<>>)]
  /\ UNCHANGED <<arrived, reqDecode, idleDecode, primIndex, busy, waitSchedule,
                 waitStart, ackCnt, doneMsg, tempConfig, writeBuffer, outgoing,
                 config, start, helper, needTrigger, pend, netVars>>

MixedReady ==
  /\ config = "chunks" /\ (primIndex # 0 \/ Hungry = {})
  /\ config' = "fill"
  /\ Announce("BOTH", batch)
  /\ UNCHANGED <<req, arrived, batch, reqDecode, idleDecode, unfinished, primIndex,
                 waitStart, ackCnt, doneMsg, writeBuffer, outgoing, start, helper,
                 needTrigger, pend, netVars>>

\* iter_done for one stage of a last core's batch, at <<core, index>>.
\* The record's phase decides, not the stage's.
CountStage(st, at) ==
  LET r == batch[at[1]][at[2]].req
      q == st.req[r]
      prefilled == q.phase = "PREFILL" /\ q.prefills + 1 = PrefillIters
      decoded   == q.phase = "DECODE" /\ q.decodes + 1 >= DecodeIters
      next      == IF prefilled THEN "DECODE"
                   ELSE IF decoded THEN "PD_DONE" ELSE q.phase
  IN [req   |-> [st.req EXCEPT
                   ![r].phase = next,
                   ![r].prefills = IF q.phase = "PREFILL" THEN @ + 1 ELSE @,
                   ![r].decodes = IF q.phase = "DECODE" THEN @ + 1 ELSE @],
      batch |-> IF prefilled \/ decoded
                THEN [st.batch EXCEPT ![at[1]][at[2]].type = next]
                ELSE st.batch,
      queue |-> IF prefilled /\ ~Mixed THEN Append(st.queue, r) ELSE st.queue]

\* The same, with st bound so that it is evaluated once.
CountNext(before, at) ==
  CHOOSE after \in {CountStage(st, at) : st \in {before}} : TRUE

\* Only the last stage of a pipeline updates the records.
Counts(c) == StageIndex(c) = Stages(JobOf(c))

CountCore(st, c) ==
  LET counted[i \in 0 .. Len(batch[c])] ==
        IF i = 0 THEN st ELSE CountNext(counted[i - 1], <<c, i>>)
  IN IF Counts(c) THEN counted[Len(batch[c])] ELSE st

\* The cores in the order of their DONEs; with the last primitive of a stream.
IterDone(j, msgs) ==
  LET last == primIndex + 1 = setup.prims
      counted[n \in 0 .. Len(msgs)] ==
        IF n = 0 THEN [req |-> req, batch |-> batch, queue |-> reqDecode]
        ELSE CountCore(counted[n - 1], msgs[n])
  IN \E st \in {counted[IF last THEN Len(msgs) ELSE 0]} :
       /\ req' = st.req
       /\ batch' = st.batch
       /\ reqDecode' = st.queue
       /\ primIndex' = IF last THEN 0 ELSE primIndex + 1
       /\ busy' = [busy EXCEPT ![j] = FALSE]
       \* set by iter_done on a finished prompt, and by parse_done_msg
       /\ waitSchedule' = [k \in Jobs |->
                             \/ waitSchedule[k] \/ k = j
                             \/ /\ k = "DECODE" /\ ~busy["DECODE"]
                                /\ Len(st.queue) > Len(reqDecode)]
-----------------------------------------------------------------------------
(* MemInterface.                                                           *)

\* req_handler: the next request arrives.
Arrive ==
  /\ Idle
  /\ arrived # Reqs
  /\ arrived' = arrived \union {Min(Reqs \ arrived)}
  /\ pend' = pend \union {"dis_config"}
  /\ UNCHANGED <<schedVars, waitStart, ackCnt, doneMsg, tempConfig,
                 writeBuffer, outgoing, config, start, helper, needTrigger,
                 netVars>>

\* ev_dis_config fires; distribute_config misses it while it is writing.
DistributeConfig ==
  /\ Idle
  /\ "dis_config" \in pend
  /\ pend' = pend \ {"dis_config"}
  /\ config' = IF config # "wait" THEN config
               ELSE IF Mixed THEN "both" ELSE "prefill"
  /\ UNCHANGED <<schedVars, arrived, waitStart, ackCnt, doneMsg, tempConfig,
                 writeBuffer, outgoing, start, helper, needTrigger, netVars>>

\* fill_queue_config, and ev_write when any buffer holds a message.
FillQueueConfig ==
  /\ config = "fill"
  /\ writeBuffer' = [c \in Cores |-> IF c \in tempConfig
                                     THEN Append(writeBuffer[c], "CONFIG")
                                     ELSE writeBuffer[c]]
  /\ tempConfig' = {}
  /\ IF writeBuffer' # NoMessages
     THEN config' = "writing" /\ pend' = pend \union {"write"}
     ELSE config' = "wait" /\ UNCHANGED pend
  /\ UNCHANGED <<schedVars, arrived, waitStart, ackCnt, doneMsg, outgoing,
                 start, helper, needTrigger, netVars>>

\* recv_ack: parse_ack_msg on one more ACK; mixed schedulers have ev_dis_start
\* notified a CYCLE ahead.
RecvAck(c) ==
  LET j   == JobOf(c)
      all == ackCnt[j] + 1 >= Cardinality(JobCores(j))
  IN /\ Idle
     /\ c \in acks
     /\ acks' = acks \ {c}
     /\ ackCnt' = [ackCnt EXCEPT ![j] = IF all THEN 0 ELSE @ + 1]
     /\ waitStart' = [waitStart EXCEPT ![j] = @ \/ (all /\ ~Mixed)]
     /\ pend' = pend \union
                  IF all THEN {IF Mixed THEN "retry_start" ELSE "catch_dis_start"}
                  ELSE {}
     /\ UNCHANGED <<schedVars, arrived, doneMsg, tempConfig, writeBuffer,
                    outgoing, config, start, helper, needTrigger, inbox, core,
                    dones>>

\* Bug: the request for another round is not remembered.
TriggerForgotten == FALSE

\* catch_ev_dis_start's need_trigger_send_start.
TriggerRemembered == TRUE

\* ev_dis_start.notify(0) replaces a notification a CYCLE ahead.
CatchDisStart ==
  /\ Suspended
  /\ "catch_dis_start" \in pend
  /\ pend' = (pend \ {"catch_dis_start", "retry_start"}) \union {"dis_start"}
  /\ needTrigger' = TriggerRemembered
  /\ UNCHANGED <<schedVars, arrived, waitStart, ackCnt, doneMsg, tempConfig,
                 writeBuffer, outgoing, config, start, helper, netVars>>

\* Bug: every core is sent START, acknowledged or not.
StartsAll(c) == TRUE

\* The cores fill_queue_start does not skip.
Starts(c) == Mixed \/ waitStart[JobOf(c)]

\* START behind whatever is still in a core's lane.
FillQueueStart ==
  writeBuffer' = [c \in Cores |-> IF Starts(c) THEN Append(writeBuffer[c], "START")
                                  ELSE writeBuffer[c]]

\* ev_dis_start fires: fill_queue_start for the jobs that are acknowledged,
\* and ev_write even when there is nothing to write.  The event is lost while
\* distribute_start_data waits for write_done.
DistributeStart(e) ==
  /\ Suspended
  /\ e \in pend
  /\ IF start = "wait"
     THEN /\ FillQueueStart
          /\ waitStart' = [j \in Jobs |-> FALSE]
          /\ needTrigger' = FALSE
          /\ start' = "writing"
          /\ pend' = (pend \ {e}) \union {"write"}
     ELSE /\ pend' = pend \ {e}
          /\ UNCHANGED <<writeBuffer, waitStart, needTrigger, start>>
  /\ UNCHANGED <<schedVars, arrived, ackCnt, doneMsg, tempConfig, outgoing,
                 config, helper, netVars>>

\* ev_write fires: write_helper copies and clears write_buffer.  With nothing
\* to send, write_done is written false and true in one evaluation, which is
\* no edge.  The event is lost while write_helper is sending.
WriteBegin ==
  /\ Idle
  /\ "write" \in pend
  /\ pend' = pend \ {"write"}
  /\ IF helper = "wait"
     THEN /\ outgoing' = writeBuffer
          /\ writeBuffer' = NoMessages
          /\ helper' = IF writeBuffer = NoMessages THEN "wait" ELSE "sending"
     ELSE UNCHANGED <<outgoing, writeBuffer, helper>>
  /\ UNCHANGED <<schedVars, arrived, waitStart, ackCnt, doneMsg, tempConfig,
                 config, start, needTrigger, netVars>>

\* write_helper sends the next message of a core's lane.  One CYCLE after the
\* last message, sooner than a core can answer it, the rising edge of
\* write_done wakes every distributor that waits for it.
WriteStep(c) ==
  /\ Idle
  /\ "retry_start" \notin pend
  /\ helper = "sending"
  /\ outgoing[c] # <<>>
  /\ outgoing' = [outgoing EXCEPT ![c] = Tail(@)]
  /\ inbox' = [inbox EXCEPT ![c] = Append(@, Head(outgoing[c]))]
  /\ IF outgoing' # NoMessages
     THEN UNCHANGED <<helper, config, start, pend>>
     ELSE /\ helper' = "wait"
          /\ config' = "wait"
          /\ start' = "wait"
          /\ pend' = IF start = "writing" /\ needTrigger
                     THEN pend \union {"retry_start"} ELSE pend
  /\ UNCHANGED <<schedVars, arrived, waitStart, ackCnt, doneMsg, tempConfig,
                 writeBuffer, needTrigger, core, acks, dones>>

\* recv_done: parse_done_msg on one more DONE.
RecvDone(c) ==
  LET j    == JobOf(c)
      msgs == Append(doneMsg[j], c)
      all  == Len(msgs) >= Cardinality(JobCores(j))
  IN /\ Idle
     /\ c \in dones
     /\ dones' = dones \ {c}
     /\ doneMsg' = [doneMsg EXCEPT ![j] = IF all THEN <<>> ELSE msgs]
     /\ IF all
        THEN IterDone(j, msgs) /\ pend' = pend \union {"dis_config"}
        ELSE UNCHANGED <<req, batch, reqDecode, primIndex, busy, waitSchedule, pend>>
     /\ UNCHANGED <<arrived, idleDecode, unfinished, waitStart, ackCnt, tempConfig,
                    writeBuffer, outgoing, config, start, helper, needTrigger,
                    inbox, core, acks>>
-----------------------------------------------------------------------------
(* The cores, as the host sees them.                                       *)

\* What a core waits for, and what it does next.
Awaits == [idle |-> "CONFIG", configured |-> "START"]

\* RECV_CONF answers the last CONFIG with an ACK; RECV_START begins the work.
CoreTakes(c) ==
  /\ Idle
  /\ core[c] \in DOMAIN Awaits
  /\ \E i \in 1 .. Len(inbox[c]) :
       /\ inbox[c][i] = Awaits[core[c]]
       /\ inbox' = [inbox EXCEPT ![c] = RemoveAt(@, i)]
  /\ IF core[c] = "idle"
     THEN /\ core' = [core EXCEPT ![c] = "configured"]
          /\ acks' = acks \union {c}
     ELSE /\ core' = [core EXCEPT ![c] = "running"]
          /\ UNCHANGED acks
  /\ UNCHANGED <<schedVars, arrived, waitStart, ackCnt, doneMsg, tempConfig,
                 writeBuffer, outgoing, config, start, helper, needTrigger,
                 pend, dones>>

\* SEND_DONE.
CoreDone(c) ==
  /\ Idle
  /\ core[c] = "running"
  /\ core' = [core EXCEPT ![c] = "idle"]
  /\ dones' = dones \union {c}
  /\ UNCHANGED <<schedVars, arrived, waitStart, ackCnt, doneMsg, tempConfig,
                 writeBuffer, outgoing, config, start, helper, needTrigger,
                 pend, inbox, acks>>
-----------------------------------------------------------------------------
Finished == \A r \in Reqs : req[r].phase = "PD_DONE"

Step ==
  /\ UNCHANGED setup
  /\ \/ IterStartPrefill \/ IterStartDecode \/ IterStartMixed
     \/ PickChunk \/ MixedReady \/ FillQueueConfig
     \/ Arrive \/ DistributeConfig \/ CatchDisStart
     \/ DistributeStart("dis_start") \/ DistributeStart("retry_start")
     \/ WriteBegin
     \/ \E c \in Cores : \/ WriteStep(c) \/ CoreTakes(c) \/ CoreDone(c)
                         \/ RecvAck(c) \/ RecvDone(c)

\* sc_stop() when the last request is done.
Stop == Finished /\ UNCHANGED vars

Next == (~Finished /\ Step) \/ Stop

Spec == Init /\ [][Next]_vars

\* The simulation kernel goes on while a process can run.
FairSpec == Spec /\ WF_vars(Next)
-----------------------------------------------------------------------------
(* Properties.                                                             *)

\* Every variable has the type of what it models, and no batch exceeds what
\* a core takes in one iteration.
TypeOK ==
  /\ setup \in Setups
  /\ req \in [Reqs -> [phase : Phases, distribute : 0 .. PrefillIters,
                       prefills : 0 .. PrefillIters, decodes : 0 .. DecodeIters]]
  /\ arrived \subseteq Reqs
  /\ DOMAIN batch = Cores
  /\ \A c \in Cores : batch[c] \in Seq(StageType) /\ CreditOf(JobOf(c), batch[c]) <= CoreCredit
  /\ reqDecode \in Seq(Reqs)
  /\ DOMAIN idleDecode = Pipes /\ DOMAIN unfinished = Pipes
  /\ \A g \in Pipes : idleDecode[g] \in Seq(Reqs) /\ unfinished[g] \in Seq(Reqs)
  /\ primIndex \in 0 .. setup.prims - 1
  /\ busy \in [Jobs -> BOOLEAN]
  /\ waitSchedule \in [Jobs -> BOOLEAN]
  /\ waitStart \in [Jobs -> BOOLEAN]
  /\ ackCnt \in [Jobs -> Nat]
  /\ \A j \in Jobs : doneMsg[j] \in Seq(JobCores(j))
  /\ tempConfig \subseteq Cores
  /\ \A c \in Cores : /\ writeBuffer[c] \in Seq({"CONFIG", "START"})
                      /\ outgoing[c] \in Seq({"CONFIG", "START"})
                      /\ inbox[c] \in Seq({"CONFIG", "START"})
  /\ config \in {"wait", "prefill", "decode", "both", "chunks", "fill", "writing"}
  /\ start \in {"wait", "writing"} /\ helper \in {"wait", "sending"}
  /\ needTrigger \in BOOLEAN
  /\ pend \subseteq NowEvents \union CycleEvents
  /\ core \in [Cores -> {"idle", "configured", "running"}]
  /\ acks \subseteq Cores /\ dones \subseteq Cores

\* How often x is in the queues q[k] of all k in S.
Copies(x, q, S) == SumFunctionOnSet([k \in S |-> Occurrences(x, q[k])], S)

\* The batches that iter_done has yet to count.
Uncounted(c) == busy[JobOf(c)] \/ ~Counts(c) \/ primIndex # 0 \/ config = "chunks"
Pending == [c \in Cores |-> IF Uncounted(c) THEN batch[c] ELSE <<>>]

\* The cores that decode, and those that prefill.
DecodeSide  == {c \in Cores : JobOf(c) # "PREFILL"}
PrefillSide == {c \in Cores : JobOf(c) # "DECODE"}

\* In how many places a request is decoded or waits to be.
DecodePlaces(r) ==
  Copies([req |-> r, type |-> "DECODE"], batch, DecodeSide)
    + Occurrences(r, reqDecode) + Copies(r, idleDecode, Pipes)

\* A request that is decoding is in exactly one place: the batch of one
\* core that decodes or one queue.  No request is lost between two iterations,
\* and none is decoded twice in one.
DecodesAccounted ==
  \A r \in Reqs : req[r].phase = "DECODE" => DecodePlaces(r) = 1

\* The chunks of a prompt that were distributed and not yet counted are
\* exactly those in the pipelines; a pipeline's last core counts once per
\* iteration.  So a prompt is neither finished early nor left waiting.  In a
\* mixed schedule a prompt with chunks left waits in the queue of one pipeline.
ChunksAccounted ==
  \A r \in Reqs :
    /\ req[r].distribute - req[r].prefills =
         Copies([req |-> r, type |-> "PREFILL"], Pending, PrefillSide)
    /\ req[r].phase \in {"DECODE", "PD_DONE"} => req[r].prefills = PrefillIters
    /\ Mixed => Copies(r, unfinished, Pipes) =
                  IF req[r].phase = "PREFILL" /\ ChunksLeft(req[r]) THEN 1 ELSE 0

\* Messages on their way to a core, in the order it will receive them.
ToCore(c) == inbox[c] \o outgoing[c] \o writeBuffer[c]

\* CONFIG and START alternate for every core, however the two jobs share the
\* write buffers: a core is sent START only after it has acknowledged its
\* CONFIG, and CONFIG only after its DONE has been counted.
MessagesInTurn ==
  \A c \in Cores :
    /\ Len(ToCore(c)) <= 1
    /\ "CONFIG" \in Range(ToCore(c)) => core[c] = "idle" /\ busy[JobOf(c)]
                                        /\ c \notin dones
    /\ "START" \in Range(ToCore(c)) =>
         core[c] = "configured" /\ c \notin acks /\ ~waitStart[JobOf(c)]

\* temp_config keeps a config until it is sent: a core of a job whose
\* iteration has begun has its config in temp_config or on its way, has
\* acknowledged it, or has finished.
UnsentConfigsKept ==
  \A c \in Cores : busy[JobOf(c)] =>
    \/ c \in tempConfig
    \/ "CONFIG" \in Range(ToCore(c))
    \/ core[c] # "idle"
    \/ c \in dones
    \/ c \in Range(doneMsg[JobOf(c)])

\* Every request is decoded to its end, although threads miss events: a
\* distribute_config or distribute_start_data that waits for write_done, and a
\* write_helper that is sending.  When requests arrive late, the only thing that
\* stops the host is a config of PDS that was erased from temp_config.
EveryRequestFinishes ==
  <>(Finished \/ (setup.late /\ ~Mixed /\ ~UnsentConfigsKept))
=============================================================================
