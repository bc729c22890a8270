---------------------------- MODULE PdHostProofs ----------------------------
(***************************************************************************)
(* Theorems about PdHost, for every workload, machine and scheduler: the   *)
(* messages of the host and of every core take turns (TurnInv), and the    *)
(* schedule keeps account of every decode and of every chunk of a prompt   *)
(* (ServeInv).                                                             *)
(***************************************************************************)
EXTENDS PdHost, SumProofs, FiniteSetTheorems, SequenceTheorems, TLAPS

Messages == {"CONFIG", "START"}

\* The variables of the message protocol, which the schedule only reaches
\* through busy and temp_config.
Types ==
  /\ setup \in Setups
  /\ busy \in [Jobs -> BOOLEAN]
  /\ waitStart \in [Jobs -> BOOLEAN]
  /\ ackCnt \in [Jobs -> Nat]
  /\ doneMsg \in [Jobs -> Seq(Cores)]
  /\ tempConfig \subseteq Cores
  /\ writeBuffer \in [Cores -> Seq(Messages)]
  /\ outgoing \in [Cores -> Seq(Messages)]
  /\ inbox \in [Cores -> Seq(Messages)]
  /\ core \in [Cores -> {"idle", "configured", "running"}]
  /\ acks \subseteq Cores /\ dones \subseteq Cores

\* Nothing is on its way to a core; one message is, in one of three places.
Quiet(c) == inbox[c] = <<>> /\ outgoing[c] = <<>> /\ writeBuffer[c] = <<>>
Carries(c, m) ==
  \/ inbox[c] = <<m>> /\ outgoing[c] = <<>> /\ writeBuffer[c] = <<>>
  \/ inbox[c] = <<>> /\ outgoing[c] = <<m>> /\ writeBuffer[c] = <<>>
  \/ inbox[c] = <<>> /\ outgoing[c] = <<>> /\ writeBuffer[c] = <<m>>

Counted(c) == c \in Range(doneMsg[JobOf(c)])

\* An iteration of a core, from its config to the DONE that is counted.
Unsent(c) == /\ Quiet(c) /\ core[c] = "idle"
             /\ c \notin acks /\ c \notin dones /\ ~Counted(c)
Configuring(c) == /\ Carries(c, "CONFIG") /\ core[c] = "idle"
                  /\ c \notin acks /\ c \notin dones /\ ~Counted(c)
Answering(c) == /\ Quiet(c) /\ core[c] = "configured"
                /\ c \in acks /\ c \notin dones /\ ~Counted(c)
Acked(c) == /\ Quiet(c) /\ core[c] = "configured"
            /\ c \notin acks /\ c \notin dones /\ ~Counted(c)
Starting(c) == /\ Carries(c, "START") /\ core[c] = "configured"
               /\ c \notin acks /\ c \notin dones /\ ~Counted(c)
Running(c) == /\ Quiet(c) /\ core[c] = "running"
              /\ c \notin acks /\ c \notin dones /\ ~Counted(c)
Finishing(c) == /\ Quiet(c) /\ core[c] = "idle"
                /\ c \notin acks /\ c \in dones /\ ~Counted(c)
Over(c) == /\ Quiet(c) /\ core[c] = "idle"
           /\ c \notin acks /\ c \notin dones /\ Counted(c)

Begun(c) == Starting(c) \/ Running(c) \/ Finishing(c) \/ Over(c)

\* Where a core is in its iteration.
Turn(c) ==
  /\ Unsent(c) \/ Configuring(c) \/ Answering(c) \/ Acked(c) \/ Begun(c)
  /\ ~busy[JobOf(c)] => Unsent(c)
  /\ c \in tempConfig => busy[JobOf(c)] /\ Unsent(c)

\* The job is due to be started: for a mixed schedule by the event alone.
StartDue(j) == IF Mixed THEN "retry_start" \in pend ELSE waitStart[j]

AckedOf(j) == {c \in JobCores(j) : Acked(c)}

\* The counts of ACK and DONE, and the job as a whole: it is started at once.
JobTurn(j) ==
  /\ StartDue(j) => ackCnt[j] = 0 /\ AckedOf(j) = JobCores(j)
  /\ ~StartDue(j) => ackCnt[j] = Cardinality(AckedOf(j)) /\ AckedOf(j) # JobCores(j)
  /\ (\E c \in JobCores(j) : Begun(c)) => \A c \in JobCores(j) : Begun(c)
  /\ Range(doneMsg[j]) \subseteq JobCores(j)
  /\ Len(doneMsg[j]) = Cardinality(Range(doneMsg[j]))

\* write_helper sends exactly while it has something to send, and the mixed
\* schedulers, which have one job, use neither of the flags of PDS.
Threads ==
  /\ helper = "wait" => outgoing = NoMessages
  /\ Mixed => /\ ~needTrigger /\ pend \cap NowEvents = {}
              /\ \A j \in Jobs : ~waitStart[j]
              /\ start # "wait" =>
                   \E c \in Cores : Starting(c) /\ inbox[c] = <<>>

\* Which scheduler distribute_config is in; a mixed one picks chunks for an
\* iteration that has not begun.
ConfigTurn ==
  /\ config \in {"prefill", "decode"} => ~Mixed
  /\ config \in {"both", "chunks"} => Mixed
  /\ config = "chunks" => ~busy["BOTH"]

TurnInv ==
  /\ Types
  /\ ConfigTurn
  /\ \A c \in Cores : Turn(c)
  /\ \A j \in Jobs : JobTurn(j)
  /\ Threads
-----------------------------------------------------------------------------
(* What a set-up fixes.                                                    *)

\* The cores of a job.
LEMMA SetupFacts ==
  ASSUME setup \in Setups
  PROVE  /\ IsFiniteSet(Cores)
         /\ \A c \in Cores : JobOf(c) \in Jobs /\ c \in JobCores(JobOf(c))
         /\ \A j \in Jobs : /\ JobCores(j) \subseteq Cores /\ JobCores(j) # {}
                            /\ IsFiniteSet(JobCores(j))
                            /\ \A c \in JobCores(j) : JobOf(c) = j
<1> DEFINE n == PrefillCores + DecodeCores
<1>1. /\ PrefillCores \in Nat /\ DecodeCores \in Nat \ {0}
      /\ PrefillCores = 0 <=> Mixed
  BY PdAssumption DEF PrefillCores, DecodeCores, Mixed
<1>2. IsFiniteSet(Cores)
  BY <1>1, FS_Interval DEF Cores
<1>3. \A c \in Cores : JobOf(c) \in Jobs /\ c \in JobCores(JobOf(c))
  BY DEF JobOf, Jobs, JobCores
<1>4. ASSUME NEW j \in Jobs
      PROVE  /\ JobCores(j) \subseteq Cores /\ JobCores(j) # {}
             /\ IsFiniteSet(JobCores(j))
             /\ \A c \in JobCores(j) : JobOf(c) = j
  <2>1. JobCores(j) \subseteq Cores /\ \A c \in JobCores(j) : JobOf(c) = j
    BY DEF JobCores
  <2>2. IsFiniteSet(JobCores(j))
    BY <1>2, <2>1, FS_Subset
  <2>3. JobCores(j) # {}
    <3>1. 0 \in Cores /\ n - 1 \in Cores
      BY <1>1 DEF Cores
    <3>2. CASE j = "PREFILL"
      <4>1. ~Mixed
        BY <3>2 DEF Jobs
      <4>2. JobOf(0) = j
        BY <1>1, <3>2, <4>1 DEF JobOf
      <4> QED BY <3>1, <4>2 DEF JobCores
    <3>3. CASE j # "PREFILL"
      <4>1. JobOf(n - 1) = j
        BY <1>1, <3>3 DEF JobOf, Jobs
      <4> QED BY <3>1, <4>1 DEF JobCores
    <3> QED BY <3>2, <3>3
  <2> QED BY <2>1, <2>2, <2>3
<1> QED BY <1>2, <1>3, <1>4

\* A set-up is chosen once.
LEMMA SetupKept ==
  ASSUME setup' = setup
  PROVE  /\ Mixed' = Mixed /\ Cores' = Cores /\ Jobs' = Jobs
         /\ \A c : JobOf(c)' = JobOf(c)
         /\ \A j : JobCores(j)' = JobCores(j)
         /\ NoMessages' = NoMessages
<1>1. Mixed' = Mixed /\ Cores' = Cores /\ PrefillCores' = PrefillCores
  BY DEF Mixed, Cores, PrefillCores, DecodeCores
<1>2. Jobs' = Jobs /\ \A c : JobOf(c)' = JobOf(c)
  BY <1>1 DEF Jobs, JobOf
<1>3. \A j : JobCores(j)' = JobCores(j)
  BY <1>1, <1>2 DEF JobCores
<1> QED BY <1>1, <1>2, <1>3 DEF NoMessages
-----------------------------------------------------------------------------
(* What a step keeps of a core and of a job.                               *)

\* A core stays where it is, although its message may move on.
Same(c) ==
  /\ Quiet(c)' <=> Quiet(c)
  /\ Carries(c, "CONFIG")' <=> Carries(c, "CONFIG")
  /\ Carries(c, "START")' <=> Carries(c, "START")
  /\ core'[c] = core[c]
  /\ c \in acks' <=> c \in acks
  /\ c \in dones' <=> c \in dones
  /\ Counted(c)' <=> Counted(c)

\* It keeps its place.
LEMMA PlaceKept ==
  ASSUME NEW c, Same(c)
  PROVE  /\ Unsent(c)' <=> Unsent(c)
         /\ Configuring(c)' <=> Configuring(c)
         /\ Answering(c)' <=> Answering(c)
         /\ Acked(c)' <=> Acked(c)
         /\ Starting(c)' <=> Starting(c)
         /\ Begun(c)' <=> Begun(c)
BY DEF Same, Unsent, Configuring, Answering, Acked, Starting, Running, Finishing, Over, Begun

\* A core that has begun does not wait for START.
LEMMA BegunNotAcked ==
  ASSUME NEW c, Begun(c)
  PROVE  ~Acked(c)
<1>1. ~(Carries(c, "START") /\ Quiet(c))
  <2>1. <<"START">> # <<>>
    OBVIOUS
  <2> QED BY <2>1, Zenon DEF Carries, Quiet
<1>2. core[c] = "configured" => Starting(c)
  BY DEF Begun, Running, Finishing, Over
<1> QED BY <1>1, <1>2 DEF Starting, Acked

\* And its turn, when its job is still busy or still not.
LEMMA TurnKept ==
  ASSUME NEW c \in Cores, Turn(c), Same(c), setup' = setup,
         busy'[JobOf(c)] = busy[JobOf(c)], c \in tempConfig' => c \in tempConfig
  PROVE  Turn(c)'
BY PlaceKept, SetupKept DEF Turn

\* A job whose cores are acknowledged and begun as before.
LEMMA JobKept ==
  ASSUME NEW j \in Jobs, JobTurn(j), setup' = setup,
         \A c \in JobCores(j) : (Acked(c)' <=> Acked(c)) /\ (Begun(c)' <=> Begun(c)),
         ackCnt'[j] = ackCnt[j], doneMsg'[j] = doneMsg[j],
         StartDue(j)' <=> StartDue(j)
  PROVE  JobTurn(j)'
<1>1. JobCores(j)' = JobCores(j)
  BY SetupKept
<1>2. AckedOf(j)' = AckedOf(j)
  BY <1>1 DEF AckedOf
<1>3. (\E c \in JobCores(j)' : Begun(c)') => \A c \in JobCores(j)' : Begun(c)'
  BY <1>1 DEF JobTurn
<1>4. (StartDue(j) => ackCnt[j] = 0 /\ AckedOf(j) = JobCores(j))'
  BY <1>1, <1>2 DEF JobTurn
<1>5. (~StartDue(j) => ackCnt[j] = Cardinality(AckedOf(j)) /\ AckedOf(j) # JobCores(j))'
  BY <1>1, <1>2 DEF JobTurn
<1>6. Range(doneMsg'[j]) \subseteq JobCores(j)' /\ Len(doneMsg'[j]) = Cardinality(Range(doneMsg'[j]))
  BY <1>1 DEF JobTurn
<1> QED BY <1>3, <1>4, <1>5, <1>6 DEF JobTurn
-----------------------------------------------------------------------------
(* One lemma for each kind of step.                                        *)

\* What a step keeps of every lane, core and count.
LanesKept == UNCHANGED <<writeBuffer, outgoing, inbox, core, acks, dones, doneMsg>>

\* Then every core stays where it is.
LEMMA SameLanes ==
  ASSUME setup' = setup, LanesKept, NEW c
  PROVE  Same(c)
BY SetupKept DEF LanesKept, Same, Quiet, Carries, Counted

\* A step that only changes the schedule: it notifies neither of the events of
\* START.
LEMMA ScheduleInv ==
  ASSUME TurnInv, setup' = setup, LanesKept,
         UNCHANGED <<busy, waitStart, ackCnt, tempConfig, start, helper, needTrigger>>,
         "retry_start" \in pend' <=> "retry_start" \in pend,
         pend' \cap NowEvents \subseteq pend,
         ConfigTurn'
  PROVE  TurnInv'
<1>1. Types'
  BY SetupKept DEF TurnInv, Types, LanesKept
<1>2. \A c \in Cores' : Turn(c)'
  BY SetupKept, SameLanes, TurnKept DEF TurnInv
<1>3. \A j \in Jobs' : JobTurn(j)'
  <2> SUFFICES ASSUME NEW j \in Jobs PROVE JobTurn(j)'
    BY SetupKept
  <2>1. StartDue(j)' <=> StartDue(j)
    BY SetupKept DEF StartDue
  <2>2. \A c : (Acked(c)' <=> Acked(c)) /\ (Begun(c)' <=> Begun(c))
    BY SameLanes, PlaceKept
  <2> QED BY <2>1, <2>2, JobKept DEF TurnInv, LanesKept
<1>4. Threads'
  <2>1. \A c : Starting(c)' <=> Starting(c)
    BY SameLanes, PlaceKept
  <2> QED BY <2>1, SetupKept DEF TurnInv, Threads, LanesKept
<1> QED BY <1>1, <1>2, <1>3, <1>4 DEF TurnInv

\* The end of iter_start(): the configs of a job join those of the other, or are
\* all erased.
LEMMA AnnounceInv ==
  ASSUME TurnInv, setup' = setup, LanesKept, NEW j \in Jobs, ~busy[j], NEW new,
         Announce(j, new),
         UNCHANGED <<waitStart, ackCnt, start, helper, needTrigger, pend>>,
         ConfigTurn'
  PROVE  TurnInv'
<1> DEFINE idle == \A c \in JobCores(j) : new[c] = <<>>
<1>0. /\ busy' = [busy EXCEPT ![j] = ~idle]
      /\ tempConfig' = IF idle THEN {} ELSE tempConfig \union JobCores(j)
  BY DEF Announce, Collected, GeneratePrims
<1>b. idle \in BOOLEAN
  OBVIOUS
<1> HIDE DEF idle
<1>1. Types'
  <2>1. busy' \in [Jobs -> BOOLEAN]
    BY <1>0, <1>b DEF TurnInv, Types
  <2>2. tempConfig' \subseteq Cores
    BY <1>0, SetupFacts DEF TurnInv, Types
  <2> QED BY <2>1, <2>2, SetupKept DEF TurnInv, Types, LanesKept
<1>2. ASSUME NEW c \in Cores PROVE Turn(c)'
  <2>1. Same(c)
    BY SameLanes
  <2>2. JobOf(c) \in Jobs /\ JobOf(c)' = JobOf(c) /\ Turn(c)
    BY SetupFacts, SetupKept DEF TurnInv, Types
  <2>3. CASE JobOf(c) # j
    <3>1. busy'[JobOf(c)] = busy[JobOf(c)]
      BY <1>0, <2>2, <2>3 DEF TurnInv, Types
    <3>2. c \in tempConfig' => c \in tempConfig
      BY <1>0, <2>2, <2>3, SetupFacts DEF TurnInv, Types
    <3> QED BY <2>1, <2>2, <3>1, <3>2, TurnKept
  <2>4. CASE JobOf(c) = j
    <3>1. Unsent(c) /\ c \notin tempConfig
      BY <2>2, <2>4 DEF Turn
    <3>2. Unsent(c)'
      BY <2>1, <3>1, PlaceKept
    <3>3. c \in tempConfig' => busy'[j]
      BY <1>0, <3>1 DEF TurnInv, Types
    <3> QED BY <2>2, <2>4, <3>2, <3>3 DEF Turn
  <2> QED BY <2>3, <2>4
<1>3. ASSUME NEW k \in Jobs PROVE JobTurn(k)'
  <2>1. StartDue(k)' <=> StartDue(k)
    BY SetupKept DEF StartDue
  <2>2. \A c : (Acked(c)' <=> Acked(c)) /\ (Begun(c)' <=> Begun(c))
    BY SameLanes, PlaceKept
  <2> QED BY <2>1, <2>2, JobKept DEF TurnInv, LanesKept
<1>4. Threads'
  <2>1. \A c : Starting(c)' <=> Starting(c)
    BY SameLanes, PlaceKept
  <2> QED BY <2>1, SetupKept DEF TurnInv, Threads, LanesKept
<1> QED BY <1>1, <1>2, <1>3, <1>4, SetupKept DEF TurnInv

\* fill_queue_config(): the configs of temp_config are queued in empty lanes.
LEMMA FillQueueConfigInv ==
  ASSUME TurnInv, setup' = setup, FillQueueConfig
  PROVE  TurnInv'
<1>1. /\ \A c \in Cores : writeBuffer'[c] = IF c \in tempConfig THEN Append(writeBuffer[c], "CONFIG")
                                            ELSE writeBuffer[c]
      /\ writeBuffer' = [c \in Cores |-> writeBuffer'[c]]
      /\ tempConfig' = {}
      /\ UNCHANGED <<outgoing, inbox, core, acks, dones, doneMsg, busy, waitStart, ackCnt,
                     start, helper, needTrigger>>
      /\ pend' = pend \/ pend' = pend \union {"write"}
      /\ config' \in {"writing", "wait"}
  BY DEF FillQueueConfig, schedVars, netVars
<1>2. Types'
  <2>1. ASSUME NEW c \in Cores PROVE writeBuffer'[c] \in Seq(Messages)
    <3>1. writeBuffer[c] \in Seq(Messages) /\ "CONFIG" \in Messages
      BY DEF TurnInv, Types, Messages
    <3>2. Append(writeBuffer[c], "CONFIG") \in Seq(Messages)
      BY <3>1
    <3> QED BY <1>1, <3>1, <3>2, Zenon
  <2>2. writeBuffer' \in [Cores -> Seq(Messages)]
    BY <1>1, <2>1
  <2> QED BY <1>1, <2>2, SetupKept DEF TurnInv, Types
<1>3. ASSUME NEW c \in Cores, c \notin tempConfig
      PROVE  Same(c)
  BY <1>1, <1>3, SetupKept DEF Same, Quiet, Carries, Counted
<1>4. ASSUME NEW c \in Cores, c \in tempConfig
      PROVE  Unsent(c) /\ busy[JobOf(c)] /\ Configuring(c)'
  <2>1. Unsent(c) /\ busy[JobOf(c)]
    BY <1>4 DEF TurnInv, Turn
  <2>2. writeBuffer'[c] = <<"CONFIG">>
    BY <1>1, <1>4, <2>1 DEF Unsent, Quiet
  <2>3. Counted(c)' <=> Counted(c)
    BY <1>1, SetupKept DEF Counted
  <2> QED BY <1>1, <2>1, <2>2, <2>3 DEF Unsent, Quiet, Configuring, Carries
<1>5. ASSUME NEW c \in Cores PROVE Turn(c)'
  <2>1. CASE c \notin tempConfig
    BY <1>1, <1>3, <2>1, TurnKept DEF TurnInv
  <2>2. CASE c \in tempConfig
    BY <1>1, <1>4, <2>2, SetupKept DEF Turn
  <2> QED BY <2>1, <2>2
<1>6. ASSUME NEW c \in Cores
      PROVE  (Acked(c)' <=> Acked(c)) /\ (Begun(c)' <=> Begun(c)) /\ (Starting(c)' <=> Starting(c))
  <2>1. CASE c \notin tempConfig
    BY <1>3, <2>1, PlaceKept
  <2>2. CASE c \in tempConfig
    <3>1. ~Acked(c) /\ ~Begun(c) /\ ~Starting(c)
      BY <1>4, <2>2 DEF Unsent, Quiet, Acked, Begun, Starting, Carries, Running, Finishing, Over
    <3>2. ~Acked(c)' /\ ~Begun(c)' /\ ~Starting(c)'
      <4>1. Configuring(c)' => ~Acked(c)' /\ ~Begun(c)' /\ ~Starting(c)'
        BY DEF Configuring, Quiet, Acked, Begun, Starting, Carries, Running, Finishing, Over
      <4> QED BY <1>4, <2>2, <4>1
    <3> QED BY <3>1, <3>2
  <2> QED BY <2>1, <2>2
<1>7. ASSUME NEW j \in Jobs PROVE JobTurn(j)'
  <2>1. StartDue(j)' <=> StartDue(j)
    BY <1>1, SetupKept DEF StartDue
  <2>2. \A c \in JobCores(j) : (Acked(c)' <=> Acked(c)) /\ (Begun(c)' <=> Begun(c))
    BY <1>6 DEF JobCores
  <2> QED BY <1>1, <2>1, <2>2, JobKept DEF TurnInv
<1>8. Threads'
  BY <1>1, <1>6, SetupKept DEF TurnInv, Threads, NowEvents
<1>9. ConfigTurn'
  BY <1>1 DEF ConfigTurn
<1> QED BY <1>2, <1>5, <1>7, <1>8, <1>9, SetupKept DEF TurnInv

\* catch_ev_dis_start: only PDS.
LEMMA CatchDisStartInv ==
  ASSUME TurnInv, setup' = setup, CatchDisStart
  PROVE  TurnInv'
<1>1. /\ LanesKept
      /\ UNCHANGED <<busy, waitStart, ackCnt, tempConfig, start, helper, config>>
      /\ "catch_dis_start" \in pend
  BY DEF CatchDisStart, schedVars, netVars, LanesKept
<1>2. ~Mixed
  BY <1>1 DEF TurnInv, Threads, NowEvents
<1>3. Types'
  BY <1>1, SetupKept DEF TurnInv, Types, LanesKept
<1>4. \A c \in Cores : Turn(c)'
  BY <1>1, SameLanes, TurnKept DEF TurnInv
<1>5. ASSUME NEW j \in Jobs PROVE JobTurn(j)'
  <2>1. StartDue(j)' <=> StartDue(j)
    BY <1>1, <1>2, SetupKept DEF StartDue
  <2>2. \A c : (Acked(c)' <=> Acked(c)) /\ (Begun(c)' <=> Begun(c))
    BY <1>1, SameLanes, PlaceKept
  <2> QED BY <1>1, <2>1, <2>2, JobKept DEF TurnInv, LanesKept
<1>6. Threads'
  BY <1>1, <1>2, SetupKept DEF TurnInv, Threads, LanesKept
<1>7. ConfigTurn'
  BY <1>1, SetupKept DEF TurnInv, ConfigTurn
<1> QED BY <1>3, <1>4, <1>5, <1>6, <1>7, SetupKept DEF TurnInv

\* fill_queue_start(): a job that is acknowledged is started, all of it.
LEMMA DistributeStartInv ==
  ASSUME TurnInv, setup' = setup, NEW e \in {"dis_start", "retry_start"}, DistributeStart(e)
  PROVE  TurnInv'
<1> USE SetupKept
<1>1. /\ UNCHANGED <<outgoing, inbox, core, acks, dones, doneMsg, busy, ackCnt, tempConfig,
                     helper, config>>
      /\ e \in pend
  BY DEF DistributeStart, schedVars, netVars
<1>2. setup \in Setups
  BY DEF TurnInv, Types
<1>3. Mixed => /\ e = "retry_start" /\ Jobs = {"BOTH"} /\ StartDue("BOTH")
               /\ \A c \in Cores : Acked(c)
  <2> SUFFICES ASSUME Mixed PROVE /\ e = "retry_start" /\ Jobs = {"BOTH"} /\ StartDue("BOTH")
                                  /\ \A c \in Cores : Acked(c)
    OBVIOUS
  <2>1. e = "retry_start" /\ Jobs = {"BOTH"}
    BY <1>1 DEF TurnInv, Threads, NowEvents, Jobs
  <2>2. StartDue("BOTH")
    BY <1>1, <2>1 DEF StartDue
  <2>3. \A c \in Cores : c \in JobCores("BOTH")
    BY DEF JobCores, JobOf
  <2> QED BY <2>1, <2>2, <2>3 DEF TurnInv, JobTurn, AckedOf
<1>4. CASE start # "wait"
  <2>1. ~Mixed
    <3>1. \A c \in Cores : Acked(c) => ~Starting(c)
      BY DEF Acked, Starting, Quiet, Carries
    <3> QED BY <1>3, <1>4, <3>1 DEF TurnInv, Threads
  <2>2. UNCHANGED <<writeBuffer, waitStart, needTrigger, start>>
    BY <1>4 DEF DistributeStart
  <2>3. LanesKept
    BY <1>1, <2>2 DEF LanesKept
  <2>4. Types'
    BY <1>1, <2>2 DEF TurnInv, Types
  <2>5. \A c \in Cores : Turn(c)'
    BY <1>1, <2>3, SameLanes, TurnKept DEF TurnInv
  <2>6. ASSUME NEW j \in Jobs PROVE JobTurn(j)'
    <3>1. StartDue(j)' <=> StartDue(j)
      BY <2>1, <2>2 DEF StartDue
    <3>2. \A c : (Acked(c)' <=> Acked(c)) /\ (Begun(c)' <=> Begun(c))
      BY <2>3, SameLanes, PlaceKept
    <3> QED BY <1>1, <3>1, <3>2, JobKept DEF TurnInv
  <2>7. Threads' /\ ConfigTurn'
    BY <1>1, <2>1 DEF TurnInv, Threads, ConfigTurn
  <2> QED BY <2>4, <2>5, <2>6, <2>7 DEF TurnInv
<1>5. CASE start = "wait"
  <2>1. /\ \A c \in Cores : writeBuffer'[c] = IF Starts(c) THEN Append(writeBuffer[c], "START")
                                              ELSE writeBuffer[c]
        /\ writeBuffer' = [c \in Cores |-> writeBuffer'[c]]
        /\ waitStart' = [j \in Jobs |-> FALSE]
        /\ needTrigger' = FALSE
        /\ pend' = (pend \ {e}) \union {"write"}
    BY <1>5 DEF DistributeStart, FillQueueStart
  <2>2. \A c \in Cores : Starts(c) <=> StartDue(JobOf(c))
    <3>1. \A c \in Cores : JobOf(c) \in Jobs
      BY <1>2, SetupFacts
    <3> QED BY <1>3, <3>1 DEF Starts, StartDue
  <2>3. \A j \in Jobs : ~StartDue(j)'
    BY <1>3, <2>1 DEF StartDue
  <2>4. Types'
    <3>1. ASSUME NEW c \in Cores PROVE writeBuffer'[c] \in Seq(Messages)
      <4>1. writeBuffer[c] \in Seq(Messages) /\ "START" \in Messages
        BY DEF TurnInv, Types, Messages
      <4>2. Append(writeBuffer[c], "START") \in Seq(Messages)
        BY <4>1
      <4> QED BY <2>1, <4>1, <4>2, Zenon
    <3>2. writeBuffer' \in [Cores -> Seq(Messages)]
      BY <2>1, <3>1
    <3>3. waitStart' \in [Jobs -> BOOLEAN]
      BY <2>1
    <3> QED BY <1>1, <3>2, <3>3 DEF TurnInv, Types
  <2>5. ASSUME NEW c \in Cores, StartDue(JobOf(c))
        PROVE  /\ Acked(c) /\ ~Begun(c) /\ Starting(c)' /\ Begun(c)' /\ ~Acked(c)'
               /\ busy[JobOf(c)] /\ c \notin tempConfig
    <3>1. JobOf(c) \in Jobs /\ c \in JobCores(JobOf(c)) /\ Turn(c)
      BY <1>2, SetupFacts DEF TurnInv
    <3>2. Acked(c)
      BY <2>5, <3>1 DEF TurnInv, JobTurn, AckedOf
    <3>3. ~Begun(c) /\ busy[JobOf(c)] /\ c \notin tempConfig
      BY <3>1, <3>2 DEF Turn, Unsent, Acked, Begun, Starting, Running, Finishing, Over, Quiet, Carries
    <3>4. writeBuffer'[c] = <<"START">>
      BY <2>1, <2>2, <2>5, <3>2 DEF Acked, Quiet
    <3>5. Counted(c)' <=> Counted(c)
      BY <1>1 DEF Counted
    <3>6. Starting(c)'
      BY <1>1, <3>2, <3>4, <3>5 DEF Starting, Acked, Quiet, Carries
    <3>7. Begun(c)'
      BY <3>6 DEF Begun
    <3>8. ~Acked(c)'
      BY <3>4 DEF Acked, Quiet
    <3> QED BY <3>2, <3>3, <3>6, <3>7, <3>8
  <2>6. ASSUME NEW c \in Cores, ~StartDue(JobOf(c)) PROVE Same(c)
    BY <1>1, <2>1, <2>2, <2>6 DEF Same, Quiet, Carries, Counted
  <2>7. ASSUME NEW c \in Cores PROVE Turn(c)'
    <3>1. CASE StartDue(JobOf(c))
      BY <1>1, <2>5, <3>1 DEF Turn
    <3>2. CASE ~StartDue(JobOf(c))
      BY <1>1, <2>6, <3>2, TurnKept DEF TurnInv
    <3> QED BY <3>1, <3>2
  <2>8. ASSUME NEW j \in Jobs PROVE JobTurn(j)'
    <3>1. /\ JobCores(j) \subseteq Cores /\ JobCores(j) # {} /\ IsFiniteSet(JobCores(j))
          /\ \A c \in JobCores(j) : JobOf(c) = j
      BY <1>2, SetupFacts
    <3>2. CASE ~StartDue(j)
      <4>1. \A c \in JobCores(j) : (Acked(c)' <=> Acked(c)) /\ (Begun(c)' <=> Begun(c))
        BY <2>6, <3>1, <3>2, PlaceKept
      <4> QED BY <1>1, <2>3, <3>2, <4>1, JobKept DEF TurnInv
    <3>3. CASE StartDue(j)
      <4>1. \A c \in JobCores(j) : Begun(c)' /\ ~Acked(c)'
        BY <2>5, <3>1, <3>3
      <4>2. AckedOf(j)' = {}
        BY <4>1 DEF AckedOf
      <4>3. ackCnt'[j] = Cardinality(AckedOf(j)') /\ AckedOf(j)' # JobCores(j)
        BY <1>1, <3>1, <3>3, <4>2, FS_EmptySet DEF TurnInv, JobTurn
      <4>4. Range(doneMsg'[j]) \subseteq JobCores(j) /\ Len(doneMsg'[j]) = Cardinality(Range(doneMsg'[j]))
        BY <1>1 DEF TurnInv, JobTurn
      <4> QED BY <2>3, <4>1, <4>3, <4>4 DEF JobTurn
    <3> QED BY <3>2, <3>3
  <2>9. Threads'
    <3>1. (helper = "wait" => outgoing = NoMessages)'
      BY <1>1 DEF TurnInv, Threads
    <3>2. ASSUME Mixed
          PROVE  /\ ~needTrigger' /\ pend' \cap NowEvents = {}
                 /\ \A j \in Jobs : ~waitStart'[j]
                 /\ \E c \in Cores : Starting(c)' /\ inbox'[c] = <<>>
      <4>1. pend \cap NowEvents = {}
        BY <3>2 DEF TurnInv, Threads
      <4>2. pend' \cap NowEvents = {}
        BY <2>1, <4>1 DEF NowEvents
      <4>3. PICK c \in JobCores("BOTH") : c \in Cores
        BY <1>2, <1>3, <3>2, SetupFacts
      <4>4. Acked(c) /\ StartDue(JobOf(c))
        BY <1>3, <3>2, <4>3 DEF JobOf
      <4>5. Starting(c)' /\ inbox'[c] = <<>>
        BY <1>1, <2>5, <4>3, <4>4 DEF Acked, Quiet
      <4> QED BY <2>1, <4>2, <4>3, <4>5
    <3> QED BY <3>1, <3>2 DEF Threads
  <2>10. ConfigTurn'
    BY <1>1 DEF TurnInv, ConfigTurn
  <2> QED BY <2>4, <2>7, <2>8, <2>9, <2>10 DEF TurnInv
<1> QED BY <1>4, <1>5

\* The messages move on from write_buffer to the lanes.
LEMMA WriteBeginInv ==
  ASSUME TurnInv, setup' = setup, WriteBegin
  PROVE  TurnInv'
<1> USE SetupKept
<1>1. /\ UNCHANGED <<inbox, core, acks, dones, doneMsg, busy, waitStart, ackCnt, tempConfig,
                     config, start, needTrigger>>
      /\ pend' = pend \ {"write"}
  BY DEF WriteBegin, schedVars, netVars
<1>2. CASE helper # "wait"
  <2>1. UNCHANGED <<outgoing, writeBuffer, helper>>
    BY <1>2 DEF WriteBegin
  <2>2. ConfigTurn'
    BY <1>1 DEF TurnInv, ConfigTurn
  <2> QED BY <1>1, <2>1, <2>2, ScheduleInv DEF LanesKept
<1>3. CASE helper = "wait"
  <2>1. /\ outgoing = NoMessages /\ outgoing' = writeBuffer /\ writeBuffer' = NoMessages
        /\ helper' = "wait" => writeBuffer = NoMessages
    BY <1>3 DEF WriteBegin, TurnInv, Threads
  <2>2. ASSUME NEW c \in Cores PROVE Same(c)
    <3>1. outgoing[c] = <<>> /\ outgoing'[c] = writeBuffer[c] /\ writeBuffer'[c] = <<>>
      BY <2>1 DEF NoMessages
    <3>2. \A m : (Carries(c, m)' <=> Carries(c, m)) /\ (Quiet(c)' <=> Quiet(c))
      <4>1. CASE inbox[c] = <<>>
        BY <1>1, <3>1, <4>1 DEF Carries, Quiet
      <4>2. CASE inbox[c] # <<>>
        BY <1>1, <3>1, <4>2 DEF Carries, Quiet
      <4> QED BY <4>1, <4>2
    <3>3. Counted(c)' <=> Counted(c)
      BY <1>1 DEF Counted
    <3> QED BY <1>1, <3>2, <3>3 DEF Same
  <2>3. Types'
    <3>1. writeBuffer' \in [Cores -> Seq(Messages)]
      BY <2>1 DEF NoMessages
    <3> QED BY <1>1, <2>1, <3>1 DEF TurnInv, Types
  <2>4. \A c \in Cores : Turn(c)'
    BY <1>1, <2>2, TurnKept DEF TurnInv
  <2>5. ASSUME NEW j \in Jobs PROVE JobTurn(j)'
    <3>1. StartDue(j)' <=> StartDue(j)
      BY <1>1 DEF StartDue
    <3>2. \A c \in JobCores(j) : (Acked(c)' <=> Acked(c)) /\ (Begun(c)' <=> Begun(c))
      BY <2>2, PlaceKept DEF JobCores
    <3> QED BY <1>1, <3>1, <3>2, JobKept DEF TurnInv
  <2>6. Threads'
    <3>1. \A c \in Cores : Starting(c)' <=> Starting(c)
      BY <2>2, PlaceKept
    <3> QED BY <1>1, <2>1, <3>1 DEF TurnInv, Threads
  <2>7. ConfigTurn'
    BY <1>1 DEF TurnInv, ConfigTurn
  <2> QED BY <2>3, <2>4, <2>5, <2>6, <2>7 DEF TurnInv
<1> QED BY <1>2, <1>3

\* A message reaches its core.
LEMMA WriteStepInv ==
  ASSUME TurnInv, setup' = setup, NEW d \in Cores, WriteStep(d)
  PROVE  TurnInv'
<1> USE SetupKept
<1>1. /\ UNCHANGED <<writeBuffer, core, acks, dones, doneMsg, busy, waitStart, ackCnt, tempConfig,
                     needTrigger>>
      /\ outgoing[d] # <<>>
      /\ outgoing' = [outgoing EXCEPT ![d] = Tail(@)]
      /\ inbox' = [inbox EXCEPT ![d] = Append(@, Head(outgoing[d]))]
      /\ pend' = pend \/ (needTrigger /\ pend' = pend \union {"retry_start"})
      /\ outgoing' = NoMessages => start' = "wait"
      /\ outgoing' # NoMessages => helper' = helper /\ start' = start
      /\ helper = "sending"
      /\ config' = config \/ config' = "wait"
  BY DEF WriteStep, schedVars
<1>2. PICK m \in Messages : inbox[d] = <<>> /\ outgoing[d] = <<m>> /\ writeBuffer[d] = <<>>
  BY <1>1 DEF TurnInv, Turn, Unsent, Configuring, Answering, Acked, Begun, Starting, Running,
              Finishing, Over, Quiet, Carries, Messages
<1>3. /\ outgoing \in [Cores -> Seq(Messages)] /\ inbox \in [Cores -> Seq(Messages)]
  BY DEF TurnInv, Types
<1>4. outgoing'[d] = <<>> /\ inbox'[d] = <<m>>
  <2>1. Tail(<<m>>) = <<>> /\ Head(<<m>>) = m /\ Append(<<>>, m) = <<m>>
    OBVIOUS
  <2> QED BY <1>1, <1>2, <1>3, <2>1
<1>5. \A c \in Cores \ {d} : outgoing'[c] = outgoing[c] /\ inbox'[c] = inbox[c]
  BY <1>1, <1>3
<1>6. Types'
  <2>1. outgoing' \in [Cores -> Seq(Messages)]
    <3>1. <<>> \in Seq(Messages)
      OBVIOUS
    <3>2. outgoing' = [outgoing EXCEPT ![d] = <<>>]
      BY <1>1, <1>2
    <3> QED BY <1>3, <3>1, <3>2
  <2>2. inbox' \in [Cores -> Seq(Messages)]
    <3>1. <<m>> \in Seq(Messages)
      OBVIOUS
    <3>2. inbox' = [inbox EXCEPT ![d] = <<m>>]
      BY <1>1, <1>2
    <3> QED BY <1>3, <3>1, <3>2
  <2> QED BY <1>1, <2>1, <2>2 DEF TurnInv, Types
<1>7. ASSUME NEW c \in Cores PROVE Same(c)
  <2>1. Counted(c)' <=> Counted(c)
    BY <1>1 DEF Counted
  <2>2. CASE c # d
    BY <1>1, <1>5, <2>1, <2>2 DEF Same, Quiet, Carries
  <2>3. CASE c = d
    <3>1. ~Quiet(d) /\ ~Quiet(d)'
      BY <1>2, <1>4 DEF Quiet
    <3>2. \A n : Carries(d, n) <=> n = m
      BY <1>2 DEF Carries
    <3>3. \A n : Carries(d, n)' <=> n = m
      BY <1>1, <1>2, <1>4 DEF Carries
    <3> QED BY <1>1, <2>1, <2>3, <3>1, <3>2, <3>3 DEF Same
  <2> QED BY <2>2, <2>3
<1>8. \A c \in Cores : Turn(c)'
  BY <1>1, <1>7, TurnKept DEF TurnInv
<1>9. ASSUME NEW j \in Jobs PROVE JobTurn(j)'
  <2>1. StartDue(j)' <=> StartDue(j)
    BY <1>1 DEF StartDue, TurnInv, Threads
  <2>2. \A c \in JobCores(j) : (Acked(c)' <=> Acked(c)) /\ (Begun(c)' <=> Begun(c))
    BY <1>7, PlaceKept DEF JobCores
  <2> QED BY <1>1, <2>1, <2>2, JobKept DEF TurnInv
<1>10. Threads'
  <2>1. (helper = "wait" => outgoing = NoMessages)'
    BY <1>1
  <2>2. ASSUME Mixed, start' # "wait"
        PROVE  \E c \in Cores : Starting(c)' /\ inbox'[c] = <<>>
    <3>1. outgoing' # NoMessages /\ start # "wait"
      BY <1>1, <2>2
    <3>2. PICK c \in Cores : outgoing'[c] # <<>>
      BY <1>6, <3>1 DEF NoMessages, Types
    <3>3. c # d /\ outgoing[c] # <<>>
      BY <1>4, <1>5, <3>2
    <3>4. \A b \in Cores : b \in JobCores("BOTH") /\ "BOTH" \in Jobs
      BY <2>2 DEF JobCores, JobOf, Jobs
    <3>5. Begun(c)
      <4>1. PICK b \in Cores : Starting(b)
        BY <2>2, <3>1 DEF TurnInv, Threads
      <4> QED BY <3>4, <4>1 DEF TurnInv, JobTurn, Begun
    <3>6. Starting(c) /\ inbox[c] = <<>>
      BY <3>3, <3>5 DEF Begun, Starting, Running, Finishing, Over, Quiet, Carries
    <3>7. Starting(c)' /\ inbox'[c] = <<>>
      BY <1>5, <1>7, <3>3, <3>6, PlaceKept
    <3> QED BY <3>7
  <2>3. Mixed => pend' = pend
    BY <1>1 DEF TurnInv, Threads
  <2> QED BY <1>1, <2>1, <2>2, <2>3 DEF TurnInv, Threads
<1>11. ConfigTurn'
  BY <1>1 DEF TurnInv, ConfigTurn
<1> QED BY <1>6, <1>8, <1>9, <1>10, <1>11 DEF TurnInv

\* What else a step does is of no account when it keeps all other cores.
LEMMA OneCoreInv ==
  ASSUME TurnInv, setup' = setup, NEW d \in Cores, Types', Turn(d)',
         \A c \in Cores \ {d} : Same(c), JobTurn(JobOf(d))',
         UNCHANGED <<busy, tempConfig, needTrigger, start, helper, outgoing>>,
         \A j \in Jobs \ {JobOf(d)} :
           /\ waitStart'[j] = waitStart[j] /\ ackCnt'[j] = ackCnt[j] /\ doneMsg'[j] = doneMsg[j],
         pend' \subseteq pend \union {"retry_start", "dis_config"} \/ ~Mixed,
         Mixed => waitStart' = waitStart,
         Mixed /\ Starting(d) /\ inbox[d] = <<>> => Starting(d)' /\ inbox'[d] = <<>>,
         \A c \in Cores \ {d} : inbox'[c] = inbox[c],
         ConfigTurn'
  PROVE  TurnInv'
<1> USE SetupKept
<1>1. ASSUME NEW c \in Cores PROVE Turn(c)'
  BY <1>1, TurnKept DEF TurnInv
<1>2. ASSUME NEW j \in Jobs PROVE JobTurn(j)'
  <2>1. CASE j = JobOf(d)
    BY <2>1
  <2>2. CASE j # JobOf(d)
    <3>1. ~Mixed
      BY <2>2 DEF Jobs, JobOf
    <3>2. StartDue(j)' <=> StartDue(j)
      BY <2>2, <3>1 DEF StartDue
    <3>3. \A c \in JobCores(j) : c \in Cores \ {d}
      BY <2>2 DEF JobCores
    <3>4. \A c \in JobCores(j) : (Acked(c)' <=> Acked(c)) /\ (Begun(c)' <=> Begun(c))
      BY <3>3, PlaceKept
    <3> QED BY <2>2, <3>2, <3>4, JobKept DEF TurnInv
  <2> QED BY <2>1, <2>2
<1>3. Threads'
  <2>1. (helper = "wait" => outgoing = NoMessages)'
    BY DEF TurnInv, Threads
  <2>2. ASSUME Mixed, start' # "wait"
        PROVE  \E c \in Cores : Starting(c)' /\ inbox'[c] = <<>>
    <3>1. PICK c \in Cores : Starting(c) /\ inbox[c] = <<>>
      BY <2>2 DEF TurnInv, Threads
    <3>2. CASE c = d
      BY <2>2, <3>1, <3>2
    <3>3. CASE c # d
      BY <3>1, <3>3, PlaceKept
    <3> QED BY <3>2, <3>3
  <2>3. Mixed => ~needTrigger' /\ pend' \cap NowEvents = {} /\ \A j \in Jobs : ~waitStart'[j]
    BY DEF TurnInv, Threads, NowEvents
  <2> QED BY <2>1, <2>2, <2>3 DEF Threads
<1> QED BY <1>1, <1>2, <1>3 DEF TurnInv

\* Taking the only message.
LEMMA RemoveOnly ==
  ASSUME NEW m, NEW i \in 1..Len(<<m>>)
  PROVE  RemoveAt(<<m>>, i) = <<>>
<1>1. Len(<<m>>) = 1 /\ i = 1 /\ <<m>> \in Seq({m})
  OBVIOUS
<1> DEFINE s == <<m>>
<1> HIDE DEF s
<1>2. s \in Seq({m}) /\ Len(s) = 1
  BY <1>1 DEF s
<1>3. SubSeq(s, 1, 0) \in Seq({m}) /\ Len(SubSeq(s, 1, 0)) = 0
  BY <1>2
<1>4. SubSeq(s, 2, 1) \in Seq({m}) /\ Len(SubSeq(s, 2, 1)) = 0
  BY <1>2
<1>5. SubSeq(s, 1, 0) = <<>> /\ SubSeq(s, 2, 1) = <<>>
  BY <1>3, <1>4, EmptySeq
<1>6. i - 1 = 0 /\ i + 1 = 2
  BY <1>1
<1> QED BY <1>1, <1>2, <1>5, <1>6 DEF RemoveAt, s

\* A core takes the message it waits for.
LEMMA CoreTakesInv ==
  ASSUME TurnInv, setup' = setup, NEW d \in Cores, CoreTakes(d)
  PROVE  TurnInv'
<1> USE SetupKept
<1>1. /\ UNCHANGED <<writeBuffer, outgoing, dones, doneMsg, busy, waitStart, ackCnt, tempConfig,
                     config, start, helper, needTrigger, pend>>
      /\ core[d] \in {"idle", "configured"}
  BY DEF CoreTakes, schedVars, Awaits
<1>2. PICK i \in 1..Len(inbox[d]) : /\ inbox[d][i] = Awaits[core[d]]
                                    /\ inbox' = [inbox EXCEPT ![d] = RemoveAt(@, i)]
  BY DEF CoreTakes
<1>3. /\ inbox \in [Cores -> Seq(Messages)] /\ Turn(d)
      /\ core \in [Cores -> {"idle", "configured", "running"}]
      /\ setup \in Setups
  BY DEF TurnInv, Types
<1>4. PICK m \in Messages : inbox[d] = <<m>> /\ outgoing[d] = <<>> /\ writeBuffer[d] = <<>>
  <2>1. inbox[d] # <<>>
    BY <1>2
  <2> QED BY <1>3, <2>1 DEF Turn, Unsent, Configuring, Answering, Acked, Begun, Starting, Running,
                            Finishing, Over, Quiet, Carries, Messages
<1>5. inbox' = [inbox EXCEPT ![d] = <<>>] /\ m = Awaits[core[d]]
  <2>1. RemoveAt(inbox[d], i) = <<>>
    BY <1>2, <1>4, RemoveOnly
  <2>2. inbox[d][i] = m
    BY <1>2, <1>4
  <2> QED BY <1>2, <2>1, <2>2
<1>6. inbox'[d] = <<>> /\ \A c \in Cores \ {d} : inbox'[c] = inbox[c]
  BY <1>3, <1>5
<1>7. inbox' \in [Cores -> Seq(Messages)]
  <2>1. <<>> \in Seq(Messages)
    OBVIOUS
  <2> QED BY <1>3, <1>5, <2>1
<1>8. /\ core[d] = "idle" => /\ m = "CONFIG" /\ core' = [core EXCEPT ![d] = "configured"]
                             /\ acks' = acks \union {d}
      /\ core[d] # "idle" => /\ m = "START" /\ core' = [core EXCEPT ![d] = "running"]
                             /\ acks' = acks
  BY <1>1, <1>5 DEF CoreTakes, Awaits
<1>9. Types'
  <2>1. core' \in [Cores -> {"idle", "configured", "running"}] /\ acks' \subseteq Cores
    BY <1>3, <1>8 DEF TurnInv, Types
  <2> QED BY <1>1, <1>7, <2>1 DEF TurnInv, Types
<1>10. Counted(d)' <=> Counted(d)
  BY <1>1 DEF Counted
<1>11. ASSUME NEW c \in Cores \ {d} PROVE Same(c)
  <2>1. Counted(c)' <=> Counted(c)
    BY <1>1 DEF Counted
  <2>2. core'[c] = core[c] /\ (c \in acks' <=> c \in acks)
    BY <1>3, <1>8
  <2> QED BY <1>1, <1>6, <2>1, <2>2 DEF Same, Quiet, Carries
<1>12. Carries(d, m) /\ ~Quiet(d) /\ \A n : Carries(d, n) => n = m
  BY <1>4 DEF Carries, Quiet
<1>13. Quiet(d)'
  BY <1>1, <1>4, <1>6 DEF Quiet
<1>14. /\ busy[JobOf(d)] /\ d \notin tempConfig /\ ~Acked(d) /\ ~Acked(d)'
       /\ (Begun(d)' <=> Begun(d))
       /\ Answering(d)' \/ Begun(d)'
  <2>1. CASE core[d] = "idle"
    <3>1. Configuring(d)
      BY <1>3, <1>8, <1>12, <2>1 DEF Turn, Unsent, Configuring, Answering, Acked, Begun, Starting,
                                     Running, Finishing, Over
    <3>2. Answering(d)'
      BY <1>1, <1>3, <1>8, <1>10, <1>13, <2>1, <3>1 DEF Configuring, Answering
    <3>3. ~Begun(d) /\ ~Acked(d) /\ ~Unsent(d)
      BY <1>8, <1>12, <2>1, <3>1 DEF Begun, Starting, Running, Finishing, Over, Acked, Unsent
    <3>4. ~Begun(d)' /\ ~Acked(d)'
      <4>1. ~Carries(d, "START")'
        BY <1>1, <1>6, <1>4 DEF Carries
      <4>2. core'[d] = "configured" /\ d \in acks'
        BY <1>3, <1>8, <2>1
      <4> QED BY <4>1, <4>2 DEF Begun, Starting, Running, Finishing, Over, Acked
    <3> QED BY <1>3, <3>2, <3>3, <3>4 DEF Turn
  <2>2. CASE core[d] # "idle"
    <3>1. Starting(d)
      BY <1>3, <1>8, <1>12, <2>2 DEF Turn, Unsent, Configuring, Answering, Acked, Begun, Starting,
                                     Running, Finishing, Over
    <3>2. Running(d)'
      BY <1>1, <1>3, <1>8, <1>10, <1>13, <2>2, <3>1 DEF Starting, Running
    <3>3. Begun(d) /\ Begun(d)'
      BY <3>1, <3>2 DEF Begun
    <3>4. ~Acked(d) /\ ~Unsent(d) /\ ~Acked(d)'
      BY <1>12, <2>2, <3>2 DEF Acked, Unsent, Running
    <3> QED BY <1>3, <3>3, <3>4 DEF Turn
  <2> QED BY <2>1, <2>2
<1>15. Turn(d)'
  BY <1>1, <1>14 DEF Turn
<1>16. JobTurn(JobOf(d))'
  <2>1. JobOf(d) \in Jobs /\ JobCores(JobOf(d)) \subseteq Cores
    BY <1>3, SetupFacts
  <2>2. StartDue(JobOf(d))' <=> StartDue(JobOf(d))
    BY <1>1 DEF StartDue
  <2>3. \A c \in JobCores(JobOf(d)) : (Acked(c)' <=> Acked(c)) /\ (Begun(c)' <=> Begun(c))
    BY <1>11, <1>14, <2>1, PlaceKept
  <2> QED BY <1>1, <2>1, <2>2, <2>3, JobKept DEF TurnInv
<1>17. ConfigTurn'
  BY <1>1 DEF TurnInv, ConfigTurn
<1>18. inbox[d] # <<>>
  BY <1>4
<1> QED BY <1>1, <1>6, <1>9, <1>11, <1>15, <1>16, <1>17, <1>18, OneCoreInv

\* A core reports DONE.
LEMMA CoreDoneInv ==
  ASSUME TurnInv, setup' = setup, NEW d \in Cores, CoreDone(d)
  PROVE  TurnInv'
<1> USE SetupKept
<1>1. /\ UNCHANGED <<writeBuffer, outgoing, inbox, acks, doneMsg, busy, waitStart, ackCnt,
                     tempConfig, config, start, helper, needTrigger, pend>>
      /\ core[d] = "running"
      /\ core' = [core EXCEPT ![d] = "idle"]
      /\ dones' = dones \union {d}
  BY DEF CoreDone, schedVars
<1>2. /\ core \in [Cores -> {"idle", "configured", "running"}] /\ Turn(d)
      /\ setup \in Setups
  BY DEF TurnInv, Types
<1>3. Types'
  <2>1. core' \in [Cores -> {"idle", "configured", "running"}] /\ dones' \subseteq Cores
    BY <1>1, <1>2 DEF TurnInv, Types
  <2> QED BY <1>1, <2>1 DEF TurnInv, Types
<1>4. ASSUME NEW c \in Cores \ {d} PROVE Same(c)
  <2>1. Counted(c)' <=> Counted(c)
    BY <1>1 DEF Counted
  <2>2. core'[c] = core[c] /\ (c \in dones' <=> c \in dones)
    BY <1>1, <1>2
  <2> QED BY <1>1, <2>1, <2>2 DEF Same, Quiet, Carries
<1>5. Running(d) /\ busy[JobOf(d)] /\ d \notin tempConfig
  BY <1>1, <1>2 DEF Turn, Unsent, Configuring, Answering, Acked, Begun, Starting, Running,
                    Finishing, Over
<1>6. Finishing(d)'
  <2>1. core'[d] = "idle" /\ d \in dones' /\ (Counted(d)' <=> Counted(d))
    BY <1>1, <1>2 DEF Counted
  <2> QED BY <1>1, <1>5, <2>1 DEF Running, Finishing, Quiet
<1>7. Begun(d) /\ Begun(d)' /\ ~Acked(d) /\ ~Acked(d)'
  BY <1>5, <1>6 DEF Begun, Running, Finishing, Acked
<1>8. Turn(d)'
  BY <1>1, <1>5, <1>7 DEF Turn
<1>9. JobTurn(JobOf(d))'
  <2>1. JobOf(d) \in Jobs /\ JobCores(JobOf(d)) \subseteq Cores
    BY <1>2, SetupFacts
  <2>2. StartDue(JobOf(d))' <=> StartDue(JobOf(d))
    BY <1>1 DEF StartDue
  <2>3. \A c \in JobCores(JobOf(d)) : (Acked(c)' <=> Acked(c)) /\ (Begun(c)' <=> Begun(c))
    BY <1>4, <1>7, <2>1, PlaceKept
  <2> QED BY <1>1, <2>1, <2>2, <2>3, JobKept DEF TurnInv
<1>10. ConfigTurn'
  BY <1>1 DEF TurnInv, ConfigTurn
<1>11. ~Starting(d)
  BY <1>1 DEF Starting
<1> QED BY <1>1, <1>3, <1>4, <1>8, <1>9, <1>10, <1>11, OneCoreInv

\* An ACK is counted; with the last one the job is due to be started.
LEMMA RecvAckInv ==
  ASSUME TurnInv, setup' = setup, NEW d \in Cores, RecvAck(d)
  PROVE  TurnInv'
<1> USE SetupKept
<1> DEFINE j == JobOf(d)
           all == ackCnt[j] + 1 >= Cardinality(JobCores(j))
<1>1. /\ UNCHANGED <<writeBuffer, outgoing, inbox, core, dones, doneMsg, busy,
                     tempConfig, config, start, helper, needTrigger>>
      /\ d \in acks /\ acks' = acks \ {d}
      /\ ackCnt' = [ackCnt EXCEPT ![j] = IF all THEN 0 ELSE @ + 1]
      /\ waitStart' = [waitStart EXCEPT ![j] = @ \/ (all /\ ~Mixed)]
      /\ pend' = pend \union
                   IF all THEN {IF Mixed THEN "retry_start" ELSE "catch_dis_start"} ELSE {}
  BY DEF RecvAck, schedVars
<1>2. /\ Turn(d) /\ setup \in Setups /\ JobTurn(j) /\ j \in Jobs
      /\ ackCnt \in [Jobs -> Nat] /\ waitStart \in [Jobs -> BOOLEAN]
      /\ JobCores(j) \subseteq Cores /\ IsFiniteSet(JobCores(j)) /\ d \in JobCores(j)
      /\ \A c \in JobCores(j) : JobOf(c) = j
  BY SetupFacts DEF TurnInv, Types
<1>3. all \in BOOLEAN
  OBVIOUS
<1>4. Answering(d) /\ busy[j] /\ d \notin tempConfig
  BY <1>1, <1>2 DEF Turn, Unsent, Configuring, Answering, Acked, Begun, Starting, Running,
                    Finishing, Over
<1>5. ~StartDue(j) /\ ~Acked(d) /\ ~Begun(d)
  <2>1. ~Acked(d) /\ ~Begun(d)
    BY <1>4 DEF Answering, Acked, Begun, Starting, Running, Finishing, Over
  <2>2. ~StartDue(j)
    BY <1>2, <2>1 DEF JobTurn, AckedOf
  <2> QED BY <2>1, <2>2
<1>6. /\ ackCnt[j] = Cardinality(AckedOf(j)) /\ d \notin AckedOf(j) /\ AckedOf(j) \subseteq JobCores(j)
      /\ IsFiniteSet(AckedOf(j))
  <2>1. AckedOf(j) \subseteq JobCores(j)
    BY DEF AckedOf
  <2>2. IsFiniteSet(AckedOf(j))
    BY <1>2, <2>1, FS_Subset
  <2> QED BY <1>2, <1>5, <2>1, <2>2 DEF JobTurn, AckedOf
<1>7. Counted(d)' <=> Counted(d)
  BY <1>1 DEF Counted
<1>8. Acked(d)' /\ ~Begun(d)'
  BY <1>1, <1>4, <1>7 DEF Answering, Acked, Quiet, Begun, Starting, Carries, Running, Finishing, Over
<1>9. ASSUME NEW c \in Cores \ {d} PROVE Same(c)
  <2>1. Counted(c)' <=> Counted(c)
    BY <1>1 DEF Counted
  <2> QED BY <1>1, <2>1 DEF Same, Quiet, Carries
<1>10. AckedOf(j)' = AckedOf(j) \union {d}
  <2>1. \A c \in JobCores(j) : Acked(c)' <=> c = d \/ Acked(c)
    BY <1>2, <1>8, <1>9, PlaceKept
  <2>2. AckedOf(j)' = {c \in JobCores(j) : c = d \/ Acked(c)}
    BY <2>1 DEF AckedOf
  <2> QED BY <1>2, <2>2 DEF AckedOf
<1>11. Cardinality(AckedOf(j)') = ackCnt[j] + 1
  BY <1>6, <1>10, FS_AddElement
<1>12. all <=> AckedOf(j)' = JobCores(j)
  <2>1. AckedOf(j)' \subseteq JobCores(j)
    BY <1>2, <1>6, <1>10
  <2>2. Cardinality(AckedOf(j)') <= Cardinality(JobCores(j))
        /\ (Cardinality(AckedOf(j)') = Cardinality(JobCores(j)) => AckedOf(j)' = JobCores(j))
    BY <1>2, <2>1, FS_Subset
  <2>3. Cardinality(JobCores(j)) \in Nat /\ ackCnt[j] \in Nat
    BY <1>2, FS_CardinalityType
  <2> QED BY <1>11, <2>2, <2>3
<1> HIDE DEF all
<1>13. StartDue(j)' <=> all
  <2>1. CASE Mixed
    <3>1. "retry_start" \notin pend
      BY <1>5, <2>1 DEF StartDue
    <3>2. "retry_start" \in pend' <=> all
      BY <1>1, <2>1, <3>1
    <3> QED BY <2>1, <3>2 DEF StartDue
  <2>2. CASE ~Mixed
    <3>1. ~waitStart[j]
      BY <1>5, <2>2 DEF StartDue
    <3>2. waitStart'[j] <=> all
      BY <1>1, <1>2, <1>3, <2>2, <3>1
    <3> QED BY <2>2, <3>2 DEF StartDue
  <2> QED BY <2>1, <2>2
<1>14. JobTurn(j)'
  <2>1. ackCnt'[j] = IF all THEN 0 ELSE ackCnt[j] + 1
    BY <1>1, <1>2
  <2>2. \A c \in JobCores(j) : Begun(c)' <=> Begun(c)
    BY <1>2, <1>5, <1>8, <1>9, PlaceKept
  <2>3. (\E c \in JobCores(j) : Begun(c)') => \A c \in JobCores(j) : Begun(c)'
    BY <1>2, <2>2 DEF JobTurn
  <2>4. Range(doneMsg'[j]) \subseteq JobCores(j) /\ Len(doneMsg'[j]) = Cardinality(Range(doneMsg'[j]))
    BY <1>1, <1>2 DEF JobTurn
  <2> QED BY <1>11, <1>12, <1>13, <2>1, <2>3, <2>4 DEF JobTurn
<1>15. Types'
  <2>1. ackCnt' \in [Jobs -> Nat]
    BY <1>1, <1>2
  <2>2. waitStart' \in [Jobs -> BOOLEAN]
    BY <1>1, <1>2, <1>3
  <2>3. acks' \subseteq Cores
    BY <1>1 DEF TurnInv, Types
  <2> QED BY <1>1, <2>1, <2>2, <2>3 DEF TurnInv, Types
<1>16. Turn(d)'
  BY <1>1, <1>4, <1>8 DEF Turn
<1>17. ConfigTurn'
  BY <1>1 DEF TurnInv, ConfigTurn
<1>18. /\ \A k \in Jobs \ {j} : waitStart'[k] = waitStart[k] /\ ackCnt'[k] = ackCnt[k]
       /\ Mixed => waitStart' = waitStart
  <2>1. Mixed => waitStart'[j] = waitStart[j]
    BY <1>1, <1>2
  <2> QED BY <1>1, <1>2, <2>1
<1>19. pend' \subseteq pend \union {"retry_start", "dis_config"} \/ ~Mixed
  BY <1>1
<1>20. ~Starting(d)
  BY <1>5 DEF Begun
<1> QED BY <1>1, <1>9, <1>14, <1>15, <1>16, <1>17, <1>18, <1>19, <1>20, OneCoreInv

\* One more element of a sequence.
LEMMA RangeAppend ==
  ASSUME NEW S, NEW s \in Seq(S), NEW e
  PROVE  Range(Append(s, e)) = Range(s) \union {e}
<1>1. /\ DOMAIN s = 1..Len(s) /\ Len(s) \in Nat
      /\ DOMAIN Append(s, e) = 1..Len(s) + 1 /\ Append(s, e)[Len(s) + 1] = e
      /\ \A i \in 1..Len(s) : Append(s, e)[i] = s[i]
  OBVIOUS
<1>2. \A i : i \in 1..Len(s) + 1 <=> i \in 1..Len(s) \/ i = Len(s) + 1
  BY <1>1
<1> QED BY <1>1, <1>2 DEF Range

\* A DONE is counted; with the last one the iteration is over and the job is
\* free again.
LEMMA RecvDoneInv ==
  ASSUME TurnInv, setup' = setup, NEW d \in Cores, RecvDone(d)
  PROVE  TurnInv'
<1> USE SetupKept
<1> DEFINE j == JobOf(d)
           msgs == Append(doneMsg[j], d)
           all == Len(msgs) >= Cardinality(JobCores(j))
<1>1. /\ UNCHANGED <<writeBuffer, outgoing, inbox, core, acks, ackCnt, waitStart,
                     tempConfig, config, start, helper, needTrigger>>
      /\ d \in dones /\ dones' = dones \ {d} /\ Idle
      /\ doneMsg' = [doneMsg EXCEPT ![j] = IF all THEN <<>> ELSE msgs]
      /\ all => busy' = [busy EXCEPT ![j] = FALSE] /\ pend' = pend \union {"dis_config"}
      /\ ~all => busy' = busy /\ pend' = pend
  BY DEF RecvDone, IterDone
<1>2. /\ Turn(d) /\ setup \in Setups /\ JobTurn(j) /\ j \in Jobs
      /\ doneMsg \in [Jobs -> Seq(Cores)] /\ busy \in [Jobs -> BOOLEAN]
      /\ JobCores(j) \subseteq Cores /\ IsFiniteSet(JobCores(j)) /\ d \in JobCores(j)
      /\ JobCores(j) # {} /\ \A c \in JobCores(j) : JobOf(c) = j
  BY SetupFacts DEF TurnInv, Types
<1>3. Finishing(d) /\ busy[j] /\ d \notin tempConfig
  BY <1>1, <1>2 DEF Turn, Unsent, Configuring, Answering, Acked, Begun, Starting, Running,
                    Finishing, Over
<1>4. Begun(d) /\ \A c \in JobCores(j) : Begun(c)
  BY <1>2, <1>3 DEF Begun, JobTurn
<1>5. AckedOf(j) = {} /\ ~StartDue(j) /\ ackCnt[j] = 0
  <2>1. \A c \in JobCores(j) : ~Acked(c)
    BY <1>4, BegunNotAcked
  <2>2. AckedOf(j) = {}
    BY <2>1 DEF AckedOf
  <2> QED BY <1>2, <2>2, FS_EmptySet DEF JobTurn
<1>6. /\ msgs \in Seq(Cores) /\ Len(msgs) = Len(doneMsg[j]) + 1
      /\ Range(msgs) = Range(doneMsg[j]) \union {d}
  BY <1>2, RangeAppend
<1>7. /\ Len(msgs) = Cardinality(Range(msgs)) /\ Range(msgs) \subseteq JobCores(j)
      /\ all => Range(msgs) = JobCores(j)
  <2>1. Range(doneMsg[j]) \subseteq JobCores(j) /\ Len(doneMsg[j]) = Cardinality(Range(doneMsg[j]))
    BY <1>2 DEF JobTurn
  <2>2. IsFiniteSet(Range(doneMsg[j]))
    BY <1>2, <2>1, FS_Subset
  <2>3. d \notin Range(doneMsg[j])
    BY <1>3 DEF Finishing, Counted
  <2>4. Len(msgs) = Cardinality(Range(msgs))
    BY <1>6, <2>1, <2>2, <2>3, FS_AddElement
  <2>5. Range(msgs) \subseteq JobCores(j)
    BY <1>2, <1>6, <2>1
  <2>6. all => Range(msgs) = JobCores(j)
    <3>1. /\ Cardinality(Range(msgs)) <= Cardinality(JobCores(j))
          /\ Cardinality(Range(msgs)) = Cardinality(JobCores(j)) => Range(msgs) = JobCores(j)
      BY <1>2, <2>5, FS_Subset
    <3>2. Cardinality(JobCores(j)) \in Nat /\ Len(msgs) \in Nat
      BY <1>2, <1>6, FS_CardinalityType
    <3> QED BY <2>4, <3>1, <3>2
  <2> QED BY <2>4, <2>5, <2>6
<1>8. all \in BOOLEAN
  OBVIOUS
<1> HIDE DEF all, msgs
<1>9. doneMsg'[j] = IF all THEN <<>> ELSE msgs
  BY <1>1, <1>2
<1>10. \A k \in Jobs \ {j} : doneMsg'[k] = doneMsg[k]
  BY <1>1, <1>2
<1>11. Types'
  <2>1. doneMsg' \in [Jobs -> Seq(Cores)]
    BY <1>1, <1>2, <1>6
  <2>2. busy' \in [Jobs -> BOOLEAN]
    BY <1>1, <1>2
  <2>3. dones' \subseteq Cores
    BY <1>1 DEF TurnInv, Types
  <2> QED BY <1>1, <2>1, <2>2, <2>3 DEF TurnInv, Types
<1>12. ConfigTurn'
  <2>1. config \notin {"both", "chunks"}
    BY <1>1 DEF Idle, Suspended
  <2> QED BY <1>1, <2>1 DEF TurnInv, ConfigTurn
<1>13. StartDue(j)' <=> StartDue(j)
  BY <1>1 DEF StartDue
<1>14. CASE ~all
  <2>1. ASSUME NEW c \in Cores \ {d} PROVE Same(c)
    <3>1. JobOf(c) \in Jobs
      BY <1>2, SetupFacts
    <3>2. Counted(c)' <=> Counted(c)
      BY <1>6, <1>9, <1>10, <1>14, <3>1 DEF Counted
    <3> QED BY <1>1, <3>2 DEF Same, Quiet, Carries
  <2>2. Over(d)'
    <3>1. Counted(d)'
      BY <1>6, <1>9, <1>14 DEF Counted
    <3> QED BY <1>1, <1>3, <3>1 DEF Over, Finishing, Quiet
  <2>3. Begun(d)' /\ ~Acked(d)' /\ ~Acked(d)
    BY <1>3, <2>2 DEF Begun, Over, Acked, Finishing
  <2>4. Turn(d)'
    BY <1>1, <1>3, <1>14, <2>3 DEF Turn
  <2>5. JobTurn(j)'
    <3>1. \A c \in JobCores(j) : Begun(c)' /\ ~Acked(c)'
      <4>1. ASSUME NEW c \in JobCores(j) PROVE Begun(c)' /\ ~Acked(c)'
        <5>1. CASE c = d
          BY <2>3, <5>1
        <5>2. CASE c # d
          <6>1. Same(c)
            BY <1>2, <2>1, <5>2
          <6>2. c \notin AckedOf(j)
            BY <1>5
          <6> QED BY <1>4, <6>1, <6>2, PlaceKept DEF AckedOf
        <5> QED BY <5>1, <5>2
      <4> QED BY <4>1
    <3>2. AckedOf(j)' = {}
      BY <3>1 DEF AckedOf
    <3>3. ~StartDue(j)' /\ ackCnt'[j] = Cardinality(AckedOf(j)') /\ AckedOf(j)' # JobCores(j)
      BY <1>1, <1>2, <1>5, <1>13, <3>2, FS_EmptySet
    <3>4. Range(doneMsg'[j]) \subseteq JobCores(j) /\ Len(doneMsg'[j]) = Cardinality(Range(doneMsg'[j]))
      BY <1>7, <1>9, <1>14
    <3> QED BY <3>1, <3>3, <3>4 DEF JobTurn
  <2>6. ~Starting(d)
    BY <1>3 DEF Finishing, Starting
  <2> QED BY <1>1, <1>10, <1>11, <1>12, <1>14, <2>1, <2>4, <2>5, <2>6, OneCoreInv
<1>15. CASE all
  <2>1. ASSUME NEW c \in JobCores(j) PROVE Unsent(c)' /\ c \notin tempConfig
    <3>1. JobOf(c) = j /\ c \in Range(msgs) /\ Turn(c)
      BY <1>2, <1>7, <1>15, <2>1 DEF TurnInv
    <3>2. ~Counted(c)'
      BY <1>9, <1>15, <3>1 DEF Counted, Range
    <3>3. Over(c) \/ c = d
      BY <1>4, <1>6, <3>1 DEF Begun, Starting, Running, Finishing, Counted
    <3>4. c \notin tempConfig
      BY <1>3, <3>1, <3>3 DEF Turn, Over, Unsent
    <3>5. /\ Quiet(c) /\ core[c] = "idle" /\ c \notin acks /\ c \notin dones'
      BY <1>1, <1>3, <3>3 DEF Over, Finishing
    <3> QED BY <1>1, <3>2, <3>4, <3>5 DEF Unsent, Quiet
  <2>2. ASSUME NEW c \in Cores \ JobCores(j) PROVE Same(c) /\ JobOf(c) # j
    <3>1. JobOf(c) \in Jobs \ {j}
      BY <1>2, <2>2, SetupFacts
    <3>2. Counted(c)' <=> Counted(c)
      BY <1>10, <3>1 DEF Counted
    <3>3. c # d
      BY <1>2
    <3> QED BY <1>1, <3>1, <3>2, <3>3 DEF Same, Quiet, Carries
  <2>3. ASSUME NEW c \in Cores PROVE Turn(c)'
    <3>1. CASE c \in JobCores(j)
      BY <1>1, <2>1, <3>1 DEF Turn
    <3>2. CASE c \notin JobCores(j)
      <4>1. Same(c) /\ JobOf(c) # j /\ JobOf(c) \in Jobs /\ Turn(c)
        BY <1>2, <2>2, <3>2, SetupFacts DEF TurnInv
      <4>2. busy'[JobOf(c)] = busy[JobOf(c)]
        BY <1>1, <1>2, <1>15, <4>1
      <4> QED BY <1>1, <4>1, <4>2, TurnKept
    <3> QED BY <3>1, <3>2
  <2>4. ASSUME NEW k \in Jobs PROVE JobTurn(k)'
    <3>1. CASE k = j
      <4>1. \A c \in JobCores(j) : ~Begun(c)' /\ ~Acked(c)'
        <5>1. \A c \in JobCores(j) : Unsent(c)' => ~Begun(c)' /\ ~Acked(c)'
          BY DEF Unsent, Begun, Acked, Starting, Running, Finishing, Over, Quiet, Carries
        <5> QED BY <2>1, <5>1
      <4>2. AckedOf(j)' = {}
        BY <4>1 DEF AckedOf
      <4>3. ~StartDue(j)' /\ ackCnt'[j] = Cardinality(AckedOf(j)') /\ AckedOf(j)' # JobCores(j)
        BY <1>1, <1>2, <1>5, <1>13, <4>2, FS_EmptySet
      <4>4. Range(doneMsg'[j]) = {} /\ Len(doneMsg'[j]) = 0
        BY <1>9, <1>15 DEF Range
      <4>5. Range(doneMsg'[j]) \subseteq JobCores(j) /\ Len(doneMsg'[j]) = Cardinality(Range(doneMsg'[j]))
        BY <4>4, FS_EmptySet
      <4> QED BY <3>1, <4>1, <4>3, <4>5 DEF JobTurn
    <3>2. CASE k # j
      <4>1. \A c \in JobCores(k) : c \in Cores \ JobCores(j)
        BY <3>2 DEF JobCores
      <4>2. \A c \in JobCores(k) : (Acked(c)' <=> Acked(c)) /\ (Begun(c)' <=> Begun(c))
        BY <2>2, <4>1, PlaceKept
      <4>3. StartDue(k)' <=> StartDue(k)
        BY <1>1 DEF StartDue
      <4> QED BY <1>1, <1>10, <3>2, <4>2, <4>3, JobKept DEF TurnInv
    <3> QED BY <3>1, <3>2
  <2>5. Threads'
    <3>1. Mixed => start = "wait"
      <4> SUFFICES ASSUME Mixed, start # "wait" PROVE FALSE
        OBVIOUS
      <4>1. PICK c \in Cores : Starting(c)
        BY DEF TurnInv, Threads
      <4>2. c \in JobCores(j)
        BY DEF JobCores, JobOf
      <4>3. c \in Range(msgs)
        BY <1>7, <1>15, <4>2
      <4> QED BY <1>2, <1>3, <1>6, <4>1, <4>2, <4>3 DEF Starting, Counted, Finishing
    <3>2. Mixed => pend' \cap NowEvents = {}
      BY <1>1, <1>15 DEF TurnInv, Threads, NowEvents
    <3> QED BY <1>1, <3>1, <3>2 DEF TurnInv, Threads
  <2> QED BY <1>11, <1>12, <2>3, <2>4, <2>5 DEF TurnInv
<1> QED BY <1>14, <1>15
-----------------------------------------------------------------------------
(* The theorems.                                                           *)

\* The simulation begins.
LEMMA TurnInit == Init => TurnInv
<1> SUFFICES ASSUME Init PROVE TurnInv
  OBVIOUS
<1>1. setup \in Setups
  BY DEF Init
<1>2. \A c \in Cores : JobOf(c) \in Jobs
  BY <1>1, SetupFacts
<1>3. Types
  <2>1. NoMessages \in [Cores -> Seq(Messages)]
    BY DEF NoMessages
  <2> QED BY <2>1 DEF Init, Types
<1>4. ASSUME NEW c \in Cores PROVE Unsent(c) /\ ~Acked(c) /\ ~Begun(c) /\ Turn(c)
  <2>1. Unsent(c)
    BY <1>2 DEF Init, Unsent, Quiet, Counted, Range, NoMessages
  <2>2. ~Acked(c)
    BY <2>1 DEF Unsent, Acked
  <2>3. ~Begun(c)
    BY <2>1 DEF Unsent, Begun, Starting, Running, Finishing, Over
  <2>4. Turn(c)
    BY <2>1 DEF Turn, Init
  <2> QED BY <2>1, <2>2, <2>3, <2>4
<1>5. ASSUME NEW j \in Jobs PROVE JobTurn(j)
  <2>1. JobCores(j) \subseteq Cores /\ JobCores(j) # {}
    BY <1>1, SetupFacts
  <2>2. AckedOf(j) = {}
    BY <1>4, <2>1 DEF AckedOf
  <2>3. ~StartDue(j) /\ ackCnt[j] = 0 /\ doneMsg[j] = <<>>
    BY DEF Init, StartDue
  <2>4. Range(doneMsg[j]) = {} /\ Len(doneMsg[j]) = 0
    BY <2>3 DEF Range
  <2> QED BY <1>4, <2>1, <2>2, <2>3, <2>4, FS_EmptySet DEF JobTurn
<1>6. Threads /\ ConfigTurn
  BY DEF Init, Threads, ConfigTurn, NowEvents
<1> QED BY <1>3, <1>4, <1>5, <1>6 DEF TurnInv

\* Every step keeps the invariant.
LEMMA TurnStep == TurnInv /\ [Next]_vars => TurnInv'
<1> SUFFICES ASSUME TurnInv, [Next]_vars PROVE TurnInv'
  OBVIOUS
<1>1. setup' = setup
  BY DEF Next, Step, Stop, vars
<1> USE <1>1, SetupKept
<1>2. CASE IterStartPrefill
  <2>1. /\ LanesKept /\ config = "prefill" /\ config' = "decode"
        /\ UNCHANGED <<waitStart, ackCnt, start, helper, needTrigger, pend>>
    BY <1>2 DEF IterStartPrefill, LanesKept, netVars
  <2>2. ConfigTurn' /\ "PREFILL" \in Jobs
    BY <2>1 DEF TurnInv, ConfigTurn, Jobs
  <2>3. CASE waitSchedule["PREFILL"] /\ ~busy["PREFILL"]
    <3>1. \E new : Announce("PREFILL", new)
      BY <1>2, <2>3 DEF IterStartPrefill, Install
    <3> QED BY <2>1, <2>2, <2>3, <3>1, AnnounceInv
  <2>4. CASE ~(waitSchedule["PREFILL"] /\ ~busy["PREFILL"])
    <3>1. UNCHANGED <<busy, tempConfig>>
      BY <1>2, <2>4 DEF IterStartPrefill
    <3> QED BY <2>1, <2>2, <3>1, ScheduleInv
  <2> QED BY <2>3, <2>4
<1>3. CASE IterStartDecode
  <2>1. /\ LanesKept /\ config = "decode" /\ config' = "fill"
        /\ UNCHANGED <<waitStart, ackCnt, start, helper, needTrigger, pend>>
    BY <1>3 DEF IterStartDecode, LanesKept, netVars
  <2>2. ConfigTurn' /\ "DECODE" \in Jobs
    BY <2>1 DEF TurnInv, ConfigTurn, Jobs
  <2>3. CASE waitSchedule["DECODE"] /\ ~busy["DECODE"]
    <3>1. \E new : Announce("DECODE", new)
      BY <1>3, <2>3 DEF IterStartDecode, Install
    <3> QED BY <2>1, <2>2, <2>3, <3>1, AnnounceInv
  <2>4. CASE ~(waitSchedule["DECODE"] /\ ~busy["DECODE"])
    <3>1. UNCHANGED <<busy, tempConfig>>
      BY <1>3, <2>4 DEF IterStartDecode
    <3> QED BY <2>1, <2>2, <3>1, ScheduleInv
  <2> QED BY <2>3, <2>4
<1>4. CASE IterStartMixed
  <2>1. /\ LanesKept /\ config = "both" /\ config' = IF busy["BOTH"] THEN "fill" ELSE "chunks"
        /\ UNCHANGED <<busy, tempConfig, waitStart, ackCnt, start, helper, needTrigger, pend>>
    BY <1>4 DEF IterStartMixed, LanesKept, netVars
  <2>2. ConfigTurn'
    BY <2>1 DEF TurnInv, ConfigTurn
  <2> QED BY <2>1, <2>2, ScheduleInv
<1>5. CASE PickChunk
  <2>1. /\ LanesKept
        /\ UNCHANGED <<config, busy, tempConfig, waitStart, ackCnt, start, helper, needTrigger, pend>>
    BY <1>5 DEF PickChunk, LanesKept, netVars
  <2>2. ConfigTurn'
    BY <2>1 DEF TurnInv, ConfigTurn
  <2> QED BY <2>1, <2>2, ScheduleInv
<1>6. CASE MixedReady
  <2>1. /\ LanesKept /\ config = "chunks" /\ config' = "fill" /\ Announce("BOTH", batch)
        /\ UNCHANGED <<waitStart, ackCnt, start, helper, needTrigger, pend>>
    BY <1>6 DEF MixedReady, LanesKept, netVars
  <2>2. ConfigTurn' /\ "BOTH" \in Jobs /\ ~busy["BOTH"]
    BY <2>1 DEF TurnInv, ConfigTurn, Jobs
  <2> QED BY <2>1, <2>2, AnnounceInv
<1>7. CASE Arrive \/ DistributeConfig
  <2>1. /\ LanesKept
        /\ UNCHANGED <<busy, tempConfig, waitStart, ackCnt, start, helper, needTrigger>>
        /\ pend' = pend \union {"dis_config"} \/ pend' = pend \ {"dis_config"}
    BY <1>7 DEF Arrive, DistributeConfig, LanesKept, schedVars, netVars
  <2>2. config' = config \/ config' = IF Mixed THEN "both" ELSE "prefill"
    BY <1>7 DEF Arrive, DistributeConfig
  <2>3. ConfigTurn'
    BY <2>1, <2>2 DEF TurnInv, ConfigTurn
  <2>4. /\ "retry_start" \in pend' <=> "retry_start" \in pend
        /\ pend' \cap NowEvents \subseteq pend
    BY <2>1 DEF NowEvents
  <2> QED BY <2>1, <2>3, <2>4, ScheduleInv
<1>8. CASE UNCHANGED vars
  <2>1. /\ LanesKept
        /\ UNCHANGED <<config, busy, tempConfig, waitStart, ackCnt, start, helper, needTrigger, pend>>
    BY <1>8 DEF vars, LanesKept
  <2>2. ConfigTurn'
    BY <2>1 DEF TurnInv, ConfigTurn
  <2> QED BY <2>1, <2>2, ScheduleInv
<1>9. CASE FillQueueConfig \/ CatchDisStart \/ WriteBegin
  BY <1>9, FillQueueConfigInv, CatchDisStartInv, WriteBeginInv
<1>10. CASE DistributeStart("dis_start") \/ DistributeStart("retry_start")
  BY <1>10, DistributeStartInv
<1>11. ASSUME NEW c \in Cores,
              WriteStep(c) \/ CoreTakes(c) \/ CoreDone(c) \/ RecvAck(c) \/ RecvDone(c)
       PROVE  TurnInv'
  BY <1>11, WriteStepInv, CoreTakesInv, CoreDoneInv, RecvAckInv, RecvDoneInv
<1> QED BY <1>2, <1>3, <1>4, <1>5, <1>6, <1>7, <1>8, <1>9, <1>10, <1>11 DEF Next, Step, Stop

\* CONFIG and START alternate for every core, for every workload and machine
\* and all three schedulers, however the iterations of the two jobs of PDS share
\* the write buffers and however many events the threads miss: no core is sent
\* START before the ACKs of its whole job are counted, and no core is configured
\* before all DONEs of its job are.
THEOREM MessagesTakeTurns == Spec => []MessagesInTurn
<1>1. TurnInv => MessagesInTurn
  <2> SUFFICES ASSUME TurnInv, NEW c \in Cores
               PROVE  /\ Len(ToCore(c)) <= 1
                      /\ "CONFIG" \in Range(ToCore(c)) =>
                           core[c] = "idle" /\ busy[JobOf(c)] /\ c \notin dones
                      /\ "START" \in Range(ToCore(c)) =>
                           core[c] = "configured" /\ c \notin acks /\ ~waitStart[JobOf(c)]
    BY DEF MessagesInTurn
  <2>1. /\ Turn(c) /\ JobOf(c) \in Jobs /\ c \in JobCores(JobOf(c))
    BY SetupFacts DEF TurnInv, Types
  <2>2. Quiet(c) => ToCore(c) = <<>>
    BY DEF Quiet, ToCore
  <2>3. \A m \in Messages : Carries(c, m) => ToCore(c) = <<m>>
    <3> SUFFICES ASSUME NEW m \in Messages, Carries(c, m) PROVE ToCore(c) = <<m>>
      OBVIOUS
    <3>1. /\ <<m>> \o <<>> = <<m>> /\ <<>> \o <<m>> = <<m>> /\ <<>> \o <<>> = <<>>
      OBVIOUS
    <3> QED BY <3>1, Zenon DEF Carries, ToCore
  <2>4. CASE Configuring(c)
    <3>1. ToCore(c) = <<"CONFIG">>
      BY <2>3, <2>4 DEF Configuring, Messages
    <3>2. Len(ToCore(c)) = 1 /\ Range(ToCore(c)) = {"CONFIG"}
      BY <3>1 DEF Range
    <3>3. ~Quiet(c)
      BY <2>4 DEF Configuring, Quiet, Carries
    <3>4. busy[JobOf(c)]
      BY <2>1, <3>3 DEF Turn, Unsent
    <3> QED BY <2>4, <3>2, <3>4 DEF Configuring
  <2>5. CASE Starting(c)
    <3>1. ToCore(c) = <<"START">>
      BY <2>3, <2>5 DEF Starting, Messages
    <3>2. Len(ToCore(c)) = 1 /\ Range(ToCore(c)) = {"START"}
      BY <3>1 DEF Range
    <3>3. ~Acked(c)
      BY <2>5, BegunNotAcked DEF Begun
    <3>4. ~waitStart[JobOf(c)]
      <4>1. CASE Mixed
        BY <2>1, <4>1 DEF TurnInv, Threads
      <4>2. CASE ~Mixed
        BY <2>1, <3>3, <4>2 DEF TurnInv, JobTurn, StartDue, AckedOf
      <4> QED BY <4>1, <4>2
    <3> QED BY <2>5, <3>2, <3>4 DEF Starting
  <2>6. CASE Quiet(c)
    <3>1. Len(ToCore(c)) = 0 /\ Range(ToCore(c)) = {}
      BY <2>2, <2>6 DEF Range
    <3> QED BY <3>1
  <2> QED BY <2>1, <2>4, <2>5, <2>6 DEF Turn, Unsent, Answering, Acked, Begun, Running, Finishing, Over
<1> QED BY <1>1, TurnInit, TurnStep, PTL DEF Spec
-----------------------------------------------------------------------------
(* How often something is in a queue.                                      *)

\* A number of occurrences is a natural number.
LEMMA OccNat ==
  ASSUME NEW S, NEW s \in Seq(S), NEW x
  PROVE  /\ IsFiniteSet({i \in DOMAIN s : s[i] = x})
         /\ Occurrences(x, s) \in Nat
<1>1. DOMAIN s = 1..Len(s) /\ Len(s) \in Nat
  OBVIOUS
<1>2. IsFiniteSet(1..Len(s))
  BY <1>1, FS_Interval
<1>3. IsFiniteSet({i \in DOMAIN s : s[i] = x})
  BY <1>1, <1>2, FS_Subset
<1> QED BY <1>3, FS_CardinalityType DEF Occurrences

\* What is not in a sequence occurs never in it, what is in it at least once.
LEMMA OccNone ==
  ASSUME NEW S, NEW s \in Seq(S), NEW x, \A i \in 1..Len(s) : s[i] # x
  PROVE  Occurrences(x, s) = 0
<1>1. {i \in DOMAIN s : s[i] = x} = {}
  OBVIOUS
<1> QED BY <1>1, FS_EmptySet DEF Occurrences

\* What is in a queue occurs in it.
LEMMA OccSome ==
  ASSUME NEW S, NEW s \in Seq(S), NEW i \in 1..Len(s)
  PROVE  Occurrences(s[i], s) >= 1
<1> DEFINE A == {k \in DOMAIN s : s[k] = s[i]}
<1>0. i \in A /\ IsFiniteSet(A)
  BY OccNat
<1>1. IsFiniteSet(A) /\ A # {} /\ Cardinality(A) \in Nat
  BY <1>0, FS_CardinalityType
<1>2. Cardinality(A) # 0
  BY <1>1, FS_EmptySet
<1> HIDE DEF A
<1>3. Cardinality(A) >= 1
  BY <1>1, <1>2
<1> QED BY <1>3 DEF Occurrences, A

\* Nothing is in an empty queue.
LEMMA OccEmpty ==
  ASSUME NEW x
  PROVE  Occurrences(x, <<>>) = 0
<1>1. {i \in DOMAIN <<>> : <<>>[i] = x} = {}
  OBVIOUS
<1> QED BY <1>1, FS_EmptySet DEF Occurrences

\* Sequences with the same pattern of occurrences.
LEMMA OccSame ==
  ASSUME NEW S, NEW s \in Seq(S), NEW T, NEW t \in Seq(T), Len(s) = Len(t), NEW x, NEW y,
         \A i \in 1..Len(s) : s[i] = x <=> t[i] = y
  PROVE  Occurrences(x, s) = Occurrences(y, t)
<1>1. DOMAIN s = 1..Len(s) /\ DOMAIN t = 1..Len(s)
  OBVIOUS
<1>2. {i \in DOMAIN s : s[i] = x} = {i \in DOMAIN t : t[i] = y}
  BY <1>1
<1> QED BY <1>2 DEF Occurrences

\* One element more at the end, and one that is replaced.
LEMMA OccAppend ==
  ASSUME NEW S, NEW s \in Seq(S), NEW e, NEW x
  PROVE  Occurrences(x, Append(s, e)) = Occurrences(x, s) + IF e = x THEN 1 ELSE 0
<1> DEFINE n == Len(s)
           A == {i \in DOMAIN s : s[i] = x}
           B == {i \in DOMAIN Append(s, e) : Append(s, e)[i] = x}
<1>1. /\ DOMAIN s = 1..n /\ n \in Nat
      /\ DOMAIN Append(s, e) = 1..n + 1 /\ Append(s, e)[n + 1] = e
      /\ \A i \in 1..n : Append(s, e)[i] = s[i]
  OBVIOUS
<1>2. \A i : i \in 1..n + 1 <=> i \in 1..n \/ i = n + 1
  BY <1>1
<1>3. n + 1 \notin 1..n
  BY <1>1
<1>4. IsFiniteSet(A) /\ n + 1 \notin A
  BY <1>1, <1>3, OccNat
<1>5. (e = x => B = A \cup {n + 1}) /\ (e # x => B = A)
  <2>1. \A i : i \in B <=> i \in A \/ (i = n + 1 /\ e = x)
    <3> HIDE DEF n
    <3> QED BY <1>1, <1>2
  <2> HIDE DEF A, B
  <2>2. CASE e = x
    BY <2>1, <2>2
  <2>3. CASE e # x
    BY <2>1, <2>3
  <2> QED BY <2>2, <2>3, Zenon
<1>6. Cardinality(A) \in Nat /\ Cardinality(A \cup {n + 1}) = Cardinality(A) + 1
  BY <1>4, FS_AddElement, FS_CardinalityType
<1> HIDE DEF A, B
<1>7. Cardinality(B) = Cardinality(A) + IF e = x THEN 1 ELSE 0
  <2>1. CASE e = x
    <3>1. B = A \cup {n + 1}
      BY <1>5, <2>1
    <3> QED BY <1>6, <2>1, <3>1
  <2>2. CASE e # x
    BY <1>5, <1>6, <2>2
  <2> QED BY <2>1, <2>2
<1> QED BY <1>7 DEF Occurrences, A, B

\* One element of a queue is replaced.
LEMMA OccUpdate ==
  ASSUME NEW S, NEW s \in Seq(S), NEW T, NEW t \in Seq(T), Len(t) = Len(s), NEW k \in 1..Len(s),
         \A i \in 1..Len(s) : i # k => t[i] = s[i], NEW x
  PROVE  Occurrences(x, t) =
           Occurrences(x, s) - (IF s[k] = x THEN 1 ELSE 0) + (IF t[k] = x THEN 1 ELSE 0)
<1> DEFINE A == {i \in DOMAIN s : s[i] = x}
           B == {i \in DOMAIN t : t[i] = x}
           C == A \ {k}
<1>1. /\ DOMAIN s = 1..Len(s) /\ DOMAIN t = DOMAIN s
      /\ \A i \in DOMAIN s : i # k => t[i] = s[i]
  OBVIOUS
<1>2. A = IF s[k] = x THEN C \cup {k} ELSE C
  BY <1>1
<1>3. B = IF t[k] = x THEN C \cup {k} ELSE C
  BY <1>1
<1>4. IsFiniteSet(A)
  BY OccNat
<1>5. IsFiniteSet(C) /\ k \notin C
  BY <1>4, FS_Subset
<1> HIDE DEF A, B, C
<1>6. Cardinality(C) \in Nat /\ Cardinality(C \cup {k}) = Cardinality(C) + 1
  BY <1>5, FS_AddElement, FS_CardinalityType
<1>7. Cardinality(B) = Cardinality(A) - (IF s[k] = x THEN 1 ELSE 0) + (IF t[k] = x THEN 1 ELSE 0)
  <2> DEFINE n == Cardinality(C)
  <2>1. Cardinality(A) = IF s[k] = x THEN n + 1 ELSE n
    BY <1>2, <1>6
  <2>2. Cardinality(B) = IF t[k] = x THEN n + 1 ELSE n
    BY <1>3, <1>6
  <2>3. n \in Nat
    BY <1>6
  <2> HIDE DEF n
  <2> QED BY <2>1, <2>2, <2>3
<1> QED BY <1>7 DEF Occurrences, A, B

\* Two sequences one behind the other.
LEMMA OccConcat ==
  ASSUME NEW S, NEW s \in Seq(S), NEW t \in Seq(S), NEW x
  PROVE  Occurrences(x, s \o t) = Occurrences(x, s) + Occurrences(x, t)
<1> DEFINE n == Len(s)
           m == Len(t)
           st == s \o t
           A == {i \in DOMAIN s : s[i] = x}
           B == {i \in DOMAIN t : t[i] = x}
           D == {i \in DOMAIN st : st[i] = x}
           C == {i \in DOMAIN st : st[i] = x /\ i > n}
           f == [i \in B |-> i + n]
<1>1. /\ DOMAIN s = 1..n /\ n \in Nat /\ DOMAIN t = 1..m /\ m \in Nat
      /\ DOMAIN st = 1..n + m
      /\ \A i \in 1..n : st[i] = s[i]
      /\ \A i \in 1..m : st[n + i] = t[i]
  OBVIOUS
<1>2. \A i \in n + 1..n + m : i - n \in 1..m /\ st[i] = t[i - n]
  <2> SUFFICES ASSUME NEW i \in n + 1..n + m PROVE i - n \in 1..m /\ st[i] = t[i - n]
    OBVIOUS
  <2> DEFINE k == i - n
  <2>1. k \in 1..m /\ n + k = i
    BY <1>1
  <2> HIDE DEF k
  <2>2. st[n + k] = t[k]
    BY <1>1, <2>1
  <2> QED BY <2>1, <2>2 DEF k
<1>3. IsFiniteSet(A) /\ IsFiniteSet(B)
  BY OccNat
<1> HIDE DEF st, n, m
<1>4. D = A \cup C /\ A \cap C = {}
  BY <1>1
<1>5. f \in Bijection(B, C)
  <2>1. \A i \in B : i + n \in C
    BY <1>1
  <2>2. \A i \in C : i - n \in B /\ (i - n) + n = i
    BY <1>1, <1>2
  <2>3. \A i, k \in B : i + n = k + n => i = k
    BY <1>1
  <2> HIDE DEF B, C
  <2>4. f \in Injection(B, C)
    <3>1. f \in [B -> C] /\ \A i \in B : f[i] = i + n
      BY <2>1
    <3> HIDE DEF f
    <3> QED BY <2>3, <3>1 DEF Injection, IsInjective
  <2>5. f \in Surjection(B, C)
    BY <2>1, <2>2 DEF Surjection
  <2> QED BY <2>4, <2>5 DEF Bijection
<1>6. IsFiniteSet(C) /\ Cardinality(C) = Cardinality(B)
  <2> HIDE DEF B, C, f
  <2> QED BY <1>3, <1>5, FS_Bijection DEF ExistsBijection
<1>7. Cardinality(A \cap C) = 0
  BY <1>4, FS_EmptySet
<1>8. Cardinality(D) = Cardinality(A) + Cardinality(B)
  <2>1. Cardinality(A) \in Nat /\ Cardinality(C) \in Nat
    BY <1>3, <1>6, FS_CardinalityType
  <2> HIDE DEF A, B, C, D
  <2>2. Cardinality(A \cup C) = Cardinality(A) + Cardinality(C) - Cardinality(A \cap C)
    BY <1>3, <1>6, FS_Union
  <2> QED BY <1>4, <1>6, <1>7, <2>1, <2>2
<1> QED BY <1>8 DEF Occurrences, st

\* What is left without the first element.
LEMMA OccTail ==
  ASSUME NEW S, NEW s \in Seq(S), s # <<>>, NEW x
  PROVE  /\ Tail(s) \in Seq(S) /\ Head(s) \in S
         /\ Occurrences(x, s) = Occurrences(x, Tail(s)) + IF Head(s) = x THEN 1 ELSE 0
<1>1. Tail(s) \in Seq(S) /\ Head(s) \in S /\ <<Head(s)>> \in Seq(S) /\ s = <<Head(s)>> \o Tail(s)
  OBVIOUS
<1>2. <<Head(s)>> = Append(<<>>, Head(s)) /\ <<>> \in Seq(S)
  OBVIOUS
<1>3. Occurrences(x, <<Head(s)>>) = IF Head(s) = x THEN 1 ELSE 0
  <2>1. Occurrences(x, Append(<<>>, Head(s))) = Occurrences(x, <<>>) + IF Head(s) = x THEN 1 ELSE 0
    BY <1>2, OccAppend
  <2> QED BY <1>2, <2>1, OccEmpty
<1>4. Occurrences(x, s) = Occurrences(x, <<Head(s)>>) + Occurrences(x, Tail(s))
  BY <1>1, OccConcat
<1>5. Occurrences(x, Tail(s)) \in Nat
  BY <1>1, OccNat
<1> QED BY <1>1, <1>3, <1>4, <1>5
-----------------------------------------------------------------------------
(* Parts of queues.                                                        *)

\* The smallest of a set of natural numbers.
LEMMA MinFacts ==
  ASSUME NEW T, T \subseteq Nat, T # {}
  PROVE  Min(T) \in T /\ \A m \in T : Min(T) <= m
<1>1. \E n \in T : \A m \in T : n <= m
  BY LeastNatural
<1> QED BY <1>1 DEF Min

\* A queue is what is taken from it, followed by what is left.
LEMMA FirstRest ==
  ASSUME NEW S, NEW s \in Seq(S), NEW n \in Nat
  PROVE  /\ First(n, s) \in Seq(S) /\ Rest(n, s) \in Seq(S)
         /\ Len(First(n, s)) = (IF Len(s) <= n THEN Len(s) ELSE n)
         /\ Len(First(n, s)) <= n
         /\ \A x : Occurrences(x, s) = Occurrences(x, First(n, s)) + Occurrences(x, Rest(n, s))
<1> DEFINE k == Min({n, Len(s)})
<1>1. k = (IF Len(s) <= n THEN Len(s) ELSE n)
  <2>1. Len(s) \in Nat
    OBVIOUS
  <2>2. k \in {n, Len(s)} /\ \A m \in {n, Len(s)} : k <= m
    BY <2>1, MinFacts
  <2> HIDE DEF k
  <2> QED BY <2>1, <2>2
<1>2. First(n, s) = SubSeq(s, 1, k) /\ Rest(n, s) = SubSeq(s, k + 1, Len(s))
  BY DEF First, Rest
<1> HIDE DEF k
<1>3. k \in Nat /\ k <= Len(s) /\ k <= n /\ Len(s) \in Nat
  BY <1>1
<1>4. /\ SubSeq(s, 1, k) \in Seq(S) /\ SubSeq(s, k + 1, Len(s)) \in Seq(S)
      /\ Len(SubSeq(s, 1, k)) = k
  BY <1>3
<1>5. s = SubSeq(s, 1, k) \o SubSeq(s, k + 1, Len(s))
  <2> DEFINE a == SubSeq(s, 1, k)
             b == SubSeq(s, k + 1, Len(s))
  <2>1. /\ a \in Seq(S) /\ Len(a) = k /\ \A i \in 1..k : a[i] = s[i]
        /\ b \in Seq(S) /\ Len(b) = Len(s) - k /\ \A i \in 1..Len(s) - k : b[i] = s[k + i]
    BY <1>3
  <2> HIDE DEF a, b
  <2>2. a \o b \in Seq(S) /\ Len(a \o b) = Len(s)
    BY <1>3, <2>1
  <2>3. ASSUME NEW i \in 1..Len(s) PROVE (a \o b)[i] = s[i]
    <3>1. CASE i <= k
      BY <1>3, <2>1, <3>1
    <3>2. CASE i > k
      <4>1. (a \o b)[i] = b[i - k] /\ i - k \in 1..Len(s) - k
        BY <1>3, <2>1, <3>2
      <4>2. b[i - k] = s[k + (i - k)] /\ k + (i - k) = i
        BY <1>3, <2>1, <4>1
      <4> QED BY <4>1, <4>2
    <3>3. i <= k \/ i > k
      BY <1>3
    <3> QED BY <3>1, <3>2, <3>3
  <2>4. s = a \o b
    BY <2>2, <2>3, SeqEqual
  <2> QED BY <2>4 DEF a, b
<1>6. ASSUME NEW x
      PROVE  Occurrences(x, s) = Occurrences(x, First(n, s)) + Occurrences(x, Rest(n, s))
  <2>1. Occurrences(x, SubSeq(s, 1, k) \o SubSeq(s, k + 1, Len(s))) =
          Occurrences(x, SubSeq(s, 1, k)) + Occurrences(x, SubSeq(s, k + 1, Len(s)))
    BY <1>4, OccConcat
  <2> QED BY <1>2, <1>5, <2>1
<1> QED BY <1>1, <1>2, <1>3, <1>4, <1>6

\* Requests that become decode stages, and back.
LEMMA AsStagesFacts ==
  ASSUME NEW S, NEW s \in Seq(S)
  PROVE  /\ AsStages(s) \in Seq([req : S, type : {"DECODE"}])
         /\ Len(AsStages(s)) = Len(s)
         /\ \A r : Occurrences([req |-> r, type |-> "DECODE"], AsStages(s)) = Occurrences(r, s)
<1> DEFINE T == [req : S, type : {"DECODE"}]
           t == AsStages(s)
<1>1. /\ t \in Seq(T) /\ Len(t) = Len(s)
      /\ \A i \in 1..Len(s) : t[i] = [req |-> s[i], type |-> "DECODE"]
  BY DEF AsStages
<1> HIDE DEF t, T
<1>2. ASSUME NEW r PROVE Occurrences([req |-> r, type |-> "DECODE"], t) = Occurrences(r, s)
  <2>1. \A i \in 1..Len(t) : t[i] = [req |-> r, type |-> "DECODE"] <=> s[i] = r
    <3> SUFFICES ASSUME NEW i \in 1..Len(t)
                 PROVE  t[i] = [req |-> r, type |-> "DECODE"] <=> s[i] = r
      OBVIOUS
    <3>1. t[i] = [req |-> s[i], type |-> "DECODE"]
      BY <1>1
    <3> QED BY <3>1
  <2> QED BY <1>1, <2>1, OccSame
<1> QED BY <1>1, <1>2 DEF t, T

\* The requests of decodes, in their order.
LEMMA AsIdsFacts ==
  ASSUME NEW S, NEW s \in Seq([req : S, type : {"DECODE"}])
  PROVE  /\ AsIds(s) \in Seq(S)
         /\ \A r : Occurrences(r, AsIds(s)) = Occurrences([req |-> r, type |-> "DECODE"], s)
<1> DEFINE t == AsIds(s)
           T == [req : S, type : {"DECODE"}]
<1>1. \A i \in 1..Len(s) : s[i] \in T
  <2>1. s \in Seq(T)
    OBVIOUS
  <2> HIDE DEF T
  <2> QED BY <2>1
<1>2. /\ t \in Seq(S) /\ Len(t) = Len(s)
      /\ \A i \in 1..Len(s) : t[i] = s[i].req
  BY <1>1 DEF AsIds
<1> HIDE DEF t
<1>3. ASSUME NEW r PROVE Occurrences(r, t) = Occurrences([req |-> r, type |-> "DECODE"], s)
  <2>1. \A i \in 1..Len(t) : t[i] = r <=> s[i] = [req |-> r, type |-> "DECODE"]
    <3> SUFFICES ASSUME NEW i \in 1..Len(t)
                 PROVE  t[i] = r <=> s[i] = [req |-> r, type |-> "DECODE"]
      OBVIOUS
    <3>1. t[i] = s[i].req /\ s[i] \in [req : S, type : {"DECODE"}]
      BY <1>1, <1>2
    <3>2. s[i] = [req |-> s[i].req, type |-> "DECODE"]
      BY <3>1
    <3> QED BY <3>1, <3>2
  <2> QED BY <1>2, <2>1, OccSame
<1> QED BY <1>2, <1>3 DEF t

\* What is kept of a queue.
LEMMA AmongFacts ==
  ASSUME NEW S, NEW s \in Seq(S), NEW P
  PROVE  /\ Among(s, P) \in Seq(S \cap P)
         /\ Len(Among(s, P)) <= Len(s)
         /\ \A x \in P : Occurrences(x, Among(s, P)) = Occurrences(x, s)
<1> DEFINE n == Len(s)
           U == Seq(S \cap P)
           next(t, i) == IF s[i] \in P THEN Append(t, s[i]) ELSE t
           rec(g, i) == IF i = 0 THEN <<>> ELSE IF s[i] \in P THEN Append(g[i-1], s[i]) ELSE g[i-1]
           kept == CHOOSE g : g = [i \in 0..n |-> rec(g, i)]
           F == [p \in U \X (1..n) |-> next(p[1], p[2])]
           upto(i) == SubSeq(s, 1, i)
           good(i, t) == t \in U /\ Len(t) <= i /\ \A x \in P : Occurrences(x, t) = Occurrences(x, upto(i))
           G == {p \in (0..n) \X U : good(p[1], p[2])}
<1>0. Among(s, P) = kept[n]
  BY DEF Among
<1>n. n \in Nat
  OBVIOUS
<1>1. good(0, <<>>)
  <2>1. <<>> \in U /\ Len(<<>>) <= 0 /\ upto(0) = <<>>
    OBVIOUS
  <2> QED BY <2>1
<1>2. ASSUME NEW i \in 1..n, NEW t, good(i-1, t)
      PROVE  good(i, next(t, i))
  <2>1. /\ upto(i-1) \in Seq(S) /\ upto(i) = Append(upto(i-1), s[i]) /\ s[i] \in S
    OBVIOUS
  <2>2. next(t, i) \in U /\ Len(next(t, i)) <= i
    BY <1>2, <2>1
  <2>3. ASSUME NEW x \in P PROVE Occurrences(x, next(t, i)) = Occurrences(x, upto(i))
    <3> HIDE DEF upto
    <3>1. Occurrences(x, upto(i)) = Occurrences(x, upto(i-1)) + IF s[i] = x THEN 1 ELSE 0
      BY <2>1, OccAppend
    <3>2. Occurrences(x, Append(t, s[i])) = Occurrences(x, t) + IF s[i] = x THEN 1 ELSE 0
      BY <1>2, OccAppend
    <3>3. Occurrences(x, t) = Occurrences(x, upto(i-1)) /\ Occurrences(x, t) \in Nat
      BY <1>2, OccNat
    <3>4. CASE s[i] \in P
      BY <3>1, <3>2, <3>3, <3>4
    <3>5. CASE s[i] \notin P
      BY <3>1, <3>3, <3>5
    <3> QED BY <3>4, <3>5
  <2> QED BY <2>2, <2>3
<1> HIDE DEF good
<1>3. \A i \in 1..n, t \in U : F[<<t, i>>] = next(t, i)
  OBVIOUS
<1>4. \A i \in 0..n : \A t : <<i, t>> \in G <=> t \in U /\ good(i, t)
  OBVIOUS
<1>5. \A i \in 0..n : \A t : good(i, t) => t \in U
  BY DEF good
<1> HIDE DEF F, G, U, n
<1>6. PICK g : Repeats(g, n, <<>>, F)
  BY <1>n, IterationSolved
<1>7. <<0, <<>>>> \in G
  <2>1. 0 \in 0..n
    BY <1>n
  <2> QED BY <1>1, <1>4, <1>5, <2>1
<1>8. ASSUME NEW i \in 1..n, NEW t, <<i-1, t>> \in G
      PROVE  t \in U /\ F[<<t, i>>] = next(t, i) /\ <<i, next(t, i)>> \in G
  <2>1. i \in 0..n /\ i - 1 \in 0..n
    BY <1>n
  <2>2. t \in U /\ good(i-1, t)
    BY <1>4, <1>8, <2>1
  <2>3. good(i, next(t, i))
    BY <1>2, <2>2
  <2>4. F[<<t, i>>] = next(t, i)
    BY <1>3, <2>2
  <2> HIDE DEF next
  <2> QED BY <1>4, <1>5, <2>1, <2>2, <2>3, <2>4
<1> HIDE DEF next
<1>9. \A i \in 0..n : <<i, g[i]>> \in G
  <2>1. \A i \in 0..n : g[i] = IF i = 0 THEN <<>> ELSE F[<<g[i-1], i>>]
    BY <1>6 DEF Repeats
  <2>2. <<0, g[0]>> \in G
    <3>1. 0 \in 0..n
      BY <1>n
    <3> QED BY <1>7, <2>1, <3>1
  <2>3. ASSUME NEW i \in 1..n, <<i-1, g[i-1]>> \in G PROVE <<i, g[i]>> \in G
    <3>1. g[i] = F[<<g[i-1], i>>]
      BY <1>n, <2>1
    <3> QED BY <1>8, <2>3, <3>1
  <2> QED BY <1>n, <2>2, <2>3, IterationKeeps
<1>10. g = [i \in 0..n |-> rec(g, i)]
  <2>1. ASSUME NEW i \in 0..n PROVE (IF i = 0 THEN <<>> ELSE F[<<g[i-1], i>>]) = rec(g, i)
    <3>1. CASE i = 0
      BY <3>1
    <3>2. CASE i # 0
      <4>1. i \in 1..n /\ i - 1 \in 0..n
        BY <1>n, <3>2
      <4>2. F[<<g[i-1], i>>] = next(g[i-1], i)
        BY <1>8, <1>9, <4>1
      <4> QED BY <3>2, <4>2 DEF next
    <3> QED BY <3>1, <3>2
  <2> HIDE DEF rec
  <2> QED BY <1>6, <2>1 DEF Repeats
<1>11. kept = [i \in 0..n |-> rec(kept, i)]
  <2> HIDE DEF rec
  <2> QED BY <1>10
<1> HIDE DEF kept
<1>12. \A i \in 0..n : <<i, kept[i]>> \in G
  <2>1. \A i \in 0..n : kept[i] = rec(kept, i)
    <3> HIDE DEF rec
    <3> QED BY <1>11
  <2>2. <<0, kept[0]>> \in G
    BY <1>n, <1>7, <2>1
  <2>3. ASSUME NEW i \in 1..n, <<i-1, kept[i-1]>> \in G PROVE <<i, kept[i]>> \in G
    <3>1. i \in 0..n /\ i # 0
      BY <1>n
    <3>2. kept[i] = next(kept[i-1], i)
      BY <2>1, <3>1 DEF next
    <3> QED BY <1>8, <2>3, <3>2
  <2> QED BY <1>n, <2>2, <2>3, IterationKeeps
<1>13. kept[n] \in U /\ good(n, kept[n])
  <2>1. n \in 0..n
    BY <1>n
  <2> QED BY <1>4, <1>12, <2>1
<1>14. upto(n) = s
  BY DEF n
<1> QED BY <1>0, <1>13, <1>14 DEF good, n, U
-----------------------------------------------------------------------------
(* How often something is in several queues.                               *)

\* Sums of occurrences are natural numbers and not smaller than their terms.
LEMMA CopiesNat ==
  ASSUME NEW S, IsFiniteSet(S), NEW q, NEW T, \A k \in S : q[k] \in Seq(T), NEW x
  PROVE  Copies(x, q, S) \in Nat /\ \A k \in S : Occurrences(x, q[k]) <= Copies(x, q, S)
<1> DEFINE f == [k \in S |-> Occurrences(x, q[k])]
<1>1. \A k \in S : f[k] \in Nat /\ f[k] = Occurrences(x, q[k])
  BY OccNat
<1> HIDE DEF f
<1>2. SumFunctionOnSet(f, S) \in Nat /\ \A k \in S : f[k] <= SumFunctionOnSet(f, S)
  BY <1>1, SumNat
<1> QED BY <1>1, <1>2 DEF Copies, f

\* They depend on their terms only.
LEMMA CopiesSame ==
  ASSUME NEW S, IsFiniteSet(S), NEW x, NEW q, NEW y, NEW p,
         \A k \in S : Occurrences(x, q[k]) = Occurrences(y, p[k])
  PROVE  Copies(x, q, S) = Copies(y, p, S)
<1>1. [k \in S |-> Occurrences(x, q[k])] = [k \in S |-> Occurrences(y, p[k])]
  OBVIOUS
<1> QED BY <1>1 DEF Copies

\* What is in none of the queues.
LEMMA CopiesZero ==
  ASSUME NEW S, IsFiniteSet(S), NEW x, NEW q, \A k \in S : Occurrences(x, q[k]) = 0
  PROVE  Copies(x, q, S) = 0
<1> DEFINE f == [k \in S |-> Occurrences(x, q[k])]
<1>1. \A k \in S : f[k] = 0
  OBVIOUS
<1> HIDE DEF f
<1>2. SumFunctionOnSet(f, S) = 0
  BY <1>1, SumZero
<1> QED BY <1>2 DEF Copies, f

\* One queue changes.
LEMMA CopiesUpdate ==
  ASSUME NEW S, IsFiniteSet(S), NEW q, NEW T, NEW p, \A k \in S : q[k] \in Seq(T) /\ p[k] \in Seq(T),
         NEW m \in S, NEW x, \A k \in S : k # m => Occurrences(x, p[k]) = Occurrences(x, q[k])
  PROVE  Copies(x, p, S) = Copies(x, q, S) - Occurrences(x, q[m]) + Occurrences(x, p[m])
<1> DEFINE f == [k \in S |-> Occurrences(x, q[k])]
           e == [k \in S |-> Occurrences(x, p[k])]
<1>1. /\ \A k \in S : f[k] \in Int /\ e[k] \in Int
      /\ \A k \in S : f[k] = Occurrences(x, q[k]) /\ e[k] = Occurrences(x, p[k])
  <2>1. \A k \in S : Occurrences(x, q[k]) \in Nat
    BY OccNat
  <2>2. \A k \in S : Occurrences(x, p[k]) \in Nat
    BY OccNat
  <2> QED BY <2>1, <2>2
<1> HIDE DEF f, e
<1>2. \A k \in S : k # m => e[k] = f[k]
  BY <1>1
<1>3. SumFunctionOnSet(e, S) = SumFunctionOnSet(f, S) - f[m] + e[m]
  BY <1>1, <1>2, SumUpdate
<1> QED BY <1>1, <1>3 DEF Copies, f, e

\* A part of the queues, and the others.
LEMMA CopiesSplit ==
  ASSUME NEW S, IsFiniteSet(S), NEW q, NEW T, \A k \in S : q[k] \in Seq(T), NEW R \in SUBSET S, NEW x
  PROVE  Copies(x, q, S) = Copies(x, q, R) + Copies(x, q, S \ R)
<1> DEFINE f == [k \in S |-> Occurrences(x, q[k])]
           part(P) == [k \in P |-> Occurrences(x, q[k])]
<1>1. \A k \in S : f[k] \in Int
  <2>1. \A k \in S : Occurrences(x, q[k]) \in Nat
    BY OccNat
  <2> QED BY <2>1
<1>2. \A P \in SUBSET S : SumFunctionOnSet(f, P) = SumFunctionOnSet(part(P), P)
  <2> SUFFICES ASSUME NEW P \in SUBSET S
               PROVE  SumFunctionOnSet(f, P) = SumFunctionOnSet(part(P), P)
    OBVIOUS
  <2>1. IsFiniteSet(P) /\ \A k \in P : f[k] = part(P)[k]
    BY FS_Subset
  <2> HIDE DEF f, part
  <2> QED BY <2>1, SumEqual
<1> HIDE DEF f, part
<1>3. SumFunctionOnSet(f, S) = SumFunctionOnSet(f, R) + SumFunctionOnSet(f, S \ R)
  BY <1>1, SumSplit
<1>4. S \ R \in SUBSET S /\ S \in SUBSET S
  OBVIOUS
<1>5. SumFunctionOnSet(part(S), S) = SumFunctionOnSet(part(R), R) + SumFunctionOnSet(part(S \ R), S \ R)
  BY <1>2, <1>3, <1>4
<1> QED BY <1>5 DEF Copies, part

\* The same queues under other names.
LEMMA CopiesReindex ==
  ASSUME NEW S, IsFiniteSet(S), NEW q, NEW T, \A k \in S : q[k] \in Seq(T), NEW p, NEW h, NEW x,
         NEW R, Renames(h, S, R),
         \A k \in S : Occurrences(x, p[h[k]]) = Occurrences(x, q[k])
  PROVE  Copies(x, q, S) = Copies(x, p, R)
<1> DEFINE f == [k \in S |-> Occurrences(x, q[k])]
           e == [k \in R |-> Occurrences(x, p[k])]
<1>1. \A k \in S : f[k] \in Int /\ e[h[k]] = f[k]
  <2>1. \A k \in S : Occurrences(x, q[k]) \in Nat
    BY OccNat
  <2>2. \A k \in S : h[k] \in R
    BY DEF Renames
  <2> QED BY <2>1, <2>2
<1> HIDE DEF f, e
<1>2. SumFunctionOnSet(f, S) = SumFunctionOnSet(e, R)
  BY <1>1, SumReindex
<1> QED BY <1>2 DEF Copies, f, e

\* What leaves one family of queues enters the other.
LEMMA CopiesExchange ==
  ASSUME NEW S, IsFiniteSet(S), NEW T, NEW R, NEW q, NEW p, NEW qq, NEW pp, NEW x, NEW y,
         \A k \in S : q[k] \in Seq(T) /\ qq[k] \in Seq(T) /\ p[k] \in Seq(R) /\ pp[k] \in Seq(R),
         \A k \in S : Occurrences(x, q[k]) + Occurrences(y, p[k]) =
                      Occurrences(x, qq[k]) + Occurrences(y, pp[k])
  PROVE  Copies(x, q, S) + Copies(y, p, S) = Copies(x, qq, S) + Copies(y, pp, S)
<1> DEFINE a == [k \in S |-> Occurrences(x, q[k])]
           b == [k \in S |-> Occurrences(y, p[k])]
           c == [k \in S |-> Occurrences(x, qq[k])]
           d == [k \in S |-> Occurrences(y, pp[k])]
           h == [k \in S |-> a[k] + b[k]]
<1>1. \A k \in S : a[k] \in Int /\ b[k] \in Int /\ c[k] \in Int /\ d[k] \in Int
  <2>1. \A k \in S : Occurrences(x, q[k]) \in Nat
    BY OccNat
  <2>2. \A k \in S : Occurrences(y, p[k]) \in Nat
    BY OccNat
  <2>3. \A k \in S : Occurrences(x, qq[k]) \in Nat
    BY OccNat
  <2>4. \A k \in S : Occurrences(y, pp[k]) \in Nat
    BY OccNat
  <2> QED BY <2>1, <2>2, <2>3, <2>4
<1>2. \A k \in S : h[k] = a[k] + b[k] /\ h[k] = c[k] + d[k]
  OBVIOUS
<1> HIDE DEF a, b, c, d, h
<1>3. SumFunctionOnSet(h, S) = SumFunctionOnSet(a, S) + SumFunctionOnSet(b, S)
  BY <1>1, <1>2, SumPlus
<1>4. SumFunctionOnSet(h, S) = SumFunctionOnSet(c, S) + SumFunctionOnSet(d, S)
  BY <1>1, <1>2, SumPlus
<1>5. SumFunctionOnSet(a, S) + SumFunctionOnSet(b, S) = SumFunctionOnSet(c, S) + SumFunctionOnSet(d, S)
  BY <1>3, <1>4
<1> QED BY <1>5 DEF Copies, a, b, c, d
-----------------------------------------------------------------------------
(* The cores of a pipeline.                                                *)

\* Quotient and remainder.
LEMMA DivMod ==
  ASSUME NEW D \in Nat \ {0}, NEW q \in Nat, NEW r \in 0..D-1
  PROVE  (q * D + r) \div D = q /\ (q * D + r) % D = r
OBVIOUS

\* Every number has them.
LEMMA Quotient ==
  ASSUME NEW D \in Nat \ {0}, NEW c \in Nat
  PROVE  \E q \in Nat, r \in 0..D-1 : c = q * D + r
<1>1. D \in Int /\ D > 0 /\ c \in Int
  OBVIOUS
<1>2. c = D * (c \div D) + (c % D)
  BY <1>1
<1>3. c \div D \in Int /\ c \div D >= 0
  BY <1>1
<1>4. c % D \in 0..D-1
  BY <1>1
<1> DEFINE q == c \div D
           r == c % D
<1> HIDE DEF q, r
<1>5. c = q * D + r /\ q \in Nat /\ r \in 0..D-1
  BY <1>1, <1>2, <1>3, <1>4 DEF q, r
<1> QED BY <1>5

\* N cores in m pipelines of D: the ends, and the neighbours of a core.
Pipelined(D, N, m) ==
  /\ m = N \div D /\ N = m * D
  /\ \A k \in 0..m-1 : /\ k * D \in 0..N-1 /\ (k * D) % D = 0 /\ (k * D) \div D = k
                       /\ k * D + D - 1 \in 0..N-1 /\ (k * D + D - 1) % D = D - 1
  /\ \A c \in 0..N-1 :
       /\ c % D \in 0..D-1
       /\ c % D = 0 => \E k \in 0..m-1 : c = k * D
       /\ c % D = D - 1 => \E k \in 0..m-1 : c = k * D + D - 1
       /\ c % D # 0 => c - 1 \in 0..N-1 /\ (c - 1) % D = (c % D) - 1
       /\ c % D # D - 1 => c + 1 \in 0..N-1 /\ (c + 1) % D = (c % D) + 1

\* Pipelines that divide the cores lie like this.
LEMMA Pipelining ==
  ASSUME NEW D \in Nat \ {0}, NEW N \in Nat, N % D = 0
  PROVE  \E m \in Nat : Pipelined(D, N, m)
<1>1. PICK m \in Nat, z \in 0..D-1 : N = m * D + z
  BY Quotient
<1>2. m = N \div D /\ N = m * D
  <2>1. (m * D + z) \div D = m /\ (m * D + z) % D = z
    BY DivMod
  <2> QED BY <1>1, <2>1
<1>3. ASSUME NEW k \in 0..m-1
      PROVE  /\ k * D \in 0..N-1 /\ (k * D) % D = 0 /\ (k * D) \div D = k
             /\ k * D + D - 1 \in 0..N-1 /\ (k * D + D - 1) % D = D - 1
  <2>1. k * D + D <= m * D /\ k * D \in Nat
    <3>1. (m - k - 1) * D >= 0 /\ (m - k - 1) * D = m * D - k * D - D
      OBVIOUS
    <3>2. m * D \in Int /\ k * D \in Nat
      OBVIOUS
    <3> QED BY <3>1, <3>2
  <2>2. (k * D + 0) \div D = k /\ (k * D + 0) % D = 0 /\ 0 \in 0..D-1
    BY DivMod
  <2>3. (k * D + (D - 1)) % D = D - 1 /\ D - 1 \in 0..D-1
    <3>1. k \in Nat /\ D - 1 \in 0..D-1
      OBVIOUS
    <3> QED BY <3>1, DivMod
  <2>4. k * D + 0 = k * D /\ k * D + (D - 1) = k * D + D - 1
    BY <2>1
  <2>5. k * D \in 0..N-1 /\ k * D + D - 1 \in 0..N-1
    BY <1>2, <2>1
  <2> QED BY <2>2, <2>3, <2>4, <2>5
<1>4. ASSUME NEW c \in 0..N-1
      PROVE  /\ c % D \in 0..D-1
             /\ c % D = 0 => \E k \in 0..m-1 : c = k * D
             /\ c % D = D - 1 => \E k \in 0..m-1 : c = k * D + D - 1
             /\ c % D # 0 => c - 1 \in 0..N-1 /\ (c - 1) % D = (c % D) - 1
             /\ c % D # D - 1 => c + 1 \in 0..N-1 /\ (c + 1) % D = (c % D) + 1
  <2>0. c \in Nat
    OBVIOUS
  <2>1. PICK q \in Nat, r \in 0..D-1 : c = q * D + r
    BY <2>0, Quotient
  <2>2. c % D = r
    BY <2>1, DivMod
  <2>3. q \in 0..m-1 /\ q * D \in Nat /\ q * D + D <= N
    <3>1. q < m
      <4> SUFFICES ASSUME q >= m PROVE FALSE
        OBVIOUS
      <4>1. (q - m) * D >= 0 /\ (q - m) * D = q * D - m * D
        OBVIOUS
      <4>2. q * D \in Int /\ m * D \in Int
        OBVIOUS
      <4> QED BY <1>2, <2>1, <4>1, <4>2
    <3>2. q \in 0..m-1
      BY <3>1
    <3>3. q * D + D - 1 \in 0..N-1 /\ q * D \in 0..N-1
      BY <1>3, <3>2
    <3> QED BY <3>2, <3>3
  <2>4. r # 0 => c - 1 \in 0..N-1 /\ (c - 1) % D = r - 1
    <3> SUFFICES ASSUME r # 0 PROVE c - 1 \in 0..N-1 /\ (c - 1) % D = r - 1
      OBVIOUS
    <3>1. r - 1 \in 0..D-1 /\ c - 1 = q * D + (r - 1) /\ c - 1 \in 0..N-1
      BY <2>1, <2>3
    <3>2. (q * D + (r - 1)) % D = r - 1
      BY <3>1, DivMod
    <3> QED BY <3>1, <3>2
  <2>5. r # D - 1 => c + 1 \in 0..N-1 /\ (c + 1) % D = r + 1
    <3> SUFFICES ASSUME r # D - 1 PROVE c + 1 \in 0..N-1 /\ (c + 1) % D = r + 1
      OBVIOUS
    <3>1. r + 1 \in 0..D-1 /\ c + 1 = q * D + (r + 1) /\ c + 1 \in 0..N-1
      BY <2>1, <2>3
    <3>2. (q * D + (r + 1)) % D = r + 1
      BY <3>1, DivMod
    <3> QED BY <3>1, <3>2
  <2>6. r = 0 => c = q * D
    BY <2>1, <2>3
  <2>7. r = D - 1 => c = q * D + D - 1
    BY <2>1, <2>3
  <2> QED BY <2>2, <2>3, <2>4, <2>5, <2>6, <2>7
<1> QED BY <1>2, <1>3, <1>4 DEF Pipelined

\* The first and the last cores of the pipelines of a job.
Begins(j) == {c \in JobCores(j) : StageIndex(c) = 1}
Ends(j) == {c \in JobCores(j) : Counts(c)}
NumPipes(j) == Len(FirstCores(j))
LastOf(j, k) == FirstCores(j)[k] + Stages(j) - 1

\* The first core of a job and the number of its cores.
Base(j) == IF j = "PREFILL" THEN 0 ELSE PrefillCores
Size(j) == IF j = "PREFILL" THEN PrefillCores ELSE DecodeCores

\* The pipelines of a job lie one behind the other.
LEMMA JobLayout ==
  ASSUME setup \in Setups, NEW j \in Jobs
  PROVE  /\ Base(j) \in Nat /\ Size(j) \in Nat /\ Stages(j) \in Nat \ {0}
         /\ Size(j) % Stages(j) = 0
         /\ JobCores(j) = Base(j)..Base(j) + Size(j) - 1
         /\ \A c \in JobCores(j) : /\ StageIndex(c) = ((c - Base(j)) % Stages(j)) + 1
                                   /\ Counts(c) <=> (c - Base(j)) % Stages(j) = Stages(j) - 1
         /\ FirstCores(j) = [k \in 1..Size(j) \div Stages(j) |-> Base(j) + (k - 1) * Stages(j)]
<1>1. /\ PrefillCores \in Nat /\ DecodeCores \in Nat \ {0}
      /\ PrefillStages \in Nat \ {0} /\ DecodeStages \in Nat \ {0}
      /\ PrefillCores % PrefillStages = 0 /\ DecodeCores % DecodeStages = 0
      /\ PrefillCores = 0 <=> Mixed
  BY PdAssumption DEF PrefillCores, DecodeCores, PrefillStages, DecodeStages, Mixed
<1>2. j \in {"PREFILL", "DECODE", "BOTH"} /\ (j = "BOTH" <=> Mixed)
  BY DEF Jobs
<1>3. /\ Base(j) \in Nat /\ Size(j) \in Nat /\ Stages(j) \in Nat \ {0}
      /\ Size(j) % Stages(j) = 0
  BY <1>1 DEF Base, Size, Stages
<1>4. JobCores(j) = Base(j)..Base(j) + Size(j) - 1
  <2>1. ASSUME NEW c \in Int PROVE c \in JobCores(j) <=> c \in Base(j)..Base(j) + Size(j) - 1
    BY <1>1, <1>2 DEF JobCores, Cores, JobOf, Base, Size
  <2>2. JobCores(j) \subseteq Int /\ Base(j)..Base(j) + Size(j) - 1 \subseteq Int
    BY <1>3 DEF JobCores, Cores
  <2> QED BY <2>1, <2>2
<1>5. ASSUME NEW c \in JobCores(j)
      PROVE  /\ StageIndex(c) = ((c - Base(j)) % Stages(j)) + 1
             /\ Counts(c) <=> (c - Base(j)) % Stages(j) = Stages(j) - 1
  <2>1. c \in Base(j)..Base(j) + Size(j) - 1 /\ JobOf(c) = j
    BY <1>4 DEF JobCores
  <2>2. StageIndex(c) = ((c - Base(j)) % Stages(j)) + 1
    <3>1. CASE j = "PREFILL"
      <4>1. c < PrefillCores /\ c - 0 = c
        BY <1>1, <2>1, <3>1 DEF Base, Size
      <4> QED BY <3>1, <4>1 DEF StageIndex, Base, Stages
    <3>2. CASE j # "PREFILL"
      <4>1. ~(c < PrefillCores)
        BY <1>1, <2>1, <3>2 DEF Base, Size
      <4> QED BY <3>2, <4>1 DEF StageIndex, Base, Stages
    <3> QED BY <3>1, <3>2
  <2>3. (c - Base(j)) % Stages(j) \in Int
    BY <1>3, <2>1
  <2> QED BY <1>3, <2>1, <2>2, <2>3 DEF Counts
<1>6. FirstCores(j) = [k \in 1..Size(j) \div Stages(j) |-> Base(j) + (k - 1) * Stages(j)]
  <2>1. CASE j = "PREFILL"
    <3>1. \A k \in 1..PrefillCores \div PrefillStages :
             (k - 1) * PrefillStages = 0 + (k - 1) * PrefillStages
      BY <1>1
    <3> QED BY <2>1, <3>1 DEF FirstCores, Size, Stages, Base
  <2>2. CASE j # "PREFILL"
    BY <2>2 DEF FirstCores, Size, Stages, Base
  <2> QED BY <2>1, <2>2
<1> QED BY <1>3, <1>4, <1>5, <1>6

\* Between its first and its last core, every core of a pipeline has a
\* predecessor and a successor.
LEMMA PipelineFacts ==
  ASSUME setup \in Setups, NEW j \in Jobs
  PROVE  /\ NumPipes(j) \in Nat /\ FirstCores(j) = [k \in 1..NumPipes(j) |-> FirstCores(j)[k]]
         /\ \A k \in 1..NumPipes(j) : FirstCores(j)[k] \in Begins(j) /\ LastOf(j, k) \in Ends(j)
         /\ \A k, m \in 1..NumPipes(j) : FirstCores(j)[k] = FirstCores(j)[m] => k = m
         /\ \A k, m \in 1..NumPipes(j) : LastOf(j, k) = LastOf(j, m) => k = m
         /\ \A c \in Begins(j) : \E k \in 1..NumPipes(j) : c = FirstCores(j)[k]
         /\ \A c \in Ends(j) : \E k \in 1..NumPipes(j) : c = LastOf(j, k)
         /\ \A c \in JobCores(j) \ Begins(j) : c - 1 \in JobCores(j) \ Ends(j)
         /\ \A c \in JobCores(j) \ Ends(j) : c + 1 \in JobCores(j) \ Begins(j)
<1> DEFINE D == Stages(j)
           N == Size(j)
           b == Base(j)
<1>1. /\ b \in Nat /\ N \in Nat /\ D \in Nat \ {0} /\ N % D = 0
      /\ JobCores(j) = b..b + N - 1
      /\ \A c \in JobCores(j) : StageIndex(c) = ((c - b) % D) + 1 /\ (Counts(c) <=> (c - b) % D = D - 1)
      /\ FirstCores(j) = [k \in 1..N \div D |-> b + (k - 1) * D]
  BY JobLayout
<1> HIDE DEF D, N, b
<1>2a. PICK m \in Nat : Pipelined(D, N, m)
  BY <1>1, Pipelining
<1>2. /\ m = N \div D /\ N = m * D
      /\ \A k \in 0..m-1 : /\ k * D \in 0..N-1 /\ (k * D) % D = 0 /\ (k * D) \div D = k
                           /\ k * D + D - 1 \in 0..N-1 /\ (k * D + D - 1) % D = D - 1
      /\ \A c \in 0..N-1 :
           /\ c % D \in 0..D-1
           /\ c % D = 0 => \E k \in 0..m-1 : c = k * D
           /\ c % D = D - 1 => \E k \in 0..m-1 : c = k * D + D - 1
           /\ c % D # 0 => c - 1 \in 0..N-1 /\ (c - 1) % D = (c % D) - 1
           /\ c % D # D - 1 => c + 1 \in 0..N-1 /\ (c + 1) % D = (c % D) + 1
  BY <1>2a DEF Pipelined
<1>3. /\ NumPipes(j) = m /\ \A k \in 1..m : FirstCores(j)[k] = b + (k - 1) * D
      /\ FirstCores(j) = [k \in 1..m |-> FirstCores(j)[k]]
  BY <1>1, <1>2 DEF NumPipes
<1>4. ASSUME NEW c \in JobCores(j)
      PROVE  /\ c - b \in 0..N-1 /\ c = b + (c - b)
             /\ c \in Begins(j) <=> (c - b) % D = 0
             /\ c \in Ends(j) <=> (c - b) % D = D - 1
  <2>0. c \in b..b + N - 1
    BY <1>1
  <2>1. c - b \in 0..N-1 /\ c = b + (c - b)
    BY <1>1, <2>0
  <2>2. (c - b) % D \in 0..D-1
    BY <1>2, <2>1
  <2>3. StageIndex(c) = 1 <=> (c - b) % D = 0
    BY <1>1, <2>2
  <2> QED BY <1>1, <2>1, <2>3 DEF Begins, Ends
<1>5. ASSUME NEW i \in 0..N-1 PROVE b + i \in JobCores(j) /\ (b + i) - b = i
  BY <1>1
<1>6. ASSUME NEW k \in 1..m PROVE FirstCores(j)[k] \in Begins(j) /\ LastOf(j, k) \in Ends(j)
  <2>1. k - 1 \in 0..m-1
    OBVIOUS
  <2> DEFINE i == (k - 1) * D
  <2>2. i \in 0..N-1 /\ i % D = 0 /\ i + D - 1 \in 0..N-1 /\ (i + D - 1) % D = D - 1
    BY <1>2, <2>1
  <2>3. FirstCores(j)[k] = b + i
    BY <1>3
  <2> HIDE DEF i
  <2>4. b + i \in Begins(j)
    BY <1>4, <1>5, <2>2
  <2>5. LastOf(j, k) = b + (i + D - 1)
    BY <1>1, <2>2, <2>3 DEF LastOf, D
  <2>6. b + (i + D - 1) \in Ends(j)
    BY <1>4, <1>5, <2>2
  <2> QED BY <2>3, <2>4, <2>5, <2>6
<1>7. ASSUME NEW k \in 1..m, NEW l \in 1..m, (k - 1) * D = (l - 1) * D PROVE k = l
  <2>1. k - 1 \in 0..m-1 /\ l - 1 \in 0..m-1
    OBVIOUS
  <2>2. ((k - 1) * D) \div D = k - 1 /\ ((l - 1) * D) \div D = l - 1
    BY <1>2, <2>1
  <2>3. k - 1 = l - 1
    BY <1>7, <2>2
  <2> QED BY <2>3
<1>8. ASSUME NEW k \in 1..m PROVE (k - 1) * D \in Nat
  BY <1>1
<1>9. ASSUME NEW k \in 1..m, NEW l \in 1..m
      PROVE  /\ FirstCores(j)[k] = FirstCores(j)[l] => k = l
             /\ LastOf(j, k) = LastOf(j, l) => k = l
  <2>1. FirstCores(j)[k] = b + (k - 1) * D /\ FirstCores(j)[l] = b + (l - 1) * D
    BY <1>3
  <2> DEFINE x == (k - 1) * D
             y == (l - 1) * D
  <2>2. x \in Nat /\ y \in Nat
    BY <1>8
  <2>3. x = y => k = l
    BY <1>7
  <2>4. LastOf(j, k) = b + x + D - 1 /\ LastOf(j, l) = b + y + D - 1
    BY <2>1 DEF LastOf, D
  <2> HIDE DEF x, y
  <2>5. b + x = b + y => x = y
    BY <1>1, <2>2
  <2>6. b + x + D - 1 = b + y + D - 1 => x = y
    BY <1>1, <2>2
  <2> QED BY <2>1, <2>3, <2>4, <2>5, <2>6 DEF x, y
<1>10. ASSUME NEW c \in Begins(j) PROVE \E k \in 1..m : c = FirstCores(j)[k]
  <2>1. c \in JobCores(j)
    BY DEF Begins
  <2>2. PICK k \in 0..m-1 : c - b = k * D
    BY <1>2, <1>4, <2>1
  <2>3. k + 1 \in 1..m /\ (k + 1) - 1 = k
    OBVIOUS
  <2>4. FirstCores(j)[k + 1] = b + k * D
    BY <1>3, <2>3
  <2> QED BY <1>4, <2>1, <2>2, <2>3, <2>4
<1>11. ASSUME NEW c \in Ends(j) PROVE \E k \in 1..m : c = LastOf(j, k)
  <2>1. c \in JobCores(j)
    BY DEF Ends
  <2>2. PICK k \in 0..m-1 : c - b = k * D + D - 1
    BY <1>2, <1>4, <2>1
  <2>3. k + 1 \in 1..m /\ (k + 1) - 1 = k
    OBVIOUS
  <2>4. FirstCores(j)[k + 1] = b + k * D
    BY <1>3, <2>3
  <2>5. k * D \in Nat
    BY <1>1
  <2>6. LastOf(j, k + 1) = b + (k * D + D - 1)
    BY <1>1, <2>4, <2>5 DEF LastOf, D
  <2> QED BY <1>4, <2>1, <2>2, <2>3, <2>6
<1>12. ASSUME NEW c \in JobCores(j) \ Begins(j) PROVE c - 1 \in JobCores(j) \ Ends(j)
  <2> DEFINE i == c - b
  <2>1. i \in 0..N-1 /\ c = b + i /\ i % D # 0
    BY <1>4
  <2>2. i - 1 \in 0..N-1 /\ (i - 1) % D = (i % D) - 1 /\ i % D \in 0..D-1
    BY <1>2, <2>1
  <2> HIDE DEF i
  <2>3. c - 1 = b + (i - 1)
    BY <1>1, <2>1
  <2>4. c - 1 \in JobCores(j) /\ (c - 1) - b = i - 1
    BY <1>5, <2>2, <2>3
  <2>5. (i - 1) % D # D - 1
    BY <1>1, <2>2
  <2> QED BY <1>4, <2>4, <2>5
<1>13. ASSUME NEW c \in JobCores(j) \ Ends(j) PROVE c + 1 \in JobCores(j) \ Begins(j)
  <2> DEFINE i == c - b
  <2>1. i \in 0..N-1 /\ c = b + i /\ i % D # D - 1
    BY <1>4
  <2>2. i + 1 \in 0..N-1 /\ (i + 1) % D = (i % D) + 1 /\ i % D \in 0..D-1
    BY <1>2, <2>1
  <2> HIDE DEF i
  <2>3. c + 1 = b + (i + 1)
    BY <1>1, <2>1
  <2>4. c + 1 \in JobCores(j) /\ (c + 1) - b = i + 1
    BY <1>5, <2>2, <2>3
  <2>5. (i + 1) % D # 0
    BY <1>1, <2>2
  <2> QED BY <1>4, <2>4, <2>5
<1> HIDE DEF D, N, b
<1> QED BY <1>3, <1>6, <1>9, <1>10, <1>11, <1>12, <1>13

\* The waiting list of a pipeline that decodes.
LEMMA PipeFacts ==
  ASSUME setup \in Setups, NEW j \in Jobs, j # "PREFILL"
  PROVE  /\ IsFiniteSet(Pipes)
         /\ \A k \in 1..NumPipes(j) : k - 1 \in Pipes /\ PipeOf(FirstCores(j)[k]) = k - 1
         /\ \A g \in Pipes : g + 1 \in 1..NumPipes(j) /\ g \in Nat
<1> DEFINE D == Stages(j)
           N == Size(j)
           b == Base(j)
<1>1. /\ b \in Nat /\ N \in Nat /\ D \in Nat \ {0} /\ N % D = 0
      /\ FirstCores(j) = [k \in 1..N \div D |-> b + (k - 1) * D]
  BY JobLayout
<1>2. D = DecodeStages /\ N = DecodeCores /\ b = PrefillCores
  BY DEF Stages, Size, Base
<1> HIDE DEF D, N, b
<1>3a. PICK m \in Nat : Pipelined(D, N, m)
  BY <1>1, Pipelining
<1>3. m = N \div D /\ \A k \in 0..m-1 : k * D \in 0..N-1 /\ (k * D) \div D = k
  BY <1>3a DEF Pipelined
<1>4. NumPipes(j) = m /\ \A k \in 1..m : FirstCores(j)[k] = b + (k - 1) * D
  BY <1>1, <1>3 DEF NumPipes
<1>5. Pipes = 0..m-1
  BY <1>2, <1>3 DEF Pipes
<1>6. ASSUME NEW k \in 1..m PROVE k - 1 \in Pipes /\ PipeOf(FirstCores(j)[k]) = k - 1
  <2>1. k - 1 \in 0..m-1
    OBVIOUS
  <2>2. (k - 1) * D \in Nat /\ ((k - 1) * D) \div D = k - 1
    BY <1>3, <2>1
  <2>3. FirstCores(j)[k] - PrefillCores = (k - 1) * D
    BY <1>1, <1>2, <1>4, <2>2
  <2> QED BY <1>2, <1>5, <2>1, <2>2, <2>3 DEF PipeOf
<1>7. IsFiniteSet(Pipes)
  BY <1>5, FS_Interval
<1> QED BY <1>4, <1>5, <1>6, <1>7
-----------------------------------------------------------------------------
(* What an iteration moves along the pipelines.                            *)

\* batchInfo of all cores.
Batches == [Cores -> Seq(StageType)]

\* What the first cores of a job take, and what is in its last cores.
Taken(j, picks) == [k \in 1..NumPipes(j) |-> picks[FirstCores(j)[k]]]
Ending(j) == [k \in 1..NumPipes(j) |-> batch[LastOf(j, k)]]

\* The batches of a job are those of its last cores and the others.
LEMMA EndCopies ==
  ASSUME setup \in Setups, NEW j \in Jobs, batch \in Batches, NEW x
  PROVE  /\ Copies(x, batch, JobCores(j)) =
              Copies(x, Ending(j), 1..NumPipes(j)) + Copies(x, batch, JobCores(j) \ Ends(j))
         /\ Copies(x, batch, JobCores(j) \ Ends(j)) \in Nat
         /\ Copies(x, Ending(j), 1..NumPipes(j)) \in Nat
<1> DEFINE n == NumPipes(j)
           C == JobCores(j)
           E == Ends(j)
           q == Ending(j)
           h == [k \in 1..n |-> LastOf(j, k)]
<1>0. n \in Nat
  BY PipelineFacts
<1>1. n \in Nat /\ IsFiniteSet(1..n)
  BY <1>0, FS_Interval
<1>2. C \subseteq Cores /\ IsFiniteSet(C) /\ E \in SUBSET C
  BY SetupFacts DEF Ends
<1>3. \A k \in 1..n : LastOf(j, k) \in E
  BY PipelineFacts
<1>4. IsFiniteSet(E) /\ IsFiniteSet(C \ E)
  BY <1>2, FS_Subset
<1>5. \A k \in C : batch[k] \in Seq(StageType)
  BY <1>2 DEF Batches
<1>6. \A k \in 1..n : q[k] = batch[LastOf(j, k)] /\ q[k] \in Seq(StageType)
  BY <1>2, <1>3, <1>5 DEF Ending
<1>7. Renames(h, 1..n, E)
  BY <1>3, PipelineFacts DEF Renames
<1>8. \A k \in 1..n : Occurrences(x, batch[h[k]]) = Occurrences(x, q[k])
  BY <1>6
<1> HIDE DEF n, C, E, q, h
<1>9. Copies(x, q, 1..n) = Copies(x, batch, E)
  <2> DEFINE S == 1..n
  <2>1. /\ IsFiniteSet(S) /\ Renames(h, S, E)
        /\ \A k \in S : q[k] \in Seq(StageType)
        /\ \A k \in S : Occurrences(x, batch[h[k]]) = Occurrences(x, q[k])
    BY <1>1, <1>6, <1>7, <1>8
  <2> HIDE DEF S
  <2>2. Copies(x, q, S) = Copies(x, batch, E)
    BY <2>1, CopiesReindex
  <2> QED BY <2>2 DEF S
<1>10. Copies(x, batch, C) = Copies(x, batch, E) + Copies(x, batch, C \ E)
  BY <1>2, <1>5, CopiesSplit
<1>11. Copies(x, q, 1..n) \in Nat
  BY <1>1, <1>6, CopiesNat
<1>12. Copies(x, batch, C \ E) \in Nat
  <2>1. \A k \in C \ E : batch[k] \in Seq(StageType)
    BY <1>5
  <2> QED BY <1>4, <2>1, CopiesNat
<1> QED BY <1>9, <1>10, <1>11, <1>12 DEF n, C, E, q

\* In a new iteration every batch but those of the last cores moves on by one core.
LEMMA ShiftCopies ==
  ASSUME setup \in Setups, NEW j \in Jobs, batch \in Batches, NEW picks, NEW x,
         \A k \in 1..NumPipes(j) : picks[FirstCores(j)[k]] \in Seq(StageType)
  PROVE  /\ Copies(x, NewBatches(j, picks), JobCores(j)) =
              Copies(x, Taken(j, picks), 1..NumPipes(j)) + Copies(x, batch, JobCores(j) \ Ends(j))
         /\ Copies(x, Taken(j, picks), 1..NumPipes(j)) \in Nat
<1> DEFINE n == NumPipes(j)
           C == JobCores(j)
           B == Begins(j)
           E == Ends(j)
           q == Taken(j, picks)
           new == NewBatches(j, picks)
           h == [k \in 1..n |-> FirstCores(j)[k]]
           s == [c \in C \ E |-> c + 1]
<1>0. n \in Nat
  BY PipelineFacts
<1>1. n \in Nat /\ IsFiniteSet(1..n)
  BY <1>0, FS_Interval
<1>2. /\ C \subseteq Cores /\ IsFiniteSet(C) /\ B \in SUBSET C /\ E \in SUBSET C
      /\ \A c \in C : JobOf(c) = j
  BY SetupFacts DEF Ends, Begins
<1>2a. C \subseteq Int
  <2>1. Cores \subseteq Int
    BY PdAssumption DEF Cores, PrefillCores, DecodeCores
  <2> QED BY <1>2, <2>1
<1>3. \A k \in 1..n : FirstCores(j)[k] \in B
  BY PipelineFacts
<1>4. IsFiniteSet(C \ E)
  BY <1>2, FS_Subset
<1>5. /\ \A c \in B : new[c] = picks[c]
      /\ \A c \in C \ B : new[c] = batch[c - 1]
  BY <1>2 DEF NewBatches, PredecessorBatch, Begins
<1>6. \A k \in 1..n : q[k] = picks[FirstCores(j)[k]] /\ q[k] \in Seq(StageType)
  BY DEF Taken
<1>7. Renames(h, 1..n, B)
  BY <1>3, PipelineFacts DEF Renames
<1>8. \A k \in 1..n : Occurrences(x, new[h[k]]) = Occurrences(x, q[k])
  BY <1>3, <1>5, <1>6
<1>9. Renames(s, C \ E, C \ B)
  <2>1. ASSUME NEW c \in C \ E, NEW d \in C \ E, s[c] = s[d] PROVE c = d
    <3>1. c \in Int /\ d \in Int /\ c + 1 = d + 1
      BY <1>2a, <2>1
    <3> QED BY <3>1
  <2>2. ASSUME NEW c \in C \ E PROVE s[c] \in C \ B
    BY PipelineFacts
  <2>3. ASSUME NEW d \in C \ B PROVE \E c \in C \ E : d = s[c]
    <3>1. d - 1 \in C \ E /\ d \in Int
      BY <1>2a, PipelineFacts
    <3>2. s[d - 1] = d
      BY <3>1
    <3> HIDE DEF s, C, E
    <3> QED BY <3>1, <3>2
  <2> HIDE DEF s, C, E, B
  <2> QED BY <2>1, <2>2, <2>3 DEF Renames
<1>10. \A c \in C \ E : Occurrences(x, new[s[c]]) = Occurrences(x, batch[c])
  <2> TAKE c \in C \ E
  <2>1. c + 1 \in C \ B /\ c \in Int /\ (c + 1) - 1 = c
    BY <1>2a, PipelineFacts
  <2>2. new[c + 1] = batch[c]
    BY <1>5, <2>1
  <2> HIDE DEF new
  <2> QED BY <2>2
<1>11. \A k \in C : batch[k] \in Seq(StageType)
  BY <1>2 DEF Batches
<1>12. \A c \in C : new[c] \in Seq(StageType)
  <2> TAKE c \in C
  <2>1. CASE c \in B
    <3>1. PICK k \in 1..n : c = FirstCores(j)[k]
      BY <2>1, PipelineFacts
    <3> HIDE DEF new
    <3> QED BY <1>5, <2>1, <3>1
  <2>2. CASE c \notin B
    <3>1. c - 1 \in C
      BY <2>2, PipelineFacts
    <3> HIDE DEF new
    <3> QED BY <1>5, <1>11, <2>2, <3>1
  <2> QED BY <2>1, <2>2
<1> HIDE DEF n, C, B, E, q, new, h, s
<1>13. Copies(x, q, 1..n) = Copies(x, new, B)
  <2> DEFINE S == 1..n
  <2>1. /\ IsFiniteSet(S) /\ Renames(h, S, B)
        /\ \A k \in S : q[k] \in Seq(StageType)
        /\ \A k \in S : Occurrences(x, new[h[k]]) = Occurrences(x, q[k])
    BY <1>1, <1>6, <1>7, <1>8
  <2> HIDE DEF S
  <2>2. Copies(x, q, S) = Copies(x, new, B)
    BY <2>1, CopiesReindex
  <2> QED BY <2>2 DEF S
<1>14. Copies(x, batch, C \ E) = Copies(x, new, C \ B)
  <2>1. \A k \in C \ E : batch[k] \in Seq(StageType)
    BY <1>11
  <2> QED BY <1>4, <1>9, <1>10, <2>1, CopiesReindex
<1>15. Copies(x, new, C) = Copies(x, new, B) + Copies(x, new, C \ B)
  BY <1>2, <1>12, CopiesSplit
<1>16. Copies(x, q, 1..n) \in Nat
  BY <1>1, <1>6, CopiesNat
<1> QED BY <1>13, <1>14, <1>15, <1>16 DEF n, C, E, q, new
-----------------------------------------------------------------------------
(* Stages and the set-up.                                                  *)

\* A chunk of a prompt and a decode in a batch.
Chunk(r) == [req |-> r, type |-> "PREFILL"]
Decoding(r) == [req |-> r, type |-> "DECODE"]

\* What a set-up fixes of the schedule.
LEMMA SetupNumbers ==
  ASSUME setup \in Setups
  PROVE  /\ PrefillIters \in Nat \ {0} /\ DecodeIters \in Nat \ {0}
         /\ CoreCredit \in Nat \ {0} /\ setup.ratio \in Nat \ {0} /\ setup.prims \in Nat \ {0}
         /\ ~Mixed => setup.prims = 1
         /\ Reqs \subseteq Nat
         /\ Credit = CoreCredit
BY PdAssumption DEF PrefillIters, DecodeIters, CoreCredit, Mixed, Reqs, Credit

\* The cores that decode and those that prefill are those of a job.
LEMMA Sides ==
  ASSUME setup \in Setups
  PROVE  /\ IsFiniteSet(DecodeSide) /\ DecodeSide \subseteq Cores
         /\ IsFiniteSet(PrefillSide) /\ PrefillSide \subseteq Cores
         /\ \A j \in Jobs : /\ j # "PREFILL" => DecodeSide = JobCores(j)
                            /\ j # "DECODE" => PrefillSide = JobCores(j)
                            /\ j = "PREFILL" => JobCores(j) \cap DecodeSide = {}
                            /\ j = "DECODE" => JobCores(j) \cap PrefillSide = {}
<1>1. IsFiniteSet(Cores)
  BY SetupFacts
<1>2. DecodeSide \subseteq Cores /\ PrefillSide \subseteq Cores
  BY DEF DecodeSide, PrefillSide
<1>3. IsFiniteSet(DecodeSide) /\ IsFiniteSet(PrefillSide)
  BY <1>1, <1>2, FS_Subset
<1>4. ASSUME NEW j \in Jobs
      PROVE  /\ j # "PREFILL" => DecodeSide = JobCores(j)
             /\ j # "DECODE" => PrefillSide = JobCores(j)
             /\ j = "PREFILL" => JobCores(j) \cap DecodeSide = {}
             /\ j = "DECODE" => JobCores(j) \cap PrefillSide = {}
  <2>1. CASE Mixed
    BY <2>1 DEF Jobs, JobOf, JobCores, DecodeSide, PrefillSide
  <2>2. CASE ~Mixed
    BY <2>2 DEF Jobs, JobOf, JobCores, DecodeSide, PrefillSide
  <2> QED BY <2>1, <2>2
<1> QED BY <1>2, <1>3, <1>4
-----------------------------------------------------------------------------
(* The credit of a batch.                                                  *)

\* The types of the stages of a batch, and its chunks.
TypesOf(b) == [i \in 1..Len(b) |-> b[i].type]
ChunksIn(b) == Occurrences("PREFILL", TypesOf(b))

\* A batch has at most as many chunks as stages.
LEMMA ChunksInFacts ==
  ASSUME NEW b \in Seq(StageType)
  PROVE  /\ TypesOf(b) \in Seq(Phases) /\ Len(TypesOf(b)) = Len(b)
         /\ ChunksIn(b) \in Nat /\ ChunksIn(b) <= Len(b)
         /\ \A i \in 1..Len(b) : TypesOf(b)[i] = b[i].type
<1>1. \A i \in 1..Len(b) : b[i].type \in Phases
  <2>1. \A i \in 1..Len(b) : b[i] \in StageType
    OBVIOUS
  <2> QED BY <2>1 DEF StageType
<1>2. TypesOf(b) \in Seq(Phases) /\ Len(TypesOf(b)) = Len(b)
  BY <1>1 DEF TypesOf
<1>3. ChunksIn(b) \in Nat
  BY <1>2, OccNat DEF ChunksIn
<1>4. ChunksIn(b) <= Len(b)
  <2> DEFINE A == {i \in DOMAIN TypesOf(b) : TypesOf(b)[i] = "PREFILL"}
  <2>1. A \subseteq 1..Len(b) /\ Len(b) \in Nat
    BY DEF TypesOf
  <2>2. IsFiniteSet(1..Len(b)) /\ Cardinality(1..Len(b)) = Len(b)
    <3> DEFINE n == Len(b)
    <3> HIDE DEF n
    <3>1. n \in Nat
      BY <2>1 DEF n
    <3>2. IsFiniteSet(1..n) /\ Cardinality(1..n) = n
      BY <3>1, FS_Interval
    <3> QED BY <3>2 DEF n
  <2>3. Cardinality(A) <= Cardinality(1..Len(b))
    BY <2>1, <2>2, FS_Subset
  <2> QED BY <2>2, <2>3 DEF ChunksIn, Occurrences
<1> QED BY <1>2, <1>3, <1>4 DEF TypesOf

\* The credit of a batch, in terms of its chunks.
LEMMA CreditValue ==
  ASSUME NEW b \in Seq(StageType), NEW j, setup \in Setups
  PROVE  /\ j = "PREFILL" => CreditOf(j, b) = Len(b) * CoreCredit
         /\ j # "PREFILL" => CreditOf(j, b) = Len(b) - ChunksIn(b) + ChunksIn(b) * setup.ratio
BY DEF CreditOf, ChunksIn, TypesOf

\* A core that only prefills takes at most one prompt.
LEMMA CreditOfPrefill ==
  ASSUME NEW b \in Seq(StageType), setup \in Setups
  PROVE  CreditOf("PREFILL", b) <= CoreCredit <=> Len(b) <= 1
<1>1. CreditOf("PREFILL", b) = Len(b) * CoreCredit /\ CoreCredit \in Nat \ {0} /\ Len(b) \in Nat
  BY CreditValue, SetupNumbers
<1>2. ASSUME NEW n \in Nat, NEW d \in Nat \ {0} PROVE n * d <= d <=> n <= 1
  <2>1. CASE n <= 1
    BY <2>1
  <2>2. CASE n > 1
    <3>1. n * d = d + (n - 1) * d
      OBVIOUS
    <3>2. (n - 1) * d >= d
      <4>1. PICK m \in Nat : n - 1 = m + 1
        <5>1. n - 1 = (n - 2) + 1 /\ n - 2 \in Nat
          BY <2>2
        <5> QED BY <5>1
      <4>2. (m + 1) * d = m * d + d /\ m * d \in Nat
        OBVIOUS
      <4> QED BY <4>1, <4>2
    <3>3. (n - 1) * d \in Int /\ n * d \in Int
      OBVIOUS
    <3> QED BY <2>2, <3>1, <3>2, <3>3
  <2> QED BY <2>1, <2>2
<1> QED BY <1>1, <1>2

\* Decodes take one credit each.
LEMMA CreditOfDecodes ==
  ASSUME NEW b \in Seq([req : Reqs, type : {"DECODE"}]), NEW j, j # "PREFILL", setup \in Setups
  PROVE  b \in Seq(StageType) /\ CreditOf(j, b) = Len(b)
<1>1. /\ b \in Seq(StageType) /\ \A i \in 1..Len(b) : b[i].type = "DECODE"
  <2> DEFINE T == [req : Reqs, type : {"DECODE"}]
  <2>1. T \subseteq StageType /\ \A s \in T : s.type = "DECODE"
    BY DEF StageType, Phases
  <2>2. b \in Seq(T)
    OBVIOUS
  <2> HIDE DEF T
  <2> QED BY <2>1, <2>2
<1>2. ChunksIn(b) = 0
  <2>1. \A i \in 1..Len(TypesOf(b)) : TypesOf(b)[i] # "PREFILL"
    BY <1>1, ChunksInFacts
  <2> QED BY <1>1, <2>1, ChunksInFacts, OccNone DEF ChunksIn
<1> QED BY <1>1, <1>2, CreditValue, SetupNumbers

\* One more chunk.
LEMMA CreditOfChunk ==
  ASSUME NEW b \in Seq(StageType), NEW j, j # "PREFILL", NEW r \in Reqs, setup \in Setups
  PROVE  CreditOf(j, Append(b, Chunk(r))) = CreditOf(j, b) + setup.ratio
<1> DEFINE d == Append(b, Chunk(r))
<1>1. d \in Seq(StageType) /\ Len(d) = Len(b) + 1 /\ Len(b) \in Nat
  BY DEF StageType, Chunk, Phases
<1>2. ChunksIn(b) \in Nat /\ setup.ratio \in Nat
  BY ChunksInFacts, SetupNumbers
<1>3. ChunksIn(d) = ChunksIn(b) + 1
  <2>1. TypesOf(d) = Append(TypesOf(b), "PREFILL")
    <3>1. DOMAIN TypesOf(d) = 1..Len(b) + 1 /\ TypesOf(b) \in Seq(Phases) /\ Len(TypesOf(b)) = Len(b)
      BY <1>1, ChunksInFacts DEF TypesOf
    <3>2. TypesOf(d) \in Seq(Phases) /\ Len(TypesOf(d)) = Len(b) + 1
      BY <1>1, ChunksInFacts
    <3>3. \A i \in 1..Len(b) : TypesOf(d)[i] = TypesOf(b)[i]
      <4> TAKE i \in 1..Len(b)
      <4>1. d[i] = b[i]
        OBVIOUS
      <4> HIDE DEF d
      <4>2. i \in 1..Len(d)
        BY <1>1
      <4>3. TypesOf(d)[i] = d[i].type
        BY <1>1, <4>2, ChunksInFacts
      <4>4. TypesOf(b)[i] = b[i].type
        BY ChunksInFacts
      <4> QED BY <4>1, <4>3, <4>4
    <3>4. TypesOf(d)[Len(b) + 1] = "PREFILL"
      <4>1. d[Len(b) + 1] = Chunk(r)
        OBVIOUS
      <4> HIDE DEF d
      <4>2. Len(b) + 1 \in 1..Len(d)
        BY <1>1
      <4>3. TypesOf(d)[Len(b) + 1] = d[Len(b) + 1].type
        BY <1>1, <4>2, ChunksInFacts
      <4> QED BY <4>1, <4>3 DEF Chunk
    <3> HIDE DEF d
    <3> QED BY <3>1, <3>2, <3>3, <3>4
  <2>2. TypesOf(b) \in Seq(Phases)
    BY ChunksInFacts
  <2> HIDE DEF d
  <2> QED BY <2>1, <2>2, OccAppend DEF ChunksIn
<1> DEFINE k == ChunksIn(b)
           p == setup.ratio
<1>4. (k + 1) * p = k * p + p /\ k * p \in Nat
  BY <1>2
<1>5. CreditOf(j, d) = Len(b) + 1 - (k + 1) + (k + 1) * p
  <2> HIDE DEF d
  <2>1. CreditOf(j, d) = Len(d) - ChunksIn(d) + ChunksIn(d) * setup.ratio
    BY <1>1, CreditValue
  <2> QED BY <1>1, <1>2, <1>3, <2>1
<1>6. CreditOf(j, b) = Len(b) - k + k * p
  BY CreditValue
<1> DEFINE m == k * p
<1> HIDE DEF k, p, m
<1>7. CreditOf(j, d) = Len(b) + 1 - (k + 1) + (m + p) /\ CreditOf(j, b) = Len(b) - k + m
  BY <1>4, <1>5, <1>6 DEF m
<1>8. k \in Nat /\ p \in Nat /\ m \in Nat
  BY <1>2, <1>4 DEF k, p, m
<1>9. CreditOf(j, d) = CreditOf(j, b) + p
  <2> HIDE DEF d
  <2> QED BY <1>1, <1>7, <1>8
<1> QED BY <1>9 DEF p

\* A stage that is counted does not cost more than before.
LEMMA CreditOfOutcome ==
  ASSUME NEW b \in Seq(StageType), NEW j, setup \in Setups, NEW i \in 1..Len(b),
         NEW t \in Phases, t # "PREFILL"
  PROVE  /\ [b EXCEPT ![i].type = t] \in Seq(StageType)
         /\ CreditOf(j, [b EXCEPT ![i].type = t]) <= CreditOf(j, b)
<1> DEFINE d == [b EXCEPT ![i].type = t]
<1>0. /\ Len(b) \in Nat /\ DOMAIN b = 1..Len(b) /\ \A m \in 1..Len(b) : b[m] \in StageType
      /\ i \in DOMAIN b
  OBVIOUS
<1>1. /\ d = [m \in 1..Len(b) |-> d[m]] /\ \A m \in 1..Len(b) : m # i => d[m] = b[m]
      /\ d[i] = [b[i] EXCEPT !.type = t]
  BY <1>0
<1>2. d[i] \in StageType /\ d[i].type = t
  BY <1>0, <1>1 DEF StageType
<1>3. \A m \in 1..Len(b) : d[m] \in StageType
  BY <1>0, <1>1, <1>2
<1> HIDE DEF d
<1>4. d \in Seq(StageType) /\ Len(d) = Len(b)
  BY <1>0, <1>1, <1>3
<1>5. TypesOf(d) = [TypesOf(b) EXCEPT ![i] = t]
  <2>1. \A m \in 1..Len(b) : d[m].type = IF m = i THEN t ELSE b[m].type
    BY <1>1, <1>2
  <2> QED BY <1>4, <2>1 DEF TypesOf
<1>6. ChunksIn(d) = ChunksIn(b) - IF b[i].type = "PREFILL" THEN 1 ELSE 0
  <2>1. TypesOf(b) \in Seq(Phases) /\ i \in 1..Len(TypesOf(b)) /\ TypesOf(b)[i] = b[i].type
    BY ChunksInFacts
  <2>2. ChunksIn(d) = ChunksIn(b) - (IF TypesOf(b)[i] = "PREFILL" THEN 1 ELSE 0) + (IF t = "PREFILL" THEN 1 ELSE 0)
    <3> DEFINE s == TypesOf(b)
               u == TypesOf(d)
    <3>1. /\ s \in Seq(Phases) /\ i \in 1..Len(s) /\ u \in Seq(Phases) /\ Len(u) = Len(s)
          /\ \A m \in 1..Len(s) : m # i => u[m] = s[m]
          /\ u[i] = t
      BY <1>4, <1>5, <2>1, ChunksInFacts
    <3> HIDE DEF s, u
    <3>2. Occurrences("PREFILL", u) = Occurrences("PREFILL", s)
            - (IF s[i] = "PREFILL" THEN 1 ELSE 0) + (IF t = "PREFILL" THEN 1 ELSE 0)
      BY <3>1, OccUpdate
    <3> QED BY <3>2 DEF ChunksIn, s, u
  <2>3. ChunksIn(b) \in Nat
    BY ChunksInFacts
  <2> QED BY <2>1, <2>2, <2>3
<1>7. ChunksIn(b) \in Nat /\ ChunksIn(d) \in Nat
  BY <1>4, ChunksInFacts
<1>8. CASE j = "PREFILL"
  <2>1. CreditOf(j, d) = CreditOf(j, b) /\ CreditOf(j, b) = Len(b) * CoreCredit
    BY <1>4, <1>8, CreditValue
  <2>2. CreditOf(j, b) \in Int
    BY <1>0, <2>1, SetupNumbers
  <2> QED BY <1>4, <2>1, <2>2 DEF d
<1>9. CASE j # "PREFILL"
  <2> DEFINE k == ChunksIn(b)
             l == ChunksIn(d)
             p == setup.ratio
             u == k * p
             v == l * p
  <2>1. k \in Nat /\ l \in Nat /\ p \in Nat \ {0} /\ u \in Nat /\ v \in Nat
    BY <1>7, SetupNumbers
  <2>2. CreditOf(j, b) = Len(b) - k + u /\ CreditOf(j, d) = Len(b) - l + v
    BY <1>4, <1>9, CreditValue
  <2>3. l = k \/ l = k - 1
    BY <1>6, <1>7
  <2>4. l = k => v = u
    OBVIOUS
  <2>5. l = k - 1 => v = u - p
    BY <2>1
  <2> HIDE DEF k, l, p, u, v
  <2>6. CreditOf(j, d) <= CreditOf(j, b)
    BY <1>0, <2>1, <2>2, <2>3, <2>4, <2>5
  <2> QED BY <1>4, <2>6 DEF d
<1> QED BY <1>8, <1>9

\* The credit of a batch is a number.
LEMMA CreditInt ==
  ASSUME NEW b \in Seq(StageType), NEW j, setup \in Setups
  PROVE  CreditOf(j, b) \in Int
<1> DEFINE k == ChunksIn(b)
           p == setup.ratio
           u == k * p
           n == Len(b)
           v == n * CoreCredit
<1>1. k \in Nat /\ p \in Nat /\ n \in Nat /\ CoreCredit \in Nat
  BY ChunksInFacts, SetupNumbers
<1>2. u \in Int /\ v \in Int
  <2> HIDE DEF k, p, n
  <2> QED BY <1>1
<1>3. /\ j = "PREFILL" => CreditOf(j, b) = v
      /\ j # "PREFILL" => CreditOf(j, b) = n - k + u
  BY CreditValue
<1> HIDE DEF k, p, n, u, v
<1> QED BY <1>1, <1>2, <1>3
-----------------------------------------------------------------------------
(* The books of the scheduler.                                             *)

\* A request record.
Records == [phase : Phases, distribute : 0 .. PrefillIters,
            prefills : 0 .. PrefillIters, decodes : 0 .. DecodeIters]

\* The counters of a request in each of its phases.
Counters(q) ==
  /\ q.prefills <= q.distribute
  /\ q.phase = "UNTOUCHED" => q.distribute = 0
  /\ q.phase = "PREFILL" => q.prefills < PrefillIters
  /\ q.phase \in {"DECODE", "PD_DONE"} => q.prefills = PrefillIters
  /\ q.phase # "PD_DONE" => q.decodes < DecodeIters

\* The stages that a job is given, and what iter_done makes of them.
Work(j) == IF j = "PREFILL" THEN {"PREFILL"}
           ELSE IF j = "DECODE" THEN {"DECODE"} ELSE {"PREFILL", "DECODE"}
Outcomes(j) == Work(j) \union (IF j = "PREFILL" THEN {"DECODE"} ELSE {"PD_DONE"})

\* A batch that iter_done has yet to count, and one that it has counted.
Loaded(b, j) ==
  /\ b \in Seq([req : Reqs, type : Work(j)])
  /\ CreditOf(j, b) <= CoreCredit
Settled(b, j, rq) ==
  /\ b \in Seq([req : Reqs, type : Outcomes(j)])
  /\ CreditOf(j, b) <= CoreCredit
  /\ j = "PREFILL" => \A i \in 1..Len(b) : b[i].type = "DECODE" => ~ChunksLeft(rq[b[i].req])
BatchOK(b, j, rq, u) == IF u THEN Loaded(b, j) ELSE Settled(b, j, rq)

\* The request records.
Recorded(rq) == rq \in [Reqs -> Records] /\ \A r \in Reqs : Counters(rq[r])

\* Every request that decodes, and no other, is in one place.
Placed(rq, bt, dq, il) ==
  \A r \in Reqs : Copies(Decoding(r), bt, DecodeSide) + Occurrences(r, dq) + Copies(r, il, Pipes) =
                    IF rq[r].phase = "DECODE" THEN 1 ELSE 0

\* The chunks on their way are those distributed and not counted.
Chunked(rq, held) ==
  \A r \in Reqs : rq[r].distribute - rq[r].prefills = Copies(Chunk(r), held, PrefillSide)

\* The prompts with chunks left are those in the queues of the pipelines.
Queued(rq, un) ==
  Mixed => \A r \in Reqs : Copies(r, un, Pipes) =
                             IF rq[r].phase = "PREFILL" /\ ChunksLeft(rq[r]) THEN 1 ELSE 0

\* The batches bt of which iter_done has yet to count those in u.
Held(bt, u) == [c \in Cores |-> IF u[c] THEN bt[c] ELSE <<>>]

\* The books of the scheduler.
Books(rq, bt, dq, il, un, u) ==
  /\ Recorded(rq)
  /\ bt \in Batches /\ \A c \in Cores : BatchOK(bt[c], JobOf(c), rq, u[c])
  /\ dq \in Seq(Reqs) /\ il \in [Pipes -> Seq(Reqs)] /\ un \in [Pipes -> Seq(Reqs)]
  /\ Placed(rq, bt, dq, il)
  /\ Chunked(rq, Held(bt, u))
  /\ Queued(rq, un)

\* The cores whose batches are to be counted.
Open == [c \in Cores |-> Uncounted(c)]

\* The flags of the threads.
Flags ==
  /\ arrived \subseteq Reqs
  /\ primIndex \in 0 .. setup.prims - 1
  /\ waitSchedule \in [Jobs -> BOOLEAN]
  /\ config \in {"wait", "prefill", "decode", "both", "chunks", "fill", "writing"}
  /\ start \in {"wait", "writing"} /\ helper \in {"wait", "sending"}
  /\ needTrigger \in BOOLEAN
  /\ pend \subseteq NowEvents \union CycleEvents

\* The invariant of the schedule.
ServeInv == Flags /\ Books(req, batch, reqDecode, idleDecode, unfinished, Open)

-----------------------------------------------------------------------------
\* A sequence over a smaller set.
LEMMA SeqSubset ==
  ASSUME NEW S, NEW T, S \subseteq T, NEW s \in Seq(S)
  PROVE  s \in Seq(T)
OBVIOUS

\* Stages of some types are stages.
LEMMA SomeStages ==
  ASSUME NEW T, T \subseteq Phases, NEW b \in Seq([req : Reqs, type : T])
  PROVE  /\ b \in Seq(StageType)
         /\ \A i \in 1..Len(b) : b[i] \in StageType /\ b[i].req \in Reqs /\ b[i].type \in T
<1> DEFINE S == [req : Reqs, type : T]
<1>1. S \subseteq StageType /\ \A s \in S : s.req \in Reqs /\ s.type \in T
  BY DEF StageType
<1>2. b \in Seq(S)
  OBVIOUS
<1> HIDE DEF S
<1>3. \A i \in 1..Len(b) : b[i] \in S
  BY <1>2
<1>4. b \in Seq(StageType)
  BY <1>1, <1>2, SeqSubset
<1> QED BY <1>1, <1>3, <1>4

\* A sequence of stages of which every one has a type in T.
LEMMA TypedStages ==
  ASSUME NEW T, NEW b \in Seq(StageType), \A i \in 1..Len(b) : b[i].type \in T
  PROVE  b \in Seq([req : Reqs, type : T])
<1> DEFINE S == [req : Reqs, type : T]
<1>1. \A s \in StageType : s.type \in T => s \in S
  BY DEF StageType
<1>2. \A i \in 1..Len(b) : b[i] \in StageType
  OBVIOUS
<1>3. \A i \in 1..Len(b) : b[i] \in S
  BY <1>1, <1>2
<1> HIDE DEF S
<1>4. b \in Seq(S)
  BY <1>3
<1> QED BY <1>4 DEF S

\* The batches of a job in one or the other state.
LEMMA BatchFacts ==
  ASSUME NEW b, NEW j, NEW rq
  PROVE  /\ Loaded(b, j) => b \in Seq(StageType) /\ Settled(b, j, rq)
         /\ Settled(b, j, rq) => b \in Seq(StageType)
         /\ Work(j) \subseteq Outcomes(j) /\ Outcomes(j) \subseteq Phases
<1>1. Work(j) \subseteq Outcomes(j) /\ Outcomes(j) \subseteq Phases /\ Work(j) \subseteq Phases
  BY DEF Work, Outcomes, Phases
<1>2. ASSUME Loaded(b, j) PROVE b \in Seq(StageType) /\ Settled(b, j, rq)
  <2>1. b \in Seq([req : Reqs, type : Work(j)])
    BY <1>2 DEF Loaded
  <2>2. b \in Seq(StageType) /\ \A i \in 1..Len(b) : b[i].type \in Work(j)
    BY <1>1, <2>1, SomeStages
  <2>3. b \in Seq([req : Reqs, type : Outcomes(j)])
    BY <1>1, <2>2, TypedStages
  <2>4. j = "PREFILL" => \A i \in 1..Len(b) : b[i].type # "DECODE"
    BY <2>2 DEF Work
  <2> QED BY <1>2, <2>2, <2>3, <2>4 DEF Loaded, Settled
<1>3. ASSUME Settled(b, j, rq) PROVE b \in Seq(StageType)
  <2>1. b \in Seq([req : Reqs, type : Outcomes(j)])
    BY <1>3 DEF Settled
  <2> QED BY <1>1, <2>1, SomeStages
<1> QED BY <1>1, <1>2, <1>3

\* An empty batch.
LEMMA EmptyLoaded ==
  ASSUME setup \in Setups, NEW j \in Jobs
  PROVE  Loaded(<<>>, j)
<1>1. <<>> \in Seq([req : Reqs, type : Work(j)]) /\ <<>> \in Seq(StageType) /\ Len(<<>>) = 0
  OBVIOUS
<1>2. CASE j = "PREFILL"
  <2> DEFINE b == <<>>
  <2>1. b \in Seq(StageType) /\ Len(b) = 0
    BY <1>1
  <2> HIDE DEF b
  <2>2. CreditOf("PREFILL", b) <= CoreCredit <=> Len(b) <= 1
    BY <2>1, CreditOfPrefill
  <2>3. CreditOf("PREFILL", b) <= CoreCredit
    BY <2>1, <2>2
  <2> QED BY <1>1, <1>2, <2>3 DEF Loaded, b
<1>3. CASE j # "PREFILL"
  <2>1. <<>> \in Seq([req : Reqs, type : {"DECODE"}])
    OBVIOUS
  <2>2. CreditOf(j, <<>>) = 0
    BY <1>1, <1>3, <2>1, CreditOfDecodes
  <2> QED BY <1>1, <2>2, SetupNumbers DEF Loaded
<1> QED BY <1>2, <1>3

\* A new iteration of a job: every core has a batch to work on.
LEMMA NewLoaded ==
  ASSUME setup \in Setups, NEW j \in Jobs, batch \in Batches, NEW picks,
         \A c \in JobCores(j) \ Ends(j) : Loaded(batch[c], j),
         \A k \in 1..NumPipes(j) : Loaded(picks[FirstCores(j)[k]], j)
  PROVE  /\ NewBatches(j, picks) \in Batches
         /\ \A c \in JobCores(j) : Loaded(NewBatches(j, picks)[c], j)
         /\ \A c \in Cores \ JobCores(j) : NewBatches(j, picks)[c] = batch[c]
<1> DEFINE new == NewBatches(j, picks)
           C == JobCores(j)
           B == Begins(j)
<1>1. C \subseteq Cores /\ B \subseteq C /\ \A c \in C : JobOf(c) = j
  BY SetupFacts DEF Begins
<1>2. /\ new = [c \in Cores |-> new[c]]
      /\ \A c \in B : new[c] = picks[c]
      /\ \A c \in C \ B : new[c] = batch[c - 1]
      /\ \A c \in Cores \ C : new[c] = batch[c]
  BY <1>1 DEF NewBatches, PredecessorBatch, Begins, JobCores
<1> HIDE DEF new
<1>3. ASSUME NEW c \in C PROVE Loaded(new[c], j)
  <2>1. CASE c \in B
    <3>1. PICK k \in 1..NumPipes(j) : c = FirstCores(j)[k]
      BY <2>1, PipelineFacts
    <3> QED BY <1>2, <2>1, <3>1
  <2>2. CASE c \notin B
    <3>1. c - 1 \in C \ Ends(j)
      BY <2>2, PipelineFacts
    <3> QED BY <1>2, <2>2, <3>1
  <2> QED BY <2>1, <2>2
<1>4. \A c \in Cores : new[c] \in Seq(StageType)
  BY <1>2, <1>3, BatchFacts DEF Batches
<1> HIDE DEF C, B
<1>5. new \in Batches
  BY <1>2, <1>4 DEF Batches
<1> QED BY <1>2, <1>3, <1>5 DEF new, C
-----------------------------------------------------------------------------
(* iter_start(JOB_PREFILL).                                                *)

\* A chunk of r is handed out.
Handed(rq, r) == [rq EXCEPT ![r].phase = "PREFILL", ![r].distribute = @ + 1]

\* r has a chunk left.
Available(rq, r) == ChunksLeft(rq[r]) /\ rq[r].phase \in {"UNTOUCHED", "PREFILL"}

\* It is counted as distributed.
LEMMA HandedFacts ==
  ASSUME setup \in Setups, NEW rq, Recorded(rq), NEW r \in Reqs, Available(rq, r)
  PROVE  /\ Recorded(Handed(rq, r))
         /\ \A p \in Reqs : /\ Handed(rq, r)[p].prefills = rq[p].prefills
                            /\ Handed(rq, r)[p].phase = "DECODE" <=> rq[p].phase = "DECODE"
                            /\ Handed(rq, r)[p].distribute =
                                 rq[p].distribute + (IF p = r THEN 1 ELSE 0)
                            /\ p # r => Handed(rq, r)[p] = rq[p]
         /\ Handed(rq, r)[r].phase = "PREFILL"
<1> DEFINE h == Handed(rq, r)
           q == rq[r]
<1>1. q \in Records /\ Counters(q) /\ rq \in [Reqs -> Records]
  BY DEF Recorded
<1>2. /\ h = [p \in Reqs |-> h[p]]
      /\ \A p \in Reqs : p # r => h[p] = rq[p]
      /\ h[r] = [q EXCEPT !.phase = "PREFILL", !.distribute = @ + 1]
  BY <1>1 DEF Handed
<1>3. /\ q.phase \in Phases /\ q.distribute \in Nat /\ q.distribute < PrefillIters
      /\ q.prefills \in 0..PrefillIters /\ q.decodes \in 0..DecodeIters
      /\ PrefillIters \in Nat /\ DecodeIters \in Nat
      /\ q = [phase |-> q.phase, distribute |-> q.distribute, prefills |-> q.prefills, decodes |-> q.decodes]
  BY <1>1, SetupNumbers DEF Records, Available, ChunksLeft
<1>4. h[r] = [phase |-> "PREFILL", distribute |-> q.distribute + 1, prefills |-> q.prefills, decodes |-> q.decodes]
  BY <1>2, <1>3
<1>5. q.prefills <= q.distribute /\ q.decodes < DecodeIters /\ q.phase # "DECODE"
  BY <1>1 DEF Counters, Available
<1> HIDE DEF h, q
<1>6. /\ h[r].phase = "PREFILL" /\ h[r].distribute = q.distribute + 1
      /\ h[r].prefills = q.prefills /\ h[r].decodes = q.decodes
  BY <1>4
<1>7. h[r] \in Records
  <2>1. q.distribute + 1 \in 0..PrefillIters /\ "PREFILL" \in Phases
    BY <1>3 DEF Phases
  <2> QED BY <1>3, <1>4, <2>1 DEF Records
<1>8. Counters(h[r])
  BY <1>3, <1>5, <1>6 DEF Counters
<1>9. ASSUME NEW p \in Reqs
      PROVE  /\ h[p] \in Records /\ Counters(h[p])
             /\ h[p].prefills = rq[p].prefills
             /\ h[p].phase = "DECODE" <=> rq[p].phase = "DECODE"
             /\ h[p].distribute = rq[p].distribute + (IF p = r THEN 1 ELSE 0)
  <2>1. CASE p = r
    BY <1>5, <1>6, <1>7, <1>8, <2>1 DEF q
  <2>2. CASE p # r
    <3>1. h[p] = rq[p] /\ rq[p] \in Records /\ Counters(rq[p])
      BY <1>2, <2>2 DEF Recorded
    <3>2. rq[p].distribute \in Int
      BY <3>1, SetupNumbers DEF Records
    <3> QED BY <2>2, <3>1, <3>2
  <2> QED BY <2>1, <2>2
<1>10. Recorded(h)
  BY <1>2, <1>9 DEF Recorded
<1> QED BY <1>2, <1>6, <1>9, <1>10 DEF h

\* A sequence of one.
LEMMA SingleSeq ==
  ASSUME NEW S, NEW s \in Seq(S), Len(s) = 1
  PROVE  s = <<s[1]>> /\ s[1] \in S
<1>1. 1 \in 1..Len(s) /\ DOMAIN s = 1..Len(s)
  OBVIOUS
<1>2. s[1] \in S
  BY <1>1
<1>3. s = <<s[1]>>
  <2> DEFINE t == <<s[1]>>
  <2>1. t \in Seq(S) /\ Len(t) = 1 /\ t[1] = s[1]
    BY <1>2
  <2> HIDE DEF t
  <2>2. \A i \in 1..Len(s) : t[i] = s[i]
    BY <2>1
  <2>3. t = s
    BY <2>1, <2>2
  <2> QED BY <2>3 DEF t
<1> QED BY <1>2, <1>3

\* A core gets the stages v, and the records become rq.
Given(st, c, rq, v) == [req |-> rq, picks |-> [st.picks EXCEPT ![c] = v]]

\* iter_start(JOB_PREFILL) gives a first core nothing, or one chunk of a prompt
\* that has one left.
LEMMA PickPrefillFacts ==
  ASSUME setup \in Setups, "PREFILL" \in Jobs, arrived \subseteq Reqs, NEW c \in Cores,
         NEW st, st = [req |-> st.req, picks |-> st.picks],
         Recorded(st.req), Settled(batch[c], "PREFILL", st.req)
  PROVE  \/ PickPrefill(st, c) = Given(st, c, st.req, <<>>)
         \/ \E r \in Reqs : /\ Available(st.req, r)
                            /\ PickPrefill(st, c) = Given(st, c, Handed(st.req, r), <<Chunk(r)>>)
<1> DEFINE rq == st.req
           P == {s \in StageType : ChunksLeft(st.req[s.req])}
           b == batch[c]
           kept == Among(b, P)
           open == {r \in Reqs : \/ st.req[r].phase = "PREFILL" /\ ChunksLeft(st.req[r])
                                 \/ st.req[r].phase = "UNTOUCHED" /\ r \in arrived}
           take(r, stages) ==
             [req   |-> [st.req EXCEPT ![r].phase = "PREFILL", ![r].distribute = @ + 1],
              picks |-> [st.picks EXCEPT ![c] = stages]]
<1>2. PickPrefill(st, c) = IF kept # <<>> THEN take(kept[1].req, kept)
                           ELSE IF open = {} THEN [st EXCEPT !.picks[c] = <<>>]
                           ELSE take(Min(open), <<[req |-> Min(open), type |-> "PREFILL"]>>)
  BY DEF PickPrefill
<1>3. [st EXCEPT !.picks[c] = <<>>] = Given(st, c, rq, <<>>)
  BY DEF Given
<1>4. \A r : \A stages : take(r, stages) = Given(st, c, Handed(rq, r), stages)
  BY DEF Handed, Given
<1>5. \A r \in open : r \in Reqs /\ Available(rq, r)
  <2> SUFFICES ASSUME NEW r \in open PROVE Available(rq, r)
    OBVIOUS
  <2>1. rq[r].phase = "UNTOUCHED" => rq[r].distribute = 0
    BY DEF Recorded, Counters
  <2> QED BY <2>1, SetupNumbers DEF Available, ChunksLeft
<1>6. open \subseteq Nat
  BY SetupNumbers
<1>7. /\ b \in Seq(StageType) /\ b \in Seq([req : Reqs, type : Outcomes("PREFILL")])
      /\ CreditOf("PREFILL", b) <= CoreCredit
      /\ \A i \in 1..Len(b) : b[i].type = "DECODE" => ~ChunksLeft(rq[b[i].req])
  BY BatchFacts DEF Settled
<1>8. Len(b) <= 1 /\ Len(b) \in Nat
  BY <1>7, CreditOfPrefill
<1>9. \A i \in 1..Len(b) : b[i] \in StageType /\ b[i].type \in {"PREFILL", "DECODE"}
  <2>1. Outcomes("PREFILL") = {"PREFILL", "DECODE"} /\ Outcomes("PREFILL") \subseteq Phases
    BY DEF Outcomes, Work, Phases
  <2> QED BY <1>7, <2>1, SomeStages
<1>10. \A s \in StageType : s \in P <=> ChunksLeft(rq[s.req])
  OBVIOUS
<1>11. kept \in Seq(StageType \cap P) /\ Len(kept) <= Len(b) /\ \A x \in P : Occurrences(x, kept) = Occurrences(x, b)
  BY <1>7, AmongFacts
<1> HIDE DEF rq, P, b, kept, open, take
<1>12. CASE kept # <<>>
  <2> DEFINE s == kept[1]
             r == s.req
  <2>1. Len(kept) \in Nat /\ Len(kept) # 0
    BY <1>11, <1>12
  <2>2. Len(kept) = 1 /\ Len(b) = 1
    <3>1. Len(kept) <= Len(b)
      BY <1>11
    <3> DEFINE x == Len(kept)
               y == Len(b)
    <3>2. x \in Nat /\ x # 0 /\ y \in Nat /\ y <= 1 /\ x <= y
      BY <1>8, <2>1, <3>1
    <3> HIDE DEF x, y
    <3>3. x = 1 /\ y = 1
      BY <3>2
    <3> QED BY <3>3 DEF x, y
  <2>3. kept = <<s>> /\ s \in StageType /\ s \in P
    <3>1. kept \in Seq(StageType \cap P)
      BY <1>11
    <3>2. s \in StageType \cap P /\ kept = <<s>>
      BY <2>2, <3>1, SingleSeq
    <3> QED BY <3>2
  <2>4. s = b[1]
    <3>1. Occurrences(s, kept) >= 1
      <4>1. 1 \in 1..Len(kept)
        BY <2>2
      <4> QED BY <1>11, <4>1, OccSome
    <3>2. Occurrences(s, b) >= 1
      BY <1>11, <2>3, <3>1
    <3>3. CASE s # b[1]
      <4>1. \A i \in 1..Len(b) : b[i] # s
        BY <2>2, <3>3
      <4>2. Occurrences(s, b) = 0
        BY <1>7, <4>1, OccNone
      <4> QED BY <3>2, <4>2
    <3> QED BY <3>3
  <2> HIDE DEF s
  <2>5. ChunksLeft(rq[r])
    BY <1>10, <2>3
  <2>6. s.type = "PREFILL"
    <3>1. 1 \in 1..Len(b)
      BY <2>2
    <3> QED BY <1>7, <1>9, <2>4, <2>5, <3>1
  <2>7. s = Chunk(r) /\ r \in Reqs
    BY <2>3, <2>6 DEF StageType, Chunk
  <2>8. Available(rq, r)
    <3>1. rq[r] \in Records /\ Counters(rq[r])
      BY <2>7 DEF Recorded, rq
    <3>2. rq[r].distribute < PrefillIters /\ rq[r].distribute \in Nat /\ PrefillIters \in Nat /\ rq[r].prefills \in Nat
      BY <2>5, <3>1, SetupNumbers DEF Records, ChunksLeft
    <3>3. rq[r].phase \notin {"DECODE", "PD_DONE"}
      BY <3>1, <3>2 DEF Counters
    <3> QED BY <2>5, <3>1, <3>3 DEF Available, Records, Phases
  <2>9. PickPrefill(st, c) = take(r, <<Chunk(r)>>)
    BY <1>2, <1>12, <2>3, <2>7 DEF s
  <2> HIDE DEF r
  <2> QED BY <1>4, <2>7, <2>8, <2>9 DEF rq
<1>13. CASE kept = <<>> /\ open = {}
  BY <1>2, <1>3, <1>13 DEF rq
<1>14. CASE kept = <<>> /\ open # {}
  <2> DEFINE r == Min(open)
  <2>1. r \in open
    BY <1>6, <1>14, MinFacts
  <2>2. PickPrefill(st, c) = take(r, <<Chunk(r)>>)
    BY <1>2, <1>14 DEF Chunk
  <2> HIDE DEF r
  <2> QED BY <1>4, <1>5, <2>1, <2>2 DEF rq
<1> QED BY <1>12, <1>13, <1>14

\* What the pipelines of a job hold when the first i of them have new picks.
HeldAfter(j, i, picks, q) ==
  [k \in 1..NumPipes(j) |-> IF k <= i THEN picks[FirstCores(j)[k]] ELSE q[k]]

\* The values of q at S are queues of stages; two maps of the cores that differ at
\* most at one.
StageQueues(q, S) == \A k \in S : q[k] \in Seq(StageType)
SameBut(c, new, old) == \A d \in Cores : d # c => new[d] = old[d]

\* The next pipeline gets new stages.
LEMMA HeldStep ==
  ASSUME setup \in Setups, NEW j \in Jobs, NEW i \in 1..NumPipes(j), NEW q, NEW x,
         StageQueues(q, 1..NumPipes(j)), NEW old \in Batches, NEW new \in Batches,
         SameBut(FirstCores(j)[i], new, old)
  PROVE  /\ Copies(x, HeldAfter(j, i, new, q), 1..NumPipes(j)) =
              Copies(x, HeldAfter(j, i - 1, old, q), 1..NumPipes(j))
                - Occurrences(x, q[i]) + Occurrences(x, new[FirstCores(j)[i]])
         /\ Copies(x, HeldAfter(j, i - 1, old, q), 1..NumPipes(j)) \in Nat
<1> DEFINE n == NumPipes(j)
           S == 1..n
           a == HeldAfter(j, i - 1, old, q)
           b == HeldAfter(j, i, new, q)
           f(k) == FirstCores(j)[k]
<1>0. n \in Nat
  BY PipelineFacts
<1>1. IsFiniteSet(S) /\ i \in S
  BY <1>0, FS_Interval
<1>2. \A k \in S : f(k) \in Cores
  BY PipelineFacts DEF Begins, JobCores
<1>3. \A k, m \in S : f(k) = f(m) => k = m
  BY PipelineFacts
<1>4. \A k \in S : k \in Int
  BY <1>0
<1>5. ASSUME NEW k \in S
      PROVE  /\ a[k] = (IF k <= i - 1 THEN old[f(k)] ELSE q[k])
             /\ b[k] = (IF k <= i THEN new[f(k)] ELSE q[k])
  BY DEF HeldAfter
<1> HIDE DEF S, a, b, f
<1>6. \A k \in S : old[f(k)] \in Seq(StageType) /\ new[f(k)] \in Seq(StageType) /\ q[k] \in Seq(StageType)
  BY <1>2 DEF Batches, S, StageQueues
<1>7. \A k \in S : a[k] \in Seq(StageType) /\ b[k] \in Seq(StageType)
  BY <1>5, <1>6
<1>8. \A k \in S : k # i => b[k] = a[k]
  <2> TAKE k \in S
  <2>1. k # i => (k <= i <=> k <= i - 1)
    BY <1>1, <1>4
  <2>2. k # i => new[f(k)] = old[f(k)]
    <3>1. k # i => f(k) # f(i)
      BY <1>1, <1>3
    <3> QED BY <1>2, <3>1 DEF f, SameBut
  <2> QED BY <1>5, <2>1, <2>2
<1>9. a[i] = q[i] /\ b[i] = new[f(i)]
  <2>1. i <= i /\ ~(i <= i - 1)
    BY <1>1, <1>4
  <2> QED BY <1>1, <1>5, <2>1
<1>10. Copies(x, b, S) = Copies(x, a, S) - Occurrences(x, a[i]) + Occurrences(x, b[i])
  <2> DEFINE m == i
  <2>1. m \in S /\ \A k \in S : k # m => Occurrences(x, b[k]) = Occurrences(x, a[k])
    BY <1>1, <1>8
  <2>a. IsFiniteSet(S)
    BY <1>1
  <2> HIDE DEF m
  <2>2. Copies(x, b, S) = Copies(x, a, S) - Occurrences(x, a[m]) + Occurrences(x, b[m])
    BY <1>7, <2>1, <2>a, CopiesUpdate
  <2> QED BY <2>2 DEF m
<1>11. Copies(x, a, S) \in Nat
  BY <1>1, <1>7, CopiesNat
<1> QED BY <1>9, <1>10, <1>11 DEF a, b, S, f

\* Before the first and after the last pipeline.
LEMMA HeldEnds ==
  ASSUME setup \in Setups, NEW j \in Jobs, NEW q, NEW picks, NEW x
  PROVE  /\ Copies(x, HeldAfter(j, 0, picks, q), 1..NumPipes(j)) = Copies(x, q, 1..NumPipes(j))
         /\ HeldAfter(j, NumPipes(j), picks, q) = Taken(j, picks)
<1> DEFINE n == NumPipes(j)
           S == 1..n
           a == HeldAfter(j, 0, picks, q)
<1>0. n \in Nat
  BY PipelineFacts
<1>1. IsFiniteSet(S)
  BY <1>0, FS_Interval
<1>2. \A k \in S : a[k] = q[k]
  BY <1>0 DEF HeldAfter
<1>3. HeldAfter(j, n, picks, q) = Taken(j, picks)
  BY <1>0 DEF HeldAfter, Taken
<1> HIDE DEF S, a
<1>4. Copies(x, a, S) = Copies(x, q, S)
  BY <1>1, <1>2, CopiesSame
<1> QED BY <1>3, <1>4 DEF S, a

\* The schedule of JOB_PREFILL hands out as many chunks as its pipelines take.
LEMMA PrefillPlanFacts ==
  ASSUME setup \in Setups, "PREFILL" \in Jobs, arrived \subseteq Reqs, batch \in Batches, Recorded(req),
         \A c \in Begins("PREFILL") : Settled(batch[c], "PREFILL", req)
  PROVE  /\ Recorded(PrefillPlan.req)
         /\ \A k \in 1..NumPipes("PREFILL") : Loaded(PrefillPlan.picks[FirstCores("PREFILL")[k]], "PREFILL")
         /\ \A r \in Reqs :
              /\ PrefillPlan.req[r].prefills = req[r].prefills
              /\ PrefillPlan.req[r].phase = "DECODE" <=> req[r].phase = "DECODE"
              /\ PrefillPlan.req[r].distribute =
                   req[r].distribute + Copies(Chunk(r), Taken("PREFILL", PrefillPlan.picks), 1..NumPipes("PREFILL"))
<1> DEFINE j == "PREFILL"
           n == NumPipes(j)
           f(k) == FirstCores(j)[k]
           none == [k \in 1..n |-> <<>>]
           count(r, i, picks) == Copies(Chunk(r), HeldAfter(j, i, picks, none), 1..n)
           s0 == [req |-> req, picks |-> batch]
           U == [req : [Reqs -> Records], picks : Batches]
           next(t, i) == PickPrefill(t, f(i))
           rec(g, i) == IF i = 0 THEN s0 ELSE PickPrefill(g[i-1], f(i))
           plan == CHOOSE g : g = [i \in 0..n |-> rec(g, i)]
           F == [p \in U \X (1..n) |-> next(p[1], p[2])]
           good(i, t) ==
             /\ t \in U /\ Recorded(t.req)
             /\ \A k \in 1..i : Loaded(t.picks[f(k)], j)
             /\ \A r \in Reqs : /\ t.req[r].prefills = req[r].prefills
                                /\ t.req[r].phase = "DECODE" <=> req[r].phase = "DECODE"
                                /\ t.req[r].distribute = req[r].distribute + count(r, i, t.picks)
           G == {p \in (0..n) \X U : good(p[1], p[2])}
<1>j. j \in Jobs
  OBVIOUS
<1>0. PrefillPlan = plan[n]
  BY DEF PrefillPlan, NumPipes
<1>n. n \in Nat
  BY PipelineFacts
<1>f. /\ \A k \in 1..n : f(k) \in Begins(j) /\ f(k) \in Cores
      /\ \A k, m \in 1..n : f(k) = f(m) => k = m
  BY PipelineFacts DEF Begins, JobCores
<1>d. \A r \in Reqs : req[r].distribute \in Nat
  BY SetupNumbers DEF Recorded, Records
<1>e. \A k \in 1..n : none[k] = <<>> /\ none[k] \in Seq(StageType)
  OBVIOUS
<1> HIDE DEF none
<1>1. good(0, s0)
  <2>1. s0 \in U /\ s0.req = req /\ s0.picks = batch
    BY DEF Recorded
  <2>2. ASSUME NEW r \in Reqs PROVE count(r, 0, batch) = 0
    <3> DEFINE x == Chunk(r)
               S == 1..n
    <3>1. Copies(x, HeldAfter(j, 0, batch, none), S) = Copies(x, none, S)
      BY <1>j, HeldEnds
    <3>2. IsFiniteSet(S)
      BY <1>n, FS_Interval
    <3>3. \A k \in S : Occurrences(x, none[k]) = 0
      BY <1>e, OccEmpty
    <3> HIDE DEF x, S
    <3>4. Copies(x, none, S) = 0
      BY <3>2, <3>3, CopiesZero
    <3> QED BY <3>1, <3>4 DEF x, S
  <2> HIDE DEF count, s0, U
  <2> QED BY <1>d, <2>1, <2>2
<1>2. ASSUME NEW i \in 1..n, NEW t, good(i-1, t)
      PROVE  good(i, next(t, i))
  <2> DEFINE rq == t.req
             picks == t.picks
             c == f(i)
             t2 == next(t, i)
  <2>1. /\ t = [req |-> rq, picks |-> picks] /\ Recorded(rq) /\ picks \in Batches
        /\ c \in Begins(j) /\ c \in Cores
    BY <1>2, <1>f
  <2>2. ASSUME NEW r \in Reqs
        PROVE  /\ rq[r].prefills = req[r].prefills
               /\ rq[r].phase = "DECODE" <=> req[r].phase = "DECODE"
               /\ rq[r].distribute = req[r].distribute + count(r, i-1, picks)
    <3> HIDE DEF count
    <3> QED BY <1>2
  <2>3. ASSUME NEW new \in Batches, SameBut(c, new, picks), NEW r \in Reqs
        PROVE  /\ count(r, i, new) = count(r, i-1, picks) + Occurrences(Chunk(r), new[c])
               /\ count(r, i-1, picks) \in Nat
    <3> DEFINE x == Chunk(r)
    <3>1. /\ Copies(x, HeldAfter(j, i, new, none), 1..n) =
               Copies(x, HeldAfter(j, i - 1, picks, none), 1..n) - Occurrences(x, none[i]) + Occurrences(x, new[f(i)])
          /\ Copies(x, HeldAfter(j, i - 1, picks, none), 1..n) \in Nat
      <4> HIDE DEF picks, x, j
      <4>1. /\ j \in Jobs /\ i \in 1..NumPipes(j) /\ picks \in Batches /\ new \in Batches
            /\ StageQueues(none, 1..NumPipes(j)) /\ SameBut(FirstCores(j)[i], new, picks)
        BY <1>j, <1>e, <2>1, <2>3 DEF StageQueues
      <4> QED BY <4>1, HeldStep
    <3>2. Occurrences(x, none[i]) = 0
      BY <1>e, OccEmpty
    <3>3. Occurrences(x, new[f(i)]) \in Nat
      <4>1. new[f(i)] \in Seq(StageType)
        BY <1>f, <2>3 DEF Batches
      <4> QED BY <4>1, OccNat
    <3> HIDE DEF x
    <3> QED BY <3>1, <3>2, <3>3 DEF x
  <2>4. Settled(batch[c], j, rq)
    <3> DEFINE b == batch[c]
    <3>1. Settled(b, j, req)
      BY <2>1
    <3>2. \A k \in 1..Len(b) : b[k].req \in Reqs
      <4>1. b \in Seq([req : Reqs, type : Outcomes(j)]) /\ Outcomes(j) \subseteq Phases
        BY <3>1, BatchFacts DEF Settled
      <4> QED BY <4>1, SomeStages
    <3>3. ASSUME NEW r \in Reqs, ~ChunksLeft(req[r]) PROVE ~ChunksLeft(rq[r])
      <4>1. count(r, i-1, picks) \in Nat
        BY <2>1, <2>3 DEF SameBut
      <4> HIDE DEF count, rq
      <4> QED BY <1>d, <2>2, <3>3, <4>1, SetupNumbers DEF ChunksLeft
    <3> HIDE DEF rq, b
    <3> QED BY <3>1, <3>2, <3>3 DEF Settled, b
  <2>5. ASSUME NEW v, Loaded(v, j), NEW rq2, Recorded(rq2), t2 = Given(t, c, rq2, v),
               \A r \in Reqs : /\ rq2[r].prefills = rq[r].prefills
                               /\ rq2[r].phase = "DECODE" <=> rq[r].phase = "DECODE"
                               /\ rq2[r].distribute = rq[r].distribute + Occurrences(Chunk(r), v)
        PROVE  good(i, t2)
    <3> DEFINE new == [picks EXCEPT ![c] = v]
    <3>1. v \in Seq(StageType)
      BY <2>5, BatchFacts
    <3>2. /\ new \in Batches /\ new[c] = v /\ SameBut(c, new, picks)
      BY <2>1, <3>1 DEF Batches, SameBut
    <3>3. t2 \in U /\ t2.req = rq2 /\ t2.picks = new
      BY <2>5, <3>2 DEF Recorded, Given
    <3> HIDE DEF new, U, t2, rq, picks
    <3>4. \A k \in 1..i : Loaded(new[f(k)], j)
      <4> TAKE k \in 1..i
      <4>1. k \in 1..n /\ i \in 1..n
        BY <1>n
      <4>2. CASE k = i
        BY <2>5, <3>2, <4>2
      <4>3. CASE k # i
        <5>1. k \in 1..i-1 /\ f(k) # c /\ f(k) \in Cores
          BY <1>f, <4>1, <4>3
        <5>2. Loaded(picks[f(k)], j)
          BY <1>2, <5>1 DEF picks
        <5> QED BY <3>2, <5>1, <5>2 DEF SameBut
      <4> QED BY <4>2, <4>3
    <3>5. ASSUME NEW r \in Reqs
          PROVE  /\ rq2[r].prefills = req[r].prefills
                 /\ rq2[r].phase = "DECODE" <=> req[r].phase = "DECODE"
                 /\ rq2[r].distribute = req[r].distribute + count(r, i, new)
      <4>1. count(r, i, new) = count(r, i-1, picks) + Occurrences(Chunk(r), v) /\ count(r, i-1, picks) \in Nat
        BY <2>3, <3>2
      <4>2. Occurrences(Chunk(r), v) \in Nat
        BY <3>1, OccNat
      <4> HIDE DEF count
      <4> QED BY <1>d, <2>2, <2>5, <4>1, <4>2
    <3> HIDE DEF count
    <3> QED BY <2>5, <3>3, <3>4, <3>5
  <2> HIDE DEF good, t2, rq, picks
  <2>6. CASE t2 = Given(t, c, rq, <<>>)
    <3>1. Loaded(<<>>, j)
      BY <1>j, EmptyLoaded
    <3>2. \A r \in Reqs : rq[r].distribute = rq[r].distribute + Occurrences(Chunk(r), <<>>)
      <4> TAKE r \in Reqs
      <4>1. Occurrences(Chunk(r), <<>>) = 0
        BY OccEmpty
      <4>2. rq[r].distribute \in Int
        BY <2>1, SetupNumbers DEF Recorded, Records
      <4> QED BY <4>1, <4>2
    <3>3. good(i, t2)
      BY <2>1, <2>5, <2>6, <3>1, <3>2
    <3> QED BY <3>3 DEF t2
  <2>7. ASSUME NEW r \in Reqs, Available(rq, r),
               t2 = Given(t, c, Handed(rq, r), <<Chunk(r)>>)
        PROVE  good(i, t2)
    <3> DEFINE v == <<Chunk(r)>>
               rq2 == Handed(rq, r)
    <3>1. Loaded(v, j)
      <4>1. Chunk(r) \in [req : Reqs, type : Work(j)]
        BY DEF Chunk, Work
      <4>2. v \in Seq([req : Reqs, type : Work(j)]) /\ Len(v) = 1
        BY <4>1
      <4> HIDE DEF v
      <4>3. v \in Seq(StageType)
        BY <4>2, BatchFacts, SomeStages
      <4>4. CreditOf("PREFILL", v) <= CoreCredit <=> Len(v) <= 1
        BY <4>3, CreditOfPrefill
      <4>5. CreditOf("PREFILL", v) <= CoreCredit
        BY <4>2, <4>4
      <4> QED BY <4>2, <4>5 DEF Loaded
    <3>2. /\ Recorded(rq2)
          /\ \A p \in Reqs : /\ rq2[p].prefills = rq[p].prefills
                             /\ rq2[p].phase = "DECODE" <=> rq[p].phase = "DECODE"
                             /\ rq2[p].distribute = rq[p].distribute + (IF p = r THEN 1 ELSE 0)
      BY <2>1, <2>7, HandedFacts
    <3>3. ASSUME NEW p \in Reqs PROVE Occurrences(Chunk(p), v) = IF p = r THEN 1 ELSE 0
      <4>1. v = Append(<<>>, Chunk(r)) /\ <<>> \in Seq(StageType)
        OBVIOUS
      <4>2. Occurrences(Chunk(p), <<>>) = 0
        BY OccEmpty
      <4>3. Chunk(p) = Chunk(r) <=> p = r
        BY DEF Chunk
      <4>4. Occurrences(Chunk(p), Append(<<>>, Chunk(r))) = Occurrences(Chunk(p), <<>>) + IF Chunk(r) = Chunk(p) THEN 1 ELSE 0
        BY <4>1, OccAppend
      <4> HIDE DEF v
      <4>5. Occurrences(Chunk(p), v) = IF Chunk(r) = Chunk(p) THEN 1 ELSE 0
        BY <4>1, <4>2, <4>4
      <4> QED BY <4>3, <4>5
    <3> HIDE DEF v, rq2
    <3>4. t2 = Given(t, c, rq2, v)
      BY <2>7 DEF v, rq2
    <3>5. \A p \in Reqs : /\ rq2[p].prefills = rq[p].prefills
                          /\ rq2[p].phase = "DECODE" <=> rq[p].phase = "DECODE"
                          /\ rq2[p].distribute = rq[p].distribute + Occurrences(Chunk(p), v)
      BY <3>2, <3>3
    <3> QED BY <2>5, <3>1, <3>2, <3>4, <3>5
  <2>8. \/ t2 = Given(t, c, rq, <<>>)
        \/ \E r \in Reqs : /\ Available(rq, r)
                           /\ t2 = Given(t, c, Handed(rq, r), <<Chunk(r)>>)
    <3>1. t2 = PickPrefill(t, c) /\ t = [req |-> t.req, picks |-> t.picks]
      BY <2>1 DEF t2, rq, picks
    <3> QED BY <2>1, <2>4, <3>1, PickPrefillFacts DEF rq
  <2>9. good(i, t2)
    BY <2>6, <2>7, <2>8 DEF t2
  <2> QED BY <2>9 DEF t2
<1> HIDE DEF good
<1>3. \A i \in 1..n, t \in U : F[<<t, i>>] = next(t, i)
  OBVIOUS
<1>4. \A i \in 0..n : \A t : <<i, t>> \in G <=> t \in U /\ good(i, t)
  OBVIOUS
<1>5. \A i \in 0..n : \A t : good(i, t) => t \in U
  BY DEF good
<1> HIDE DEF F, G, U, n, s0
<1>6. PICK g : Repeats(g, n, s0, F)
  BY <1>n, IterationSolved
<1>7. <<0, s0>> \in G
  <2>1. 0 \in 0..n
    BY <1>n
  <2> QED BY <1>1, <1>4, <1>5, <2>1
<1>8. ASSUME NEW i \in 1..n, NEW t, <<i-1, t>> \in G
      PROVE  t \in U /\ F[<<t, i>>] = next(t, i) /\ <<i, next(t, i)>> \in G
  <2>1. i \in 0..n /\ i - 1 \in 0..n
    BY <1>n
  <2>2. t \in U /\ good(i-1, t)
    BY <1>4, <1>8, <2>1
  <2>3. good(i, next(t, i))
    BY <1>2, <2>2
  <2>4. F[<<t, i>>] = next(t, i)
    BY <1>3, <2>2
  <2> HIDE DEF next
  <2> QED BY <1>4, <1>5, <2>1, <2>2, <2>3, <2>4
<1> HIDE DEF next
<1>9. \A i \in 0..n : <<i, g[i]>> \in G
  <2>1. \A i \in 0..n : g[i] = IF i = 0 THEN s0 ELSE F[<<g[i-1], i>>]
    BY <1>6 DEF Repeats
  <2>2. <<0, g[0]>> \in G
    <3>1. 0 \in 0..n
      BY <1>n
    <3> QED BY <1>7, <2>1, <3>1
  <2>3. ASSUME NEW i \in 1..n, <<i-1, g[i-1]>> \in G PROVE <<i, g[i]>> \in G
    <3>1. g[i] = F[<<g[i-1], i>>]
      BY <1>n, <2>1
    <3> QED BY <1>8, <2>3, <3>1
  <2> QED BY <1>n, <2>2, <2>3, IterationKeeps
<1>10. g = [i \in 0..n |-> rec(g, i)]
  <2>1. ASSUME NEW i \in 0..n PROVE (IF i = 0 THEN s0 ELSE F[<<g[i-1], i>>]) = rec(g, i)
    <3>1. CASE i = 0
      BY <3>1
    <3>2. CASE i # 0
      <4>1. i \in 1..n /\ i - 1 \in 0..n
        BY <1>n, <3>2
      <4>2. F[<<g[i-1], i>>] = next(g[i-1], i)
        BY <1>8, <1>9, <4>1
      <4> QED BY <3>2, <4>2 DEF next
    <3> QED BY <3>1, <3>2
  <2> HIDE DEF rec
  <2> QED BY <1>6, <2>1 DEF Repeats
<1>11. plan = [i \in 0..n |-> rec(plan, i)]
  <2> HIDE DEF rec
  <2> QED BY <1>10
<1> HIDE DEF plan
<1>12. \A i \in 0..n : <<i, plan[i]>> \in G
  <2>1. \A i \in 0..n : plan[i] = rec(plan, i)
    <3> HIDE DEF rec
    <3> QED BY <1>11
  <2>2. <<0, plan[0]>> \in G
    BY <1>n, <1>7, <2>1
  <2>3. ASSUME NEW i \in 1..n, <<i-1, plan[i-1]>> \in G PROVE <<i, plan[i]>> \in G
    <3>1. i \in 0..n /\ i # 0
      BY <1>n
    <3>2. plan[i] = next(plan[i-1], i)
      BY <2>1, <3>1 DEF next
    <3> QED BY <1>8, <2>3, <3>2
  <2> QED BY <1>n, <2>2, <2>3, IterationKeeps
<1>13. good(n, PrefillPlan)
  <2>1. n \in 0..n
    BY <1>n
  <2> QED BY <1>0, <1>4, <1>12, <2>1
<1>14. HeldAfter(j, n, PrefillPlan.picks, none) = Taken(j, PrefillPlan.picks)
  BY <1>j, HeldEnds DEF n
<1> QED BY <1>13, <1>14 DEF good, n

\* What the schedule takes from the set-up stays.
LEMMA ScheduleKept ==
  ASSUME setup' = setup
  PROVE  /\ Reqs' = Reqs /\ Pipes' = Pipes /\ Jobs' = Jobs /\ Cores' = Cores
         /\ DecodeSide' = DecodeSide /\ PrefillSide' = PrefillSide
         /\ StageType' = StageType /\ Batches' = Batches /\ Records' = Records
         /\ PrefillIters' = PrefillIters /\ DecodeIters' = DecodeIters /\ CoreCredit' = CoreCredit
         /\ (Mixed' <=> Mixed)
         /\ \A c : JobOf(c)' = JobOf(c) /\ (Counts(c)' <=> Counts(c))
<1>1. Mixed' = Mixed /\ Cores' = Cores /\ Jobs' = Jobs /\ \A c : JobOf(c)' = JobOf(c)
  BY SetupKept
<1>2. /\ PrefillCores' = PrefillCores /\ DecodeCores' = DecodeCores
      /\ PrefillStages' = PrefillStages /\ DecodeStages' = DecodeStages
      /\ PrefillIters' = PrefillIters /\ DecodeIters' = DecodeIters /\ CoreCredit' = CoreCredit
      /\ Reqs' = Reqs
  BY DEF PrefillCores, DecodeCores, PrefillStages, DecodeStages, PrefillIters, DecodeIters, CoreCredit, Reqs
<1>3. Pipes' = Pipes
  BY <1>2 DEF Pipes
<1>4. DecodeSide' = DecodeSide /\ PrefillSide' = PrefillSide
  BY <1>1 DEF DecodeSide, PrefillSide
<1>5. StageType' = StageType
  BY <1>2 DEF StageType, Phases
<1>6. Batches' = Batches
  BY <1>1, <1>5 DEF Batches
<1>7. Records' = Records
  BY <1>2 DEF Records, Phases
<1>8. \A c : StageIndex(c)' = StageIndex(c) /\ \A j : Stages(j)' = Stages(j)
  BY <1>2 DEF StageIndex, Stages
<1>9. \A c : Counts(c)' <=> Counts(c)
  BY <1>1, <1>8 DEF Counts
<1> QED BY <1>1, <1>2, <1>3, <1>4, <1>5, <1>6, <1>7, <1>9

\* The books after a step, from what they say of the new values under the set-up
\* that stays.
LEMMA BooksAfter ==
  ASSUME setup' = setup, Books(req', batch', reqDecode', idleDecode', unfinished', Open')
  PROVE  Books(req, batch, reqDecode, idleDecode, unfinished, Open)'
<1>0. /\ Reqs' = Reqs /\ Pipes' = Pipes /\ Jobs' = Jobs /\ Cores' = Cores
      /\ DecodeSide' = DecodeSide /\ PrefillSide' = PrefillSide
      /\ StageType' = StageType /\ Batches' = Batches /\ Records' = Records
      /\ PrefillIters' = PrefillIters /\ DecodeIters' = DecodeIters /\ CoreCredit' = CoreCredit
      /\ (Mixed' <=> Mixed)
      /\ \A c : JobOf(c)' = JobOf(c) /\ (Counts(c)' <=> Counts(c))
  BY ScheduleKept
<1>1. Recorded(req)'
  BY <1>0 DEF Books, Recorded, Counters
<1>2. ASSUME NEW c \in Cores PROVE BatchOK(batch[c], JobOf(c), req, Open[c])'
  <2>1. BatchOK(batch'[c], JobOf(c), req', Open'[c])
    BY DEF Books
  <2>2. CreditOf(JobOf(c), batch[c])' = CreditOf(JobOf(c), batch'[c])
    BY <1>0 DEF CreditOf
  <2>3. CASE Open'[c]
    <3>1. Loaded(batch'[c], JobOf(c))
      BY <2>1, <2>3 DEF BatchOK
    <3>2. Loaded(batch[c], JobOf(c))'
      BY <1>0, <2>2, <3>1 DEF Loaded
    <3> QED BY <2>3, <3>2 DEF BatchOK
  <2>4. CASE ~Open'[c]
    <3>1. Settled(batch'[c], JobOf(c), req')
      BY <2>1, <2>4 DEF BatchOK
    <3>2. Settled(batch[c], JobOf(c), req)'
      BY <1>0, <2>2, <3>1 DEF Settled, ChunksLeft
    <3> QED BY <2>4, <3>2 DEF BatchOK
  <2> QED BY <2>3, <2>4
<1>3. Placed(req, batch, reqDecode, idleDecode)'
  BY <1>0 DEF Books, Placed
<1>4. Held(batch, Open)' = Held(batch', Open')
  BY <1>0 DEF Held
<1>5. Chunked(req, Held(batch, Open))'
  BY <1>0, <1>4 DEF Books, Chunked
<1>6. Queued(req, unfinished)'
  BY <1>0 DEF Books, Queued, ChunksLeft
<1>7. (/\ batch \in Batches /\ reqDecode \in Seq(Reqs)
       /\ idleDecode \in [Pipes -> Seq(Reqs)] /\ unfinished \in [Pipes -> Seq(Reqs)])'
  BY <1>0 DEF Books
<1> QED BY <1>0, <1>1, <1>2, <1>3, <1>5, <1>6, <1>7 DEF Books
-----------------------------------------------------------------------------
(* The begin of an iteration.                                              *)

\* A job that is not busy has only its last batches counted.
LEMMA OpenBefore ==
  ASSUME setup \in Setups, NEW j \in Jobs, ~busy[j], primIndex = 0, config # "chunks",
         NEW c \in JobCores(j)
  PROVE  Open[c] <=> c \notin Ends(j)
<1>1. c \in Cores /\ JobOf(c) = j
  BY SetupFacts
<1> QED BY <1>1 DEF Open, Uncounted, Ends

\* Its chunks on their way are those in the other batches.
LEMMA HeldBefore ==
  ASSUME setup \in Setups, NEW j \in Jobs, ~busy[j], primIndex = 0, config # "chunks",
         batch \in Batches, NEW x
  PROVE  Copies(x, Held(batch, Open), JobCores(j)) = Copies(x, batch, JobCores(j) \ Ends(j))
<1> DEFINE C == JobCores(j)
           E == Ends(j)
           h == Held(batch, Open)
<1>1. C \subseteq Cores /\ IsFiniteSet(C) /\ E \in SUBSET C
  BY SetupFacts DEF Ends
<1>2. \A c \in C : batch[c] \in Seq(StageType)
  BY <1>1 DEF Batches
<1>3. \A c \in C : h[c] = IF Open[c] THEN batch[c] ELSE <<>>
  BY <1>1 DEF Held
<1>4. \A c \in C : Open[c] <=> c \notin E
  BY OpenBefore
<1>5. \A c \in E : h[c] = <<>>
  BY <1>1, <1>3, <1>4
<1>6. \A c \in C \ E : h[c] = batch[c]
  BY <1>3, <1>4
<1>7. \A c \in C : h[c] \in Seq(StageType)
  <2>1. <<>> \in Seq(StageType)
    OBVIOUS
  <2> HIDE DEF h, C
  <2> QED BY <1>2, <1>3, <2>1, Zenon
<1>8. IsFiniteSet(E) /\ IsFiniteSet(C \ E)
  BY <1>1, FS_Subset
<1> HIDE DEF C, E, h
<1>9. Copies(x, h, C) = Copies(x, h, E) + Copies(x, h, C \ E)
  BY <1>1, <1>7, CopiesSplit
<1>10. Copies(x, h, E) = 0
  <2>1. \A c \in E : Occurrences(x, h[c]) = 0
    BY <1>5, OccEmpty
  <2> QED BY <1>8, <2>1, CopiesZero
<1>11. Copies(x, h, C \ E) = Copies(x, batch, C \ E)
  BY <1>6, <1>8, CopiesSame
<1>12. Copies(x, batch, C \ E) \in Nat
  <2>1. \A c \in C \ E : batch[c] \in Seq(StageType)
    BY <1>2
  <2> QED BY <1>8, <2>1, CopiesNat
<1> QED BY <1>9, <1>10, <1>11, <1>12 DEF C, E, h

\* The iteration begins, or there is nothing in it.
LEMMA AnnouncedOpen ==
  ASSUME setup \in Setups, setup' = setup, busy \in [Jobs -> BOOLEAN], NEW j \in Jobs, NEW new,
         Announce(j, new), NEW c \in JobCores(j)
  PROVE  ~Open'[c] => new[c] = <<>>
<1> DEFINE idle == \A d \in JobCores(j) : new[d] = <<>>
<1>1. busy' = [busy EXCEPT ![j] = ~idle]
  BY DEF Announce
<1>2. c \in Cores /\ JobOf(c) = j
  BY SetupFacts
<1>3. Cores' = Cores /\ JobOf(c)' = JobOf(c)
  BY ScheduleKept
<1> HIDE DEF idle
<1>4. busy'[j] <=> ~idle
  BY <1>1
<1>5. busy'[j] => Open'[c]
  BY <1>2, <1>3 DEF Open, Uncounted
<1> QED BY <1>4, <1>5 DEF idle

\* The other job is not concerned.
LEMMA AnnouncedOther ==
  ASSUME setup \in Setups, setup' = setup, busy \in [Jobs -> BOOLEAN], NEW j \in Jobs, NEW new,
         Announce(j, new), primIndex' = primIndex, config # "chunks", config' # "chunks",
         NEW c \in Cores \ JobCores(j)
  PROVE  Open'[c] = Open[c]
<1> DEFINE k == JobOf(c)
<1>1. k \in Jobs /\ k # j
  BY SetupFacts DEF JobCores
<1>2. busy'[k] = busy[k]
  BY <1>1 DEF Announce
<1>3. Cores' = Cores /\ JobOf(c)' = k /\ (Counts(c)' <=> Counts(c))
  BY ScheduleKept
<1>4. Uncounted(c)' = Uncounted(c)
  <2> HIDE DEF k
  <2> QED BY <1>2, <1>3 DEF Uncounted, k
<1> QED BY <1>3, <1>4 DEF Open

\* All chunks of a job that begins an iteration are on their way.
LEMMA HeldAfterwards ==
  ASSUME setup \in Setups, setup' = setup, busy \in [Jobs -> BOOLEAN], NEW j \in Jobs, NEW new, NEW x,
         Announce(j, new)
  PROVE  Copies(x, Held(new, Open'), JobCores(j)) = Copies(x, new, JobCores(j))
<1> DEFINE C == JobCores(j)
           h == Held(new, Open')
<1>1. C \subseteq Cores /\ IsFiniteSet(C)
  BY SetupFacts
<1>2. \A c \in C : h[c] = IF Open'[c] THEN new[c] ELSE <<>>
  BY <1>1 DEF Held
<1>3. \A c \in C : h[c] = new[c]
  BY <1>2, AnnouncedOpen
<1> HIDE DEF C, h
<1>4. Copies(x, h, C) = Copies(x, new, C)
  BY <1>1, <1>3, CopiesSame
<1> QED BY <1>4 DEF C, h

\* The books of a job that is given to at the begin of its iteration.
LEMMA BooksBefore ==
  ASSUME setup \in Setups, NEW j \in Jobs, ~busy[j], primIndex = 0, config # "chunks",
         Books(req, batch, reqDecode, idleDecode, unfinished, Open)
  PROVE  /\ \A c \in JobCores(j) \ Ends(j) : Loaded(batch[c], j)
         /\ \A c \in JobCores(j) : Settled(batch[c], j, req) /\ batch[c] \in Seq(StageType)
<1>1. \A c \in JobCores(j) : c \in Cores /\ JobOf(c) = j
  BY SetupFacts
<1>2. \A c \in JobCores(j) : BatchOK(batch[c], j, req, Open[c])
  BY <1>1 DEF Books
<1>3. \A c \in JobCores(j) \ Ends(j) : Loaded(batch[c], j)
  BY <1>2, OpenBefore DEF BatchOK
<1>4. \A c \in JobCores(j) : Settled(batch[c], j, req)
  BY <1>2, BatchFacts DEF BatchOK
<1> QED BY <1>3, <1>4, BatchFacts

\* The batches after the begin of an iteration.
LEMMA BatchesAfter ==
  ASSUME setup \in Setups, setup' = setup, busy \in [Jobs -> BOOLEAN], NEW j \in Jobs,
         NEW new, Announce(j, new), NEW rq,
         Books(req, batch, reqDecode, idleDecode, unfinished, Open),
         \A c \in JobCores(j) : Loaded(new[c], j),
         \A c \in Cores \ JobCores(j) :
            new[c] = batch[c] /\ JobOf(c) # "PREFILL" /\ Open'[c] = Open[c]
  PROVE  \A c \in Cores : BatchOK(new[c], JobOf(c), rq, Open'[c])
<1> SUFFICES ASSUME NEW c \in Cores PROVE BatchOK(new[c], JobOf(c), rq, Open'[c])
  OBVIOUS
<1>1. CASE c \in JobCores(j)
  <2>1. Loaded(new[c], j) /\ JobOf(c) = j
    BY <1>1, SetupFacts
  <2> QED BY <2>1, BatchFacts DEF BatchOK
<1>2. CASE c \notin JobCores(j)
  <2>1. BatchOK(batch[c], JobOf(c), req, Open[c])
    BY DEF Books
  <2>2. new[c] = batch[c] /\ JobOf(c) # "PREFILL" /\ Open'[c] = Open[c]
    BY <1>2
  <2> QED BY <2>1, <2>2 DEF BatchOK, Settled
<1> QED BY <1>1, <1>2

\* iter_start(JOB_PREFILL) keeps the books.
LEMMA PrefillBooks ==
  ASSUME ServeInv, TurnInv, setup' = setup, IterStartPrefill,
         waitSchedule["PREFILL"], ~busy["PREFILL"]
  PROVE  Books(req', batch', reqDecode', idleDecode', unfinished', Open')
<1> DEFINE j == "PREFILL"
           picks == PrefillPlan.picks
           new == NewBatches(j, picks)
           S == 1..NumPipes(j)
<1>1. /\ config = "prefill" /\ config' = "decode" /\ batch' = new /\ Announce(j, new)
      /\ req' = PrefillPlan.req
      /\ UNCHANGED <<reqDecode, idleDecode, unfinished, primIndex>>
  BY DEF IterStartPrefill, Install
<1>2. /\ setup \in Setups /\ ~Mixed /\ j \in Jobs /\ busy \in [Jobs -> BOOLEAN]
  BY <1>1 DEF TurnInv, Types, ConfigTurn, Jobs
<1>3. primIndex = 0 /\ arrived \subseteq Reqs
  BY <1>2, SetupNumbers DEF ServeInv, Flags
<1>4. /\ Books(req, batch, reqDecode, idleDecode, unfinished, Open)
      /\ Recorded(req) /\ batch \in Batches
  BY DEF ServeInv, Books
<1>5. /\ \A c \in JobCores(j) \ Ends(j) : Loaded(batch[c], j)
      /\ \A c \in JobCores(j) : Settled(batch[c], j, req)
  BY <1>1, <1>2, <1>3, <1>4, BooksBefore
<1>6. /\ Recorded(req')
      /\ \A k \in S : Loaded(picks[FirstCores(j)[k]], j)
      /\ \A r \in Reqs :
           /\ req'[r].prefills = req[r].prefills
           /\ req'[r].phase = "DECODE" <=> req[r].phase = "DECODE"
           /\ req'[r].distribute = req[r].distribute + Copies(Chunk(r), Taken(j, picks), S)
  <2>1. \A c \in Begins(j) : Settled(batch[c], j, req)
    BY <1>5 DEF Begins
  <2> QED BY <1>1, <1>2, <1>3, <1>4, <2>1, PrefillPlanFacts
<1> HIDE DEF picks
<1>7. /\ new \in Batches /\ \A c \in JobCores(j) : Loaded(new[c], j)
      /\ \A c \in Cores \ JobCores(j) : new[c] = batch[c]
  BY <1>2, <1>4, <1>5, <1>6, NewLoaded
<1> HIDE DEF new
<1>8. \A c \in Cores \ JobCores(j) : JobOf(c) # "PREFILL" /\ Open'[c] = Open[c]
  <2>1. \A c \in Cores \ JobCores(j) : JobOf(c) # "PREFILL"
    BY DEF JobCores
  <2> QED BY <1>1, <1>2, <2>1, AnnouncedOther
<1>9. \A c \in Cores : BatchOK(new[c], JobOf(c), req', Open'[c])
  BY <1>1, <1>2, <1>4, <1>7, <1>8, BatchesAfter
<1>10. Placed(req', new, reqDecode, idleDecode)
  <2> SUFFICES ASSUME NEW r \in Reqs
               PROVE  Copies(Decoding(r), new, DecodeSide) + Occurrences(r, reqDecode) + Copies(r, idleDecode, Pipes) =
                        IF req'[r].phase = "DECODE" THEN 1 ELSE 0
    BY DEF Placed
  <2>1. Copies(Decoding(r), batch, DecodeSide) + Occurrences(r, reqDecode) + Copies(r, idleDecode, Pipes) =
          IF req[r].phase = "DECODE" THEN 1 ELSE 0
    BY <1>4 DEF Books, Placed
  <2>2. IsFiniteSet(DecodeSide) /\ \A c \in DecodeSide : new[c] = batch[c]
    BY <1>2, <1>7, Sides
  <2>3. Copies(Decoding(r), new, DecodeSide) = Copies(Decoding(r), batch, DecodeSide)
    BY <2>2, CopiesSame
  <2> QED BY <1>6, <2>1, <2>3
<1>11. Chunked(req', Held(new, Open'))
  <2> SUFFICES ASSUME NEW r \in Reqs
               PROVE  req'[r].distribute - req'[r].prefills = Copies(Chunk(r), Held(new, Open'), PrefillSide)
    BY DEF Chunked
  <2> DEFINE x == Chunk(r)
  <2>1. PrefillSide = JobCores(j)
    BY <1>2, Sides
  <2>2. req[r].distribute - req[r].prefills = Copies(x, Held(batch, Open), JobCores(j))
    BY <1>4, <2>1 DEF Books, Chunked
  <2> HIDE DEF x
  <2>3. Copies(x, Held(batch, Open), JobCores(j)) = Copies(x, batch, JobCores(j) \ Ends(j))
    BY <1>1, <1>2, <1>3, <1>4, HeldBefore
  <2>4. Copies(x, Held(new, Open'), JobCores(j)) = Copies(x, new, JobCores(j))
    BY <1>1, <1>2, HeldAfterwards
  <2>5. /\ Copies(x, new, JobCores(j)) = Copies(x, Taken(j, picks), S) + Copies(x, batch, JobCores(j) \ Ends(j))
        /\ Copies(x, Taken(j, picks), S) \in Nat
    <3>1. \A k \in 1..NumPipes(j) : picks[FirstCores(j)[k]] \in Seq(StageType)
      BY <1>6, BatchFacts
    <3> QED BY <1>2, <1>4, <3>1, ShiftCopies DEF new
  <2>6. req[r].distribute \in Int /\ req[r].prefills \in Int
    BY <1>2, <1>4, SetupNumbers DEF Recorded, Records
  <2>7. /\ req'[r].prefills = req[r].prefills
        /\ req'[r].distribute = req[r].distribute + Copies(x, Taken(j, picks), S)
    BY <1>6 DEF x
  <2>8. Copies(x, batch, JobCores(j) \ Ends(j)) \in Nat
    BY <1>2, <1>4, EndCopies
  <2> HIDE DEF S
  <2>9. req'[r].distribute - req'[r].prefills = Copies(x, Held(new, Open'), JobCores(j))
    BY <2>2, <2>3, <2>4, <2>5, <2>6, <2>7, <2>8
  <2> QED BY <2>1, <2>9 DEF x
<1>12. Queued(req', unfinished)
  BY <1>2 DEF Queued
<1> QED BY <1>1, <1>4, <1>6, <1>7, <1>9, <1>10, <1>11, <1>12 DEF Books
-----------------------------------------------------------------------------
(* iter_start(JOB_DECODE).                                                 *)

\* A decode in a batch.
Decodes == [req : Reqs, type : {"DECODE"}]

\* A first core goes on with what comes down and what waits.
RoomLeft(live) == Credit - Len(First(Credit, live))
Line(live, wait) == wait \o AsIds(Rest(Credit, live))
Refilled(live, wait) == First(Credit, live) \o AsStages(First(RoomLeft(live), Line(live, wait)))
StillWaiting(live, wait) == Rest(RoomLeft(live), Line(live, wait))
RoomForNew(live, wait) == RoomLeft(live) - Len(First(RoomLeft(live), Line(live, wait)))

\* Then every decode that came down or waited is taken or waits.
LEMMA RefillFacts ==
  ASSUME setup \in Setups, NEW live \in Seq(Decodes), NEW wait \in Seq(Reqs)
  PROVE  /\ Refilled(live, wait) \in Seq(Decodes) /\ StillWaiting(live, wait) \in Seq(Reqs)
         /\ RoomForNew(live, wait) \in Nat
         /\ Len(Refilled(live, wait)) + RoomForNew(live, wait) = Credit
         /\ \A r : Occurrences(Decoding(r), Refilled(live, wait)) + Occurrences(r, StillWaiting(live, wait)) =
                     Occurrences(Decoding(r), live) + Occurrences(r, wait)
<1> DEFINE a == First(Credit, live)
           z == Rest(Credit, live)
           room == RoomLeft(live)
           line == Line(live, wait)
           b == First(room, line)
           s == AsStages(b)
           w == Rest(room, line)
<1>1. Credit \in Nat
  BY SetupNumbers
<1>2. /\ a \in Seq(Decodes) /\ z \in Seq(Decodes) /\ Len(a) <= Credit
      /\ \A x : Occurrences(x, live) = Occurrences(x, a) + Occurrences(x, z)
  BY <1>1, FirstRest
<1>3. AsIds(z) \in Seq(Reqs) /\ \A r : Occurrences(r, AsIds(z)) = Occurrences(Decoding(r), z)
  BY <1>2, AsIdsFacts DEF Decodes, Decoding
<1>4. room = Credit - Len(a) /\ line = wait \o AsIds(z)
  BY DEF RoomLeft, Line
<1> HIDE DEF a, z, room, line
<1>5. room \in Nat /\ Len(a) \in Nat
  BY <1>1, <1>2, <1>4
<1>6. line \in Seq(Reqs) /\ \A r : Occurrences(r, line) = Occurrences(r, wait) + Occurrences(r, AsIds(z))
  BY <1>3, <1>4, OccConcat
<1>7. /\ b \in Seq(Reqs) /\ w \in Seq(Reqs) /\ Len(b) <= room
      /\ \A r : Occurrences(r, line) = Occurrences(r, b) + Occurrences(r, w)
  BY <1>5, <1>6, FirstRest
<1>8. s \in Seq(Decodes) /\ Len(s) = Len(b) /\ \A r : Occurrences(Decoding(r), s) = Occurrences(r, b)
  BY <1>7, AsStagesFacts DEF Decodes, Decoding
<1>9. Refilled(live, wait) = a \o s /\ StillWaiting(live, wait) = w /\ RoomForNew(live, wait) = room - Len(b)
  BY DEF Refilled, StillWaiting, RoomForNew, a, line, room
<1> HIDE DEF b, s, w
<1>10. /\ a \o s \in Seq(Decodes) /\ Len(a \o s) = Len(a) + Len(s)
       /\ \A x : Occurrences(x, a \o s) = Occurrences(x, a) + Occurrences(x, s)
  <2>1. a \in Seq(Decodes) /\ s \in Seq(Decodes)
    BY <1>2, <1>8
  <2>2. a \o s \in Seq(Decodes) /\ Len(a \o s) = Len(a) + Len(s)
    BY <2>1
  <2>3. ASSUME NEW x PROVE Occurrences(x, a \o s) = Occurrences(x, a) + Occurrences(x, s)
    BY <2>1, OccConcat
  <2> QED BY <2>2, <2>3
<1>11. room - Len(b) \in Nat /\ Len(a) + Len(s) + (room - Len(b)) = Credit
  <2>1. Len(b) \in Nat
    BY <1>7
  <2> QED BY <1>1, <1>4, <1>5, <1>7, <1>8, <2>1
<1>12. ASSUME NEW r
       PROVE  Occurrences(Decoding(r), a \o s) + Occurrences(r, w) =
                Occurrences(Decoding(r), live) + Occurrences(r, wait)
  <2> DEFINE x == Decoding(r)
  <2>1. /\ Occurrences(x, a) \in Nat /\ Occurrences(x, z) \in Nat /\ Occurrences(x, s) \in Nat
    BY <1>2, <1>8, OccNat
  <2>2. /\ Occurrences(r, wait) \in Nat /\ Occurrences(r, w) \in Nat /\ Occurrences(r, b) \in Nat
    BY <1>7, OccNat
  <2>3. /\ Occurrences(x, live) = Occurrences(x, a) + Occurrences(x, z)
        /\ Occurrences(x, a \o s) = Occurrences(x, a) + Occurrences(x, s)
    BY <1>2, <1>10
  <2>4. /\ Occurrences(r, wait) + Occurrences(x, z) = Occurrences(r, b) + Occurrences(r, w)
        /\ Occurrences(x, s) = Occurrences(r, b)
    BY <1>3, <1>6, <1>7, <1>8
  <2> DEFINE oa == Occurrences(x, a)
             oz == Occurrences(x, z)
             os == Occurrences(x, s)
             ow == Occurrences(r, w)
             ob == Occurrences(r, b)
             own == Occurrences(r, wait)
  <2>5. oa \in Nat /\ oz \in Nat /\ os \in Nat /\ ow \in Nat /\ ob \in Nat /\ own \in Nat
    BY <2>1, <2>2
  <2>6. Occurrences(x, live) = oa + oz /\ Occurrences(x, a \o s) = oa + os
    BY <2>3
  <2>7. own + oz = ob + ow /\ os = ob
    BY <2>4
  <2> HIDE DEF oa, oz, os, ow, ob, own
  <2>8. (oa + os) + ow = (oa + oz) + own
    BY <2>5, <2>7
  <2> HIDE DEF x
  <2>9. Occurrences(x, a \o s) + ow = Occurrences(x, live) + own
    BY <2>6, <2>8
  <2> QED BY <2>9 DEF x, ow, own
<1> QED BY <1>7, <1>9, <1>10, <1>11, <1>12

\* What comes down from a last core of JOB_DECODE.
Live(b) == Among(b, {s \in StageType : s.type # "PD_DONE"})

\* They are its decodes.
LEMMA LiveFacts ==
  ASSUME NEW b, NEW rq, Settled(b, "DECODE", rq)
  PROVE  /\ Live(b) \in Seq(Decodes)
         /\ \A r \in Reqs : Occurrences(Decoding(r), Live(b)) = Occurrences(Decoding(r), b)
<1> DEFINE P == {s \in StageType : s.type # "PD_DONE"}
           T == [req : Reqs, type : Outcomes("DECODE")]
<1>1. b \in Seq(T)
  BY DEF Settled
<1>2. T \cap P \subseteq Decodes
  BY DEF Decodes, Outcomes, Work
<1>3. \A r \in Reqs : Decoding(r) \in P
  BY DEF Decoding, StageType, Phases
<1> HIDE DEF P, T
<1>4. Among(b, P) \in Seq(T \cap P) /\ \A x \in P : Occurrences(x, Among(b, P)) = Occurrences(x, b)
  BY <1>1, AmongFacts
<1>5. Among(b, P) \in Seq(Decodes)
  BY <1>2, <1>4, SeqSubset
<1> QED BY <1>3, <1>4, <1>5 DEF Live, P

\* A core of JOB_DECODE gets the stages v; w still waits, and q is left in
\* req_decode.
Decoded(st, c, g, v, w, q) ==
  [picks |-> [st.picks EXCEPT ![c] = v], idle |-> [st.idle EXCEPT ![g] = w], queue |-> q]

\* iter_start(JOB_DECODE) for a first core loses no decode.
LEMMA PickDecodeFacts ==
  ASSUME setup \in Setups, NEW i \in 1..NumPipes("DECODE"), "DECODE" \in Jobs, NEW rq,
         Settled(batch[LastOf("DECODE", i)], "DECODE", rq),
         NEW st, st.idle[i - 1] \in Seq(Reqs), st.queue \in Seq(Reqs)
  PROVE  \E v, w, q :
           /\ PickDecode(st, FirstCores("DECODE")[i]) = Decoded(st, FirstCores("DECODE")[i], i - 1, v, w, q)
           /\ Loaded(v, "DECODE") /\ w \in Seq(Reqs) /\ q \in Seq(Reqs)
           /\ \A r \in Reqs : Occurrences(Decoding(r), v) + Occurrences(r, w) + Occurrences(r, q) =
                                Occurrences(Decoding(r), batch[LastOf("DECODE", i)])
                                  + Occurrences(r, st.idle[i - 1]) + Occurrences(r, st.queue)
<1> DEFINE c == FirstCores("DECODE")[i]
           g == i - 1
           b == batch[LastOf("DECODE", i)]
           live == Live(b)
           wait == st.idle[g]
           room == RoomForNew(live, wait)
           new == AsStages(First(room, st.queue))
           v == Refilled(live, wait) \o new
           w == StillWaiting(live, wait)
           q == Rest(room, st.queue)
<1>1. PipeOf(c) = g /\ batch[c + DecodeStages - 1] = b
  BY PipeFacts DEF LastOf, Stages
<1>2. PickDecode(st, c) = Decoded(st, c, g, v, w, q)
  BY <1>1 DEF PickDecode, Decoded, Refilled, StillWaiting, RoomForNew, RoomLeft, Line, Live
<1>3. live \in Seq(Decodes) /\ \A r \in Reqs : Occurrences(Decoding(r), live) = Occurrences(Decoding(r), b)
  BY LiveFacts
<1>4. wait \in Seq(Reqs)
  OBVIOUS
<1> HIDE DEF c, g, b, live, wait
<1>5. /\ Refilled(live, wait) \in Seq(Decodes) /\ w \in Seq(Reqs)
      /\ room \in Nat /\ Len(Refilled(live, wait)) + room = Credit
      /\ \A r : Occurrences(Decoding(r), Refilled(live, wait)) + Occurrences(r, w) =
                  Occurrences(Decoding(r), live) + Occurrences(r, wait)
  BY <1>3, <1>4, RefillFacts
<1> HIDE DEF room, w
<1>6. /\ First(room, st.queue) \in Seq(Reqs) /\ q \in Seq(Reqs) /\ Len(First(room, st.queue)) <= room
      /\ \A r : Occurrences(r, st.queue) = Occurrences(r, First(room, st.queue)) + Occurrences(r, q)
  BY <1>5, FirstRest
<1>7. /\ new \in Seq(Decodes) /\ Len(new) = Len(First(room, st.queue))
      /\ \A r : Occurrences(Decoding(r), new) = Occurrences(r, First(room, st.queue))
  BY <1>6, AsStagesFacts DEF Decodes, Decoding
<1> DEFINE old == Refilled(live, wait)
           f == First(room, st.queue)
<1> HIDE DEF new, q, old, f
<1>8. /\ v \in Seq(Decodes) /\ Len(v) = Len(old) + Len(new)
      /\ \A x : Occurrences(x, v) = Occurrences(x, old) + Occurrences(x, new)
  <2>1. old \in Seq(Decodes) /\ new \in Seq(Decodes) /\ v = old \o new
    BY <1>5, <1>7 DEF old
  <2> HIDE DEF v
  <2>2. v \in Seq(Decodes) /\ Len(v) = Len(old) + Len(new)
    BY <2>1
  <2>3. ASSUME NEW x PROVE Occurrences(x, v) = Occurrences(x, old) + Occurrences(x, new)
    BY <2>1, OccConcat
  <2> QED BY <2>2, <2>3
<1>9. Loaded(v, "DECODE")
  <2>1. Len(v) <= Credit
    <3>1. Len(old) \in Nat /\ Len(new) \in Nat /\ Len(new) <= room /\ Len(old) + room = Credit
      BY <1>5, <1>6, <1>7 DEF old
    <3> HIDE DEF v
    <3> QED BY <1>5, <1>8, <3>1
  <2> HIDE DEF v
  <2>2. CreditOf("DECODE", v) = Len(v)
    BY <1>8, CreditOfDecodes DEF Decodes
  <2>3. v \in Seq([req : Reqs, type : Work("DECODE")])
    BY <1>8 DEF Work, Decodes
  <2> QED BY <2>1, <2>2, <2>3, SetupNumbers DEF Loaded
<1>10. ASSUME NEW r \in Reqs
       PROVE  Occurrences(Decoding(r), v) + Occurrences(r, w) + Occurrences(r, q) =
                Occurrences(Decoding(r), b) + Occurrences(r, wait) + Occurrences(r, st.queue)
  <2> DEFINE x == Decoding(r)
  <2>1. Occurrences(x, old) \in Nat /\ Occurrences(x, new) \in Nat /\ Occurrences(x, live) \in Nat
    BY <1>3, <1>5, <1>7, OccNat DEF old
  <2>2. Occurrences(r, w) \in Nat /\ Occurrences(r, q) \in Nat /\ Occurrences(r, f) \in Nat /\ Occurrences(r, wait) \in Nat
    BY <1>4, <1>5, <1>6, OccNat DEF f
  <2>3. /\ Occurrences(x, v) = Occurrences(x, old) + Occurrences(x, new)
        /\ Occurrences(x, old) + Occurrences(r, w) = Occurrences(x, live) + Occurrences(r, wait)
        /\ Occurrences(x, new) = Occurrences(r, f)
        /\ Occurrences(r, st.queue) = Occurrences(r, f) + Occurrences(r, q)
        /\ Occurrences(x, live) = Occurrences(x, b)
    BY <1>3, <1>5, <1>6, <1>7, <1>8 DEF old, f
  <2> HIDE DEF x, v
  <2>4. Occurrences(x, v) + Occurrences(r, w) + Occurrences(r, q) =
                Occurrences(x, b) + Occurrences(r, wait) + Occurrences(r, st.queue)
    BY <2>1, <2>2, <2>3
  <2> QED BY <2>4 DEF x
<1>11. /\ PickDecode(st, c) = Decoded(st, c, g, v, w, q) /\ Loaded(v, "DECODE") /\ w \in Seq(Reqs) /\ q \in Seq(Reqs)
       /\ \A r \in Reqs : Occurrences(Decoding(r), v) + Occurrences(r, w) + Occurrences(r, q) =
                Occurrences(Decoding(r), b) + Occurrences(r, wait) + Occurrences(r, st.queue)
  BY <1>2, <1>5, <1>6, <1>9, <1>10
<1> HIDE DEF v
<1> QED BY <1>11 DEF c, g, b, wait

\* The schedule of JOB_DECODE keeps every decode in the last batches, in the
\* waiting lists and in req_decode.
LEMMA DecodePlanFacts ==
  ASSUME setup \in Setups, "DECODE" \in Jobs, batch \in Batches,
         reqDecode \in Seq(Reqs), idleDecode \in [Pipes -> Seq(Reqs)],
         \A c \in Ends("DECODE") : Settled(batch[c], "DECODE", req)
  PROVE  /\ DecodePlan.idle \in [Pipes -> Seq(Reqs)] /\ DecodePlan.queue \in Seq(Reqs)
         /\ \A k \in 1..NumPipes("DECODE") : Loaded(DecodePlan.picks[FirstCores("DECODE")[k]], "DECODE")
         /\ \A r \in Reqs :
              Copies(Decoding(r), Taken("DECODE", DecodePlan.picks), 1..NumPipes("DECODE"))
                + Copies(r, DecodePlan.idle, Pipes) + Occurrences(r, DecodePlan.queue) =
              Copies(Decoding(r), Ending("DECODE"), 1..NumPipes("DECODE"))
                + Copies(r, idleDecode, Pipes) + Occurrences(r, reqDecode)
<1> DEFINE j == "DECODE"
           n == NumPipes(j)
           f(k) == FirstCores(j)[k]
           end == Ending(j)
           count(r, i, picks) == Copies(Decoding(r), HeldAfter(j, i, picks, end), 1..n)
           total(r) == Copies(Decoding(r), end, 1..n) + Copies(r, idleDecode, Pipes) + Occurrences(r, reqDecode)
           s0 == [picks |-> batch, idle |-> idleDecode, queue |-> reqDecode]
           U == [picks : Batches, idle : [Pipes -> Seq(Reqs)], queue : Seq(Reqs)]
           next(t, i) == PickDecode(t, f(i))
           rec(g, i) == IF i = 0 THEN s0 ELSE PickDecode(g[i-1], f(i))
           plan == CHOOSE g : g = [i \in 0..n |-> rec(g, i)]
           F == [p \in U \X (1..n) |-> next(p[1], p[2])]
           good(i, t) ==
             /\ t \in U
             /\ \A k \in 1..i : Loaded(t.picks[f(k)], j)
             /\ \A r \in Reqs : count(r, i, t.picks) + Copies(r, t.idle, Pipes) + Occurrences(r, t.queue) = total(r)
           G == {p \in (0..n) \X U : good(p[1], p[2])}
<1>j. j \in Jobs /\ j # "PREFILL"
  OBVIOUS
<1>0. DecodePlan = plan[n]
  BY DEF DecodePlan, NumPipes
<1>n. n \in Nat
  BY PipelineFacts
<1>f. /\ \A k \in 1..n : f(k) \in Begins(j) /\ f(k) \in Cores /\ LastOf(j, k) \in Ends(j) /\ LastOf(j, k) \in Cores
      /\ \A k, m \in 1..n : f(k) = f(m) => k = m
  BY PipelineFacts DEF Begins, JobCores, Ends
<1>p. IsFiniteSet(Pipes) /\ \A k \in 1..n : k - 1 \in Pipes
  BY <1>j, PipeFacts
<1>e. \A k \in 1..n : end[k] = batch[LastOf(j, k)] /\ end[k] \in Seq(StageType)
  BY <1>f DEF Ending, Batches
<1> HIDE DEF end
<1>1. good(0, s0)
  <2>1. s0 \in U /\ s0.picks = batch /\ s0.idle = idleDecode /\ s0.queue = reqDecode
    OBVIOUS
  <2>2. ASSUME NEW r \in Reqs PROVE count(r, 0, batch) = Copies(Decoding(r), end, 1..n)
    BY <1>j, HeldEnds
  <2> HIDE DEF count, s0, U
  <2> QED BY <2>1, <2>2
<1>2. ASSUME NEW i \in 1..n, NEW t, good(i-1, t)
      PROVE  good(i, next(t, i))
  <2> DEFINE picks == t.picks
             idle == t.idle
             c == f(i)
             g == i - 1
             b == batch[LastOf(j, i)]
             t2 == next(t, i)
  <2>1. /\ picks \in Batches /\ idle \in [Pipes -> Seq(Reqs)] /\ t.queue \in Seq(Reqs)
        /\ c \in Cores /\ g \in Pipes /\ idle[g] \in Seq(Reqs)
    BY <1>2, <1>f, <1>p
  <2>2. ASSUME NEW r \in Reqs
        PROVE  count(r, i-1, picks) + Copies(r, idle, Pipes) + Occurrences(r, t.queue) = total(r)
    <3> HIDE DEF count, total
    <3> QED BY <1>2
  <2>3. ASSUME NEW new \in Batches, SameBut(c, new, picks), NEW r \in Reqs
        PROVE  /\ count(r, i, new) = count(r, i-1, picks) - Occurrences(Decoding(r), b) + Occurrences(Decoding(r), new[c])
               /\ count(r, i-1, picks) \in Nat
    <3> DEFINE x == Decoding(r)
    <3>1. /\ Copies(x, HeldAfter(j, i, new, end), 1..n) =
               Copies(x, HeldAfter(j, i - 1, picks, end), 1..n) - Occurrences(x, end[i]) + Occurrences(x, new[f(i)])
          /\ Copies(x, HeldAfter(j, i - 1, picks, end), 1..n) \in Nat
      <4> HIDE DEF picks, x, j
      <4>1. /\ j \in Jobs /\ i \in 1..NumPipes(j) /\ picks \in Batches /\ new \in Batches
            /\ StageQueues(end, 1..NumPipes(j)) /\ SameBut(FirstCores(j)[i], new, picks)
        BY <1>j, <1>e, <2>1, <2>3 DEF StageQueues
      <4> QED BY <4>1, HeldStep
    <3>2. end[i] = b
      BY <1>e
    <3> HIDE DEF x, b
    <3> QED BY <3>1, <3>2 DEF x
  <2>4. Settled(b, j, req) /\ b \in Seq(StageType)
    BY <1>f, BatchFacts
  <2>5. PICK v, w, q : /\ t2 = Decoded(t, c, g, v, w, q)
                       /\ Loaded(v, j) /\ w \in Seq(Reqs) /\ q \in Seq(Reqs)
                       /\ \A r \in Reqs : Occurrences(Decoding(r), v) + Occurrences(r, w) + Occurrences(r, q) =
                             Occurrences(Decoding(r), b) + Occurrences(r, idle[g]) + Occurrences(r, t.queue)
    <3>1. /\ i \in 1..NumPipes("DECODE") /\ "DECODE" \in Jobs /\ Settled(batch[LastOf("DECODE", i)], "DECODE", req)
          /\ t.idle[i - 1] \in Seq(Reqs) /\ t.queue \in Seq(Reqs)
      BY <1>j, <2>1, <2>4
    <3> QED BY <3>1, PickDecodeFacts
  <2> DEFINE new == [picks EXCEPT ![c] = v]
             idle2 == [idle EXCEPT ![g] = w]
  <2>6. v \in Seq(StageType)
    BY <2>5, BatchFacts
  <2>7. new \in Batches /\ new[c] = v /\ SameBut(c, new, picks)
    BY <2>1, <2>6 DEF Batches, SameBut
  <2>8. /\ idle2 \in [Pipes -> Seq(Reqs)] /\ idle2[g] = w
        /\ \A k \in Pipes : k # g => idle2[k] = idle[k]
    BY <2>1, <2>5
  <2>9. t2 \in U /\ t2.picks = new /\ t2.idle = idle2 /\ t2.queue = q
    <3>1. t2 = [picks |-> new, idle |-> idle2, queue |-> q]
      <4> HIDE DEF t2
      <4> QED BY <2>5 DEF Decoded
    <3>2. new \in Batches /\ idle2 \in [Pipes -> Seq(Reqs)] /\ q \in Seq(Reqs)
      BY <2>5, <2>7, <2>8
    <3> HIDE DEF t2, new, idle2
    <3> QED BY <3>1, <3>2
  <2> HIDE DEF new, idle2, U, t2, picks, idle, g, b
  <2>10. \A k \in 1..i : Loaded(new[f(k)], j)
    <3> TAKE k \in 1..i
    <3>1. k \in 1..n /\ i \in 1..n
      BY <1>n
    <3>2. CASE k = i
      BY <2>5, <2>7, <3>2
    <3>3. CASE k # i
      <4>1. k \in 1..i-1 /\ f(k) # c /\ f(k) \in Cores
        BY <1>f, <3>1, <3>3
      <4>2. Loaded(picks[f(k)], j)
        BY <1>2, <4>1 DEF picks
      <4> QED BY <2>7, <4>1, <4>2 DEF SameBut
    <3> QED BY <3>2, <3>3
  <2>11. ASSUME NEW r \in Reqs
         PROVE  count(r, i, new) + Copies(r, idle2, Pipes) + Occurrences(r, q) = total(r)
    <3> DEFINE x == Decoding(r)
    <3>1. /\ count(r, i, new) = count(r, i-1, picks) - Occurrences(x, b) + Occurrences(x, v)
          /\ count(r, i-1, picks) \in Nat
      BY <2>3, <2>7
    <3>2. /\ Copies(r, idle2, Pipes) = Copies(r, idle, Pipes) - Occurrences(r, idle[g]) + Occurrences(r, idle2[g])
          /\ Copies(r, idle, Pipes) \in Nat
      <4>1. /\ \A k \in Pipes : idle[k] \in Seq(Reqs) /\ idle2[k] \in Seq(Reqs)
            /\ \A k \in Pipes : k # g => Occurrences(r, idle2[k]) = Occurrences(r, idle[k])
        BY <2>1, <2>8
      <4>2. IsFiniteSet(Pipes)
        BY <1>p
      <4>3. g \in Pipes
        BY <2>1
      <4>4. Copies(r, idle2, Pipes) = Copies(r, idle, Pipes) - Occurrences(r, idle[g]) + Occurrences(r, idle2[g])
        BY <4>1, <4>2, <4>3, CopiesUpdate
      <4>5. \A k \in Pipes : idle[k] \in Seq(Reqs)
        BY <4>1
      <4> QED BY <4>2, <4>4, <4>5, CopiesNat
    <3>3. Occurrences(x, b) \in Nat /\ Occurrences(x, v) \in Nat
      BY <2>4, <2>6, OccNat
    <3>4. /\ Occurrences(r, idle[g]) \in Nat /\ Occurrences(r, w) \in Nat
          /\ Occurrences(r, q) \in Nat /\ Occurrences(r, t.queue) \in Nat
      BY <2>1, <2>5, OccNat
    <3>5. Occurrences(x, v) + Occurrences(r, w) + Occurrences(r, q) =
            Occurrences(x, b) + Occurrences(r, idle[g]) + Occurrences(r, t.queue)
      BY <2>5
    <3>6. count(r, i-1, picks) + Copies(r, idle, Pipes) + Occurrences(r, t.queue) = total(r)
      BY <2>2
    <3>7. idle2[g] = w
      BY <2>8
    <3> DEFINE c1 == count(r, i-1, picks)
               c2 == count(r, i, new)
               d1 == Copies(r, idle, Pipes)
               d2 == Copies(r, idle2, Pipes)
               e1 == Occurrences(x, b)
               e2 == Occurrences(x, v)
               h1 == Occurrences(r, idle[g])
               h2 == Occurrences(r, w)
               k1 == Occurrences(r, t.queue)
               k2 == Occurrences(r, q)
    <3>8. /\ c2 = c1 - e1 + e2 /\ c1 \in Nat /\ d2 = d1 - h1 + h2 /\ d1 \in Nat
          /\ e1 \in Nat /\ e2 \in Nat /\ h1 \in Nat /\ h2 \in Nat /\ k1 \in Nat /\ k2 \in Nat
          /\ e2 + h2 + k2 = e1 + h1 + k1 /\ c1 + d1 + k1 = total(r)
      <4> HIDE DEF count, total, x
      <4> QED BY <3>1, <3>2, <3>3, <3>4, <3>5, <3>6, <3>7
    <3> HIDE DEF c1, c2, d1, d2, e1, e2, h1, h2, k1, k2, total
    <3>9. c2 + d2 + k2 = total(r)
      BY <3>8
    <3> QED BY <3>9 DEF c2, d2, k2
  <2> HIDE DEF count, total
  <2>12. good(i, t2)
    BY <2>9, <2>10, <2>11
  <2> HIDE DEF good
  <2> QED BY <2>12 DEF t2
<1> HIDE DEF good
<1>3. \A i \in 1..n, t \in U : F[<<t, i>>] = next(t, i)
  OBVIOUS
<1>4. \A i \in 0..n : \A t : <<i, t>> \in G <=> t \in U /\ good(i, t)
  OBVIOUS
<1>5. \A i \in 0..n : \A t : good(i, t) => t \in U
  BY DEF good
<1> HIDE DEF F, G, U, n, s0
<1>6. PICK g : Repeats(g, n, s0, F)
  BY <1>n, IterationSolved
<1>7. <<0, s0>> \in G
  <2>1. 0 \in 0..n
    BY <1>n
  <2> QED BY <1>1, <1>4, <1>5, <2>1
<1>8. ASSUME NEW i \in 1..n, NEW t, <<i-1, t>> \in G
      PROVE  t \in U /\ F[<<t, i>>] = next(t, i) /\ <<i, next(t, i)>> \in G
  <2>1. i \in 0..n /\ i - 1 \in 0..n
    BY <1>n
  <2>2. t \in U /\ good(i-1, t)
    BY <1>4, <1>8, <2>1
  <2>3. good(i, next(t, i))
    BY <1>2, <2>2
  <2>4. F[<<t, i>>] = next(t, i)
    BY <1>3, <2>2
  <2> HIDE DEF next
  <2> QED BY <1>4, <1>5, <2>1, <2>2, <2>3, <2>4
<1> HIDE DEF next
<1>9. \A i \in 0..n : <<i, g[i]>> \in G
  <2>1. \A i \in 0..n : g[i] = IF i = 0 THEN s0 ELSE F[<<g[i-1], i>>]
    BY <1>6 DEF Repeats
  <2>2. <<0, g[0]>> \in G
    <3>1. 0 \in 0..n
      BY <1>n
    <3> QED BY <1>7, <2>1, <3>1
  <2>3. ASSUME NEW i \in 1..n, <<i-1, g[i-1]>> \in G PROVE <<i, g[i]>> \in G
    <3>1. g[i] = F[<<g[i-1], i>>]
      BY <1>n, <2>1
    <3> QED BY <1>8, <2>3, <3>1
  <2> QED BY <1>n, <2>2, <2>3, IterationKeeps
<1>10. g = [i \in 0..n |-> rec(g, i)]
  <2>1. ASSUME NEW i \in 0..n PROVE (IF i = 0 THEN s0 ELSE F[<<g[i-1], i>>]) = rec(g, i)
    <3>1. CASE i = 0
      BY <3>1
    <3>2. CASE i # 0
      <4>1. i \in 1..n /\ i - 1 \in 0..n
        BY <1>n, <3>2
      <4>2. F[<<g[i-1], i>>] = next(g[i-1], i)
        BY <1>8, <1>9, <4>1
      <4> QED BY <3>2, <4>2 DEF next
    <3> QED BY <3>1, <3>2
  <2> HIDE DEF rec
  <2> QED BY <1>6, <2>1 DEF Repeats
<1>11. plan = [i \in 0..n |-> rec(plan, i)]
  <2> HIDE DEF rec
  <2> QED BY <1>10
<1> HIDE DEF plan
<1>12. \A i \in 0..n : <<i, plan[i]>> \in G
  <2>1. \A i \in 0..n : plan[i] = rec(plan, i)
    <3> HIDE DEF rec
    <3> QED BY <1>11
  <2>2. <<0, plan[0]>> \in G
    BY <1>n, <1>7, <2>1
  <2>3. ASSUME NEW i \in 1..n, <<i-1, plan[i-1]>> \in G PROVE <<i, plan[i]>> \in G
    <3>1. i \in 0..n /\ i # 0
      BY <1>n
    <3>2. plan[i] = next(plan[i-1], i)
      BY <2>1, <3>1 DEF next
    <3> QED BY <1>8, <2>3, <3>2
  <2> QED BY <1>n, <2>2, <2>3, IterationKeeps
<1>13. good(n, DecodePlan)
  <2>1. n \in 0..n
    BY <1>n
  <2> QED BY <1>0, <1>4, <1>12, <2>1
<1>14. HeldAfter(j, n, DecodePlan.picks, end) = Taken(j, DecodePlan.picks)
  BY <1>j, HeldEnds DEF n
<1>15. DecodePlan.idle \in [Pipes -> Seq(Reqs)] /\ DecodePlan.queue \in Seq(Reqs)
  BY <1>13 DEF good, U
<1> QED BY <1>13, <1>14, <1>15 DEF good, n, end

\* The batches after the begin of an iteration that leaves the records alone.
LEMMA BatchesAfterSame ==
  ASSUME setup \in Setups, setup' = setup, busy \in [Jobs -> BOOLEAN], NEW j \in Jobs,
         NEW new, Announce(j, new),
         Books(req, batch, reqDecode, idleDecode, unfinished, Open),
         \A c \in JobCores(j) : Loaded(new[c], j),
         \A c \in Cores \ JobCores(j) : new[c] = batch[c] /\ Open'[c] = Open[c]
  PROVE  \A c \in Cores : BatchOK(new[c], JobOf(c), req, Open'[c])
<1> SUFFICES ASSUME NEW c \in Cores PROVE BatchOK(new[c], JobOf(c), req, Open'[c])
  OBVIOUS
<1>1. CASE c \in JobCores(j)
  <2>1. Loaded(new[c], j) /\ JobOf(c) = j
    BY <1>1, SetupFacts
  <2> QED BY <2>1, BatchFacts DEF BatchOK
<1>2. CASE c \notin JobCores(j)
  <2>1. BatchOK(batch[c], JobOf(c), req, Open[c])
    BY DEF Books
  <2>2. new[c] = batch[c] /\ Open'[c] = Open[c]
    BY <1>2
  <2> QED BY <2>1, <2>2
<1> QED BY <1>1, <1>2

\* iter_start(JOB_DECODE) keeps the books.
LEMMA DecodeBooks ==
  ASSUME ServeInv, TurnInv, setup' = setup, IterStartDecode,
         waitSchedule["DECODE"], ~busy["DECODE"]
  PROVE  Books(req', batch', reqDecode', idleDecode', unfinished', Open')
<1> DEFINE j == "DECODE"
           picks == DecodePlan.picks
           new == NewBatches(j, picks)
           S == 1..NumPipes(j)
           C == JobCores(j)
<1>1. /\ config = "decode" /\ config' = "fill" /\ batch' = new /\ Announce(j, new)
      /\ idleDecode' = DecodePlan.idle /\ reqDecode' = DecodePlan.queue
      /\ UNCHANGED <<req, unfinished, primIndex>>
  BY DEF IterStartDecode, Install
<1>2. /\ setup \in Setups /\ ~Mixed /\ j \in Jobs /\ busy \in [Jobs -> BOOLEAN]
  BY <1>1 DEF TurnInv, Types, ConfigTurn, Jobs
<1>3. primIndex = 0
  BY <1>2, SetupNumbers DEF ServeInv, Flags
<1>4. /\ Books(req, batch, reqDecode, idleDecode, unfinished, Open)
      /\ batch \in Batches /\ reqDecode \in Seq(Reqs) /\ idleDecode \in [Pipes -> Seq(Reqs)]
  BY DEF ServeInv, Books
<1>5. /\ \A c \in C \ Ends(j) : Loaded(batch[c], j)
      /\ \A c \in C : Settled(batch[c], j, req)
  BY <1>1, <1>2, <1>3, <1>4, BooksBefore
<1>6. /\ DecodePlan.idle \in [Pipes -> Seq(Reqs)] /\ DecodePlan.queue \in Seq(Reqs)
      /\ \A k \in 1..NumPipes("DECODE") : Loaded(DecodePlan.picks[FirstCores("DECODE")[k]], "DECODE")
      /\ \A r \in Reqs :
           Copies(Decoding(r), Taken("DECODE", DecodePlan.picks), 1..NumPipes("DECODE"))
             + Copies(r, DecodePlan.idle, Pipes) + Occurrences(r, DecodePlan.queue) =
           Copies(Decoding(r), Ending("DECODE"), 1..NumPipes("DECODE"))
             + Copies(r, idleDecode, Pipes) + Occurrences(r, reqDecode)
  <2>1. \A c \in Ends("DECODE") : Settled(batch[c], "DECODE", req)
    BY <1>5 DEF Ends
  <2> QED BY <1>2, <1>4, <2>1, DecodePlanFacts
<1> HIDE DEF picks
<1>7. /\ new \in Batches /\ \A c \in C : Loaded(new[c], j)
      /\ \A c \in Cores \ C : new[c] = batch[c]
  <2>1. \A k \in 1..NumPipes(j) : Loaded(picks[FirstCores(j)[k]], j)
    BY <1>6 DEF picks
  <2> QED BY <1>2, <1>4, <1>5, <2>1, NewLoaded
<1> HIDE DEF new
<1>8. \A c \in Cores \ C : Open'[c] = Open[c]
  BY <1>1, <1>2, AnnouncedOther
<1>9. \A c \in Cores : BatchOK(new[c], JobOf(c), req, Open'[c])
  BY <1>1, <1>2, <1>4, <1>7, <1>8, BatchesAfterSame
<1>10. Placed(req, new, reqDecode', idleDecode')
  <2> SUFFICES ASSUME NEW r \in Reqs
               PROVE  Copies(Decoding(r), new, DecodeSide) + Occurrences(r, reqDecode') + Copies(r, idleDecode', Pipes) =
                        IF req[r].phase = "DECODE" THEN 1 ELSE 0
    BY DEF Placed
  <2> DEFINE x == Decoding(r)
  <2>1. Copies(x, batch, DecodeSide) + Occurrences(r, reqDecode) + Copies(r, idleDecode, Pipes) =
          IF req[r].phase = "DECODE" THEN 1 ELSE 0
    BY <1>4 DEF Books, Placed
  <2>2. DecodeSide = C
    BY <1>2, Sides
  <2>3. /\ Copies(x, new, C) = Copies(x, Taken(j, picks), S) + Copies(x, batch, C \ Ends(j))
        /\ Copies(x, Taken(j, picks), S) \in Nat
    <3>1. \A k \in 1..NumPipes(j) : picks[FirstCores(j)[k]] \in Seq(StageType)
      BY <1>6, BatchFacts DEF picks
    <3> QED BY <1>2, <1>4, <3>1, ShiftCopies DEF new
  <2>4. /\ Copies(x, batch, C) = Copies(x, Ending(j), S) + Copies(x, batch, C \ Ends(j))
        /\ Copies(x, batch, C \ Ends(j)) \in Nat
        /\ Copies(x, Ending(j), S) \in Nat
    BY <1>2, <1>4, EndCopies
  <2>5. Copies(x, Taken(j, picks), S) + Copies(r, idleDecode', Pipes) + Occurrences(r, reqDecode') =
          Copies(x, Ending(j), S) + Copies(r, idleDecode, Pipes) + Occurrences(r, reqDecode)
    BY <1>1, <1>6 DEF picks
  <2>6. /\ Copies(r, idleDecode', Pipes) \in Nat /\ Copies(r, idleDecode, Pipes) \in Nat
    <3>1. IsFiniteSet(Pipes)
      BY <1>2, PipeFacts
    <3>2. \A g \in Pipes : idleDecode[g] \in Seq(Reqs)
      BY <1>4
    <3>3. \A g \in Pipes : idleDecode'[g] \in Seq(Reqs)
      BY <1>1, <1>6
    <3>4. Copies(r, idleDecode, Pipes) \in Nat
      BY <3>1, <3>2, CopiesNat
    <3>5. Copies(r, idleDecode', Pipes) \in Nat
      BY <3>1, <3>3, CopiesNat
    <3> QED BY <3>4, <3>5
  <2>7. Occurrences(r, reqDecode') \in Nat /\ Occurrences(r, reqDecode) \in Nat
    BY <1>1, <1>4, <1>6, OccNat
  <2> DEFINE a1 == Copies(x, Ending(j), S)
             a2 == Copies(x, Taken(j, picks), S)
             b1 == Copies(r, idleDecode, Pipes)
             b2 == Copies(r, idleDecode', Pipes)
             c1 == Occurrences(r, reqDecode)
             c2 == Occurrences(r, reqDecode')
             d == Copies(x, batch, C \ Ends(j))
             e1 == Copies(x, batch, C)
             e2 == Copies(x, new, C)
  <2>8. /\ e2 = a2 + d /\ e1 = a1 + d /\ a2 + b2 + c2 = a1 + b1 + c1
        /\ a1 \in Nat /\ a2 \in Nat /\ b1 \in Nat /\ b2 \in Nat /\ c1 \in Nat /\ c2 \in Nat /\ d \in Nat
    BY <2>3, <2>4, <2>5, <2>6, <2>7
  <2>9. e1 + c1 + b1 = IF req[r].phase = "DECODE" THEN 1 ELSE 0
    BY <2>1, <2>2
  <2> HIDE DEF a1, a2, b1, b2, c1, c2, d, e1, e2
  <2>10. e2 + c2 + b2 = e1 + c1 + b1
    BY <2>8
  <2> QED BY <2>2, <2>9, <2>10 DEF e2, c2, b2
<1>11. Chunked(req, Held(new, Open'))
  <2> SUFFICES ASSUME NEW r \in Reqs
               PROVE  req[r].distribute - req[r].prefills = Copies(Chunk(r), Held(new, Open'), PrefillSide)
    BY DEF Chunked
  <2>1. req[r].distribute - req[r].prefills = Copies(Chunk(r), Held(batch, Open), PrefillSide)
    BY <1>4 DEF Books, Chunked
  <2>2. /\ IsFiniteSet(PrefillSide)
        /\ \A c \in PrefillSide : c \in Cores \ C
    BY <1>2, Sides
  <2>3. \A c \in PrefillSide : Held(new, Open')[c] = Held(batch, Open)[c]
    BY <1>7, <1>8, <2>2 DEF Held
  <2>4. Copies(Chunk(r), Held(new, Open'), PrefillSide) = Copies(Chunk(r), Held(batch, Open), PrefillSide)
    BY <2>2, <2>3, CopiesSame
  <2> QED BY <2>1, <2>4
<1>12. Queued(req, unfinished)
  BY <1>2 DEF Queued
<1> QED BY <1>1, <1>4, <1>6, <1>7, <1>9, <1>10, <1>11, <1>12 DEF Books
-----------------------------------------------------------------------------
(* iter_start() of the mixed schedulers.                                   *)

\* The decodes of a mixed batch that iter_done has counted.
LEMMA ReturningFacts ==
  ASSUME setup \in Setups, NEW k \in 1..NumPipes("BOTH"), "BOTH" \in Jobs, NEW rq,
         Settled(batch[LastOf("BOTH", k)], "BOTH", rq)
  PROVE  /\ Returning(FirstCores("BOTH")[k]) \in Seq(Decodes)
         /\ \A r \in Reqs : Occurrences(Decoding(r), Returning(FirstCores("BOTH")[k])) =
                              Occurrences(Decoding(r), batch[LastOf("BOTH", k)])
<1> DEFINE P == {s \in StageType : s.type = "DECODE"}
           T == [req : Reqs, type : Outcomes("BOTH")]
           b == batch[LastOf("BOTH", k)]
<1>1. b \in Seq(T)
  BY DEF Settled
<1>2. T \cap P \subseteq Decodes
  BY DEF Decodes
<1>3. \A r \in Reqs : Decoding(r) \in P
  BY DEF Decoding, StageType, Phases
<1>4. Returning(FirstCores("BOTH")[k]) = Among(b, P)
  BY DEF Returning, LastOf, Stages
<1> HIDE DEF P, T, b
<1>5. Among(b, P) \in Seq(T \cap P) /\ \A x \in P : Occurrences(x, Among(b, P)) = Occurrences(x, b)
  BY <1>1, AmongFacts
<1>6. Among(b, P) \in Seq(Decodes)
  BY <1>2, <1>5, SeqSubset
<1> QED BY <1>3, <1>4, <1>5, <1>6 DEF b

\* The lists of the pipelines, in the order of their first cores.
ByFirst(j, lists) == [k \in 1..NumPipes(j) |-> lists[k - 1]]

\* They hold the same.
LEMMA ByFirstCopies ==
  ASSUME setup \in Setups, NEW j \in Jobs, j # "PREFILL", NEW lists \in [Pipes -> Seq(Reqs)], NEW x
  PROVE  /\ Copies(x, ByFirst(j, lists), 1..NumPipes(j)) = Copies(x, lists, Pipes)
         /\ Copies(x, lists, Pipes) \in Nat
         /\ \A k \in 1..NumPipes(j) : ByFirst(j, lists)[k] = lists[k - 1] /\ ByFirst(j, lists)[k] \in Seq(Reqs)
<1> DEFINE S == 1..NumPipes(j)
           q == ByFirst(j, lists)
           h == [k \in S |-> k - 1]
<1>1. NumPipes(j) \in Nat
  BY PipelineFacts
<1>2. IsFiniteSet(S)
  BY <1>1, FS_Interval
<1>3. \A k \in S : q[k] = lists[k - 1] /\ k - 1 \in Pipes
  BY PipeFacts DEF ByFirst
<1>4. \A k \in S : q[k] \in Seq(Reqs)
  BY <1>3
<1>5. Renames(h, S, Pipes)
  <2>1. \A k, m \in S : h[k] = h[m] => k = m
    BY <1>1
  <2>2. \A k \in S : h[k] \in Pipes
    BY <1>3
  <2>3. ASSUME NEW g \in Pipes PROVE \E k \in S : g = h[k]
    <3>1. g + 1 \in S /\ g \in Nat
      BY PipeFacts
    <3>2. h[g + 1] = g
      BY <3>1
    <3> HIDE DEF S, h
    <3> QED BY <3>1, <3>2
  <2> HIDE DEF S, h
  <2> QED BY <2>1, <2>2, <2>3 DEF Renames
<1>6. \A k \in S : Occurrences(x, lists[h[k]]) = Occurrences(x, q[k])
  BY <1>3
<1>7. IsFiniteSet(Pipes) /\ \A g \in Pipes : lists[g] \in Seq(Reqs)
  BY PipeFacts
<1>8. Copies(x, lists, Pipes) \in Nat
  BY <1>7, CopiesNat
<1> HIDE DEF S, q, h
<1>9. Copies(x, q, S) = Copies(x, lists, Pipes)
  BY <1>2, <1>4, <1>5, <1>6, CopiesReindex
<1> QED BY <1>3, <1>4, <1>8, <1>9 DEF S, q

\* The decodes that a mixed iteration begins with, and the waiting lists then.
MixedPicks == [c \in Range(FirstCores("BOTH")) |->
                 First(Credit, Returning(c)) \o AsStages(First(RoomToWait(c), Waiting(c)))]
MixedIdle == [g \in Pipes |-> LET c == FirstCores("BOTH")[g + 1]
                              IN  Rest(RoomToWait(c), Waiting(c))]

\* They are what came down and what waited.
LEMMA MixedPlanFacts ==
  ASSUME setup \in Setups, "BOTH" \in Jobs, batch \in Batches, idleDecode \in [Pipes -> Seq(Reqs)], NEW rq,
         \A c \in Ends("BOTH") : Settled(batch[c], "BOTH", rq)
  PROVE  /\ MixedIdle \in [Pipes -> Seq(Reqs)]
         /\ \A k \in 1..NumPipes("BOTH") : /\ MixedPicks[FirstCores("BOTH")[k]] \in Seq(Decodes)
                                           /\ Loaded(MixedPicks[FirstCores("BOTH")[k]], "BOTH")
         /\ \A r \in Reqs :
              Copies(Decoding(r), Taken("BOTH", MixedPicks), 1..NumPipes("BOTH")) + Copies(r, MixedIdle, Pipes) =
              Copies(Decoding(r), Ending("BOTH"), 1..NumPipes("BOTH")) + Copies(r, idleDecode, Pipes)
<1> DEFINE j == "BOTH"
           S == 1..NumPipes(j)
           f(k) == FirstCores(j)[k]
           live(k) == Returning(f(k))
<1>1. /\ \A k \in S : f(k) \in Range(FirstCores(j)) /\ LastOf(j, k) \in Ends(j) /\ LastOf(j, k) \in Cores
      /\ NumPipes(j) \in Nat
  <2>1. DOMAIN FirstCores(j) = S /\ NumPipes(j) \in Nat /\ \A k \in S : LastOf(j, k) \in Ends(j)
    BY PipelineFacts
  <2>2. \A c \in Ends(j) : c \in Cores
    BY DEF Ends, JobCores
  <2> QED BY <2>1, <2>2 DEF Range
<1>2. /\ \A k \in S : k - 1 \in Pipes /\ PipeOf(f(k)) = k - 1
      /\ \A g \in Pipes : g + 1 \in S /\ g \in Nat
      /\ IsFiniteSet(Pipes)
  BY PipeFacts
<1>3. ASSUME NEW k \in S
      PROVE  /\ live(k) \in Seq(Decodes) /\ idleDecode[k - 1] \in Seq(Reqs)
             /\ \A r \in Reqs : Occurrences(Decoding(r), live(k)) = Occurrences(Decoding(r), batch[LastOf(j, k)])
  <2>1. idleDecode[k - 1] \in Seq(Reqs)
    BY <1>2
  <2>2. Settled(batch[LastOf(j, k)], j, rq)
    BY <1>1
  <2> QED BY <2>1, <2>2, ReturningFacts
<1>4. ASSUME NEW k \in S
      PROVE  /\ MixedPicks[f(k)] = Refilled(live(k), idleDecode[k - 1])
             /\ MixedIdle[k - 1] = StillWaiting(live(k), idleDecode[k - 1])
  <2>1. f(k) \in Range(FirstCores(j)) /\ PipeOf(f(k)) = k - 1 /\ k - 1 \in Pipes
    BY <1>1, <1>2
  <2>2. (k - 1) + 1 = k
    BY <1>1
  <2>3. MixedPicks[f(k)] = Refilled(live(k), idleDecode[k - 1])
    BY <2>1 DEF MixedPicks, Refilled, RoomToWait, Waiting, RoomLeft, Line
  <2>4. MixedIdle[k - 1] = Rest(RoomToWait(f(k)), Waiting(f(k)))
    BY <2>1, <2>2 DEF MixedIdle
  <2>5. MixedIdle[k - 1] = StillWaiting(live(k), idleDecode[k - 1])
    BY <2>1, <2>4 DEF StillWaiting, RoomToWait, Waiting, RoomLeft, Line
  <2> QED BY <2>3, <2>5
<1>5. ASSUME NEW k \in S
      PROVE  /\ MixedPicks[f(k)] \in Seq(Decodes) /\ MixedIdle[k - 1] \in Seq(Reqs)
             /\ Len(MixedPicks[f(k)]) <= Credit
             /\ \A r \in Reqs : Occurrences(Decoding(r), MixedPicks[f(k)]) + Occurrences(r, MixedIdle[k - 1]) =
                                  Occurrences(Decoding(r), batch[LastOf(j, k)]) + Occurrences(r, idleDecode[k - 1])
  <2> DEFINE v == Refilled(live(k), idleDecode[k - 1])
             w == StillWaiting(live(k), idleDecode[k - 1])
             room == RoomForNew(live(k), idleDecode[k - 1])
  <2>1. /\ v \in Seq(Decodes) /\ w \in Seq(Reqs) /\ room \in Nat /\ Len(v) + room = Credit
        /\ \A r : Occurrences(Decoding(r), v) + Occurrences(r, w) =
                    Occurrences(Decoding(r), live(k)) + Occurrences(r, idleDecode[k - 1])
    BY <1>3, RefillFacts
  <2>2. MixedPicks[f(k)] = v /\ MixedIdle[k - 1] = w
    BY <1>4
  <2>3. Credit \in Nat
    BY SetupNumbers
  <2> HIDE DEF v, w, room
  <2>4. Len(v) \in Nat
    BY <2>1
  <2>5. Len(v) <= Credit
    BY <2>1, <2>3, <2>4
  <2>6. ASSUME NEW r \in Reqs
        PROVE  Occurrences(Decoding(r), v) + Occurrences(r, w) =
                 Occurrences(Decoding(r), batch[LastOf(j, k)]) + Occurrences(r, idleDecode[k - 1])
    BY <1>3, <2>1
  <2> QED BY <2>1, <2>2, <2>5, <2>6
<1>6. ASSUME NEW k \in S PROVE Loaded(MixedPicks[f(k)], j)
  <2> DEFINE b == MixedPicks[f(k)]
  <2>1. b \in Seq(Decodes) /\ Len(b) <= Credit
    BY <1>5
  <2> HIDE DEF b
  <2>2. b \in Seq(StageType) /\ CreditOf(j, b) = Len(b)
    BY <2>1, CreditOfDecodes DEF Decodes
  <2>3. Decodes \subseteq [req : Reqs, type : Work(j)]
    BY DEF Decodes, Work
  <2>4. b \in Seq([req : Reqs, type : Work(j)])
    BY <2>1, <2>3, SeqSubset
  <2>5. Credit = CoreCredit
    BY SetupNumbers
  <2>6. Loaded(b, j)
    BY <2>1, <2>2, <2>4, <2>5 DEF Loaded
  <2> QED BY <2>6 DEF b
<1>7. MixedIdle \in [Pipes -> Seq(Reqs)]
  <2>1. \A g \in Pipes : MixedIdle[g] \in Seq(Reqs)
    <3> TAKE g \in Pipes
    <3>1. g + 1 \in S /\ (g + 1) - 1 = g
      BY <1>2
    <3> HIDE DEF S
    <3> QED BY <1>5, <3>1
  <2>2. MixedIdle = [g \in Pipes |-> MixedIdle[g]]
    BY DEF MixedIdle
  <2> QED BY <2>1, <2>2
<1>8. ASSUME NEW r \in Reqs
      PROVE  Copies(Decoding(r), Taken(j, MixedPicks), S) + Copies(r, MixedIdle, Pipes) =
             Copies(Decoding(r), Ending(j), S) + Copies(r, idleDecode, Pipes)
  <2> DEFINE x == Decoding(r)
             q == Taken(j, MixedPicks)
             qq == Ending(j)
             p == ByFirst(j, MixedIdle)
             pp == ByFirst(j, idleDecode)
  <2>1. /\ Copies(r, p, S) = Copies(r, MixedIdle, Pipes)
        /\ Copies(r, pp, S) = Copies(r, idleDecode, Pipes)
        /\ \A k \in S : p[k] = MixedIdle[k - 1] /\ p[k] \in Seq(Reqs)
        /\ \A k \in S : pp[k] = idleDecode[k - 1] /\ pp[k] \in Seq(Reqs)
    BY <1>7, ByFirstCopies
  <2>2. \A k \in S : q[k] = MixedPicks[f(k)] /\ q[k] \in Seq(StageType)
    <3> TAKE k \in S
    <3>1. q[k] = MixedPicks[f(k)]
      BY DEF Taken
    <3>2. MixedPicks[f(k)] \in Seq(StageType)
      BY <1>6, BatchFacts
    <3> QED BY <3>1, <3>2
  <2>3. \A k \in S : qq[k] = batch[LastOf(j, k)] /\ qq[k] \in Seq(StageType)
    BY <1>1 DEF Ending, Batches
  <2>4. \A k \in S : Occurrences(x, q[k]) + Occurrences(r, p[k]) = Occurrences(x, qq[k]) + Occurrences(r, pp[k])
    BY <1>5, <2>1, <2>2, <2>3
  <2>5. \A k \in S : q[k] \in Seq(StageType) /\ qq[k] \in Seq(StageType) /\ p[k] \in Seq(Reqs) /\ pp[k] \in Seq(Reqs)
    BY <2>1, <2>2, <2>3
  <2>6. IsFiniteSet(S)
    BY <1>1, FS_Interval
  <2> HIDE DEF S, q, qq, p, pp, x
  <2>7. Copies(x, q, S) + Copies(r, p, S) = Copies(x, qq, S) + Copies(r, pp, S)
    BY <2>4, <2>5, <2>6, CopiesExchange
  <2>8. Copies(x, q, S) + Copies(r, MixedIdle, Pipes) = Copies(x, qq, S) + Copies(r, idleDecode, Pipes)
    BY <2>1, <2>7
  <2> QED BY <2>8 DEF x, q, qq
<1> QED BY <1>5, <1>6, <1>7, <1>8

\* The books of a step that changes none of what is in them.
LEMMA BooksSame ==
  ASSUME Books(req, batch, reqDecode, idleDecode, unfinished, Open),
         UNCHANGED <<req, batch, reqDecode, idleDecode, unfinished>>, Open' = Open
  PROVE  Books(req', batch', reqDecode', idleDecode', unfinished', Open')
OBVIOUS

\* All chunks in batches that are to be counted are on their way.
LEMMA HeldOpen ==
  ASSUME setup \in Setups, NEW j \in Jobs, NEW bt, NEW u, NEW x, \A c \in JobCores(j) : u[c]
  PROVE  Copies(x, Held(bt, u), JobCores(j)) = Copies(x, bt, JobCores(j))
<1> DEFINE C == JobCores(j)
           h == Held(bt, u)
<1>1. C \subseteq Cores /\ IsFiniteSet(C)
  BY SetupFacts
<1>2. \A c \in C : h[c] = bt[c]
  BY <1>1 DEF Held
<1> HIDE DEF C, h
<1>3. Copies(x, h, C) = Copies(x, bt, C)
  BY <1>1, <1>2, CopiesSame
<1> QED BY <1>3 DEF C, h

\* The mixed schedulers have one job, which has every core.
LEMMA OneJob ==
  ASSUME setup \in Setups, Mixed
  PROVE  /\ "BOTH" \in Jobs /\ JobCores("BOTH") = Cores
         /\ \A c \in Cores : JobOf(c) = "BOTH"
         /\ DecodeSide = Cores /\ PrefillSide = Cores
<1>1. "BOTH" \in Jobs /\ \A c \in Cores : JobOf(c) = "BOTH"
  BY DEF Jobs, JobOf
<1>2. JobCores("BOTH") = Cores
  BY <1>1 DEF JobCores
<1>3. DecodeSide = Cores /\ PrefillSide = Cores
  BY <1>1, <1>2, Sides
<1> QED BY <1>1, <1>2, <1>3

\* iter_start() of a mixed scheduler keeps the books.
LEMMA MixedBooks ==
  ASSUME ServeInv, TurnInv, setup' = setup, IterStartMixed
  PROVE  Books(req', batch', reqDecode', idleDecode', unfinished', Open')
<1> DEFINE j == "BOTH"
           picks == MixedPicks
           new == NewBatches(j, picks)
           S == 1..NumPipes(j)
<1>1. /\ config = "both" /\ config' = (IF busy[j] THEN "fill" ELSE "chunks")
      /\ UNCHANGED <<req, reqDecode, unfinished, primIndex, busy>>
  BY DEF IterStartMixed
<1>2. /\ setup \in Setups /\ Mixed /\ busy \in [Jobs -> BOOLEAN]
  BY <1>1 DEF TurnInv, Types, ConfigTurn
<1>3. /\ j \in Jobs /\ JobCores(j) = Cores /\ \A c \in Cores : JobOf(c) = j
      /\ DecodeSide = Cores /\ PrefillSide = Cores
  BY <1>2, OneJob
<1>4. /\ Books(req, batch, reqDecode, idleDecode, unfinished, Open)
      /\ batch \in Batches /\ reqDecode \in Seq(Reqs) /\ idleDecode \in [Pipes -> Seq(Reqs)]
  BY DEF ServeInv, Books
<1>5. Cores' = Cores /\ \A c \in Cores : JobOf(c)' = j
  BY <1>3, ScheduleKept
<1>6. ASSUME busy[j] \/ primIndex # 0 \/ config' = "chunks", NEW c \in Cores PROVE Open'[c]
  BY <1>1, <1>5, <1>6 DEF Open, Uncounted
<1>7. CASE busy[j] \/ primIndex # 0
  <2>1. UNCHANGED <<batch, idleDecode>>
    BY <1>7 DEF IterStartMixed
  <2>2. \A c \in Cores : Open[c] = TRUE /\ Open'[c] = TRUE
    BY <1>3, <1>6, <1>7 DEF Open, Uncounted
  <2>3. Open' = Open
    BY <1>5, <2>2 DEF Open
  <2> QED BY <1>1, <1>4, <2>1, <2>3, BooksSame
<1>8. CASE ~(busy[j] \/ primIndex # 0)
  <2>1. batch' = new /\ idleDecode' = MixedIdle /\ config' = "chunks"
    BY <1>1, <1>8 DEF IterStartMixed, MixedPicks, MixedIdle
  <2>2. \A c \in Cores : Open'[c]
    BY <1>6, <2>1
  <2>3. /\ \A c \in JobCores(j) \ Ends(j) : Loaded(batch[c], j)
        /\ \A c \in JobCores(j) : Settled(batch[c], j, req)
    BY <1>1, <1>2, <1>3, <1>4, <1>8, BooksBefore
  <2>4. /\ MixedIdle \in [Pipes -> Seq(Reqs)]
        /\ \A k \in S : picks[FirstCores(j)[k]] \in Seq(Decodes) /\ Loaded(picks[FirstCores(j)[k]], j)
        /\ \A r \in Reqs : Copies(Decoding(r), Taken(j, picks), S) + Copies(r, MixedIdle, Pipes) =
                           Copies(Decoding(r), Ending(j), S) + Copies(r, idleDecode, Pipes)
    <3>1. \A c \in Ends(j) : Settled(batch[c], j, req)
      BY <2>3 DEF Ends
    <3> QED BY <1>2, <1>3, <1>4, <3>1, MixedPlanFacts
  <2> HIDE DEF picks
  <2>5. /\ new \in Batches /\ \A c \in JobCores(j) : Loaded(new[c], j)
    BY <1>2, <1>3, <1>4, <2>3, <2>4, NewLoaded
  <2>6. \A c \in Cores : BatchOK(new[c], JobOf(c), req, Open'[c])
    BY <1>3, <2>2, <2>5 DEF BatchOK
  <2>7. \A x : /\ Copies(x, new, Cores) = Copies(x, Taken(j, picks), S) + Copies(x, batch, Cores \ Ends(j))
               /\ Copies(x, Taken(j, picks), S) \in Nat
    <3>1. \A k \in 1..NumPipes(j) : picks[FirstCores(j)[k]] \in Seq(StageType)
      BY <2>4, BatchFacts
    <3> QED BY <1>2, <1>3, <1>4, <3>1, ShiftCopies
  <2> HIDE DEF new
  <2>8. Placed(req, new, reqDecode, MixedIdle)
    <3> SUFFICES ASSUME NEW r \in Reqs
                 PROVE  Copies(Decoding(r), new, DecodeSide) + Occurrences(r, reqDecode) + Copies(r, MixedIdle, Pipes) =
                          IF req[r].phase = "DECODE" THEN 1 ELSE 0
      BY DEF Placed
    <3> DEFINE x == Decoding(r)
               a1 == Copies(x, Ending(j), S)
               a2 == Copies(x, Taken(j, picks), S)
               b1 == Copies(r, idleDecode, Pipes)
               b2 == Copies(r, MixedIdle, Pipes)
               c == Occurrences(r, reqDecode)
               d == Copies(x, batch, Cores \ Ends(j))
               e1 == Copies(x, batch, Cores)
               e2 == Copies(x, new, Cores)
    <3>1. e1 + c + b1 = IF req[r].phase = "DECODE" THEN 1 ELSE 0
      BY <1>3, <1>4 DEF Books, Placed
    <3>2. e2 = a2 + d /\ a2 \in Nat
      BY <2>7
    <3>3. e1 = a1 + d /\ d \in Nat /\ a1 \in Nat
      BY <1>2, <1>3, <1>4, EndCopies
    <3>4. a2 + b2 = a1 + b1
      BY <2>4
    <3>5. b1 \in Nat
      BY <1>2, <1>3, <1>4, ByFirstCopies
    <3>6. b2 \in Nat
      BY <1>2, <1>3, <2>4, ByFirstCopies
    <3>7. c \in Nat
      BY <1>4, OccNat
    <3> HIDE DEF a1, a2, b1, b2, c, d, e1, e2
    <3>8. e2 + c + b2 = e1 + c + b1
      BY <3>2, <3>3, <3>4, <3>5, <3>6, <3>7
    <3> QED BY <1>3, <3>1, <3>8 DEF e2, c, b2
  <2>9. Chunked(req, Held(new, Open'))
    <3> SUFFICES ASSUME NEW r \in Reqs
                 PROVE  req[r].distribute - req[r].prefills = Copies(Chunk(r), Held(new, Open'), Cores)
      BY <1>3 DEF Chunked
    <3> DEFINE x == Chunk(r)
               q == Taken(j, picks)
    <3>1. req[r].distribute - req[r].prefills = Copies(x, Held(batch, Open), Cores)
      BY <1>3, <1>4 DEF Books, Chunked
    <3>2. Copies(x, Held(batch, Open), Cores) = Copies(x, batch, Cores \ Ends(j))
      <4> HIDE DEF x
      <4> QED BY <1>1, <1>2, <1>3, <1>4, <1>8, HeldBefore
    <3>3. Copies(x, Held(new, Open'), Cores) = Copies(x, new, Cores)
      <4> HIDE DEF x
      <4> QED BY <1>2, <1>3, <2>2, HeldOpen
    <3>4. Copies(x, q, S) = 0
      <4>1. \A k \in S : q[k] \in Seq(Decodes)
        BY <2>4 DEF Taken
      <4>2. \A s \in Decodes : s # x
        BY DEF Decodes, Chunk
      <4> HIDE DEF x, q
      <4>3. \A k \in S : Occurrences(x, q[k]) = 0
        <5> TAKE k \in S
        <5>1. q[k] \in Seq(Decodes)
          BY <4>1
        <5>2. \A i \in 1..Len(q[k]) : q[k][i] # x
          BY <4>2, <5>1
        <5> QED BY <5>1, <5>2, OccNone
      <4>4. NumPipes(j) \in Nat
        BY <1>2, <1>3, PipelineFacts
      <4>5. IsFiniteSet(S)
        BY <4>4, FS_Interval
      <4> HIDE DEF S
      <4> QED BY <4>3, <4>5, CopiesZero
    <3>5. Copies(x, new, Cores) = Copies(x, q, S) + Copies(x, batch, Cores \ Ends(j))
      BY <2>7
    <3>6. Copies(x, batch, Cores \ Ends(j)) \in Nat
      BY <1>2, <1>3, <1>4, EndCopies
    <3> HIDE DEF x, q, S
    <3>7. req[r].distribute - req[r].prefills = Copies(x, Held(new, Open'), Cores)
      BY <3>1, <3>2, <3>3, <3>4, <3>5, <3>6
    <3> QED BY <3>7 DEF x
  <2> QED BY <1>1, <1>4, <2>1, <2>4, <2>5, <2>6, <2>8, <2>9 DEF Books
<1> QED BY <1>7, <1>8
-----------------------------------------------------------------------------
(* The chunks of a mixed iteration.                                        *)

\* What a pipeline's queue of prompts becomes when a chunk of r is taken.
Requeued(list, r, left) ==
  (IF list = <<>> THEN <<>> ELSE Tail(list)) \o (IF left THEN <<r>> ELSE <<>>)

\* At most one prompt leaves the queue and at most one joins it.
LEMMA RequeuedFacts ==
  ASSUME NEW list \in Seq(Reqs), NEW r \in Reqs, NEW left \in BOOLEAN, list # <<>> => r = Head(list), NEW p
  PROVE  /\ Requeued(list, r, left) \in Seq(Reqs)
         /\ Occurrences(p, Requeued(list, r, left)) =
              Occurrences(p, list) - (IF list # <<>> /\ p = r THEN 1 ELSE 0) + (IF left /\ p = r THEN 1 ELSE 0)
<1> DEFINE a == IF list = <<>> THEN <<>> ELSE Tail(list)
           b == IF left THEN <<r>> ELSE <<>>
<1>1. <<>> \in Seq(Reqs) /\ <<r>> \in Seq(Reqs) /\ <<r>> = Append(<<>>, r)
  OBVIOUS
<1>2. Occurrences(p, <<>>) = 0
  BY OccEmpty
<1>3. Occurrences(p, <<r>>) = IF p = r THEN 1 ELSE 0
  <2>1. Occurrences(p, Append(<<>>, r)) = Occurrences(p, <<>>) + IF r = p THEN 1 ELSE 0
    BY <1>1, OccAppend
  <2> QED BY <1>1, <1>2, <2>1
<1>4. Occurrences(p, list) \in Nat
  BY OccNat
<1>5. a \in Seq(Reqs) /\ Occurrences(p, a) = Occurrences(p, list) - (IF list # <<>> /\ p = r THEN 1 ELSE 0)
  <2>1. CASE list = <<>>
    BY <1>1, <1>2, <2>1
  <2>2. CASE list # <<>>
    <3>1. /\ Tail(list) \in Seq(Reqs)
          /\ Occurrences(p, list) = Occurrences(p, Tail(list)) + IF r = p THEN 1 ELSE 0
      BY <2>2, OccTail
    <3>2. Occurrences(p, Tail(list)) \in Nat
      BY <3>1, OccNat
    <3>3. a = Tail(list)
      BY <2>2
    <3> HIDE DEF a
    <3> QED BY <2>2, <3>1, <3>2, <3>3
  <2> QED BY <2>1, <2>2
<1>6. b \in Seq(Reqs) /\ Occurrences(p, b) = IF left /\ p = r THEN 1 ELSE 0
  BY <1>1, <1>2, <1>3
<1>7. Requeued(list, r, left) = a \o b
  BY DEF Requeued
<1> HIDE DEF a, b
<1>8. Occurrences(p, a \o b) = Occurrences(p, a) + Occurrences(p, b) /\ a \o b \in Seq(Reqs)
  BY <1>5, <1>6, OccConcat
<1> QED BY <1>4, <1>5, <1>6, <1>7, <1>8

\* The prompt of which PickChunk takes a chunk, and the core that gets it.
LEMMA HungryFacts ==
  ASSUME ServeInv, setup \in Setups, Mixed, Hungry # {}
  PROVE  \E c \in Cores, r \in Reqs :
           /\ c = Min(Hungry) /\ r = Min(Candidates(c)) /\ PipeOf(c) \in Pipes
           /\ CreditOf("BOTH", batch[c]) + setup.ratio <= CoreCredit
           /\ Available(req, r)
           /\ unfinished[PipeOf(c)] # <<>> => r = Head(unfinished[PipeOf(c)])
           /\ unfinished[PipeOf(c)] = <<>> => req[r].phase = "UNTOUCHED"
<1> DEFINE j == "BOTH"
           c == Min(Hungry)
           g == PipeOf(c)
           r == Min(Candidates(c))
           list == unfinished[g]
<1>0. j \in Jobs /\ JobCores(j) = Cores /\ \A d \in Cores : JobOf(d) = j
  BY OneJob
<1>1. /\ \A d \in Hungry : /\ d \in Range(FirstCores(j))
                           /\ Credit - CreditOf("BOTH", batch[d]) >= setup.ratio /\ Candidates(d) # {}
  BY DEF Hungry
<1>2. ASSUME NEW d \in Range(FirstCores(j)) PROVE d \in Cores /\ PipeOf(d) \in Pipes
  <2>1. PICK k \in 1..NumPipes(j) : d = FirstCores(j)[k]
    <3>1. DOMAIN FirstCores(j) = 1..NumPipes(j)
      BY <1>0, PipelineFacts
    <3> QED BY <3>1 DEF Range
  <2>2. FirstCores(j)[k] \in Begins(j) /\ k - 1 \in Pipes /\ PipeOf(FirstCores(j)[k]) = k - 1
    BY <1>0, PipelineFacts, PipeFacts
  <2> QED BY <1>0, <2>1, <2>2 DEF Begins
<1>3. Cores \subseteq Nat
  BY PdAssumption DEF Cores, PrefillCores, DecodeCores
<1>4. Hungry \subseteq Nat
  BY <1>1, <1>2, <1>3
<1>5. c \in Hungry
  BY <1>4, MinFacts
<1> HIDE DEF c
<1>6. /\ c \in Cores /\ g \in Pipes /\ Candidates(c) # {}
      /\ Credit - CreditOf("BOTH", batch[c]) >= setup.ratio
  BY <1>1, <1>2, <1>5
<1>7. /\ Books(req, batch, reqDecode, idleDecode, unfinished, Open) /\ arrived \subseteq Reqs
      /\ Recorded(req) /\ unfinished \in [Pipes -> Seq(Reqs)] /\ batch \in Batches
  BY DEF ServeInv, Flags, Books
<1>8. list \in Seq(Reqs) /\ batch[c] \in Seq(StageType)
  BY <1>6, <1>7 DEF Batches
<1>9. /\ list # <<>> => Candidates(c) = {Head(list)}
      /\ list = <<>> => Candidates(c) = {p \in arrived : req[p].phase = "UNTOUCHED"}
  BY DEF Candidates
<1> HIDE DEF g, list
<1>10. list # <<>> => Head(list) \in Reqs
  BY <1>8
<1>11. Candidates(c) \subseteq Reqs
  BY <1>7, <1>9, <1>10
<1>12. r \in Candidates(c)
  <2>1. Candidates(c) \subseteq Nat
    BY <1>11, SetupNumbers
  <2> QED BY <1>6, <2>1, MinFacts
<1> HIDE DEF r
<1>13. r \in Reqs /\ (list # <<>> => r = Head(list)) /\ (list = <<>> => req[r].phase = "UNTOUCHED")
  BY <1>9, <1>11, <1>12
<1>14. Available(req, r)
  <2>1. CASE list = <<>>
    <3>1. Counters(req[r]) /\ req[r].phase = "UNTOUCHED"
      BY <1>7, <1>13, <2>1 DEF Recorded
    <3>2. req[r].distribute = 0
      BY <3>1 DEF Counters
    <3> QED BY <3>1, <3>2, SetupNumbers DEF Available, ChunksLeft
  <2>2. CASE list # <<>>
    <3>1. Occurrences(r, list) >= 1 /\ Occurrences(r, list) \in Nat
      <4>1. Len(list) \in Nat /\ Len(list) # 0
        BY <1>8, <2>2
      <4>2. 1 \in 1..Len(list) /\ list[1] = Head(list)
        BY <1>8, <4>1
      <4>3. Occurrences(list[1], list) >= 1
        BY <1>8, <4>2, OccSome
      <4> QED BY <1>8, <1>13, <2>2, <4>2, <4>3, OccNat
    <3>2. Copies(r, unfinished, Pipes) \in Nat /\ Occurrences(r, list) <= Copies(r, unfinished, Pipes)
      <4>1. IsFiniteSet(Pipes)
        BY <1>0, PipeFacts
      <4>2. \A k \in Pipes : unfinished[k] \in Seq(Reqs)
        BY <1>7
      <4>3. /\ Copies(r, unfinished, Pipes) \in Nat
            /\ \A k \in Pipes : Occurrences(r, unfinished[k]) <= Copies(r, unfinished, Pipes)
        BY <4>1, <4>2, CopiesNat
      <4> QED BY <1>6, <4>3 DEF list
    <3>3. Copies(r, unfinished, Pipes) = IF req[r].phase = "PREFILL" /\ ChunksLeft(req[r]) THEN 1 ELSE 0
      BY <1>7, <1>13 DEF Books, Queued
    <3>4. req[r].phase = "PREFILL" /\ ChunksLeft(req[r])
      BY <3>1, <3>2, <3>3
    <3> QED BY <3>4 DEF Available
  <2> QED BY <2>1, <2>2
<1>15. CreditOf("BOTH", batch[c]) + setup.ratio <= CoreCredit
  <2> DEFINE b == batch[c]
             m == ChunksIn(b)
             t == setup.ratio
             e == CreditOf("BOTH", b)
             k == m * t
  <2>1. b \in Seq(StageType)
    BY <1>8
  <2> HIDE DEF b
  <2>2. e = Len(b) - m + m * t /\ m \in Nat
    BY <2>1, CreditValue, ChunksInFacts
  <2>3. t \in Nat /\ CoreCredit \in Nat /\ Credit = CoreCredit
    BY SetupNumbers
  <2>4. Credit - e >= t
    BY <1>6 DEF b
  <2>5. k \in Nat
    <3> HIDE DEF m, t
    <3> QED BY <2>2, <2>3
  <2>6. Len(b) \in Nat
    BY <2>1
  <2>7. e = Len(b) - m + k
    BY <2>2
  <2> HIDE DEF m, t, e, k
  <2>8. e \in Int
    BY <2>2, <2>5, <2>6, <2>7
  <2>9. e + t <= CoreCredit
    BY <2>3, <2>4, <2>8
  <2> QED BY <2>9 DEF e, t, b
<1>16. c = Min(Hungry) /\ r = Min(Candidates(c))
  BY DEF c, r
<1> QED BY <1>6, <1>13, <1>14, <1>15, <1>16 DEF g, list

\* A chunk for one more core keeps the books.
LEMMA PickChunkBooks ==
  ASSUME ServeInv, TurnInv, setup' = setup, PickChunk
  PROVE  Books(req', batch', reqDecode', idleDecode', unfinished', Open')
<1> DEFINE j == "BOTH"
<1>1. /\ config = "chunks" /\ Hungry # {}
      /\ UNCHANGED <<reqDecode, idleDecode, config, primIndex, busy>>
  BY DEF PickChunk
<1>2. setup \in Setups /\ Mixed
  BY <1>1 DEF TurnInv, Types, ConfigTurn
<1>3. /\ j \in Jobs /\ JobCores(j) = Cores /\ \A c \in Cores : JobOf(c) = j
      /\ DecodeSide = Cores /\ PrefillSide = Cores
  BY <1>2, OneJob
<1>4. /\ Books(req, batch, reqDecode, idleDecode, unfinished, Open)
      /\ batch \in Batches /\ reqDecode \in Seq(Reqs) /\ idleDecode \in [Pipes -> Seq(Reqs)]
      /\ Recorded(req) /\ unfinished \in [Pipes -> Seq(Reqs)]
  BY DEF ServeInv, Books
<1>5. PICK c \in Cores, r \in Reqs :
           /\ c = Min(Hungry) /\ r = Min(Candidates(c)) /\ PipeOf(c) \in Pipes
           /\ CreditOf("BOTH", batch[c]) + setup.ratio <= CoreCredit
           /\ Available(req, r)
           /\ unfinished[PipeOf(c)] # <<>> => r = Head(unfinished[PipeOf(c)])
           /\ unfinished[PipeOf(c)] = <<>> => req[r].phase = "UNTOUCHED"
  BY <1>1, <1>2, HungryFacts
<1> DEFINE g == PipeOf(c)
           b == batch[c]
           list == unfinished[g]
           left == ChunksLeft(Handed(req, r)[r])
           rq == Handed(req, r)
           new == [batch EXCEPT ![c] = Append(b, Chunk(r))]
           un == [unfinished EXCEPT ![g] = Requeued(list, r, left)]
<1>6. req' = rq /\ batch' = new /\ unfinished' = un
  <2>1. req' = [req EXCEPT ![r].phase = "PREFILL", ![r].distribute = @ + 1]
    BY <1>5 DEF PickChunk
  <2>2. req' = rq
    BY <2>1 DEF Handed
  <2>3. batch' = [batch EXCEPT ![c] = Append(@, [req |-> r, type |-> "PREFILL"])]
    BY <1>5 DEF PickChunk
  <2>4. batch' = new
    BY <2>3 DEF Chunk
  <2>5. unfinished' = [unfinished EXCEPT ![PipeOf(c)] =
              (IF @ = <<>> THEN <<>> ELSE Tail(@))
                \o (IF ChunksLeft(req'[r]) THEN <<r>> ELSE <<>>)]
    BY <1>5 DEF PickChunk
  <2>6. unfinished' = un
    <3> HIDE DEF rq
    <3> QED BY <1>4, <1>5, <2>2, <2>5 DEF Requeued, rq
  <2> QED BY <2>2, <2>4, <2>6
<1>7. /\ Recorded(rq)
      /\ \A p \in Reqs : /\ rq[p].prefills = req[p].prefills
                         /\ rq[p].phase = "DECODE" <=> req[p].phase = "DECODE"
                         /\ rq[p].distribute = req[p].distribute + (IF p = r THEN 1 ELSE 0)
                         /\ p # r => rq[p] = req[p]
      /\ rq[r].phase = "PREFILL"
  BY <1>2, <1>4, <1>5, HandedFacts
<1>8. /\ b \in Seq(StageType) /\ Chunk(r) \in StageType
      /\ list \in Seq(Reqs) /\ left \in BOOLEAN /\ g \in Pipes
  <2>1. left \in BOOLEAN
    BY DEF ChunksLeft
  <2>2. Chunk(r) \in StageType
    BY DEF Chunk, StageType, Phases
  <2> HIDE DEF left
  <2> QED BY <1>4, <1>5, <2>1, <2>2 DEF Batches
<1>9. \A d \in Cores : Open[d] /\ Open'[d]
  <2>1. Cores' = Cores
    BY ScheduleKept
  <2> QED BY <1>1, <2>1 DEF Open, Uncounted
<1>10. \A d \in Cores : Loaded(batch[d], j)
  BY <1>3, <1>4, <1>9 DEF Books, BatchOK
<1> HIDE DEF rq, left
<1>11. /\ new \in Batches /\ new[c] = Append(b, Chunk(r))
       /\ \A d \in Cores : d # c => new[d] = batch[d]
  <2>1. Append(b, Chunk(r)) \in Seq(StageType)
    BY <1>8
  <2> QED BY <1>4, <2>1 DEF Batches
<1>12. \A d \in Cores : Loaded(new[d], j)
  <2>1. Loaded(Append(b, Chunk(r)), j)
    <3>1. CreditOf(j, Append(b, Chunk(r))) <= CoreCredit
      <4>1. CreditOf(j, Append(b, Chunk(r))) = CreditOf(j, b) + setup.ratio
        BY <1>2, <1>8, CreditOfChunk
      <4> QED BY <1>5, <4>1
    <3>2. b \in Seq([req : Reqs, type : Work(j)])
      BY <1>10 DEF Loaded
    <3>3. Chunk(r) \in [req : Reqs, type : Work(j)]
      BY DEF Chunk, Work
    <3>4. Append(b, Chunk(r)) \in Seq([req : Reqs, type : Work(j)])
      <4> DEFINE T == [req : Reqs, type : Work(j)]
      <4> HIDE DEF T, b
      <4>1. b \in Seq(T) /\ Chunk(r) \in T
        BY <3>2, <3>3 DEF T
      <4>2. Append(b, Chunk(r)) \in Seq(T)
        BY <4>1
      <4> QED BY <4>2 DEF T
    <3> QED BY <3>1, <3>4 DEF Loaded
  <2> HIDE DEF new
  <2> QED BY <1>10, <1>11, <2>1
<1>13. \A d \in Cores : BatchOK(new[d], JobOf(d), rq, Open'[d])
  BY <1>3, <1>9, <1>12 DEF BatchOK
<1>14. IsFiniteSet(Cores) /\ IsFiniteSet(Pipes)
  BY <1>2, <1>3, SetupFacts, PipeFacts
<1> HIDE DEF new, un, b, list, g
<1>15. ASSUME NEW x
       PROVE  /\ Copies(x, new, Cores) = Copies(x, batch, Cores) + (IF Chunk(r) = x THEN 1 ELSE 0)
              /\ Copies(x, batch, Cores) \in Nat
  <2>1. Occurrences(x, new[c]) = Occurrences(x, b) + (IF Chunk(r) = x THEN 1 ELSE 0)
    BY <1>8, <1>11, OccAppend
  <2>2. Occurrences(x, b) \in Nat
    BY <1>8, OccNat
  <2> DEFINE S == Cores
             m == c
  <2>3. IsFiniteSet(S)
    BY <1>14
  <2>4. m \in S
    OBVIOUS
  <2>5. \A d \in S : batch[d] \in Seq(StageType) /\ new[d] \in Seq(StageType)
    BY <1>4, <1>11 DEF Batches
  <2>6. \A d \in S : d # m => Occurrences(x, new[d]) = Occurrences(x, batch[d])
    BY <1>11
  <2>7. \A d \in S : batch[d] \in Seq(StageType)
    BY <2>5
  <2> HIDE DEF S, m
  <2>8. Copies(x, new, S) = Copies(x, batch, S) - Occurrences(x, batch[m]) + Occurrences(x, new[m])
    BY <2>3, <2>4, <2>5, <2>6, CopiesUpdate
  <2>9. Copies(x, batch, S) \in Nat
    BY <2>3, <2>7, CopiesNat
  <2>10. batch[m] = b /\ new[m] = new[c]
    BY DEF m, b
  <2>11. Copies(x, new, S) = Copies(x, batch, S) + (IF Chunk(r) = x THEN 1 ELSE 0)
    <3> DEFINE k1 == Copies(x, new, S)
               k0 == Copies(x, batch, S)
               o1 == Occurrences(x, new[m])
               o0 == Occurrences(x, batch[m])
    <3>1. /\ k1 = k0 - o0 + o1 /\ k0 \in Nat /\ o0 \in Nat
          /\ o1 = o0 + (IF Chunk(r) = x THEN 1 ELSE 0)
      BY <2>1, <2>2, <2>8, <2>9, <2>10
    <3> HIDE DEF k1, k0, o1, o0
    <3>2. k1 = k0 + (IF Chunk(r) = x THEN 1 ELSE 0)
      BY <3>1
    <3> QED BY <3>2 DEF k1, k0
  <2> QED BY <2>9, <2>11 DEF S
<1>16. Placed(rq, new, reqDecode, idleDecode)
  <2> SUFFICES ASSUME NEW p \in Reqs
               PROVE  Copies(Decoding(p), new, DecodeSide) + Occurrences(p, reqDecode) + Copies(p, idleDecode, Pipes) =
                        IF rq[p].phase = "DECODE" THEN 1 ELSE 0
    BY DEF Placed
  <2>1. Copies(Decoding(p), batch, Cores) + Occurrences(p, reqDecode) + Copies(p, idleDecode, Pipes) =
          IF req[p].phase = "DECODE" THEN 1 ELSE 0
    BY <1>3, <1>4 DEF Books, Placed
  <2>2. Chunk(r) # Decoding(p)
    BY DEF Chunk, Decoding
  <2>3. Copies(Decoding(p), new, Cores) = Copies(Decoding(p), batch, Cores)
    BY <1>15, <2>2
  <2> QED BY <1>3, <1>7, <2>1, <2>3
<1>17. Chunked(rq, Held(new, Open'))
  <2> SUFFICES ASSUME NEW p \in Reqs
               PROVE  rq[p].distribute - rq[p].prefills = Copies(Chunk(p), Held(new, Open'), Cores)
    BY <1>3 DEF Chunked
  <2> DEFINE x == Chunk(p)
  <2>1. req[p].distribute - req[p].prefills = Copies(x, Held(batch, Open), Cores)
    BY <1>3, <1>4 DEF Books, Chunked
  <2>2. Chunk(r) = x <=> p = r
    BY DEF Chunk
  <2> HIDE DEF x
  <2>3. Copies(x, Held(batch, Open), Cores) = Copies(x, batch, Cores)
    BY <1>2, <1>3, <1>9, HeldOpen
  <2>4. Copies(x, Held(new, Open'), Cores) = Copies(x, new, Cores)
    BY <1>2, <1>3, <1>9, HeldOpen
  <2>5. Copies(x, new, Cores) = Copies(x, batch, Cores) + (IF p = r THEN 1 ELSE 0) /\ Copies(x, batch, Cores) \in Nat
    BY <1>15, <2>2
  <2>6. req[p].distribute \in Int /\ req[p].prefills \in Int
    BY <1>2, <1>4, SetupNumbers DEF Recorded, Records
  <2>7. rq[p].prefills = req[p].prefills /\ rq[p].distribute = req[p].distribute + (IF p = r THEN 1 ELSE 0)
    BY <1>7
  <2>8. rq[p].distribute - rq[p].prefills = Copies(x, Held(new, Open'), Cores)
    BY <2>1, <2>3, <2>4, <2>5, <2>6, <2>7
  <2> QED BY <2>8 DEF x
<1>18. \A p : /\ Requeued(list, r, left) \in Seq(Reqs)
              /\ Occurrences(p, Requeued(list, r, left)) =
                   Occurrences(p, list) - (IF list # <<>> /\ p = r THEN 1 ELSE 0) + (IF left /\ p = r THEN 1 ELSE 0)
  <2>1. list # <<>> => r = Head(list)
    BY <1>5 DEF list, g
  <2> QED BY <1>8, <2>1, RequeuedFacts
<1>19. /\ un \in [Pipes -> Seq(Reqs)] /\ un[g] = Requeued(list, r, left)
       /\ \A k \in Pipes : k # g => un[k] = unfinished[k]
  BY <1>4, <1>8, <1>18 DEF un
<1>20. Queued(rq, un)
  <2> SUFFICES ASSUME NEW p \in Reqs
               PROVE  Copies(p, un, Pipes) = IF rq[p].phase = "PREFILL" /\ ChunksLeft(rq[p]) THEN 1 ELSE 0
    BY DEF Queued
  <2>1. Copies(p, unfinished, Pipes) = IF req[p].phase = "PREFILL" /\ ChunksLeft(req[p]) THEN 1 ELSE 0
    BY <1>2, <1>4 DEF Books, Queued
  <2>2. /\ Copies(p, un, Pipes) = Copies(p, unfinished, Pipes) - Occurrences(p, unfinished[g]) + Occurrences(p, un[g])
        /\ Copies(p, unfinished, Pipes) \in Nat
    <3>1. IsFiniteSet(Pipes)
      BY <1>14
    <3>2. g \in Pipes
      BY <1>8
    <3>3. \A k \in Pipes : unfinished[k] \in Seq(Reqs) /\ un[k] \in Seq(Reqs)
      BY <1>4, <1>19
    <3>4. \A k \in Pipes : k # g => Occurrences(p, un[k]) = Occurrences(p, unfinished[k])
      BY <1>19
    <3>5. \A k \in Pipes : unfinished[k] \in Seq(Reqs)
      BY <3>3
    <3>6. Copies(p, un, Pipes) = Copies(p, unfinished, Pipes) - Occurrences(p, unfinished[g]) + Occurrences(p, un[g])
      BY <3>1, <3>2, <3>3, <3>4, CopiesUpdate
    <3> QED BY <3>1, <3>5, <3>6, CopiesNat
  <2>3. Occurrences(p, un[g]) =
          Occurrences(p, list) - (IF list # <<>> /\ p = r THEN 1 ELSE 0) + (IF left /\ p = r THEN 1 ELSE 0)
    BY <1>18, <1>19
  <2>4. unfinished[g] = list /\ Occurrences(p, list) \in Nat
    BY <1>8, OccNat DEF list
  <2> DEFINE k1 == Copies(p, un, Pipes)
             k0 == Copies(p, unfinished, Pipes)
             o1 == Occurrences(p, un[g])
             o0 == Occurrences(p, list)
  <2>5. k1 = k0 - o0 + o1 /\ k0 \in Nat /\ o0 \in Nat
    BY <2>2, <2>4
  <2>6. o1 = o0 - (IF list # <<>> /\ p = r THEN 1 ELSE 0) + (IF left /\ p = r THEN 1 ELSE 0)
    BY <2>3
  <2>7. k0 = IF req[p].phase = "PREFILL" /\ ChunksLeft(req[p]) THEN 1 ELSE 0
    BY <2>1
  <2>8. CASE p # r
    <3>1. rq[p] = req[p]
      BY <1>7, <2>8
    <3> HIDE DEF k0, k1, o0, o1
    <3>2. k1 = k0
      BY <2>5, <2>6, <2>8
    <3> QED BY <2>7, <3>1, <3>2 DEF k1
  <2>9. CASE p = r
    <3>1. rq[p].phase = "PREFILL" /\ (ChunksLeft(rq[p]) <=> left)
      BY <1>7, <2>9 DEF left, rq
    <3>2. k0 = IF list # <<>> THEN 1 ELSE 0
      <4>1. CASE list # <<>>
        <5>1. Occurrences(r, list) >= 1
          <6>1. r = Head(list)
            BY <1>5, <4>1 DEF list, g
          <6>2. Occurrences(r, list) = Occurrences(r, Tail(list)) + 1 /\ Tail(list) \in Seq(Reqs)
            BY <1>8, <4>1, <6>1, OccTail
          <6>3. Occurrences(r, Tail(list)) \in Nat
            BY <6>2, OccNat
          <6> QED BY <6>2, <6>3
        <5>2. Occurrences(r, list) <= k0 /\ k0 \in Nat
          <6>1. \A k \in Pipes : unfinished[k] \in Seq(Reqs)
            BY <1>4
          <6>2. IsFiniteSet(Pipes)
            BY <1>14
          <6>3. \A k \in Pipes : Occurrences(p, unfinished[k]) <= Copies(p, unfinished, Pipes)
            BY <6>1, <6>2, CopiesNat
          <6> QED BY <1>8, <2>4, <2>5, <2>9, <6>3
        <5>o. Occurrences(r, list) \in Nat
          BY <1>8, OccNat
        <5> DEFINE m == Occurrences(r, list)
        <5> HIDE DEF k0, m
        <5>3. k0 >= 1
          BY <5>1, <5>2, <5>o DEF m
        <5> QED BY <2>7, <4>1, <5>3
      <4>2. CASE list = <<>>
        <5>1. req[r].phase = "UNTOUCHED"
          BY <1>5, <4>2 DEF list, g
        <5> HIDE DEF k0
        <5> QED BY <2>7, <2>9, <4>2, <5>1
      <4> QED BY <4>1, <4>2
    <3> HIDE DEF k0, k1, o0, o1
    <3>3. k1 = IF left THEN 1 ELSE 0
      BY <2>5, <2>6, <2>9, <3>2
    <3> QED BY <3>1, <3>3 DEF k1
  <2> QED BY <2>8, <2>9
<1> QED BY <1>1, <1>4, <1>6, <1>7, <1>11, <1>13, <1>16, <1>17, <1>19, <1>20 DEF Books

\* The end of a mixed schedule: the batches are on their way, or all are empty.
LEMMA MixedReadyBooks ==
  ASSUME ServeInv, TurnInv, setup' = setup, MixedReady
  PROVE  Books(req', batch', reqDecode', idleDecode', unfinished', Open')
<1> DEFINE j == "BOTH"
<1>1. /\ config = "chunks" /\ config' = "fill" /\ Announce(j, batch)
      /\ UNCHANGED <<req, batch, reqDecode, idleDecode, unfinished, primIndex>>
  BY DEF MixedReady
<1>2. setup \in Setups /\ Mixed /\ busy \in [Jobs -> BOOLEAN]
  BY <1>1 DEF TurnInv, Types, ConfigTurn
<1>3. /\ j \in Jobs /\ JobCores(j) = Cores /\ \A c \in Cores : JobOf(c) = j
      /\ PrefillSide = Cores
  BY <1>2, OneJob
<1>4. Books(req, batch, reqDecode, idleDecode, unfinished, Open)
  BY DEF ServeInv
<1>5. \A d \in Cores : Open[d]
  BY <1>1 DEF Open, Uncounted
<1>6. \A d \in Cores : BatchOK(batch[d], JobOf(d), req, Open'[d])
  <2>1. \A d \in Cores : Loaded(batch[d], JobOf(d))
    BY <1>4, <1>5 DEF Books, BatchOK
  <2> QED BY <2>1, BatchFacts DEF BatchOK
<1>7. Chunked(req, Held(batch, Open'))
  <2> SUFFICES ASSUME NEW p \in Reqs
               PROVE  req[p].distribute - req[p].prefills = Copies(Chunk(p), Held(batch, Open'), Cores)
    BY <1>3 DEF Chunked
  <2>1. req[p].distribute - req[p].prefills = Copies(Chunk(p), Held(batch, Open), Cores)
    BY <1>3, <1>4 DEF Books, Chunked
  <2>2. Copies(Chunk(p), Held(batch, Open), Cores) = Copies(Chunk(p), batch, Cores)
    BY <1>2, <1>3, <1>5, HeldOpen
  <2>3. Copies(Chunk(p), Held(batch, Open'), Cores) = Copies(Chunk(p), batch, Cores)
    BY <1>1, <1>2, <1>3, HeldAfterwards
  <2> QED BY <2>1, <2>2, <2>3
<1> QED BY <1>1, <1>4, <1>6, <1>7 DEF Books
-----------------------------------------------------------------------------
(* The end of an iteration.                                                *)

\* What iter_done makes of the record q of a request in a last core's batch.
EndsPrefill(q) == q.phase = "PREFILL" /\ q.prefills + 1 = PrefillIters
EndsDecode(q) == q.phase = "DECODE" /\ q.decodes + 1 >= DecodeIters
NextPhase(q) == IF EndsPrefill(q) THEN "DECODE" ELSE IF EndsDecode(q) THEN "PD_DONE" ELSE q.phase
Outcome(q) == [phase      |-> NextPhase(q),
               distribute |-> q.distribute,
               prefills   |-> IF q.phase = "PREFILL" THEN q.prefills + 1 ELSE q.prefills,
               decodes    |-> IF q.phase = "DECODE" THEN q.decodes + 1 ELSE q.decodes]

\* The record stays consistent.
LEMMA OutcomeFacts ==
  ASSUME setup \in Setups, NEW q \in Records, Counters(q), q.phase \in {"PREFILL", "DECODE"},
         q.phase = "PREFILL" => q.prefills < q.distribute
  PROVE  /\ Outcome(q) \in Records /\ Counters(Outcome(q))
         /\ EndsPrefill(q) => ~ChunksLeft(q)
<1> DEFINE o == Outcome(q)
<1>1. /\ q.distribute \in 0..PrefillIters /\ q.prefills \in 0..PrefillIters /\ q.decodes \in 0..DecodeIters
      /\ PrefillIters \in Nat \ {0} /\ DecodeIters \in Nat \ {0}
  BY SetupNumbers DEF Records
<1>2. CASE q.phase = "PREFILL"
  <2>1. o = [phase |-> IF EndsPrefill(q) THEN "DECODE" ELSE "PREFILL", distribute |-> q.distribute,
             prefills |-> q.prefills + 1, decodes |-> q.decodes]
    BY <1>2 DEF Outcome, NextPhase, EndsDecode
  <2>2. q.prefills < q.distribute /\ q.decodes < DecodeIters
    BY <1>2 DEF Counters
  <2>3. q.prefills + 1 \in 0..PrefillIters /\ q.prefills + 1 <= q.distribute
    BY <1>1, <2>2
  <2>4. o.phase \in Phases /\ o.phase = IF EndsPrefill(q) THEN "DECODE" ELSE "PREFILL"
    BY <2>1 DEF Phases
  <2>5. o.prefills = q.prefills + 1 /\ o.distribute = q.distribute /\ o.decodes = q.decodes
    BY <2>1
  <2>6. o = [phase |-> o.phase, distribute |-> o.distribute, prefills |-> o.prefills, decodes |-> o.decodes]
    BY DEF Outcome
  <2>7. EndsPrefill(q) <=> q.prefills + 1 = PrefillIters
    BY <1>2 DEF EndsPrefill
  <2> HIDE DEF o
  <2>8. o \in Records
    BY <1>1, <2>3, <2>4, <2>5, <2>6 DEF Records
  <2>9. Counters(o)
    BY <1>1, <2>2, <2>3, <2>4, <2>5, <2>7 DEF Counters
  <2>10. EndsPrefill(q) => ~ChunksLeft(q)
    BY <1>1, <2>2, <2>7 DEF ChunksLeft
  <2> QED BY <2>8, <2>9, <2>10 DEF o
<1>3. CASE q.phase = "DECODE"
  <2>1. o = [phase |-> IF EndsDecode(q) THEN "PD_DONE" ELSE "DECODE", distribute |-> q.distribute,
             prefills |-> q.prefills, decodes |-> q.decodes + 1]
    BY <1>3 DEF Outcome, NextPhase, EndsPrefill
  <2>2. q.prefills <= q.distribute /\ q.prefills = PrefillIters /\ q.decodes < DecodeIters
    BY <1>3 DEF Counters
  <2>3. q.decodes + 1 \in 0..DecodeIters
    BY <1>1, <2>2
  <2>4. o.phase \in Phases /\ o.phase = IF EndsDecode(q) THEN "PD_DONE" ELSE "DECODE"
    BY <2>1 DEF Phases
  <2>5. o.prefills = q.prefills /\ o.distribute = q.distribute /\ o.decodes = q.decodes + 1
    BY <2>1
  <2>6. o = [phase |-> o.phase, distribute |-> o.distribute, prefills |-> o.prefills, decodes |-> o.decodes]
    BY DEF Outcome
  <2>7. EndsDecode(q) <=> q.decodes + 1 >= DecodeIters
    BY <1>3 DEF EndsDecode
  <2> HIDE DEF o
  <2>8. o \in Records
    BY <1>1, <2>3, <2>4, <2>5, <2>6 DEF Records
  <2>9. Counters(o)
    BY <1>1, <2>2, <2>3, <2>4, <2>5, <2>7 DEF Counters
  <2>10. ~EndsPrefill(q)
    BY <1>3 DEF EndsPrefill
  <2> QED BY <2>8, <2>9, <2>10 DEF o
<1> QED BY <1>2, <1>3

\* The schedule while iter_done counts.
Tallies == [req : [Reqs -> Records], batch : Batches, queue : Seq(Reqs)]

\* The record of r is updated; a stage gets another type.
Noted(rq, r) == [rq EXCEPT ![r] = Outcome(rq[r])]
Retyped(bt, c, i, ty) == [bt EXCEPT ![c][i].type = ty]

\* iter_done for one stage.
LEMMA CountStageIs ==
  ASSUME NEW st \in Tallies, NEW c, NEW i, NEW r \in Reqs, r = batch[c][i].req
  PROVE  CountNext(st, <<c, i>>) =
           [req   |-> Noted(st.req, r),
            batch |-> IF EndsPrefill(st.req[r]) \/ EndsDecode(st.req[r])
                      THEN Retyped(st.batch, c, i, NextPhase(st.req[r])) ELSE st.batch,
            queue |-> IF EndsPrefill(st.req[r]) /\ ~Mixed THEN Append(st.queue, r) ELSE st.queue]
<1> DEFINE at == <<c, i>>
           q == st.req[r]
<1>1. CountNext(st, at) = CountStage(st, at)
  BY DEF CountNext
<1>2. at[1] = c /\ at[2] = i
  OBVIOUS
<1>3. st.req \in [Reqs -> Records] /\ q \in Records
  BY DEF Tallies
<1>4. [st.req EXCEPT ![r].phase = NextPhase(q),
                     ![r].prefills = IF q.phase = "PREFILL" THEN @ + 1 ELSE @,
                     ![r].decodes = IF q.phase = "DECODE" THEN @ + 1 ELSE @] = Noted(st.req, r)
  <2> DEFINE rq == st.req
             a == NextPhase(q)
             x == [rq EXCEPT ![r].phase = a,
                     ![r].prefills = IF q.phase = "PREFILL" THEN @ + 1 ELSE @,
                     ![r].decodes = IF q.phase = "DECODE" THEN @ + 1 ELSE @]
  <2>1. rq \in [Reqs -> Records] /\ rq[r] = q
    BY <1>3
  <2>2. q = [phase |-> q.phase, distribute |-> q.distribute, prefills |-> q.prefills, decodes |-> q.decodes]
    BY <1>3 DEF Records
  <2> HIDE DEF rq, q, a
  <2>3. /\ x = [p \in Reqs |-> x[p]]
        /\ \A p \in Reqs : p # r => x[p] = rq[p]
        /\ x[r] = [q EXCEPT !.phase = a,
                     !.prefills = IF q.phase = "PREFILL" THEN q.prefills + 1 ELSE q.prefills,
                     !.decodes = IF q.phase = "DECODE" THEN q.decodes + 1 ELSE q.decodes]
    BY <2>1, <2>2
  <2> HIDE DEF x
  <2>4. x[r] = Outcome(q)
    <3> DEFINE e == IF q.phase = "PREFILL" THEN q.prefills + 1 ELSE q.prefills
               d == IF q.phase = "DECODE" THEN q.decodes + 1 ELSE q.decodes
    <3>1. x[r] = [q EXCEPT !.phase = a, !.prefills = e, !.decodes = d]
      BY <2>3
    <3>2. Outcome(q) = [phase |-> a, distribute |-> q.distribute, prefills |-> e, decodes |-> d]
      BY DEF Outcome, a
    <3> HIDE DEF e, d
    <3> QED BY <2>2, <3>1, <3>2
  <2>5. x = [rq EXCEPT ![r] = Outcome(q)]
    BY <2>1, <2>3, <2>4
  <2> QED BY <2>1, <2>5 DEF x, rq, a, Noted
<1> QED BY <1>1, <1>2, <1>4 DEF CountStage, EndsPrefill, EndsDecode, NextPhase, Retyped

\* Batches that differ at most in stage i of core c.
OneStage(old, new, c, i) ==
  /\ SameBut(c, new, old)
  /\ Len(new[c]) = Len(old[c])
  /\ \A m \in 1..Len(old[c]) : m # i => new[c][m] = old[c][m]

\* Then at most one thing is lost and one gained.
LEMMA StageCopies ==
  ASSUME NEW old \in Batches, NEW new \in Batches, NEW c \in Cores, NEW i \in 1..Len(old[c]),
         OneStage(old, new, c, i), NEW S, S \subseteq Cores, IsFiniteSet(S), NEW x
  PROVE  /\ Copies(x, new, S) = Copies(x, old, S) - (IF c \in S /\ old[c][i] = x THEN 1 ELSE 0)
                                                  + (IF c \in S /\ new[c][i] = x THEN 1 ELSE 0)
         /\ Copies(x, old, S) \in Nat /\ Copies(x, new, S) \in Nat
         /\ c \in S /\ old[c][i] = x => Copies(x, old, S) >= 1
<1>1. /\ old[c] \in Seq(StageType) /\ new[c] \in Seq(StageType)
      /\ Len(new[c]) = Len(old[c]) /\ \A m \in 1..Len(old[c]) : m # i => new[c][m] = old[c][m]
      /\ \A d \in Cores : d # c => new[d] = old[d]
  BY DEF OneStage, SameBut, Batches
<1>2. \A d \in S : old[d] \in Seq(StageType) /\ new[d] \in Seq(StageType)
  BY DEF Batches
<1>3. \A d \in S : old[d] \in Seq(StageType)
  BY <1>2
<1>4. \A d \in S : new[d] \in Seq(StageType)
  BY <1>2
<1>5. Copies(x, old, S) \in Nat /\ \A d \in S : Occurrences(x, old[d]) <= Copies(x, old, S)
  BY <1>3, CopiesNat
<1>6. Copies(x, new, S) \in Nat
  BY <1>4, CopiesNat
<1>7. CASE c \notin S
  <2>1. \A d \in S : new[d] = old[d]
    BY <1>1, <1>7
  <2>2. Copies(x, new, S) = Copies(x, old, S)
    BY <2>1, CopiesSame
  <2> QED BY <1>5, <1>6, <1>7, <2>2
<1>8. CASE c \in S
  <2> DEFINE s == old[c]
             t == new[c]
             n1 == Copies(x, new, S)
             n0 == Copies(x, old, S)
             o1 == Occurrences(x, t)
             o0 == Occurrences(x, s)
  <2>1. s \in Seq(StageType) /\ t \in Seq(StageType) /\ Len(t) = Len(s) /\ i \in 1..Len(s)
        /\ \A m \in 1..Len(s) : m # i => t[m] = s[m]
    BY <1>1
  <2>2. n1 = n0 - o0 + o1
    <3>1. \A d \in S : d # c => Occurrences(x, new[d]) = Occurrences(x, old[d])
      BY <1>1
    <3> QED BY <1>2, <1>8, <3>1, CopiesUpdate
  <2> HIDE DEF s, t
  <2>3. o1 = o0 - (IF s[i] = x THEN 1 ELSE 0) + (IF t[i] = x THEN 1 ELSE 0)
    BY <2>1, OccUpdate
  <2>4. o0 \in Nat
    BY <2>1, OccNat
  <2>5. s[i] = x => o0 >= 1
    BY <2>1, OccSome
  <2>6. o0 <= n0 /\ n0 \in Nat
    BY <1>5, <1>8 DEF s
  <2> HIDE DEF n1, n0, o1, o0
  <2>7. n1 = n0 - (IF s[i] = x THEN 1 ELSE 0) + (IF t[i] = x THEN 1 ELSE 0)
    BY <2>2, <2>3, <2>4, <2>6
  <2>8. s[i] = x => n0 >= 1
    BY <2>4, <2>5, <2>6
  <2> QED BY <1>5, <1>6, <1>8, <2>7, <2>8 DEF n1, n0, s, t
<1> QED BY <1>7, <1>8

\* Stage i of core c gets a new type and nothing else changes.
NewType(bt, new, c, i, ty) ==
  /\ new \in Batches /\ OneStage(bt, new, c, i)
  /\ new[c] = [bt[c] EXCEPT ![i].type = ty]
  /\ new[c][i] = [req |-> bt[c][i].req, type |-> ty]

\* That is what the assignment to its type does.
LEMMA RetypedFacts ==
  ASSUME NEW bt \in Batches, NEW c \in Cores, NEW i \in 1..Len(bt[c]), NEW ty \in Phases
  PROVE  NewType(bt, Retyped(bt, c, i, ty), c, i, ty)
<1> DEFINE b == bt[c]
           d == [b EXCEPT ![i].type = ty]
           new == Retyped(bt, c, i, ty)
<1>1. b \in Seq(StageType)
  BY DEF Batches
<1>2. new = [bt EXCEPT ![c] = d]
  BY DEF Retyped, Batches
<1>3. new[c] = d /\ SameBut(c, new, bt)
  BY <1>2 DEF Batches, SameBut
<1> HIDE DEF b
<1>0. i \in 1..Len(b)
  BY DEF b
<1>4. /\ Len(b) \in Nat /\ DOMAIN b = 1..Len(b) /\ \A m \in 1..Len(b) : b[m] \in StageType
      /\ i \in DOMAIN b
  BY <1>0, <1>1
<1>5. /\ d = [m \in 1..Len(b) |-> d[m]] /\ \A m \in 1..Len(b) : m # i => d[m] = b[m]
      /\ d[i] = [b[i] EXCEPT !.type = ty]
  BY <1>4
<1>6. b[i] = [req |-> b[i].req, type |-> b[i].type] /\ b[i].req \in Reqs
  BY <1>0, <1>4 DEF StageType
<1> HIDE DEF d
<1>7. d[i] = [req |-> b[i].req, type |-> ty]
  <2> DEFINE s == b[i]
             e == d[i]
  <2>1. s = [req |-> s.req, type |-> s.type] /\ e = [s EXCEPT !.type = ty]
    BY <1>5, <1>6
  <2> HIDE DEF s, e
  <2>2. e = [req |-> s.req, type |-> ty]
    BY <2>1
  <2> QED BY <2>2 DEF s, e
<1>8. d[i] \in StageType
  BY <1>6, <1>7 DEF StageType
<1>9. \A m \in 1..Len(b) : d[m] \in StageType
  BY <1>4, <1>5, <1>8
<1>10. d \in Seq(StageType) /\ Len(d) = Len(b)
  BY <1>4, <1>5, <1>9
<1>11. new \in Batches
  BY <1>2, <1>10 DEF Batches
<1>12. OneStage(bt, new, c, i)
  <2> HIDE DEF new
  <2> QED BY <1>3, <1>5, <1>10 DEF OneStage, b
<1> HIDE DEF new
<1> QED BY <1>3, <1>7, <1>11, <1>12 DEF b, d, new, NewType

\* The books while iter_done counts: left are the batches with the stages not yet
\* counted.
Ledger(st, left) ==
  /\ st \in Tallies /\ Recorded(st.req) /\ left \in Batches
  /\ Placed(st.req, st.batch, st.queue, idleDecode)
  /\ Chunked(st.req, left)
  /\ Queued(st.req, unfinished)
  /\ \A k \in Cores : Settled(st.batch[k], JobOf(k), st.req)
  /\ \A r \in Reqs : st.req[r].distribute = req[r].distribute

\* Stage i of core c has not been counted.
Ahead(st, left, c, i) ==
  /\ Len(st.batch[c]) = Len(batch[c]) /\ st.batch[c][i] = batch[c][i]
  /\ Len(left[c]) = Len(batch[c]) /\ left[c][i] = batch[c][i]

\* It is work on request r, which is in that phase.
Fits(st, j, c, i, r, ty) ==
  /\ batch[c][i] = [req |-> r, type |-> ty] /\ ty \in Work(j)
  /\ st.req[r].phase = ty
  /\ ty = "PREFILL" => st.req[r].prefills < st.req[r].distribute

\* The record of a stage that is counted is in the phase of the stage.
LEMMA StagePhase ==
  ASSUME setup \in Setups, NEW st, NEW left, Ledger(st, left), idleDecode \in [Pipes -> Seq(Reqs)],
         NEW j \in Jobs, NEW c \in JobCores(j), NEW i \in 1..Len(batch[c]), Loaded(batch[c], j),
         Ahead(st, left, c, i)
  PROVE  \E r \in Reqs, ty \in {"PREFILL", "DECODE"} : Fits(st, j, c, i, r, ty)
<1> DEFINE s == batch[c][i]
           r == s.req
           ty == s.type
           q == st.req[r]
<1>0. /\ Len(st.batch[c]) = Len(batch[c]) /\ st.batch[c][i] = batch[c][i]
      /\ Len(left[c]) = Len(batch[c]) /\ left[c][i] = batch[c][i]
  BY DEF Ahead
<1>1. r \in Reqs /\ ty \in Work(j) /\ ty \in {"PREFILL", "DECODE"} /\ s = [req |-> r, type |-> ty]
  <2>1. batch[c] \in Seq([req : Reqs, type : Work(j)])
    BY DEF Loaded
  <2>2. s \in [req : Reqs, type : Work(j)]
    <3> DEFINE T == [req : Reqs, type : Work(j)]
    <3>1. batch[c] \in Seq(T)
      BY <2>1
    <3> HIDE DEF T
    <3>2. s \in T
      BY <3>1
    <3> QED BY <3>2 DEF T
  <2>3. Work(j) \subseteq {"PREFILL", "DECODE"}
    BY DEF Work
  <2> HIDE DEF s
  <2> QED BY <2>2, <2>3
<1>2. /\ st.batch \in Batches /\ st.queue \in Seq(Reqs) /\ left \in Batches
      /\ q \in Records /\ Counters(q)
  BY <1>1 DEF Ledger, Tallies, Recorded
<1>3. c \in Cores /\ JobOf(c) = j
  BY SetupFacts
<1>4. /\ q.distribute \in 0..PrefillIters /\ q.prefills \in 0..PrefillIters /\ q.phase \in Phases
      /\ PrefillIters \in Nat \ {0}
  BY <1>2, SetupNumbers DEF Records
<1> HIDE DEF s, r, ty, q
<1>5. CASE ty = "PREFILL"
  <2>1. j # "DECODE"
    BY <1>1, <1>5 DEF Work
  <2>2. IsFiniteSet(PrefillSide) /\ PrefillSide \subseteq Cores /\ c \in PrefillSide
    BY <2>1, Sides
  <2>3. left[c][i] = Chunk(r)
    BY <1>0, <1>1, <1>5 DEF s, Chunk
  <2>4. Copies(Chunk(r), left, PrefillSide) >= 1
    <3>1. OneStage(left, left, c, i) /\ i \in 1..Len(left[c])
      BY <1>0 DEF OneStage, SameBut
    <3> QED BY <1>2, <1>3, <2>2, <2>3, <3>1, StageCopies
  <2>5. q.distribute - q.prefills = Copies(Chunk(r), left, PrefillSide)
    BY <1>1 DEF Ledger, Chunked, q
  <2>6. q.prefills < q.distribute
    BY <1>4, <2>4, <2>5
  <2>7. q.phase = "PREFILL"
    BY <1>2, <1>4, <2>6 DEF Counters, Phases
  <2>8. Fits(st, j, c, i, r, ty)
    BY <1>1, <1>5, <2>6, <2>7 DEF s, q, Fits
  <2> QED BY <1>1, <2>8
<1>6. CASE ty = "DECODE"
  <2>1. j # "PREFILL"
    BY <1>1, <1>6 DEF Work
  <2>2. IsFiniteSet(DecodeSide) /\ DecodeSide \subseteq Cores /\ c \in DecodeSide
    BY <2>1, Sides
  <2>3. st.batch[c][i] = Decoding(r)
    BY <1>0, <1>1, <1>6 DEF s, Decoding
  <2>4. Copies(Decoding(r), st.batch, DecodeSide) >= 1 /\ Copies(Decoding(r), st.batch, DecodeSide) \in Nat
    <3>1. OneStage(st.batch, st.batch, c, i) /\ i \in 1..Len(st.batch[c])
      BY <1>0 DEF OneStage, SameBut
    <3> QED BY <1>2, <1>3, <2>2, <2>3, <3>1, StageCopies
  <2>5. Copies(Decoding(r), st.batch, DecodeSide) + Occurrences(r, st.queue) + Copies(r, idleDecode, Pipes) =
          IF q.phase = "DECODE" THEN 1 ELSE 0
    BY <1>1 DEF Ledger, Placed, q
  <2>6. Occurrences(r, st.queue) \in Nat
    BY <1>2, OccNat
  <2>7. Copies(r, idleDecode, Pipes) \in Nat
    BY <2>1, ByFirstCopies
  <2>8. q.phase = "DECODE"
    BY <2>4, <2>5, <2>6, <2>7
  <2>9. Fits(st, j, c, i, r, ty)
    BY <1>1, <1>6, <2>8 DEF s, q, Fits
  <2> QED BY <1>1, <2>9
<1> QED BY <1>1, <1>5, <1>6

\* The records after one stage is counted.
LEMMA NotedFacts ==
  ASSUME setup \in Setups, NEW rq, Recorded(rq), NEW r \in Reqs, NEW ty \in {"PREFILL", "DECODE"},
         rq[r].phase = ty, ty = "PREFILL" => rq[r].prefills < rq[r].distribute
  PROVE  /\ Recorded(Noted(rq, r))
         /\ \A p \in Reqs : /\ p # r => Noted(rq, r)[p] = rq[p]
                            /\ Noted(rq, r)[p].distribute = rq[p].distribute
                            /\ ChunksLeft(Noted(rq, r)[p]) <=> ChunksLeft(rq[p])
                            /\ Noted(rq, r)[p].prefills =
                                 rq[p].prefills + (IF p = r /\ ty = "PREFILL" THEN 1 ELSE 0)
         /\ Noted(rq, r)[r].phase = NextPhase(rq[r])
         /\ EndsPrefill(rq[r]) => ty = "PREFILL" /\ ~ChunksLeft(rq[r]) /\ NextPhase(rq[r]) = "DECODE"
         /\ EndsDecode(rq[r]) => ty = "DECODE" /\ NextPhase(rq[r]) = "PD_DONE" /\ ~EndsPrefill(rq[r])
         /\ ~EndsPrefill(rq[r]) /\ ~EndsDecode(rq[r]) => NextPhase(rq[r]) = ty
<1> DEFINE q == rq[r]
           n == Noted(rq, r)
<1>1. q \in Records /\ Counters(q) /\ rq \in [Reqs -> Records]
  BY DEF Recorded
<1>2. Outcome(q) \in Records /\ Counters(Outcome(q)) /\ (EndsPrefill(q) => ~ChunksLeft(q))
  <2> HIDE DEF q
  <2>1. q.phase = ty /\ (q.phase = "PREFILL" => q.prefills < q.distribute)
    BY DEF q
  <2> QED BY <1>1, <2>1, OutcomeFacts
<1>3. n[r] = Outcome(q) /\ n = [p \in Reqs |-> n[p]] /\ \A p \in Reqs : p # r => n[p] = rq[p]
  BY <1>1 DEF Noted
<1>4. /\ Outcome(q).phase = NextPhase(q) /\ Outcome(q).distribute = q.distribute
      /\ Outcome(q).prefills = IF ty = "PREFILL" THEN q.prefills + 1 ELSE q.prefills
  BY DEF Outcome
<1>5. /\ EndsPrefill(q) => ty = "PREFILL" /\ NextPhase(q) = "DECODE"
      /\ EndsDecode(q) => ty = "DECODE" /\ NextPhase(q) = "PD_DONE" /\ ~EndsPrefill(q)
      /\ ~EndsPrefill(q) /\ ~EndsDecode(q) => NextPhase(q) = ty
  BY DEF EndsPrefill, EndsDecode, NextPhase
<1> HIDE DEF n, q
<1>6. Recorded(n)
  <2>1. \A p \in Reqs : n[p] \in Records /\ Counters(n[p])
    BY <1>2, <1>3 DEF Recorded
  <2> QED BY <1>3, <2>1 DEF Recorded
<1>7. ASSUME NEW p \in Reqs
      PROVE  /\ n[p].distribute = rq[p].distribute
             /\ n[p].prefills = rq[p].prefills + (IF p = r /\ ty = "PREFILL" THEN 1 ELSE 0)
  <2>1. rq[p].prefills \in Int
    BY <1>1, SetupNumbers DEF Records
  <2> QED BY <1>3, <1>4, <2>1 DEF q
<1>8. \A p \in Reqs : ChunksLeft(n[p]) <=> ChunksLeft(rq[p])
  BY <1>7 DEF ChunksLeft
<1> QED BY <1>2, <1>3, <1>4, <1>5, <1>6, <1>7, <1>8 DEF n, q

\* iter_done keeps the books stage by stage.
LEMMA CountStep ==
  ASSUME setup \in Setups, NEW st, NEW left, Ledger(st, left), idleDecode \in [Pipes -> Seq(Reqs)],
         NEW j \in Jobs, NEW c \in JobCores(j), NEW i \in 1..Len(batch[c]), Loaded(batch[c], j),
         Ahead(st, left, c, i),
         NEW left2 \in Batches, OneStage(left, left2, c, i), left2[c][i].type # "PREFILL"
  PROVE  /\ Ledger(CountNext(st, <<c, i>>), left2)
         /\ OneStage(st.batch, CountNext(st, <<c, i>>).batch, c, i)
<1>0. PICK r \in Reqs, ty \in {"PREFILL", "DECODE"} : Fits(st, j, c, i, r, ty)
  BY StagePhase
<1>1. /\ batch[c][i] = [req |-> r, type |-> ty] /\ ty \in Work(j)
      /\ st.req[r].phase = ty
      /\ ty = "PREFILL" => st.req[r].prefills < st.req[r].distribute
  BY <1>0 DEF Fits
<1> DEFINE t == CountNext(st, <<c, i>>)
           q == st.req[r]
           rq == Noted(st.req, r)
           next == NextPhase(q)
           moves == EndsPrefill(q) \/ EndsDecode(q)
           bt == st.batch
           bt2 == IF moves THEN Retyped(bt, c, i, next) ELSE bt
           queue2 == IF EndsPrefill(q) /\ ~Mixed THEN Append(st.queue, r) ELSE st.queue
<1>2. /\ st \in Tallies /\ Recorded(st.req) /\ left \in Batches
      /\ bt \in Batches /\ st.queue \in Seq(Reqs)
      /\ Placed(st.req, bt, st.queue, idleDecode)
      /\ Chunked(st.req, left)
      /\ Queued(st.req, unfinished)
      /\ \A k \in Cores : Settled(bt[k], JobOf(k), st.req)
      /\ \A p \in Reqs : st.req[p].distribute = req[p].distribute
  BY DEF Ledger, Tallies
<1>3. c \in Cores /\ JobOf(c) = j
  BY SetupFacts
<1>4. t = [req |-> rq, batch |-> bt2, queue |-> queue2]
  <2>1. batch[c][i].req = r
    BY <1>1
  <2> QED BY <1>2, <2>1, CountStageIs
<1>5. /\ Recorded(rq)
      /\ \A p \in Reqs : /\ p # r => rq[p] = st.req[p]
                         /\ rq[p].distribute = st.req[p].distribute
                         /\ ChunksLeft(rq[p]) <=> ChunksLeft(st.req[p])
                         /\ rq[p].prefills = st.req[p].prefills + (IF p = r /\ ty = "PREFILL" THEN 1 ELSE 0)
      /\ rq[r].phase = next
      /\ EndsPrefill(q) => ty = "PREFILL" /\ ~ChunksLeft(q) /\ next = "DECODE"
      /\ EndsDecode(q) => ty = "DECODE" /\ next = "PD_DONE" /\ ~EndsPrefill(q)
      /\ ~EndsPrefill(q) /\ ~EndsDecode(q) => next = ty
  BY <1>1, <1>2, NotedFacts
<1>6. i \in 1..Len(bt[c]) /\ i \in 1..Len(left[c]) /\ bt[c][i] = [req |-> r, type |-> ty] /\ left[c][i] = [req |-> r, type |-> ty]
  BY <1>1 DEF Ahead
<1>7. next \in Phases /\ (moves => next # "PREFILL") /\ moves \in BOOLEAN
  BY <1>5 DEF Phases, EndsPrefill, EndsDecode
<1>8. /\ IsFiniteSet(PrefillSide) /\ PrefillSide \subseteq Cores
      /\ IsFiniteSet(DecodeSide) /\ DecodeSide \subseteq Cores
      /\ c \in PrefillSide <=> j # "DECODE"
      /\ c \in DecodeSide <=> j # "PREFILL"
  <2>1. /\ IsFiniteSet(PrefillSide) /\ PrefillSide \subseteq Cores
        /\ IsFiniteSet(DecodeSide) /\ DecodeSide \subseteq Cores
    BY Sides
  <2> QED BY <1>3, <2>1 DEF PrefillSide, DecodeSide
<1>9. /\ ty = "PREFILL" => j # "DECODE" /\ (Mixed <=> j # "PREFILL")
      /\ ty = "DECODE" => j # "PREFILL"
  BY <1>1 DEF Work, Jobs
<1> HIDE DEF t, q, rq, next, moves, bt
<1>10. /\ bt2 \in Batches /\ OneStage(bt, bt2, c, i)
       /\ bt2[c][i] = [req |-> r, type |-> IF moves THEN next ELSE ty]
       /\ moves => bt2[c] = [bt[c] EXCEPT ![i].type = next]
  <2>1. CASE moves
    <3>1. bt2 = Retyped(bt, c, i, next)
      BY <2>1
    <3>2. bt[c][i].req = r
      BY <1>6
    <3> HIDE DEF bt2
    <3>3. NewType(bt, Retyped(bt, c, i, next), c, i, next)
      <4>1. bt \in Batches /\ c \in Cores /\ i \in 1..Len(bt[c]) /\ next \in Phases
        BY <1>2, <1>3, <1>6, <1>7
      <4> QED BY <4>1, RetypedFacts
    <3> DEFINE new == Retyped(bt, c, i, next)
    <3> HIDE DEF new
    <3>4. /\ new \in Batches /\ OneStage(bt, new, c, i)
          /\ new[c] = [bt[c] EXCEPT ![i].type = next]
          /\ new[c][i] = [req |-> r, type |-> next] /\ bt2 = new
      BY <3>1, <3>2, <3>3 DEF new, NewType
    <3> QED BY <2>1, <3>4
  <2>2. CASE ~moves
    BY <1>2, <1>6, <2>2 DEF OneStage, SameBut
  <2> QED BY <2>1, <2>2
<1>11. queue2 \in Seq(Reqs)
  BY <1>2
<1>12. \A p : Occurrences(p, queue2) = Occurrences(p, st.queue) + (IF EndsPrefill(q) /\ ~Mixed /\ p = r THEN 1 ELSE 0)
              /\ Occurrences(p, st.queue) \in Nat
  <2> TAKE p
  <2>1. Occurrences(p, st.queue) \in Nat
    BY <1>2, OccNat
  <2>2. CASE EndsPrefill(q) /\ ~Mixed
    <3>1. Occurrences(p, Append(st.queue, r)) = Occurrences(p, st.queue) + IF r = p THEN 1 ELSE 0
      BY <1>2, OccAppend
    <3> QED BY <2>1, <2>2, <3>1
  <2>3. CASE ~(EndsPrefill(q) /\ ~Mixed)
    <3>1. queue2 = st.queue
      BY <2>3
    <3> HIDE DEF queue2
    <3> QED BY <2>1, <2>3, <3>1
  <2> QED BY <2>2, <2>3
<1> HIDE DEF bt2, queue2
<1>13. Placed(rq, bt2, queue2, idleDecode)
  <2> SUFFICES ASSUME NEW p \in Reqs
               PROVE  Copies(Decoding(p), bt2, DecodeSide) + Occurrences(p, queue2) + Copies(p, idleDecode, Pipes) =
                        IF rq[p].phase = "DECODE" THEN 1 ELSE 0
    BY DEF Placed
  <2> DEFINE x == Decoding(p)
             a1 == Copies(x, bt2, DecodeSide)
             a0 == Copies(x, bt, DecodeSide)
             o1 == Occurrences(p, queue2)
             o0 == Occurrences(p, st.queue)
             d == Copies(p, idleDecode, Pipes)
             from == IF j # "PREFILL" /\ bt[c][i] = x THEN 1 ELSE 0
             to == IF j # "PREFILL" /\ bt2[c][i] = x THEN 1 ELSE 0
  <2>1. a0 + o0 + d = IF st.req[p].phase = "DECODE" THEN 1 ELSE 0
    BY <1>2 DEF Placed
  <2>2. a1 = a0 - from + to /\ a0 \in Nat /\ a1 \in Nat
    <3> DEFINE S == DecodeSide
    <3>1. /\ bt \in Batches /\ bt2 \in Batches /\ c \in Cores /\ i \in 1..Len(bt[c])
          /\ OneStage(bt, bt2, c, i) /\ S \subseteq Cores /\ IsFiniteSet(S)
      BY <1>2, <1>3, <1>6, <1>8, <1>10
    <3> HIDE DEF x, S
    <3>2. /\ Copies(x, bt2, S) = Copies(x, bt, S) - (IF c \in S /\ bt[c][i] = x THEN 1 ELSE 0)
                                                  + (IF c \in S /\ bt2[c][i] = x THEN 1 ELSE 0)
          /\ Copies(x, bt, S) \in Nat /\ Copies(x, bt2, S) \in Nat
      BY <3>1, StageCopies
    <3> QED BY <1>8, <3>2 DEF S
  <2>3. o1 = o0 + (IF EndsPrefill(q) /\ ~Mixed /\ p = r THEN 1 ELSE 0) /\ o0 \in Nat
    BY <1>12
  <2>4. d \in Nat
    <3>1. PICK k \in Jobs : k # "PREFILL"
      BY DEF Jobs
    <3> QED BY <3>1, ByFirstCopies
  <2>5. /\ bt[c][i] = x <=> p = r /\ ty = "DECODE"
        /\ bt2[c][i] = x <=> p = r /\ (IF moves THEN next ELSE ty) = "DECODE"
    BY <1>6, <1>10 DEF Decoding
  <2>6. from = (IF p = r /\ ty = "DECODE" THEN 1 ELSE 0)
    BY <1>9, <2>5
  <2>7. to = (IF j # "PREFILL" /\ p = r /\ (IF moves THEN next ELSE ty) = "DECODE" THEN 1 ELSE 0)
    BY <2>5
  <2> HIDE DEF x, a1, a0, o1, o0, d, from, to
  <2>8. CASE p # r
    <3>1. rq[p] = st.req[p]
      BY <1>5, <2>8
    <3>2. from = 0 /\ to = 0 /\ o1 = o0
      BY <2>3, <2>6, <2>7, <2>8
    <3>3. a1 + o1 + d = a0 + o0 + d
      BY <2>2, <2>3, <2>4, <3>2
    <3> QED BY <2>1, <3>1, <3>3 DEF a1, o1, d, x
  <2>9. CASE p = r
    <3>1. rq[p].phase = next /\ st.req[p].phase = ty
      BY <1>1, <1>5, <2>9
    <3>2. CASE EndsPrefill(q)
      <4>1. ty = "PREFILL" /\ next = "DECODE" /\ moves
        BY <1>5, <3>2 DEF moves
      <4>2. from = 0 /\ to = (IF j # "PREFILL" THEN 1 ELSE 0)
        BY <2>6, <2>7, <2>9, <4>1
      <4>3. o1 = o0 + (IF Mixed THEN 0 ELSE 1)
        BY <2>3, <2>9, <3>2
      <4>4. Mixed <=> j # "PREFILL"
        BY <1>9, <4>1
      <4>5. a0 + o0 + d = 0
        BY <2>1, <3>1, <4>1
      <4>6. a1 + o1 + d = 1
        BY <2>2, <2>3, <2>4, <4>2, <4>3, <4>4, <4>5
      <4> QED BY <3>1, <4>1, <4>6 DEF a1, o1, d, x
    <3>3. CASE EndsDecode(q)
      <4>1. ty = "DECODE" /\ next = "PD_DONE" /\ moves /\ ~EndsPrefill(q)
        BY <1>5, <3>3 DEF moves
      <4>2. from = 1 /\ to = 0 /\ o1 = o0
        BY <2>3, <2>6, <2>7, <2>9, <4>1
      <4>3. a0 + o0 + d = 1
        BY <2>1, <3>1, <4>1
      <4>4. a1 + o1 + d = 0
        BY <2>2, <2>3, <2>4, <4>2, <4>3
      <4> QED BY <3>1, <4>1, <4>4 DEF a1, o1, d, x
    <3>4. CASE ~EndsPrefill(q) /\ ~EndsDecode(q)
      <4>1. next = ty /\ ~moves
        BY <1>5, <3>4 DEF moves
      <4>2. from = to
        BY <1>9, <2>6, <2>7, <4>1
      <4>3. o1 = o0
        BY <2>3, <3>4
      <4>4. from \in {0, 1}
        BY <2>6
      <4>5. a1 + o1 + d = a0 + o0 + d
        BY <2>2, <2>3, <2>4, <4>2, <4>3, <4>4
      <4> QED BY <2>1, <3>1, <4>1, <4>5 DEF a1, o1, d, x
    <3> QED BY <3>2, <3>3, <3>4
  <2> QED BY <2>8, <2>9
<1>14. Chunked(rq, left2)
  <2> SUFFICES ASSUME NEW p \in Reqs
               PROVE  rq[p].distribute - rq[p].prefills = Copies(Chunk(p), left2, PrefillSide)
    BY DEF Chunked
  <2> DEFINE x == Chunk(p)
             a1 == Copies(x, left2, PrefillSide)
             a0 == Copies(x, left, PrefillSide)
             from == IF j # "DECODE" /\ left[c][i] = x THEN 1 ELSE 0
  <2>1. st.req[p].distribute - st.req[p].prefills = a0
    BY <1>2 DEF Chunked
  <2>2. left2[c][i] # x
    BY DEF Chunk
  <2>3. a1 = a0 - from /\ a0 \in Nat
    <3>1. /\ a1 = a0 - (IF c \in PrefillSide /\ left[c][i] = x THEN 1 ELSE 0)
                     + (IF c \in PrefillSide /\ left2[c][i] = x THEN 1 ELSE 0)
          /\ a0 \in Nat
      <4>1. /\ left \in Batches /\ left2 \in Batches /\ c \in Cores /\ i \in 1..Len(left[c])
            /\ OneStage(left, left2, c, i)
        BY <1>2, <1>3, <1>6
      <4>2. PrefillSide \subseteq Cores /\ IsFiniteSet(PrefillSide)
        BY <1>8
      <4> HIDE DEF x
      <4> QED BY <4>1, <4>2, StageCopies
    <3>2. a1 = a0 - from + 0
      <4> HIDE DEF x, a1, a0
      <4> QED BY <1>8, <2>2, <3>1
    <3>3. from \in {0, 1}
      OBVIOUS
    <3> HIDE DEF from, a1, a0
    <3> QED BY <3>1, <3>2, <3>3
  <2>4. left[c][i] = x <=> p = r /\ ty = "PREFILL"
    BY <1>6 DEF Chunk
  <2>5. from = IF p = r /\ ty = "PREFILL" THEN 1 ELSE 0
    BY <1>9, <2>4
  <2>6. rq[p].distribute = st.req[p].distribute /\ rq[p].prefills = st.req[p].prefills + (IF p = r /\ ty = "PREFILL" THEN 1 ELSE 0)
    BY <1>5
  <2>7. st.req[p].distribute \in Int /\ st.req[p].prefills \in Int
    BY <1>2, SetupNumbers DEF Recorded, Records
  <2> HIDE DEF a1, a0, from, x
  <2>8. rq[p].distribute - rq[p].prefills = a1
    BY <2>1, <2>3, <2>5, <2>6, <2>7
  <2> QED BY <2>8 DEF a1, x
<1>15. Queued(rq, unfinished)
  <2> SUFFICES ASSUME Mixed, NEW p \in Reqs
               PROVE  Copies(p, unfinished, Pipes) = IF rq[p].phase = "PREFILL" /\ ChunksLeft(rq[p]) THEN 1 ELSE 0
    BY DEF Queued
  <2>1. Copies(p, unfinished, Pipes) = IF st.req[p].phase = "PREFILL" /\ ChunksLeft(st.req[p]) THEN 1 ELSE 0
    BY <1>2 DEF Queued
  <2>2. rq[p].phase = "PREFILL" /\ ChunksLeft(rq[p]) <=> st.req[p].phase = "PREFILL" /\ ChunksLeft(st.req[p])
    <3>1. CASE p # r
      BY <1>5, <3>1
    <3>2. CASE p = r
      <4>1. rq[p].phase = next /\ st.req[p].phase = ty /\ (ChunksLeft(rq[p]) <=> ChunksLeft(q)) /\ st.req[p] = q
        BY <1>1, <1>5, <3>2 DEF q
      <4> QED BY <1>5, <4>1
    <3> QED BY <3>1, <3>2
  <2> QED BY <2>1, <2>2
<1>16. ASSUME NEW k \in Cores PROVE Settled(bt2[k], JobOf(k), rq)
  <2>1. ASSUME NEW b, Settled(b, JobOf(k), st.req) PROVE Settled(b, JobOf(k), rq)
    <3>1. b \in Seq([req : Reqs, type : Outcomes(JobOf(k))])
      BY <2>1 DEF Settled
    <3>2. \A m \in 1..Len(b) : b[m].req \in Reqs
      BY <3>1, BatchFacts, SomeStages
    <3>3. \A m \in 1..Len(b) : ChunksLeft(rq[b[m].req]) <=> ChunksLeft(st.req[b[m].req])
      BY <1>5, <3>2
    <3> QED BY <2>1, <3>3 DEF Settled
  <2>2. Settled(bt[k], JobOf(k), st.req)
    BY <1>2
  <2>3. CASE k # c \/ ~moves
    <3>1. bt2[k] = bt[k]
      BY <1>10, <2>3 DEF OneStage, SameBut, bt2
    <3> QED BY <2>1, <2>2, <3>1
  <2>4. CASE k = c /\ moves
    <3> DEFINE b == bt[c]
               b2 == bt2[c]
    <3>1. /\ b \in Seq([req : Reqs, type : Outcomes(j)]) /\ CreditOf(j, b) <= CoreCredit
          /\ j = "PREFILL" => \A m \in 1..Len(b) : b[m].type = "DECODE" => ~ChunksLeft(st.req[b[m].req])
      BY <1>3, <2>2, <2>4 DEF Settled
    <3>2. /\ b2 = [b EXCEPT ![i].type = next] /\ i \in 1..Len(b) /\ Len(b2) = Len(b)
          /\ b2[i] = [req |-> r, type |-> next]
          /\ \A m \in 1..Len(b) : m # i => b2[m] = b[m]
      BY <1>6, <1>10, <2>4 DEF OneStage
    <3>3. b \in Seq(StageType) /\ \A m \in 1..Len(b) : b[m].req \in Reqs /\ b[m].type \in Outcomes(j)
      BY <3>1, BatchFacts, SomeStages
    <3> HIDE DEF b, b2
    <3>4. b2 \in Seq(StageType) /\ CreditOf(j, b2) <= CreditOf(j, b)
      <4>1. next # "PREFILL"
        BY <1>7, <2>4
      <4>2. /\ [b EXCEPT ![i].type = next] \in Seq(StageType)
            /\ CreditOf(j, [b EXCEPT ![i].type = next]) <= CreditOf(j, b)
        BY <1>7, <3>2, <3>3, <4>1, CreditOfOutcome
      <4> QED BY <3>2, <4>2
    <3>5. next \in Outcomes(j)
      <4>1. CASE EndsPrefill(q)
        BY <1>5, <1>9, <4>1 DEF Outcomes, Work
      <4>2. CASE EndsDecode(q)
        BY <1>5, <1>9, <4>2 DEF Outcomes
      <4> QED BY <2>4, <4>1, <4>2 DEF moves
    <3>6. b2[i].req = r /\ b2[i].type = next
      BY <3>2
    <3>7. \A m \in 1..Len(b2) : b2[m].type \in Outcomes(j)
      BY <3>2, <3>3, <3>5, <3>6
    <3>8. b2 \in Seq([req : Reqs, type : Outcomes(j)])
      BY <3>4, <3>7, TypedStages
    <3>9. ASSUME j = "PREFILL", NEW m \in 1..Len(b2), b2[m].type = "DECODE"
          PROVE  ~ChunksLeft(rq[b2[m].req])
      <4>1. CASE m = i
        <5>1. EndsPrefill(q)
          BY <1>5, <1>9, <2>4, <3>9 DEF moves
        <5>2. ~ChunksLeft(q)
          BY <1>5, <5>1
        <5>3. ~ChunksLeft(rq[r])
          BY <1>5, <5>2 DEF q
        <5> QED BY <3>6, <4>1, <5>3
      <4>2. CASE m # i
        <5>1. m \in 1..Len(b) /\ b2[m] = b[m]
          BY <3>2, <4>2
        <5>2. ~ChunksLeft(st.req[b[m].req]) /\ b[m].req \in Reqs
          BY <3>1, <3>3, <3>9, <5>1
        <5> QED BY <1>5, <5>1, <5>2
      <4> QED BY <4>1, <4>2
    <3>10. CreditOf(j, b2) <= CoreCredit
      <4>1. CreditOf(j, b) \in Int /\ CreditOf(j, b2) \in Int /\ CoreCredit \in Int
        BY <3>3, <3>4, CreditInt, SetupNumbers
      <4> DEFINE x == CreditOf(j, b)
                 y == CreditOf(j, b2)
      <4>2. y <= x /\ x <= CoreCredit /\ x \in Int /\ y \in Int /\ CoreCredit \in Int
        BY <3>1, <3>4, <4>1
      <4> HIDE DEF x, y
      <4>3. y <= CoreCredit
        BY <4>2
      <4> QED BY <4>3 DEF y
    <3>11. Settled(b2, j, rq)
      BY <3>8, <3>9, <3>10 DEF Settled
    <3> QED BY <1>3, <2>4, <3>11 DEF b2
  <2> QED BY <2>3, <2>4
<1>17. \A p \in Reqs : rq[p].distribute = req[p].distribute
  BY <1>2, <1>5
<1>18. t.req = rq /\ t.batch = bt2 /\ t.queue = queue2
  BY <1>4
<1>19. t \in Tallies
  <2>1. rq \in [Reqs -> Records]
    BY <1>5 DEF Recorded
  <2> QED BY <1>4, <1>10, <1>11, <2>1 DEF Tallies
<1>20. Ledger(t, left2)
  BY <1>5, <1>13, <1>14, <1>15, <1>16, <1>17, <1>18, <1>19 DEF Ledger
<1>21. OneStage(st.batch, t.batch, c, i)
  BY <1>10, <1>18 DEF bt
<1> QED BY <1>20, <1>21 DEF t

\* A batch of which the first n stages have been counted.
Marked(b, n) == [m \in 1..Len(b) |-> IF m <= n THEN [req |-> b[m].req, type |-> "PD_DONE"] ELSE b[m]]

\* Stage after stage is marked, until no chunk is left.
LEMMA MarkedFacts ==
  ASSUME NEW b \in Seq(StageType)
  PROVE  /\ \A n \in Int : Marked(b, n) \in Seq(StageType) /\ Len(Marked(b, n)) = Len(b)
         /\ Marked(b, 0) = b
         /\ \A i \in 1..Len(b) : /\ \A m \in 1..Len(b) : m # i => Marked(b, i)[m] = Marked(b, i - 1)[m]
                                 /\ Marked(b, i)[i].type = "PD_DONE" /\ Marked(b, i - 1)[i] = b[i]
         /\ \A r : Occurrences(Chunk(r), Marked(b, Len(b))) = 0
<1>1. Len(b) \in Nat /\ DOMAIN b = 1..Len(b) /\ \A m \in 1..Len(b) : b[m] \in StageType
  OBVIOUS
<1>2. \A m \in 1..Len(b) : [req |-> b[m].req, type |-> "PD_DONE"] \in StageType
  BY <1>1 DEF StageType, Phases
<1>3. ASSUME NEW n \in Int
      PROVE  Marked(b, n) \in Seq(StageType) /\ Len(Marked(b, n)) = Len(b)
  <2>1. \A m \in 1..Len(b) : Marked(b, n)[m] \in StageType
    BY <1>1, <1>2 DEF Marked
  <2>2. Marked(b, n) = [m \in 1..Len(b) |-> Marked(b, n)[m]]
    BY DEF Marked
  <2> DEFINE s == Marked(b, n)
  <2> HIDE DEF s
  <2>3. s \in Seq(StageType) /\ Len(s) = Len(b)
    BY <1>1, <2>1, <2>2 DEF s
  <2> QED BY <2>3 DEF s
<1>4. Marked(b, 0) = b
  <2>1. \A m \in 1..Len(b) : Marked(b, 0)[m] = b[m]
    BY <1>1 DEF Marked
  <2>2. Marked(b, 0) = [m \in 1..Len(b) |-> Marked(b, 0)[m]]
    BY DEF Marked
  <2>3. b = [m \in 1..Len(b) |-> b[m]]
    BY <1>1
  <2> DEFINE s == Marked(b, 0)
  <2> HIDE DEF s
  <2>4. s = b
    BY <2>1, <2>2, <2>3 DEF s
  <2> QED BY <2>4 DEF s
<1>5. ASSUME NEW i \in 1..Len(b)
      PROVE  /\ \A m \in 1..Len(b) : m # i => Marked(b, i)[m] = Marked(b, i - 1)[m]
             /\ Marked(b, i)[i].type = "PD_DONE" /\ Marked(b, i - 1)[i] = b[i]
  <2>1. \A m \in 1..Len(b) : m # i => (m <= i <=> m <= i - 1)
    BY <1>1
  <2>2. i <= i /\ ~(i <= i - 1)
    BY <1>1
  <2> QED BY <2>1, <2>2 DEF Marked
<1>6. ASSUME NEW r PROVE Occurrences(Chunk(r), Marked(b, Len(b))) = 0
  <2> DEFINE s == Marked(b, Len(b))
  <2>1. s \in Seq(StageType) /\ Len(s) = Len(b)
    BY <1>1, <1>3
  <2>2. \A m \in 1..Len(b) : s[m] = [req |-> b[m].req, type |-> "PD_DONE"]
    BY <1>1 DEF Marked
  <2> HIDE DEF s
  <2>3. \A m \in 1..Len(s) : s[m] # Chunk(r)
    <3> TAKE m \in 1..Len(s)
    <3>1. s[m].type = "PD_DONE"
      <4>1. m \in 1..Len(b)
        BY <2>1
      <4>2. s[m] = [req |-> b[m].req, type |-> "PD_DONE"]
        BY <2>2, <4>1
      <4> DEFINE e == s[m]
                 a == b[m].req
      <4>3. e = [req |-> a, type |-> "PD_DONE"]
        BY <4>2
      <4> HIDE DEF e, a
      <4>4. e.type = "PD_DONE"
        BY <4>3
      <4> QED BY <4>4 DEF e
    <3>2. Chunk(r).type = "PREFILL"
      BY DEF Chunk
    <3> QED BY <3>1, <3>2
  <2>4. Occurrences(Chunk(r), s) = 0
    BY <2>1, <2>3, OccNone
  <2> QED BY <2>4 DEF s
<1> QED BY <1>3, <1>4, <1>5, <1>6

\* What is left when i stages of core c have been counted.
LeftAt(left, c, i) == [left EXCEPT ![c] = Marked(batch[c], i)]

\* One stage less is left with every stage counted.
LEMMA LeftFacts ==
  ASSUME NEW left \in Batches, NEW c \in Cores, batch[c] \in Seq(StageType), left[c] = batch[c]
  PROVE  /\ LeftAt(left, c, 0) = left
         /\ \A i \in Int : LeftAt(left, c, i) \in Batches /\ LeftAt(left, c, i)[c] = Marked(batch[c], i)
                           /\ SameBut(c, LeftAt(left, c, i), left)
         /\ \A i \in 1..Len(batch[c]) : OneStage(LeftAt(left, c, i - 1), LeftAt(left, c, i), c, i)
<1>1. ASSUME NEW i \in Int
      PROVE  LeftAt(left, c, i) \in Batches /\ LeftAt(left, c, i)[c] = Marked(batch[c], i)
             /\ SameBut(c, LeftAt(left, c, i), left)
  <2>1. Marked(batch[c], i) \in Seq(StageType)
    BY MarkedFacts
  <2> QED BY <2>1 DEF LeftAt, Batches, SameBut
<1>2. LeftAt(left, c, 0) = left
  <2>1. Marked(batch[c], 0) = left[c]
    BY MarkedFacts
  <2> QED BY <2>1 DEF LeftAt, Batches
<1>3. ASSUME NEW i \in 1..Len(batch[c])
      PROVE  OneStage(LeftAt(left, c, i - 1), LeftAt(left, c, i), c, i)
  <2>1. i \in Int /\ i - 1 \in Int
    OBVIOUS
  <2> DEFINE a == LeftAt(left, c, i - 1)
             z == LeftAt(left, c, i)
  <2>2. a[c] = Marked(batch[c], i - 1) /\ z[c] = Marked(batch[c], i) /\ SameBut(c, a, left) /\ SameBut(c, z, left)
    BY <1>1, <2>1
  <2>3. Len(Marked(batch[c], i - 1)) = Len(batch[c]) /\ Len(Marked(batch[c], i)) = Len(batch[c])
    BY <2>1, MarkedFacts
  <2>4. \A m \in 1..Len(batch[c]) : m # i => Marked(batch[c], i)[m] = Marked(batch[c], i - 1)[m]
    BY MarkedFacts
  <2> HIDE DEF a, z
  <2>5. OneStage(a, z, c, i)
    BY <2>2, <2>3, <2>4 DEF OneStage, SameBut
  <2> QED BY <2>5 DEF a, z
<1> QED BY <1>1, <1>2, <1>3

\* iter_done keeps the books core by core.
LEMMA CountCoreFacts ==
  ASSUME setup \in Setups, idleDecode \in [Pipes -> Seq(Reqs)],
         NEW j \in Jobs, NEW c \in Ends(j), Loaded(batch[c], j),
         NEW st, NEW left, Ledger(st, left), st.batch[c] = batch[c], left[c] = batch[c]
  PROVE  /\ Ledger(CountCore(st, c), LeftAt(left, c, Len(batch[c])))
         /\ SameBut(c, CountCore(st, c).batch, st.batch)
<1> DEFINE n == Len(batch[c])
           s0 == st
           U == Tallies
           next(t, i) == CountNext(t, <<c, i>>)
           rec(g, i) == IF i = 0 THEN s0 ELSE CountNext(g[i-1], <<c, i>>)
           plan == CHOOSE g : g = [i \in 0..n |-> rec(g, i)]
           F == [p \in U \X (1..n) |-> next(p[1], p[2])]
           good(i, t) ==
             /\ Ledger(t, LeftAt(left, c, i))
             /\ SameBut(c, t.batch, st.batch)
             /\ Len(t.batch[c]) = n
             /\ \A m \in 1..n : m > i => t.batch[c][m] = batch[c][m]
           G == {p \in (0..n) \X U : good(p[1], p[2])}
<1>c. c \in JobCores(j) /\ c \in Cores /\ Counts(c)
  BY SetupFacts DEF Ends
<1>0. CountCore(st, c) = plan[n]
  BY <1>c DEF CountCore
<1>b. batch[c] \in Seq(StageType)
  BY BatchFacts
<1>n. n \in Nat
  BY <1>b
<1>l. left \in Batches /\ st \in Tallies
  BY DEF Ledger
<1>1. good(0, s0)
  <2>1. LeftAt(left, c, 0) = left
    BY <1>b, <1>c, <1>l, LeftFacts
  <2> QED BY <2>1 DEF SameBut
<1>2. ASSUME NEW i \in 1..n, NEW t, good(i-1, t)
      PROVE  good(i, next(t, i))
  <2> DEFINE a == LeftAt(left, c, i - 1)
             z == LeftAt(left, c, i)
             t2 == next(t, i)
  <2>1. /\ Ledger(t, a) /\ SameBut(c, t.batch, st.batch) /\ Len(t.batch[c]) = n
        /\ \A m \in 1..n : m > i - 1 => t.batch[c][m] = batch[c][m]
    BY <1>2
  <2>2. i \in Int /\ i - 1 \in Int /\ i > i - 1
    BY <1>n
  <2>3. /\ z \in Batches /\ OneStage(a, z, c, i) /\ a[c] = Marked(batch[c], i - 1) /\ z[c] = Marked(batch[c], i)
    BY <1>b, <1>c, <1>l, <2>2, LeftFacts
  <2>4. Len(Marked(batch[c], i - 1)) = n /\ Marked(batch[c], i - 1)[i] = batch[c][i]
        /\ Marked(batch[c], i)[i].type = "PD_DONE"
    BY <1>b, <2>2, MarkedFacts
  <2> HIDE DEF a, z
  <2>5. Ahead(t, a, c, i)
    BY <2>1, <2>2, <2>3, <2>4 DEF Ahead
  <2>6. z[c][i].type # "PREFILL"
    BY <2>3, <2>4
  <2>7. Ledger(t2, z) /\ OneStage(t.batch, t2.batch, c, i)
    BY <1>c, <2>1, <2>3, <2>5, <2>6, CountStep
  <2> HIDE DEF t2
  <2>8. SameBut(c, t2.batch, st.batch) /\ Len(t2.batch[c]) = n
    BY <2>1, <2>7 DEF OneStage, SameBut
  <2>9. \A m \in 1..n : m > i => t2.batch[c][m] = batch[c][m]
    <3> TAKE m \in 1..n
    <3> HAVE m > i
    <3>1. m # i /\ m > i - 1 /\ m \in 1..Len(t.batch[c])
      BY <1>n, <2>1
    <3>2. t2.batch[c][m] = t.batch[c][m]
      BY <2>7, <3>1 DEF OneStage
    <3> QED BY <2>1, <3>1, <3>2
  <2>10. good(i, t2)
    BY <2>7, <2>8, <2>9 DEF z
  <2> HIDE DEF good
  <2> QED BY <2>10 DEF t2
<1> HIDE DEF good
<1>3. \A i \in 1..n, t \in U : F[<<t, i>>] = next(t, i)
  OBVIOUS
<1>4. \A i \in 0..n : \A t : <<i, t>> \in G <=> t \in U /\ good(i, t)
  OBVIOUS
<1>5. \A i \in 0..n : \A t : good(i, t) => t \in U
  BY DEF good, Ledger
<1> HIDE DEF F, G, U, n, s0
<1>6. PICK g : Repeats(g, n, s0, F)
  BY <1>n, IterationSolved
<1>7. <<0, s0>> \in G
  <2>1. 0 \in 0..n
    BY <1>n
  <2> QED BY <1>1, <1>4, <1>5, <2>1
<1>8. ASSUME NEW i \in 1..n, NEW t, <<i-1, t>> \in G
      PROVE  t \in U /\ F[<<t, i>>] = next(t, i) /\ <<i, next(t, i)>> \in G
  <2>1. i \in 0..n /\ i - 1 \in 0..n
    BY <1>n
  <2>2. t \in U /\ good(i-1, t)
    BY <1>4, <1>8, <2>1
  <2>3. good(i, next(t, i))
    BY <1>2, <2>2
  <2>4. F[<<t, i>>] = next(t, i)
    BY <1>3, <2>2
  <2> HIDE DEF next
  <2> QED BY <1>4, <1>5, <2>1, <2>2, <2>3, <2>4
<1> HIDE DEF next
<1>9. \A i \in 0..n : <<i, g[i]>> \in G
  <2>1. \A i \in 0..n : g[i] = IF i = 0 THEN s0 ELSE F[<<g[i-1], i>>]
    BY <1>6 DEF Repeats
  <2>2. <<0, g[0]>> \in G
    <3>1. 0 \in 0..n
      BY <1>n
    <3> QED BY <1>7, <2>1, <3>1
  <2>3. ASSUME NEW i \in 1..n, <<i-1, g[i-1]>> \in G PROVE <<i, g[i]>> \in G
    <3>1. g[i] = F[<<g[i-1], i>>]
      BY <1>n, <2>1
    <3> QED BY <1>8, <2>3, <3>1
  <2> QED BY <1>n, <2>2, <2>3, IterationKeeps
<1>10. g = [i \in 0..n |-> rec(g, i)]
  <2>1. ASSUME NEW i \in 0..n PROVE (IF i = 0 THEN s0 ELSE F[<<g[i-1], i>>]) = rec(g, i)
    <3>1. CASE i = 0
      BY <3>1
    <3>2. CASE i # 0
      <4>1. i \in 1..n /\ i - 1 \in 0..n
        BY <1>n, <3>2
      <4>2. F[<<g[i-1], i>>] = next(g[i-1], i)
        BY <1>8, <1>9, <4>1
      <4> QED BY <3>2, <4>2 DEF next
    <3> QED BY <3>1, <3>2
  <2> HIDE DEF rec
  <2> QED BY <1>6, <2>1 DEF Repeats
<1>11. plan = [i \in 0..n |-> rec(plan, i)]
  <2> HIDE DEF rec
  <2> QED BY <1>10
<1> HIDE DEF plan
<1>12. \A i \in 0..n : <<i, plan[i]>> \in G
  <2>1. \A i \in 0..n : plan[i] = rec(plan, i)
    <3> HIDE DEF rec
    <3> QED BY <1>11
  <2>2. <<0, plan[0]>> \in G
    <3>1. 0 \in 0..n
      BY <1>n
    <3>2. plan[0] = s0
      BY <2>1, <3>1
    <3> QED BY <1>7, <3>2
  <2>3. ASSUME NEW i \in 1..n, <<i-1, plan[i-1]>> \in G PROVE <<i, plan[i]>> \in G
    <3>1. i \in 0..n /\ i # 0
      BY <1>n
    <3>2. plan[i] = next(plan[i-1], i)
      BY <2>1, <3>1 DEF next
    <3> QED BY <1>8, <2>3, <3>2
  <2> QED BY <1>n, <2>2, <2>3, IterationKeeps
<1>13. good(n, CountCore(st, c))
  <2>1. n \in 0..n
    BY <1>n
  <2> QED BY <1>0, <1>4, <1>12, <2>1
<1> QED BY <1>13 DEF good, n

\* The schedule after the first n messages of iter_done.
Counting(msgs) ==
  LET counted[n \in 0 .. Len(msgs)] ==
        IF n = 0 THEN [req |-> req, batch |-> batch, queue |-> reqDecode]
        ELSE CountCore(counted[n - 1], msgs[n])
  IN counted

\* The last cores among the first n messages, and what is left to be counted after
\* the cores in D.
CountedBy(j, msgs, n) == {k \in Ends(j) : \E m \in 1..n : msgs[m] = k}
LeftBy(D) == [k \in Cores |-> IF k \in D THEN Marked(batch[k], Len(batch[k])) ELSE Held(batch, Open)[k]]

\* The batches of the other cores are left as they were.
LEMMA LeftByFacts ==
  ASSUME batch \in Batches, NEW D, D \subseteq Cores
  PROVE  /\ LeftBy(D) \in Batches
         /\ \A k \in D : LeftBy(D)[k] = Marked(batch[k], Len(batch[k]))
         /\ \A k \in Cores \ D : LeftBy(D)[k] = Held(batch, Open)[k]
         /\ \A k \in Cores : Held(batch, Open)[k] = (IF Open[k] THEN batch[k] ELSE <<>>)
<1>1. \A k \in Cores : batch[k] \in Seq(StageType)
  BY DEF Batches
<1>2. \A k \in Cores : Held(batch, Open)[k] = (IF Open[k] THEN batch[k] ELSE <<>>)
  BY DEF Held
<1>3. <<>> \in Seq(StageType)
  OBVIOUS
<1>4. \A k \in Cores : Held(batch, Open)[k] \in Seq(StageType)
  BY <1>1, <1>2, <1>3, Zenon
<1>5. \A k \in Cores : Marked(batch[k], Len(batch[k])) \in Seq(StageType)
  <2> TAKE k \in Cores
  <2>1. Len(batch[k]) \in Int /\ batch[k] \in Seq(StageType)
    BY <1>1
  <2> QED BY <2>1, MarkedFacts
<1>6. /\ \A k \in D : LeftBy(D)[k] = Marked(batch[k], Len(batch[k]))
      /\ \A k \in Cores \ D : LeftBy(D)[k] = Held(batch, Open)[k]
      /\ LeftBy(D) = [k \in Cores |-> LeftBy(D)[k]]
  BY DEF LeftBy
<1>7. \A k \in Cores : LeftBy(D)[k] \in Seq(StageType)
  BY <1>4, <1>5, <1>6
<1> DEFINE f == LeftBy(D)
<1>8. f = [k \in Cores |-> f[k]] /\ \A k \in Cores : f[k] \in Seq(StageType)
  BY <1>6, <1>7
<1> HIDE DEF f
<1>9. f \in Batches
  BY <1>8 DEF Batches
<1> QED BY <1>2, <1>6, <1>9 DEF f

\* The cores are counted one by one.
LEMMA LeftByStep ==
  ASSUME batch \in Batches, NEW D, D \subseteq Cores, NEW c \in Cores \ D
  PROVE  LeftAt(LeftBy(D), c, Len(batch[c])) = LeftBy(D \union {c})
<1> DEFINE a == LeftBy(D)
           b == LeftBy(D \union {c})
           v == Marked(batch[c], Len(batch[c]))
<1>1. a \in Batches /\ b \in Batches
  BY LeftByFacts
<1>2. b[c] = v /\ \A k \in Cores : k # c => b[k] = a[k]
  BY DEF LeftBy
<1>3. LeftAt(a, c, Len(batch[c])) = [a EXCEPT ![c] = v]
  BY DEF LeftAt
<1> HIDE DEF a, b, v
<1>4. [a EXCEPT ![c] = v] = b
  BY <1>1, <1>2 DEF Batches
<1> QED BY <1>3, <1>4 DEF a, b

\* iter_done keeps the books.
LEMMA CountingFacts ==
  ASSUME setup \in Setups, NEW j \in Jobs, busy[j],
         Books(req, batch, reqDecode, idleDecode, unfinished, Open),
         NEW msgs \in Seq(JobCores(j)), \A a, b \in 1..Len(msgs) : msgs[a] = msgs[b] => a = b
  PROVE  /\ Counting(msgs)[0] = [req |-> req, batch |-> batch, queue |-> reqDecode]
         /\ Ledger(Counting(msgs)[Len(msgs)], LeftBy(CountedBy(j, msgs, Len(msgs))))
         /\ \A k \in Cores \ CountedBy(j, msgs, Len(msgs)) : Counting(msgs)[Len(msgs)].batch[k] = batch[k]
<1> DEFINE n == Len(msgs)
           s0 == [req |-> req, batch |-> batch, queue |-> reqDecode]
           U == Tallies
           next(t, i) == CountCore(t, msgs[i])
           rec(g, i) == IF i = 0 THEN s0 ELSE CountCore(g[i-1], msgs[i])
           plan == CHOOSE g : g = [i \in 0..n |-> rec(g, i)]
           F == [p \in U \X (1..n) |-> next(p[1], p[2])]
           D(i) == CountedBy(j, msgs, i)
           good(i, t) ==
             /\ Ledger(t, LeftBy(D(i)))
             /\ \A k \in Cores \ D(i) : t.batch[k] = batch[k]
           G == {p \in (0..n) \X U : good(p[1], p[2])}
<1>0. Counting(msgs) = plan
  BY DEF Counting
<1>n. n \in Nat
  OBVIOUS
<1>b. /\ batch \in Batches /\ idleDecode \in [Pipes -> Seq(Reqs)] /\ reqDecode \in Seq(Reqs)
      /\ Recorded(req)
  BY DEF Books
<1>d. \A i : D(i) \subseteq Ends(j) /\ D(i) \subseteq Cores
  BY DEF CountedBy, Ends, JobCores
<1>o. \A k \in JobCores(j) : k \in Cores /\ JobOf(k) = j /\ Open[k]
  BY SetupFacts DEF Open, Uncounted
<1>1. good(0, s0)
  <2>1. D(0) = {}
    BY DEF CountedBy
  <2>2. LeftBy({}) = Held(batch, Open)
    BY DEF LeftBy, Held
  <2>3. s0.req = req /\ s0.batch = batch /\ s0.queue = reqDecode
    OBVIOUS
  <2>4. s0 \in Tallies
    BY <1>b DEF Tallies, Recorded
  <2>5. LeftBy({}) \in Batches
    BY <1>b, LeftByFacts
  <2>6. \A k \in Cores : Settled(batch[k], JobOf(k), req)
    BY BatchFacts DEF Books, BatchOK
  <2>7. /\ Placed(req, batch, reqDecode, idleDecode) /\ Chunked(req, Held(batch, Open))
        /\ Queued(req, unfinished)
    BY DEF Books
  <2> HIDE DEF s0, D
  <2>8. Ledger(s0, LeftBy({}))
    BY <1>b, <2>2, <2>3, <2>4, <2>5, <2>6, <2>7 DEF Ledger
  <2> QED BY <2>1, <2>3, <2>8
<1>2. ASSUME NEW i \in 1..n, NEW t, good(i-1, t)
      PROVE  good(i, next(t, i))
  <2> DEFINE c == msgs[i]
             t2 == next(t, i)
  <2>1. c \in JobCores(j) /\ c \in Cores /\ JobOf(c) = j /\ Open[c]
    BY <1>o
  <2>2. /\ Ledger(t, LeftBy(D(i-1))) /\ \A k \in Cores \ D(i-1) : t.batch[k] = batch[k]
    BY <1>2
  <2>3. \A m \in 1..n : m \in 1..i <=> m \in 1..(i-1) \/ m = i
    BY <1>n
  <2>4. CASE ~Counts(c)
    <3>1. t2 = t
      BY <2>4 DEF CountCore
    <3>2. c \notin Ends(j)
      BY <2>4 DEF Ends
    <3>3. D(i) = D(i-1)
      <4>1. \A k \in Ends(j) : (\E m \in 1..i : msgs[m] = k) <=> (\E m \in 1..(i-1) : msgs[m] = k)
        <5> TAKE k \in Ends(j)
        <5>1. ASSUME NEW m \in 1..i, msgs[m] = k PROVE \E m2 \in 1..(i-1) : msgs[m2] = k
          <6>1. m # i
            BY <3>2, <5>1
          <6>2. m \in 1..(i-1)
            BY <1>n, <6>1
          <6> QED BY <5>1, <6>2
        <5>2. ASSUME NEW m \in 1..(i-1), msgs[m] = k PROVE \E m2 \in 1..i : msgs[m2] = k
          <6>1. m \in 1..i
            BY <1>n
          <6> QED BY <5>2, <6>1
        <5> QED BY <5>1, <5>2
      <4> QED BY <4>1 DEF CountedBy
    <3> HIDE DEF D
    <3> QED BY <2>2, <3>1, <3>3
  <2>5. CASE Counts(c)
    <3>1. c \in Ends(j)
      BY <2>1, <2>5 DEF Ends
    <3>2. c \notin D(i-1)
      <4>1. ASSUME NEW m \in 1..(i-1), msgs[m] = c PROVE FALSE
        <5>1. m \in 1..n /\ m # i
          BY <1>n
        <5> QED BY <4>1, <5>1
      <4> QED BY <4>1 DEF CountedBy
    <3>3. D(i) = D(i-1) \union {c}
      <4>1. \A k \in Ends(j) : (\E m \in 1..i : msgs[m] = k) <=> (\E m \in 1..(i-1) : msgs[m] = k) \/ k = c
        <5> TAKE k \in Ends(j)
        <5>1. ASSUME NEW m \in 1..i, msgs[m] = k PROVE (\E m2 \in 1..(i-1) : msgs[m2] = k) \/ k = c
          <6>1. m = i \/ m \in 1..(i-1)
            BY <1>n
          <6> QED BY <5>1, <6>1
        <5>2. ASSUME NEW m \in 1..(i-1), msgs[m] = k PROVE \E m2 \in 1..i : msgs[m2] = k
          <6>1. m \in 1..i
            BY <1>n
          <6> QED BY <5>2, <6>1
        <5>3. i \in 1..i
          BY <1>n
        <5> QED BY <5>1, <5>2, <5>3
      <4> QED BY <3>1, <4>1 DEF CountedBy
    <3> DEFINE E == D(i-1)
               left == LeftBy(E)
    <3>4. E \subseteq Cores /\ c \in Cores \ E
      BY <1>d, <2>1, <3>2
    <3> HIDE DEF D, c, E
    <3>5. left[c] = batch[c] /\ t.batch[c] = batch[c]
      BY <1>b, <2>1, <2>2, <3>4, LeftByFacts DEF E
    <3>6. Loaded(batch[c], j)
      BY <2>1 DEF Books, BatchOK
    <3>7. LeftAt(left, c, Len(batch[c])) = LeftBy(E \union {c})
      BY <1>b, <3>4, LeftByStep
    <3>8. Ledger(t, left)
      BY <2>2 DEF E
    <3> HIDE DEF left
    <3>9. Ledger(CountCore(t, c), LeftAt(left, c, Len(batch[c]))) /\ SameBut(c, CountCore(t, c).batch, t.batch)
      BY <1>b, <3>1, <3>5, <3>6, <3>8, CountCoreFacts
    <3>10. t2 = CountCore(t, c)
      BY DEF c
    <3> HIDE DEF t2
    <3>11. Ledger(t2, LeftBy(D(i)))
      BY <3>3, <3>7, <3>9, <3>10 DEF E
    <3>12. \A k \in Cores \ D(i) : t2.batch[k] = batch[k]
      BY <2>2, <3>3, <3>9, <3>10 DEF SameBut
    <3> QED BY <3>11, <3>12 DEF t2
  <2> QED BY <2>4, <2>5
<1> HIDE DEF good
<1>3. \A i \in 1..n, t \in U : F[<<t, i>>] = next(t, i)
  OBVIOUS
<1>4. \A i \in 0..n : \A t : <<i, t>> \in G <=> t \in U /\ good(i, t)
  OBVIOUS
<1>5. \A i \in 0..n : \A t : good(i, t) => t \in U
  BY DEF good, Ledger
<1> HIDE DEF F, G, U, n, s0
<1>6. PICK g : Repeats(g, n, s0, F)
  BY <1>n, IterationSolved
<1>7. <<0, s0>> \in G
  <2>1. 0 \in 0..n
    BY <1>n
  <2> QED BY <1>1, <1>4, <1>5, <2>1
<1>8. ASSUME NEW i \in 1..n, NEW t, <<i-1, t>> \in G
      PROVE  t \in U /\ F[<<t, i>>] = next(t, i) /\ <<i, next(t, i)>> \in G
  <2>1. i \in 0..n /\ i - 1 \in 0..n
    BY <1>n
  <2>2. t \in U /\ good(i-1, t)
    BY <1>4, <1>8, <2>1
  <2>3. good(i, next(t, i))
    BY <1>2, <2>2
  <2>4. F[<<t, i>>] = next(t, i)
    BY <1>3, <2>2
  <2> HIDE DEF next
  <2> QED BY <1>4, <1>5, <2>1, <2>2, <2>3, <2>4
<1> HIDE DEF next
<1>9. \A i \in 0..n : <<i, g[i]>> \in G
  <2>1. \A i \in 0..n : g[i] = IF i = 0 THEN s0 ELSE F[<<g[i-1], i>>]
    BY <1>6 DEF Repeats
  <2>2. <<0, g[0]>> \in G
    <3>1. 0 \in 0..n
      BY <1>n
    <3> QED BY <1>7, <2>1, <3>1
  <2>3. ASSUME NEW i \in 1..n, <<i-1, g[i-1]>> \in G PROVE <<i, g[i]>> \in G
    <3>1. g[i] = F[<<g[i-1], i>>]
      BY <1>n, <2>1
    <3> QED BY <1>8, <2>3, <3>1
  <2> QED BY <1>n, <2>2, <2>3, IterationKeeps
<1>10. g = [i \in 0..n |-> rec(g, i)]
  <2>1. ASSUME NEW i \in 0..n PROVE (IF i = 0 THEN s0 ELSE F[<<g[i-1], i>>]) = rec(g, i)
    <3>1. CASE i = 0
      BY <3>1
    <3>2. CASE i # 0
      <4>1. i \in 1..n /\ i - 1 \in 0..n
        BY <1>n, <3>2
      <4>2. F[<<g[i-1], i>>] = next(g[i-1], i)
        BY <1>8, <1>9, <4>1
      <4> QED BY <3>2, <4>2 DEF next
    <3> QED BY <3>1, <3>2
  <2> HIDE DEF rec
  <2> QED BY <1>6, <2>1 DEF Repeats
<1>11. plan = [i \in 0..n |-> rec(plan, i)]
  <2> HIDE DEF rec
  <2> QED BY <1>10
<1> HIDE DEF plan
<1>12. \A i \in 0..n : <<i, plan[i]>> \in G
  <2>1. \A i \in 0..n : plan[i] = rec(plan, i)
    <3> HIDE DEF rec
    <3> QED BY <1>11
  <2>2. <<0, plan[0]>> \in G
    <3>1. 0 \in 0..n
      BY <1>n
    <3>2. plan[0] = s0
      BY <2>1, <3>1
    <3> QED BY <1>7, <3>2
  <2>3. ASSUME NEW i \in 1..n, <<i-1, plan[i-1]>> \in G PROVE <<i, plan[i]>> \in G
    <3>1. i \in 0..n /\ i # 0
      BY <1>n
    <3>2. plan[i] = next(plan[i-1], i)
      BY <2>1, <3>1 DEF next
    <3> QED BY <1>8, <2>3, <3>2
  <2> QED BY <1>n, <2>2, <2>3, IterationKeeps
<1>13. good(n, plan[n]) /\ plan[0] = s0
  <2>1. n \in 0..n /\ 0 \in 0..n
    BY <1>n
  <2>2. plan[0] = rec(plan, 0)
    <3> HIDE DEF rec
    <3> QED BY <1>11, <2>1
  <2>3. plan[0] = s0
    BY <2>2
  <2> QED BY <1>4, <1>12, <2>1, <2>3
<1> QED BY <1>0, <1>13 DEF good, n, s0

\* A sequence as long as it has elements repeats none.
LEMMA NoRepeats ==
  ASSUME NEW S, NEW s \in Seq(S), Len(s) = Cardinality(Range(s))
  PROVE  \A a, b \in 1..Len(s) : s[a] = s[b] => a = b
<1> DEFINE n == Len(s)
           I == 1..n
           T == Range(s)
<1>1. n \in Nat /\ DOMAIN s = I
  OBVIOUS
<1>2. IsFiniteSet(I) /\ Cardinality(I) = n
  BY <1>1, FS_Interval
<1>3. s \in [I -> T] /\ \A t \in T : \E a \in I : s[a] = t
  <2>1. T = {s[a] : a \in I}
    BY <1>1 DEF Range
  <2>2. s = [a \in I |-> s[a]]
    BY <1>1
  <2> HIDE DEF I, T
  <2> QED BY <2>1, <2>2, Zenon
<1> HIDE DEF I, T, n
<1>4. s \in Surjection(I, T)
  BY <1>3 DEF Surjection
<1>5. Cardinality(T) = Cardinality(I)
  BY <1>2 DEF T, n
<1>6. s \in Injection(I, T)
  BY <1>2, <1>4, <1>5, FS_Surjection
<1>7. \A a, b \in I : s[a] = s[b] => a = b
  BY <1>1, <1>6 DEF Injection, IsInjective
<1> QED BY <1>7 DEF I, n

\* The DONEs of an iteration come from cores of a busy job, from each once.
LEMMA DonesOnce ==
  ASSUME TurnInv, NEW d \in Cores, RecvDone(d)
  PROVE  /\ JobOf(d) \in Jobs /\ busy[JobOf(d)]
         /\ Append(doneMsg[JobOf(d)], d) \in Seq(JobCores(JobOf(d)))
         /\ Len(Append(doneMsg[JobOf(d)], d)) = Cardinality(Range(Append(doneMsg[JobOf(d)], d)))
         /\ Len(Append(doneMsg[JobOf(d)], d)) >= Cardinality(JobCores(JobOf(d))) =>
              Range(Append(doneMsg[JobOf(d)], d)) = JobCores(JobOf(d))
<1> DEFINE j == JobOf(d)
           C == JobCores(j)
           done == doneMsg[j]
           msgs == Append(done, d)
<1>1. d \in dones
  BY DEF RecvDone
<1>2. /\ Turn(d) /\ setup \in Setups /\ JobTurn(j) /\ j \in Jobs
      /\ done \in Seq(Cores) /\ busy \in [Jobs -> BOOLEAN]
      /\ IsFiniteSet(C) /\ d \in C
  BY SetupFacts DEF TurnInv, Types
<1>3. Finishing(d) /\ busy[j]
  BY <1>1, <1>2 DEF Turn, Unsent, Configuring, Answering, Acked, Begun, Starting, Running,
                    Finishing, Over
<1>4. Range(done) \subseteq C /\ Len(done) = Cardinality(Range(done))
  BY <1>2 DEF JobTurn
<1>5. d \notin Range(done)
  BY <1>3 DEF Finishing, Counted
<1>6. done \in Seq(C)
  <2>1. Len(done) \in Nat /\ DOMAIN done = 1..Len(done)
    BY <1>2
  <2>2. \A a \in 1..Len(done) : done[a] \in C
    BY <1>4, <2>1 DEF Range
  <2> HIDE DEF C, done
  <2> QED BY <1>2, <2>1, <2>2
<1> HIDE DEF C, done, j
<1>7. /\ msgs \in Seq(C) /\ Len(msgs) = Len(done) + 1 /\ Len(msgs) \in Nat
  BY <1>2, <1>6
<1>8. Range(msgs) = Range(done) \union {d}
  BY <1>6, RangeAppend
<1>9. IsFiniteSet(Range(done))
  BY <1>2, <1>4, FS_Subset
<1> HIDE DEF msgs
<1>10. Len(msgs) = Cardinality(Range(msgs))
  BY <1>4, <1>5, <1>7, <1>8, <1>9, FS_AddElement
<1>11. Range(msgs) \subseteq C
  BY <1>2, <1>4, <1>8
<1>12. /\ Cardinality(Range(msgs)) <= Cardinality(C)
       /\ Cardinality(Range(msgs)) = Cardinality(C) => Range(msgs) = C
  BY <1>2, <1>11, FS_Subset
<1>13. Cardinality(C) \in Nat
  BY <1>2, FS_CardinalityType
<1>14. Len(msgs) >= Cardinality(C) => Range(msgs) = C
  BY <1>7, <1>10, <1>12, <1>13
<1> QED BY <1>2, <1>3, <1>7, <1>10, <1>14 DEF C, done, j, msgs

\* The end of an iteration keeps the books.
LEMMA RecvDoneBooks ==
  ASSUME ServeInv, TurnInv, setup' = setup, NEW d \in Cores, RecvDone(d)
  PROVE  Books(req', batch', reqDecode', idleDecode', unfinished', Open')
<1> DEFINE j == JobOf(d)
           msgs == Append(doneMsg[j], d)
           all == Len(msgs) >= Cardinality(JobCores(j))
           last == primIndex + 1 = setup.prims
           st == Counting(msgs)[Len(msgs)]
<1>1. /\ Idle /\ UNCHANGED <<idleDecode, unfinished, config>>
      /\ all => IterDone(j, msgs)
      /\ ~all => UNCHANGED <<req, batch, reqDecode, primIndex, busy>>
  BY DEF RecvDone
<1>2. /\ Books(req, batch, reqDecode, idleDecode, unfinished, Open)
      /\ setup \in Setups /\ busy \in [Jobs -> BOOLEAN] /\ batch \in Batches
      /\ primIndex \in 0 .. setup.prims - 1 /\ setup.prims \in Nat \ {0}
      /\ ~Mixed => setup.prims = 1
  BY SetupNumbers DEF ServeInv, TurnInv, Types, Books, Flags
<1>3. /\ j \in Jobs /\ busy[j] /\ msgs \in Seq(JobCores(j)) /\ Len(msgs) = Cardinality(Range(msgs))
      /\ all => Range(msgs) = JobCores(j)
  BY DonesOnce
<1>4. config # "chunks" /\ config' # "chunks"
  BY <1>1 DEF Idle, Suspended
<1>5. /\ Cores' = Cores /\ \A k : JobOf(k)' = JobOf(k) /\ (Counts(k)' <=> Counts(k))
  BY ScheduleKept
<1>6. \A k \in JobCores(j) : k \in Cores /\ JobOf(k) = j /\ Open[k] /\ Loaded(batch[k], j)
  <2>1. \A k \in JobCores(j) : k \in Cores /\ JobOf(k) = j
    BY <1>2, SetupFacts
  <2>2. \A k \in JobCores(j) : Open[k]
    BY <1>3, <2>1 DEF Open, Uncounted
  <2> QED BY <1>2, <2>1, <2>2 DEF Books, BatchOK
<1>7. CASE ~all
  <2>1. UNCHANGED <<req, batch, reqDecode, primIndex, busy>>
    BY <1>1, <1>7
  <2>2. \A k \in Cores : Uncounted(k)' = Uncounted(k)
    BY <1>1, <1>5, <2>1 DEF Uncounted
  <2>3. Open' = Open
    BY <1>5, <2>2 DEF Open
  <2> QED BY <1>1, <1>2, <2>1, <2>3, BooksSame
<1>8. CASE all
  <2> DEFINE now == Counting(msgs)[IF last THEN Len(msgs) ELSE 0]
  <2>1. /\ req' = now.req /\ batch' = now.batch /\ reqDecode' = now.queue
        /\ primIndex' = (IF last THEN 0 ELSE primIndex + 1)
        /\ busy' = [busy EXCEPT ![j] = FALSE]
    <3> HIDE DEF msgs, all, j
    <3> QED BY <1>1, <1>8 DEF IterDone, Counting
  <2>2. \A a, b \in 1..Len(msgs) : msgs[a] = msgs[b] => a = b
    BY <1>3, NoRepeats
  <2> HIDE DEF msgs, all
  <2>3. /\ Counting(msgs)[0] = [req |-> req, batch |-> batch, queue |-> reqDecode]
        /\ Ledger(st, LeftBy(CountedBy(j, msgs, Len(msgs))))
        /\ \A k \in Cores \ CountedBy(j, msgs, Len(msgs)) : st.batch[k] = batch[k]
    BY <1>2, <1>3, <2>2, CountingFacts
  <2>4. CASE ~last
    <3>1. req' = req /\ batch' = batch /\ reqDecode' = reqDecode /\ primIndex' = primIndex + 1
      BY <2>1, <2>3, <2>4
    <3>2. Mixed
      BY <1>2, <2>4
    <3>3. \A k \in Cores : JobOf(k) = j /\ JobCores(j) = Cores
      <4>1. JobCores("BOTH") = Cores /\ (\A k \in Cores : JobOf(k) = "BOTH") /\ j \in {"BOTH"}
        BY <1>2, <1>3, <3>2, OneJob DEF Jobs
      <4> QED BY <4>1
    <3>4. \A k \in Cores : Open[k] = TRUE
      BY <1>3, <3>3 DEF Open, Uncounted
    <3>5. primIndex' # 0
      BY <1>2, <3>1
    <3>6. \A k \in Cores : Open'[k] = TRUE
      BY <1>5, <3>5 DEF Open, Uncounted
    <3>7. Open' = Open
      BY <1>5, <3>4, <3>6 DEF Open
    <3> QED BY <1>1, <1>2, <3>1, <3>7, BooksSame
  <2>5. CASE last
    <3>1. /\ req' = st.req /\ batch' = st.batch /\ reqDecode' = st.queue /\ primIndex' = 0
          /\ busy'[j] = FALSE /\ \A k \in Jobs : k # j => busy'[k] = busy[k]
      BY <1>2, <1>3, <2>1, <2>5
    <3>2. CountedBy(j, msgs, Len(msgs)) = Ends(j) /\ Ends(j) \subseteq Cores
      <4>1. \A k \in Ends(j) : k \in Range(msgs) /\ k \in Cores
        BY <1>3, <1>6, <1>8 DEF Ends
      <4>2. DOMAIN msgs = 1..Len(msgs)
        BY <1>3
      <4>3. \A k \in Ends(j) : \E m \in 1..Len(msgs) : msgs[m] = k
        BY <4>1, <4>2 DEF Range
      <4> QED BY <4>1, <4>3 DEF CountedBy
    <3>3. Ledger(st, LeftBy(Ends(j))) /\ \A k \in Cores \ Ends(j) : st.batch[k] = batch[k]
      BY <2>3, <3>2
    <3> HIDE DEF st
    <3>4. \A k \in JobCores(j) : Open'[k] <=> k \notin Ends(j)
      BY <1>4, <1>5, <1>6, <3>1 DEF Open, Uncounted, Ends
    <3>5. \A k \in Cores \ JobCores(j) : Open'[k] = Open[k]
      <4> TAKE k \in Cores \ JobCores(j)
      <4>1. JobOf(k) \in Jobs /\ JobOf(k) # j
        BY <1>2, SetupFacts DEF JobCores
      <4>2. ~Mixed
        BY <1>3, <4>1 DEF Jobs
      <4>3. primIndex = 0
        BY <1>2, <4>2
      <4>4. busy'[JobOf(k)] = busy[JobOf(k)]
        BY <3>1, <4>1
      <4>5. Uncounted(k)' = Uncounted(k)
        BY <1>1, <1>5, <3>1, <4>3, <4>4 DEF Uncounted
      <4> QED BY <1>5, <4>5 DEF Open
    <3>6. /\ st \in Tallies /\ Recorded(st.req) /\ st.batch \in Batches /\ st.queue \in Seq(Reqs)
          /\ Placed(st.req, st.batch, st.queue, idleDecode)
          /\ Chunked(st.req, LeftBy(Ends(j)))
          /\ Queued(st.req, unfinished)
          /\ \A k \in Cores : Settled(st.batch[k], JobOf(k), st.req)
      BY <3>3 DEF Ledger, Tallies
    <3>7. ASSUME NEW k \in Cores PROVE BatchOK(st.batch[k], JobOf(k), st.req, Open'[k])
      <4>1. CASE ~Open'[k]
        BY <3>6, <4>1 DEF BatchOK
      <4>2. CASE Open'[k] /\ k \in JobCores(j)
        <5>1. st.batch[k] = batch[k] /\ Loaded(batch[k], JobOf(k))
          BY <1>6, <3>3, <3>4, <4>2
        <5> QED BY <4>2, <5>1 DEF BatchOK
      <4>3. CASE Open'[k] /\ k \notin JobCores(j)
        <5>1. Open[k] /\ k \notin Ends(j)
          BY <3>5, <4>3 DEF Ends
        <5>2. st.batch[k] = batch[k] /\ Loaded(batch[k], JobOf(k))
          BY <1>2, <3>3, <5>1 DEF Books, BatchOK
        <5> QED BY <4>3, <5>2 DEF BatchOK
      <4> QED BY <4>1, <4>2, <4>3
    <3>8. Chunked(st.req, Held(st.batch, Open'))
      <4> SUFFICES ASSUME NEW r \in Reqs
                   PROVE  st.req[r].distribute - st.req[r].prefills = Copies(Chunk(r), Held(st.batch, Open'), PrefillSide)
        BY DEF Chunked
      <4> DEFINE x == Chunk(r)
                 h == Held(st.batch, Open')
                 left == LeftBy(Ends(j))
      <4>1. st.req[r].distribute - st.req[r].prefills = Copies(x, left, PrefillSide)
        BY <3>6 DEF Chunked
      <4>2. \A k \in Cores : h[k] = (IF Open'[k] THEN st.batch[k] ELSE <<>>)
        BY DEF Held
      <4>3. /\ \A k \in Ends(j) : left[k] = Marked(batch[k], Len(batch[k]))
            /\ \A k \in Cores \ Ends(j) : left[k] = (IF Open[k] THEN batch[k] ELSE <<>>)
        BY <1>2, <3>2, LeftByFacts
      <4> HIDE DEF h, left
      <4>4. ASSUME NEW k \in Cores PROVE Occurrences(x, h[k]) = Occurrences(x, left[k])
        <5>1. CASE k \in Ends(j)
          <6>1. k \in JobCores(j) /\ ~Open'[k]
            BY <3>4, <5>1 DEF Ends
          <6>2. h[k] = <<>>
            BY <4>2, <6>1
          <6>3. Occurrences(x, <<>>) = 0
            BY OccEmpty
          <6>4. batch[k] \in Seq(StageType)
            BY <1>2 DEF Batches
          <6>5. Occurrences(x, Marked(batch[k], Len(batch[k]))) = 0
            BY <6>4, MarkedFacts
          <6> QED BY <4>3, <5>1, <6>2, <6>3, <6>5
        <5>2. CASE k \notin Ends(j)
          <6>1. Open'[k] <=> Open[k]
            BY <1>6, <3>4, <3>5, <5>2
          <6>2. st.batch[k] = batch[k]
            BY <3>3, <5>2
          <6>3. h[k] = left[k]
            BY <4>2, <4>3, <5>2, <6>1, <6>2
          <6> QED BY <6>3
        <5> QED BY <5>1, <5>2
      <4>5. IsFiniteSet(PrefillSide) /\ PrefillSide \subseteq Cores
        BY <1>2, Sides
      <4> HIDE DEF x
      <4>6. Copies(x, h, PrefillSide) = Copies(x, left, PrefillSide)
        <5>1. \A k \in PrefillSide : Occurrences(x, h[k]) = Occurrences(x, left[k])
          BY <4>4, <4>5
        <5> QED BY <4>5, <5>1, CopiesSame
      <4> QED BY <4>1, <4>6 DEF x, h
    <3> QED BY <1>1, <1>2, <3>1, <3>6, <3>7, <3>8 DEF Books
  <2> QED BY <2>4, <2>5
<1> QED BY <1>7, <1>8
-----------------------------------------------------------------------------
(* The steps of the threads and of the cores.                              *)

\* The batches to be counted depend on the schedule alone, outside iter_start.
LEMMA OpenSame ==
  ASSUME setup' = setup, UNCHANGED <<busy, primIndex>>,
         config' = config \/ (config # "chunks" /\ config' # "chunks")
  PROVE  Open' = Open
<1>1. /\ Cores' = Cores /\ \A k : JobOf(k)' = JobOf(k) /\ (Counts(k)' <=> Counts(k))
  BY ScheduleKept
<1>2. \A k \in Cores : Uncounted(k)' = Uncounted(k)
  BY <1>1 DEF Uncounted
<1> QED BY <1>1, <1>2 DEF Open

\* A step that leaves the schedule alone.
LEMMA ThreadBooks ==
  ASSUME ServeInv, setup' = setup, UNCHANGED schedVars,
         config' = config \/ (config # "chunks" /\ config' # "chunks")
  PROVE  Books(req', batch', reqDecode', idleDecode', unfinished', Open')
<1>1. /\ UNCHANGED <<req, batch, reqDecode, idleDecode, unfinished>>
      /\ UNCHANGED <<busy, primIndex>> /\ unfinished' = unfinished
  BY DEF schedVars
<1>2. Open' = Open
  BY <1>1, OpenSame
<1> QED BY <1>1, <1>2, BooksSame DEF ServeInv

\* An iter_start of PDS that is not due.
LEMMA NotDueBooks ==
  ASSUME ServeInv, setup' = setup,
         \/ IterStartPrefill /\ ~(waitSchedule["PREFILL"] /\ ~busy["PREFILL"])
         \/ IterStartDecode /\ ~(waitSchedule["DECODE"] /\ ~busy["DECODE"])
  PROVE  Books(req', batch', reqDecode', idleDecode', unfinished', Open')
<1>1. UNCHANGED <<req, batch, reqDecode, idleDecode, unfinished>>
  BY DEF IterStartPrefill, IterStartDecode
<1>2. UNCHANGED <<busy, primIndex>>
  BY DEF IterStartPrefill, IterStartDecode
<1>3. config # "chunks" /\ config' # "chunks"
  BY DEF IterStartPrefill, IterStartDecode
<1>4. Open' = Open
  BY <1>2, <1>3, OpenSame
<1> QED BY <1>1, <1>4, BooksSame DEF ServeInv

\* The steps that leave the schedule alone.
LEMMA ThreadSteps ==
  ASSUME \/ FillQueueConfig \/ Arrive \/ DistributeConfig \/ CatchDisStart
         \/ DistributeStart("dis_start") \/ DistributeStart("retry_start") \/ WriteBegin
         \/ \E c \in Cores : WriteStep(c) \/ CoreTakes(c) \/ CoreDone(c) \/ RecvAck(c)
         \/ UNCHANGED vars
  PROVE  /\ UNCHANGED schedVars
         /\ config' = config \/ (config # "chunks" /\ config' # "chunks")
<1>1. CASE FillQueueConfig
  BY <1>1 DEF FillQueueConfig
<1>2. CASE Arrive
  BY <1>2 DEF Arrive
<1>3. CASE DistributeConfig
  BY <1>3 DEF DistributeConfig, Idle, Suspended
<1>4. CASE CatchDisStart
  BY <1>4 DEF CatchDisStart
<1>5. CASE DistributeStart("dis_start") \/ DistributeStart("retry_start")
  BY <1>5 DEF DistributeStart
<1>6. CASE WriteBegin
  BY <1>6 DEF WriteBegin
<1>7. ASSUME NEW c \in Cores, WriteStep(c)
      PROVE  /\ UNCHANGED schedVars
             /\ config' = config \/ (config # "chunks" /\ config' # "chunks")
  BY <1>7 DEF WriteStep, Idle, Suspended
<1>8. ASSUME NEW c \in Cores, CoreTakes(c) \/ CoreDone(c) \/ RecvAck(c)
      PROVE  UNCHANGED schedVars /\ config' = config
  BY <1>8 DEF CoreTakes, CoreDone, RecvAck
<1>9. CASE UNCHANGED vars
  BY <1>9 DEF vars, schedVars
<1> QED BY <1>1, <1>2, <1>3, <1>4, <1>5, <1>6, <1>7, <1>8, <1>9
-----------------------------------------------------------------------------
(* The flags.                                                              *)

\* A job has its turn, or gives it back.
LEMMA AnnounceFlags ==
  ASSUME NEW j, NEW new, Announce(j, new), waitSchedule \in [Jobs -> BOOLEAN]
  PROVE  waitSchedule' \in [Jobs -> BOOLEAN]
<1> DEFINE idle == \A c \in JobCores(j) : new[c] = <<>>
<1>1. idle \in BOOLEAN /\ waitSchedule' = [waitSchedule EXCEPT ![j] = idle]
  BY DEF Announce
<1> HIDE DEF idle
<1> QED BY <1>1

\* iter_start.
LEMMA ScheduleFlags ==
  ASSUME ServeInv, setup' = setup,
         IterStartPrefill \/ IterStartDecode \/ IterStartMixed \/ PickChunk \/ MixedReady
  PROVE  Flags'
<1>1. Flags /\ Reqs' = Reqs /\ Jobs' = Jobs
  BY ScheduleKept DEF ServeInv
<1>2. /\ UNCHANGED <<arrived, primIndex, start, helper, needTrigger, pend>>
      /\ config' \in {"decode", "fill", "chunks"}
  BY DEF IterStartPrefill, IterStartDecode, IterStartMixed, PickChunk, MixedReady
<1>3. waitSchedule' = waitSchedule \/ \E j, new : Announce(j, new)
  <2>1. CASE IterStartPrefill
    BY <2>1 DEF IterStartPrefill, Install
  <2>2. CASE IterStartDecode
    BY <2>2 DEF IterStartDecode, Install
  <2>3. CASE IterStartMixed \/ PickChunk
    BY <2>3 DEF IterStartMixed, PickChunk
  <2>4. CASE MixedReady
    BY <2>4 DEF MixedReady
  <2> QED BY <2>1, <2>2, <2>3, <2>4
<1>4. waitSchedule' \in [Jobs -> BOOLEAN]
  BY <1>1, <1>3, AnnounceFlags DEF Flags
<1> QED BY <1>1, <1>2, <1>4 DEF Flags, NowEvents, CycleEvents

\* The threads and the cores.
LEMMA ThreadFlags ==
  ASSUME ServeInv, setup' = setup,
         \/ FillQueueConfig \/ Arrive \/ DistributeConfig \/ CatchDisStart
         \/ DistributeStart("dis_start") \/ DistributeStart("retry_start") \/ WriteBegin
         \/ \E c \in Cores : WriteStep(c) \/ CoreTakes(c) \/ CoreDone(c) \/ RecvAck(c)
         \/ UNCHANGED vars
  PROVE  Flags'
<1>1. Flags /\ Reqs' = Reqs /\ Jobs' = Jobs
  BY ScheduleKept DEF ServeInv
<1>2. UNCHANGED <<primIndex, waitSchedule>>
  BY ThreadSteps DEF schedVars
<1>3. arrived' \subseteq Reqs
  <2>1. CASE Arrive
    <3>1. arrived # Reqs /\ arrived' = arrived \union {Min(Reqs \ arrived)}
      BY <2>1 DEF Arrive
    <3>2. Reqs \ arrived # {}
      BY <1>1, <3>1 DEF Flags
    <3>3. Reqs \ arrived \subseteq Nat
      BY DEF Reqs
    <3>4. Min(Reqs \ arrived) \in Reqs \ arrived
      BY <3>2, <3>3, MinFacts
    <3> QED BY <1>1, <3>1, <3>4 DEF Flags
  <2>2. CASE ~Arrive
    <3>1. arrived' = arrived
      BY <2>2 DEF FillQueueConfig, DistributeConfig, CatchDisStart, DistributeStart, WriteBegin,
                  WriteStep, CoreTakes, CoreDone, RecvAck, vars
    <3> QED BY <1>1, <3>1 DEF Flags
  <2> QED BY <2>1, <2>2
<1>4. /\ config' \in {config, "wait", "writing", "both", "prefill"}
      /\ start' \in {start, "wait", "writing"}
      /\ helper' \in {helper, "wait", "sending"}
      /\ needTrigger' \in {needTrigger, TRUE, FALSE}
  <2>1. CASE FillQueueConfig
    BY <2>1 DEF FillQueueConfig
  <2>2. CASE Arrive \/ DistributeConfig
    BY <2>2 DEF Arrive, DistributeConfig
  <2>3. CASE CatchDisStart
    BY <2>3 DEF CatchDisStart, TriggerRemembered
  <2>4. CASE DistributeStart("dis_start") \/ DistributeStart("retry_start")
    BY <2>4 DEF DistributeStart
  <2>5. CASE WriteBegin
    BY <2>5 DEF WriteBegin
  <2>6. CASE \E c \in Cores : WriteStep(c)
    BY <2>6 DEF WriteStep
  <2>7. CASE \E c \in Cores : CoreTakes(c) \/ CoreDone(c) \/ RecvAck(c)
    BY <2>7 DEF CoreTakes, CoreDone, RecvAck
  <2>8. CASE UNCHANGED vars
    BY <2>8 DEF vars
  <2> QED BY <2>1, <2>2, <2>3, <2>4, <2>5, <2>6, <2>7, <2>8
<1>5. pend' \subseteq pend \union NowEvents \union CycleEvents
  <2>1. CASE FillQueueConfig
    BY <2>1 DEF FillQueueConfig, NowEvents, CycleEvents
  <2>2. CASE Arrive \/ DistributeConfig
    BY <2>2 DEF Arrive, DistributeConfig, NowEvents, CycleEvents
  <2>3. CASE CatchDisStart
    BY <2>3 DEF CatchDisStart, NowEvents, CycleEvents
  <2>4. CASE DistributeStart("dis_start") \/ DistributeStart("retry_start")
    BY <2>4 DEF DistributeStart, NowEvents, CycleEvents
  <2>5. CASE WriteBegin
    BY <2>5 DEF WriteBegin
  <2>6. CASE \E c \in Cores : WriteStep(c)
    BY <2>6 DEF WriteStep, NowEvents, CycleEvents
  <2>7. CASE \E c \in Cores : CoreTakes(c) \/ CoreDone(c)
    BY <2>7 DEF CoreTakes, CoreDone
  <2>8. CASE \E c \in Cores : RecvAck(c)
    BY <2>8 DEF RecvAck, NowEvents, CycleEvents
  <2>9. CASE UNCHANGED vars
    BY <2>9 DEF vars
  <2> QED BY <2>1, <2>2, <2>3, <2>4, <2>5, <2>6, <2>7, <2>8, <2>9
<1> QED BY <1>1, <1>2, <1>3, <1>4, <1>5 DEF Flags, NowEvents, CycleEvents

\* A DONE.
LEMMA RecvDoneFlags ==
  ASSUME ServeInv, setup \in Setups, setup' = setup, NEW d \in Cores, RecvDone(d)
  PROVE  Flags'
<1>1. Flags /\ Reqs' = Reqs /\ Jobs' = Jobs /\ setup.prims \in Nat \ {0}
  BY ScheduleKept, SetupNumbers DEF ServeInv
<1>2. /\ UNCHANGED <<arrived, config, start, helper, needTrigger>>
      /\ pend' \in {pend, pend \union {"dis_config"}}
  BY DEF RecvDone
<1>3. primIndex' = primIndex \/ primIndex' = IF primIndex + 1 = setup.prims THEN 0 ELSE primIndex + 1
  BY DEF RecvDone, IterDone
<1>4. primIndex' \in 0 .. setup.prims - 1
  BY <1>1, <1>3 DEF Flags
<1>5. waitSchedule' \in [Jobs -> BOOLEAN]
  <2> DEFINE j == JobOf(d)
             msgs == Append(doneMsg[j], d)
  <2>1. CASE IterDone(j, msgs)
    <3>1. PICK st : waitSchedule' = [k \in Jobs |-> \/ waitSchedule[k] \/ k = j
                                                   \/ /\ k = "DECODE" /\ ~busy["DECODE"]
                                                      /\ Len(st.queue) > Len(reqDecode)]
      <4> HIDE DEF j, msgs
      <4> QED BY <2>1 DEF IterDone
    <3> QED BY <1>1, <3>1 DEF Flags
  <2>2. CASE ~IterDone(j, msgs)
    <3>1. waitSchedule' = waitSchedule
      BY <2>2 DEF RecvDone
    <3> QED BY <1>1, <3>1 DEF Flags
  <2> QED BY <2>1, <2>2
<1> QED BY <1>1, <1>2, <1>4, <1>5 DEF Flags, NowEvents, CycleEvents
-----------------------------------------------------------------------------
(* The invariant.                                                          *)

\* Nothing is scheduled at the start.
LEMMA ServeInit == Init => ServeInv
<1> SUFFICES ASSUME Init PROVE ServeInv
  OBVIOUS
<1>1. setup \in Setups
  BY DEF Init
<1>2. /\ PrefillIters \in Nat \ {0} /\ DecodeIters \in Nat \ {0} /\ setup.prims \in Nat \ {0}
  BY <1>1, SetupNumbers
<1>3. Flags
  <2>1. arrived \subseteq Reqs
    BY DEF Init
  <2>2. primIndex \in 0 .. setup.prims - 1
    BY <1>2 DEF Init
  <2>3. waitSchedule \in [Jobs -> BOOLEAN]
    BY DEF Init
  <2> QED BY <2>1, <2>2, <2>3 DEF Init, Flags, NowEvents, CycleEvents
<1>4. Recorded(req)
  <2>1. \A r \in Reqs : req[r] = [phase |-> "UNTOUCHED", distribute |-> 0,
                                  prefills |-> 0, decodes |-> 0]
    BY DEF Init
  <2>2. 0 \in 0 .. PrefillIters /\ 0 \in 0 .. DecodeIters
    BY <1>2
  <2>3. [phase |-> "UNTOUCHED", distribute |-> 0, prefills |-> 0, decodes |-> 0] \in Records
    BY <2>2 DEF Records, Phases
  <2>4. req \in [Reqs -> Records]
    BY <2>3 DEF Init
  <2>5. \A r \in Reqs : Counters(req[r])
    BY <1>2, <2>1 DEF Counters
  <2> QED BY <2>4, <2>5 DEF Recorded
<1>5. batch \in Batches /\ \A c \in Cores : batch[c] = <<>>
  <2>1. <<>> \in Seq(StageType)
    OBVIOUS
  <2> QED BY <2>1 DEF Init, Batches
<1>6. ASSUME NEW c \in Cores PROVE BatchOK(batch[c], JobOf(c), req, Open[c])
  <2>1. JobOf(c) \in Jobs
    BY <1>1, SetupFacts
  <2>2. Loaded(<<>>, JobOf(c))
    BY <1>1, <2>1, EmptyLoaded
  <2>3. Settled(<<>>, JobOf(c), req)
    BY <2>2, BatchFacts
  <2> QED BY <1>5, <2>2, <2>3 DEF BatchOK
<1>7. /\ reqDecode = <<>> /\ reqDecode \in Seq(Reqs)
      /\ idleDecode \in [Pipes -> Seq(Reqs)] /\ unfinished \in [Pipes -> Seq(Reqs)]
      /\ \A g \in Pipes : idleDecode[g] = <<>> /\ unfinished[g] = <<>>
  <2>1. <<>> \in Seq(Reqs)
    OBVIOUS
  <2> QED BY <2>1 DEF Init
<1>8. /\ IsFiniteSet(DecodeSide) /\ IsFiniteSet(PrefillSide) /\ IsFiniteSet(Pipes)
      /\ DecodeSide \subseteq Cores /\ PrefillSide \subseteq Cores
  <2>1. \E j \in Jobs : j # "PREFILL"
    BY DEF Jobs
  <2> QED BY <1>1, <2>1, Sides, PipeFacts
<1>9. \A x : Occurrences(x, <<>>) = 0
  BY OccEmpty
<1>10. ASSUME NEW x PROVE /\ Copies(x, batch, DecodeSide) = 0
                          /\ Copies(x, Held(batch, Open), PrefillSide) = 0
                          /\ Copies(x, idleDecode, Pipes) = 0
                          /\ Copies(x, unfinished, Pipes) = 0
  <2>1. \A c \in DecodeSide : Occurrences(x, batch[c]) = 0
    BY <1>5, <1>8, <1>9
  <2>2. \A c \in PrefillSide : Occurrences(x, Held(batch, Open)[c]) = 0
    BY <1>5, <1>8, <1>9 DEF Held
  <2>3. \A g \in Pipes : Occurrences(x, idleDecode[g]) = 0 /\ Occurrences(x, unfinished[g]) = 0
    BY <1>7, <1>9
  <2> QED BY <1>8, <2>1, <2>2, <2>3, CopiesZero
<1>11. \A r \in Reqs : req[r].phase = "UNTOUCHED" /\ req[r].distribute = 0 /\ req[r].prefills = 0
  BY DEF Init
<1>12. Placed(req, batch, reqDecode, idleDecode)
  BY <1>7, <1>9, <1>10, <1>11 DEF Placed
<1>13. Chunked(req, Held(batch, Open))
  BY <1>10, <1>11 DEF Chunked
<1>14. Queued(req, unfinished)
  BY <1>10, <1>11 DEF Queued
<1> QED BY <1>3, <1>4, <1>5, <1>6, <1>7, <1>12, <1>13, <1>14 DEF ServeInv, Books

\* Every step keeps the books.
LEMMA ServeStep == TurnInv /\ ServeInv /\ [Next]_vars => ServeInv'
<1> SUFFICES ASSUME TurnInv, ServeInv, [Next]_vars PROVE ServeInv'
  OBVIOUS
<1>1. setup' = setup /\ setup \in Setups
  BY DEF Next, Step, Stop, vars, TurnInv, Types
<1> DEFINE kept == Books(req', batch', reqDecode', idleDecode', unfinished', Open')
<1>2. CASE IterStartPrefill \/ IterStartDecode \/ IterStartMixed \/ PickChunk \/ MixedReady
  <2>1. Flags'
    BY <1>1, <1>2, ScheduleFlags
  <2>2. CASE IterStartPrefill
    <3>1. kept
      <4>1. CASE waitSchedule["PREFILL"] /\ ~busy["PREFILL"]
        BY <1>1, <2>2, <4>1, PrefillBooks
      <4>2. CASE ~(waitSchedule["PREFILL"] /\ ~busy["PREFILL"])
        BY <1>1, <2>2, <4>2, NotDueBooks
      <4> QED BY <4>1, <4>2
    <3> QED BY <1>1, <2>1, <3>1, BooksAfter DEF ServeInv
  <2>3. CASE IterStartDecode
    <3>1. kept
      <4>1. CASE waitSchedule["DECODE"] /\ ~busy["DECODE"]
        BY <1>1, <2>3, <4>1, DecodeBooks
      <4>2. CASE ~(waitSchedule["DECODE"] /\ ~busy["DECODE"])
        BY <1>1, <2>3, <4>2, NotDueBooks
      <4> QED BY <4>1, <4>2
    <3> QED BY <1>1, <2>1, <3>1, BooksAfter DEF ServeInv
  <2>4. CASE IterStartMixed \/ PickChunk \/ MixedReady
    <3>1. kept
      BY <1>1, <2>4, MixedBooks, PickChunkBooks, MixedReadyBooks
    <3> QED BY <1>1, <2>1, <3>1, BooksAfter DEF ServeInv
  <2> QED BY <1>2, <2>2, <2>3, <2>4
<1>3. CASE \/ FillQueueConfig \/ Arrive \/ DistributeConfig \/ CatchDisStart
           \/ DistributeStart("dis_start") \/ DistributeStart("retry_start") \/ WriteBegin
           \/ \E c \in Cores : WriteStep(c) \/ CoreTakes(c) \/ CoreDone(c) \/ RecvAck(c)
           \/ UNCHANGED vars
  <2>1. Flags'
    BY <1>1, <1>3, ThreadFlags
  <2>2. UNCHANGED schedVars /\ (config' = config \/ (config # "chunks" /\ config' # "chunks"))
    BY <1>3, ThreadSteps
  <2>3. kept
    BY <1>1, <2>2, ThreadBooks
  <2> QED BY <1>1, <2>1, <2>3, BooksAfter DEF ServeInv
<1>4. CASE \E c \in Cores : RecvDone(c)
  <2>1. Flags' /\ kept
    BY <1>1, <1>4, RecvDoneFlags, RecvDoneBooks
  <2> QED BY <1>1, <2>1, BooksAfter DEF ServeInv
<1> HIDE DEF kept
<1> QED BY <1>2, <1>3, <1>4 DEF Next, Step, Stop
-----------------------------------------------------------------------------
(* The theorems.                                                           *)

\* The books of every reachable state.
LEMMA ServeTheorem == Spec => [](TurnInv /\ ServeInv)
<1>1. Init => TurnInv /\ ServeInv
  BY TurnInit, ServeInit
<1>2. TurnInv /\ ServeInv /\ [Next]_vars => (TurnInv /\ ServeInv)'
  BY TurnStep, ServeStep
<1> QED BY <1>1, <1>2, PTL DEF Spec

\* A request that is decoding is in exactly one place, for every workload,
\* machine and scheduler: however iterations of the two jobs overlap, iter_done
\* hands a prefilled request to one queue once, iter_start takes it from there to
\* one batch, and what a full core cannot take goes to one waiting list.
THEOREM DecodesAreAccounted == Spec => []DecodesAccounted
<1>1. ServeInv => DecodesAccounted
  <2> SUFFICES ASSUME ServeInv, NEW r \in Reqs, req[r].phase = "DECODE"
               PROVE  DecodePlaces(r) = 1
    BY DEF DecodesAccounted
  <2>1. Copies(Decoding(r), batch, DecodeSide) + Occurrences(r, reqDecode)
          + Copies(r, idleDecode, Pipes) = IF req[r].phase = "DECODE" THEN 1 ELSE 0
    BY DEF ServeInv, Books, Placed
  <2> QED BY <2>1 DEF DecodePlaces, Decoding
<1> QED BY <1>1, ServeTheorem, PTL

\* The chunks in the pipelines are those distributed and not yet counted, for
\* every workload, machine and scheduler, so that iter_done finishes a prompt
\* with its last chunk; and a prompt with chunks left waits in one queue of a
\* mixed pipeline.
THEOREM ChunksAreAccounted == Spec => []ChunksAccounted
<1>1. ServeInv => ChunksAccounted
  <2> SUFFICES ASSUME ServeInv, NEW r \in Reqs
               PROVE  /\ req[r].distribute - req[r].prefills =
                           Copies([req |-> r, type |-> "PREFILL"], Pending, PrefillSide)
                      /\ req[r].phase \in {"DECODE", "PD_DONE"} => req[r].prefills = PrefillIters
                      /\ Mixed => Copies(r, unfinished, Pipes) =
                                    IF req[r].phase = "PREFILL" /\ ChunksLeft(req[r]) THEN 1 ELSE 0
    BY DEF ChunksAccounted
  <2>1. /\ Recorded(req) /\ Chunked(req, Held(batch, Open)) /\ Queued(req, unfinished)
    BY DEF ServeInv, Books
  <2>2. Pending = Held(batch, Open)
    BY DEF Pending, Held, Open
  <2>3. req[r].distribute - req[r].prefills = Copies(Chunk(r), Pending, PrefillSide)
    BY <2>1, <2>2 DEF Chunked
  <2>4. req[r].phase \in {"DECODE", "PD_DONE"} => req[r].prefills = PrefillIters
    BY <2>1 DEF Recorded, Counters
  <2>5. Mixed => Copies(r, unfinished, Pipes) =
                   IF req[r].phase = "PREFILL" /\ ChunksLeft(req[r]) THEN 1 ELSE 0
    BY <2>1 DEF Queued
  <2> QED BY <2>3, <2>4, <2>5 DEF Chunk
<1> QED BY <1>1, ServeTheorem, PTL

\* The type invariant of the host, for every workload, machine and scheduler:
\* no batch exceeds HW_CORE_CREDIT, no counter of a request passes its limit,
\* and DONEs are counted for the job whose cores sent them.
THEOREM HostTypes == Spec => []TypeOK
<1>1. TurnInv /\ ServeInv => TypeOK
  <2> SUFFICES ASSUME TurnInv, ServeInv PROVE TypeOK
    OBVIOUS
  <2>1. Types /\ Flags /\ Books(req, batch, reqDecode, idleDecode, unfinished, Open)
    BY DEF TurnInv, ServeInv
  <2>2. req \in [Reqs -> [phase : Phases, distribute : 0 .. PrefillIters,
                          prefills : 0 .. PrefillIters, decodes : 0 .. DecodeIters]]
    BY <2>1 DEF Books, Recorded, Records
  <2>3. ASSUME NEW c \in Cores
        PROVE  batch[c] \in Seq(StageType) /\ CreditOf(JobOf(c), batch[c]) <= CoreCredit
    <3>1. BatchOK(batch[c], JobOf(c), req, Open[c])
      BY <2>1 DEF Books
    <3>2. Settled(batch[c], JobOf(c), req)
      BY <3>1, BatchFacts DEF BatchOK
    <3> QED BY <3>2, BatchFacts DEF Settled
  <2>4. DOMAIN batch = Cores /\ reqDecode \in Seq(Reqs)
    BY <2>1 DEF Books, Batches
  <2>5. /\ DOMAIN idleDecode = Pipes /\ DOMAIN unfinished = Pipes
        /\ \A g \in Pipes : idleDecode[g] \in Seq(Reqs) /\ unfinished[g] \in Seq(Reqs)
    BY <2>1 DEF Books
  <2>6. ASSUME NEW j \in Jobs PROVE doneMsg[j] \in Seq(JobCores(j))
    <3>1. doneMsg[j] \in Seq(Cores) /\ Range(doneMsg[j]) \subseteq JobCores(j)
      BY <2>1 DEF Types, TurnInv, JobTurn
    <3> DEFINE s == doneMsg[j]
               C == JobCores(j)
    <3>2. Len(s) \in Nat /\ DOMAIN s = 1..Len(s)
      BY <3>1
    <3>3. \A a \in 1..Len(s) : s[a] \in C
      BY <3>1, <3>2 DEF Range
    <3> HIDE DEF s, C
    <3>4. s \in Seq(Cores)
      BY <3>1 DEF s
    <3>5. s \in Seq(C)
      BY <3>2, <3>3, <3>4
    <3> QED BY <3>5 DEF s, C
  <2>7. \A c \in Cores : /\ writeBuffer[c] \in Seq({"CONFIG", "START"})
                         /\ outgoing[c] \in Seq({"CONFIG", "START"})
                         /\ inbox[c] \in Seq({"CONFIG", "START"})
    BY <2>1 DEF Types, Messages
  <2>8. /\ setup \in Setups /\ busy \in [Jobs -> BOOLEAN] /\ waitStart \in [Jobs -> BOOLEAN]
        /\ ackCnt \in [Jobs -> Nat] /\ tempConfig \subseteq Cores
        /\ core \in [Cores -> {"idle", "configured", "running"}]
        /\ acks \subseteq Cores /\ dones \subseteq Cores
    BY <2>1 DEF Types
  <2>9. /\ arrived \subseteq Reqs /\ primIndex \in 0 .. setup.prims - 1
        /\ waitSchedule \in [Jobs -> BOOLEAN]
        /\ config \in {"wait", "prefill", "decode", "both", "chunks", "fill", "writing"}
        /\ start \in {"wait", "writing"} /\ helper \in {"wait", "sending"}
        /\ needTrigger \in BOOLEAN /\ pend \subseteq NowEvents \union CycleEvents
    BY <2>1 DEF Flags
  <2> QED BY <2>2, <2>3, <2>4, <2>5, <2>6, <2>7, <2>8, <2>9 DEF TypeOK
<1> QED BY <1>1, ServeTheorem, PTL
=============================================================================
