---------------------------- MODULE CampaignProofs ----------------------------
(***************************************************************************)
(* What holds of Campaign for any contacts, retries, workers, batch sizes, *)
(* requests and faults: claims are disjoint, a queued run is dialled once, *)
(* a contact has one call at a time, no row is counted that is not         *)
(* processed, and a campaign that nobody resumes is not completed during   *)
(* a call.                                                                 *)
(***************************************************************************)
EXTENDS Campaign, FiniteSetTheorems, SequenceTheorems, TLAPS

-----------------------------------------------------------------------------
(* The inductive invariant.                                                *)

\* Queued runs whose call has been and is over.
Ended == {q \in QueuedRuns : run[q] \in {"busy", "over"}}

\* A retry is only asked for when the call it repeats is over.
Announced == {EventOf(k) : k \in {"synced", "batch", "batchFailed", "tripped"}}
               \cup {RetryNeeded(q) : q \in Ended}

EventsFit == events \in Seq(Announced)

\* What a worker has claimed is in processing, and not called before its turn.
TasksFit ==
  \A w \in Workers :
    /\ \A q \in task[w].mine : row[q] = "processing"
    /\ task[w].pc \notin {"loop", "dial", "mark"} => task[w].mine = {}
    /\ task[w].pc \in {"dial", "mark"} => task[w].cur \in task[w].mine
    /\ task[w].pc = "dial" => run[task[w].cur] = "created"
    /\ \A q \in task[w].mine :
         task[w].pc = "loop" \/ q # task[w].cur => run[q] = "none"

\* What is queued has not been called.
QueuedAreUncalled ==
  \A q \in QueuedRuns : row[q] \in {"absent", "queued"} => run[q] = "none"

\* A contact is queued again when all its earlier calls are over.
AttemptsFollow ==
  \A r \in Rows, j, k \in 0 .. MaxRetries :
    j < k /\ row[<<r, k>>] # "absent" => run[<<r, j>>] \in {"busy", "over"}

Processed == {q \in QueuedRuns : row[q] = "processed"}

\* No worker has read more rows from the counter than are processed.
CountersFit ==
  /\ processedRows <= Cardinality(Processed)
  /\ \A w \in Workers : task[w].seen <= Cardinality(Processed)

\* Until the source is synced nothing happens to the campaign but what users ask.
NothingYet ==
  /\ \A q \in QueuedRuns : row[q] = "absent" /\ run[q] = "none"
  /\ later = {} /\ processedRows = 0 /\ jobs = 0 /\ events = << >>
  /\ \A w \in Workers : task[w] = IdleTask
  /\ ~open /\ ~tripping
  /\ orch = [t \in OrchTasks |-> "idle"]
  /\ ~flag /\ heard = "none" /\ noted = "recent"

SyncComesFirst ==
  /\ request = "start" => state = "created"
  /\ state = "created" => sync = "none"
  /\ state = "created" \/ sync = "enqueued" => NothingYet

CampaignInv == /\ TypeOK /\ SyncComesFirst /\ EventsFit /\ TasksFit /\ QueuedAreUncalled
               /\ AttemptsFollow /\ CountersFit /\ ClaimsAreDisjoint

-----------------------------------------------------------------------------
(* Finite sets, events, and the time before the sync.                      *)

LEMMA QueuedRunsFinite == IsFiniteSet(QueuedRuns) /\ Cardinality(QueuedRuns) \in Nat
<1>1. IsFiniteSet(0 .. MaxRetries)
  BY CampaignAssumption, FS_Interval
<1>2. IsFiniteSet(QueuedRuns)
  BY <1>1, CampaignAssumption, FS_Product DEF QueuedRuns
<1> QED BY <1>2, FS_CardinalityType

LEMMA ProcessedFinite ==
  /\ IsFiniteSet(Processed) /\ Cardinality(Processed) \in 0 .. Cardinality(QueuedRuns)
<1>1. Processed \in SUBSET QueuedRuns
  BY DEF Processed
<1>2. IsFiniteSet(Processed) /\ Cardinality(Processed) <= Cardinality(QueuedRuns)
  BY <1>1, QueuedRunsFinite, FS_Subset
<1> QED BY <1>2, QueuedRunsFinite, FS_CardinalityType

LEMMA PublishFits ==
  ASSUME EventsFit, Len(events) <= MaxEvents, Announced \subseteq Announced',
         NEW e \in Announced', Publish(e)
  PROVE  EventsFit' /\ Len(events') <= MaxEvents
<1>1. events \in Seq(Announced')
  BY DEF EventsFit
<1>2. CASE events' = events
  BY <1>1, <1>2 DEF EventsFit
<1>3. CASE Len(events) < MaxEvents /\ events' = Append(events, e)
  BY <1>1, <1>3, AppendProperties, LenProperties, CampaignAssumption DEF EventsFit
<1> QED BY <1>2, <1>3 DEF Publish

LEMMA HandlingFits ==
  ASSUME EventsFit, Len(events) <= MaxEvents, events # << >>, events' = Tail(events),
         Announced \subseteq Announced'
  PROVE  EventsFit' /\ Len(events') <= MaxEvents /\ Head(events) \in Announced
<1>1. events \in Seq(Announced')
  BY DEF EventsFit
<1>2. events' \in Seq(Announced') /\ Len(events') = Len(events) - 1 /\ Head(events) \in Announced
  BY <1>1, HeadTailProperties DEF EventsFit
<1> QED BY <1>1, <1>2, LenProperties, CampaignAssumption DEF EventsFit

LEMMA ForgettingFits ==
  ASSUME events' = << >>
  PROVE  EventsFit' /\ Len(events') <= MaxEvents
<1>1. << >> \in Seq(Announced') /\ Len(<< >>) = 0
  OBVIOUS
<1> QED BY <1>1, CampaignAssumption DEF EventsFit

\* Once something has happened the source has been synced, or never will be.
LEMMA SyncWasFirst ==
  ASSUME SyncComesFirst, ~NothingYet, state' = state \/ state' # "created",
         sync' = sync \/ sync' # "enqueued", request' = request \/ request' # "start"
  PROVE  SyncComesFirst'
BY DEF SyncComesFirst

\* A step that leaves queued runs, tasks and the counter alone.
LEMMA CallsStay ==
  ASSUME CampaignInv, UNCHANGED <<row, run, task, processedRows>>
  PROVE  /\ TasksFit' /\ QueuedAreUncalled' /\ AttemptsFollow' /\ CountersFit'
         /\ ClaimsAreDisjoint' /\ Announced' = Announced
BY DEF CampaignInv, TasksFit, QueuedAreUncalled, AttemptsFollow, CountersFit, Processed,
       ClaimsAreDisjoint, Announced, Ended

-----------------------------------------------------------------------------
(* Steps of users, the sync and the orchestrator.                          *)

LEMMA KindsAreAnnounced ==
  /\ EventOf("synced") \in Announced /\ EventOf("batch") \in Announced
  /\ EventOf("batchFailed") \in Announced /\ EventOf("tripped") \in Announced
BY DEF Announced

LEMMA CampaignInvInit == Init => CampaignInv
<1> SUFFICES ASSUME Init PROVE CampaignInv
  OBVIOUS
<1>1. EventsFit /\ Len(events) <= MaxEvents
  BY CampaignAssumption DEF Init, EventsFit
<1>2. IdleTask \in Tasks /\ IdleTask.mine = {} /\ IdleTask.pc = "idle" /\ IdleTask.seen = 0
  BY QueuedRunsFinite DEF IdleTask, Tasks
<1>3. TypeOK
  <2>1. 0 \in 0 .. Cardinality(QueuedRuns) /\ 0 \in 0 .. MaxJobs /\ 0 \in 0 .. MaxFaults
    BY QueuedRunsFinite, CampaignAssumption
  <2>2. \A i \in DOMAIN events : FALSE
    BY DEF Init
  <2>3. state \in States /\ orch \in [OrchTasks -> {"idle"}]
    BY DEF Init, States
  <2>4. open \in BOOLEAN /\ tripping \in BOOLEAN /\ flag \in BOOLEAN /\ lock \in BOOLEAN
    BY DEF Init
  <2> QED BY <1>1, <1>2, <2>1, <2>2, <2>3, <2>4 DEF Init, TypeOK
<1>4. SyncComesFirst
  BY DEF Init, SyncComesFirst, NothingYet
<1>5. TasksFit /\ QueuedAreUncalled /\ ClaimsAreDisjoint
  BY <1>2 DEF Init, TasksFit, QueuedAreUncalled, ClaimsAreDisjoint
<1>6. AttemptsFollow
  BY DEF Init, AttemptsFollow, QueuedRuns
<1>7. CountersFit
  BY <1>2, ProcessedFinite DEF Init, CountersFit
<1> QED BY <1>1, <1>3, <1>4, <1>5, <1>6, <1>7 DEF CampaignInv

LEMMA UsersAsk ==
  ASSUME CampaignInv, Api \/ ApiWrites
  PROVE  CampaignInv'
<1>1. UNCHANGED <<calls, processedRows, failedRows, jobs, task, events, orchestrator>>
  BY DEF Api, ApiWrites, CheckStart, CheckPause, CheckResume, Check, WriteStart, WritePause,
         WriteResume, ResetBreaker, breaker
<1>2. /\ TasksFit' /\ QueuedAreUncalled' /\ AttemptsFollow' /\ CountersFit'
      /\ ClaimsAreDisjoint' /\ EventsFit'
  BY <1>1, CallsStay DEF CampaignInv, EventsFit, calls
<1>3. TypeOK'
  <2>1. /\ state' \in States /\ request' \in {"none", "start", "pause", "resume", "reset"}
        /\ sync' \in {"none", "enqueued", "synced"} /\ faults' \in 0 .. MaxFaults
    BY CampaignAssumption
       DEF CampaignInv, TypeOK, States, Api, ApiWrites, CheckStart, CheckPause, CheckResume, Check,
           WriteStart, WritePause, WriteResume, ResetBreaker, Fault
  <2>2. (open' = open \/ open' = FALSE) /\ tripping' = tripping
    BY DEF Api, ApiWrites, CheckStart, CheckPause, CheckResume, Check, WriteStart, WritePause,
           WriteResume, ResetBreaker, breaker
  <2>3. open' \in BOOLEAN /\ tripping' \in BOOLEAN
    BY <2>2 DEF CampaignInv, TypeOK
  <2> QED BY <1>1, <2>1, <2>3 DEF CampaignInv, TypeOK, calls, orchestrator, memory
<1>4. NothingYet => NothingYet'
  BY <1>1 DEF NothingYet, calls, orchestrator, memory, Api, ApiWrites, CheckStart, CheckPause,
              CheckResume, Check, WriteStart, WritePause, WriteResume, ResetBreaker, breaker
<1>5. SyncComesFirst'
  BY <1>4 DEF CampaignInv, SyncComesFirst, Api, ApiWrites, CheckStart, CheckPause, CheckResume,
              Check, WriteStart, WritePause, WriteResume, ResetBreaker
<1> QED BY <1>2, <1>3, <1>5 DEF CampaignInv

\* The types after a step that leaves queued runs and tasks alone.
LEMMA TypesStay ==
  ASSUME CampaignInv, EventsFit', Len(events') <= MaxEvents,
         UNCHANGED <<row, run, task, processedRows, failedRows, request>>,
         later' \in SUBSET later, state' \in States, sync' \in {sync, "none"},
         jobs' \in 0 .. MaxJobs, faults' \in 0 .. MaxFaults,
         orch' \in [OrchTasks -> {"idle", "check", "pause", "enqueue", "flag",
                                  "complete", "finish"}],
         open' = open \/ open' = FALSE, tripping' = tripping \/ tripping' = FALSE,
         flag' = flag \/ flag' = TRUE \/ flag' = FALSE,
         lock' = lock \/ lock' = TRUE \/ lock' = FALSE,
         heard' \in {heard, "none", "recent", "old"}, noted' \in {noted, "recent", "old"}
  PROVE  TypeOK'
<1>1. open' \in BOOLEAN /\ tripping' \in BOOLEAN
  BY DEF CampaignInv, TypeOK
<1>2. flag' \in BOOLEAN /\ lock' \in BOOLEAN
  BY DEF CampaignInv, TypeOK
<1>3. \A i \in DOMAIN events' :
        events'[i] \in {EventOf(k) : k \in {"synced", "batch", "batchFailed", "tripped"}}
                         \cup {RetryNeeded(q) : q \in QueuedRuns}
  BY DEF EventsFit, Announced, Ended
<1>4. heard' \in {"none", "recent", "old"} /\ noted' \in {"recent", "old"}
  BY DEF CampaignInv, TypeOK
<1> QED BY <1>1, <1>2, <1>3, <1>4 DEF CampaignInv, TypeOK

LEMMA SourceSynced ==
  ASSUME CampaignInv, SyncRows
  PROVE  CampaignInv'
<1>1. /\ sync = "enqueued" /\ sync' = "synced" /\ state # "created" /\ NothingYet
      /\ row' = [q \in QueuedRuns |-> IF q[2] = 0 THEN "queued" ELSE row[q]]
      /\ UNCHANGED <<state, request, processedRows, failedRows, later, run, jobs,
                     task, breaker, events, orchestrator, faults>>
  BY DEF SyncRows, CampaignInv, SyncComesFirst
<1>2. \A q \in QueuedRuns : run[q] = "none" /\ row'[q] \in {"absent", "queued"}
                            /\ (row'[q] # "absent" => q[2] = 0)
  BY <1>1 DEF NothingYet
<1>3. \A w \in Workers : task[w] = IdleTask
  BY <1>1 DEF NothingYet
<1>4. TypeOK'
  BY <1>1 DEF CampaignInv, TypeOK, breaker, orchestrator, memory
<1>5. SyncComesFirst'
  BY <1>1 DEF CampaignInv, SyncComesFirst
<1>6. EventsFit'
  BY <1>1 DEF CampaignInv, EventsFit, Announced, Ended
<1>7. TasksFit' /\ ClaimsAreDisjoint'
  BY <1>1, <1>3 DEF TasksFit, ClaimsAreDisjoint, IdleTask
<1>8. QueuedAreUncalled'
  BY <1>1, <1>2 DEF QueuedAreUncalled
<1>9. AttemptsFollow'
  <2> SUFFICES ASSUME NEW r \in Rows, NEW j \in 0 .. MaxRetries, NEW k \in 0 .. MaxRetries,
                      j < k, row'[<<r, k>>] # "absent"
               PROVE  FALSE
    BY DEF AttemptsFollow
  <2>1. <<r, k>> \in QueuedRuns
    BY DEF QueuedRuns
  <2> QED BY <1>2, <2>1, CampaignAssumption
<1>10. CountersFit'
  <2>1. processedRows' = 0 /\ \A w \in Workers : task'[w].seen = 0
    BY <1>1, <1>3 DEF NothingYet, IdleTask
  <2>2. Cardinality(Processed)' \in Nat
    <3>1. Processed' = {}
      BY <1>2 DEF Processed
    <3> QED BY <3>1, FS_EmptySet
  <2> QED BY <2>1, <2>2 DEF CountersFit
<1> QED BY <1>4, <1>5, <1>6, <1>7, <1>8, <1>9, <1>10 DEF CampaignInv

LEMMA SyncEnded ==
  ASSUME CampaignInv, SyncDone \/ SyncFails
  PROVE  CampaignInv'
<1>1. /\ sync # "none" /\ sync' = "none" /\ state' \in {"completed", "running", "failed"}
      /\ UNCHANGED <<request, processedRows, failedRows, row, later, run, jobs, task, open,
                     tripping, orch, flag, lock, heard, noted>>
      /\ faults' \in {faults, faults + 1} /\ (faults' # faults => faults < MaxFaults)
      /\ (Publish(EventOf("synced")) \/ events' = events)
  BY DEF SyncDone, SyncFails, Fault, calls, breaker, orchestrator, memory
<1>2. /\ TasksFit' /\ QueuedAreUncalled' /\ AttemptsFollow' /\ CountersFit'
      /\ ClaimsAreDisjoint' /\ Announced' = Announced
  BY <1>1, CallsStay
<1>3. EventsFit' /\ Len(events') <= MaxEvents
  <2>1. EventsFit /\ Len(events) <= MaxEvents
    BY DEF CampaignInv, TypeOK
  <2>2. CASE Publish(EventOf("synced"))
    BY <1>2, <2>1, <2>2, KindsAreAnnounced, PublishFits
  <2>3. CASE events' = events
    BY <1>2, <2>1, <2>3 DEF EventsFit
  <2> QED BY <1>1, <2>2, <2>3
<1>4. TypeOK'
  <2>1. /\ state' \in States /\ jobs' \in 0 .. MaxJobs /\ faults' \in 0 .. MaxFaults
        /\ orch' \in [OrchTasks -> {"idle", "check", "pause", "enqueue", "flag",
                                    "complete", "finish"}]
    BY <1>1, CampaignAssumption DEF CampaignInv, TypeOK, States
  <2> QED BY <1>1, <1>3, <2>1, TypesStay
<1>5. SyncComesFirst'
  BY <1>1 DEF CampaignInv, SyncComesFirst
<1> QED BY <1>2, <1>3, <1>4, <1>5 DEF CampaignInv

\* A step of the orchestrator or of the breaker: it may publish an event, handle
\* one, or forget them all.
LEMMA OrchestratorSteps ==
  ASSUME CampaignInv, ~NothingYet,
         UNCHANGED <<row, run, task, processedRows, failedRows, request, sync>>,
         later' \in SUBSET later, state' \in {state, "paused", "completed"},
         jobs' \in 0 .. MaxJobs, faults' \in 0 .. MaxFaults,
         orch' \in [OrchTasks -> {"idle", "check", "pause", "enqueue", "flag",
                                  "complete", "finish"}],
         open' = open \/ open' = FALSE, tripping' = tripping \/ tripping' = FALSE,
         flag' = flag \/ flag' = TRUE \/ flag' = FALSE,
         lock' = lock \/ lock' = TRUE \/ lock' = FALSE,
         heard' \in {heard, "none", "recent", "old"}, noted' \in {noted, "recent", "old"},
         \/ events' \in {events, << >>}
         \/ events # << >> /\ events' = Tail(events)
         \/ Publish(EventOf("tripped"))
  PROVE  CampaignInv'
<1>1. /\ TasksFit' /\ QueuedAreUncalled' /\ AttemptsFollow' /\ CountersFit'
      /\ ClaimsAreDisjoint' /\ Announced' = Announced
  BY CallsStay
<1>2. EventsFit' /\ Len(events') <= MaxEvents
  <2>1. EventsFit /\ Len(events) <= MaxEvents
    BY DEF CampaignInv, TypeOK
  <2>2. CASE events' \in {events, << >>}
    BY <1>1, <2>1, <2>2, ForgettingFits DEF EventsFit
  <2>3. CASE events # << >> /\ events' = Tail(events)
    BY <1>1, <2>1, <2>3, HandlingFits
  <2>4. CASE Publish(EventOf("tripped"))
    BY <1>1, <2>1, <2>4, KindsAreAnnounced, PublishFits
  <2> QED BY <2>2, <2>3, <2>4
<1>3. TypeOK'
  <2>1. state' \in States
    BY DEF CampaignInv, TypeOK, States
  <2> QED BY <1>2, <2>1, TypesStay
<1>4. SyncComesFirst'
  BY SyncWasFirst DEF CampaignInv
<1> QED BY <1>1, <1>2, <1>3, <1>4 DEF CampaignInv

\* The types of what the orchestrator may leave alone.
LEMMA KeptTypes ==
  ASSUME CampaignInv
  PROVE  /\ jobs \in 0 .. MaxJobs /\ faults \in 0 .. MaxFaults
         /\ orch \in [OrchTasks -> {"idle", "check", "pause", "enqueue", "flag",
                                    "complete", "finish"}]
         /\ "listener" \in OrchTasks /\ "monitor" \in OrchTasks
BY DEF CampaignInv, TypeOK, OrchTasks

LEMMA Scheduled ==
  ASSUME CampaignInv, NEW t \in OrchTasks, Schedule(t)
  PROVE  CampaignInv'
<1>1. /\ orch[t] # "idle" /\ \E step \in {"idle", "pause", "enqueue", "flag"} : Goto(t, step)
      /\ UNCHANGED <<row, run, later, task, processedRows, failedRows, request, sync, open,
                     tripping>>
      /\ state' \in {state, "paused"}
      /\ faults' \in {faults, faults + 1} /\ (faults' # faults => faults < MaxFaults)
      /\ jobs' \in {jobs, jobs + 1} /\ (jobs' # jobs => jobs < MaxJobs)
  BY DEF Schedule, ScheduleCheck, SchedulePause, ScheduleEnqueue, ScheduleFlag, Goto, Fault,
         campaign, calls, breaker
<1>2. /\ flag' = flag \/ flag' = TRUE \/ flag' = FALSE
      /\ lock' = lock \/ lock' = FALSE
      /\ heard' \in {heard, "none"} /\ noted' \in {noted, "recent"}
      /\ events' = events \/ Publish(EventOf("tripped"))
  BY DEF Schedule, ScheduleCheck, SchedulePause, ScheduleEnqueue, ScheduleFlag, ClearMemory, memory
<1>3. /\ jobs' \in 0 .. MaxJobs /\ faults' \in 0 .. MaxFaults
      /\ orch' \in [OrchTasks -> {"idle", "check", "pause", "enqueue", "flag",
                                  "complete", "finish"}]
  BY <1>1, KeptTypes, CampaignAssumption DEF Goto
<1>4. ~NothingYet
  BY <1>1 DEF NothingYet
<1> QED BY <1>1, <1>2, <1>3, <1>4, OrchestratorSteps

LEMMA Heard ==
  ASSUME CampaignInv,
         \/ HandleBatchCompleted \/ HandleBatchFailed \/ HandleSyncCompleted \/ HandleTripped
  PROVE  CampaignInv'
<1>1. /\ events # << >> /\ events' = Tail(events)
      /\ UNCHANGED <<row, run, later, task, processedRows, failedRows, request, sync, state,
                     open, tripping, jobs, faults, noted>>
      /\ heard' \in {"none", "recent"}
  BY DEF HandleBatchCompleted, HandleBatchFailed, HandleSyncCompleted, HandleTripped, Received,
         ClearMemory, campaign, calls, breaker
<1>2. /\ orch' = orch \/ orch' = [orch EXCEPT !["listener"] = "check"]
      /\ flag' = flag \/ flag' = FALSE
      /\ lock' = lock \/ lock' = TRUE \/ lock' = FALSE
  BY DEF HandleBatchCompleted, HandleBatchFailed, HandleSyncCompleted, HandleTripped,
         EnterSchedule, ClearMemory
<1>3. /\ jobs' \in 0 .. MaxJobs /\ faults' \in 0 .. MaxFaults
      /\ orch' \in [OrchTasks -> {"idle", "check", "pause", "enqueue", "flag",
                                  "complete", "finish"}]
  BY <1>1, <1>2, KeptTypes
<1>4. ~NothingYet
  BY <1>1 DEF NothingYet
<1> QED BY <1>1, <1>2, <1>3, <1>4, OrchestratorSteps

LEMMA Monitored ==
  ASSUME CampaignInv, Monitor
  PROVE  CampaignInv'
<1>1. /\ UNCHANGED <<row, run, later, task, processedRows, failedRows, request, sync, open,
                     tripping, jobs, events, faults, noted>>
      /\ state' \in {state, "completed"} /\ heard' \in {heard, "none"}
  BY DEF Monitor, MonitorSchedules, MonitorUnsticks, MonitorSeesQuiet, MonitorDoubleChecks,
         MonitorCompletes, ClearMemory, campaign, calls, breaker, memory
<1>2. /\ orch' = orch \/ \E step \in {"check", "complete", "idle", "finish"} :
                           orch' = [orch EXCEPT !["monitor"] = step]
      /\ flag' = flag \/ flag' = FALSE
      /\ lock' = lock \/ lock' = TRUE \/ lock' = FALSE
  BY DEF Monitor, MonitorSchedules, MonitorUnsticks, MonitorSeesQuiet, MonitorDoubleChecks,
         MonitorCompletes, EnterSchedule, ClearMemory, Goto, memory
<1>3. /\ jobs' \in 0 .. MaxJobs /\ faults' \in 0 .. MaxFaults
      /\ orch' \in [OrchTasks -> {"idle", "check", "pause", "enqueue", "flag",
                                  "complete", "finish"}]
  BY <1>1, <1>2, KeptTypes
<1>4. ~NothingYet
  <2>1. Queued # {} \/ flag \/ Quiet \/ orch["monitor"] # "idle"
    BY DEF Monitor, MonitorSchedules, MonitorUnsticks, MonitorSeesQuiet, MonitorDoubleChecks,
           MonitorCompletes, HasPendingWork
  <2>2. ASSUME NothingYet PROVE FALSE
    <3>1. Queued = {} /\ ~flag /\ ~Quiet /\ orch["monitor"] = "idle"
      BY <2>2 DEF NothingYet, Queued, Quiet, OrchTasks
    <3> QED BY <2>1, <3>1
  <2> QED BY <2>2
<1> QED BY <1>1, <1>2, <1>3, <1>4, OrchestratorSteps

\* The breaker's pause, its window, and a retry that falls due.
LEMMA BreakerMoves ==
  ASSUME CampaignInv, Trip \/ WindowClears \/ RetryFallsDue
  PROVE  CampaignInv'
<1>1. /\ UNCHANGED <<row, run, task, processedRows, failedRows, request, sync, jobs, faults,
                     orch, flag, lock, heard, noted>>
      /\ later' \in SUBSET later /\ state' \in {state, "paused"}
      /\ events' = events \/ Publish(EventOf("tripped"))
  BY DEF Trip, WindowClears, RetryFallsDue, campaign, calls, orchestrator, memory
<1>2. /\ open' = open \/ open' = FALSE
      /\ tripping' = tripping \/ tripping' = FALSE
  BY DEF Trip, WindowClears, RetryFallsDue, breaker
<1>3. ~NothingYet
  BY DEF Trip, WindowClears, RetryFallsDue, NothingYet
<1> QED BY <1>1, <1>2, <1>3, KeptTypes, OrchestratorSteps

\* The lock expires, or the orchestrator loses its memory and what it did not hear.
LEMMA OrchestratorForgets ==
  ASSUME CampaignInv, Unlock \/ OrchestratorRestarts
  PROVE  CampaignInv'
<1>1. /\ UNCHANGED <<state, request, sync, row, run, later, task, processedRows, failedRows, jobs,
                     open, tripping, noted>>
      /\ faults' \in {faults, faults + 1} /\ (faults' # faults => faults < MaxFaults)
      /\ events' \in {events, << >>} /\ heard' \in {heard, "none"}
      /\ orch' \in {orch, [t \in OrchTasks |-> "idle"]}
  BY DEF Unlock, OrchestratorRestarts, Fault, ClearMemory, campaign, calls, breaker
<1>2. (flag' = flag \/ flag' = FALSE) /\ lock' = FALSE
  BY DEF Unlock, OrchestratorRestarts, ClearMemory
<1>3. /\ jobs' \in 0 .. MaxJobs /\ faults' \in 0 .. MaxFaults
      /\ orch' \in [OrchTasks -> {"idle", "check", "pause", "enqueue", "flag",
                                  "complete", "finish"}]
  BY <1>1, KeptTypes, CampaignAssumption
<1>4. CASE ~NothingYet
  BY <1>1, <1>2, <1>3, <1>4, OrchestratorSteps
<1>5. CASE NothingYet
  <2>1. /\ TasksFit' /\ QueuedAreUncalled' /\ AttemptsFollow' /\ CountersFit'
        /\ ClaimsAreDisjoint' /\ Announced' = Announced
    BY <1>1, CallsStay
  <2>2. events' = << >> /\ EventsFit' /\ Len(events') <= MaxEvents
    BY <1>1, <1>5, ForgettingFits DEF NothingYet
  <2>3. TypeOK'
    <3>1. state' \in States
      BY <1>1 DEF CampaignInv, TypeOK
    <3> QED BY <1>1, <1>2, <1>3, <2>2, <3>1, TypesStay
  <2>4. SyncComesFirst'
    <3>1. NothingYet'
      BY <1>1, <1>2, <1>5, <2>2 DEF NothingYet
    <3> QED BY <1>1, <3>1 DEF CampaignInv, SyncComesFirst
  <2> QED BY <2>1, <2>2, <2>3, <2>4 DEF CampaignInv
<1> QED BY <1>4, <1>5

-----------------------------------------------------------------------------
(* Calls and their callbacks, the passage of time, and retries.            *)

\* Calls that end leave queued runs, tasks and the counter alone.
LEMMA EndsStay ==
  ASSUME CampaignInv, UNCHANGED <<row, task, processedRows>>,
         \A q \in QueuedRuns : \/ run'[q] = run[q]
                               \/ run[q] \in {"calling", "busy"} /\ run'[q] \in {"busy", "over"}
  PROVE  /\ TasksFit' /\ QueuedAreUncalled' /\ AttemptsFollow' /\ CountersFit'
         /\ ClaimsAreDisjoint' /\ Announced \subseteq Announced'
<1>1. Ended \subseteq Ended'
  BY DEF Ended
<1>2. Announced \subseteq Announced'
  BY <1>1 DEF Announced
<1>3. CountersFit' /\ ClaimsAreDisjoint'
  BY DEF CampaignInv, CountersFit, Processed, ClaimsAreDisjoint
<1>4. QueuedAreUncalled'
  BY DEF CampaignInv, QueuedAreUncalled
<1>5. AttemptsFollow'
  <2> SUFFICES ASSUME NEW r \in Rows, NEW j \in 0 .. MaxRetries, NEW k \in 0 .. MaxRetries,
                      j < k, row[<<r, k>>] # "absent"
               PROVE  run'[<<r, j>>] \in {"busy", "over"}
    BY DEF AttemptsFollow
  <2>1. <<r, j>> \in QueuedRuns /\ run[<<r, j>>] \in {"busy", "over"}
    BY DEF QueuedRuns, CampaignInv, AttemptsFollow
  <2> QED BY <2>1
<1>6. TasksFit'
  <2>1. \A w \in Workers : task[w].mine \subseteq QueuedRuns /\ task[w].cur \in QueuedRuns \cup {NoRun}
    BY DEF CampaignInv, TypeOK, Tasks
  <2> QED BY <2>1 DEF CampaignInv, TasksFit
<1> QED BY <1>2, <1>3, <1>4, <1>5, <1>6

\* RecordOutcome keeps the types of the breaker.
LEMMA OutcomeTypes ==
  ASSUME CampaignInv, RecordOutcome \/ UNCHANGED breaker
  PROVE  open' \in BOOLEAN /\ tripping' \in BOOLEAN
<1>1. (open' = open \/ open' = TRUE) /\ (tripping' = tripping \/ tripping' = TRUE)
  BY DEF RecordOutcome, breaker
<1> QED BY <1>1 DEF CampaignInv, TypeOK

LEMMA CallEnded ==
  ASSUME CampaignInv, NEW q \in QueuedRuns, CallEnds(q) \/ BusyAgain(q)
  PROVE  CampaignInv'
<1>1. /\ UNCHANGED <<campaign, row, later, jobs, task, orchestrator>>
      /\ faults' \in {faults, faults + 1} /\ (faults' # faults => faults < MaxFaults)
      /\ run[q] \in {"calling", "busy"}
      /\ \/ run' = [run EXCEPT ![q] = "over"] /\ events' = events
         \/ run' = [run EXCEPT ![q] = "busy"] /\ Publish(RetryNeeded(q))
         \/ run' = run /\ run[q] = "busy" /\ Publish(RetryNeeded(q))
      /\ RecordOutcome
  BY DEF CallEnds, CallOver, Busy, BusyAgain, Fault, calls
<1>2. /\ run' \in [QueuedRuns -> {"none", "created", "calling", "over", "busy"}]
      /\ \A r \in QueuedRuns : \/ run'[r] = run[r]
                               \/ run[r] \in {"calling", "busy"} /\ run'[r] \in {"busy", "over"}
  BY <1>1 DEF CampaignInv, TypeOK
<1>3. /\ TasksFit' /\ QueuedAreUncalled' /\ AttemptsFollow' /\ CountersFit'
      /\ ClaimsAreDisjoint' /\ Announced \subseteq Announced'
  BY <1>1, <1>2, EndsStay DEF campaign
<1>4. EventsFit' /\ Len(events') <= MaxEvents
  <2>1. EventsFit /\ Len(events) <= MaxEvents
    BY DEF CampaignInv, TypeOK
  <2>2. CASE events' = events
    BY <1>3, <2>1, <2>2 DEF EventsFit
  <2>3. CASE run'[q] = "busy" /\ Publish(RetryNeeded(q))
    <3>1. RetryNeeded(q) \in Announced'
      BY <2>3 DEF Announced, Ended
    <3> QED BY <1>3, <2>1, <2>3, <3>1, PublishFits
  <2> QED BY <1>1, <2>2, <2>3 DEF CampaignInv, TypeOK
<1>5. TypeOK'
  <2>1. open' \in BOOLEAN /\ tripping' \in BOOLEAN
    BY <1>1, OutcomeTypes
  <2>2. faults' \in 0 .. MaxFaults
    BY <1>1, KeptTypes, CampaignAssumption
  <2>3. \A i \in DOMAIN events' :
          events'[i] \in {EventOf(k) : k \in {"synced", "batch", "batchFailed", "tripped"}}
                           \cup {RetryNeeded(r) : r \in QueuedRuns}
    BY <1>4 DEF EventsFit, Announced, Ended
  <2> QED BY <1>1, <1>2, <1>4, <2>1, <2>2, <2>3 DEF CampaignInv, TypeOK, campaign, orchestrator, memory
<1>6. SyncComesFirst'
  <2>1. ~NothingYet
    BY <1>1 DEF NothingYet
  <2> QED BY <1>1, <2>1, SyncWasFirst DEF CampaignInv, campaign
<1> QED BY <1>3, <1>4, <1>5, <1>6 DEF CampaignInv

LEMMA HourPassed ==
  ASSUME CampaignInv, HourPasses
  PROVE  CampaignInv'
<1>1. /\ UNCHANGED <<campaign, row, later, jobs, task, breaker, events, orch, flag, lock, faults>>
      /\ events = << >> /\ sync = "none" /\ request = "none" /\ state # "created"
      /\ heard' \in {"none", "old"} /\ noted' = "old"
      /\ run' = [q \in QueuedRuns |-> IF run[q] = "busy" THEN "over" ELSE run[q]]
  BY DEF HourPasses
<1>2. /\ run' \in [QueuedRuns -> {"none", "created", "calling", "over", "busy"}]
      /\ \A r \in QueuedRuns : \/ run'[r] = run[r]
                               \/ run[r] \in {"calling", "busy"} /\ run'[r] \in {"busy", "over"}
  BY <1>1 DEF CampaignInv, TypeOK
<1>3. /\ TasksFit' /\ QueuedAreUncalled' /\ AttemptsFollow' /\ CountersFit'
      /\ ClaimsAreDisjoint' /\ Announced \subseteq Announced'
  BY <1>1, <1>2, EndsStay DEF campaign
<1>4. EventsFit'
  BY <1>1, ForgettingFits
<1>5. TypeOK'
  BY <1>1, <1>2 DEF CampaignInv, TypeOK, campaign, breaker
<1>6. SyncComesFirst'
  BY <1>1 DEF SyncComesFirst, campaign
<1> QED BY <1>3, <1>4, <1>5, <1>6 DEF CampaignInv

\* The retry of a call that is over: no earlier attempt of its contact goes on.
LEMMA RetryQueued ==
  ASSUME CampaignInv, NEW q \in QueuedRuns, q[2] < MaxRetries, q \in Ended,
         row[RetryOf(q)] = "absent", row' = [row EXCEPT ![RetryOf(q)] = "queued"],
         UNCHANGED <<run, task, processedRows>>
  PROVE  /\ TasksFit' /\ QueuedAreUncalled' /\ AttemptsFollow' /\ CountersFit'
         /\ ClaimsAreDisjoint' /\ Announced' = Announced
         /\ RetryOf(q) \in QueuedRuns
<1>1. PICK r \in Rows, n \in 0 .. MaxRetries : q = <<r, n>>
  BY DEF QueuedRuns
<1>2. n + 1 \in 0 .. MaxRetries /\ RetryOf(q) = <<r, n + 1>> /\ RetryOf(q) \in QueuedRuns
  BY <1>1, CampaignAssumption DEF RetryOf, QueuedRuns
<1>3. row'[RetryOf(q)] = "queued" /\ \A p \in QueuedRuns \ {RetryOf(q)} : row'[p] = row[p]
  BY <1>2 DEF CampaignInv, TypeOK
<1>4. Announced' = Announced /\ ClaimsAreDisjoint'
  BY DEF CampaignInv, ClaimsAreDisjoint, Announced, Ended
<1>5. QueuedAreUncalled'
  BY <1>2, <1>3 DEF CampaignInv, QueuedAreUncalled
<1>6. CountersFit'
  <2>1. Processed' = Processed
    BY <1>2, <1>3 DEF Processed
  <2> QED BY <2>1 DEF CampaignInv, CountersFit
<1>7. TasksFit'
  <2>1. \A w \in Workers : task[w].mine \subseteq QueuedRuns
    BY DEF CampaignInv, TypeOK, Tasks
  <2>2. \A w \in Workers : \A p \in task[w].mine : row[p] = "processing"
    BY DEF CampaignInv, TasksFit
  <2>3. \A w \in Workers : \A p \in task[w].mine : row'[p] = "processing"
    BY <1>2, <1>3, <2>1, <2>2
  <2> QED BY <2>3 DEF CampaignInv, TasksFit
<1>8. AttemptsFollow'
  <2> SUFFICES ASSUME NEW s \in Rows, NEW j \in 0 .. MaxRetries, NEW k \in 0 .. MaxRetries,
                      j < k, row'[<<s, k>>] # "absent"
               PROVE  run[<<s, j>>] \in {"busy", "over"}
    BY DEF AttemptsFollow
  <2>1. <<s, k>> \in QueuedRuns
    BY DEF QueuedRuns
  <2>2. CASE <<s, k>> # RetryOf(q)
    BY <1>3, <2>1, <2>2 DEF CampaignInv, AttemptsFollow
  <2>3. CASE <<s, k>> = RetryOf(q)
    <3>1. s = r /\ k = n + 1
      BY <1>2, <2>3
    <3>2. CASE j = n
      BY <1>1, <3>1, <3>2 DEF Ended
    <3>3. CASE j < n
      <4>1. row[q] # "absent"
        BY DEF CampaignInv, QueuedAreUncalled, Ended
      <4> QED BY <1>1, <3>1, <3>3, <4>1 DEF CampaignInv, AttemptsFollow
    <3> QED BY <3>1, <3>2, <3>3, CampaignAssumption
  <2> QED BY <2>2, <2>3
<1> QED BY <1>2, <1>4, <1>5, <1>6, <1>7, <1>8

LEMMA RetryHandled ==
  ASSUME CampaignInv, HandleRetry
  PROVE  CampaignInv'
<1> DEFINE q == Head(events).of
<1>1. /\ events # << >> /\ Head(events).kind = "retry" /\ events' = Tail(events)
      /\ UNCHANGED <<state, request, sync, processedRows, run, jobs, task, breaker,
                     orch, flag, lock, noted, faults>>
      /\ \/ q[2] >= MaxRetries /\ failedRows' = failedRows + 1 /\ UNCHANGED <<row, later, heard>>
         \/ /\ ~(q[2] >= MaxRetries) /\ row[RetryOf(q)] = "absent" /\ failedRows' = failedRows
            /\ row' = [row EXCEPT ![RetryOf(q)] = "queued"]
            /\ later' = later \cup {RetryOf(q)} /\ heard' = "recent"
         \/ UNCHANGED <<row, later, heard, failedRows>>
  BY DEF HandleRetry, Received
<1>2. q \in Ended /\ q \in QueuedRuns
  <2>1. Head(events) \in Announced
    BY <1>1, HeadTailProperties DEF CampaignInv, EventsFit
  <2> QED BY <1>1, <2>1 DEF Announced, EventOf, RetryNeeded, Ended
<1> HIDE DEF q
<1>3. q[2] \in Nat
  BY <1>2, CampaignAssumption DEF QueuedRuns
<1>4. /\ TasksFit' /\ QueuedAreUncalled' /\ AttemptsFollow' /\ CountersFit'
      /\ ClaimsAreDisjoint' /\ Announced' = Announced
      /\ row' \in [QueuedRuns -> {"absent", "queued", "processing", "processed", "failed"}]
      /\ later' \in SUBSET QueuedRuns
  <2>1. CASE row' = row /\ later' = later
    BY <1>1, <2>1, CallsStay DEF CampaignInv, TypeOK
  <2>2. CASE ~(q[2] >= MaxRetries) /\ row[RetryOf(q)] = "absent"
             /\ row' = [row EXCEPT ![RetryOf(q)] = "queued"] /\ later' = later \cup {RetryOf(q)}
    <3>1. q[2] < MaxRetries
      BY <1>3, <2>2, CampaignAssumption
    <3>2. /\ TasksFit' /\ QueuedAreUncalled' /\ AttemptsFollow' /\ CountersFit'
          /\ ClaimsAreDisjoint' /\ Announced' = Announced /\ RetryOf(q) \in QueuedRuns
      BY <1>1, <1>2, <2>2, <3>1, RetryQueued
    <3> QED BY <2>2, <3>2 DEF CampaignInv, TypeOK
  <2> QED BY <1>1, <2>1, <2>2
<1>5. EventsFit' /\ Len(events') <= MaxEvents
  BY <1>1, <1>4, HandlingFits DEF CampaignInv, TypeOK
<1>6. TypeOK'
  <2>1. \A i \in DOMAIN events' :
          events'[i] \in {EventOf(k) : k \in {"synced", "batch", "batchFailed", "tripped"}}
                           \cup {RetryNeeded(r) : r \in QueuedRuns}
    BY <1>5 DEF EventsFit, Announced, Ended
  <2>2. failedRows' \in Nat /\ heard' \in {"none", "recent", "old"}
    BY <1>1 DEF CampaignInv, TypeOK
  <2> QED BY <1>1, <1>4, <1>5, <2>1, <2>2 DEF CampaignInv, TypeOK, breaker
<1>7. SyncComesFirst'
  <2>1. ~NothingYet
    BY <1>1 DEF NothingYet
  <2> QED BY <1>1, <2>1, SyncWasFirst DEF CampaignInv
<1> QED BY <1>4, <1>5, <1>6, <1>7 DEF CampaignInv

-----------------------------------------------------------------------------
(* The batch tasks.                                                        *)

\* What a worker does touches the rows and runs it holds or claims, and no others.
LEMMA WorkerSteps ==
  ASSUME CampaignInv, ~NothingYet, NEW w \in Workers,
         UNCHANGED <<request, sync, failedRows, later, orchestrator>>,
         state' \in {state, "failed"}, jobs' \in 0 .. MaxJobs, faults' \in 0 .. MaxFaults,
         RecordOutcome \/ UNCHANGED breaker,
         \/ UNCHANGED events
         \/ Publish(EventOf("batch")) \/ Publish(EventOf("batchFailed")),
         row' \in [QueuedRuns -> {"absent", "queued", "processing", "processed", "failed"}],
         run' \in [QueuedRuns -> {"none", "created", "calling", "over", "busy"}],
         \A q \in QueuedRuns \ (task[w].mine \cup Queued) : row'[q] = row[q] /\ run'[q] = run[q],
         \A q \in QueuedRuns :
           /\ row'[q] \in {"absent", "queued"} => run'[q] = "none"
           /\ row'[q] # "absent" => row[q] # "absent"
           /\ run[q] \in {"busy", "over"} => run'[q] \in {"busy", "over"},
         task' \in [Workers -> Tasks], \A v \in Workers \ {w} : task'[v] = task[v],
         task'[w].mine \subseteq task[w].mine \cup Queued,
         \A q \in task'[w].mine :
           /\ row'[q] = "processing"
           /\ task'[w].pc = "loop" \/ q # task'[w].cur => run'[q] = "none",
         task'[w].pc \notin {"loop", "dial", "mark"} => task'[w].mine = {},
         task'[w].pc \in {"dial", "mark"} => task'[w].cur \in task'[w].mine,
         task'[w].pc = "dial" => run'[task'[w].cur] = "created",
         processedRows' \in 0 .. Cardinality(QueuedRuns),
         Processed \subseteq Processed', processedRows' <= Cardinality(Processed'),
         task'[w].seen <= Cardinality(Processed')
  PROVE  CampaignInv'
<1>1. \A v \in Workers : task[v].mine \subseteq QueuedRuns
  BY DEF CampaignInv, TypeOK, Tasks
<1>2. \A v \in Workers \ {w} : task[v].mine \cap (task[w].mine \cup Queued) = {}
  BY <1>1 DEF CampaignInv, TasksFit, ClaimsAreDisjoint, Queued
<1>3. \A v \in Workers \ {w} : \A q \in task[v].mine : row'[q] = row[q] /\ run'[q] = run[q]
  BY <1>1, <1>2
<1>4. ClaimsAreDisjoint'
  BY <1>2 DEF CampaignInv, ClaimsAreDisjoint
<1>5. TasksFit'
  <2> SUFFICES ASSUME NEW v \in Workers
               PROVE  /\ \A q \in task'[v].mine : row'[q] = "processing"
                      /\ task'[v].pc \notin {"loop", "dial", "mark"} => task'[v].mine = {}
                      /\ task'[v].pc \in {"dial", "mark"} => task'[v].cur \in task'[v].mine
                      /\ task'[v].pc = "dial" => run'[task'[v].cur] = "created"
                      /\ \A q \in task'[v].mine :
                           task'[v].pc = "loop" \/ q # task'[v].cur => run'[q] = "none"
    BY DEF TasksFit
  <2>1. CASE v = w
    BY <2>1
  <2>2. CASE v # w
    BY <1>3, <2>2 DEF CampaignInv, TasksFit
  <2> QED BY <2>1, <2>2
<1>6. QueuedAreUncalled'
  BY DEF QueuedAreUncalled
<1>7. AttemptsFollow'
  <2> SUFFICES ASSUME NEW r \in Rows, NEW j \in 0 .. MaxRetries, NEW k \in 0 .. MaxRetries,
                      j < k, row'[<<r, k>>] # "absent"
               PROVE  run'[<<r, j>>] \in {"busy", "over"}
    BY DEF AttemptsFollow
  <2>1. <<r, j>> \in QueuedRuns /\ <<r, k>> \in QueuedRuns
    BY DEF QueuedRuns
  <2>2. run[<<r, j>>] \in {"busy", "over"}
    BY <2>1 DEF CampaignInv, AttemptsFollow
  <2> QED BY <2>1, <2>2
<1>8. CountersFit'
  <2>1. Processed' \in SUBSET QueuedRuns /\ IsFiniteSet(Processed')
    BY QueuedRunsFinite, FS_Subset DEF Processed
  <2>2. Cardinality(Processed) <= Cardinality(Processed')
    BY <2>1, FS_Subset
  <2>3. Cardinality(Processed) \in Nat /\ Cardinality(Processed') \in Nat
    BY <2>1, ProcessedFinite, FS_CardinalityType
  <2>4. \A v \in Workers \ {w} : task[v].seen \in Nat /\ task[v].seen <= Cardinality(Processed)
    BY QueuedRunsFinite DEF CampaignInv, CountersFit, TypeOK, Tasks
  <2>5. Cardinality(Processed)' = Cardinality(Processed')
    OBVIOUS
  <2> QED BY <2>2, <2>3, <2>4, <2>5 DEF CountersFit
<1>9. EventsFit' /\ Len(events') <= MaxEvents
  <2>1. EventsFit /\ Len(events) <= MaxEvents
    BY DEF CampaignInv, TypeOK
  <2>2. Announced \subseteq Announced'
    BY DEF Announced, Ended
  <2>3. EventOf("batch") \in Announced' /\ EventOf("batchFailed") \in Announced'
    BY <2>2, KindsAreAnnounced
  <2>4. CASE UNCHANGED events
    BY <2>1, <2>2, <2>4 DEF EventsFit
  <2>5. CASE Publish(EventOf("batch"))
    BY <2>1, <2>2, <2>3, <2>5, PublishFits
  <2>6. CASE Publish(EventOf("batchFailed"))
    BY <2>1, <2>2, <2>3, <2>6, PublishFits
  <2> QED BY <2>4, <2>5, <2>6
<1>10. TypeOK'
  <2>1. open' \in BOOLEAN /\ tripping' \in BOOLEAN
    BY OutcomeTypes
  <2>2. \A i \in DOMAIN events' :
          events'[i] \in {EventOf(k) : k \in {"synced", "batch", "batchFailed", "tripped"}}
                           \cup {RetryNeeded(q) : q \in QueuedRuns}
    BY <1>9 DEF EventsFit, Announced, Ended
  <2>3. state' \in States
    BY DEF CampaignInv, TypeOK, States
  <2> QED BY <1>9, <2>1, <2>2, <2>3 DEF CampaignInv, TypeOK, orchestrator, memory
<1>11. SyncComesFirst'
  BY SyncWasFirst DEF CampaignInv
<1> QED BY <1>4, <1>5, <1>6, <1>7, <1>8, <1>9, <1>10, <1>11 DEF CampaignInv

LEMMA WorkerFacts ==
  ASSUME CampaignInv, NEW w \in Workers
  PROVE  /\ task \in [Workers -> Tasks] /\ task[w] \in Tasks
         /\ task[w].mine \subseteq QueuedRuns
         /\ IdleTask \in Tasks /\ IdleTask.mine = {} /\ IdleTask.pc = "idle"
         /\ IdleTask.cur = NoRun /\ IdleTask.seen = 0
         /\ row \in [QueuedRuns -> {"absent", "queued", "processing", "processed", "failed"}]
         /\ run \in [QueuedRuns -> {"none", "created", "calling", "over", "busy"}]
         /\ state \in States /\ jobs \in 0 .. MaxJobs /\ faults \in 0 .. MaxFaults
         /\ processedRows \in 0 .. Cardinality(QueuedRuns)
         /\ task[w].seen \in 0 .. Cardinality(QueuedRuns)
         /\ processedRows <= Cardinality(Processed) /\ task[w].seen <= Cardinality(Processed)
         /\ \A q \in QueuedRuns :
              row[q] \in {"absent", "queued"} => run[q] = "none"
<1>1. IdleTask \in Tasks /\ IdleTask.mine = {} /\ IdleTask.pc = "idle"
      /\ IdleTask.cur = NoRun /\ IdleTask.seen = 0
  BY QueuedRunsFinite DEF IdleTask, Tasks
<1>2. task \in [Workers -> Tasks] /\ task[w] \in Tasks /\ task[w].mine \subseteq QueuedRuns
      /\ task[w].seen \in 0 .. Cardinality(QueuedRuns)
  BY DEF CampaignInv, TypeOK, Tasks
<1> QED BY <1>1, <1>2 DEF CampaignInv, TypeOK, CountersFit, QueuedAreUncalled

\* What a worker holds, and where it is with it.
LEMMA HeldFacts ==
  ASSUME CampaignInv, NEW w \in Workers
  PROVE  /\ \A q \in task[w].mine : row[q] = "processing"
         /\ task[w].pc \notin {"loop", "dial", "mark"} => task[w].mine = {}
         /\ task[w].pc \in {"dial", "mark"} =>
              task[w].cur \in task[w].mine /\ task[w].cur \in QueuedRuns
         /\ task[w].pc = "dial" => run[task[w].cur] = "created"
         /\ \A q \in task[w].mine :
              task[w].pc = "loop" \/ q # task[w].cur => run[q] = "none"
BY WorkerFacts DEF CampaignInv, TasksFit

\* A step after which as many rows are processed, and the counter is what it was.
LEMMA CountKept ==
  ASSUME CampaignInv, NEW w \in Workers, \A q \in QueuedRuns : row[q] = "processed" => row'[q] = "processed",
         processedRows' = processedRows
  PROVE  /\ Processed \subseteq Processed' /\ IsFiniteSet(Processed')
         /\ processedRows' \in 0 .. Cardinality(QueuedRuns)
         /\ processedRows' <= Cardinality(Processed')
         /\ task[w].seen <= Cardinality(Processed')
         /\ processedRows <= Cardinality(Processed') /\ 0 <= Cardinality(Processed')
<1>1. Processed \subseteq Processed' /\ Processed' \in SUBSET QueuedRuns
  BY DEF Processed
<1>2. IsFiniteSet(Processed') /\ Cardinality(Processed') \in Nat
      /\ Cardinality(Processed) <= Cardinality(Processed')
  BY <1>1, QueuedRunsFinite, FS_Subset, FS_CardinalityType
<1>3. Cardinality(Processed) \in Nat /\ Cardinality(QueuedRuns) \in Nat
  BY ProcessedFinite, QueuedRunsFinite
<1> QED BY <1>1, <1>2, <1>3, WorkerFacts

LEMMA JobTaken ==
  ASSUME CampaignInv, NEW w \in Workers, TakeJob(w)
  PROVE  CampaignInv'
<1>1. /\ jobs > 0 /\ jobs' = jobs - 1
      /\ UNCHANGED <<state, request, sync, processedRows, failedRows, row, later, run, breaker,
                     events, orchestrator, faults>>
      /\ \E pc \in {"claim", "loop"} :
           task' = [task EXCEPT ![w] = [IdleTask EXCEPT !.pc = pc, !.seen = processedRows]]
  BY DEF TakeJob, campaign, calls
<1>2. ~NothingYet
  BY <1>1 DEF NothingYet
<1>3. PICK pc \in {"claim", "loop"} :
        task' = [task EXCEPT ![w] = [IdleTask EXCEPT !.pc = pc, !.seen = processedRows]]
  BY <1>1
<1>4. /\ task' \in [Workers -> Tasks] /\ task'[w].mine = {} /\ task'[w].pc \in {"claim", "loop"}
      /\ task'[w].seen = processedRows
      /\ \A v \in Workers \ {w} : task'[v] = task[v]
  BY <1>3, WorkerFacts DEF Tasks, IdleTask
<1>5. /\ jobs' \in 0 .. MaxJobs /\ faults' \in 0 .. MaxFaults
      /\ row' \in [QueuedRuns -> {"absent", "queued", "processing", "processed", "failed"}]
      /\ run' \in [QueuedRuns -> {"none", "created", "calling", "over", "busy"}]
      /\ \A q \in QueuedRuns : row'[q] \in {"absent", "queued"} => run'[q] = "none"
  BY <1>1, WorkerFacts, CampaignAssumption
<1>6. Processed \subseteq Processed' /\ processedRows' \in 0 .. Cardinality(QueuedRuns)
      /\ processedRows' <= Cardinality(Processed')
      /\ processedRows <= Cardinality(Processed')
  BY <1>1, CountKept
<1> QED BY <1>1, <1>2, <1>4, <1>5, <1>6, WorkerSteps

LEMMA Claimed ==
  ASSUME CampaignInv, NEW w \in Workers, Claim(w)
  PROVE  CampaignInv'
<1>1. PICK S \in Claimable :
        /\ row' = [q \in QueuedRuns |-> IF q \in S THEN "processing" ELSE row[q]]
        /\ task' = [task EXCEPT ![w].mine = S, ![w].pc = "loop"]
  BY DEF Claim
<1>2. /\ task[w].pc = "claim" /\ task[w].mine = {}
      /\ UNCHANGED <<state, request, sync, processedRows, failedRows, later, run, jobs, breaker,
                     events, orchestrator, faults>>
  BY HeldFacts DEF Claim, campaign
<1>3. ~NothingYet
  BY <1>2, WorkerFacts DEF NothingYet
<1>4. S \subseteq Queued /\ Queued \subseteq QueuedRuns
      /\ \A q \in S : row[q] = "queued" /\ run[q] = "none"
  BY WorkerFacts DEF Claimable, Queued
<1>5. /\ task' \in [Workers -> Tasks] /\ task'[w].mine = S /\ task'[w].pc = "loop"
      /\ task'[w].seen = task[w].seen
      /\ \A v \in Workers \ {w} : task'[v] = task[v]
  BY <1>1, <1>4, WorkerFacts DEF Tasks
<1>6. /\ row' \in [QueuedRuns -> {"absent", "queued", "processing", "processed", "failed"}]
      /\ \A q \in QueuedRuns \ Queued : row'[q] = row[q]
      /\ \A q \in QueuedRuns : row'[q] # row[q] => row'[q] = "processing" /\ row[q] = "queued"
      /\ \A q \in S : row'[q] = "processing"
  BY <1>1, <1>4, WorkerFacts
<1>7. /\ Processed \subseteq Processed' /\ processedRows' \in 0 .. Cardinality(QueuedRuns)
      /\ processedRows' <= Cardinality(Processed') /\ task'[w].seen <= Cardinality(Processed')
  BY <1>2, <1>5, <1>6, CountKept
<1>8. \A q \in QueuedRuns :
        /\ row'[q] \in {"absent", "queued"} => run'[q] = "none"
        /\ row'[q] # "absent" => row[q] # "absent"
  BY <1>2, <1>6, WorkerFacts
<1> QED BY <1>2, <1>3, <1>4, <1>5, <1>6, <1>7, <1>8, WorkerFacts, WorkerSteps

LEMMA RunCreated ==
  ASSUME CampaignInv, NEW w \in Workers, CreateRun(w)
  PROVE  CampaignInv'
<1>1. PICK p \in task[w].mine :
        /\ run' = [run EXCEPT ![p] = "created"]
        /\ task' = [task EXCEPT ![w].pc = "dial", ![w].cur = p]
  BY DEF CreateRun
<1>2. /\ task[w].pc = "loop" /\ p \in QueuedRuns /\ row[p] = "processing" /\ run[p] = "none"
      /\ UNCHANGED <<state, request, sync, processedRows, failedRows, row, later, jobs, breaker,
                     events, orchestrator, faults>>
  BY HeldFacts, WorkerFacts DEF CreateRun, campaign
<1>3. ~NothingYet
  BY <1>2, WorkerFacts DEF NothingYet
<1>4. /\ task' \in [Workers -> Tasks] /\ task'[w].mine = task[w].mine /\ task'[w].pc = "dial"
      /\ task'[w].cur = p /\ task'[w].seen = task[w].seen
      /\ \A v \in Workers \ {w} : task'[v] = task[v]
  BY <1>1, <1>2, WorkerFacts DEF Tasks
<1>5. /\ run' \in [QueuedRuns -> {"none", "created", "calling", "over", "busy"}]
      /\ run'[p] = "created" /\ \A q \in QueuedRuns \ {p} : run'[q] = run[q]
  BY <1>1, <1>2, WorkerFacts
<1>6. /\ Processed \subseteq Processed' /\ processedRows' \in 0 .. Cardinality(QueuedRuns)
      /\ processedRows' <= Cardinality(Processed') /\ task'[w].seen <= Cardinality(Processed')
  BY <1>2, <1>4, CountKept
<1>7. \A q \in QueuedRuns :
        /\ row'[q] \in {"absent", "queued"} => run'[q] = "none"
        /\ run[q] \in {"busy", "over"} => run'[q] \in {"busy", "over"}
  BY <1>2, <1>5, WorkerFacts
<1>8. \A q \in task'[w].mine : /\ row'[q] = "processing"
                               /\ q # task'[w].cur => run'[q] = "none"
  BY <1>2, <1>4, <1>5, HeldFacts, WorkerFacts
<1> QED BY <1>1, <1>2, <1>3, <1>4, <1>5, <1>6, <1>7, <1>8, WorkerFacts, WorkerSteps

LEMMA Dialed ==
  ASSUME CampaignInv, NEW w \in Workers, Dial(w)
  PROVE  CampaignInv'
<1> DEFINE p == task[w].cur
<1>1. /\ task[w].pc = "dial" /\ p \in task[w].mine /\ p \in QueuedRuns
      /\ row[p] = "processing" /\ run[p] = "created"
      /\ UNCHANGED <<state, request, sync, processedRows, failedRows, row, later, jobs, breaker,
                     events, orchestrator, faults>>
  BY HeldFacts DEF Dial, campaign
<1>2. ~NothingYet
  BY <1>1, WorkerFacts DEF NothingYet
<1>3. /\ task' \in [Workers -> Tasks] /\ task'[w].mine = task[w].mine /\ task'[w].pc = "mark"
      /\ task'[w].cur = p /\ task'[w].seen = task[w].seen
      /\ \A v \in Workers \ {w} : task'[v] = task[v]
  BY WorkerFacts DEF Dial, Tasks
<1>4. /\ run' \in [QueuedRuns -> {"none", "created", "calling", "over", "busy"}]
      /\ run'[p] = "calling" /\ \A q \in QueuedRuns \ {p} : run'[q] = run[q]
  BY <1>1, WorkerFacts DEF Dial
<1> HIDE DEF p
<1>5. /\ Processed \subseteq Processed' /\ processedRows' \in 0 .. Cardinality(QueuedRuns)
      /\ processedRows' <= Cardinality(Processed') /\ task'[w].seen <= Cardinality(Processed')
  BY <1>1, <1>3, CountKept
<1>6. \A q \in QueuedRuns :
        /\ row'[q] \in {"absent", "queued"} => run'[q] = "none"
        /\ run[q] \in {"busy", "over"} => run'[q] \in {"busy", "over"}
  BY <1>1, <1>4, WorkerFacts
<1>7. \A q \in task'[w].mine : /\ row'[q] = "processing"
                               /\ q # task'[w].cur => run'[q] = "none"
  BY <1>1, <1>3, <1>4, HeldFacts, WorkerFacts DEF p
<1> QED BY <1>1, <1>2, <1>3, <1>4, <1>5, <1>6, <1>7, WorkerFacts, WorkerSteps

\* What Settled leaves of the worker's task.
LEMMA SettledTask ==
  ASSUME CampaignInv, NEW w \in Workers, NEW p \in task[w].mine, task' = Settled(w, p)
  PROVE  /\ task' \in [Workers -> Tasks] /\ task'[w].mine = task[w].mine \ {p}
         /\ task'[w].cur = NoRun /\ task'[w].pc = "loop" /\ task'[w].seen = task[w].seen
         /\ \A v \in Workers \ {w} : task'[v] = task[v]
BY WorkerFacts DEF Settled, Tasks

\* One row of a worker changes for good, and the worker is done with it.
LEMMA RowSettled ==
  ASSUME CampaignInv, NEW w \in Workers, NEW p \in task[w].mine,
         task[w].pc = "loop" \/ p = task[w].cur,
         task' = Settled(w, p),
         NEW outcome \in {"processed", "failed"}, row' = [row EXCEPT ![p] = outcome],
         \/ run' = run
         \/ /\ run[p] \in {"none", "created", "calling"}
            /\ \E o \in {"over", "calling"} : run' = [run EXCEPT ![p] = o],
         UNCHANGED <<state, request, sync, failedRows, later, jobs, events, orchestrator>>,
         faults' \in 0 .. MaxFaults, RecordOutcome \/ UNCHANGED breaker,
         processedRows' = processedRows \/ (outcome = "processed" /\ processedRows' = task[w].seen + 1)
  PROVE  CampaignInv'
<1>1. p \in QueuedRuns /\ row[p] = "processing" /\ task[w].pc # "idle"
  BY HeldFacts, WorkerFacts
<1>2. ~NothingYet
  BY <1>1, WorkerFacts DEF NothingYet
<1>3. /\ task' \in [Workers -> Tasks] /\ task'[w].mine = task[w].mine \ {p}
      /\ task'[w].cur = NoRun /\ task'[w].pc = "loop" /\ task'[w].seen = task[w].seen
      /\ \A v \in Workers \ {w} : task'[v] = task[v]
  BY SettledTask
<1>4. /\ row' \in [QueuedRuns -> {"absent", "queued", "processing", "processed", "failed"}]
      /\ run' \in [QueuedRuns -> {"none", "created", "calling", "over", "busy"}]
      /\ row'[p] = outcome
      /\ \A q \in QueuedRuns \ {p} : row'[q] = row[q] /\ run'[q] = run[q]
      /\ run[p] \in {"busy", "over"} => run'[p] \in {"busy", "over"}
  BY <1>1, WorkerFacts
<1>5. \A q \in QueuedRuns : row[q] = "processed" => row'[q] = "processed"
  BY <1>1, <1>4
<1>6. /\ Processed \subseteq Processed' /\ processedRows' \in 0 .. Cardinality(QueuedRuns)
      /\ processedRows' <= Cardinality(Processed') /\ task'[w].seen <= Cardinality(Processed')
  <2>1. CASE processedRows' = processedRows
    BY <1>3, <1>5, <2>1, CountKept
  <2>2. CASE outcome = "processed" /\ processedRows' = task[w].seen + 1
    <3>1. Processed' = Processed \cup {p} /\ p \notin Processed
      BY <1>1, <1>4, <2>2 DEF Processed
    <3>2. Cardinality(Processed') = Cardinality(Processed) + 1
      BY <3>1, ProcessedFinite, FS_AddElement
    <3>3. Processed' \in SUBSET QueuedRuns
      BY DEF Processed
    <3>4. Cardinality(Processed') <= Cardinality(QueuedRuns)
      BY <3>3, QueuedRunsFinite, FS_Subset
    <3>5. /\ task[w].seen \in Nat /\ task[w].seen <= Cardinality(Processed)
          /\ Cardinality(Processed) \in Nat /\ Cardinality(QueuedRuns) \in Nat
      BY WorkerFacts, ProcessedFinite, QueuedRunsFinite
    <3> QED BY <1>3, <2>2, <3>1, <3>2, <3>4, <3>5
  <2> QED BY <2>1, <2>2
<1>7. \A q \in QueuedRuns :
        /\ row'[q] \in {"absent", "queued"} => run'[q] = "none"
        /\ row'[q] # "absent" => row[q] # "absent"
        /\ run[q] \in {"busy", "over"} => run'[q] \in {"busy", "over"}
  BY <1>1, <1>4, WorkerFacts
<1>8. \A q \in task'[w].mine : row'[q] = "processing" /\ run'[q] = "none"
  BY <1>3, <1>4, HeldFacts, WorkerFacts
<1> QED BY <1>2, <1>3, <1>4, <1>6, <1>7, <1>8, WorkerFacts, WorkerSteps

LEMMA RowDone ==
  ASSUME CampaignInv, NEW w \in Workers, Mark(w) \/ RowFails(w) \/ DialFails(w)
  PROVE  CampaignInv'
<1>1. CASE Mark(w)
  <2>1. /\ task[w].cur \in task[w].mine /\ task' = Settled(w, task[w].cur)
        /\ row' = [row EXCEPT ![task[w].cur] = "processed"] /\ run' = run
        /\ processedRows' = task[w].seen + 1 /\ faults' \in 0 .. MaxFaults
        /\ UNCHANGED <<state, request, sync, failedRows, later, jobs, events, orchestrator>>
        /\ UNCHANGED breaker
    BY <1>1, HeldFacts, WorkerFacts DEF Mark
  <2> QED BY <2>1, RowSettled
<1>2. CASE RowFails(w)
  <2>1. PICK p \in task[w].mine : row' = [row EXCEPT ![p] = "failed"] /\ task' = Settled(w, p)
    BY <1>2 DEF RowFails
  <2>2. /\ task[w].pc = "loop" /\ run' = run /\ processedRows' = processedRows
        /\ faults' \in 0 .. MaxFaults /\ UNCHANGED breaker
        /\ UNCHANGED <<state, request, sync, failedRows, later, jobs, events, orchestrator>>
    BY <1>2, WorkerFacts, CampaignAssumption DEF RowFails, Fault, campaign
  <2> QED BY <2>1, <2>2, RowSettled
<1>3. CASE DialFails(w)
  <2>1. /\ task' = Settled(w, task[w].cur)
        /\ \E o \in {"over", "calling"} : run' = [run EXCEPT ![task[w].cur] = o]
        /\ row' = [row EXCEPT ![task[w].cur] = "failed"]
    BY <1>3 DEF DialFails
  <2>2. /\ task[w].cur \in task[w].mine /\ run[task[w].cur] = "created"
        /\ RecordOutcome
    BY <1>3, HeldFacts DEF DialFails
  <2>3. /\ processedRows' = processedRows /\ faults' \in 0 .. MaxFaults
        /\ UNCHANGED <<state, request, sync, failedRows, later, jobs, events, orchestrator>>
    BY <1>3, WorkerFacts, CampaignAssumption DEF DialFails, Fault, campaign
  <2> QED BY <2>1, <2>2, <2>3, RowSettled
<1> QED BY <1>1, <1>2, <1>3

\* A batch that is over, one way or another: what it claimed and has not called may
\* go back to the queue.
LEMMA BatchLeft ==
  ASSUME CampaignInv, NEW w \in Workers, task[w].pc # "idle",
         row' = row \/ row' = Returned(w), NEW next \in {"idle", "failing", "loop"},
         task' = [task EXCEPT ![w] = [IdleTask EXCEPT !.pc = next]],
         UNCHANGED <<request, sync, processedRows, failedRows, later, run, breaker, orchestrator>>,
         state' \in {state, "failed"}, jobs' \in 0 .. MaxJobs, faults' \in 0 .. MaxFaults,
         \/ UNCHANGED events
         \/ Publish(EventOf("batch")) \/ Publish(EventOf("batchFailed"))
  PROVE  CampaignInv'
<1>1. ~NothingYet
  BY WorkerFacts DEF NothingYet
<1>2. /\ task' \in [Workers -> Tasks] /\ task'[w].mine = {} /\ task'[w].pc = next
      /\ task'[w].seen = 0 /\ \A v \in Workers \ {w} : task'[v] = task[v]
  BY WorkerFacts DEF IdleTask, Tasks
<1>3. /\ row' \in [QueuedRuns -> {"absent", "queued", "processing", "processed", "failed"}]
      /\ \A q \in QueuedRuns \ task[w].mine : row'[q] = row[q]
      /\ \A q \in QueuedRuns : row'[q] # row[q] =>
           row[q] = "processing" /\ row'[q] = "queued" /\ run[q] = "none"
  BY WorkerFacts DEF Returned
<1>4. /\ Processed \subseteq Processed' /\ processedRows' \in 0 .. Cardinality(QueuedRuns)
      /\ processedRows' <= Cardinality(Processed') /\ task'[w].seen <= Cardinality(Processed')
  BY <1>2, <1>3, CountKept
<1>5. \A q \in QueuedRuns :
        /\ row'[q] \in {"absent", "queued"} => run'[q] = "none"
        /\ row'[q] # "absent" => row[q] # "absent"
  BY <1>3, WorkerFacts
<1> QED BY <1>1, <1>2, <1>3, <1>4, <1>5, WorkerFacts, WorkerSteps

LEMMA BatchEnded ==
  ASSUME CampaignInv, NEW w \in Workers,
         \/ BatchCompleted(w) \/ BatchFailed(w) \/ BatchStops(w) \/ Cancel(w) \/ Crash(w)
  PROVE  CampaignInv'
<1>1. /\ task[w].pc # "idle" /\ row' \in {row, Returned(w)}
      /\ UNCHANGED <<request, sync, processedRows, failedRows, later, run, breaker, orchestrator>>
      /\ state' \in {state, "failed"} /\ jobs' \in {jobs} \cup 0 .. MaxJobs
      /\ faults' \in {faults, faults + 1} /\ (faults' # faults => faults < MaxFaults)
      /\ \/ UNCHANGED events
         \/ Publish(EventOf("batch")) \/ Publish(EventOf("batchFailed"))
  BY DEF BatchCompleted, BatchFailed, BatchStops, Cancel, Crash, Fault, campaign, calls
<1>2. \E next \in {"idle", "failing", "loop"} :
        task' = [task EXCEPT ![w] = [IdleTask EXCEPT !.pc = next]]
  <2>1. [IdleTask EXCEPT !.pc = "idle"] = IdleTask
    BY DEF IdleTask
  <2> QED BY <2>1 DEF BatchCompleted, BatchFailed, BatchStops, Cancel, Crash
<1>3. jobs' \in 0 .. MaxJobs /\ faults' \in 0 .. MaxFaults
  BY <1>1, WorkerFacts, CampaignAssumption
<1> QED BY <1>1, <1>2, <1>3, BatchLeft

-----------------------------------------------------------------------------
(* Every step keeps the invariant.                                         *)

LEMMA CampaignInvNext == CampaignInv /\ Next => CampaignInv'
<1> SUFFICES ASSUME CampaignInv, Next PROVE CampaignInv'
  OBVIOUS
<1>1. CASE Api \/ ApiWrites
  BY <1>1, UsersAsk
<1>2. CASE Sync \/ SyncFails
  BY <1>2, SourceSynced, SyncEnded DEF Sync
<1>3. ASSUME NEW w \in Workers, TakeJob(w) \/ BatchWork(w) \/ BatchFaults(w)
      PROVE  CampaignInv'
  BY <1>3, JobTaken, Claimed, RunCreated, Dialed, RowDone, BatchEnded DEF BatchWork, BatchFaults
<1>4. ASSUME NEW q \in QueuedRuns, CallEnds(q) \/ BusyAgain(q)
      PROVE  CampaignInv'
  BY <1>4, CallEnded
<1>5. CASE Trip \/ WindowClears \/ RetryFallsDue
  BY <1>5, BreakerMoves
<1>6. ASSUME NEW t \in OrchTasks, Schedule(t)
      PROVE  CampaignInv'
  BY <1>6, Scheduled
<1>7. CASE Listen
  BY <1>7, Heard, RetryHandled DEF Listen
<1>8. CASE Monitor
  BY <1>8, Monitored
<1>9. CASE Unlock \/ OrchestratorRestarts
  BY <1>9, OrchestratorForgets
<1>10. CASE HourPasses
  BY <1>10, HourPassed
<1> QED BY <1>1, <1>2, <1>3, <1>4, <1>5, <1>6, <1>7, <1>8, <1>9, <1>10 DEF Next

LEMMA CampaignInvStutter == CampaignInv /\ UNCHANGED vars => CampaignInv'
<1> SUFFICES ASSUME CampaignInv, UNCHANGED vars PROVE CampaignInv'
  OBVIOUS
<1>1. /\ TasksFit' /\ QueuedAreUncalled' /\ AttemptsFollow' /\ CountersFit' /\ ClaimsAreDisjoint'
  BY CallsStay DEF vars, campaign, calls
<1>2. TypeOK' /\ SyncComesFirst' /\ EventsFit'
  BY DEF vars, campaign, calls, breaker, orchestrator, memory, CampaignInv, TypeOK,
         SyncComesFirst, NothingYet, EventsFit, Announced, Ended
<1> QED BY <1>1, <1>2 DEF CampaignInv

LEMMA CampaignInvAlways == Spec => []CampaignInv
<1>1. CampaignInv /\ [Next]_vars => CampaignInv'
  BY CampaignInvNext, CampaignInvStutter
<1> QED BY CampaignInvInit, <1>1, PTL DEF Spec

-----------------------------------------------------------------------------
(* What follows from it.                                                   *)

\* The type invariant: the bounds of TypeOK are those of the guards.
THEOREM CampaignTypes == Spec => []TypeOK
<1>1. CampaignInv => TypeOK
  BY DEF CampaignInv
<1> QED BY CampaignInvAlways, <1>1, PTL

\* However many workers claim at the same time, and whatever is cancelled, crashes or
\* runs again, no queued run is held by two of them.
THEOREM ClaimsStayDisjoint == Spec => []ClaimsAreDisjoint
<1>1. CampaignInv => ClaimsAreDisjoint
  BY DEF CampaignInv
<1> QED BY CampaignInvAlways, <1>1, PTL

\* The counter, which every batch writes from what it read at its start, never runs ahead
\* of the rows that are processed.
THEOREM OnlyProcessedIsCounted == Spec => []CountedRowsAreProcessed
<1>1. CampaignInv => CountedRowsAreProcessed
  BY DEF CampaignInv, CountersFit, CountedRowsAreProcessed, Processed
<1> QED BY CampaignInvAlways, <1>1, PTL

LEMMA AtMostOne ==
  ASSUME NEW A, \A x, y \in A : x = y
  PROVE  Cardinality(A) <= 1
<1>1. CASE A = {}
  BY <1>1, FS_EmptySet
<1>2. CASE A # {}
  <2>1. PICK x : A = {x}
    BY <1>2
  <2> QED BY <2>1, FS_Singleton
<1> QED BY <1>1, <1>2

\* Retries follow the call they repeat: of all the attempts at a contact at most one is being
\* dialled, in progress or waiting to be placed, however often callbacks come and
\* batches run again.
THEOREM OneCallAtATime == Spec => []OneCallPerContact
<1>1. CampaignInv => OneCallPerContact
  <2> SUFFICES ASSUME CampaignInv, NEW r \in Rows
               PROVE  Cardinality({k \in 0 .. MaxRetries :
                                     \/ run[<<r, k>>] \in {"created", "calling"}
                                     \/ row[<<r, k>>] \in {"queued", "processing"}
                                        /\ run[<<r, k>>] = "none"}) <= 1
    BY DEF OneCallPerContact
  <2> DEFINE A == {k \in 0 .. MaxRetries :
                     \/ run[<<r, k>>] \in {"created", "calling"}
                     \/ row[<<r, k>>] \in {"queued", "processing"} /\ run[<<r, k>>] = "none"}
  <2>1. \A k \in A : /\ k \in 0 .. MaxRetries
                     /\ run[<<r, k>>] \notin {"busy", "over"} /\ row[<<r, k>>] # "absent"
    <3>1. \A k \in 0 .. MaxRetries : <<r, k>> \in QueuedRuns
      BY DEF QueuedRuns
    <3> QED BY <3>1 DEF CampaignInv, QueuedAreUncalled
  <2>2. \A j, k \in A : ~(j < k)
    BY <2>1 DEF CampaignInv, AttemptsFollow
  <2>3. \A j, k \in A : j = k
    BY <2>1, <2>2, CampaignAssumption
  <2> HIDE DEF A
  <2>4. Cardinality(A) <= 1
    BY <2>3, AtMostOne
  <2> QED BY <2>4 DEF A
<1> QED BY CampaignInvAlways, <1>1, PTL

\* A workflow run is only created for a queued run that has none: what a cancelled or failed
\* batch returns to the queue has not been dialled.
THEOREM DialsOnce == Spec => DialedOnce
<1>1. CampaignInv /\ [Next]_vars =>
        \A q \in QueuedRuns : run'[q] = "created" => run[q] \in {"none", "created"}
  <2> SUFFICES ASSUME CampaignInv, [Next]_vars, NEW q \in QueuedRuns, run'[q] = "created"
               PROVE  run[q] \in {"none", "created"}
    OBVIOUS
  <2>1. run \in [QueuedRuns -> {"none", "created", "calling", "over", "busy"}]
    BY DEF CampaignInv, TypeOK
  <2>2. CASE run' = run
    BY <2>2
  <2>3. ASSUME NEW w \in Workers, CreateRun(w)
        PROVE  run[q] \in {"none", "created"}
    BY <2>1, <2>3, HeldFacts, WorkerFacts DEF CreateRun
  <2>4. ASSUME NEW w \in Workers, Dial(w) \/ DialFails(w)
        PROVE  run[q] \in {"none", "created"}
    BY <2>1, <2>4, HeldFacts DEF Dial, DialFails
  <2>5. ASSUME NEW p \in QueuedRuns, CallEnds(p)
        PROVE  run[q] \in {"none", "created"}
    BY <2>1, <2>5 DEF CallEnds, CallOver, Busy
  <2>6. CASE HourPasses
    BY <2>1, <2>6 DEF HourPasses
  <2>7. CASE UNCHANGED vars
    BY <2>2, <2>7 DEF vars, calls
  <2>8. CASE Api \/ ApiWrites \/ Sync \/ SyncFails
    <3>1. run' = run
      BY <2>8 DEF Api, ApiWrites, Sync, CheckStart, CheckPause, CheckResume, Check, WriteStart,
                  WritePause, WriteResume, ResetBreaker, SyncRows, SyncDone, SyncFails, calls
    <3> QED BY <2>2, <3>1
  <2>9. ASSUME NEW w \in Workers, \/ TakeJob(w) \/ Claim(w) \/ Mark(w) \/ BatchCompleted(w)
                                  \/ BatchFailed(w) \/ RowFails(w) \/ BatchStops(w)
                                  \/ Cancel(w) \/ Crash(w)
        PROVE  run' = run
    BY <2>9 DEF TakeJob, Claim, Mark, BatchCompleted, BatchFailed, RowFails, BatchStops, Cancel,
                Crash, calls
  <2>10. CASE Listen \/ Monitor \/ Unlock \/ OrchestratorRestarts \/ RetryFallsDue
              \/ Trip \/ WindowClears \/ \E p \in QueuedRuns : BusyAgain(p)
    <3>1. run' = run
      BY <2>10 DEF Listen, Monitor, HandleRetry, HandleBatchCompleted, HandleBatchFailed,
                   HandleSyncCompleted, HandleTripped, MonitorSchedules, MonitorUnsticks,
                   MonitorSeesQuiet, MonitorDoubleChecks, MonitorCompletes, Unlock,
                   OrchestratorRestarts, RetryFallsDue, Trip, WindowClears, BusyAgain, calls
    <3> QED BY <2>2, <3>1
  <2>11. ASSUME NEW t \in OrchTasks, Schedule(t)
         PROVE  run' = run
    BY <2>11 DEF Schedule, ScheduleCheck, SchedulePause, ScheduleEnqueue, ScheduleFlag, calls
  <2> QED BY <2>2, <2>3, <2>4, <2>5, <2>6, <2>7, <2>8, <2>9, <2>10, <2>11
          DEF Next, BatchWork, BatchFaults
<1> QED BY CampaignInvAlways, <1>1, PTL DEF Spec, DialedOnce

-----------------------------------------------------------------------------
(* Completion.                                                             *)

\* A paused campaign may stay so for hours, and one that is resumed afterwards begins with
\* activity that is old already: it may be completed during its calls.
NobodyResumes == "resume" \notin Requests

\* Nothing is under way that could still place a call, or end one.
AllIsOver ==
  /\ state # "created" /\ request \in {"none", "pause"} /\ sync = "none" /\ jobs = 0
  /\ ~tripping /\ events = << >>
  /\ \A w \in Workers : task[w] = IdleTask
  /\ \A q \in QueuedRuns : run[q] \notin {"calling", "busy"}
  /\ orch["listener"] = "idle" /\ orch["monitor"] \in {"idle", "complete", "finish"}
  /\ state = "running" => Queued = {}

\* An hour without activity passes only when all is over, and stays the last word.
QuietInv ==
  /\ request \notin {"resume", "reset"}
  /\ "old" \in {heard, noted} => AllIsOver
  /\ orch["monitor"] \in {"complete", "finish"} => "old" \in {heard, noted}

LEMMA QuietInvInit == Init => QuietInv
BY DEF Init, QuietInv, OrchTasks

\* What is enabled when all is over leaves it so, or makes the activity recent.
LEMMA QuietUsers ==
  ASSUME NobodyResumes, TypeOK, QuietInv, Api \/ ApiWrites \/ Sync \/ SyncFails
  PROVE  QuietInv'
<1>1. CASE Api
  BY <1>1 DEF Api, CheckStart, CheckPause, CheckResume, Check, NobodyResumes, QuietInv, AllIsOver,
              Queued, calls, breaker, orchestrator, memory
<1>2. CASE ApiWrites
  BY <1>2 DEF ApiWrites, WriteStart, WritePause, WriteResume, ResetBreaker, QuietInv, AllIsOver,
              Queued, calls, breaker, orchestrator, memory
<1>3. CASE Sync \/ SyncFails
  BY <1>3 DEF Sync, SyncRows, SyncDone, SyncFails, QuietInv, AllIsOver, calls, breaker,
              orchestrator, memory
<1> QED BY <1>1, <1>2, <1>3

LEMMA QuietWorkers ==
  ASSUME QuietInv, NEW w \in Workers, TakeJob(w) \/ BatchWork(w) \/ BatchFaults(w)
  PROVE  QuietInv'
<1>1. ~AllIsOver
  <2>1. task[w].pc # "idle" \/ jobs > 0
    BY DEF TakeJob, BatchWork, BatchFaults, Claim, CreateRun, Dial, Mark, BatchCompleted,
           BatchFailed, RowFails, BatchStops, DialFails, Cancel, Crash
  <2> QED BY <2>1 DEF AllIsOver, IdleTask
<1>2. UNCHANGED <<request, orchestrator>>
  <2>1. CASE TakeJob(w) \/ BatchWork(w)
    BY <2>1 DEF TakeJob, BatchWork, Claim, CreateRun, Dial, Mark, BatchCompleted, BatchFailed,
                campaign
  <2>2. CASE BatchFaults(w)
    BY <2>2 DEF BatchFaults, RowFails, BatchStops, DialFails, Cancel, Crash, campaign
  <2> QED BY <2>1, <2>2
<1> QED BY <1>1, <1>2 DEF QuietInv, orchestrator, memory

LEMMA QuietCalls ==
  ASSUME QuietInv, NEW q \in QueuedRuns, CallEnds(q) \/ BusyAgain(q)
  PROVE  QuietInv'
<1>1. run[q] \in {"calling", "busy"} /\ UNCHANGED <<request, orchestrator>>
  BY DEF CallEnds, CallOver, Busy, BusyAgain, campaign
<1> QED BY <1>1 DEF QuietInv, AllIsOver, orchestrator, memory

LEMMA QuietBreaker ==
  ASSUME QuietInv, Trip \/ WindowClears \/ RetryFallsDue \/ Unlock
  PROVE  QuietInv'
<1>1. CASE Trip
  BY <1>1 DEF Trip, QuietInv, AllIsOver, orchestrator, memory
<1>2. CASE WindowClears \/ RetryFallsDue \/ Unlock
  BY <1>2 DEF WindowClears, RetryFallsDue, Unlock, QuietInv, AllIsOver, Queued, campaign, calls,
              breaker, orchestrator, memory
<1> QED BY <1>1, <1>2

LEMMA QuietSchedule ==
  ASSUME TypeOK, QuietInv, NEW t \in OrchTasks, Schedule(t)
  PROVE  QuietInv'
<1>1. /\ orch[t] \in {"check", "pause", "enqueue", "flag"} /\ UNCHANGED request
      /\ orch' = [orch EXCEPT ![t] = orch'[t]]
      /\ orch'[t] \in {"idle", "pause", "enqueue", "flag"}
  BY DEF Schedule, ScheduleCheck, SchedulePause, ScheduleEnqueue, ScheduleFlag, Goto, campaign,
         TypeOK
<1>2. ~AllIsOver
  BY <1>1 DEF AllIsOver, OrchTasks
<1>3. "old" \in {heard', noted'} => "old" \in {heard, noted}
  BY DEF Schedule, ScheduleCheck, SchedulePause, ScheduleEnqueue, ScheduleFlag, ClearMemory,
         memory
<1>4. orch'["monitor"] \notin {"complete", "finish"}
  BY <1>1, <1>2 DEF QuietInv, OrchTasks, TypeOK
<1> QED BY <1>1, <1>2, <1>3, <1>4 DEF QuietInv

LEMMA QuietListener ==
  ASSUME TypeOK, QuietInv, Listen
  PROVE  QuietInv'
<1>1. events # << >> /\ UNCHANGED request
  BY DEF Listen, HandleRetry, HandleBatchCompleted, HandleBatchFailed, HandleSyncCompleted,
         HandleTripped, Received, campaign
<1>2. ~AllIsOver
  BY <1>1 DEF AllIsOver
<1>3. "old" \in {heard', noted'} => "old" \in {heard, noted}
  BY DEF Listen, HandleRetry, HandleBatchCompleted, HandleBatchFailed, HandleSyncCompleted,
         HandleTripped, ClearMemory
<1>4. orch'["monitor"] = orch["monitor"]
  BY DEF Listen, HandleRetry, HandleBatchCompleted, HandleBatchFailed, HandleSyncCompleted,
         HandleTripped, EnterSchedule, TypeOK, OrchTasks
<1> QED BY <1>1, <1>2, <1>3, <1>4 DEF QuietInv

\* The monitor goes on to complete a campaign that it has seen quiet.
LEMMA QuietMonitor ==
  ASSUME TypeOK, QuietInv, Monitor
  PROVE  QuietInv'
<1>1. CASE MonitorSchedules
  <2>1. ~AllIsOver
    BY <1>1 DEF MonitorSchedules, HasPendingWork, AllIsOver
  <2>2. orch'["monitor"] \in {"idle", "check"}
    BY <1>1 DEF MonitorSchedules, EnterSchedule, TypeOK, OrchTasks
  <2> QED BY <1>1, <2>1, <2>2 DEF MonitorSchedules, QuietInv, campaign
<1>2. CASE MonitorUnsticks
  BY <1>2 DEF MonitorUnsticks, QuietInv, AllIsOver, Queued, campaign, calls, breaker
<1>3. CASE MonitorSeesQuiet
  <2>1. "old" \in {heard, noted} /\ UNCHANGED <<heard, noted>>
    BY <1>3 DEF MonitorSeesQuiet, Quiet, memory
  <2>2. orch'["monitor"] = "complete" /\ orch'["listener"] = orch["listener"]
    BY <1>3 DEF MonitorSeesQuiet, Goto, TypeOK, OrchTasks
  <2> QED BY <1>3, <2>1, <2>2 DEF MonitorSeesQuiet, QuietInv, AllIsOver, Queued, campaign, calls,
                                  breaker
<1>4. CASE MonitorDoubleChecks
  <2>1. orch'["monitor"] \in {"idle", "finish"} /\ orch'["listener"] = orch["listener"]
    BY <1>4 DEF MonitorDoubleChecks, Goto, TypeOK, OrchTasks
  <2> QED BY <1>4, <2>1 DEF MonitorDoubleChecks, QuietInv, AllIsOver, Queued, campaign, calls,
                            breaker, memory
<1>5. CASE MonitorCompletes
  <2>1. orch'["monitor"] = "idle" /\ orch'["listener"] = orch["listener"]
    BY <1>5 DEF MonitorCompletes, Goto, TypeOK, OrchTasks
  <2> QED BY <1>5, <2>1 DEF MonitorCompletes, QuietInv, AllIsOver, Queued, calls, breaker
<1> QED BY <1>1, <1>2, <1>3, <1>4, <1>5 DEF Monitor

LEMMA QuietRestart ==
  ASSUME QuietInv, OrchestratorRestarts
  PROVE  QuietInv'
<1>1. /\ orch'["monitor"] = "idle" /\ orch'["listener"] = "idle" /\ events' = << >>
      /\ "old" \in {heard', noted'} => "old" \in {heard, noted}
  BY DEF OrchestratorRestarts, ClearMemory, OrchTasks
<1> QED BY <1>1 DEF OrchestratorRestarts, QuietInv, AllIsOver, Queued, campaign, calls, breaker

LEMMA QuietHour ==
  ASSUME TypeOK, QuietInv, HourPasses
  PROVE  QuietInv'
<1>1. \A q \in QueuedRuns : run'[q] \notin {"calling", "busy"}
  BY DEF HourPasses, TypeOK
<1>2. state = "running" => Queued' = {}
  BY DEF HourPasses, HasPendingWork, Queued
<1>3. orch["listener"] = "idle" /\ orch["monitor"] = "idle"
  BY DEF HourPasses, OrchTasks
<1> QED BY <1>1, <1>2, <1>3 DEF HourPasses, QuietInv, AllIsOver, campaign, breaker

LEMMA QuietInvNext ==
  ASSUME NobodyResumes, CampaignInv, QuietInv, [Next]_vars
  PROVE  QuietInv'
<1>1. TypeOK
  BY DEF CampaignInv
<1>2. CASE UNCHANGED vars
  BY <1>2 DEF vars, QuietInv, AllIsOver, Queued, campaign, calls, breaker, orchestrator, memory
<1>3. CASE Next
  BY <1>1, <1>3, QuietUsers, QuietWorkers, QuietCalls, QuietBreaker, QuietSchedule, QuietListener,
     QuietMonitor, QuietRestart, QuietHour DEF Next
<1> QED BY <1>2, <1>3

\* A campaign is completed only when no call is in progress, whatever events, batches
\* and processes are lost, if nobody resumes a paused one.
THEOREM CompletionFollowsCalls ==
  ASSUME NobodyResumes
  PROVE  Spec => CompletesAfterCalls
<1>1. CampaignInv /\ QuietInv /\ [Next]_vars =>
        (state' = "completed" /\ state # "completed" =>
           \A q \in QueuedRuns : run[q] # "calling")
  <2> SUFFICES ASSUME CampaignInv, QuietInv, [Next]_vars,
                      state' = "completed", state # "completed", NEW q \in QueuedRuns
               PROVE  run[q] # "calling"
    OBVIOUS
  <2>1. CASE SyncDone
    BY <2>1 DEF SyncDone, QueuedRuns
  <2>2. CASE MonitorCompletes
    BY <2>2 DEF MonitorCompletes, QuietInv, AllIsOver
  <2>3. SyncDone \/ MonitorCompletes
    BY DEF Next, vars, campaign, Api, CheckStart, CheckPause, CheckResume, Check, ApiWrites,
           WriteStart, WritePause, WriteResume, ResetBreaker, Sync, SyncRows, SyncFails, TakeJob,
           BatchWork, Claim, CreateRun, Dial, Mark, BatchCompleted, BatchFailed, BatchFaults,
           RowFails, BatchStops, DialFails, Cancel, Crash, CallEnds, CallOver, Busy, BusyAgain,
           Trip, WindowClears, Schedule, ScheduleCheck, SchedulePause, ScheduleEnqueue,
           ScheduleFlag, Listen, HandleRetry, HandleBatchCompleted, HandleBatchFailed,
           HandleSyncCompleted, HandleTripped, Monitor, MonitorSchedules, MonitorUnsticks,
           MonitorSeesQuiet, MonitorDoubleChecks, Unlock, OrchestratorRestarts, RetryFallsDue,
           HourPasses
  <2> QED BY <2>1, <2>2, <2>3
<1>2. CampaignInv /\ QuietInv /\ [Next]_vars => QuietInv'
  BY QuietInvNext
<1>3. Spec => []QuietInv
  BY CampaignInvAlways, QuietInvInit, <1>2, PTL DEF Spec
<1> QED BY CampaignInvAlways, <1>1, <1>3, PTL DEF Spec, CompletesAfterCalls
=============================================================================
