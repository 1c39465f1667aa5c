------------------------------- MODULE Campaign -------------------------------
(***************************************************************************)
(* One outbound campaign, from the API request that starts it to its       *)
(* completion: the API handlers (runner.py), the source sync and batch     *)
(* tasks that an ARQ worker runs (campaign_tasks.py), the dispatcher that  *)
(* claims and dials queued runs, the provider's status callbacks, the      *)
(* circuit breaker's verdicts, and the orchestrator process, whose event   *)
(* listener and completion monitor are two tasks of one event loop.        *)
(*                                                                         *)
(* The processes meet in the database (campaigns.state, queued_runs,       *)
(* workflow_runs), in the ARQ queue and on a Redis pub/sub channel, which  *)
(* loses what is published while nobody listens.  A step is what one       *)
(* process does between two awaits that matter; a state that was read in   *)
(* one step may have changed by the step that writes.                      *)
(*                                                                         *)
(* Slots and caller ids are CallSlots and FromNumberPool: here getting one *)
(* succeeds or times out.  The breaker's window is a verdict that call     *)
(* outcomes may turn on.  The schedule window is always open.              *)
(***************************************************************************)
EXTENDS Integers, FiniteSets, Sequences

CONSTANTS
  Rows,        \* contacts of the source file
  MaxRetries,  \* retry_config.max_retries
  Workers,     \* ARQ workers
  BatchSize,   \* batch_size
  NoRun,       \* no queued run
  Requests,    \* what users ask of the API: "start", "pause", "resume"
  MaxJobs,     \* bound: batch jobs waiting in ARQ
  MaxEvents,   \* bound: events published and not yet handled
  MaxFaults    \* bound: failures, cancellations, crashes and repeated callbacks

ASSUME CampaignAssumption ==
  /\ IsFiniteSet(Rows) /\ MaxRetries \in Nat /\ BatchSize \in Nat \ {0}
  /\ MaxJobs \in Nat /\ MaxEvents \in Nat /\ MaxFaults \in Nat

\* Queued runs: a contact and its retry_count.  UNIQUE (campaign_id,
\* source_uuid, retry_count) makes the pair a key.
QueuedRuns == Rows \X (0 .. MaxRetries)

ASSUME NoRunAssumption == NoRun \notin QueuedRuns

VARIABLES
  state,          \* campaigns.state
  request,        \* the write an API handler has still to make
  sync,           \* the sync_campaign_source task
  row,            \* queued_runs.state of each queued run
  later,          \* retries whose scheduled_for is in the future
  run,            \* the workflow run of each queued run, and its call
  processedRows,  \* campaigns.processed_rows
  failedRows,     \* campaigns.failed_rows
  jobs,           \* process_campaign_batch jobs in the ARQ queue
  task,           \* the batch task of each worker
  open,           \* whether the circuit breaker's window is over its threshold
  tripping,       \* a record_and_evaluate between its read and its pause
  events,         \* the campaign event channel
  orch,           \* where the orchestrator's two tasks are
  flag,           \* campaign in _batch_in_progress
  lock,           \* campaign in _processing_locks, for less than 5 seconds
  heard,          \* campaign's entry in _last_activity: absent, or how old
  noted,          \* how old campaigns.last_activity_at is (or started_at)
  faults          \* faults so far

campaign == <<state, request, sync, processedRows, failedRows>>
calls == <<row, later, run>>
breaker == <<open, tripping>>
memory == <<flag, lock, heard>>
orchestrator == <<orch, memory, noted>>
vars == <<campaign, calls, jobs, task, breaker, events, orchestrator, faults>>

-----------------------------------------------------------------------------
States == {"created", "syncing", "running", "paused", "completed", "failed"}

OrchTasks == {"listener", "monitor"}

IdleTask == [pc |-> "idle", mine |-> {}, cur |-> NoRun, seen |-> 0]

Tasks == [pc : {"idle", "claim", "loop", "dial", "mark", "failing"},
          mine : SUBSET QueuedRuns, cur : QueuedRuns \cup {NoRun},
          seen : 0 .. Cardinality(QueuedRuns)]

EventOf(kind) == [kind |-> kind, of |-> NoRun]
RetryNeeded(q) == [kind |-> "retry", of |-> q]

TypeOK ==
  /\ state \in States
  /\ request \in {"none", "start", "pause", "resume", "reset"}
  /\ sync \in {"none", "enqueued", "synced"}
  /\ row \in [QueuedRuns -> {"absent", "queued", "processing", "processed", "failed"}]
  /\ later \in SUBSET QueuedRuns
  /\ run \in [QueuedRuns -> {"none", "created", "calling", "over", "busy"}]
  /\ processedRows \in 0 .. Cardinality(QueuedRuns) /\ failedRows \in Nat
  /\ jobs \in 0 .. MaxJobs
  /\ task \in [Workers -> Tasks]
  /\ open \in BOOLEAN /\ tripping \in BOOLEAN
  /\ Len(events) <= MaxEvents
  /\ \A i \in DOMAIN events :
       events[i] \in {EventOf(k) : k \in {"synced", "batch", "batchFailed", "tripped"}}
                       \cup {RetryNeeded(q) : q \in QueuedRuns}
  /\ orch \in [OrchTasks -> {"idle", "check", "pause", "enqueue", "flag",
                             "complete", "finish"}]
  /\ flag \in BOOLEAN /\ lock \in BOOLEAN
  /\ heard \in {"none", "recent", "old"} /\ noted \in {"recent", "old"}
  /\ faults \in 0 .. MaxFaults

Init ==
  /\ state = "created" /\ request = "none" /\ sync = "none"
  /\ row = [q \in QueuedRuns |-> "absent"] /\ later = {}
  /\ run = [q \in QueuedRuns |-> "none"]
  /\ processedRows = 0 /\ failedRows = 0 /\ jobs = 0
  /\ task = [w \in Workers |-> IdleTask]
  /\ open = FALSE /\ tripping = FALSE
  /\ events = << >>
  /\ orch = [t \in OrchTasks |-> "idle"]
  /\ flag = FALSE /\ lock = FALSE /\ heard = "none" /\ noted = "recent"
  /\ faults = 0

\* Publishing reaches the orchestrator, or is lost.
Publish(e) == \/ Len(events) < MaxEvents /\ events' = Append(events, e)
              \/ UNCHANGED events

Fault == faults < MaxFaults /\ faults' = faults + 1

-----------------------------------------------------------------------------
(* The API: each request checks the state it read, then writes another.    *)

Check(verb, from) ==
  /\ request = "none" /\ verb \in Requests /\ state \in from
  /\ request' = verb
  /\ UNCHANGED <<state, sync, processedRows, failedRows, calls, jobs, task,
                 breaker, events, orchestrator, faults>>

CheckStart == Check("start", {"created"})
CheckPause == Check("pause", {"running", "syncing"})
CheckResume == Check("resume", {"paused"})

\* The state is written before the task is enqueued, which may fail.
WriteStart ==
  /\ request = "start"
  /\ state' = "syncing" /\ request' = "none"
  /\ \/ sync' = "enqueued" /\ UNCHANGED faults
     \/ Fault /\ UNCHANGED sync
  /\ UNCHANGED <<processedRows, failedRows, calls, jobs, task, breaker, events,
                 orchestrator>>

WritePause ==
  /\ request = "pause"
  /\ state' = "paused" /\ request' = "none"
  /\ UNCHANGED <<sync, processedRows, failedRows, calls, jobs, task, breaker,
                 events, orchestrator, faults>>

WriteResume ==
  /\ request = "resume"
  /\ state' = "running" /\ request' = "reset"
  /\ UNCHANGED <<sync, processedRows, failedRows, calls, jobs, task, breaker,
                 events, orchestrator, faults>>

\* resume_campaign ends by giving the breaker a clean slate.
ResetBreaker ==
  /\ request = "reset"
  /\ open' = FALSE /\ request' = "none"
  /\ UNCHANGED <<state, sync, processedRows, failedRows, calls, jobs, task,
                 tripping, events, orchestrator, faults>>

-----------------------------------------------------------------------------
(* sync_campaign_source.                                                   *)

SyncRows ==
  /\ sync = "enqueued"
  /\ row' = [q \in QueuedRuns |-> IF q[2] = 0 THEN "queued" ELSE row[q]]
  /\ sync' = "synced"
  /\ UNCHANGED <<state, request, processedRows, failedRows, later, run, jobs,
                 task, breaker, events, orchestrator, faults>>

\* The state is set whatever it has become since the sync began; a source
\* without rows completes the campaign there and then.
SyncDone ==
  /\ sync = "synced" /\ sync' = "none"
  /\ IF Rows = {} THEN state' = "completed" /\ UNCHANGED events
     ELSE state' = "running" /\ Publish(EventOf("synced"))
  /\ UNCHANGED <<request, processedRows, failedRows, calls, jobs, task, breaker,
                 orchestrator, faults>>

\* Any exception, among them the duplicate rows of a task that is run again.
SyncFails ==
  /\ sync # "none" /\ Fault
  /\ state' = "failed" /\ sync' = "none"
  /\ UNCHANGED <<request, processedRows, failedRows, calls, jobs, task, breaker,
                 events, orchestrator>>

-----------------------------------------------------------------------------
(* process_campaign_batch and the dispatcher's process_batch.              *)

QueuedOrClaimed == {q \in QueuedRuns : row[q] \in {"queued", "processing"}}

Queued == {q \in QueuedRuns : row[q] = "queued"}

\* process_batch reads the campaign once: its state, and the counter it will
\* add to for every row.
TakeJob(w) ==
  /\ task[w].pc = "idle" /\ jobs > 0
  /\ jobs' = jobs - 1
  /\ task' = [task EXCEPT ![w] =
       [IdleTask EXCEPT !.pc = IF state = "running" THEN "claim" ELSE "loop",
                        !.seen = processedRows]]
  /\ UNCHANGED <<campaign, calls, breaker, events, orchestrator, faults>>

\* Due retries first, then source rows in random order; one transaction.
Claimable == {S \in SUBSET (Queued \ later) :
  LET retries == {q \in Queued \ later : q[2] > 0} IN
  /\ Cardinality(S) = IF Cardinality(Queued \ later) < BatchSize
                      THEN Cardinality(Queued \ later) ELSE BatchSize
  /\ retries \subseteq S \/ S \subseteq retries}

Claim(w) ==
  /\ task[w].pc = "claim"
  /\ \E S \in Claimable :
       /\ row' = [q \in QueuedRuns |-> IF q \in S THEN "processing" ELSE row[q]]
       /\ task' = [task EXCEPT ![w].mine = S, ![w].pc = "loop"]
  /\ UNCHANGED <<campaign, later, run, jobs, breaker, events, orchestrator, faults>>

ReturnedWithRuns(w) ==
  [q \in QueuedRuns |-> IF q \in task[w].mine /\ row[q] = "processing"
                        THEN "queued" ELSE row[q]]

\* return_processing_queued_runs_without_workflow for what worker w claimed.
Returned(w) ==
  [q \in QueuedRuns |->
     IF q \in task[w].mine /\ row[q] = "processing" /\ run[q] = "none"
     THEN "queued" ELSE row[q]]

\* A slot and a caller id were had, and the workflow run created and bound.
CreateRun(w) ==
  /\ task[w].pc = "loop"
  /\ \E q \in task[w].mine :
       /\ run' = [run EXCEPT ![q] = "created"]
       /\ task' = [task EXCEPT ![w].pc = "dial", ![w].cur = q]
  /\ UNCHANGED <<campaign, row, later, jobs, breaker, events, orchestrator, faults>>

\* What is left of task w once it is done with queued run q.
Settled(w, q) == [task EXCEPT ![w].mine = @ \ {q}, ![w].cur = NoRun,
                              ![w].pc = "loop"]

\* The rate limit, a missing phone number, any other exception: row failed.
RowFails(w) ==
  /\ task[w].pc = "loop" /\ Fault
  /\ \E q \in task[w].mine : /\ row' = [row EXCEPT ![q] = "failed"]
                             /\ task' = Settled(w, q)
  /\ UNCHANGED <<campaign, later, run, jobs, breaker, events, orchestrator>>

\* No slot or no caller id in time, or no telephony set up: the claims go
\* back, and the batch fails - or completes, while the pool's exhaustion
\* counter is below its maximum.
BatchStops(w) ==
  /\ task[w].pc = "loop" /\ task[w].mine # {} /\ Fault
  /\ row' = Returned(w)
  /\ \E next \in {"failing", "loop"} :
       task' = [task EXCEPT ![w] = [IdleTask EXCEPT !.pc = next]]
  /\ UNCHANGED <<campaign, later, run, jobs, breaker, events, orchestrator>>

Dial(w) ==
  /\ task[w].pc = "dial"
  /\ run' = [run EXCEPT ![task[w].cur] = "calling"]
  /\ task' = [task EXCEPT ![w].pc = "mark"]
  /\ UNCHANGED <<campaign, row, later, jobs, breaker, events, orchestrator, faults>>

\* record_and_evaluate: ignored unless the campaign is running.  Any outcome,
\* a success too, may bring the window to its minimum of calls and over its
\* threshold.
RecordOutcome ==
  IF state # "running" THEN UNCHANGED breaker
  ELSE \/ open' = TRUE /\ tripping' = TRUE
       \/ UNCHANGED breaker

\* No quota, or initiate_call raised; the provider may have placed the call
\* all the same when it is its answer, or the update after it, that failed.
DialFails(w) ==
  /\ task[w].pc = "dial" /\ Fault
  /\ LET q == task[w].cur IN
     /\ \E outcome \in {"over", "calling"} : run' = [run EXCEPT ![q] = outcome]
     /\ row' = [row EXCEPT ![q] = "failed"]
     /\ task' = Settled(w, q)
  /\ RecordOutcome
  /\ UNCHANGED <<campaign, later, jobs, events, orchestrator>>

MarkAdding(w) ==
  /\ task[w].pc = "mark"
  /\ row' = [row EXCEPT ![task[w].cur] = "processed"]
  /\ processedRows' = processedRows + task[w].seen + 1
  /\ task' = Settled(w, task[w].cur)
  /\ UNCHANGED <<state, request, sync, failedRows, later, run, jobs, breaker,
                 events, orchestrator, faults>>

\* The row is processed, and the counter set to one more than was read when
\* the batch began.
Mark(w) ==
  /\ task[w].pc = "mark"
  /\ row' = [row EXCEPT ![task[w].cur] = "processed"]
  /\ processedRows' = task[w].seen + 1
  /\ task' = Settled(w, task[w].cur)
  /\ UNCHANGED <<state, request, sync, failedRows, later, run, jobs, breaker,
                 events, orchestrator, faults>>

BatchCompleted(w) ==
  /\ task[w].pc = "loop" /\ task[w].mine = {}
  /\ Publish(EventOf("batch"))
  /\ task' = [task EXCEPT ![w] = IdleTask]
  /\ UNCHANGED <<campaign, calls, jobs, breaker, orchestrator, faults>>

\* Published first, then the state is set, whatever it has become.
BatchFailed(w) ==
  /\ task[w].pc = "failing"
  /\ Publish(EventOf("batchFailed"))
  /\ state' = "failed"
  /\ task' = [task EXCEPT ![w] = IdleTask]
  /\ UNCHANGED <<request, sync, processedRows, failedRows, calls, jobs, breaker,
                 orchestrator, faults>>

\* The job's timeout or the worker's shutdown cancels the task: claims without
\* a workflow run go back, nothing is published, ARQ may run the job again.
Cancel(w) ==
  /\ task[w].pc \in {"loop", "dial", "mark"} /\ Fault
  /\ row' = Returned(w)
  /\ task' = [task EXCEPT ![w] = IdleTask]
  /\ jobs' \in {jobs, jobs + 1} \cap (0 .. MaxJobs)
  /\ UNCHANGED <<campaign, later, run, breaker, events, orchestrator>>

\* The worker's process dies: nothing goes back.
Crash(w) ==
  /\ task[w].pc # "idle" /\ Fault
  /\ task' = [task EXCEPT ![w] = IdleTask]
  /\ jobs' \in {jobs, jobs + 1} \cap (0 .. MaxJobs)
  /\ UNCHANGED <<campaign, calls, breaker, events, orchestrator>>

-----------------------------------------------------------------------------
(* Calls, status callbacks and the breaker.                                *)

\* Completed, failed, canceled: no retry.
CallOver(q) ==
  /\ run[q] = "calling"
  /\ run' = [run EXCEPT ![q] = "over"]
  /\ RecordOutcome
  /\ UNCHANGED <<campaign, row, later, jobs, task, events, orchestrator, faults>>

BusyTooSoon(q) ==
  /\ run[q] = "calling" /\ Fault
  /\ Publish(RetryNeeded(q))
  /\ UNCHANGED <<campaign, calls, jobs, task, breaker, orchestrator>>

\* busy or no-answer: every such callback asks for a retry.
Busy(q) ==
  /\ run[q] = "calling"
  /\ run' = [run EXCEPT ![q] = "busy"]
  /\ RecordOutcome
  /\ Publish(RetryNeeded(q))
  /\ UNCHANGED <<campaign, row, later, jobs, task, orchestrator, faults>>

BusyAgain(q) ==
  /\ run[q] = "busy" /\ Fault
  /\ RecordOutcome
  /\ Publish(RetryNeeded(q))
  /\ UNCHANGED <<campaign, calls, jobs, task, orchestrator>>

\* record_and_evaluate pauses on the strength of the state it read.
Trip ==
  /\ tripping
  /\ tripping' = FALSE /\ state' = "paused"
  /\ Publish(EventOf("tripped"))
  /\ UNCHANGED <<request, sync, processedRows, failedRows, calls, jobs, task,
                 open, orchestrator, faults>>

\* Failures leave the breaker's window, or successes outnumber them: minutes,
\* against the moment between the script and the pause.
WindowClears ==
  /\ open /\ ~tripping /\ open' = FALSE
  /\ UNCHANGED <<campaign, calls, jobs, task, tripping, events, orchestrator, faults>>

-----------------------------------------------------------------------------
(* The orchestrator: _schedule_next_batch, run by either of its tasks.     *)

HasPendingWork == Queued # {}

\* _clear_campaign_state.
ClearMemory == flag' = FALSE /\ lock' = FALSE /\ heard' = "none"

\* Entering _schedule_next_batch: the lock is tested and set without a pause.
EnterSchedule(t) ==
  IF lock THEN UNCHANGED <<orch, lock>>
  ELSE orch' = [orch EXCEPT ![t] = "check"] /\ lock' = TRUE

Goto(t, step) == orch' = [orch EXCEPT ![t] = step]

ScheduleCheck(t) ==
  /\ orch[t] = "check"
  /\ Goto(t, IF state \notin {"running", "syncing"} THEN "idle"
             ELSE IF open THEN "pause"
             ELSE IF HasPendingWork THEN "enqueue" ELSE "idle")
  /\ UNCHANGED <<campaign, calls, jobs, task, breaker, events, memory, noted,
                 faults>>

SchedulePause(t) ==
  /\ orch[t] = "pause"
  /\ state' = "paused"
  /\ Publish(EventOf("tripped"))
  /\ ClearMemory
  /\ Goto(t, "idle")
  /\ UNCHANGED <<request, sync, processedRows, failedRows, calls, jobs, task,
                 breaker, noted, faults>>

ScheduleEnqueue(t) ==
  /\ orch[t] = "enqueue"
  /\ \/ jobs < MaxJobs /\ jobs' = jobs + 1 /\ Goto(t, "flag") /\ UNCHANGED faults
     \/ Fault /\ Goto(t, "idle") /\ UNCHANGED jobs
  /\ UNCHANGED <<campaign, calls, task, breaker, events, memory, noted>>

\* The flag is raised only after the job was enqueued.
ScheduleFlag(t) ==
  /\ orch[t] = "flag"
  /\ flag' = TRUE /\ noted' = "recent"
  /\ Goto(t, "idle")
  /\ UNCHANGED <<campaign, calls, jobs, task, breaker, events, lock, heard, faults>>

\* Five seconds after some _schedule_next_batch its lock is gone.
Unlock ==
  /\ lock /\ lock' = FALSE
  /\ UNCHANGED <<campaign, calls, jobs, task, breaker, events, orch, flag, heard,
                 noted, faults>>

-----------------------------------------------------------------------------
(* The orchestrator: _handle_event.                                        *)

Received(kind) ==
  /\ orch["listener"] = "idle"
  /\ events # << >> /\ Head(events).kind = kind
  /\ events' = Tail(events)

RetryOf(q) == <<q[1], q[2] + 1>>

\* _handle_retry_event, whatever the campaign's state.  A retry that exists
\* already violates the unique constraint, and the exception is swallowed.
HandleRetry ==
  /\ Received("retry")
  /\ LET q == Head(events).of IN
     IF q[2] >= MaxRetries
     THEN failedRows' = failedRows + 1 /\ UNCHANGED <<row, later, heard>>
     ELSE /\ IF row[RetryOf(q)] = "absent"
             THEN /\ row' = [row EXCEPT ![RetryOf(q)] = "queued"]
                  /\ later' = later \cup {RetryOf(q)}
                  /\ heard' = "recent"
             ELSE UNCHANGED <<row, later, heard>>
          /\ UNCHANGED failedRows
  /\ UNCHANGED <<state, request, sync, processedRows, run, jobs, task, breaker,
                 orch, flag, lock, noted, faults>>

HandleBatchCompleted ==
  /\ Received("batch")
  /\ IF state = "running"
     THEN EnterSchedule("listener") /\ flag' = FALSE /\ heard' = "recent"
     ELSE ClearMemory /\ UNCHANGED orch
  /\ UNCHANGED <<campaign, calls, jobs, task, breaker, noted, faults>>

HandleBatchFailed ==
  /\ Received("batchFailed")
  /\ flag' = FALSE /\ heard' = "recent"
  /\ UNCHANGED <<campaign, calls, jobs, task, breaker, orch, lock, noted, faults>>

HandleSyncCompleted ==
  /\ Received("synced")
  /\ EnterSchedule("listener") /\ heard' = "recent"
  /\ UNCHANGED <<campaign, calls, jobs, task, breaker, flag, noted, faults>>

HandleTripped ==
  /\ Received("tripped")
  /\ ClearMemory
  /\ UNCHANGED <<campaign, calls, jobs, task, breaker, orch, noted, faults>>

-----------------------------------------------------------------------------
(* The orchestrator: _check_stale_campaigns, once a minute.                *)

MonitorSchedulesUnlessFlagged ==
  /\ orch["monitor"] = "idle" /\ state = "running"
  /\ HasPendingWork /\ ~flag
  /\ EnterSchedule("monitor")
  /\ UNCHANGED <<campaign, calls, jobs, task, breaker, events, flag, heard, noted,
                 faults>>

\* A batch flagged for more than five minutes is taken for stuck; work with no
\* batch flagged is taken for orphaned.
MonitorSchedules ==
  /\ orch["monitor"] = "idle" /\ state = "running"
  /\ HasPendingWork
  /\ flag' = FALSE
  /\ EnterSchedule("monitor")
  /\ UNCHANGED <<campaign, calls, jobs, task, breaker, events, heard, noted, faults>>

MonitorUnsticks ==
  /\ orch["monitor"] = "idle" /\ state = "running"
  /\ flag /\ ~HasPendingWork
  /\ flag' = FALSE
  /\ UNCHANGED <<campaign, calls, jobs, task, breaker, events, orch, lock, heard,
                 noted, faults>>

QuietUnlessHeard == heard # "recent"
QuietIfHeard == heard = "old"

\* No activity for completion_timeout; what memory says comes first.
Quiet == IF heard = "none" THEN noted = "old" ELSE heard = "old"

\* _should_mark_complete.
MonitorSeesQuiet ==
  /\ orch["monitor"] = "idle" /\ state = "running"
  /\ ~flag /\ ~HasPendingWork /\ Quiet
  /\ Goto("monitor", "complete")
  /\ UNCHANGED <<campaign, calls, jobs, task, breaker, events, memory, noted,
                 faults>>

\* _complete_campaign looks again ...
MonitorDoubleChecks ==
  /\ orch["monitor"] = "complete"
  /\ Goto("monitor", IF HasPendingWork THEN "idle" ELSE "finish")
  /\ UNCHANGED <<campaign, calls, jobs, task, breaker, events, memory, noted,
                 faults>>

\* ... and writes, whatever the state has become.
MonitorCompletes ==
  /\ orch["monitor"] = "finish"
  /\ state' = "completed"
  /\ ClearMemory
  /\ Goto("monitor", "idle")
  /\ UNCHANGED <<request, sync, processedRows, failedRows, calls, jobs, task,
                 breaker, events, noted, faults>>

\* The orchestrator process dies and comes back: its memory and the events it
\* was not there to hear are gone.
OrchestratorRestarts ==
  /\ Fault
  /\ orch' = [t \in OrchTasks |-> "idle"]
  /\ ClearMemory /\ events' = << >>
  /\ UNCHANGED <<campaign, calls, jobs, task, breaker, noted>>

-----------------------------------------------------------------------------
(* Time.                                                                   *)

RetryFallsDue ==
  /\ \E q \in later : later' = later \ {q}
  /\ UNCHANGED <<campaign, row, run, jobs, task, breaker, events, orchestrator,
                 faults>>

\* An hour in which nothing is recorded.  Calls, tasks, retry delays and
\* repeated callbacks take minutes, so nothing of the kind is still under way;
\* the monitor, which looks every minute, has left a running campaign neither
\* work to schedule nor a batch to wait for.
HourPasses ==
  /\ state \in {"running", "paused"} /\ "recent" \in {heard, noted}
  /\ request = "none" /\ sync = "none" /\ jobs = 0 /\ later = {} /\ ~tripping
  /\ \A w \in Workers : task[w] = IdleTask
  /\ \A q \in QueuedRuns : run[q] # "calling"
  /\ events = << >> /\ ~lock /\ \A t \in OrchTasks : orch[t] = "idle"
  /\ state = "running" => ~flag /\ ~HasPendingWork
  /\ heard' = IF heard = "none" THEN "none" ELSE "old"
  /\ noted' = "old"
  /\ run' = [q \in QueuedRuns |-> IF run[q] = "busy" THEN "over" ELSE run[q]]
  /\ UNCHANGED <<campaign, row, later, jobs, task, breaker, events, orch, flag, lock,
                 faults>>

-----------------------------------------------------------------------------
Api == CheckStart \/ CheckPause \/ CheckResume

ApiWrites == WriteStart \/ WritePause \/ WriteResume \/ ResetBreaker

Sync == SyncRows \/ SyncDone

BatchWork(w) == \/ Claim(w) \/ CreateRun(w) \/ Dial(w) \/ Mark(w)
                \/ BatchCompleted(w) \/ BatchFailed(w)

BatchFaults(w) == RowFails(w) \/ BatchStops(w) \/ DialFails(w) \/ Cancel(w) \/ Crash(w)

CallEnds(q) == CallOver(q) \/ Busy(q)

Schedule(t) == \/ ScheduleCheck(t) \/ SchedulePause(t) \/ ScheduleEnqueue(t)
               \/ ScheduleFlag(t)

Listen == \/ HandleRetry \/ HandleBatchCompleted \/ HandleBatchFailed
          \/ HandleSyncCompleted \/ HandleTripped

Monitor == \/ MonitorSchedules \/ MonitorUnsticks \/ MonitorSeesQuiet
           \/ MonitorDoubleChecks \/ MonitorCompletes

Next == \/ Api \/ ApiWrites \/ Sync \/ SyncFails
        \/ \E w \in Workers : TakeJob(w) \/ BatchWork(w) \/ BatchFaults(w)
        \/ \E q \in QueuedRuns : CallEnds(q) \/ BusyAgain(q)
        \/ Trip \/ WindowClears
        \/ \E t \in OrchTasks : Schedule(t)
        \/ Listen \/ Monitor \/ Unlock \/ OrchestratorRestarts
        \/ RetryFallsDue \/ HourPasses

Spec == Init /\ [][Next]_vars

\* Every process takes its next step, the monitor looks once a minute, time
\* passes.  Nobody has to press a button, and nothing has to go wrong.
FairSpec ==
  /\ Spec
  /\ WF_vars(ApiWrites) /\ WF_vars(Sync) /\ WF_vars(Trip)
  /\ \A w \in Workers : WF_vars(BatchWork(w))
  /\ WF_vars(\E w \in Workers : TakeJob(w))
  /\ \A q \in QueuedRuns : WF_vars(CallEnds(q))
  /\ \A t \in OrchTasks : WF_vars(Schedule(t))
  /\ WF_vars(Listen) /\ WF_vars(Monitor) /\ WF_vars(Unlock)
  /\ WF_vars(RetryFallsDue) /\ WF_vars(HourPasses)

-----------------------------------------------------------------------------
(* Properties.                                                             *)

\* Two workers never hold the same queued run (campaign_client.py:784,
\* "multiple workers can call it concurrently without processing the same
\* runs"), through returned claims, cancellations and rerun jobs.
ClaimsAreDisjoint ==
  \A v, w \in Workers : v # w => task[v].mine \cap task[w].mine = {}

\* A queued run gets one workflow run, hence one call, ever: what a cancelled
\* or failed batch returns to the queue has not been dialed.
DialedOnce ==
  [][\A q \in QueuedRuns : run'[q] = "created" => run[q] \in {"none", "created"}]_vars

\* A contact is never called twice at a time, and never called again while an
\* earlier attempt waits to be placed: retries follow the call they repeat,
\* however often the callback that asks for them comes.
OneCallPerContact ==
  \A r \in Rows :
    Cardinality({k \in 0 .. MaxRetries :
                   \/ run[<<r, k>>] \in {"created", "calling"}
                   \/ row[<<r, k>>] \in {"queued", "processing"}
                      /\ run[<<r, k>>] = "none"}) <= 1

\* A campaign is only completed when no call is in progress, whatever events and
\* processes were lost on the way; unless a user resumes it after a pause so
\* long that its activity is old (campaign_orchestrator.py:552).
CompletesAfterCalls ==
  [][state' = "completed" /\ state # "completed" =>
       \A q \in QueuedRuns : run[q] # "calling"]_vars

\* While the campaign stays running every queued run is claimed: lost events, a
\* restarted orchestrator and a batch that vanished only delay it.
QueuedRunsAreServed ==
  \A q \in QueuedRuns :
    row[q] = "queued" ~> (row[q] # "queued" \/ state # "running")

\* A running campaign does not run for ever.
RunningCampaignEnds == state = "running" ~> state # "running"

\* processed_rows is never ahead of the rows: whatever batches overlap or are cut
\* short, it counts none that is not processed, and none twice.
CountedRowsAreProcessed ==
  processedRows <= Cardinality({q \in QueuedRuns : row[q] = "processed"})
=============================================================================
