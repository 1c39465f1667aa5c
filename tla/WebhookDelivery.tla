--------------------------- MODULE WebhookDelivery ---------------------------
(***************************************************************************)
(* The delivery of one webhook: the row that run_integrations creates, the *)
(* deliver_webhook jobs that ARQ workers run for it, and the sweeper that  *)
(* enqueues a job again when an overdue row has lost its own.  The row is  *)
(* the source of truth; a worker claims it by moving scheduled_for past a  *)
(* lease, sends, and records what came of it.                              *)
(*                                                                         *)
(* Time is in ticks, and scheduled_for what is left of it.  ARQ drops a    *)
(* job whose id is queued, running or has a result that is still kept.     *)
(***************************************************************************)
EXTENDS Integers, FiniteSets

CONSTANTS
  Workers,      \* ARQ workers
  MaxAttempts,  \* max_attempts of the delivery
  Lease,        \* timeout_seconds + 60
  Backoff,      \* _backoff_seconds of each attempt
  MaxSend,      \* ticks from a claim to the record of its outcome
  NoJob,        \* no job id
  MaxReclaims,  \* bound: the sweeper's jobs waiting in ARQ
  MaxFaults     \* bound: crashes, cancellations, database errors, lost queues

Attempts == 1 .. MaxAttempts

ASSUME WebhookAssumption ==
  /\ MaxAttempts \in Nat \ {0} /\ Lease \in Nat \ {0} /\ MaxSend \in Nat
  /\ Backoff \in [Attempts -> Nat]
  /\ MaxReclaims \in Nat /\ MaxFaults \in Nat

\* webhook-delivery-<id>-<attempt_count>: the job that follows that many attempts.
JobIds == 0 .. MaxAttempts - 1

\* webhook-delivery-reclaim-<id>-<scheduled_for>: a fresh id for every date.
Reclaim == MaxAttempts

ASSUME NoJobAssumption == NoJob \notin JobIds \cup {Reclaim}

VARIABLES
  status,     \* of the delivery, "absent" before it is created
  attempts,   \* attempt_count
  due,        \* what is left until scheduled_for, 0 when it is past or NULL
  creator,    \* run_integrations: what it still has to do
  queued,     \* ids of the jobs waiting in ARQ
  defer,      \* what is left of the _defer_by of each
  kept,       \* ids whose job runs or has left a result
  reclaims,   \* the sweeper's jobs waiting in ARQ
  swept,      \* whether the sweeper's id for this scheduled_for is taken
  work,       \* what each worker is doing
  faults      \* faults so far

record == <<status, attempts, due>>
arq == <<queued, defer, kept, reclaims, swept>>
vars == <<record, creator, arq, work, faults>>

-----------------------------------------------------------------------------
Idle == [pc |-> "idle", attempt |-> 0, age |-> 0, job |-> NoJob]

\* From the claim until its outcome is recorded.
Sending == {"claimed", "send", "sent", "unanswered", "rejected"}

Works == [pc : {"idle", "claim", "enqueue"} \cup Sending,
          attempt : 0 .. MaxAttempts, age : 0 .. MaxSend,
          job : JobIds \cup {Reclaim, NoJob}]

Final == {"succeeded", "dead_letter"}

TypeOK ==
  /\ status \in {"absent", "pending"} \cup Final
  /\ attempts \in 0 .. MaxAttempts
  /\ due \in Nat
  /\ creator \in {"create", "enqueue", "done"}
  /\ queued \in SUBSET JobIds /\ defer \in [JobIds -> Nat]
  /\ kept \in SUBSET JobIds
  /\ reclaims \in 0 .. MaxReclaims /\ swept \in BOOLEAN
  /\ work \in [Workers -> Works]
  /\ faults \in 0 .. MaxFaults

Init ==
  /\ status = "absent" /\ attempts = 0 /\ due = 0
  /\ creator = "create"
  /\ queued = {} /\ defer = [k \in JobIds |-> 0] /\ kept = {}
  /\ reclaims = 0 /\ swept = FALSE
  /\ work = [w \in Workers |-> Idle]
  /\ faults = 0

Fault == faults < MaxFaults /\ faults' = faults + 1

-----------------------------------------------------------------------------
(* run_integrations: the row, then its first job.                          *)

\* ARQ's enqueue_job under a deterministic id.
Enqueue(k, delay) ==
  IF k \in queued \cup kept THEN UNCHANGED <<queued, defer>>
  ELSE queued' = queued \cup {k} /\ defer' = [defer EXCEPT ![k] = delay]

Create ==
  /\ creator = "create" /\ creator' = "enqueue"
  /\ status' = "pending"
  /\ UNCHANGED <<attempts, due, arq, work, faults>>

EnqueueFirst ==
  /\ creator = "enqueue" /\ creator' = "done"
  /\ Enqueue(0, 0)
  /\ UNCHANGED <<record, kept, reclaims, swept, work, faults>>

\* Nothing enqueues the job of a row that exists: a rerun of run_integrations
\* finds it and leaves it alone.
CreatorDies ==
  /\ creator = "enqueue" /\ creator' = "done" /\ Fault
  /\ UNCHANGED <<record, arq, work>>

-----------------------------------------------------------------------------
(* deliver_webhook.                                                        *)

Take(w, job) ==
  work' = [work EXCEPT ![w] = [pc |-> "claim", attempt |-> 0, age |-> 0, job |-> job]]

TakeJob(w) ==
  /\ work[w].pc = "idle"
  /\ \/ \E k \in queued :
          /\ defer[k] = 0
          /\ queued' = queued \ {k} /\ kept' = kept \cup {k}
          /\ Take(w, k)
          /\ UNCHANGED reclaims
     \/ /\ reclaims > 0 /\ reclaims' = reclaims - 1
        /\ Take(w, Reclaim)
        /\ UNCHANGED <<queued, kept>>
  /\ UNCHANGED <<record, creator, defer, swept, faults>>

ClaimableAnyStatus == status # "absent" /\ due = 0
ClaimableAnyTime == status = "pending"

Claimable == status = "pending" /\ due = 0

\* claim_webhook_delivery's UPDATE, of which one concurrent worker matches.
Claim(w) ==
  /\ work[w].pc = "claim"
  /\ IF Claimable
     THEN /\ due' = Lease /\ swept' = FALSE
          /\ work' = [work EXCEPT ![w].pc = "claimed"]
     ELSE /\ work' = [work EXCEPT ![w] = Idle]
          /\ UNCHANGED <<due, swept>>
  /\ UNCHANGED <<status, attempts, creator, queued, defer, kept, reclaims, faults>>

\* Its SELECT, after the commit.
Fetch(w) ==
  /\ work[w].pc = "claimed"
  /\ work' = [work EXCEPT ![w].pc = "send", ![w].attempt = attempts + 1]
  /\ UNCHANGED <<record, creator, arq, faults>>

\* The request: 2xx; a status or a connection error worth a retry; a status or
\* an unexpected error that is not.
Send(w) ==
  /\ work[w].pc = "send"
  /\ \E outcome \in {"sent", "unanswered", "rejected"} :
       work' = [work EXCEPT ![w].pc = outcome]
  /\ UNCHANGED <<record, creator, arq, faults>>

\* One UPDATE of the row by id, whoever has claimed it by now.
Record(w, newStatus, newDue) ==
  /\ status' = newStatus /\ attempts' = work[w].attempt /\ due' = newDue
  /\ swept' = FALSE

RecordSuccess(w) ==
  /\ work[w].pc = "sent"
  /\ Record(w, "succeeded", 0)
  /\ work' = [work EXCEPT ![w] = Idle]
  /\ UNCHANGED <<creator, queued, defer, kept, reclaims, faults>>

DeadLetter(w) ==
  /\ \/ work[w].pc = "rejected"
     \/ work[w].pc = "unanswered" /\ work[w].attempt >= MaxAttempts
  /\ Record(w, "dead_letter", 0)
  /\ work' = [work EXCEPT ![w] = Idle]
  /\ UNCHANGED <<creator, queued, defer, kept, reclaims, faults>>

\* The retry is recorded, and then enqueued.
ScheduleRetry(w) ==
  /\ work[w].pc = "unanswered" /\ work[w].attempt < MaxAttempts
  /\ Record(w, "pending", Backoff[work[w].attempt])
  /\ work' = [work EXCEPT ![w].pc = "enqueue", ![w].age = 0]
  /\ UNCHANGED <<creator, queued, defer, kept, reclaims, faults>>

EnqueueRetry(w) ==
  /\ work[w].pc = "enqueue"
  /\ Enqueue(work[w].attempt, Backoff[work[w].attempt])
  /\ work' = [work EXCEPT ![w] = Idle]
  /\ UNCHANGED <<record, creator, kept, reclaims, swept, faults>>

\* The worker dies or is cancelled, or the database or ARQ fails it: the job
\* has failed for good, or ARQ runs it again.
Dies(w) ==
  /\ work[w].pc # "idle" /\ Fault
  /\ work' = [work EXCEPT ![w] = Idle]
  /\ \/ UNCHANGED <<queued, kept, reclaims>>
     \/ /\ work[w].job \in JobIds
        /\ queued' = queued \cup {work[w].job} /\ kept' = kept \ {work[w].job}
        /\ UNCHANGED reclaims
     \/ /\ work[w].job = Reclaim /\ reclaims < MaxReclaims
        /\ reclaims' = reclaims + 1
        /\ UNCHANGED <<queued, kept>>
  /\ UNCHANGED <<record, creator, defer, swept>>

-----------------------------------------------------------------------------
(* The sweeper, ARQ's memory, time.                                        *)

SweepFirstOnly ==
  /\ status = "pending" /\ due = 0 /\ attempts = 0
  /\ ~swept /\ reclaims < MaxReclaims
  /\ swept' = TRUE /\ reclaims' = reclaims + 1
  /\ UNCHANGED <<record, creator, queued, defer, kept, work, faults>>

\* sweep_webhook_deliveries comes upon the row, overdue.
Sweep ==
  /\ status = "pending" /\ due = 0
  /\ ~swept /\ reclaims < MaxReclaims
  /\ swept' = TRUE /\ reclaims' = reclaims + 1
  /\ UNCHANGED <<record, creator, queued, defer, kept, work, faults>>

Running == {work[w].job : w \in Workers}

\* An hour later ARQ has forgotten the results of the jobs it ran, those of
\* the jobs (JobsExpire) and that of the sweeper's (ReclaimExpires).
JobsExpire ==
  /\ kept \ Running # {}
  /\ kept' = kept \cap Running
  /\ UNCHANGED <<record, creator, queued, defer, reclaims, swept, work, faults>>

ReclaimExpires ==
  /\ swept /\ reclaims = 0 /\ Reclaim \notin Running
  /\ swept' = FALSE
  /\ UNCHANGED <<record, creator, queued, defer, kept, reclaims, work, faults>>

\* Redis is flushed.
QueueLost ==
  /\ Fault
  /\ queued' = {} /\ kept' = {} /\ reclaims' = 0 /\ swept' = FALSE
  /\ UNCHANGED <<record, creator, defer, work>>

Sooner(n) == IF n = 0 THEN 0 ELSE n - 1

\* An attempt is recorded, or ARQ's job_timeout has cancelled it, in MaxSend.
Tick ==
  /\ \A w \in Workers : work[w].pc \in Sending => work[w].age < MaxSend
  /\ due' = Sooner(due)
  /\ defer' = [k \in JobIds |-> IF k \in queued THEN Sooner(defer[k]) ELSE 0]
  /\ work' = [w \in Workers |-> IF work[w].pc \in Sending
                                THEN [work[w] EXCEPT !.age = @ + 1] ELSE work[w]]
  /\ UNCHANGED <<status, attempts, creator, queued, kept, reclaims, swept, faults>>

-----------------------------------------------------------------------------
Deliver(w) == \/ Claim(w) \/ Fetch(w) \/ Send(w) \/ RecordSuccess(w)
              \/ DeadLetter(w) \/ ScheduleRetry(w) \/ EnqueueRetry(w)

Next == \/ Create \/ EnqueueFirst \/ CreatorDies
        \/ \E w \in Workers : TakeJob(w) \/ Deliver(w) \/ Dies(w)
        \/ Sweep \/ JobsExpire \/ ReclaimExpires \/ QueueLost \/ Tick

Spec == Init /\ [][Next]_vars

\* Workers run what ARQ hands out, the sweeper comes round, time passes.
FairSpec ==
  /\ Spec
  /\ WF_vars(EnqueueFirst) /\ WF_vars(\E w \in Workers : TakeJob(w))
  /\ \A w \in Workers : WF_vars(Deliver(w))
  /\ WF_vars(Sweep) /\ WF_vars(ReclaimExpires) /\ WF_vars(Tick)

-----------------------------------------------------------------------------
(* Properties.                                                             *)

InFlight == {w \in Workers : work[w].pc \in Sending}

\* webhook_delivery.py:256-265: neither a duplicate job nor the sweeper makes
\* two workers send the delivery at a time, and the lease lasts as long as an
\* attempt.
OneSenderAtATime == \A v, w \in InFlight : v = w

\* What is recorded stays: a delivery that succeeded or was dead-lettered is
\* not reopened, and attempts are not uncounted, by a worker that comes late.
RecordKeepsProgress ==
  [][/\ status \in Final => status' = status
     /\ attempts' >= attempts]_vars

\* A delivery is recorded as accepted or is dead-lettered, whatever jobs are
\* lost and whatever workers die: it never stays pending.
EveryDeliveryEnds == status = "pending" ~> status \in Final
=============================================================================
