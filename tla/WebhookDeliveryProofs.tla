------------------------ MODULE WebhookDeliveryProofs ------------------------
(***************************************************************************)
(* What holds of WebhookDelivery for any number of workers and attempts,   *)
(* any backoff and any lease, provided that an attempt ends within the     *)
(* lease of its claim.                                                     *)
(***************************************************************************)
EXTENDS WebhookDelivery, TLAPS

\* webhook_delivery.py:267: the lease outlasts a full attempt.
LeaseOutlastsAttempt == MaxSend < Lease

-----------------------------------------------------------------------------
(* The inductive invariant.                                                *)

\* Nothing has happened to a row that does not exist.
CreatedOnce == creator = "create" => status = "absent" /\ attempts = 0

\* An attempt is left for every delivery that is not finished.
AttemptsAreLeft == status \notin Final => attempts < MaxAttempts

\* The row of a delivery in flight stays pending, its date set by the claim.
LeaseHolds ==
  \A w \in Workers : work[w].pc \in Sending
                       => status = "pending" /\ due + work[w].age = Lease

\* A worker sends the attempt that follows those recorded.
AttemptIsNext ==
  \A w \in Workers : work[w].pc \in Sending \ {"claimed"}
                       => work[w].attempt = attempts + 1

\* A retry is enqueued only for an attempt that was not the last.
RetryIsLeft ==
  \A w \in Workers : work[w].pc = "enqueue"
                       => work[w].attempt \in 1 .. MaxAttempts - 1

\* Age is counted in flight only.
AgeInFlight == \A w \in Workers : work[w].pc \notin Sending => work[w].age = 0

DeliveryInv == /\ TypeOK /\ CreatedOnce /\ AttemptsAreLeft /\ LeaseHolds
               /\ OneSenderAtATime /\ AttemptIsNext /\ RetryIsLeft /\ AgeInFlight

-----------------------------------------------------------------------------
\* An idle worker is a worker, and not in flight.
LEMMA IdleWorks ==
  /\ Idle \in Works /\ Idle.age = 0
  /\ Idle.pc \notin Sending /\ Idle.pc # "enqueue"
BY WebhookAssumption DEF Idle, Works, Sending

\* The row is absent at the start and every worker idle.
LEMMA DeliveryInvInit == Init => DeliveryInv
<1> SUFFICES ASSUME Init PROVE DeliveryInv
  OBVIOUS
<1>1. \A w \in Workers : work[w] = Idle
  BY DEF Init
<1>2. TypeOK
  <2>1. work \in [Workers -> Works] /\ defer \in [JobIds -> Nat]
    BY IdleWorks DEF Init
  <2>2. /\ 0 \in 0 .. MaxAttempts /\ 0 \in 0 .. MaxReclaims
        /\ 0 \in 0 .. MaxFaults /\ 0 \in Nat
    BY WebhookAssumption
  <2> QED BY <2>1, <2>2 DEF Init, TypeOK
<1>3. CreatedOnce /\ AttemptsAreLeft
  BY WebhookAssumption DEF Init, CreatedOnce, AttemptsAreLeft
<1>4. LeaseHolds /\ OneSenderAtATime /\ AttemptIsNext /\ RetryIsLeft /\ AgeInFlight
  BY <1>1, IdleWorks
     DEF LeaseHolds, OneSenderAtATime, AttemptIsNext, RetryIsLeft, AgeInFlight, InFlight
<1> QED BY <1>2, <1>3, <1>4 DEF DeliveryInv

\* A delivery in flight is not due, so nobody can claim it.
LEMMA InFlightIsNotDue ==
  ASSUME DeliveryInv, LeaseOutlastsAttempt, NEW w \in InFlight
  PROVE  due > 0 /\ ~Claimable
BY WebhookAssumption
   DEF DeliveryInv, TypeOK, LeaseHolds, LeaseOutlastsAttempt, InFlight, Works,
       Claimable

\* The steps that leave the row as it is, and a worker out of flight.
LEMMA RowUntouched ==
  ASSUME DeliveryInv, NEW w \in Workers, NEW r \in Works,
         work' = [work EXCEPT ![w] = r],
         r.pc \notin Sending, r.pc # "enqueue", r.age = 0,
         UNCHANGED <<record, creator>>, TypeOK'
  PROVE  DeliveryInv'
BY DEF DeliveryInv, TypeOK, CreatedOnce, AttemptsAreLeft, LeaseHolds,
       OneSenderAtATime, AttemptIsNext, RetryIsLeft, AgeInFlight, record, InFlight

\* The steps that leave the row and the workers as they are.
LEMMA WorkUntouched ==
  ASSUME DeliveryInv, UNCHANGED <<record, creator, work>>, TypeOK'
  PROVE  DeliveryInv'
BY DEF DeliveryInv, CreatedOnce, AttemptsAreLeft, LeaseHolds, OneSenderAtATime,
       AttemptIsNext, RetryIsLeft, AgeInFlight, record, InFlight

-----------------------------------------------------------------------------
\* The claim begins a flight when there is none.
LEMMA ClaimKeepsInv ==
  ASSUME DeliveryInv, LeaseOutlastsAttempt, NEW w \in Workers, Claim(w)
  PROVE  DeliveryInv'
<1>1. CASE ~Claimable
  <2>1. work' = [work EXCEPT ![w] = Idle] /\ UNCHANGED <<record, creator>>
    BY <1>1 DEF Claim, record
  <2>2. TypeOK'
    BY <2>1, <1>1, IdleWorks DEF DeliveryInv, TypeOK, Claim
  <2> QED BY <2>1, <2>2, IdleWorks, RowUntouched
<1>2. CASE Claimable
  <2>1. InFlight = {}
    BY <1>2, InFlightIsNotDue
  <2>2. /\ status = "pending" /\ due' = Lease /\ swept' = FALSE
        /\ UNCHANGED <<status, attempts, creator, queued, defer, kept, reclaims, faults>>
    BY <1>2 DEF Claim, Claimable
  <2>3. work[w] \in Works /\ work[w].pc = "claim" /\ work[w].age = 0
    BY DEF Claim, DeliveryInv, TypeOK, AgeInFlight, Sending
  <2>4. work' = [work EXCEPT ![w].pc = "claimed"]
    BY <1>2 DEF Claim
  <2>5. /\ work' \in [Workers -> Works]
        /\ work'[w].pc = "claimed" /\ work'[w].age = 0
    BY <2>3, <2>4 DEF DeliveryInv, TypeOK, Works, Sending
  <2>6. \A v \in Workers : v # w => work'[v] = work[v] /\ work[v].pc \notin Sending
    BY <2>1, <2>4 DEF DeliveryInv, TypeOK, InFlight
  <2>7. TypeOK' /\ CreatedOnce' /\ AttemptsAreLeft'
    BY <2>2, <2>5, WebhookAssumption
       DEF DeliveryInv, TypeOK, CreatedOnce, AttemptsAreLeft
  <2>8. LeaseHolds'
    BY <2>2, <2>5, <2>6, WebhookAssumption DEF LeaseHolds
  <2>9. OneSenderAtATime' /\ AttemptIsNext' /\ RetryIsLeft' /\ AgeInFlight'
    BY <2>2, <2>5, <2>6
       DEF DeliveryInv, OneSenderAtATime, AttemptIsNext, RetryIsLeft, AgeInFlight,
           InFlight, Sending
  <2> QED BY <2>7, <2>8, <2>9 DEF DeliveryInv
<1> QED BY <1>1, <1>2

\* What becomes of a flight, once fetched: the worker keeps the lease, its age
\* and everything else it knows.
LEMMA FlightGoesOn ==
  ASSUME DeliveryInv, NEW w \in Workers, work[w].pc \in Sending,
         NEW r \in Works, work' = [work EXCEPT ![w] = r],
         r.pc \in Sending, r.age = work[w].age,
         r.pc # "claimed" => r.attempt = attempts + 1,
         UNCHANGED <<record, creator, arq, faults>>
  PROVE  DeliveryInv'
<1>1. TypeOK'
  BY DEF DeliveryInv, TypeOK, record, arq
<1>2. CreatedOnce' /\ AttemptsAreLeft' /\ LeaseHolds'
  BY DEF DeliveryInv, TypeOK, CreatedOnce, AttemptsAreLeft, LeaseHolds, record
<1>3. OneSenderAtATime' /\ AttemptIsNext' /\ RetryIsLeft' /\ AgeInFlight'
  BY DEF DeliveryInv, TypeOK, OneSenderAtATime, AttemptIsNext, RetryIsLeft,
         AgeInFlight, InFlight, record, Sending
<1> QED BY <1>1, <1>2, <1>3 DEF DeliveryInv

\* The number of the attempt is read from a pending row.
LEMMA FetchKeepsInv ==
  ASSUME DeliveryInv, NEW w \in Workers, Fetch(w)
  PROVE  DeliveryInv'
<1> DEFINE r == [work[w] EXCEPT !.pc = "send", !.attempt = attempts + 1]
<1>1. work[w] \in Works /\ work[w].pc = "claimed" /\ work[w].pc \in Sending
  BY DEF Fetch, DeliveryInv, TypeOK, Sending
<1>2. attempts + 1 \in 0 .. MaxAttempts
  BY <1>1, WebhookAssumption
     DEF DeliveryInv, TypeOK, AttemptsAreLeft, LeaseHolds, Final
<1>3. /\ r \in Works /\ r.pc = "send" /\ r.age = work[w].age
      /\ r.attempt = attempts + 1
  BY <1>1, <1>2 DEF Works, Sending
<1>4. work' = [work EXCEPT ![w] = r]
  BY DEF Fetch
<1> HIDE DEF r
<1> QED BY <1>1, <1>3, <1>4, FlightGoesOn DEF Fetch, Sending

\* The answer changes nothing but where the worker is.
LEMMA SendKeepsInv ==
  ASSUME DeliveryInv, NEW w \in Workers, Send(w)
  PROVE  DeliveryInv'
<1>1. PICK outcome \in {"sent", "unanswered", "rejected"} :
        work' = [work EXCEPT ![w].pc = outcome]
  BY DEF Send
<1> DEFINE r == [work[w] EXCEPT !.pc = outcome]
<1>2. work[w] \in Works /\ work[w].pc = "send" /\ work[w].pc \in Sending
  BY DEF Send, DeliveryInv, TypeOK, Sending
<1>3. work[w].attempt = attempts + 1
  BY <1>2 DEF DeliveryInv, AttemptIsNext
<1>4. /\ r \in Works /\ r.pc \in Sending /\ r.age = work[w].age
      /\ r.attempt = work[w].attempt
  BY <1>2 DEF Works, Sending
<1>5. work' = [work EXCEPT ![w] = r]
  BY <1>1
<1> HIDE DEF r
<1> QED BY <1>2, <1>3, <1>4, <1>5, FlightGoesOn DEF Send

\* An outcome is recorded by the only worker in flight, for the attempt that
\* follows those recorded.
LEMMA RecordKeepsInv ==
  ASSUME DeliveryInv, NEW w \in Workers,
         work[w].pc \in Sending \ {"claimed"},
         NEW s \in {"pending"} \cup Final, NEW d \in Nat, Record(w, s, d),
         s = "pending" => work[w].attempt < MaxAttempts,
         NEW r \in Works, work' = [work EXCEPT ![w] = r],
         r.pc \notin Sending, r.age = 0,
         r.pc = "enqueue" => r.attempt \in 1 .. MaxAttempts - 1,
         UNCHANGED <<creator, queued, defer, kept, reclaims, faults>>
  PROVE  DeliveryInv'
<1>1. /\ status' = s /\ attempts' = work[w].attempt /\ due' = d /\ swept' = FALSE
      /\ work[w].attempt = attempts + 1 /\ status = "pending"
  BY DEF Record, DeliveryInv, AttemptIsNext, LeaseHolds
<1>2. work[w] \in Works /\ work[w].attempt \in 0 .. MaxAttempts
  BY DEF DeliveryInv, TypeOK, Works
<1>3. \A v \in Workers : v # w => work'[v] = work[v] /\ work[v].pc \notin Sending
  BY DEF DeliveryInv, TypeOK, OneSenderAtATime, InFlight
<1>4. work' \in [Workers -> Works] /\ work'[w] = r
  BY DEF DeliveryInv, TypeOK
<1>5. TypeOK'
  BY <1>1, <1>2, <1>4 DEF DeliveryInv, TypeOK
<1>6. CreatedOnce'
  BY <1>1 DEF DeliveryInv, CreatedOnce
<1>7. AttemptsAreLeft'
  BY <1>1, <1>2, WebhookAssumption DEF AttemptsAreLeft, Final
<1>8. LeaseHolds' /\ OneSenderAtATime' /\ AttemptIsNext' /\ AgeInFlight'
  BY <1>3, <1>4
     DEF DeliveryInv, LeaseHolds, OneSenderAtATime, AttemptIsNext, AgeInFlight, InFlight
<1>9. RetryIsLeft'
  BY <1>3, <1>4 DEF DeliveryInv, RetryIsLeft
<1> QED BY <1>5, <1>6, <1>7, <1>8, <1>9 DEF DeliveryInv

\* Success and dead letters end the flight; a retry ends it too, and leaves
\* the worker with a job to enqueue.
LEMMA OutcomesKeepInv ==
  ASSUME DeliveryInv, NEW w \in Workers,
         RecordSuccess(w) \/ DeadLetter(w) \/ ScheduleRetry(w)
  PROVE  DeliveryInv'
<1>1. work[w] \in Works
  BY DEF DeliveryInv, TypeOK
<1>2. CASE RecordSuccess(w)
  <2>1. /\ work[w].pc \in Sending \ {"claimed"} /\ "succeeded" # "pending"
        /\ "succeeded" \in {"pending"} \cup Final /\ 0 \in Nat
        /\ Record(w, "succeeded", 0) /\ work' = [work EXCEPT ![w] = Idle]
        /\ UNCHANGED <<creator, queued, defer, kept, reclaims, faults>>
    BY <1>2 DEF RecordSuccess, Sending, Final
  <2>2. /\ Idle \in Works /\ Idle.pc \notin Sending /\ Idle.age = 0
        /\ Idle.pc = "enqueue" => Idle.attempt \in 1 .. MaxAttempts - 1
    BY IdleWorks
  <2> QED BY <2>1, <2>2, RecordKeepsInv
<1>3. CASE DeadLetter(w)
  <2>1. /\ work[w].pc \in Sending \ {"claimed"} /\ "dead_letter" # "pending"
        /\ "dead_letter" \in {"pending"} \cup Final /\ 0 \in Nat
        /\ Record(w, "dead_letter", 0) /\ work' = [work EXCEPT ![w] = Idle]
        /\ UNCHANGED <<creator, queued, defer, kept, reclaims, faults>>
    BY <1>3 DEF DeadLetter, Sending, Final
  <2>2. /\ Idle \in Works /\ Idle.pc \notin Sending /\ Idle.age = 0
        /\ Idle.pc = "enqueue" => Idle.attempt \in 1 .. MaxAttempts - 1
    BY IdleWorks
  <2> QED BY <2>1, <2>2, RecordKeepsInv
<1>4. CASE ScheduleRetry(w)
  <2> DEFINE r == [work[w] EXCEPT !.pc = "enqueue", !.age = 0]
  <2>1. /\ work[w].pc = "unanswered" /\ work[w].attempt < MaxAttempts
        /\ work[w].attempt = attempts + 1 /\ attempts \in Nat
    BY <1>4 DEF ScheduleRetry, DeliveryInv, TypeOK, AttemptIsNext, Sending
  <2>2. work[w].attempt \in Attempts /\ work[w].attempt \in 1 .. MaxAttempts - 1
    BY <2>1, WebhookAssumption DEF Attempts
  <2>3. Backoff[work[w].attempt] \in Nat
    BY <2>2, WebhookAssumption
  <2>4. r \in Works /\ r.pc = "enqueue" /\ r.age = 0 /\ r.attempt = work[w].attempt
    <3>1. 0 \in 0 .. MaxSend
      BY WebhookAssumption
    <3> QED BY <1>1, <3>1 DEF Works, Sending
  <2>5. work' = [work EXCEPT ![w] = r]
    BY <1>4 DEF ScheduleRetry
  <2>6. r.pc \notin Sending
    BY <2>4 DEF Sending
  <2> HIDE DEF r
  <2> QED BY <1>4, <2>1, <2>2, <2>3, <2>4, <2>5, <2>6, RecordKeepsInv
          DEF ScheduleRetry, Sending
<1> QED BY <1>2, <1>3, <1>4

\* What ARQ is given has an id and a delay.
LEMMA EnqueueTypes ==
  ASSUME DeliveryInv, NEW k \in JobIds, NEW d \in Nat, Enqueue(k, d)
  PROVE  queued' \in SUBSET JobIds /\ defer' \in [JobIds -> Nat]
BY DEF DeliveryInv, TypeOK, Enqueue

\* A retry's job is one of the delivery's jobs.
LEMMA EnqueueRetryKeepsInv ==
  ASSUME DeliveryInv, NEW w \in Workers, EnqueueRetry(w)
  PROVE  DeliveryInv'
<1>1. work[w].attempt \in 1 .. MaxAttempts - 1
  BY DEF EnqueueRetry, DeliveryInv, RetryIsLeft
<1>2. work[w].attempt \in JobIds /\ work[w].attempt \in Attempts
  BY <1>1, WebhookAssumption DEF JobIds, Attempts
<1>3. queued' \in SUBSET JobIds /\ defer' \in [JobIds -> Nat]
  BY <1>2, EnqueueTypes, WebhookAssumption DEF EnqueueRetry
<1>4. TypeOK'
  BY <1>3, IdleWorks DEF EnqueueRetry, DeliveryInv, TypeOK, record
<1> QED BY <1>4, IdleWorks, RowUntouched DEF EnqueueRetry

\* Taking a job begins no flight.
LEMMA TakeJobKeepsInv ==
  ASSUME DeliveryInv, NEW w \in Workers, TakeJob(w)
  PROVE  DeliveryInv'
<1>1. PICK job \in JobIds \cup {Reclaim} : Take(w, job)
  BY DEF TakeJob, DeliveryInv, TypeOK
<1> DEFINE r == [pc |-> "claim", attempt |-> 0, age |-> 0, job |-> job]
<1>2. /\ r \in Works /\ r.age = 0 /\ r.pc \notin Sending /\ r.pc # "enqueue"
  <2>1. 0 \in 0 .. MaxAttempts /\ 0 \in 0 .. MaxSend
    BY WebhookAssumption
  <2> QED BY <2>1 DEF Works, Sending
<1>3. work' = [work EXCEPT ![w] = r]
  BY <1>1 DEF Take
<1> HIDE DEF r
<1>4. queued' \in SUBSET JobIds /\ kept' \in SUBSET JobIds
  BY DEF TakeJob, DeliveryInv, TypeOK
<1>5. reclaims' \in 0 .. MaxReclaims
  BY WebhookAssumption DEF TakeJob, DeliveryInv, TypeOK
<1>6. TypeOK'
  BY <1>2, <1>3, <1>4, <1>5 DEF TakeJob, DeliveryInv, TypeOK, record
<1> QED BY <1>2, <1>3, <1>6, RowUntouched DEF TakeJob

\* A worker that dies leaves its flight, and the row to the lease.
LEMMA DiesKeepsInv ==
  ASSUME DeliveryInv, NEW w \in Workers, Dies(w)
  PROVE  DeliveryInv'
<1>1. queued' \in SUBSET JobIds /\ kept' \in SUBSET JobIds
  BY DEF Dies, DeliveryInv, TypeOK
<1>2. reclaims' \in 0 .. MaxReclaims /\ faults' \in 0 .. MaxFaults
  BY WebhookAssumption DEF Dies, Fault, DeliveryInv, TypeOK
<1>3. TypeOK'
  BY <1>1, <1>2, IdleWorks DEF Dies, DeliveryInv, TypeOK, record
<1> QED BY <1>3, IdleWorks, RowUntouched DEF Dies

\* The row is created once, before anything else happens to it.
LEMMA CreateKeepsInv ==
  ASSUME DeliveryInv, Create
  PROVE  DeliveryInv'
<1>1. TypeOK'
  BY DEF Create, DeliveryInv, TypeOK, arq
<1>2. CreatedOnce' /\ AttemptsAreLeft'
  BY WebhookAssumption DEF Create, DeliveryInv, CreatedOnce, AttemptsAreLeft, Final
<1>3. /\ LeaseHolds' /\ OneSenderAtATime' /\ AttemptIsNext' /\ RetryIsLeft'
      /\ AgeInFlight'
  BY DEF Create, DeliveryInv, LeaseHolds, OneSenderAtATime, AttemptIsNext,
         RetryIsLeft, AgeInFlight, InFlight
<1> QED BY <1>1, <1>2, <1>3 DEF DeliveryInv

\* The creator's other steps leave the row alone.
LEMMA CreatorKeepsInv ==
  ASSUME DeliveryInv, EnqueueFirst \/ CreatorDies
  PROVE  DeliveryInv'
<1>1. 0 \in JobIds /\ 0 \in Nat
  BY WebhookAssumption DEF JobIds
<1>2. /\ queued' \in SUBSET JobIds /\ defer' \in [JobIds -> Nat]
      /\ faults' \in 0 .. MaxFaults
  <2>1. CASE EnqueueFirst
    BY <2>1, <1>1, EnqueueTypes DEF EnqueueFirst, DeliveryInv, TypeOK
  <2>2. CASE CreatorDies
    BY <2>2, WebhookAssumption DEF CreatorDies, Fault, DeliveryInv, TypeOK, arq
  <2> QED BY <2>1, <2>2
<1>3. /\ creator' = "done"
      /\ UNCHANGED <<status, attempts, due, kept, reclaims, swept, work>>
  BY DEF EnqueueFirst, CreatorDies, record, arq
<1>4. TypeOK'
  BY <1>2, <1>3 DEF DeliveryInv, TypeOK
<1>5. CreatedOnce' /\ AttemptsAreLeft'
  BY <1>3 DEF DeliveryInv, CreatedOnce, AttemptsAreLeft
<1>6. /\ LeaseHolds' /\ OneSenderAtATime' /\ AttemptIsNext' /\ RetryIsLeft'
      /\ AgeInFlight'
  BY <1>3 DEF DeliveryInv, LeaseHolds, OneSenderAtATime, AttemptIsNext,
              RetryIsLeft, AgeInFlight, InFlight
<1> QED BY <1>4, <1>5, <1>6 DEF DeliveryInv

\* The sweeper and ARQ's memory leave the row and the workers alone.
LEMMA QueueKeepsInv ==
  ASSUME DeliveryInv, Sweep \/ JobsExpire \/ ReclaimExpires \/ QueueLost
  PROVE  DeliveryInv'
<1>1. /\ queued' \in SUBSET JobIds /\ kept' \in SUBSET JobIds
      /\ swept' \in BOOLEAN
  BY DEF Sweep, JobsExpire, ReclaimExpires, QueueLost, DeliveryInv, TypeOK
<1>2. reclaims' \in 0 .. MaxReclaims /\ faults' \in 0 .. MaxFaults
  BY WebhookAssumption DEF Sweep, JobsExpire, ReclaimExpires, QueueLost, Fault, DeliveryInv, TypeOK
<1>3. UNCHANGED <<record, creator, defer, work>>
  BY DEF Sweep, JobsExpire, ReclaimExpires, QueueLost
<1>4. TypeOK'
  BY <1>1, <1>2, <1>3 DEF DeliveryInv, TypeOK, record
<1> QED BY <1>3, <1>4, WorkUntouched

\* Time brings the date and the age of a flight on together.
LEMMA TickKeepsInv ==
  ASSUME DeliveryInv, LeaseOutlastsAttempt, Tick
  PROVE  DeliveryInv'
<1>1. due' \in Nat /\ (due > 0 => due' = due - 1)
  BY DEF Tick, Sooner, DeliveryInv, TypeOK
<1>2. defer' \in [JobIds -> Nat]
  BY DEF Tick, Sooner, DeliveryInv, TypeOK
<1>3. \A w \in Workers :
        /\ work[w] \in Works /\ work'[w] \in Works
        /\ work'[w].pc = work[w].pc /\ work'[w].attempt = work[w].attempt
        /\ work[w].pc \in Sending => work'[w].age = work[w].age + 1
        /\ work[w].pc \notin Sending => work'[w] = work[w]
  <2> TAKE w \in Workers
  <2>1. work[w] \in Works
    BY DEF DeliveryInv, TypeOK
  <2>2. CASE work[w].pc \in Sending
    <3>1. work'[w] = [work[w] EXCEPT !.age = @ + 1]
      BY <2>2 DEF Tick
    <3>2. work[w].age + 1 \in 0 .. MaxSend
      BY <2>1, <2>2, WebhookAssumption DEF Tick, Works
    <3> QED BY <2>1, <2>2, <3>1, <3>2 DEF Works
  <2>3. CASE work[w].pc \notin Sending
    BY <2>1, <2>3 DEF Tick
  <2> QED BY <2>2, <2>3
<1>4. work' \in [Workers -> Works]
  BY <1>3 DEF Tick
<1>5. TypeOK'
  BY <1>1, <1>2, <1>4 DEF Tick, DeliveryInv, TypeOK
<1>6. CreatedOnce' /\ AttemptsAreLeft'
  BY DEF Tick, DeliveryInv, CreatedOnce, AttemptsAreLeft
<1>7. LeaseHolds'
  <2> SUFFICES ASSUME NEW w \in Workers, work'[w].pc \in Sending
               PROVE  status' = "pending" /\ due' + work'[w].age = Lease
    BY DEF LeaseHolds
  <2>1. w \in InFlight
    BY <1>3 DEF InFlight
  <2>2. due > 0 /\ status = "pending" /\ due + work[w].age = Lease
    BY <2>1, InFlightIsNotDue DEF DeliveryInv, LeaseHolds, InFlight
  <2>3. due \in Nat /\ work[w].age \in Nat
    BY <1>3 DEF DeliveryInv, TypeOK, Works
  <2> QED BY <2>1, <2>2, <2>3, <1>1, <1>3, WebhookAssumption DEF Tick, InFlight
<1>8. OneSenderAtATime' /\ AttemptIsNext' /\ RetryIsLeft' /\ AgeInFlight'
  BY <1>3 DEF Tick, DeliveryInv, OneSenderAtATime, AttemptIsNext, RetryIsLeft,
              AgeInFlight, InFlight
<1> QED BY <1>5, <1>6, <1>7, <1>8 DEF DeliveryInv

\* Every step keeps the invariant.
LEMMA DeliveryInvNext ==
  ASSUME LeaseOutlastsAttempt
  PROVE  DeliveryInv /\ [Next]_vars => DeliveryInv'
<1> SUFFICES ASSUME DeliveryInv, [Next]_vars PROVE DeliveryInv'
  OBVIOUS
<1>1. CASE Create
  BY <1>1, CreateKeepsInv
<1>2. CASE EnqueueFirst \/ CreatorDies
  BY <1>2, CreatorKeepsInv
<1>3. ASSUME NEW w \in Workers, TakeJob(w)
      PROVE  DeliveryInv'
  BY <1>3, TakeJobKeepsInv
<1>4. ASSUME NEW w \in Workers, Deliver(w)
      PROVE  DeliveryInv'
  BY <1>4, ClaimKeepsInv, FetchKeepsInv, SendKeepsInv, OutcomesKeepInv,
     EnqueueRetryKeepsInv DEF Deliver
<1>5. ASSUME NEW w \in Workers, Dies(w)
      PROVE  DeliveryInv'
  BY <1>5, DiesKeepsInv
<1>6. CASE Sweep \/ JobsExpire \/ ReclaimExpires \/ QueueLost
  BY <1>6, QueueKeepsInv
<1>7. CASE Tick
  BY <1>7, TickKeepsInv
<1>8. CASE UNCHANGED vars
  <2>1. TypeOK'
    BY <1>8 DEF DeliveryInv, TypeOK, vars, record, arq
  <2> QED BY <1>8, <2>1, WorkUntouched DEF vars
<1> QED BY <1>1, <1>2, <1>3, <1>4, <1>5, <1>6, <1>7, <1>8 DEF Next

\* Hence it always holds.
LEMMA DeliveryInvAlways ==
  ASSUME LeaseOutlastsAttempt
  PROVE  Spec => []DeliveryInv
BY DeliveryInvInit, DeliveryInvNext, PTL DEF Spec

-----------------------------------------------------------------------------
(* The theorems.                                                           *)

\* The row, the queue and the workers keep their types; in particular no
\* attempt is ever counted beyond the last.
THEOREM DeliveryTypes ==
  ASSUME LeaseOutlastsAttempt
  PROVE  Spec => []TypeOK
<1>1. DeliveryInv => TypeOK
  BY DEF DeliveryInv
<1> QED BY <1>1, DeliveryInvAlways, PTL

\* Duplicate jobs, reruns and the sweeper never make two workers send the
\* delivery at a time.
THEOREM NeverTwoSenders ==
  ASSUME LeaseOutlastsAttempt
  PROVE  Spec => []OneSenderAtATime
<1>1. DeliveryInv => OneSenderAtATime
  BY DEF DeliveryInv
<1> QED BY <1>1, DeliveryInvAlways, PTL

\* What was recorded of the delivery is not undone by any step.
LEMMA StepKeepsProgress ==
  ASSUME DeliveryInv, [Next]_vars
  PROVE  [/\ status \in Final => status' = status
          /\ attempts' >= attempts]_vars
<1>1. attempts \in Nat
  BY DEF DeliveryInv, TypeOK
<1>2. ASSUME NEW w \in Workers, work[w].pc \in Sending \ {"claimed"}
      PROVE  status = "pending" /\ work[w].attempt = attempts + 1
  BY <1>2 DEF DeliveryInv, LeaseHolds, AttemptIsNext
<1>3. CASE Create
  BY <1>1, <1>3 DEF Create, DeliveryInv, CreatedOnce, Final
<1>4. ASSUME NEW w \in Workers,
             RecordSuccess(w) \/ DeadLetter(w) \/ ScheduleRetry(w)
      PROVE  status = "pending" /\ attempts' >= attempts
  BY <1>1, <1>2, <1>4 DEF RecordSuccess, DeadLetter, ScheduleRetry, Record, Sending
<1>5. \/ Create
      \/ \E w \in Workers : RecordSuccess(w) \/ DeadLetter(w) \/ ScheduleRetry(w)
      \/ UNCHANGED <<status, attempts>>
  BY DEF Next, EnqueueFirst, CreatorDies, TakeJob, Deliver, Claim, Fetch, Send,
         EnqueueRetry, Dies, Sweep, JobsExpire, ReclaimExpires, QueueLost, Tick, record, vars
<1> QED BY <1>1, <1>3, <1>4, <1>5 DEF Final

\* A delivery that has ended is not reopened, and no attempt is uncounted.
THEOREM ProgressIsKept ==
  ASSUME LeaseOutlastsAttempt
  PROVE  Spec => RecordKeepsProgress
<1>1. DeliveryInv /\ [Next]_vars => [/\ status \in Final => status' = status
                                     /\ attempts' >= attempts]_vars
  BY StepKeepsProgress
<1> QED BY <1>1, DeliveryInvAlways, PTL DEF Spec, RecordKeepsProgress
=============================================================================
