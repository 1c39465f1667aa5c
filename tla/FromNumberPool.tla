--------------------------- MODULE FromNumberPool ---------------------------
(***************************************************************************)
(* The pool of caller ids of one (organization, telephony configuration):  *)
(* the Redis sorted set from_number_pool:<org>:<config>, whose score is 0  *)
(* for a free number and the time of acquisition for one in use, and the   *)
(* per-run hash workflow_from_number:<run> by which a finished call's      *)
(* cleanup finds the number again.  RateLimiter keeps both; the campaign   *)
(* dispatcher acquires and releases, in the dispatching task and in every  *)
(* status callback.                                                        *)
(*                                                                         *)
(* Time is in ticks.  A Redis command or script is one atomic step, and    *)
(* between two of them everything interleaves, fails, or is cut off.       *)
(***************************************************************************)
EXTENDS Integers, FiniteSets

CONSTANTS
  Numbers,       \* from_numbers of the telephony configuration
  Calls,         \* campaign calls, each with a workflow run of its own
  Callbacks,     \* workers serving status callbacks
  NoNumber,
  StaleTimeout,  \* stale_call_timeout
  MappingTtl,    \* EXPIRE of workflow_from_number:<run>
  PoolTtl,       \* EXPIRE of the pool, renewed only by its initialization
  BatchLength,   \* ticks a batch keeps acquiring numbers after it initialized
  MaxCall,       \* ticks from picking a number to the end of its call
  MaxLate,       \* ticks after its end in which a call still gets callbacks
  Repeated,      \* whether a call may get more than one terminal callback
  PromptRelease  \* whether a release ends or fails within the tick it began

ASSUME NumbersAssumption ==
  /\ NoNumber \notin Numbers \cup Calls /\ Calls \cap Callbacks = {}
  /\ Repeated \in BOOLEAN /\ PromptRelease \in BOOLEAN

ASSUME TimesAssumption ==
  /\ StaleTimeout \in Nat \ {0} /\ MappingTtl \in Nat \ {0}
  /\ PoolTtl \in Nat \ {0} /\ BatchLength \in Nat
  /\ MaxCall \in Nat /\ MaxLate \in Nat

VARIABLES
  pool,      \* the members of the sorted set
  free,      \* those whose score is 0
  age,       \* now - score of the others
  poolTtl,   \* what is left of the pool's EXPIRE
  batchAge,  \* ticks since the running batch initialized the pool
  phase,     \* where each call stands
  late,      \* ticks since each call ended, MaxLate + 1: no more callbacks
  number,    \* the number its dispatcher was given
  mapping,   \* workflow_from_number:<run> of each call
  mapTtl,    \* what is left of that mapping's EXPIRE
  job        \* the release each worker is in the middle of

vars == <<pool, free, age, poolTtl, batchAge, phase, late, number,
          mapping, mapTtl, job>>
redis == <<pool, free, poolTtl, mapping, mapTtl>>

-----------------------------------------------------------------------------
Workers == Calls \cup Callbacks

Phases == {"queued",  \* not dispatched yet
           "picked",  \* has a number, no mapping stored
           "placed",  \* dialed out from that number
           "over",    \* the call has ended, or could not be placed
           "failed"}  \* dispatch gave up before placing it

Jobs == [step : {"idle", "read", "free", "forget"},
         call : Calls \cup {NoNumber}, number : Numbers \cup {NoNumber}]

Idle == [step |-> "idle", call |-> NoNumber, number |-> NoNumber]

\* release_call_slot(run): the number is whatever the mapping says.
ReleaseByRun(c) == [step |-> "read", call |-> c, number |-> NoNumber]

\* release_from_number(number) by a dispatcher that never stored a mapping.
ReleaseNumber(n) == [step |-> "free", call |-> NoNumber, number |-> n]

TypeOK ==
  /\ pool \in SUBSET Numbers /\ free \in SUBSET pool
  /\ age \in [Numbers -> 0 .. StaleTimeout]
  /\ poolTtl \in 0 .. PoolTtl /\ batchAge \in 0 .. BatchLength + 1
  /\ phase \in [Calls -> Phases]
  /\ late \in [Calls -> 0 .. MaxLate + 1]
  /\ number \in [Calls -> Numbers \cup {NoNumber}]
  /\ mapping \in [Calls -> Numbers \cup {NoNumber}]
  /\ mapTtl \in [Calls -> 0 .. MappingTtl]
  /\ job \in [Workers -> Jobs]

Init ==
  /\ pool = {} /\ free = {} /\ age = [n \in Numbers |-> 0]
  /\ poolTtl = 0 /\ batchAge = BatchLength + 1
  /\ phase = [c \in Calls |-> "queued"]
  /\ late = [c \in Calls |-> 0]
  /\ number = [c \in Calls |-> NoNumber]
  /\ mapping = [c \in Calls |-> NoNumber] /\ mapTtl = [c \in Calls |-> 0]
  /\ job = [w \in Workers |-> Idle]

-----------------------------------------------------------------------------

\* process_batch initializes the pool: ZADD NX, then EXPIRE.
StartBatch ==
  /\ pool' = pool \cup Numbers
  /\ free' = free \cup (Numbers \ pool)
  /\ poolTtl' = PoolTtl /\ batchAge' = 0
  /\ UNCHANGED <<age, phase, late, number, mapping, mapTtl, job>>

StaleIgnored == {}

\* Numbers in use for so long that their release must have been lost.
Stale == {n \in pool \ free : age[n] >= StaleTimeout}

AvailableAnyMember == pool

\* What the acquire script may choose from, after returning the stale ones.
Available == free \cup Stale

\* acquire_from_number, until the script returns a number.  A reply that is
\* lost leaves the number in use and nobody to give it back.
PickNumber(c) ==
  /\ phase[c] = "queued"
  /\ batchAge <= BatchLength
  /\ \E n \in Available :
       /\ free' = Available \ {n}
       /\ age' = [age EXCEPT ![n] = 0]
       /\ \/ /\ phase' = [phase EXCEPT ![c] = "picked"]
             /\ number' = [number EXCEPT ![c] = n]
          \/ /\ phase' = [phase EXCEPT ![c] = "failed"]
             /\ UNCHANGED number
  /\ UNCHANGED <<pool, poolTtl, batchAge, late, mapping, mapTtl, job>>

\* PhoneNumberPoolExhaustedError, after polling for the whole timeout.
PoolExhausted(c) ==
  /\ phase[c] = "queued" /\ batchAge <= BatchLength
  /\ Available = {}
  /\ phase' = [phase EXCEPT ![c] = "failed"]
  /\ UNCHANGED <<redis, age, batchAge, late, number, job>>

\* The run is created and bound and the mapping stored - or not stored: the
\* result of store_workflow_from_number_mapping is not looked at - and dialed.
PlaceCall(c) ==
  /\ phase[c] = "picked"
  /\ phase' = [phase EXCEPT ![c] = "placed"]
  /\ \/ /\ mapping' = [mapping EXCEPT ![c] = number[c]]
        /\ mapTtl' = [mapTtl EXCEPT ![c] = MappingTtl]
     \/ UNCHANGED <<mapping, mapTtl>>
  /\ UNCHANGED <<pool, free, age, poolTtl, batchAge, late, number, job>>

\* Creating or binding the run fails: the dispatcher gives the number back
\* itself, unless it is cancelled, which no handler of dispatch_call catches.
DispatchFails(c) ==
  /\ phase[c] = "picked"
  /\ phase' = [phase EXCEPT ![c] = "failed"]
  /\ \/ job' = [job EXCEPT ![c] = ReleaseNumber(number[c])]
     \/ UNCHANGED job
  /\ UNCHANGED <<redis, age, batchAge, late, number>>

\* initiate_call raises: release_call_slot runs in the dispatcher itself.
PlacingFails(c) ==
  /\ phase[c] = "placed"
  /\ phase' = [phase EXCEPT ![c] = "failed"]
  /\ job' = [job EXCEPT ![c] = ReleaseByRun(c)]
  /\ UNCHANGED <<redis, age, batchAge, late, number>>

\* The call ends.  The pipeline's own teardown leaves the number alone.
EndCall(c) ==
  /\ phase[c] = "placed"
  /\ phase' = [phase EXCEPT ![c] = "over"]
  /\ UNCHANGED <<redis, age, batchAge, late, number, job>>

\* A terminal status callback: release_call_slot runs in whichever worker
\* serves it.  Providers repeat these callbacks and deliver them late.
Callback(k, c) ==
  /\ job[k] = Idle
  /\ phase[c] = "over" /\ late[c] <= MaxLate
  /\ job' = [job EXCEPT ![k] = ReleaseByRun(c)]
  /\ late' = IF Repeated THEN late ELSE [late EXCEPT ![c] = MaxLate + 1]
  /\ UNCHANGED <<redis, age, batchAge, phase, number>>

-----------------------------------------------------------------------------
(* release_call_slot's second half, one Redis command per step.            *)

ReadMapping(w) ==
  /\ job[w].step = "read"
  /\ LET n == mapping[job[w].call] IN
     job' = [job EXCEPT ![w] = IF n = NoNumber THEN Idle
                               ELSE [@ EXCEPT !.step = "free", !.number = n]]
  /\ UNCHANGED <<redis, age, batchAge, phase, late, number>>

\* The script zeroes the score of any member, whoever has it by now.
FreeNumber(w) ==
  /\ job[w].step = "free"
  /\ free' = free \cup ({job[w].number} \cap pool)
  /\ job' = [job EXCEPT ![w] = IF job[w].number \in pool /\ job[w].call # NoNumber
                               THEN [@ EXCEPT !.step = "forget"] ELSE Idle]
  /\ UNCHANGED <<pool, age, poolTtl, batchAge, phase, late, number, mapping, mapTtl>>

ForgetMapping(w) ==
  /\ job[w].step = "forget"
  /\ mapping' = [mapping EXCEPT ![job[w].call] = NoNumber]
  /\ mapTtl' = [mapTtl EXCEPT ![job[w].call] = 0]
  /\ job' = [job EXCEPT ![w] = Idle]
  /\ UNCHANGED <<pool, free, age, poolTtl, batchAge, phase, late, number>>

\* A Redis error, a cancellation or a crash ends the release.
Interrupt(w) ==
  /\ job[w].step # "idle"
  /\ job' = [job EXCEPT ![w] = Idle]
  /\ UNCHANGED <<redis, age, batchAge, phase, late, number>>

-----------------------------------------------------------------------------
\* A call whose own number is this old has reached its max_call_duration.
Overdue(c) == phase[c] \in {"picked", "placed"} /\ age[number[c]] >= MaxCall

Older(n) == IF age[n] < StaleTimeout THEN age[n] + 1 ELSE age[n]

Tick ==
  /\ \A c \in Calls : ~Overdue(c)
  /\ PromptRelease => \A w \in Workers : job[w] = Idle
  /\ age' = [n \in Numbers |-> IF n \in pool \ free THEN Older(n) ELSE 0]
  /\ poolTtl' = IF poolTtl = 0 THEN 0 ELSE poolTtl - 1
  /\ pool' = IF poolTtl <= 1 THEN {} ELSE pool
  /\ free' = IF poolTtl <= 1 THEN {} ELSE free
  /\ batchAge' = IF batchAge > BatchLength THEN batchAge ELSE batchAge + 1
  /\ mapTtl' = [c \in Calls |-> IF mapTtl[c] = 0 THEN 0 ELSE mapTtl[c] - 1]
  /\ mapping' = [c \in Calls |-> IF mapTtl[c] <= 1 THEN NoNumber ELSE mapping[c]]
  /\ late' = [c \in Calls |-> IF phase[c] = "over" /\ late[c] <= MaxLate
                             THEN late[c] + 1 ELSE late[c]]
  /\ UNCHANGED <<phase, number, job>>

Dispatcher(c) == \/ PickNumber(c) \/ PoolExhausted(c) \/ PlaceCall(c)
                 \/ DispatchFails(c) \/ PlacingFails(c) \/ EndCall(c)

Release(w) == ReadMapping(w) \/ FreeNumber(w) \/ ForgetMapping(w) \/ Interrupt(w)

Next == \/ StartBatch
        \/ \E c \in Calls : Dispatcher(c)
        \/ \E k \in Callbacks, c \in Calls : Callback(k, c)
        \/ \E w \in Workers : Release(w)
        \/ Tick

Spec == Init /\ [][Next]_vars

\* Time passes, calls end by their deadline, and a release ends, done or cut off.
FairSpec ==
  /\ Spec /\ WF_vars(Tick)
  /\ \A w \in Workers : WF_vars(Release(w))
  /\ \A c \in Calls : WF_vars(PlaceCall(c) \/ DispatchFails(c)) /\ WF_vars(PlacingFails(c) \/ EndCall(c))

-----------------------------------------------------------------------------
Calling == {c \in Calls : phase[c] \in {"picked", "placed"}}

\* No two calls in progress are made from one number (campaign dispatcher:283,
\* "Acquire a unique from_number"; rate_limiter.py:434 and :514 promise that
\* neither initializing the pool nor releasing twice disturbs a number in use).
NumbersNotShared ==
  \A c, d \in Calling : number[c] = number[d] => c = d

\* A pool with nothing to offer offers something again or is initialized
\* afresh, even when every release is lost.
PoolRecovers ==
  (pool # {} /\ Available = {}) ~> (Available # {} \/ pool = {})
=============================================================================
