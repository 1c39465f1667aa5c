------------------------------ MODULE CallSlots ------------------------------
(***************************************************************************)
(* The Redis-backed concurrency slots that cap how many calls an           *)
(* organization (and optionally one campaign of it, its "scope") runs at   *)
(* once: RateLimiter and CallConcurrencyService in                         *)
(* dograh/api/services/call_concurrency, with the callers that acquire,    *)
(* bind and release a slot (telephony, WebRTC and agent-stream routes, the *)
(* campaign dispatcher, the ARI manager, the pipeline's finally blocks and *)
(* the provider status callbacks).                                         *)
(*                                                                         *)
(* One attempt is one evaluation of the acquire script under one slot_id,  *)
(* with the call that uses the slot; a caller that polls again after a     *)
(* refusal evaluates the same script, one that polls after a lost reply is *)
(* another attempt because it draws another slot_id.  Every Redis command  *)
(* or script is one atomic step; everything between two of them            *)
(* interleaves, may fail, and may be cut off by a cancellation or a crash. *)
(*                                                                         *)
(* Time is the age of each slot in ticks, saturating at stale_call_timeout *)
(* (a slot exactly that old is pruned but still in the fleet's ZCOUNT: an  *)
(* instant that ticks do not resolve).  The one-hour EXPIRE of the sorted sets is   *)
(* left out: it outlasts stale_call_timeout, so a key that it removes      *)
(* holds only entries that every reader already ignores.                   *)
(***************************************************************************)
EXTENDS Integers, FiniteSets

CONSTANTS
  Orgs, Scopes,     \* organization ids, and scope keys such as campaign:<id>
  Runs,             \* workflow run ids
  Attempts,         \* slot ids, with the call each one admits
  Callbacks,        \* workers serving provider status callbacks
  OrgOf, ScopeOf, RunOf,  \* what each attempt was made for
  OrgLimit,         \* CONCURRENT_CALL_LIMIT of each organization
  ScopeLimit,       \* max_concurrency of each campaign
  StaleTimeout,     \* stale_call_timeout, in ticks
  MaxSetup,         \* ticks a call may take from its slot to its media pipeline
  MaxCall,          \* max_call_duration, in ticks from the pipeline's start
  PromptRelease,    \* whether a release ends or fails within the tick it began
  NoScope, NoRun, NoSlot  \* an absent scope, run, slot

ASSUME SetsAssumption ==
  /\ NoScope \notin Scopes /\ NoRun \notin Runs /\ NoSlot \notin Attempts
  /\ Attempts \cap Callbacks = {}
  /\ IsFiniteSet(Attempts)

ASSUME CallersAssumption ==
  /\ OrgOf \in [Attempts -> Orgs]
  /\ ScopeOf \in [Attempts -> Scopes \cup {NoScope}]
  /\ RunOf \in [Attempts -> Runs]

ASSUME LimitsAssumption ==
  /\ OrgLimit \in [Orgs -> Nat]
  /\ ScopeLimit \in [Scopes -> Nat]
  /\ StaleTimeout \in Nat \ {0} /\ MaxSetup \in Nat /\ MaxCall \in Nat
  /\ PromptRelease \in BOOLEAN

VARIABLES
  orgSet,    \* concurrent_calls:<org>, as the set of its slot ids
  scopeSet,  \* concurrent_calls:<scope>
  fleet,     \* concurrent_calls_fleet
  age,       \* now - score of each slot
  mapping,   \* workflow_slot_mapping:<run>
  ttl,       \* what is left of the mapping's EXPIRE
  phase,     \* where each attempt's caller stands
  callAge,   \* ticks since the attempt's pipeline saw its StartFrame
  job        \* the release each worker is in the middle of

vars == <<orgSet, scopeSet, fleet, age, mapping, ttl, phase, callAge, job>>
redis == <<orgSet, scopeSet, fleet, mapping, ttl>>

-----------------------------------------------------------------------------
(* Types.                                                                  *)

Workers == Attempts \cup Callbacks

Phases == {"waiting",  \* polling for a slot
           "refused",  \* ended without a bound slot
           "held",     \* slot acquired, no workflow run bound to it yet
           "bound",    \* run bound, the call is being placed
           "live",     \* the media pipeline is running
           "over"}     \* the call has ended

Steps == {"idle", "read", "org", "fleet", "scope", "map"}

Jobs == [step : Steps, run : Runs \cup {NoRun}, slot : Attempts \cup {NoSlot}]

Idle == [step |-> "idle", run |-> NoRun, slot |-> NoSlot]

\* release_slot(slot): the caller knows the slot, and touches no mapping.
ReleaseOf(s) == [step |-> "org", run |-> NoRun, slot |-> s]

\* release_workflow_run_slot(run): the slot is whatever the mapping says.
ReleaseByRun(r) == [step |-> "read", run |-> r, slot |-> NoSlot]

TypeOK ==
  /\ orgSet \in [Orgs -> SUBSET Attempts]
  /\ scopeSet \in [Scopes -> SUBSET Attempts]
  /\ fleet \in SUBSET Attempts
  /\ age \in [Attempts -> 0 .. StaleTimeout]
  /\ mapping \in [Runs -> Attempts \cup {NoSlot}]
  /\ ttl \in [Runs -> 0 .. StaleTimeout]
  /\ phase \in [Attempts -> Phases]
  /\ callAge \in [Attempts -> 0 .. MaxCall]
  /\ job \in [Workers -> Jobs]

Init ==
  /\ orgSet = [o \in Orgs |-> {}]
  /\ scopeSet = [c \in Scopes |-> {}]
  /\ fleet = {}
  /\ age = [a \in Attempts |-> 0]
  /\ mapping = [r \in Runs |-> NoSlot]
  /\ ttl = [r \in Runs |-> 0]
  /\ phase = [a \in Attempts |-> "waiting"]
  /\ callAge = [a \in Attempts |-> 0]
  /\ job = [w \in Workers |-> Idle]

-----------------------------------------------------------------------------
(* Acquiring: one Lua script over the three sorted sets.                   *)

UnexpiredNever(S) == S
UnexpiredTooSoon(S) == {s \in S : age[s] < StaleTimeout - MaxCall}

\* What ZREMRANGEBYSCORE(key, 0, now - stale_call_timeout) leaves of a set.
Unexpired(S) == {s \in S : age[s] < StaleTimeout}

OrgFullOffByOne(a) ==
  Cardinality(Unexpired(orgSet[OrgOf[a]])) > OrgLimit[OrgOf[a]]

OrgFull(a) == Cardinality(Unexpired(orgSet[OrgOf[a]])) >= OrgLimit[OrgOf[a]]

ScopeFull(a) ==
  /\ ScopeOf[a] # NoScope
  /\ Cardinality(Unexpired(scopeSet[ScopeOf[a]])) >= ScopeLimit[ScopeOf[a]]

AdmitScopedOutsideFleet(a) ==
  /\ ~OrgFull(a) /\ ~ScopeFull(a)
  /\ orgSet' = [orgSet EXCEPT ![OrgOf[a]] = Unexpired(@) \cup {a}]
  /\ scopeSet' = [c \in Scopes |-> IF c = ScopeOf[a]
                                   THEN Unexpired(scopeSet[c]) \cup {a}
                                   ELSE scopeSet[c]]
  /\ fleet' = Unexpired(fleet) \cup (IF ScopeOf[a] = NoScope THEN {a} ELSE {})

\* The script's writes once both counters have room.
Admit(a) ==
  /\ ~OrgFull(a) /\ ~ScopeFull(a)
  /\ orgSet' = [orgSet EXCEPT ![OrgOf[a]] = Unexpired(@) \cup {a}]
  /\ scopeSet' = [c \in Scopes |-> IF c = ScopeOf[a]
                                   THEN Unexpired(scopeSet[c]) \cup {a}
                                   ELSE scopeSet[c]]
  /\ fleet' = Unexpired(fleet) \cup {a}

\* try_acquire_concurrent_slot_details returns an acquisition, or the script
\* ran but its reply was lost, which the caller sees as a refusal.
Acquire(a) ==
  /\ phase[a] = "waiting"
  /\ Admit(a)
  /\ \E answer \in {"held", "refused"} : phase' = [phase EXCEPT ![a] = answer]
  /\ UNCHANGED <<age, mapping, ttl, callAge, job>>

\* The limit is reached: the script has pruned what it looked at, and the
\* caller polls again or gives up with CallConcurrencyLimitError.
Refuse(a) ==
  /\ phase[a] = "waiting"
  /\ OrgFull(a) \/ ScopeFull(a)
  /\ orgSet' = [orgSet EXCEPT ![OrgOf[a]] = Unexpired(@)]
  /\ scopeSet' = [c \in Scopes |-> IF c = ScopeOf[a] /\ ~OrgFull(a)
                                   THEN Unexpired(scopeSet[c])
                                   ELSE scopeSet[c]]
  /\ \E answer \in {"waiting", "refused"} : phase' = [phase EXCEPT ![a] = answer]
  /\ UNCHANGED <<fleet, age, mapping, ttl, callAge, job>>

-----------------------------------------------------------------------------
(* Binding the slot to a workflow run, and the call itself.                *)

\* store_workflow_slot_mapping_if_absent finds no mapping and stores one.
Store(a) ==
  /\ mapping[RunOf[a]] = NoSlot
  /\ mapping' = [mapping EXCEPT ![RunOf[a]] = a]
  /\ ttl' = [ttl EXCEPT ![RunOf[a]] = StaleTimeout]

\* bind_workflow_run stores the mapping.
Bind(a) ==
  /\ phase[a] = "held"
  /\ Store(a)
  /\ phase' = [phase EXCEPT ![a] = "bound"]
  /\ UNCHANGED <<orgSet, scopeSet, fleet, age, callAge, job>>

\* bind_workflow_run hears False - the run is already bound, the script failed
\* or its reply was lost - or the caller fails before binding: either way it
\* releases the slot it holds.
BindFails(a) ==
  /\ phase[a] = "held"
  /\ Store(a) \/ UNCHANGED <<mapping, ttl>>
  /\ phase' = [phase EXCEPT ![a] = "refused"]
  /\ job' = [job EXCEPT ![a] = ReleaseOf(a)]
  /\ UNCHANGED <<orgSet, scopeSet, fleet, age, callAge>>

\* The caller is cancelled or its process dies while it holds the slot: the
\* handlers catch Exception, not CancelledError, and nobody releases.
Abandon(a) ==
  /\ phase[a] = "held"
  /\ phase' = [phase EXCEPT ![a] = "refused"]
  /\ UNCHANGED <<redis, age, callAge, job>>

\* The pipeline's StartFrame starts the max_call_duration clock.
Connect(a) ==
  /\ phase[a] = "bound"
  /\ phase' = [phase EXCEPT ![a] = "live"]
  /\ UNCHANGED <<redis, age, callAge, job>>

\* The call is never answered.  When placing it failed, the caller releases by
\* run; when it rang out, only the provider's status callback will.
NotConnected(a) ==
  /\ phase[a] = "bound"
  /\ phase' = [phase EXCEPT ![a] = "over"]
  /\ \/ job' = [job EXCEPT ![a] = ReleaseByRun(RunOf[a])]
     \/ UNCHANGED job
  /\ UNCHANGED <<redis, age, callAge>>

\* The call ends and the pipeline's finally block unregisters it.
HangUp(a) ==
  /\ phase[a] = "live"
  /\ phase' = [phase EXCEPT ![a] = "over"]
  /\ job' = [job EXCEPT ![a] = ReleaseByRun(RunOf[a])]
  /\ UNCHANGED <<redis, age, callAge>>

CallbackInFlight(k, a) ==
  /\ job[k] = Idle
  /\ phase[a] \in {"live", "over"}
  /\ job' = [job EXCEPT ![k] = ReleaseByRun(RunOf[a])]
  /\ UNCHANGED <<redis, age, phase, callAge>>

\* A terminal status callback (or CDR, or StasisEnd) for a call that has
\* ended; providers repeat and delay them.
Callback(k, a) ==
  /\ job[k] = Idle
  /\ phase[a] = "over"
  /\ job' = [job EXCEPT ![k] = ReleaseByRun(RunOf[a])]
  /\ UNCHANGED <<redis, age, phase, callAge>>

-----------------------------------------------------------------------------
(* Releasing: one awaited Redis command per step.                          *)

Goto(w, next) == job' = [job EXCEPT ![w] = IF next = "idle" THEN Idle
                                           ELSE [@ EXCEPT !.step = next]]

\* What follows the release proper: only a release by run drops the mapping.
AfterRelease(w) == IF job[w].run = NoRun THEN "idle" ELSE "map"

ReadMapping(w) ==
  /\ job[w].step = "read"
  /\ LET s == mapping[job[w].run] IN
     job' = [job EXCEPT ![w] = IF s = NoSlot THEN Idle
                               ELSE [@ EXCEPT !.step = "org", !.slot = s]]
  /\ UNCHANGED <<redis, age, phase, callAge>>

RemoveFromOrg(w) ==
  /\ job[w].step = "org"
  /\ orgSet' = [orgSet EXCEPT ![OrgOf[job[w].slot]] = @ \ {job[w].slot}]
  /\ Goto(w, "fleet")
  /\ UNCHANGED <<scopeSet, fleet, age, mapping, ttl, phase, callAge>>

RemoveFromFleet(w) ==
  /\ job[w].step = "fleet"
  /\ fleet' = fleet \ {job[w].slot}
  /\ Goto(w, IF ScopeOf[job[w].slot] = NoScope THEN AfterRelease(w) ELSE "scope")
  /\ UNCHANGED <<orgSet, scopeSet, age, mapping, ttl, phase, callAge>>

RemoveFromScope(w) ==
  /\ job[w].step = "scope"
  /\ scopeSet' = [scopeSet EXCEPT ![ScopeOf[job[w].slot]] = @ \ {job[w].slot}]
  /\ Goto(w, AfterRelease(w))
  /\ UNCHANGED <<orgSet, fleet, age, mapping, ttl, phase, callAge>>

\* delete_workflow_slot_mapping, whatever the mapping says by now.
DeleteMapping(w) ==
  /\ job[w].step = "map"
  /\ mapping' = [mapping EXCEPT ![job[w].run] = NoSlot]
  /\ ttl' = [ttl EXCEPT ![job[w].run] = 0]
  /\ Goto(w, "idle")
  /\ UNCHANGED <<orgSet, scopeSet, fleet, age, phase, callAge>>

InterruptDroppingMapping(w) ==
  /\ job[w].step # "idle"
  /\ Goto(w, "idle")
  /\ mapping' = IF job[w].run = NoRun THEN mapping
                ELSE [mapping EXCEPT ![job[w].run] = NoSlot]
  /\ UNCHANGED <<orgSet, scopeSet, fleet, ttl, age, phase, callAge>>

\* A Redis error (None: the mapping is kept), a cancellation or a crash ends
\* the release at any command.  A command whose reply is lost is that command
\* followed by this step.
Interrupt(w) ==
  /\ job[w].step # "idle"
  /\ Goto(w, "idle")
  /\ UNCHANGED <<redis, age, phase, callAge>>

-----------------------------------------------------------------------------
(* Time.  A tick waits for what the code bounds: a pipeline ends at its     *)
(* max_call_duration, and a call is connected or given up within MaxSetup. *)
(* Nothing in the code bounds a release (the Redis client has no timeout):  *)
(* PromptRelease is for the runs that say what that would cost.             *)

OverdueNever(a) == FALSE

Overdue(a) == \/ phase[a] = "live" /\ callAge[a] >= MaxCall
              \/ phase[a] \in {"held", "bound"} /\ age[a] >= MaxSetup

\* A slot some sorted set still holds: only these have a score to age.
Scored(a) == \/ a \in fleet
             \/ a \in orgSet[OrgOf[a]]
             \/ ScopeOf[a] # NoScope /\ a \in scopeSet[ScopeOf[a]]

Older(a) == IF age[a] < StaleTimeout THEN age[a] + 1 ELSE age[a]

\* Ages every slot that exists; a mapping whose EXPIRE runs out is gone.
Tick ==
  /\ \A a \in Attempts : ~Overdue(a)
  /\ PromptRelease => \A w \in Workers : job[w] = Idle
  /\ age' = [a \in Attempts |-> IF Scored(a) THEN Older(a) ELSE 0]
  /\ callAge' = [a \in Attempts |-> IF phase[a] = "live" THEN callAge[a] + 1
                                    ELSE 0]
  /\ ttl' = [r \in Runs |-> IF ttl[r] = 0 THEN 0 ELSE ttl[r] - 1]
  /\ mapping' = [r \in Runs |-> IF ttl[r] <= 1 THEN NoSlot ELSE mapping[r]]
  /\ UNCHANGED <<orgSet, scopeSet, fleet, phase, job>>

-----------------------------------------------------------------------------
Caller(a) == \/ Acquire(a) \/ Refuse(a) \/ Bind(a) \/ BindFails(a) \/ Abandon(a)
             \/ Connect(a) \/ NotConnected(a) \/ HangUp(a)

Release(w) == \/ ReadMapping(w) \/ RemoveFromOrg(w) \/ RemoveFromFleet(w)
              \/ RemoveFromScope(w) \/ DeleteMapping(w) \/ Interrupt(w)

Next == \/ \E a \in Attempts : Caller(a)
        \/ \E k \in Callbacks, a \in Attempts : Callback(k, a)
        \/ \E w \in Workers : Release(w)
        \/ Tick

Spec == Init /\ [][Next]_vars

\* Time passes, a caller that holds a slot gets on with it, and a pipeline ends
\* at its deadline.  No release is assumed ever to run.
Fairness ==
  /\ WF_vars(Tick)
  /\ \A a \in Attempts : /\ WF_vars(Bind(a) \/ BindFails(a) \/ Abandon(a))
                         /\ WF_vars(Connect(a) \/ NotConnected(a))
                         /\ WF_vars(HangUp(a))

FairSpec == Spec /\ Fairness

-----------------------------------------------------------------------------
(* Properties.                                                             *)

Live == {a \in Attempts : phase[a] = "live"}

\* The counters never exceed their limits (rate_limiter.py:26, "enforce strict
\* ... concurrent call limits"), though entries are pruned lazily and releases
\* are torn into single commands.
CountersWithinLimits ==
  /\ \A o \in Orgs : Cardinality(orgSet[o]) <= OrgLimit[o]
  /\ \A c \in Scopes : Cardinality(scopeSet[c]) <= ScopeLimit[c]

\* What the counters are for: the calls really in progress never exceed the
\* limits, i.e. no live call's slot is released, expired or reused under it.
LiveCallsWithinLimits ==
  /\ \A o \in Orgs : Cardinality({a \in Live : OrgOf[a] = o}) <= OrgLimit[o]
  /\ \A c \in Scopes : Cardinality({a \in Live : ScopeOf[a] = c}) <= ScopeLimit[c]

\* A call in progress keeps an unexpired entry in every set it is counted in:
\* nothing - a late callback, another attempt's cleanup, the stale timeout -
\* takes the slot from under it.
LiveCallKeepsItsSlot ==
  \A a \in Live :
    /\ a \in Unexpired(orgSet[OrgOf[a]])
    /\ a \in Unexpired(fleet)
    /\ ScopeOf[a] # NoScope => a \in Unexpired(scopeSet[ScopeOf[a]])

\* The autoscaling count: ZCOUNT(fleet, now - stale_call_timeout, +inf).
FleetCount == Cardinality(Unexpired(fleet))

\* The autoscaling signal never undercounts: the fleet has every call that an
\* organization still counts, in every intermediate state of a release.
FleetCoversOrgs ==
  /\ \A o \in Orgs : Unexpired(orgSet[o]) \subseteq fleet
  /\ Cardinality(Live) <= FleetCount

\* No bound slot is orphaned: while any counter still counts the slot of a run
\* that was bound, the run's mapping leads to it, so the next cleanup path can
\* release it, however the earlier ones were cut off (service.py:239).
CountedSlotIsReachable ==
  \A a \in Attempts :
    /\ phase[a] \in {"bound", "live", "over"}
    /\ age[a] < StaleTimeout
    /\ Scored(a)
    => mapping[RunOf[a]] = a

\* A release works on a slot whose call has ended, from the moment it has read
\* the mapping until it has deleted it, never on one in use.
ReleasesOnlyEndedCalls ==
  \A w \in Workers : job[w].slot \in Attempts
                       => phase[job[w].slot] \in {"over", "refused"}

\* An organization at its limit always gets below it again, even if every
\* release is cut off: leaked slots drain with the stale timeout.
LimitAlwaysClears ==
  \A a \in Attempts : OrgLimit[OrgOf[a]] > 0 => (OrgFull(a) ~> ~OrgFull(a))

\* The slots an organization still counts.
Permits == {a \in Attempts : a \in Unexpired(orgSet[OrgOf[a]])}

Admission == INSTANCE CallAdmission WITH
  Calls <- Attempts, permits <- Permits, talking <- Live

\* The torn, expiring, retried Redis protocol implements plain admission
\* control: permits within both limits, kept for as long as a call talks.
ImplementsAdmission == Admission!Spec
=============================================================================
