---------------------------- MODULE CallSlotsProofs ----------------------------
(***************************************************************************)
(* What holds of CallSlots for every number of organizations, campaigns,   *)
(* calls and callbacks, and every limit.  TypeOK and CountersWithinLimits  *)
(* need no more than the module's own assumptions.  That a call keeps its  *)
(* slot until it ends, that a counted slot is found, and that CallSlots    *)
(* implements CallAdmission need two facts about how the service is used,  *)
(* which are named here and assumed where they are needed.                 *)
(***************************************************************************)
EXTENDS CallSlots, FiniteSetTheorems, TLAPS

\* No two attempts are made for one workflow run.
RunsAreFresh == \A a, b \in Attempts : RunOf[a] = RunOf[b] => a = b

\* A slot outlives the longest call, counted from the slot's acquisition.
StaleOutlastsCalls == MaxSetup + MaxCall < StaleTimeout

-----------------------------------------------------------------------------
(* Types.                                                                  *)

\* A release that reads or deletes a mapping has a run to do it for.
JobsHaveRuns == \A w \in Workers : job[w].step \in {"read", "map"} => job[w].run \in Runs

TypeInv == TypeOK /\ JobsHaveRuns

\* What a release can be about to do is a job.
LEMMA JobTypes ==
  /\ Idle \in Jobs
  /\ \A s \in Attempts : ReleaseOf(s) \in Jobs
  /\ \A r \in Runs : ReleaseByRun(r) \in Jobs
BY DEF Idle, ReleaseOf, ReleaseByRun, Jobs, Steps

\* The ages at both ends of the range.
LEMMA TimesInRange == {0, StaleTimeout} \subseteq 0 .. StaleTimeout
BY LimitsAssumption

\* Every move of a release leaves its worker with a job, and with a run if it
\* goes to the mapping.
LEMMA GotoTypes ==
  ASSUME TypeInv, NEW w \in Workers, NEW next \in Steps, Goto(w, next),
         next \in {"read", "map"} => job[w].run \in Runs
  PROVE  job' \in [Workers -> Jobs] /\ JobsHaveRuns'
<1>1. job[w] \in Jobs
  BY DEF TypeInv, TypeOK
<1>2. [job[w] EXCEPT !.step = next] \in Jobs
  BY <1>1 DEF Jobs
<1>3. job' \in [Workers -> Jobs]
  BY <1>2, JobTypes DEF Goto, TypeInv, TypeOK
<1>4. ASSUME NEW v \in Workers, job'[v].step \in {"read", "map"}
      PROVE  job'[v].run \in Runs
  <2>1. CASE v # w
    BY <2>1, <1>4 DEF Goto, TypeInv, TypeOK, JobsHaveRuns
  <2>2. CASE v = w /\ next = "idle"
    BY <2>2, <1>4 DEF Goto, TypeInv, TypeOK, Idle
  <2>3. CASE v = w /\ next # "idle"
    <3>1. job'[v] = [job[w] EXCEPT !.step = next]
      BY <2>3 DEF Goto, TypeInv, TypeOK
    <3>2. job'[v].step = next /\ job'[v].run = job[w].run
      BY <3>1, <1>1 DEF Jobs
    <3> QED BY <3>2, <1>4
  <2> QED BY <2>1, <2>2, <2>3
<1> QED BY <1>3, <1>4 DEF JobsHaveRuns

\* The step after a removal, for a release by slot and for one by run.
LEMMA AfterReleaseTypes ==
  ASSUME TypeInv, NEW w \in Workers
  PROVE  /\ AfterRelease(w) \in Steps
         /\ AfterRelease(w) \in {"read", "map"} => job[w].run \in Runs
BY DEF AfterRelease, Steps, TypeInv, TypeOK, Jobs

\* Nothing has happened at the start.
LEMMA TypeInvInit == Init => TypeInv
<1> SUFFICES ASSUME Init PROVE TypeInv
  OBVIOUS
<1>1. TypeOK
  BY JobTypes, SetsAssumption, LimitsAssumption DEF Init, TypeOK, Phases
<1>2. JobsHaveRuns
  BY DEF Init, JobsHaveRuns, Idle
<1> QED BY <1>1, <1>2 DEF TypeInv

\* The script's writes are sets of attempts.
LEMMA AdmitTypes ==
  ASSUME TypeInv, NEW a \in Attempts, Admit(a)
  PROVE  /\ orgSet' \in [Orgs -> SUBSET Attempts]
         /\ scopeSet' \in [Scopes -> SUBSET Attempts]
         /\ fleet' \in SUBSET Attempts
BY DEF Admit, Unexpired, TypeInv, TypeOK

\* A job that is replaced as a whole.
LEMMA NewJobTypes ==
  ASSUME TypeInv, NEW w \in Workers, NEW j \in Jobs, job' = [job EXCEPT ![w] = j],
         j.step \in {"read", "map"} => j.run \in Runs
  PROVE  job' \in [Workers -> Jobs] /\ JobsHaveRuns'
BY DEF TypeInv, TypeOK, JobsHaveRuns

\* A worker that begins a release by run gets a job that names the run.
LEMMA ReleaseByRunTypes ==
  ASSUME TypeInv, NEW w \in Workers, NEW a \in Attempts,
         job' = [job EXCEPT ![w] = ReleaseByRun(RunOf[a])]
  PROVE  job' \in [Workers -> Jobs] /\ JobsHaveRuns'
<1>1. RunOf[a] \in Runs
  BY CallersAssumption
<1>2. ReleaseByRun(RunOf[a]) \in Jobs /\ ReleaseByRun(RunOf[a]).run \in Runs
  BY <1>1, JobTypes DEF ReleaseByRun
<1> QED BY <1>2, NewJobTypes

\* The steps of callers keep the types.
LEMMA TypeInvCaller ==
  ASSUME TypeInv, NEW a \in Attempts, Caller(a)
  PROVE  TypeInv'
<1> USE DEF TypeInv, TypeOK
<1> a \in Workers
  BY DEF Workers
<1>1. CASE Acquire(a)
  <2>1. phase' \in [Attempts -> Phases]
    BY <1>1 DEF Acquire, Phases
  <2> QED BY <1>1, <2>1, AdmitTypes DEF Acquire, JobsHaveRuns
<1>2. CASE Refuse(a)
  <2>1. /\ orgSet' \in [Orgs -> SUBSET Attempts]
        /\ scopeSet' \in [Scopes -> SUBSET Attempts]
        /\ phase' \in [Attempts -> Phases]
    BY <1>2 DEF Refuse, Phases, Unexpired
  <2> QED BY <1>2, <2>1 DEF Refuse, JobsHaveRuns
<1>3. CASE Bind(a)
  <2>1. mapping' \in [Runs -> Attempts \cup {NoSlot}]
    BY <1>3 DEF Bind, Store
  <2>2. ttl' \in [Runs -> 0 .. StaleTimeout]
    BY <1>3, TimesInRange DEF Bind, Store
  <2>3. phase' \in [Attempts -> Phases]
    BY <1>3 DEF Bind, Phases
  <2> QED BY <1>3, <2>1, <2>2, <2>3 DEF Bind, JobsHaveRuns
<1>4. CASE BindFails(a)
  <2>1. /\ mapping' \in [Runs -> Attempts \cup {NoSlot}]
        /\ ttl' \in [Runs -> 0 .. StaleTimeout]
        /\ phase' \in [Attempts -> Phases]
    BY <1>4, LimitsAssumption DEF BindFails, Store, Phases
  <2>2. job' = [job EXCEPT ![a] = ReleaseOf(a)]
    BY <1>4 DEF BindFails
  <2>3. ReleaseOf(a) \in Jobs /\ ReleaseOf(a).step = "org"
    BY JobTypes DEF ReleaseOf
  <2>4. job' \in [Workers -> Jobs] /\ JobsHaveRuns'
    BY <2>2, <2>3, NewJobTypes
  <2> QED BY <1>4, <2>1, <2>4 DEF BindFails
<1>5. CASE Abandon(a)
  BY <1>5 DEF Abandon, redis, Phases, JobsHaveRuns
<1>6. CASE Connect(a)
  BY <1>6 DEF Connect, redis, Phases, JobsHaveRuns
<1>7. CASE NotConnected(a)
  <2>1. phase' \in [Attempts -> Phases]
    BY <1>7 DEF NotConnected, Phases
  <2>2. job' \in [Workers -> Jobs] /\ JobsHaveRuns'
    <3>1. CASE job' = [job EXCEPT ![a] = ReleaseByRun(RunOf[a])]
      BY <3>1, ReleaseByRunTypes
    <3>2. CASE UNCHANGED job
      BY <3>2 DEF JobsHaveRuns
    <3> QED BY <1>7, <3>1, <3>2 DEF NotConnected
  <2> QED BY <1>7, <2>1, <2>2 DEF NotConnected, redis
<1>8. CASE HangUp(a)
  <2>1. phase' \in [Attempts -> Phases]
    BY <1>8 DEF HangUp, Phases
  <2>2. job' \in [Workers -> Jobs] /\ JobsHaveRuns'
    BY <1>8, ReleaseByRunTypes DEF HangUp
  <2> QED BY <1>8, <2>1, <2>2 DEF HangUp, redis
<1> QED BY <1>1, <1>2, <1>3, <1>4, <1>5, <1>6, <1>7, <1>8 DEF Caller

\* The steps of releases keep the types.
LEMMA TypeInvRelease ==
  ASSUME TypeInv, NEW w \in Workers, Release(w)
  PROVE  TypeInv'
<1> USE DEF TypeInv, TypeOK
<1>1. CASE ReadMapping(w)
  <2> DEFINE s == mapping[job[w].run]
             j == IF s = NoSlot THEN Idle
                  ELSE [job[w] EXCEPT !.step = "org", !.slot = s]
  <2>1. job[w] \in Jobs /\ job[w].run \in Runs
    BY <1>1 DEF ReadMapping, JobsHaveRuns
  <2>2. s \in Attempts \cup {NoSlot}
    BY <2>1
  <2>3. j \in Jobs /\ j.step \notin {"read", "map"}
    <3>1. CASE s = NoSlot
      BY <3>1, JobTypes DEF Idle
    <3>2. CASE s # NoSlot
      <4>1. j = [step |-> "org", run |-> job[w].run, slot |-> s]
        BY <2>1, <3>2 DEF Jobs
      <4> QED BY <4>1, <2>1, <2>2 DEF Jobs, Steps
    <3> QED BY <3>1, <3>2
  <2>4. job' = [job EXCEPT ![w] = j]
    BY <1>1 DEF ReadMapping
  <2>5. job' \in [Workers -> Jobs] /\ JobsHaveRuns'
    BY <2>3, <2>4, NewJobTypes
  <2> QED BY <1>1, <2>5 DEF ReadMapping, redis
<1>2. CASE RemoveFromOrg(w)
  <2>1. job' \in [Workers -> Jobs] /\ JobsHaveRuns'
    BY <1>2, GotoTypes DEF RemoveFromOrg, Steps
  <2>2. orgSet' \in [Orgs -> SUBSET Attempts]
    BY <1>2 DEF RemoveFromOrg
  <2> QED BY <1>2, <2>1, <2>2 DEF RemoveFromOrg
<1>3. CASE RemoveFromFleet(w)
  <2> DEFINE next == IF ScopeOf[job[w].slot] = NoScope THEN AfterRelease(w) ELSE "scope"
  <2>1. next \in Steps /\ (next \in {"read", "map"} => job[w].run \in Runs)
    BY AfterReleaseTypes DEF Steps
  <2>2. Goto(w, next)
    BY <1>3 DEF RemoveFromFleet
  <2>3. job' \in [Workers -> Jobs] /\ JobsHaveRuns'
    BY <2>1, <2>2, GotoTypes
  <2> QED BY <1>3, <2>3 DEF RemoveFromFleet
<1>4. CASE RemoveFromScope(w)
  <2>1. job' \in [Workers -> Jobs] /\ JobsHaveRuns'
    BY <1>4, AfterReleaseTypes, GotoTypes DEF RemoveFromScope
  <2>2. scopeSet' \in [Scopes -> SUBSET Attempts]
    BY <1>4 DEF RemoveFromScope
  <2> QED BY <1>4, <2>1, <2>2 DEF RemoveFromScope
<1>5. CASE DeleteMapping(w)
  <2>1. job' \in [Workers -> Jobs] /\ JobsHaveRuns'
    BY <1>5, GotoTypes DEF DeleteMapping, Steps
  <2>2. mapping' \in [Runs -> Attempts \cup {NoSlot}]
    BY <1>5 DEF DeleteMapping
  <2>3. ttl' \in [Runs -> 0 .. StaleTimeout]
    BY <1>5, TimesInRange DEF DeleteMapping
  <2> QED BY <1>5, <2>1, <2>2, <2>3 DEF DeleteMapping
<1>6. CASE Interrupt(w)
  <2>1. job' \in [Workers -> Jobs] /\ JobsHaveRuns'
    BY <1>6, GotoTypes DEF Interrupt, Steps
  <2> QED BY <1>6, <2>1 DEF Interrupt, redis
<1> QED BY <1>1, <1>2, <1>3, <1>4, <1>5, <1>6 DEF Release

\* The passing of time keeps the types.
LEMMA TypeInvTick ==
  ASSUME TypeInv, Tick
  PROVE  TypeInv'
<1> USE DEF TypeInv, TypeOK
<1>1. age' \in [Attempts -> 0 .. StaleTimeout]
  BY LimitsAssumption DEF Tick, Older
<1>2. callAge' \in [Attempts -> 0 .. MaxCall]
  BY LimitsAssumption DEF Tick, Overdue
<1>3. ttl' \in [Runs -> 0 .. StaleTimeout]
  BY LimitsAssumption DEF Tick
<1>4. mapping' \in [Runs -> Attempts \cup {NoSlot}]
  BY DEF Tick
<1> QED BY <1>1, <1>2, <1>3, <1>4 DEF Tick, JobsHaveRuns

\* Every step keeps the types.
LEMMA TypeInvNext == TypeInv /\ [Next]_vars => TypeInv'
<1> SUFFICES ASSUME TypeInv, [Next]_vars PROVE TypeInv'
  OBVIOUS
<1>1. ASSUME NEW k \in Callbacks, NEW a \in Attempts, Callback(k, a)
      PROVE  TypeInv'
  <2>1. job' \in [Workers -> Jobs] /\ JobsHaveRuns'
    BY <1>1, ReleaseByRunTypes DEF Callback, Workers
  <2> QED BY <1>1, <2>1 DEF Callback, redis, TypeInv, TypeOK
<1>2. CASE UNCHANGED vars
  BY <1>2 DEF vars, TypeInv, TypeOK, JobsHaveRuns
<1> QED BY <1>1, <1>2, TypeInvCaller, TypeInvRelease, TypeInvTick DEF Next

\* Every variable keeps its type in every step of every process.
THEOREM TypeCorrect == Spec => []TypeOK
<1>1. Spec => []TypeInv
  BY TypeInvInit, TypeInvNext, PTL DEF Spec
<1>2. TypeInv => TypeOK
  BY DEF TypeInv
<1> QED BY <1>1, <1>2, PTL

-----------------------------------------------------------------------------
(* The counters.                                                           *)

\* Adding one slot to a set with room for it keeps it within its limit, and
\* removing any keeps it there.
LEMMA RoomForOne ==
  ASSUME NEW S \in SUBSET Attempts, NEW T, NEW a \in Attempts, NEW n \in Nat,
         T \subseteq S, Cardinality(T) < n
  PROVE  Cardinality(T \cup {a}) <= n
<1>1. IsFiniteSet(T)
  BY SetsAssumption, FS_Subset
<1>2. Cardinality(T) \in Nat
  BY <1>1, FS_CardinalityType
<1>3. Cardinality(T \cup {a}) \in {Cardinality(T), Cardinality(T) + 1}
  BY <1>1, FS_AddElement
<1> QED BY <1>2, <1>3

\* A set that shrinks stays within its limit.
LEMMA StaysWithin ==
  ASSUME NEW S \in SUBSET Attempts, NEW T, NEW n \in Nat,
         T \subseteq S, Cardinality(S) <= n
  PROVE  Cardinality(T) <= n
<1>1. IsFiniteSet(S)
  BY SetsAssumption, FS_Subset
<1>2. Cardinality(T) <= Cardinality(S) /\ IsFiniteSet(T)
  BY <1>1, FS_Subset
<1>3. Cardinality(T) \in Nat /\ Cardinality(S) \in Nat
  BY <1>1, <1>2, FS_CardinalityType
<1> QED BY <1>2, <1>3

\* A step that only takes slots out of the sets.
LEMMA ShrinkingKeepsLimits ==
  ASSUME TypeInv, CountersWithinLimits,
         \A o \in Orgs : orgSet'[o] \subseteq orgSet[o],
         \A c \in Scopes : scopeSet'[c] \subseteq scopeSet[c]
  PROVE  CountersWithinLimits'
<1>1. \A o \in Orgs : Cardinality(orgSet'[o]) <= OrgLimit[o]
  BY StaysWithin, LimitsAssumption DEF TypeInv, TypeOK, CountersWithinLimits
<1>2. \A c \in Scopes : Cardinality(scopeSet'[c]) <= ScopeLimit[c]
  BY StaysWithin, LimitsAssumption DEF TypeInv, TypeOK, CountersWithinLimits
<1> QED BY <1>1, <1>2 DEF CountersWithinLimits

\* The one step that adds: the script looked before it wrote.
LEMMA AdmitKeepsLimits ==
  ASSUME TypeInv, CountersWithinLimits, NEW a \in Attempts, Admit(a)
  PROVE  CountersWithinLimits'
<1> DEFINE org == OrgOf[a]
<1>1. org \in Orgs
  BY CallersAssumption
<1>2. ASSUME NEW o \in Orgs
      PROVE  Cardinality(orgSet'[o]) <= OrgLimit[o]
  <2>1. orgSet[o] \in SUBSET Attempts /\ OrgLimit[o] \in Nat
    BY LimitsAssumption DEF TypeInv, TypeOK
  <2>2. CASE o = org
    <3>1. orgSet'[o] = Unexpired(orgSet[o]) \cup {a}
      BY <2>2 DEF Admit, TypeInv, TypeOK
    <3>2. Unexpired(orgSet[o]) \subseteq orgSet[o]
      BY DEF Unexpired
    <3>3. IsFiniteSet(Unexpired(orgSet[o]))
      BY <2>1, <3>2, SetsAssumption, FS_Subset
    <3>4. Cardinality(Unexpired(orgSet[o])) < OrgLimit[o]
      BY <2>1, <2>2, <3>3, FS_CardinalityType DEF Admit, OrgFull
    <3> QED BY <2>1, <3>1, <3>2, <3>4, RoomForOne
  <2>3. CASE o # org
    BY <2>3 DEF Admit, TypeInv, TypeOK, CountersWithinLimits
  <2> QED BY <2>2, <2>3
<1>3. ASSUME NEW c \in Scopes
      PROVE  Cardinality(scopeSet'[c]) <= ScopeLimit[c]
  <2>1. scopeSet[c] \in SUBSET Attempts /\ ScopeLimit[c] \in Nat
    BY LimitsAssumption DEF TypeInv, TypeOK
  <2>2. CASE c = ScopeOf[a]
    <3>1. scopeSet'[c] = Unexpired(scopeSet[c]) \cup {a}
      BY <2>2 DEF Admit
    <3>2. Unexpired(scopeSet[c]) \subseteq scopeSet[c]
      BY DEF Unexpired
    <3>3. IsFiniteSet(Unexpired(scopeSet[c]))
      BY <2>1, <3>2, SetsAssumption, FS_Subset
    <3>4. Cardinality(Unexpired(scopeSet[c])) < ScopeLimit[c]
      BY <2>1, <2>2, <3>3, FS_CardinalityType, SetsAssumption DEF Admit, ScopeFull
    <3> QED BY <2>1, <3>1, <3>2, <3>4, RoomForOne
  <2>3. CASE c # ScopeOf[a]
    BY <2>3 DEF Admit, CountersWithinLimits
  <2> QED BY <2>2, <2>3
<1> QED BY <1>2, <1>3 DEF CountersWithinLimits

\* The counters start empty.
LEMMA CountersInit == Init => CountersWithinLimits
<1> SUFFICES ASSUME Init PROVE CountersWithinLimits
  OBVIOUS
<1>1. Cardinality({}) = 0
  BY FS_EmptySet
<1> QED BY <1>1, LimitsAssumption DEF Init, CountersWithinLimits

\* Only Acquire adds to a set; every other step leaves the sets or shrinks them.
LEMMA CountersNext ==
  ASSUME TypeInv, CountersWithinLimits, [Next]_vars
  PROVE  CountersWithinLimits'
<1>1. CASE \E a \in Attempts : Acquire(a)
  BY <1>1, AdmitKeepsLimits DEF Acquire
<1>2. CASE \E a \in Attempts : Refuse(a)
  BY <1>2, ShrinkingKeepsLimits DEF Refuse, Unexpired, TypeInv, TypeOK
<1>3. CASE \E w \in Workers : RemoveFromOrg(w) \/ RemoveFromScope(w)
  BY <1>3, ShrinkingKeepsLimits DEF RemoveFromOrg, RemoveFromScope, TypeInv, TypeOK
<1>4. CASE UNCHANGED <<orgSet, scopeSet>>
  BY <1>4, ShrinkingKeepsLimits
<1> QED BY <1>1, <1>2, <1>3, <1>4
        DEF Next, Caller, Release, Bind, BindFails, Abandon, Connect, NotConnected,
            HangUp, Callback, ReadMapping, RemoveFromFleet, DeleteMapping, Interrupt,
            Tick, redis, vars

\* No counter ever holds more slots than its limit, whatever is pruned, lost,
\* released twice or cut off on the way.
THEOREM CountersStayWithinLimits == Spec => []CountersWithinLimits
<1>1. TypeInv /\ CountersWithinLimits /\ [Next]_vars
        => (TypeInv /\ CountersWithinLimits)'
  BY TypeInvNext, CountersNext
<1>2. Init => TypeInv /\ CountersWithinLimits
  BY TypeInvInit, CountersInit
<1> QED BY <1>1, <1>2, PTL DEF Spec

-----------------------------------------------------------------------------
(* Calls keep their slots.  LiveCallKeepsItsSlot says nothing of the calls  *)
(* that are still being set up, of the releases under way, or of how old a *)
(* slot may be when its call starts: the inductive invariant does.         *)

Using(a) == phase[a] \in {"held", "bound", "live"}

Ended(a) == phase[a] \in {"refused", "over"}

HasSlot(a) == /\ a \in orgSet[OrgOf[a]]
              /\ a \in fleet
              /\ ScopeOf[a] # NoScope => a \in scopeSet[ScopeOf[a]]

SlotsKept == \A a \in Attempts : Using(a) => HasSlot(a)

\* A slot's clock starts when it is acquired.
WaitingIsUnscored ==
  \A a \in Attempts : phase[a] = "waiting" => ~Scored(a) /\ age[a] = 0

AgesBounded ==
  \A a \in Attempts :
    /\ phase[a] \in {"held", "bound"} => age[a] <= MaxSetup
    /\ phase[a] = "live" => age[a] <= MaxSetup + callAge[a]

MappingsLeadHome ==
  \A r \in Runs : mapping[r] \in Attempts => RunOf[mapping[r]] = r

\* Whoever releases by run does so for a call that has ended.
ReleasesFollowCalls ==
  \A w \in Workers, a \in Attempts : job[w].run = RunOf[a] => Ended(a)

SlotInv == /\ TypeInv
           /\ SlotsKept
           /\ WaitingIsUnscored
           /\ AgesBounded
           /\ MappingsLeadHome
           /\ ReleasesFollowCalls
           /\ ReleasesOnlyEndedCalls

\* At the start nobody has a slot, a mapping or a release to do.
LEMMA SlotInvInit == Init => SlotInv
<1> SUFFICES ASSUME Init PROVE SlotInv
  OBVIOUS
<1>1. SlotsKept /\ AgesBounded
  BY DEF Init, SlotsKept, AgesBounded, Using
<1>2. WaitingIsUnscored
  BY CallersAssumption DEF Init, WaitingIsUnscored, Scored
<1>3. MappingsLeadHome
  BY SetsAssumption DEF Init, MappingsLeadHome
<1>4. ReleasesFollowCalls /\ ReleasesOnlyEndedCalls
  BY SetsAssumption, CallersAssumption
     DEF Init, ReleasesFollowCalls, ReleasesOnlyEndedCalls, Idle
<1> QED BY <1>1, <1>2, <1>3, <1>4, TypeInvInit DEF SlotInv

\* A slot in use is younger than the stale timeout.
LEMMA SlotInUseIsYoung ==
  ASSUME SlotInv, StaleOutlastsCalls, NEW a \in Attempts, Using(a)
  PROVE  age[a] < StaleTimeout
<1>1. /\ age[a] \in Nat /\ callAge[a] \in Nat /\ callAge[a] <= MaxCall
      /\ StaleTimeout \in Nat /\ MaxSetup \in Nat /\ MaxCall \in Nat
  BY LimitsAssumption DEF SlotInv, TypeInv, TypeOK
<1> QED BY <1>1 DEF SlotInv, AgesBounded, Using, StaleOutlastsCalls

\* Pruning a set leaves the slots in use where they are.
LEMMA PruningSparesSlotsInUse ==
  ASSUME SlotInv, StaleOutlastsCalls, NEW a \in Attempts, Using(a), NEW S, a \in S
  PROVE  a \in Unexpired(S)
BY SlotInUseIsYoung DEF Unexpired

\* What the script does to the sets: attempt a gets in, everything in use stays,
\* nothing else gets in.
LEMMA AdmitSets ==
  ASSUME SlotInv, StaleOutlastsCalls, NEW a \in Attempts, Admit(a)
  PROVE  /\ HasSlot(a)'
         /\ \A b \in Attempts : Using(b) => HasSlot(b)'
         /\ \A b \in Attempts \ {a} : Scored(b)' => Scored(b)
<1>1. /\ orgSet' = [orgSet EXCEPT ![OrgOf[a]] = Unexpired(@) \cup {a}]
      /\ orgSet \in [Orgs -> SUBSET Attempts] /\ OrgOf[a] \in Orgs
      /\ scopeSet' = [c \in Scopes |-> IF c = ScopeOf[a]
                                       THEN Unexpired(scopeSet[c]) \cup {a}
                                       ELSE scopeSet[c]]
      /\ fleet' = Unexpired(fleet) \cup {a}
  BY CallersAssumption DEF Admit, SlotInv, TypeInv, TypeOK
<1>2. \A b \in Attempts : OrgOf[b] \in Orgs /\ ScopeOf[b] \in Scopes \cup {NoScope}
  BY CallersAssumption
<1>3. HasSlot(a)'
  BY <1>1, <1>2 DEF HasSlot
<1>4. ASSUME NEW b \in Attempts, Using(b)
      PROVE  HasSlot(b)'
  <2>1. HasSlot(b)
    BY <1>4 DEF SlotInv, SlotsKept
  <2>2. b \in orgSet'[OrgOf[b]]
    BY <1>1, <1>2, <1>4, <2>1, PruningSparesSlotsInUse DEF HasSlot
  <2>3. b \in fleet'
    BY <1>1, <1>4, <2>1, PruningSparesSlotsInUse DEF HasSlot
  <2>4. ScopeOf[b] # NoScope => b \in scopeSet'[ScopeOf[b]]
    BY <1>1, <1>2, <1>4, <2>1, PruningSparesSlotsInUse DEF HasSlot
  <2> QED BY <2>2, <2>3, <2>4 DEF HasSlot
<1>5. ASSUME NEW b \in Attempts \ {a}, Scored(b)'
      PROVE  Scored(b)
  BY <1>1, <1>2, <1>5 DEF Scored, Unexpired
<1> QED BY <1>3, <1>4, <1>5

\* Acquire: the new slot starts at age 0, and waiting calls had no release.
LEMMA SlotInvAcquire ==
  ASSUME SlotInv, StaleOutlastsCalls, NEW a \in Attempts, Acquire(a)
  PROVE  SlotInv'
<1>1. TypeInv'
  BY TypeInvCaller DEF Caller, SlotInv
<1>2. /\ phase[a] = "waiting" /\ phase'[a] \in {"held", "refused"}
      /\ \A b \in Attempts \ {a} : phase'[b] = phase[b]
      /\ UNCHANGED <<age, mapping, ttl, callAge, job>>
  BY DEF Acquire, SlotInv, TypeInv, TypeOK
<1>3. SlotsKept'
  BY <1>2, AdmitSets DEF Acquire, SlotsKept, Using
<1>4. WaitingIsUnscored'
  BY <1>2, AdmitSets DEF Acquire, SlotInv, WaitingIsUnscored
<1>5. AgesBounded'
  BY <1>2, LimitsAssumption DEF SlotInv, WaitingIsUnscored, AgesBounded
<1>6. MappingsLeadHome'
  BY <1>2 DEF SlotInv, MappingsLeadHome
<1>7. ReleasesFollowCalls' /\ ReleasesOnlyEndedCalls'
  BY <1>2 DEF SlotInv, ReleasesFollowCalls, ReleasesOnlyEndedCalls, Ended
<1> QED BY <1>1, <1>3, <1>4, <1>5, <1>6, <1>7 DEF SlotInv

\* Refuse: the pruning that precedes a refusal spares the slots in use.
LEMMA SlotInvRefuse ==
  ASSUME SlotInv, StaleOutlastsCalls, NEW a \in Attempts, Refuse(a)
  PROVE  SlotInv'
<1>1. TypeInv'
  BY TypeInvCaller DEF Caller, SlotInv
<1>2. /\ phase[a] = "waiting" /\ phase'[a] \in {"waiting", "refused"}
      /\ \A b \in Attempts \ {a} : phase'[b] = phase[b]
      /\ UNCHANGED <<fleet, age, mapping, ttl, callAge, job>>
      /\ orgSet' = [orgSet EXCEPT ![OrgOf[a]] = Unexpired(@)]
      /\ orgSet \in [Orgs -> SUBSET Attempts]
      /\ scopeSet' = [c \in Scopes |-> IF c = ScopeOf[a] /\ ~OrgFull(a)
                                       THEN Unexpired(scopeSet[c])
                                       ELSE scopeSet[c]]
  BY DEF Refuse, SlotInv, TypeInv, TypeOK
<1>3. \A b \in Attempts : OrgOf[b] \in Orgs /\ ScopeOf[b] \in Scopes \cup {NoScope}
  BY CallersAssumption
<1>4. ASSUME NEW b \in Attempts, Using(b)'
      PROVE  HasSlot(b)'
  <2>1. Using(b) /\ HasSlot(b)
    BY <1>2, <1>4 DEF Using, SlotInv, SlotsKept
  <2> QED BY <1>2, <1>3, <2>1, PruningSparesSlotsInUse DEF HasSlot
<1>5. \A b \in Attempts : Scored(b)' => Scored(b)
  BY <1>2, <1>3 DEF Scored, Unexpired
<1>6. WaitingIsUnscored'
  BY <1>2, <1>5 DEF SlotInv, WaitingIsUnscored
<1>7. AgesBounded' /\ MappingsLeadHome'
  BY <1>2 DEF SlotInv, AgesBounded, MappingsLeadHome
<1>8. ReleasesFollowCalls' /\ ReleasesOnlyEndedCalls'
  BY <1>2 DEF SlotInv, ReleasesFollowCalls, ReleasesOnlyEndedCalls, Ended
<1> QED BY <1>1, <1>4, <1>6, <1>7, <1>8 DEF SlotInv, SlotsKept

\* The steps of a call that has its slot: the sets and the clocks do not change,
\* and the call only moves on towards its end.
CallMovesOn(a) ==
  /\ UNCHANGED <<orgSet, scopeSet, fleet, age, callAge>>
  /\ \A b \in Attempts \ {a} : phase'[b] = phase[b]
  /\ \/ phase[a] = "held"  /\ phase'[a] \in {"bound", "refused"}
     \/ phase[a] = "bound" /\ phase'[a] \in {"live", "over"}
     \/ phase[a] = "live"  /\ phase'[a] = "over"

\* Moving on disturbs neither the slots nor their ages, and no ended call starts
\* again.
LEMMA MovingOn ==
  ASSUME SlotInv, NEW a \in Attempts, CallMovesOn(a)
  PROVE  /\ SlotsKept' /\ WaitingIsUnscored' /\ AgesBounded'
         /\ \A b \in Attempts : Ended(b) => Ended(b)'
         /\ ~Ended(a)
<1>1. \A b \in Attempts : Using(b)' => Using(b)
  BY DEF CallMovesOn, Using
<1>2. SlotsKept'
  BY <1>1 DEF CallMovesOn, SlotInv, SlotsKept, HasSlot
<1>3. WaitingIsUnscored'
  BY DEF CallMovesOn, SlotInv, WaitingIsUnscored, Scored
<1>4. ASSUME NEW b \in Attempts
      PROVE  /\ phase'[b] \in {"held", "bound"} => age[b] <= MaxSetup
             /\ phase'[b] = "live" => age[b] <= MaxSetup + callAge[b]
  <2>1. age[b] \in Nat /\ callAge[b] \in Nat /\ MaxSetup \in Nat
    BY LimitsAssumption DEF SlotInv, TypeInv, TypeOK
  <2>2. CASE b # a
    BY <2>2 DEF CallMovesOn, SlotInv, AgesBounded
  <2>3. CASE b = a
    BY <2>1, <2>3 DEF CallMovesOn, SlotInv, AgesBounded
  <2> QED BY <2>2, <2>3
<1>5. AgesBounded'
  BY <1>4 DEF AgesBounded, CallMovesOn
<1>6. (\A b \in Attempts : Ended(b) => Ended(b)') /\ ~Ended(a)
  BY DEF CallMovesOn, Ended
<1> QED BY <1>2, <1>3, <1>5, <1>6

\* Releases stay behind the calls they are for when no ended call starts again
\* and whatever job replaces another is for a call that has ended.
LEMMA ReleasesStayBehind ==
  ASSUME SlotInv, NEW w \in Workers, NEW j \in Jobs, job' = [job EXCEPT ![w] = j],
         \A b \in Attempts : Ended(b) => Ended(b)',
         \A b \in Attempts : j.run = RunOf[b] \/ j.slot = b => Ended(b)'
  PROVE  ReleasesFollowCalls' /\ ReleasesOnlyEndedCalls'
<1>1. \A v \in Workers : job'[v] = IF v = w THEN j ELSE job[v]
  BY DEF SlotInv, TypeInv, TypeOK
<1>2. ReleasesFollowCalls'
  BY <1>1 DEF SlotInv, ReleasesFollowCalls
<1>3. ReleasesOnlyEndedCalls'
  BY <1>1 DEF SlotInv, ReleasesOnlyEndedCalls, Ended
<1> QED BY <1>2, <1>3

\* The same when no job is replaced.
LEMMA ReleasesUntouched ==
  ASSUME SlotInv, UNCHANGED job, \A b \in Attempts : Ended(b) => Ended(b)'
  PROVE  ReleasesFollowCalls' /\ ReleasesOnlyEndedCalls'
BY DEF SlotInv, ReleasesFollowCalls, ReleasesOnlyEndedCalls, Ended

\* Storing a mapping for one's own run, or not touching any.
LEMMA StoringLeadsHome ==
  ASSUME SlotInv, NEW a \in Attempts, Store(a) \/ UNCHANGED mapping
  PROVE  MappingsLeadHome'
<1>1. mapping \in [Runs -> Attempts \cup {NoSlot}] /\ RunOf[a] \in Runs
  BY CallersAssumption DEF SlotInv, TypeInv, TypeOK
<1>2. CASE Store(a)
  BY <1>1, <1>2 DEF Store, SlotInv, MappingsLeadHome
<1>3. CASE UNCHANGED mapping
  BY <1>3 DEF SlotInv, MappingsLeadHome
<1> QED BY <1>2, <1>3

\* A release by run is for a call that has ended, because only that call's.
LEMMA ReleaseByRunStaysBehind ==
  ASSUME SlotInv, RunsAreFresh, NEW w \in Workers, NEW a \in Attempts,
         job' = [job EXCEPT ![w] = ReleaseByRun(RunOf[a])], Ended(a)',
         \A b \in Attempts : Ended(b) => Ended(b)'
  PROVE  ReleasesFollowCalls' /\ ReleasesOnlyEndedCalls'
<1> DEFINE j == ReleaseByRun(RunOf[a])
<1>1. RunOf[a] \in Runs
  BY CallersAssumption
<1>2. j \in Jobs
  BY <1>1, JobTypes
<1>3. \A b \in Attempts : j.run = RunOf[b] \/ j.slot = b => Ended(b)'
  BY SetsAssumption DEF RunsAreFresh, ReleaseByRun
<1> HIDE DEF j
<1>4. job' = [job EXCEPT ![w] = j]
  BY DEF j
<1> QED BY <1>2, <1>3, <1>4, ReleasesStayBehind

\* The six steps of a call that has its slot.
LEMMA SlotInvCall ==
  ASSUME SlotInv, RunsAreFresh, NEW a \in Attempts,
         \/ Bind(a) \/ BindFails(a) \/ Abandon(a)
         \/ Connect(a) \/ NotConnected(a) \/ HangUp(a)
  PROVE  SlotInv'
<1>1. TypeInv'
  BY TypeInvCaller DEF Caller, SlotInv
<1>2. a \in Workers /\ phase \in [Attempts -> Phases]
  BY DEF Workers, SlotInv, TypeInv, TypeOK
<1>3. CallMovesOn(a)
  BY <1>2 DEF CallMovesOn, Bind, BindFails, Abandon, Connect, NotConnected, HangUp, redis
<1>4. /\ SlotsKept' /\ WaitingIsUnscored' /\ AgesBounded'
      /\ \A b \in Attempts : Ended(b) => Ended(b)'
  BY <1>3, MovingOn
<1>5. MappingsLeadHome'
  <2>1. Store(a) \/ UNCHANGED mapping
    BY DEF Bind, BindFails, Abandon, Connect, NotConnected, HangUp, redis
  <2> QED BY <2>1, StoringLeadsHome
<1>6. ReleasesFollowCalls' /\ ReleasesOnlyEndedCalls'
  <2>1. CASE UNCHANGED job
    BY <2>1, <1>4, ReleasesUntouched
  <2>2. CASE BindFails(a)
    <3>1. Ended(a)'
      BY <1>2, <2>2 DEF BindFails, Ended
    <3>2. ReleaseOf(a) \in Jobs
      BY JobTypes
    <3>3. \A b \in Attempts : ReleaseOf(a).run = RunOf[b] \/ ReleaseOf(a).slot = b
                                => Ended(b)'
      BY <3>1, SetsAssumption, CallersAssumption DEF ReleaseOf
    <3>4. job' = [job EXCEPT ![a] = ReleaseOf(a)]
      BY <2>2 DEF BindFails
    <3> QED BY <1>2, <1>4, <3>2, <3>3, <3>4, ReleasesStayBehind
  <2>3. CASE job' = [job EXCEPT ![a] = ReleaseByRun(RunOf[a])] /\ Ended(a)'
    BY <1>2, <1>4, <2>3, ReleaseByRunStaysBehind
  <2>4. NotConnected(a) \/ HangUp(a) => Ended(a)'
    BY <1>2 DEF NotConnected, HangUp, Ended
  <2> QED BY <2>1, <2>2, <2>3, <2>4 DEF Bind, Abandon, Connect, NotConnected, HangUp
<1> QED BY <1>1, <1>4, <1>5, <1>6 DEF SlotInv

\* A callback is for a call that is over.
LEMMA SlotInvCallback ==
  ASSUME SlotInv, RunsAreFresh, NEW k \in Callbacks, NEW a \in Attempts, Callback(k, a)
  PROVE  SlotInv'
<1>1. TypeInv'
  BY TypeInvNext DEF SlotInv, Next
<1>2. /\ k \in Workers /\ UNCHANGED <<redis, age, phase, callAge>>
      /\ job' = [job EXCEPT ![k] = ReleaseByRun(RunOf[a])] /\ Ended(a)'
  BY DEF Workers, Callback, Ended
<1>3. SlotsKept' /\ WaitingIsUnscored' /\ AgesBounded' /\ MappingsLeadHome'
  BY <1>2 DEF redis, SlotInv, SlotsKept, HasSlot, Using, WaitingIsUnscored, Scored,
              AgesBounded, MappingsLeadHome
<1>4. \A b \in Attempts : Ended(b) => Ended(b)'
  BY <1>2 DEF Ended
<1>5. ReleasesFollowCalls' /\ ReleasesOnlyEndedCalls'
  BY <1>2, <1>4, ReleaseByRunStaysBehind
<1> QED BY <1>1, <1>3, <1>5 DEF SlotInv

\* Whatever a release leaves as its worker's job is for the same run and slot,
\* or for none.
LEMMA GotoStaysBehind ==
  ASSUME SlotInv, NEW w \in Workers, NEW next \in Steps, Goto(w, next), UNCHANGED phase
  PROVE  ReleasesFollowCalls' /\ ReleasesOnlyEndedCalls'
<1> DEFINE j == IF next = "idle" THEN Idle ELSE [job[w] EXCEPT !.step = next]
<1>1. job[w] \in Jobs
  BY DEF SlotInv, TypeInv, TypeOK
<1>2. j \in Jobs
  BY <1>1, JobTypes DEF Jobs
<1>3. \/ j.run = job[w].run /\ j.slot = job[w].slot
      \/ j.run = NoRun /\ j.slot = NoSlot
  BY <1>1 DEF Jobs, Idle
<1>4. \A b \in Attempts : Ended(b) => Ended(b)'
  BY DEF Ended
<1>5. ASSUME NEW b \in Attempts, j.run = RunOf[b] \/ j.slot = b
      PROVE  Ended(b)'
  <2>1. RunOf[b] # NoRun /\ b # NoSlot
    BY SetsAssumption, CallersAssumption
  <2>2. job[w].run = RunOf[b] \/ job[w].slot = b
    BY <1>3, <1>5, <2>1
  <2>3. Ended(b)
    BY <2>2 DEF SlotInv, ReleasesFollowCalls, ReleasesOnlyEndedCalls, Ended
  <2> QED BY <2>3, <1>4
<1>6. job' = [job EXCEPT ![w] = j]
  BY DEF Goto
<1> HIDE DEF j
<1> QED BY <1>2, <1>4, <1>5, <1>6, ReleasesStayBehind

\* A release takes only its own slot out of a set, and that call has ended.
LEMMA RemovingEnded ==
  ASSUME SlotInv, UNCHANGED <<age, phase, callAge>>,
         NEW s, \A b \in Attempts : b = s => Ended(b),
         \A o \in Orgs : orgSet'[o] \in {orgSet[o], orgSet[o] \ {s}},
         fleet' \in {fleet, fleet \ {s}},
         \A c \in Scopes : scopeSet'[c] \in {scopeSet[c], scopeSet[c] \ {s}}
  PROVE  SlotsKept' /\ WaitingIsUnscored' /\ AgesBounded'
<1>1. \A b \in Attempts : OrgOf[b] \in Orgs /\ ScopeOf[b] \in Scopes \cup {NoScope}
  BY CallersAssumption
<1>2. ASSUME NEW b \in Attempts, Using(b)'
      PROVE  HasSlot(b)'
  <2>1. Using(b) /\ HasSlot(b)
    BY <1>2 DEF Using, SlotInv, SlotsKept
  <2>2. b # s
    BY <2>1 DEF Using, Ended
  <2> QED BY <1>1, <2>1, <2>2 DEF HasSlot
<1>3. \A b \in Attempts : Scored(b)' => Scored(b)
  BY <1>1 DEF Scored
<1> QED BY <1>2, <1>3 DEF SlotsKept, SlotInv, WaitingIsUnscored, AgesBounded

\* A release reads a mapping: the slot it finds was made for its run, and the
\* calls of its run have ended.
LEMMA SlotInvReadMapping ==
  ASSUME SlotInv, NEW w \in Workers, ReadMapping(w)
  PROVE  SlotInv'
<1> DEFINE s == mapping[job[w].run]
           j == IF s = NoSlot THEN Idle
                ELSE [job[w] EXCEPT !.step = "org", !.slot = s]
<1>1. TypeInv'
  BY TypeInvRelease DEF Release, SlotInv
<1>2. /\ job[w] \in Jobs /\ job[w].run \in Runs
      /\ mapping \in [Runs -> Attempts \cup {NoSlot}]
  BY DEF ReadMapping, SlotInv, TypeInv, TypeOK, JobsHaveRuns
<1>3. SlotsKept' /\ WaitingIsUnscored' /\ AgesBounded' /\ MappingsLeadHome'
  BY DEF ReadMapping, redis, SlotInv, SlotsKept, HasSlot, Using, WaitingIsUnscored,
         Scored, AgesBounded, MappingsLeadHome
<1>4. \A b \in Attempts : Ended(b) => Ended(b)'
  BY DEF ReadMapping, Ended
<1>5. job' = [job EXCEPT ![w] = j]
  BY DEF ReadMapping
<1>6. s # NoSlot => j = [step |-> "org", run |-> job[w].run, slot |-> s]
  <2>1. CASE s # NoSlot
    BY <1>2, <2>1 DEF Jobs
  <2> QED BY <2>1
<1>7. j \in Jobs
  BY <1>2, <1>6, JobTypes DEF Jobs, Steps
<1>8. ASSUME NEW b \in Attempts, j.run = RunOf[b] \/ j.slot = b
      PROVE  Ended(b)'
  <2>1. RunOf[b] # NoRun /\ b # NoSlot
    BY SetsAssumption, CallersAssumption
  <2>2. j.run = job[w].run /\ j.slot = s /\ s # NoSlot
    BY <1>6, <1>8, <2>1 DEF Idle
  <2>3. RunOf[b] = job[w].run
    BY <1>2, <1>8, <2>2 DEF SlotInv, MappingsLeadHome
  <2> QED BY <1>4, <2>3 DEF SlotInv, ReleasesFollowCalls
<1> HIDE DEF j
<1>9. ReleasesFollowCalls' /\ ReleasesOnlyEndedCalls'
  BY <1>4, <1>5, <1>7, <1>8, ReleasesStayBehind
<1> QED BY <1>1, <1>3, <1>9 DEF SlotInv

\* The other commands of a release, and its being cut off.
LEMMA SlotInvRelease ==
  ASSUME SlotInv, NEW w \in Workers, Release(w)
  PROVE  SlotInv'
<1>1. TypeInv'
  BY TypeInvRelease DEF SlotInv
<1>2. \A b \in Attempts : b = job[w].slot => Ended(b)
  BY DEF SlotInv, ReleasesOnlyEndedCalls, Ended
<1>3. /\ orgSet \in [Orgs -> SUBSET Attempts] /\ scopeSet \in [Scopes -> SUBSET Attempts]
      /\ mapping \in [Runs -> Attempts \cup {NoSlot}]
      /\ AfterRelease(w) \in Steps
  BY AfterReleaseTypes DEF SlotInv, TypeInv, TypeOK
<1>4. CASE ReadMapping(w)
  BY <1>4, SlotInvReadMapping
<1>5. CASE RemoveFromOrg(w)
  <2>1. ReleasesFollowCalls' /\ ReleasesOnlyEndedCalls'
    BY <1>5, GotoStaysBehind DEF RemoveFromOrg, Steps
  <2>2. SlotsKept' /\ WaitingIsUnscored' /\ AgesBounded'
    BY <1>2, <1>3, <1>5, RemovingEnded DEF RemoveFromOrg
  <2> QED BY <1>1, <1>5, <2>1, <2>2 DEF RemoveFromOrg, SlotInv, MappingsLeadHome
<1>6. CASE RemoveFromFleet(w)
  <2> DEFINE next == IF ScopeOf[job[w].slot] = NoScope THEN AfterRelease(w) ELSE "scope"
  <2>1. next \in Steps
    BY <1>3 DEF Steps
  <2>2. Goto(w, next) /\ UNCHANGED phase
    BY <1>6 DEF RemoveFromFleet
  <2> HIDE DEF next
  <2>3. ReleasesFollowCalls' /\ ReleasesOnlyEndedCalls'
    BY <2>1, <2>2, GotoStaysBehind
  <2>4. SlotsKept' /\ WaitingIsUnscored' /\ AgesBounded'
    BY <1>2, <1>6, RemovingEnded DEF RemoveFromFleet
  <2> QED BY <1>1, <1>6, <2>3, <2>4 DEF RemoveFromFleet, SlotInv, MappingsLeadHome
<1>7. CASE RemoveFromScope(w)
  <2>1. ReleasesFollowCalls' /\ ReleasesOnlyEndedCalls'
    BY <1>3, <1>7, GotoStaysBehind DEF RemoveFromScope
  <2>2. SlotsKept' /\ WaitingIsUnscored' /\ AgesBounded'
    BY <1>2, <1>3, <1>7, RemovingEnded DEF RemoveFromScope
  <2> QED BY <1>1, <1>7, <2>1, <2>2 DEF RemoveFromScope, SlotInv, MappingsLeadHome
<1>8. CASE DeleteMapping(w)
  <2>1. ReleasesFollowCalls' /\ ReleasesOnlyEndedCalls'
    BY <1>8, GotoStaysBehind DEF DeleteMapping, Steps
  <2>2. SlotsKept' /\ WaitingIsUnscored' /\ AgesBounded'
    BY <1>2, <1>8, RemovingEnded DEF DeleteMapping
  <2>3. MappingsLeadHome'
    BY <1>3, <1>8, SetsAssumption DEF DeleteMapping, SlotInv, MappingsLeadHome
  <2> QED BY <1>1, <2>1, <2>2, <2>3 DEF SlotInv
<1>9. CASE Interrupt(w)
  <2>1. ReleasesFollowCalls' /\ ReleasesOnlyEndedCalls'
    BY <1>9, GotoStaysBehind DEF Interrupt, Steps
  <2>2. SlotsKept' /\ WaitingIsUnscored' /\ AgesBounded'
    BY <1>2, <1>9, RemovingEnded DEF Interrupt, redis
  <2> QED BY <1>1, <1>9, <2>1, <2>2 DEF Interrupt, redis, SlotInv, MappingsLeadHome
<1> QED BY <1>4, <1>5, <1>6, <1>7, <1>8, <1>9 DEF Release

\* A tick ages a slot and its call alike, and waits for what is overdue.
LEMMA SlotInvTick ==
  ASSUME SlotInv, Tick
  PROVE  SlotInv'
<1>1. TypeInv'
  BY TypeInvTick DEF SlotInv
<1>2. SlotsKept'
  BY DEF Tick, SlotInv, SlotsKept, HasSlot, Using
<1>3. WaitingIsUnscored'
  BY DEF Tick, SlotInv, WaitingIsUnscored, Scored
<1>4. ASSUME NEW a \in Attempts
      PROVE  /\ phase'[a] \in {"held", "bound"} => age'[a] <= MaxSetup
             /\ phase'[a] = "live" => age'[a] <= MaxSetup + callAge'[a]
  <2>1. /\ age[a] \in Nat /\ callAge[a] \in Nat /\ MaxSetup \in Nat
        /\ StaleTimeout \in Nat
    BY LimitsAssumption DEF SlotInv, TypeInv, TypeOK
  <2>2. age'[a] \in {0, age[a], age[a] + 1} /\ UNCHANGED phase /\ ~Overdue(a)
    BY DEF Tick, Older
  <2>3. CASE phase[a] \in {"held", "bound"}
    BY <2>1, <2>2, <2>3 DEF Overdue
  <2>4. CASE phase[a] = "live"
    <3>1. callAge'[a] = callAge[a] + 1
      BY <2>4 DEF Tick
    <3> QED BY <2>1, <2>2, <2>4, <3>1 DEF SlotInv, AgesBounded
  <2> QED BY <2>2, <2>3, <2>4
<1>5. AgesBounded'
  BY <1>4 DEF AgesBounded
<1>6. MappingsLeadHome'
  <2>1. \A r \in Runs : mapping'[r] \in {NoSlot, mapping[r]}
    BY DEF Tick
  <2> QED BY <2>1, SetsAssumption DEF SlotInv, MappingsLeadHome
<1>7. ReleasesFollowCalls' /\ ReleasesOnlyEndedCalls'
  BY DEF Tick, SlotInv, ReleasesFollowCalls, ReleasesOnlyEndedCalls, Ended
<1> QED BY <1>1, <1>2, <1>3, <1>5, <1>6, <1>7 DEF SlotInv

\* SlotInv is inductive.
LEMMA SlotInvNext ==
  ASSUME SlotInv, [Next]_vars, RunsAreFresh, StaleOutlastsCalls
  PROVE  SlotInv'
<1>1. CASE UNCHANGED vars
  <2>1. TypeInv'
    BY TypeInvNext DEF SlotInv
  <2> QED BY <1>1, <2>1
          DEF vars, SlotInv, SlotsKept, HasSlot, Using, WaitingIsUnscored, Scored,
              AgesBounded, MappingsLeadHome, ReleasesFollowCalls, ReleasesOnlyEndedCalls,
              Ended
<1>2. ASSUME NEW a \in Attempts, Caller(a)
      PROVE  SlotInv'
  BY <1>2, SlotInvAcquire, SlotInvRefuse, SlotInvCall DEF Caller
<1> QED BY <1>1, <1>2, SlotInvCallback, SlotInvRelease, SlotInvTick DEF Next

-----------------------------------------------------------------------------
(* The theorems about calls.  All three follow from the invariant.         *)

\* While every run is dialled once and a slot outlives a call, the invariant
\* holds in every reachable state.
LEMMA SlotInvAlways ==
  ASSUME RunsAreFresh, StaleOutlastsCalls
  PROVE  Spec => []SlotInv
<1>1. SlotInv /\ [Next]_vars => SlotInv'
  BY SlotInvNext
<1> QED BY <1>1, SlotInvInit, PTL DEF Spec

\* No release ever works on the slot of a call that is being set up or talking:
\* not the pipeline's own, not a late or repeated status callback.
THEOREM ReleasesSpareCallsInUse ==
  ASSUME RunsAreFresh, StaleOutlastsCalls
  PROVE  Spec => []ReleasesOnlyEndedCalls
<1>1. SlotInv => ReleasesOnlyEndedCalls
  BY DEF SlotInv
<1> QED BY <1>1, SlotInvAlways, PTL

\* A live call's slot is in every set that counts it, younger than the stale
\* timeout.
LEMMA SlotInvKeepsSlots ==
  ASSUME SlotInv, StaleOutlastsCalls
  PROVE  LiveCallKeepsItsSlot
<1> SUFFICES ASSUME NEW a \in Live
             PROVE  /\ a \in Unexpired(orgSet[OrgOf[a]])
                    /\ a \in Unexpired(fleet)
                    /\ ScopeOf[a] # NoScope => a \in Unexpired(scopeSet[ScopeOf[a]])
  BY DEF LiveCallKeepsItsSlot
<1>1. a \in Attempts /\ Using(a)
  BY DEF Live, Using
<1>2. HasSlot(a)
  BY <1>1 DEF SlotInv, SlotsKept
<1> QED BY <1>1, <1>2, PruningSparesSlotsInUse DEF HasSlot

\* Nothing takes the slot from under a call in progress: no other attempt's
\* pruning, no torn or repeated release, no timeout.
THEOREM LiveCallsKeepTheirSlots ==
  ASSUME RunsAreFresh, StaleOutlastsCalls
  PROVE  Spec => []LiveCallKeepsItsSlot
<1>1. SlotInv => LiveCallKeepsItsSlot
  BY SlotInvKeepsSlots
<1> QED BY <1>1, SlotInvAlways, PTL

\* Live calls hold slots, and there are no more slots than the limits allow.
LEMMA SlotsBoundLiveCalls ==
  ASSUME SlotInv, CountersWithinLimits
  PROVE  LiveCallsWithinLimits
<1>1. \A a \in Live : a \in Attempts /\ HasSlot(a)
  BY DEF Live, SlotInv, SlotsKept, Using
<1>2. ASSUME NEW o \in Orgs
      PROVE  Cardinality({a \in Live : OrgOf[a] = o}) <= OrgLimit[o]
  <2>1. {a \in Live : OrgOf[a] = o} \subseteq orgSet[o]
    BY <1>1 DEF HasSlot
  <2>2. orgSet[o] \in SUBSET Attempts /\ OrgLimit[o] \in Nat
    BY LimitsAssumption DEF SlotInv, TypeInv, TypeOK
  <2> QED BY <2>1, <2>2, StaysWithin DEF CountersWithinLimits
<1>3. ASSUME NEW c \in Scopes
      PROVE  Cardinality({a \in Live : ScopeOf[a] = c}) <= ScopeLimit[c]
  <2>1. {a \in Live : ScopeOf[a] = c} \subseteq scopeSet[c]
    BY <1>1, SetsAssumption DEF HasSlot
  <2>2. scopeSet[c] \in SUBSET Attempts /\ ScopeLimit[c] \in Nat
    BY LimitsAssumption DEF SlotInv, TypeInv, TypeOK
  <2> QED BY <2>1, <2>2, StaysWithin DEF CountersWithinLimits
<1> QED BY <1>2, <1>3 DEF LiveCallsWithinLimits

\* The calls really in progress never exceed an organization's or a campaign's
\* limit.
THEOREM LiveCallsStayWithinLimits ==
  ASSUME RunsAreFresh, StaleOutlastsCalls
  PROVE  Spec => []LiveCallsWithinLimits
<1>1. SlotInv /\ CountersWithinLimits => LiveCallsWithinLimits
  BY SlotsBoundLiveCalls
<1> QED BY <1>1, SlotInvAlways, CountersStayWithinLimits, PTL
-----------------------------------------------------------------------------
(* Mappings lead to the slots that are counted.                            *)

Placed(a) == phase[a] \in {"bound", "live", "over"}

\* While a slot is counted its mapping is there, and does not expire before it.
MappingOutlastsSlot ==
  \A a \in Attempts :
    Placed(a) /\ age[a] < StaleTimeout /\ Scored(a)
      => mapping[RunOf[a]] = a /\ ttl[RunOf[a]] + age[a] >= StaleTimeout

\* What the commands of a release leave behind them, until the mapping goes.
Removed(w) ==
  LET s == job[w].slot IN
  job[w].step \in {"org", "fleet", "scope", "map"} =>
    /\ s \in Attempts /\ (job[w].run # NoRun => RunOf[s] = job[w].run)
    /\ job[w].step # "org" => s \notin orgSet[OrgOf[s]]
    /\ job[w].step \in {"scope", "map"} => s \notin fleet
    /\ job[w].step = "map" => ~Scored(s)

ReleasesAreInOrder == \A w \in Workers : Removed(w)

ReachInv == MappingOutlastsSlot /\ ReleasesAreInOrder

LEMMA ReachTypes ==
  ASSUME SlotInv
  PROVE  /\ orgSet \in [Orgs -> SUBSET Attempts] /\ scopeSet \in [Scopes -> SUBSET Attempts]
         /\ mapping \in [Runs -> Attempts \cup {NoSlot}] /\ phase \in [Attempts -> Phases]
         /\ job \in [Workers -> Jobs]
         /\ \A a \in Attempts : /\ age[a] \in Nat /\ RunOf[a] \in Runs /\ a # NoSlot
                                /\ RunOf[a] # NoRun /\ OrgOf[a] \in Orgs
                                /\ ScopeOf[a] \in Scopes \cup {NoScope} /\ a \in Workers
         /\ \A r \in Runs : ttl[r] \in Nat
         /\ StaleTimeout \in Nat \ {0}
         /\ \A w \in Workers : job[w].slot \in Attempts => Ended(job[w].slot)
BY SetsAssumption, CallersAssumption, LimitsAssumption
   DEF SlotInv, TypeInv, TypeOK, Workers, ReleasesOnlyEndedCalls, Ended

\* No slot of a call that has ended is put back into a set.
NothingComesBack ==
  \A s \in Attempts :
    Ended(s) => /\ s \in orgSet'[OrgOf[s]] => s \in orgSet[OrgOf[s]]
                /\ s \in fleet' => s \in fleet
                /\ Scored(s)' => Scored(s)

\* Releases that do not move in a step that puts nothing back.
LEMMA ReleasesWait ==
  ASSUME SlotInv, ReachInv, NothingComesBack, NEW w \in Workers, job'[w] = job[w]
  PROVE  Removed(w)'
<1>1. Removed(w)
  BY DEF ReachInv, ReleasesAreInOrder
<1>2. job[w].slot \in Attempts => Ended(job[w].slot)
  BY ReachTypes
<1> QED BY <1>1, <1>2 DEF Removed, NothingComesBack

\* A call that was placed and goes on in a step that leaves mappings and clocks alone.
LEMMA MappingsWait ==
  ASSUME SlotInv, ReachInv, UNCHANGED <<age, mapping, ttl>>,
         \A a \in Attempts : Placed(a)' /\ Scored(a)' => Placed(a) /\ Scored(a)
  PROVE  MappingOutlastsSlot'
BY DEF ReachInv, MappingOutlastsSlot

\* Acquiring and refusing: only a waiting call gets into a set.
LEMMA ReachAsked ==
  ASSUME SlotInv, StaleOutlastsCalls, ReachInv, NEW b \in Attempts, Acquire(b) \/ Refuse(b)
  PROVE  ReachInv'
<1>1. /\ phase[b] = "waiting" /\ phase'[b] \in {"held", "waiting", "refused"}
      /\ \A a \in Attempts \ {b} : phase'[a] = phase[a]
      /\ UNCHANGED <<age, mapping, ttl, job>>
  BY ReachTypes DEF Acquire, Refuse
<1>2. /\ \A o \in Orgs : orgSet'[o] \subseteq orgSet[o] \cup {b}
      /\ \A c \in Scopes : scopeSet'[c] \subseteq scopeSet[c] \cup {b}
      /\ fleet' \subseteq fleet \cup {b}
  BY ReachTypes DEF Acquire, Refuse, Admit, Unexpired
<1>3. \A a \in Attempts \ {b} : Scored(a)' => Scored(a)
  BY <1>2, ReachTypes DEF Scored
<1>4. ~Ended(b)
  BY <1>1 DEF Ended
<1>5. NothingComesBack
  BY <1>2, <1>3, <1>4, ReachTypes DEF NothingComesBack
<1>6. MappingOutlastsSlot'
  BY <1>1, <1>3, MappingsWait DEF Placed
<1>7. ReleasesAreInOrder'
  BY <1>1, <1>5, ReleasesWait DEF ReleasesAreInOrder
<1> QED BY <1>6, <1>7 DEF ReachInv

\* A job that begins a release, by slot or by run.
LEMMA ReleaseBegins ==
  ASSUME SlotInv, NEW w \in Workers, NEW b \in Attempts,
         job' = [job EXCEPT ![w] = ReleaseOf(b)] \/ job' = [job EXCEPT ![w] = ReleaseByRun(RunOf[b])]
  PROVE  Removed(w)' /\ \A v \in Workers \ {w} : job'[v] = job[v]
<1>1. \/ job'[w] = ReleaseOf(b) \/ job'[w] = ReleaseByRun(RunOf[b])
  BY ReachTypes
<1>2. /\ ReleaseOf(b).step = "org" /\ ReleaseOf(b).slot = b /\ ReleaseOf(b).run = NoRun
      /\ ReleaseByRun(RunOf[b]).step = "read"
  BY DEF ReleaseOf, ReleaseByRun
<1> QED BY <1>1, <1>2, ReachTypes DEF Removed

\* A call that is bound has stored its mapping; one that goes on has had it.
LEMMA ReachMovedOn ==
  ASSUME SlotInv, RunsAreFresh, ReachInv, NEW b \in Attempts,
         \/ Bind(b) \/ BindFails(b) \/ Abandon(b) \/ Connect(b) \/ NotConnected(b) \/ HangUp(b)
         \/ \E k \in Callbacks : Callback(k, b)
  PROVE  ReachInv'
<1>1. UNCHANGED <<orgSet, scopeSet, fleet, age>>
  BY DEF Bind, BindFails, Abandon, Connect, NotConnected, HangUp, Callback, redis
<1>2. \A a \in Attempts : Scored(a)' <=> Scored(a)
  BY <1>1 DEF Scored
<1>3. NothingComesBack
  BY <1>1, <1>2 DEF NothingComesBack
<1>4. ReleasesAreInOrder'
  <2>1. \/ job' = job
        \/ \E w \in Workers : \/ job' = [job EXCEPT ![w] = ReleaseOf(b)]
                              \/ job' = [job EXCEPT ![w] = ReleaseByRun(RunOf[b])]
    BY ReachTypes DEF Bind, BindFails, Abandon, Connect, NotConnected, HangUp, Callback, Workers
  <2>2. CASE job' = job
    BY <1>3, <2>2, ReleasesWait DEF ReleasesAreInOrder
  <2>3. ASSUME NEW w \in Workers, \/ job' = [job EXCEPT ![w] = ReleaseOf(b)]
                                  \/ job' = [job EXCEPT ![w] = ReleaseByRun(RunOf[b])]
        PROVE  ReleasesAreInOrder'
    <3>1. Removed(w)' /\ \A v \in Workers \ {w} : job'[v] = job[v]
      BY <2>3, ReleaseBegins
    <3>2. \A v \in Workers \ {w} : Removed(v)'
      BY <1>3, <3>1, ReleasesWait
    <3> QED BY <3>1, <3>2 DEF ReleasesAreInOrder
  <2> QED BY <2>1, <2>2, <2>3
<1>5. MappingOutlastsSlot'
  <2>1. CASE Bind(b)
    <3>1. /\ mapping'[RunOf[b]] = b /\ ttl'[RunOf[b]] = StaleTimeout
          /\ \A r \in Runs \ {RunOf[b]} : mapping'[r] = mapping[r] /\ ttl'[r] = ttl[r]
          /\ \A a \in Attempts \ {b} : phase'[a] = phase[a]
      <4>1. ttl \in [Runs -> 0 .. StaleTimeout]
        BY DEF SlotInv, TypeInv, TypeOK
      <4> QED BY <2>1, <4>1, ReachTypes DEF Bind, Store
    <3>2. \A a \in Attempts \ {b} : RunOf[a] # RunOf[b]
      BY DEF RunsAreFresh
    <3>3. ttl'[RunOf[b]] + age'[b] >= StaleTimeout
      BY <1>1, <3>1, ReachTypes
    <3> QED BY <1>1, <1>2, <3>1, <3>2, <3>3, ReachTypes
            DEF ReachInv, MappingOutlastsSlot, Placed
  <2>2. CASE BindFails(b)
    <3>1. /\ \A r \in Runs \ {RunOf[b]} : mapping'[r] = mapping[r] /\ ttl'[r] = ttl[r]
          /\ \A a \in Attempts \ {b} : phase'[a] = phase[a]
          /\ phase'[b] = "refused"
      <4>1. ttl \in [Runs -> 0 .. StaleTimeout]
        BY DEF SlotInv, TypeInv, TypeOK
      <4> QED BY <2>2, <4>1, ReachTypes DEF BindFails, Store
    <3>2. \A a \in Attempts \ {b} : RunOf[a] # RunOf[b]
      BY DEF RunsAreFresh
    <3> QED BY <1>1, <1>2, <3>1, <3>2, ReachTypes
            DEF ReachInv, MappingOutlastsSlot, Placed
  <2>3. CASE \/ Abandon(b) \/ Connect(b) \/ NotConnected(b) \/ HangUp(b)
             \/ \E k \in Callbacks : Callback(k, b)
    <3>1. UNCHANGED <<mapping, ttl>>
      BY <2>3 DEF Abandon, Connect, NotConnected, HangUp, Callback, redis
    <3>2. \A a \in Attempts : Placed(a)' => Placed(a)
      BY <2>3, ReachTypes DEF Abandon, Connect, NotConnected, HangUp, Callback, Placed
    <3> QED BY <1>1, <1>2, <3>1, <3>2, MappingsWait
  <2> QED BY <2>1, <2>2, <2>3
<1> QED BY <1>4, <1>5 DEF ReachInv

\* A worker whose job moves one command on in the order of a release.
LEMMA StepTaken ==
  ASSUME SlotInv, NEW w \in Workers, NEW next \in Steps \ {"idle"}, Goto(w, next)
  PROVE  /\ job'[w].step = next /\ job'[w].run = job[w].run /\ job'[w].slot = job[w].slot
         /\ \A v \in Workers \ {w} : job'[v] = job[v]
<1>1. job[w] \in Jobs
  BY ReachTypes
<1>2. job'[w] = [job[w] EXCEPT !.step = next] /\ \A v \in Workers \ {w} : job'[v] = job[v]
  BY ReachTypes DEF Goto
<1> QED BY <1>1, <1>2 DEF Jobs

\* A worker that stops owes nothing.
LEMMA StepsEnd ==
  ASSUME SlotInv, NEW w \in Workers, Goto(w, "idle")
  PROVE  Removed(w)' /\ \A v \in Workers \ {w} : job'[v] = job[v]
<1>1. job'[w] = Idle /\ \A v \in Workers \ {w} : job'[v] = job[v]
  BY ReachTypes DEF Goto
<1> QED BY <1>1 DEF Removed, Idle

\* One worker moves, nothing comes back, and the others wait.
LEMMA OneReleaseMoves ==
  ASSUME SlotInv, ReachInv, NothingComesBack, NEW w \in Workers, Removed(w)',
         \A v \in Workers \ {w} : job'[v] = job[v]
  PROVE  ReleasesAreInOrder'
BY ReleasesWait DEF ReleasesAreInOrder

\* What a set loses is not put back, and no counted slot appears.
LEMMA ShrinkingPutsNothingBack ==
  ASSUME SlotInv,
         \A o \in Orgs : orgSet'[o] \subseteq orgSet[o],
         \A c \in Scopes : scopeSet'[c] \subseteq scopeSet[c],
         fleet' \subseteq fleet
  PROVE  NothingComesBack /\ \A a \in Attempts : Scored(a)' => Scored(a)
<1>1. \A a \in Attempts : Scored(a)' => Scored(a)
  BY ReachTypes DEF Scored
<1> QED BY <1>1, ReachTypes DEF NothingComesBack

\* The release proper is done: its slot is in no set.
LEMMA ReleaseProperEnds ==
  ASSUME SlotInv, NEW w \in Workers, NEW s \in Attempts, s = job[w].slot,
         job[w].run # NoRun => RunOf[s] = job[w].run,
         Goto(w, AfterRelease(w)), ~Scored(s)',
         s \notin orgSet'[OrgOf[s]], s \notin fleet'
  PROVE  Removed(w)' /\ \A v \in Workers \ {w} : job'[v] = job[v]
<1>1. CASE job[w].run = NoRun
  <2>1. Goto(w, "idle")
    BY <1>1 DEF AfterRelease
  <2> QED BY <2>1, StepsEnd
<1>2. CASE job[w].run # NoRun
  <2>1. Goto(w, "map") /\ "map" \in Steps \ {"idle"}
    BY <1>2 DEF AfterRelease, Steps
  <2>2. /\ job'[w].step = "map" /\ job'[w].run = job[w].run /\ job'[w].slot = s
        /\ \A v \in Workers \ {w} : job'[v] = job[v]
    BY <2>1, StepTaken
  <2> QED BY <1>2, <2>2 DEF Removed
<1> QED BY <1>1, <1>2

\* A release that reads its mapping learns the slot of its own run.
LEMMA ReachReadMapping ==
  ASSUME SlotInv, ReachInv, NEW w \in Workers, ReadMapping(w)
  PROVE  ReachInv'
<1>1. NothingComesBack /\ \A a \in Attempts : Scored(a)' => Scored(a)
  BY ShrinkingPutsNothingBack DEF ReadMapping, redis
<1>2. MappingOutlastsSlot'
  BY <1>1, MappingsWait DEF ReadMapping, redis, Placed
<1>3. job[w].step = "read" /\ job[w] \in Jobs /\ job[w].run \in Runs
  BY ReachTypes DEF ReadMapping, SlotInv, TypeInv, JobsHaveRuns
<1> DEFINE s == mapping[job[w].run]
<1>4. CASE s = NoSlot
  <2>1. job'[w] = Idle /\ \A v \in Workers \ {w} : job'[v] = job[v]
    BY <1>4, ReachTypes DEF ReadMapping
  <2>2. Removed(w)'
    BY <2>1 DEF Removed, Idle
  <2> QED BY <1>1, <1>2, <2>1, <2>2, OneReleaseMoves DEF ReachInv
<1>5. CASE s # NoSlot
  <2>1. s \in Attempts /\ RunOf[s] = job[w].run
    BY <1>3, <1>5, ReachTypes DEF SlotInv, MappingsLeadHome
  <2>2. /\ job'[w] = [job[w] EXCEPT !.step = "org", !.slot = s]
        /\ \A v \in Workers \ {w} : job'[v] = job[v]
    BY <1>5, ReachTypes DEF ReadMapping
  <2>3. job'[w].step = "org" /\ job'[w].slot = s /\ job'[w].run = job[w].run
    BY <1>3, <2>2 DEF Jobs
  <2>4. Removed(w)'
    BY <2>1, <2>3 DEF Removed
  <2> QED BY <1>1, <1>2, <2>2, <2>4, OneReleaseMoves DEF ReachInv
<1> QED BY <1>4, <1>5

\* The removals, in their order.
LEMMA ReachRemove ==
  ASSUME SlotInv, ReachInv, NEW w \in Workers,
         RemoveFromOrg(w) \/ RemoveFromFleet(w) \/ RemoveFromScope(w)
  PROVE  ReachInv'
<1>1. /\ \A o \in Orgs : orgSet'[o] \subseteq orgSet[o]
      /\ \A c \in Scopes : scopeSet'[c] \subseteq scopeSet[c]
      /\ fleet' \subseteq fleet
      /\ UNCHANGED <<age, mapping, ttl, phase>>
  BY ReachTypes DEF RemoveFromOrg, RemoveFromFleet, RemoveFromScope
<1>2. NothingComesBack /\ \A a \in Attempts : Scored(a)' => Scored(a)
  BY <1>1, ShrinkingPutsNothingBack
<1>3. MappingOutlastsSlot'
  BY <1>1, <1>2, MappingsWait DEF Placed
<1>4. job[w].step \in {"org", "fleet", "scope"}
  BY DEF RemoveFromOrg, RemoveFromFleet, RemoveFromScope
<1>s. PICK s \in Attempts : s = job[w].slot
  BY <1>4 DEF ReachInv, ReleasesAreInOrder, Removed
<1>5. /\ job[w].run # NoRun => RunOf[s] = job[w].run
      /\ job[w].step # "org" => s \notin orgSet[OrgOf[s]]
      /\ job[w].step = "scope" => s \notin fleet
  BY <1>4, <1>s DEF ReachInv, ReleasesAreInOrder, Removed
<1>6. OrgOf[s] \in Orgs /\ ScopeOf[s] \in Scopes \cup {NoScope}
  BY ReachTypes
<1>7. Removed(w)' /\ \A v \in Workers \ {w} : job'[v] = job[v]
  <2>1. CASE RemoveFromOrg(w)
    <3>1. s \notin orgSet'[OrgOf[s]]
      BY <1>6, <1>s, <2>1, ReachTypes DEF RemoveFromOrg
    <3>2. /\ job'[w].step = "fleet" /\ job'[w].run = job[w].run /\ job'[w].slot = s
          /\ \A v \in Workers \ {w} : job'[v] = job[v]
      BY <1>s, <2>1, StepTaken DEF RemoveFromOrg, Steps
    <3> QED BY <1>5, <1>s, <3>1, <3>2 DEF Removed
  <2>2. CASE RemoveFromFleet(w)
    <3>1. s \notin orgSet'[OrgOf[s]] /\ s \notin fleet'
      BY <1>5, <1>s, <2>2 DEF RemoveFromFleet
    <3>2. CASE ScopeOf[s] = NoScope
      <4>1. ~Scored(s)' /\ Goto(w, AfterRelease(w))
        BY <1>s, <2>2, <3>1, <3>2 DEF RemoveFromFleet, Scored
      <4> QED BY <1>5, <1>s, <3>1, <4>1, ReleaseProperEnds
    <3>3. CASE ScopeOf[s] # NoScope
      <4>1. Goto(w, "scope") /\ "scope" \in Steps \ {"idle"}
        BY <1>s, <2>2, <3>3 DEF RemoveFromFleet, Steps
      <4>2. /\ job'[w].step = "scope" /\ job'[w].run = job[w].run /\ job'[w].slot = s
            /\ \A v \in Workers \ {w} : job'[v] = job[v]
        BY <1>s, <4>1, StepTaken
      <4> QED BY <1>5, <1>s, <3>1, <4>2 DEF Removed
    <3> QED BY <3>2, <3>3
  <2>3. CASE RemoveFromScope(w)
    <3>1. s \notin orgSet'[OrgOf[s]] /\ s \notin fleet'
      BY <1>5, <1>s, <2>3 DEF RemoveFromScope
    <3>2. ScopeOf[s] # NoScope => s \notin scopeSet'[ScopeOf[s]]
      BY <1>6, <1>s, <2>3, ReachTypes DEF RemoveFromScope
    <3>3. ~Scored(s)' /\ Goto(w, AfterRelease(w))
      BY <1>s, <2>3, <3>1, <3>2 DEF RemoveFromScope, Scored
    <3> QED BY <1>5, <1>s, <3>1, <3>3, ReleaseProperEnds
  <2> QED BY <2>1, <2>2, <2>3
<1> QED BY <1>2, <1>3, <1>7, OneReleaseMoves DEF ReachInv

\* The mapping goes last, when its slot is in no set any more.
LEMMA ReachDeleteMapping ==
  ASSUME SlotInv, ReachInv, RunsAreFresh, NEW w \in Workers, DeleteMapping(w)
  PROVE  ReachInv'
<1> DEFINE s == job[w].slot
<1>1. NothingComesBack /\ \A a \in Attempts : Scored(a)' => Scored(a)
  BY ShrinkingPutsNothingBack DEF DeleteMapping
<1>2. Removed(w)' /\ \A v \in Workers \ {w} : job'[v] = job[v]
  BY StepsEnd DEF DeleteMapping
<1>3. job[w].step = "map" /\ job[w].run \in Runs
  BY DEF DeleteMapping, SlotInv, TypeInv, JobsHaveRuns
<1>4. s \in Attempts /\ RunOf[s] = job[w].run /\ ~Scored(s)
  BY <1>3, SetsAssumption DEF ReachInv, ReleasesAreInOrder, Removed
<1>5. \A a \in Attempts \ {s} : RunOf[a] # job[w].run
  BY <1>4 DEF RunsAreFresh
<1>6. \A r \in Runs \ {job[w].run} : mapping'[r] = mapping[r] /\ ttl'[r] = ttl[r]
  <2>1. ttl \in [Runs -> 0 .. StaleTimeout]
    BY DEF SlotInv, TypeInv, TypeOK
  <2> QED BY <2>1, ReachTypes DEF DeleteMapping
<1>7. UNCHANGED <<phase, age>>
  BY DEF DeleteMapping
<1>8. MappingOutlastsSlot'
  BY <1>1, <1>4, <1>5, <1>6, <1>7, ReachTypes DEF ReachInv, MappingOutlastsSlot, Placed
<1> QED BY <1>1, <1>2, <1>8, OneReleaseMoves DEF ReachInv

\* A release that is cut off leaves its slot and its mapping as they are.
LEMMA ReachInterrupt ==
  ASSUME SlotInv, ReachInv, NEW w \in Workers, Interrupt(w)
  PROVE  ReachInv'
<1>1. NothingComesBack /\ \A a \in Attempts : Scored(a)' => Scored(a)
  BY ShrinkingPutsNothingBack DEF Interrupt, redis
<1>2. Removed(w)' /\ \A v \in Workers \ {w} : job'[v] = job[v]
  BY StepsEnd DEF Interrupt
<1>3. MappingOutlastsSlot'
  BY <1>1, MappingsWait DEF Interrupt, redis, Placed
<1> QED BY <1>1, <1>2, <1>3, OneReleaseMoves DEF ReachInv

\* A tick takes as much from the mapping's time as it adds to the slot's age.
LEMMA ReachTick ==
  ASSUME SlotInv, ReachInv, Tick
  PROVE  ReachInv'
<1>1. NothingComesBack /\ \A a \in Attempts : Scored(a)' => Scored(a)
  BY ShrinkingPutsNothingBack DEF Tick
<1>2. ReleasesAreInOrder'
  BY <1>1, ReleasesWait DEF Tick, ReleasesAreInOrder
<1>3. ASSUME NEW a \in Attempts, Placed(a)', age'[a] < StaleTimeout, Scored(a)'
      PROVE  mapping'[RunOf[a]] = a /\ ttl'[RunOf[a]] + age'[a] >= StaleTimeout
  <2>1. Placed(a) /\ Scored(a)
    BY <1>1, <1>3 DEF Tick, Placed
  <2>2. /\ age[a] \in Nat /\ StaleTimeout \in Nat /\ RunOf[a] \in Runs
        /\ ttl[RunOf[a]] \in Nat
    BY ReachTypes
  <2>3. age'[a] = Older(a)
    BY <2>1 DEF Tick
  <2>4. age[a] < StaleTimeout /\ age'[a] = age[a] + 1
    BY <1>3, <2>2, <2>3 DEF Older
  <2>5. mapping[RunOf[a]] = a /\ ttl[RunOf[a]] + age[a] >= StaleTimeout
    BY <2>1, <2>4 DEF ReachInv, MappingOutlastsSlot
  <2>6. ttl[RunOf[a]] >= 2
    BY <1>3, <2>2, <2>4, <2>5
  <2>7. mapping'[RunOf[a]] = mapping[RunOf[a]] /\ ttl'[RunOf[a]] = ttl[RunOf[a]] - 1
    BY <2>2, <2>6 DEF Tick
  <2> QED BY <2>2, <2>4, <2>5, <2>7
<1>4. MappingOutlastsSlot'
  BY <1>3 DEF MappingOutlastsSlot
<1> QED BY <1>2, <1>4 DEF ReachInv

\* Nothing is placed and no release runs at the start.
LEMMA ReachInit == Init => ReachInv
<1> SUFFICES ASSUME Init PROVE ReachInv
  OBVIOUS
<1>1. \A a \in Attempts : ~Placed(a)
  BY DEF Init, Placed
<1>2. \A w \in Workers : job[w].step = "idle"
  BY DEF Init, Idle
<1> QED BY <1>1, <1>2 DEF ReachInv, MappingOutlastsSlot, ReleasesAreInOrder, Removed

\* ReachInv is inductive beside SlotInv.
LEMMA ReachInvNext ==
  ASSUME SlotInv, ReachInv, [Next]_vars, RunsAreFresh, StaleOutlastsCalls
  PROVE  ReachInv'
<1>1. CASE UNCHANGED vars
  <2>1. NothingComesBack /\ \A a \in Attempts : Scored(a)' => Scored(a)
    BY <1>1, ShrinkingPutsNothingBack DEF vars
  <2>2. MappingOutlastsSlot'
    BY <1>1, <2>1, MappingsWait DEF vars, Placed
  <2>3. ReleasesAreInOrder'
    BY <1>1, <2>1, ReleasesWait DEF vars, ReleasesAreInOrder
  <2> QED BY <2>2, <2>3 DEF ReachInv
<1>2. ASSUME NEW a \in Attempts, Caller(a)
      PROVE  ReachInv'
  BY <1>2, ReachAsked, ReachMovedOn DEF Caller
<1>3. ASSUME NEW k \in Callbacks, NEW a \in Attempts, Callback(k, a)
      PROVE  ReachInv'
  BY <1>3, ReachMovedOn
<1>4. ASSUME NEW w \in Workers, Release(w)
      PROVE  ReachInv'
  BY <1>4, ReachReadMapping, ReachRemove, ReachDeleteMapping, ReachInterrupt DEF Release
<1> QED BY <1>1, <1>2, <1>3, <1>4, ReachTick DEF Next

\* No bound slot is orphaned: while any set still counts the slot of a placed
\* call, the mapping of its run leads to it, wherever its releases were cut
\* off, so that the next cleanup path can give it back.
THEOREM CountedSlotsAreReachable ==
  ASSUME RunsAreFresh, StaleOutlastsCalls
  PROVE  Spec => []CountedSlotIsReachable
<1>1. SlotInv /\ ReachInv /\ [Next]_vars => ReachInv'
  BY ReachInvNext
<1>2. ReachInv => CountedSlotIsReachable
  BY DEF ReachInv, MappingOutlastsSlot, CountedSlotIsReachable, Placed
<1> QED BY <1>1, <1>2, ReachInit, SlotInvAlways, PTL DEF Spec

-----------------------------------------------------------------------------
(* The refinement of CallAdmission, and the fleet-wide count.  Beyond       *)
(* SlotInv this needs the order of the release's commands: the              *)
(* organization's set is always the first to forget a slot.                 *)

OrgEntriesAreOwn == \A o \in Orgs : \A b \in orgSet[o] : OrgOf[b] = o

\* A release that has got to the fleet or the scope has been at the organization.
OrgGoesFirst ==
  \A w \in Workers : /\ job[w].step \in {"fleet", "scope"}
                     /\ job[w].slot \in Attempts
                     => job[w].slot \notin orgSet[OrgOf[job[w].slot]]

Counted(b) == b \in orgSet[OrgOf[b]] /\ age[b] < StaleTimeout

CountedEverywhere ==
  \A b \in Attempts :
    Counted(b) => /\ b \in fleet
                  /\ ScopeOf[b] # NoScope => b \in scopeSet[ScopeOf[b]]

CoverInv == OrgEntriesAreOwn /\ OrgGoesFirst /\ CountedEverywhere

\* Every set is empty and every worker idle at the start.
LEMMA CoverInit == Init => CoverInv
BY CallersAssumption
   DEF Init, CoverInv, OrgEntriesAreOwn, OrgGoesFirst, CountedEverywhere, Counted, Idle

\* Steps that leave the sets and ages alone and send no release to the fleet or
\* the scope.
LEMMA CoverSetsUntouched ==
  ASSUME CoverInv, UNCHANGED <<orgSet, scopeSet, fleet, age>>,
         \A w \in Workers : job'[w].step \in {"fleet", "scope"} => job'[w] = job[w]
  PROVE  CoverInv'
BY DEF CoverInv, OrgEntriesAreOwn, OrgGoesFirst, CountedEverywhere, Counted

\* The script adds a slot to all its sets at once, and no release is for it.
LEMMA CoverAcquire ==
  ASSUME SlotInv, CoverInv, NEW a \in Attempts, Acquire(a)
  PROVE  CoverInv'
<1>1. /\ orgSet' = [orgSet EXCEPT ![OrgOf[a]] = Unexpired(@) \cup {a}]
      /\ orgSet \in [Orgs -> SUBSET Attempts]
      /\ scopeSet' = [c \in Scopes |-> IF c = ScopeOf[a]
                                       THEN Unexpired(scopeSet[c]) \cup {a}
                                       ELSE scopeSet[c]]
      /\ fleet' = Unexpired(fleet) \cup {a}
      /\ phase[a] = "waiting"
      /\ UNCHANGED <<age, job>>
  BY DEF Acquire, Admit, SlotInv, TypeInv, TypeOK
<1>2. \A b \in Attempts : OrgOf[b] \in Orgs /\ ScopeOf[b] \in Scopes \cup {NoScope}
  BY CallersAssumption
<1>3. OrgEntriesAreOwn'
  BY <1>1, <1>2 DEF CoverInv, OrgEntriesAreOwn, Unexpired
<1>4. OrgGoesFirst'
  <2> SUFFICES ASSUME NEW w \in Workers, job[w].step \in {"fleet", "scope"},
                      job[w].slot \in Attempts
               PROVE  job[w].slot \notin orgSet'[OrgOf[job[w].slot]]
    BY <1>1 DEF OrgGoesFirst
  <2>1. job[w].slot # a
    BY <1>1 DEF SlotInv, ReleasesOnlyEndedCalls
  <2>2. job[w].slot \notin orgSet[OrgOf[job[w].slot]]
    BY DEF CoverInv, OrgGoesFirst
  <2> QED BY <1>1, <1>2, <2>1, <2>2 DEF Unexpired
<1>5. CountedEverywhere'
  <2> SUFFICES ASSUME NEW b \in Attempts, Counted(b)'
               PROVE  b \in fleet' /\ (ScopeOf[b] # NoScope => b \in scopeSet'[ScopeOf[b]])
    BY DEF CountedEverywhere
  <2>1. CASE b = a
    BY <1>1, <1>2, <2>1
  <2>2. CASE b # a
    <3>1. Counted(b)
      BY <1>1, <1>2, <2>2 DEF Counted, Unexpired
    <3> QED BY <1>1, <1>2, <3>1 DEF CoverInv, CountedEverywhere, Counted, Unexpired
  <2> QED BY <2>1, <2>2
<1> QED BY <1>3, <1>4, <1>5 DEF CoverInv

\* Pruning takes a slot out of a set only when it no longer counts anywhere.
LEMMA CoverRefuse ==
  ASSUME SlotInv, CoverInv, NEW a \in Attempts, Refuse(a)
  PROVE  CoverInv'
<1>1. /\ orgSet' = [orgSet EXCEPT ![OrgOf[a]] = Unexpired(@)]
      /\ orgSet \in [Orgs -> SUBSET Attempts]
      /\ scopeSet' = [c \in Scopes |-> IF c = ScopeOf[a] /\ ~OrgFull(a)
                                       THEN Unexpired(scopeSet[c])
                                       ELSE scopeSet[c]]
      /\ UNCHANGED <<fleet, age, job>>
  BY DEF Refuse, SlotInv, TypeInv, TypeOK
<1>2. \A b \in Attempts : OrgOf[b] \in Orgs /\ ScopeOf[b] \in Scopes \cup {NoScope}
  BY CallersAssumption
<1>3. \A b \in Attempts : b \in orgSet'[OrgOf[b]] => b \in orgSet[OrgOf[b]]
  BY <1>1, <1>2 DEF Unexpired
<1>4. OrgEntriesAreOwn'
  BY <1>1 DEF CoverInv, OrgEntriesAreOwn, Unexpired
<1>5. OrgGoesFirst'
  BY <1>1, <1>3 DEF CoverInv, OrgGoesFirst
<1>6. CountedEverywhere'
  <2> SUFFICES ASSUME NEW b \in Attempts, Counted(b)'
               PROVE  b \in fleet' /\ (ScopeOf[b] # NoScope => b \in scopeSet'[ScopeOf[b]])
    BY DEF CountedEverywhere
  <2>1. Counted(b)
    BY <1>1, <1>3 DEF Counted
  <2>2. b \in fleet /\ (ScopeOf[b] # NoScope => b \in scopeSet[ScopeOf[b]])
    BY <2>1 DEF CoverInv, CountedEverywhere
  <2> QED BY <1>1, <1>2, <2>1, <2>2 DEF Counted, Unexpired
<1> QED BY <1>4, <1>5, <1>6 DEF CoverInv

\* A worker's job after Goto.
LEMMA GotoJobs ==
  ASSUME SlotInv, NEW w \in Workers, NEW next \in Steps, Goto(w, next)
  PROVE  /\ \A v \in Workers \ {w} : job'[v] = job[v]
         /\ job'[w].step = next
         /\ next # "idle" => job'[w].slot = job[w].slot
<1>1. job \in [Workers -> Jobs] /\ job[w] \in Jobs
  BY DEF SlotInv, TypeInv, TypeOK
<1>2. \A v \in Workers \ {w} : job'[v] = job[v]
  BY <1>1 DEF Goto
<1>3. CASE next = "idle"
  BY <1>1, <1>2, <1>3 DEF Goto, Idle
<1>4. CASE next # "idle"
  <2>1. job'[w] = [job[w] EXCEPT !.step = next]
    BY <1>1, <1>4 DEF Goto
  <2>2. job'[w].step = next /\ job'[w].slot = job[w].slot
    BY <1>1, <2>1 DEF Jobs
  <2> QED BY <1>2, <2>2
<1> QED BY <1>3, <1>4

\* The organization's set is the first to forget.
LEMMA CoverRemoveFromOrg ==
  ASSUME SlotInv, CoverInv, NEW w \in Workers, RemoveFromOrg(w)
  PROVE  CoverInv'
<1> DEFINE s == job[w].slot
<1>1. /\ orgSet' = [orgSet EXCEPT ![OrgOf[s]] = @ \ {s}]
      /\ orgSet \in [Orgs -> SUBSET Attempts]
      /\ UNCHANGED <<scopeSet, fleet, age>>
  BY DEF RemoveFromOrg, SlotInv, TypeInv, TypeOK
<1>2. \A b \in Attempts : OrgOf[b] \in Orgs
  BY CallersAssumption
<1>3. /\ \A v \in Workers \ {w} : job'[v] = job[v]
      /\ job'[w].step = "fleet" /\ job'[w].slot = s
  BY GotoJobs DEF RemoveFromOrg, Steps
<1>4. OrgEntriesAreOwn'
  BY <1>1 DEF CoverInv, OrgEntriesAreOwn
<1>5. \A b \in Attempts : b \in orgSet'[OrgOf[b]] => b \in orgSet[OrgOf[b]] /\ b # s
  BY <1>1, <1>2
<1>6. OrgGoesFirst'
  BY <1>3, <1>5 DEF CoverInv, OrgGoesFirst
<1>7. CountedEverywhere'
  BY <1>1, <1>5 DEF CoverInv, CountedEverywhere, Counted
<1> QED BY <1>4, <1>6, <1>7 DEF CoverInv

\* The fleet and the scope forget a slot the organization has forgotten.
LEMMA CoverRemoveElsewhere ==
  ASSUME SlotInv, CoverInv, NEW w \in Workers, RemoveFromFleet(w) \/ RemoveFromScope(w)
  PROVE  CoverInv'
<1> DEFINE s == job[w].slot
<1>1. /\ UNCHANGED <<orgSet, age>>
      /\ fleet' \in {fleet, fleet \ {s}}
      /\ \A c \in Scopes : scopeSet'[c] \in {scopeSet[c], scopeSet[c] \ {s}}
  BY DEF RemoveFromFleet, RemoveFromScope, SlotInv, TypeInv, TypeOK
<1>2. \A b \in Attempts : ScopeOf[b] \in Scopes \cup {NoScope}
  BY CallersAssumption
<1>3. job[w].step \in {"fleet", "scope"} /\ AfterRelease(w) \in {"idle", "map"}
  BY DEF RemoveFromFleet, RemoveFromScope, AfterRelease
<1>4. \A b \in Attempts : Counted(b) => b # s
  BY <1>3 DEF CoverInv, OrgGoesFirst, Counted
<1>5. OrgEntriesAreOwn'
  BY <1>1 DEF CoverInv, OrgEntriesAreOwn
<1>6. OrgGoesFirst'
  <2>1. PICK next \in Steps : Goto(w, next)
    BY <1>3 DEF RemoveFromFleet, RemoveFromScope, Steps
  <2>2. /\ \A v \in Workers \ {w} : job'[v] = job[v]
        /\ job'[w].step # "idle" => job'[w].slot = s
    BY <2>1, GotoJobs
  <2> QED BY <1>1, <1>3, <2>2 DEF CoverInv, OrgGoesFirst
<1>7. CountedEverywhere'
  <2> SUFFICES ASSUME NEW b \in Attempts, Counted(b)
               PROVE  b \in fleet' /\ (ScopeOf[b] # NoScope => b \in scopeSet'[ScopeOf[b]])
    BY <1>1 DEF CountedEverywhere, Counted
  <2> QED BY <1>1, <1>2, <1>4 DEF CoverInv, CountedEverywhere
<1> QED BY <1>5, <1>6, <1>7 DEF CoverInv

\* Slots only get older.
LEMMA CoverTick ==
  ASSUME SlotInv, CoverInv, Tick
  PROVE  CoverInv' /\ \A b \in Attempts : Counted(b)' => Counted(b)
<1>1. UNCHANGED <<orgSet, scopeSet, fleet, job>>
  BY DEF Tick
<1>2. ASSUME NEW b \in Attempts, Counted(b)'
      PROVE  Counted(b)
  <2>1. Scored(b) /\ age[b] \in Nat /\ StaleTimeout \in Nat
    BY <1>1, <1>2, LimitsAssumption DEF Counted, Scored, SlotInv, TypeInv, TypeOK
  <2>2. age'[b] = Older(b)
    BY <2>1 DEF Tick
  <2> QED BY <1>1, <1>2, <2>1, <2>2 DEF Counted, Older
<1>3. CoverInv'
  BY <1>1, <1>2 DEF CoverInv, OrgEntriesAreOwn, OrgGoesFirst, CountedEverywhere
<1> QED BY <1>2, <1>3

\* The steps that CoverSetsUntouched is about.
SetsUntouched ==
  \/ \E a \in Attempts : \/ Bind(a) \/ BindFails(a) \/ Abandon(a)
                         \/ Connect(a) \/ NotConnected(a) \/ HangUp(a)
  \/ \E k \in Callbacks, a \in Attempts : Callback(k, a)
  \/ \E w \in Workers : ReadMapping(w) \/ DeleteMapping(w) \/ Interrupt(w)
  \/ UNCHANGED vars

\* The steps that leave the sets alone keep the fleet above the organizations.
LEMMA CoverOther ==
  ASSUME SlotInv, CoverInv, SetsUntouched
  PROVE  CoverInv'
<1>1. UNCHANGED <<orgSet, scopeSet, fleet, age>>
  BY DEF SetsUntouched, Bind, BindFails, Abandon, Connect, NotConnected, HangUp,
         Callback, ReadMapping, DeleteMapping, Interrupt, redis, vars
<1>2. job \in [Workers -> Jobs]
  BY DEF SlotInv, TypeInv, TypeOK
<1>3. ASSUME NEW v \in Workers, job'[v].step \in {"fleet", "scope"}
      PROVE  job'[v] = job[v]
  <2>1. CASE \E w \in Workers, a \in Attempts :
               job' = [job EXCEPT ![w] = ReleaseByRun(RunOf[a])]
    BY <1>2, <1>3, <2>1 DEF ReleaseByRun
  <2>2. CASE \E w \in Workers, a \in Attempts : job' = [job EXCEPT ![w] = ReleaseOf(a)]
    BY <1>2, <1>3, <2>2 DEF ReleaseOf
  <2>3. CASE \E w \in Workers : Goto(w, "idle")
    BY <1>2, <1>3, <2>3 DEF Goto, Idle
  <2>4. CASE UNCHANGED job
    BY <2>4
  <2>5. ASSUME NEW w \in Workers, ReadMapping(w)
        PROVE  job'[v] = job[v]
    <3>1. CASE v # w
      BY <1>2, <2>5, <3>1 DEF ReadMapping
    <3>2. CASE v = w
      <4> DEFINE m == mapping[job[w].run]
      <4>1. job'[w] = IF m = NoSlot THEN Idle
                      ELSE [job[w] EXCEPT !.step = "org", !.slot = m]
        BY <1>2, <2>5 DEF ReadMapping
      <4>2. job'[w].step \in {"idle", "org"}
        BY <1>2, <4>1 DEF Idle, Jobs
      <4> QED BY <1>3, <3>2, <4>2
    <3> QED BY <3>1, <3>2
  <2> QED BY <2>1, <2>2, <2>3, <2>4, <2>5
          DEF SetsUntouched, Bind, BindFails, Abandon, Connect, NotConnected, HangUp,
              Callback, DeleteMapping, Interrupt, vars, Workers
<1> QED BY <1>1, <1>3, CoverSetsUntouched

\* So does every step.
LEMMA CoverNext ==
  ASSUME SlotInv, CoverInv, [Next]_vars
  PROVE  CoverInv'
<1>1. CASE SetsUntouched
  BY <1>1, CoverOther
<1> QED BY <1>1, CoverAcquire, CoverRefuse, CoverRemoveFromOrg, CoverRemoveElsewhere,
           CoverTick
        DEF Next, Caller, Release, SetsUntouched

\* Both invariants hold in every reachable state.
LEMMA CoverAlways ==
  ASSUME RunsAreFresh, StaleOutlastsCalls
  PROVE  Spec => [](SlotInv /\ CoverInv)
<1>1. SlotInv /\ CoverInv /\ [Next]_vars => (SlotInv /\ CoverInv)'
  BY SlotInvNext, CoverNext
<1>2. Init => SlotInv /\ CoverInv
  BY SlotInvInit, CoverInit
<1> QED BY <1>1, <1>2, PTL DEF Spec

-----------------------------------------------------------------------------
(* The fleet.                                                              *)

\* In a reachable state the fleet has what the organizations count, and its
\* count is no less than the calls in progress.
LEMMA CoverCoversOrgs ==
  ASSUME SlotInv, CoverInv, StaleOutlastsCalls
  PROVE  FleetCoversOrgs
<1>1. ASSUME NEW o \in Orgs
      PROVE  Unexpired(orgSet[o]) \subseteq fleet
  <2> SUFFICES ASSUME NEW b \in Unexpired(orgSet[o]) PROVE b \in fleet
    OBVIOUS
  <2>1. b \in Attempts /\ OrgOf[b] = o
    BY DEF Unexpired, SlotInv, TypeInv, TypeOK, CoverInv, OrgEntriesAreOwn
  <2> QED BY <2>1 DEF Unexpired, CoverInv, CountedEverywhere, Counted
<1>2. Cardinality(Live) <= FleetCount
  <2>1. Live \subseteq Unexpired(fleet)
    BY SlotInvKeepsSlots DEF LiveCallKeepsItsSlot
  <2>2. IsFiniteSet(Unexpired(fleet))
    <3>1. Unexpired(fleet) \subseteq Attempts
      BY DEF Unexpired, SlotInv, TypeInv, TypeOK
    <3> QED BY <3>1, SetsAssumption, FS_Subset
  <2> QED BY <2>1, <2>2, FS_Subset DEF FleetCount
<1> QED BY <1>1, <1>2 DEF FleetCoversOrgs

\* The autoscaling signal never undercounts the calls in progress, nor misses
\* a slot that an organization still counts, in the middle of a release either.
THEOREM FleetAlwaysCoversOrgs ==
  ASSUME RunsAreFresh, StaleOutlastsCalls
  PROVE  Spec => []FleetCoversOrgs
<1>1. SlotInv /\ CoverInv => FleetCoversOrgs
  BY CoverCoversOrgs
<1> QED BY <1>1, CoverAlways, PTL

-----------------------------------------------------------------------------
(* Refinement: what each step of the Redis protocol is to its callers.     *)

\* A permit is a counted slot.
LEMMA PermitsAreCounted == Permits = {b \in Attempts : Counted(b)}
<1>1. ASSUME NEW b \in Attempts
      PROVE  b \in Unexpired(orgSet[OrgOf[b]]) <=> Counted(b)
  BY DEF Unexpired, Counted
<1> QED BY <1>1 DEF Permits

\* So it is after a step.
LEMMA PermitsAreCountedNext == Permits' = {b \in Attempts : Counted(b)'}
<1>1. ASSUME NEW b \in Attempts
      PROVE  (b \in Unexpired(orgSet[OrgOf[b]]))' <=> Counted(b)'
  BY DEF Unexpired, Counted
<1> QED BY <1>1 DEF Permits

\* The abstract module counts as this one does.
LEMMA SameCardinality ==
  ASSUME NEW S
  PROVE  Admission!Cardinality(S) = Cardinality(S)
BY DEF Admission!Cardinality, Cardinality

\* Nobody has a permit or talks at the start.
LEMMA InitRefines == Init => Admission!Init
<1> SUFFICES ASSUME Init PROVE Permits = {} /\ Live = {}
  BY DEF Admission!Init
<1>1. Live = {}
  BY DEF Init, Live
<1>2. \A b \in Attempts : ~Counted(b)
  BY CallersAssumption DEF Init, Counted
<1> QED BY <1>1, <1>2, PermitsAreCounted

\* When the script found room in its sets there is room for a permit, and
\* evaluating it grants exactly one.
LEMMA AcquireRefines ==
  ASSUME SlotInv, CoverInv, NEW a \in Attempts, Acquire(a)
  PROVE  Admission!Admit(a)
<1>1. /\ orgSet' = [orgSet EXCEPT ![OrgOf[a]] = Unexpired(@) \cup {a}]
      /\ orgSet \in [Orgs -> SUBSET Attempts]
      /\ scopeSet \in [Scopes -> SUBSET Attempts]
      /\ phase[a] = "waiting" /\ phase' \in [Attempts -> Phases]
      /\ ~OrgFull(a) /\ ~ScopeFull(a)
      /\ UNCHANGED age
  BY DEF Acquire, Admit, SlotInv, TypeInv, TypeOK, Phases
<1>2. /\ OrgOf[a] \in Orgs /\ ScopeOf[a] \in Scopes \cup {NoScope}
      /\ \A b \in Attempts : OrgOf[b] \in Orgs
  BY CallersAssumption
<1>3. ~Scored(a) /\ age[a] = 0
  BY <1>1 DEF SlotInv, WaitingIsUnscored
<1>4. a \notin Permits
  BY <1>3, PermitsAreCounted DEF Counted, Scored
<1>5. Admission!OrgHasRoom(OrgOf[a])
  <2> DEFINE P == {c \in Permits : OrgOf[c] = OrgOf[a]}
             U == Unexpired(orgSet[OrgOf[a]])
  <2>1. P \subseteq U
    BY PermitsAreCounted DEF Counted, Unexpired
  <2>2. IsFiniteSet(U)
    <3>1. U \subseteq Attempts
      BY <1>1, <1>2 DEF Unexpired
    <3> QED BY <3>1, SetsAssumption, FS_Subset
  <2>3. Cardinality(P) <= Cardinality(U) /\ Cardinality(P) \in Nat /\ Cardinality(U) \in Nat
    BY <2>1, <2>2, FS_Subset, FS_CardinalityType
  <2>4. Cardinality(U) < OrgLimit[OrgOf[a]]
    <3> HIDE DEF U
    <3>1. ~(Cardinality(U) >= OrgLimit[OrgOf[a]]) /\ OrgLimit[OrgOf[a]] \in Nat
      BY <1>1, <1>2, LimitsAssumption DEF OrgFull, U
    <3> QED BY <2>3, <3>1
  <2>5. Cardinality(P) < OrgLimit[OrgOf[a]]
    BY <1>2, <2>3, <2>4, LimitsAssumption
  <2> QED BY <2>5, SameCardinality DEF Admission!OrgHasRoom
<1>6. ASSUME ScopeOf[a] \in Scopes
      PROVE  Admission!ScopeHasRoom(ScopeOf[a])
  <2> DEFINE P == {c \in Permits : ScopeOf[c] = ScopeOf[a]}
             U == Unexpired(scopeSet[ScopeOf[a]])
  <2>1. ScopeOf[a] # NoScope
    BY <1>6, SetsAssumption
  <2>2. P \subseteq U
    BY <2>1, PermitsAreCounted DEF CoverInv, CountedEverywhere, Counted, Unexpired
  <2>3. IsFiniteSet(U)
    <3>1. U \subseteq Attempts
      BY <1>1, <1>6 DEF Unexpired
    <3> QED BY <3>1, SetsAssumption, FS_Subset
  <2>4. Cardinality(P) <= Cardinality(U) /\ Cardinality(P) \in Nat /\ Cardinality(U) \in Nat
    BY <2>2, <2>3, FS_Subset, FS_CardinalityType
  <2>5. Cardinality(U) < ScopeLimit[ScopeOf[a]]
    BY <1>1, <1>6, <2>1, <2>4, LimitsAssumption DEF ScopeFull
  <2>6. Cardinality(P) < ScopeLimit[ScopeOf[a]]
    BY <1>6, <2>4, <2>5, LimitsAssumption
  <2> QED BY <2>6, SameCardinality DEF Admission!ScopeHasRoom
<1>7. Permits' = Permits \cup {a}
  <2>1. Counted(a)'
    BY <1>1, <1>2, <1>3, LimitsAssumption DEF Counted
  <2>2. \A b \in Attempts \ {a} : Counted(b)' <=> Counted(b)
    BY <1>1, <1>2 DEF Counted, Unexpired
  <2> QED BY <2>1, <2>2, PermitsAreCounted, PermitsAreCountedNext
<1>8. UNCHANGED Live
  BY <1>1 DEF Acquire, Live, SlotInv, TypeInv, TypeOK
<1> QED BY <1>4, <1>5, <1>6, <1>7, <1>8 DEF Admission!Admit

\* A step that leaves the calls in progress as they are and grants nothing.
LEMMA WithdrawRefines ==
  ASSUME LiveCallKeepsItsSlot', UNCHANGED Live,
         \A b \in Attempts : Counted(b)' => Counted(b)
  PROVE  Admission!Withdraw
<1>1. Permits' \subseteq Permits
  BY PermitsAreCounted, PermitsAreCountedNext
<1>2. Live \subseteq Permits'
  <2>1. Live' \subseteq Attempts
    BY DEF Live
  <2> QED BY <2>1 DEF LiveCallKeepsItsSlot, Permits
<1> QED BY <1>1, <1>2 DEF Admission!Withdraw

\* The steps of a call that has its slot start it, finish it, or are nobody's
\* business.
LEMMA CallRefines ==
  ASSUME SlotInv, StaleOutlastsCalls, NEW a \in Attempts,
         \/ Bind(a) \/ BindFails(a) \/ Abandon(a)
         \/ Connect(a) \/ NotConnected(a) \/ HangUp(a)
  PROVE  \/ Admission!Start(a) \/ Admission!Finish(a)
         \/ UNCHANGED <<Permits, Live>>
<1>1. phase \in [Attempts -> Phases]
  BY DEF SlotInv, TypeInv, TypeOK
<1>2. UNCHANGED <<orgSet, age>>
  BY DEF Bind, BindFails, Abandon, Connect, NotConnected, HangUp, redis
<1>3. UNCHANGED Permits
  BY <1>2 DEF Permits, Unexpired
<1>4. CASE Connect(a)
  <2>1. Live' = Live \cup {a} /\ a \notin Live
    BY <1>1, <1>4 DEF Connect, Live
  <2>2. a \in Permits
    <3>1. Using(a)
      BY <1>4 DEF Connect, Using
    <3>2. a \in orgSet[OrgOf[a]] /\ age[a] < StaleTimeout
      BY <3>1, SlotInUseIsYoung DEF SlotInv, SlotsKept, HasSlot
    <3> QED BY <3>2 DEF Permits, Unexpired
  <2> QED BY <1>3, <2>1, <2>2 DEF Admission!Start
<1>5. CASE HangUp(a)
  <2>1. Live' = Live \ {a} /\ a \in Live
    BY <1>1, <1>5 DEF HangUp, Live
  <2> QED BY <1>3, <2>1 DEF Admission!Finish
<1>6. CASE Bind(a) \/ BindFails(a) \/ Abandon(a) \/ NotConnected(a)
  <2>1. UNCHANGED Live
    BY <1>1, <1>6 DEF Bind, BindFails, Abandon, NotConnected, Live
  <2> QED BY <1>3, <2>1
<1> QED BY <1>4, <1>5, <1>6

\* Pruning, releasing and ageing only ever withdraw permits.
LEMMA OthersWithdraw ==
  ASSUME SlotInv, CoverInv, LiveCallKeepsItsSlot',
         \/ \E a \in Attempts : Refuse(a)
         \/ \E k \in Callbacks, a \in Attempts : Callback(k, a)
         \/ \E w \in Workers : Release(w)
         \/ Tick
         \/ UNCHANGED vars
  PROVE  Admission!Withdraw
<1>1. \A b \in Attempts : OrgOf[b] \in Orgs
  BY CallersAssumption
<1>2. orgSet \in [Orgs -> SUBSET Attempts] /\ phase \in [Attempts -> Phases]
  BY DEF SlotInv, TypeInv, TypeOK
<1>3. UNCHANGED Live
  BY <1>2 DEF Live, Refuse, Callback, Release, ReadMapping, RemoveFromOrg, RemoveFromFleet,
              RemoveFromScope, DeleteMapping, Interrupt, Tick, vars
<1>4. \A b \in Attempts : Counted(b)' => Counted(b)
  <2>1. CASE \E a \in Attempts : Refuse(a)
    BY <1>1, <1>2, <2>1 DEF Refuse, Counted, Unexpired
  <2>2. CASE \E w \in Workers : RemoveFromOrg(w)
    BY <1>1, <1>2, <2>2 DEF RemoveFromOrg, Counted
  <2>3. CASE Tick
    BY <2>3, CoverTick
  <2>4. CASE UNCHANGED <<orgSet, age>>
    BY <2>4 DEF Counted
  <2> QED BY <2>1, <2>2, <2>3, <2>4
          DEF Callback, Release, ReadMapping, RemoveFromFleet, RemoveFromScope,
              DeleteMapping, Interrupt, redis, vars
<1> QED BY <1>3, <1>4, WithdrawRefines

\* Every step of the protocol is a step of the admission control or none.
LEMMA StepRefines ==
  ASSUME SlotInv, CoverInv, StaleOutlastsCalls, LiveCallKeepsItsSlot', [Next]_vars
  PROVE  [Admission!Next]_(Admission!vars)
<1>1. ASSUME NEW a \in Attempts, Acquire(a)
      PROVE  Admission!Next
  BY <1>1, AcquireRefines DEF Admission!Next
<1>2. ASSUME NEW a \in Attempts,
             \/ Bind(a) \/ BindFails(a) \/ Abandon(a)
             \/ Connect(a) \/ NotConnected(a) \/ HangUp(a)
      PROVE  [Admission!Next]_(Admission!vars)
  BY <1>2, CallRefines DEF Admission!Next, Admission!vars
<1>3. CASE \/ \E a \in Attempts : Refuse(a)
           \/ \E k \in Callbacks, a \in Attempts : Callback(k, a)
           \/ \E w \in Workers : Release(w)
           \/ Tick
           \/ UNCHANGED vars
  BY <1>3, OthersWithdraw DEF Admission!Next
<1> QED BY <1>1, <1>2, <1>3 DEF Next, Caller

\* The Redis protocol implements plain admission control: permits are granted
\* within both limits, a call starts with one and keeps it until it ends.
THEOREM SlotsImplementAdmission ==
  ASSUME RunsAreFresh, StaleOutlastsCalls
  PROVE  Spec => ImplementsAdmission
<1> DEFINE Inv == SlotInv /\ CoverInv /\ LiveCallKeepsItsSlot
<1>1. Spec => []Inv
  BY CoverAlways, LiveCallsKeepTheirSlots, PTL
<1>2. Inv /\ Inv' /\ [Next]_vars => [Admission!Next]_(Admission!vars)
  BY StepRefines
<1> HIDE DEF Inv
<1> QED BY <1>1, <1>2, InitRefines, PTL DEF Spec, ImplementsAdmission, Admission!Spec
=============================================================================
