------------------------- MODULE FromNumberPoolProofs -------------------------
(***************************************************************************)
(* No number serves two calls at a time, for any numbers, calls, workers   *)
(* and timeouts, if callbacks are prompt and single and the timeouts are   *)
(* ordered as in the code.                                                 *)
(***************************************************************************)
EXTENDS FromNumberPool, TLAPS

\* A call has one terminal callback, within the tick it ended in, and its release
\* ends in it; a call is over before its number is stale, and before the pool of
\* its batch expires (rate_limiter.py: 1800 s and 3600 s).
CallbacksArePrompt ==
  /\ ~Repeated /\ PromptRelease /\ MaxLate = 0
  /\ MaxCall < StaleTimeout /\ BatchLength + MaxCall < PoolTtl

-----------------------------------------------------------------------------
(* The inductive invariant.                                                *)

\* A release that has not yet freed its number, and the call it is for.
Releasing == {w \in Workers : job[w].step \in {"read", "free"}}
Owner(w) == IF job[w].call \in Calls THEN job[w].call ELSE w

\* The calls that have a number: until they end, until their callback, or until
\* their release has freed it.
Awaiting == {c \in Calls : phase[c] = "over" /\ late[c] <= MaxLate}
Holders == Calling \cup Awaiting \cup {Owner(w) : w \in Releasing}

\* A dispatcher has a release only for a call that it failed to place.
DispatchersFit ==
  \A c \in Calls : phase[c] # "failed" => job[c].step = "idle"

\* A release is for a call that failed, in its dispatcher, or for one that has had
\* its callback.
JobsFit ==
  \A w \in Releasing :
    /\ Owner(w) \in Calls
    /\ \/ phase[Owner(w)] = "failed" /\ w = Owner(w)
       \/ phase[Owner(w)] = "over" /\ late[Owner(w)] > MaxLate /\ w \in Callbacks
    /\ job[w].step = "read" => job[w].call = Owner(w)
    /\ job[w].step = "free" => job[w].number = number[Owner(w)]

OneRelease == \A v, w \in Releasing : Owner(v) = Owner(w) => v = w

\* A mapping leads to the number of its call.
MappingsFit ==
  \A c \in Calls : mapping[c] # NoNumber => mapping[c] = number[c] /\ phase[c] # "queued"

\* The number of a holder is in the pool and in use, not stale, and its pool has
\* not been there for longer than the batch and the call.
NumbersHeld ==
  \A c \in Holders :
    /\ number[c] \in pool \ free /\ age[number[c]] <= MaxCall
    /\ PoolTtl <= poolTtl + BatchLength + age[number[c]]

HoldersDiffer == \A c, d \in Holders : number[c] = number[d] => c = d

\* While a batch picks numbers, the EXPIRE and the age of the batch make up its TTL.
BatchIsCounted == batchAge <= BatchLength => poolTtl + batchAge = PoolTtl

PoolInv == /\ TypeOK /\ DispatchersFit /\ JobsFit /\ OneRelease /\ MappingsFit
           /\ NumbersHeld /\ HoldersDiffer /\ BatchIsCounted

-----------------------------------------------------------------------------
LEMMA IdleType == Idle \in Jobs /\ Idle.step = "idle"
BY DEF Idle, Jobs

LEMMA PoolInvInit == Init => PoolInv
<1> SUFFICES ASSUME Init PROVE PoolInv
  OBVIOUS
<1>1. TypeOK
  <2>1. /\ 0 \in 0 .. StaleTimeout /\ 0 \in 0 .. PoolTtl /\ BatchLength + 1 \in 0 .. BatchLength + 1
        /\ 0 \in 0 .. MaxLate + 1 /\ 0 \in 0 .. MappingTtl /\ "queued" \in Phases
    BY TimesAssumption DEF Phases
  <2> QED BY <2>1, IdleType DEF Init, TypeOK
<1>2. Releasing = {} /\ Calling = {} /\ Awaiting = {}
  BY IdleType DEF Init, Releasing, Calling, Awaiting
<1>3. Holders = {}
  BY <1>2 DEF Holders
<1>4. DispatchersFit /\ MappingsFit
  BY IdleType DEF Init, DispatchersFit, MappingsFit, Workers
<1>5. BatchIsCounted
  BY TimesAssumption DEF Init, BatchIsCounted
<1> QED BY <1>1, <1>2, <1>3, <1>4, <1>5 DEF PoolInv, JobsFit, OneRelease, NumbersHeld, HoldersDiffer

\* Numbers of holders are not on offer.
LEMMA HeldIsNotAvailable ==
  ASSUME PoolInv, CallbacksArePrompt, NEW c \in Holders
  PROVE  /\ number[c] \in Numbers /\ number[c] \in pool /\ number[c] \notin free
         /\ number[c] \notin Available /\ age[number[c]] \in Nat
<1>1. number[c] \in pool \ free /\ age[number[c]] <= MaxCall /\ pool \subseteq Numbers
  BY DEF PoolInv, NumbersHeld, TypeOK
<1>2. age[number[c]] \in Nat
  BY <1>1, TimesAssumption DEF PoolInv, TypeOK
<1>3. number[c] \notin Stale
  BY <1>1, <1>2, TimesAssumption DEF Stale, CallbacksArePrompt
<1> QED BY <1>1, <1>2, <1>3 DEF Available

\* A step that takes no number and gives none back: the holders after it were
\* holders before.
LEMMA HoldersStay ==
  ASSUME PoolInv, Holders' \subseteq Holders, UNCHANGED <<pool, free, age, poolTtl>>,
         \A c \in Holders' : number'[c] = number[c]
  PROVE  NumbersHeld' /\ HoldersDiffer'
BY DEF PoolInv, NumbersHeld, HoldersDiffer

LEMMA BatchStarts ==
  ASSUME PoolInv, CallbacksArePrompt, StartBatch
  PROVE  PoolInv'
<1>1. /\ pool' = pool \cup Numbers /\ free' = free \cup (Numbers \ pool)
      /\ poolTtl' = PoolTtl /\ batchAge' = 0
      /\ UNCHANGED <<age, phase, late, number, mapping, mapTtl, job>>
  BY DEF StartBatch
<1>2. TypeOK'
  BY <1>1, TimesAssumption DEF PoolInv, TypeOK
<1>3. Releasing' = Releasing /\ Holders' = Holders /\ \A w : Owner(w)' = Owner(w)
  BY <1>1 DEF Releasing, Holders, Owner, Calling, Awaiting
<1>4. DispatchersFit' /\ JobsFit' /\ OneRelease' /\ MappingsFit' /\ HoldersDiffer'
  BY <1>1, <1>3 DEF PoolInv, DispatchersFit, JobsFit, OneRelease, MappingsFit, HoldersDiffer
<1>5. NumbersHeld'
  <2> SUFFICES ASSUME NEW c \in Holders
               PROVE  /\ number[c] \in pool' \ free' /\ age[number[c]] <= MaxCall
                      /\ PoolTtl <= PoolTtl + BatchLength + age[number[c]]
    BY <1>1, <1>3 DEF NumbersHeld
  <2>1. age[number[c]] <= MaxCall
    BY DEF PoolInv, NumbersHeld
  <2> QED BY <1>1, <2>1, HeldIsNotAvailable, TimesAssumption
<1>6. BatchIsCounted'
  BY <1>1, TimesAssumption DEF BatchIsCounted
<1> QED BY <1>2, <1>4, <1>5, <1>6 DEF PoolInv

\* A queued call holds nothing, and nothing is released for it.
LEMMA QueuedHoldsNothing ==
  ASSUME PoolInv, NEW c \in Calls, phase[c] = "queued"
  PROVE  /\ c \notin Holders /\ c \notin Releasing /\ \A w \in Releasing : Owner(w) # c
         /\ mapping[c] = NoNumber
BY DEF PoolInv, Holders, Calling, Awaiting, Releasing, JobsFit, DispatchersFit, MappingsFit

LEMMA NumberPicked ==
  ASSUME PoolInv, CallbacksArePrompt, NEW c \in Calls, PickNumber(c)
  PROVE  PoolInv'
<1>1. phase[c] = "queued" /\ batchAge <= BatchLength /\ c \notin Holders /\ c \notin Releasing
      /\ mapping[c] = NoNumber /\ \A w \in Releasing : Owner(w) # c
  BY QueuedHoldsNothing DEF PickNumber
<1>2. PICK n \in Available :
        /\ free' = Available \ {n} /\ age' = [age EXCEPT ![n] = 0]
        /\ \/ phase' = [phase EXCEPT ![c] = "picked"] /\ number' = [number EXCEPT ![c] = n]
           \/ phase' = [phase EXCEPT ![c] = "failed"] /\ number' = number
  BY DEF PickNumber
<1>3. UNCHANGED <<pool, poolTtl, batchAge, late, mapping, mapTtl, job>>
  BY DEF PickNumber
<1>4. Available \subseteq pool /\ pool \subseteq Numbers /\ n \in pool /\ n \in Numbers
  BY DEF PoolInv, TypeOK, Available, Stale
<1>5. TypeOK'
  <2>1. 0 \in 0 .. StaleTimeout /\ "picked" \in Phases /\ "failed" \in Phases
    BY TimesAssumption DEF Phases
  <2>2. age' \in [Numbers -> 0 .. StaleTimeout] /\ phase' \in [Calls -> Phases]
        /\ number' \in [Calls -> Numbers \cup {NoNumber}]
    BY <1>2, <1>4, <2>1 DEF PoolInv, TypeOK
  <2>3. free' \in SUBSET pool' /\ pool' \in SUBSET Numbers
    BY <1>2, <1>3, <1>4
  <2> QED BY <1>3, <2>2, <2>3 DEF PoolInv, TypeOK
<1>6. /\ \A d \in Calls \ {c} : phase'[d] = phase[d] /\ number'[d] = number[d]
      /\ phase'[c] = "picked" => number'[c] = n
      /\ phase'[c] \in {"picked", "failed"}
  BY <1>2 DEF PoolInv, TypeOK
<1>7. Releasing' = Releasing /\ \A w : Owner(w)' = Owner(w)
  BY <1>3 DEF Releasing, Owner
<1>8. /\ Holders' \subseteq Holders \cup {c} /\ Holders \subseteq Calls
      /\ c \in Holders' => phase'[c] = "picked"
  <2>1. Holders \subseteq Calls
    BY DEF Holders, Calling, Awaiting, PoolInv, JobsFit
  <2>2. Calling' \subseteq Calling \cup {c} /\ Awaiting' \subseteq Awaiting
    BY <1>3, <1>6 DEF Calling, Awaiting
  <2>3. c \in Holders' => c \in Calling'
    BY <1>1, <1>7, <2>2 DEF Holders
  <2>4. c \in Calling' => phase'[c] = "picked"
    BY <1>6 DEF Calling
  <2> QED BY <1>7, <2>1, <2>2, <2>3, <2>4 DEF Holders
<1>9. DispatchersFit' /\ MappingsFit'
  BY <1>1, <1>3, <1>6 DEF PoolInv, DispatchersFit, MappingsFit
<1>10. JobsFit' /\ OneRelease'
  BY <1>1, <1>3, <1>6, <1>7 DEF PoolInv, JobsFit, OneRelease
<1>11. \A d \in Holders : number'[d] = number[d] /\ number[d] # n /\ d # c
  BY <1>1, <1>2, <1>6, <1>8, HeldIsNotAvailable
<1>12. HoldersDiffer'
  BY <1>6, <1>8, <1>11 DEF PoolInv, HoldersDiffer
<1>13. NumbersHeld'
  <2>1. ASSUME NEW d \in Holders
        PROVE  /\ number'[d] \in pool' \ free' /\ age'[number'[d]] <= MaxCall
               /\ PoolTtl <= poolTtl' + BatchLength + age'[number'[d]]
    <3>1. age'[number[d]] = age[number[d]] /\ number[d] \in pool /\ number[d] \notin Available
      BY <1>2, <1>11, HeldIsNotAvailable DEF PoolInv, TypeOK
    <3> QED BY <1>2, <1>3, <1>11, <3>1 DEF PoolInv, NumbersHeld
  <2>2. phase'[c] = "picked" =>
               /\ number'[c] \in pool' \ free' /\ age'[number'[c]] <= MaxCall
               /\ PoolTtl <= poolTtl' + BatchLength + age'[number'[c]]
    <3>1. age'[n] = 0
      BY <1>2, <1>4 DEF PoolInv, TypeOK
    <3>2. PoolTtl <= poolTtl + BatchLength
      <4>1. poolTtl \in Nat /\ batchAge \in Nat
        BY TimesAssumption DEF PoolInv, TypeOK
      <4> QED BY <1>1, <4>1, TimesAssumption DEF PoolInv, BatchIsCounted
    <3>3. poolTtl \in Nat
      BY TimesAssumption DEF PoolInv, TypeOK
    <3> QED BY <1>2, <1>3, <1>4, <1>6, <3>1, <3>2, <3>3, TimesAssumption
  <2> QED BY <1>8, <2>1, <2>2 DEF NumbersHeld
<1>14. BatchIsCounted'
  BY <1>3 DEF PoolInv, BatchIsCounted
<1> QED BY <1>5, <1>9, <1>10, <1>12, <1>13, <1>14 DEF PoolInv

\* No release is for a call that is not over and has not failed.
LEMMA NoReleaseYet ==
  ASSUME PoolInv, NEW c \in Calls, phase[c] \in {"queued", "picked", "placed"}
  PROVE  c \notin Releasing /\ job[c].step = "idle" /\ \A w \in Releasing : Owner(w) # c
BY DEF PoolInv, Releasing, JobsFit, DispatchersFit

\* A step that only moves a call on: to its failure, its placing or its end.
LEMMA PhaseMoves ==
  ASSUME PoolInv, NEW c \in Calls, NEW s \in Phases, phase' = [phase EXCEPT ![c] = s],
         phase[c] \in {"queued", "picked", "placed"}, s # "queued",
         phase[c] = "queued" => s = "failed",
         UNCHANGED <<pool, free, age, poolTtl, batchAge, late, number, job>>,
         TypeOK', MappingsFit'
  PROVE  PoolInv'
<1>1. Releasing' = Releasing /\ \A w : Owner(w)' = Owner(w)
  BY DEF Releasing, Owner
<1>2. /\ phase'[c] = s /\ \A d \in Calls \ {c} : phase'[d] = phase[d]
      /\ c \notin Releasing /\ job[c].step = "idle" /\ \A w \in Releasing : Owner(w) # c
  BY NoReleaseYet DEF PoolInv, TypeOK
<1>3. Holders' \subseteq Holders
  <2>1. Calling' \subseteq Calling
    BY <1>2 DEF Calling
  <2>2. Awaiting' \subseteq Awaiting \cup Calling
    BY <1>2 DEF Awaiting, Calling
  <2> QED BY <1>1, <2>1, <2>2 DEF Holders
<1>4. NumbersHeld' /\ HoldersDiffer'
  BY <1>3, HoldersStay
<1>5. JobsFit' /\ OneRelease' /\ DispatchersFit' /\ BatchIsCounted'
  BY <1>1, <1>2 DEF PoolInv, JobsFit, OneRelease, DispatchersFit, BatchIsCounted
<1> QED BY <1>4, <1>5 DEF PoolInv

LEMMA DispatchGivesUp ==
  ASSUME PoolInv, NEW c \in Calls, PoolExhausted(c)
  PROVE  PoolInv'
<1>1. /\ phase[c] = "queued" /\ phase' = [phase EXCEPT ![c] = "failed"]
      /\ UNCHANGED <<pool, free, age, poolTtl, batchAge, late, number, job, mapping, mapTtl>>
  BY DEF PoolExhausted, redis
<1>2. "failed" \in Phases
  BY DEF Phases
<1>3. TypeOK' /\ MappingsFit'
  BY <1>1, <1>2 DEF PoolInv, TypeOK, MappingsFit
<1> QED BY <1>1, <1>2, <1>3, PhaseMoves

LEMMA CallPlaced ==
  ASSUME PoolInv, CallbacksArePrompt, NEW c \in Calls, PlaceCall(c)
  PROVE  PoolInv'
<1>1. /\ phase[c] = "picked" /\ phase' = [phase EXCEPT ![c] = "placed"]
      /\ UNCHANGED <<pool, free, age, poolTtl, batchAge, late, number, job>>
  BY DEF PlaceCall
<1>2. \/ mapping' = [mapping EXCEPT ![c] = number[c]] /\ mapTtl' = [mapTtl EXCEPT ![c] = MappingTtl]
      \/ mapping' = mapping /\ mapTtl' = mapTtl
  BY DEF PlaceCall
<1>3. "placed" \in Phases /\ MappingTtl \in 0 .. MappingTtl
  BY TimesAssumption DEF Phases
<1>4. TypeOK'
  <2>1. /\ phase' \in [Calls -> Phases] /\ mapTtl' \in [Calls -> 0 .. MappingTtl]
        /\ mapping' \in [Calls -> Numbers \cup {NoNumber}]
    BY <1>1, <1>2, <1>3 DEF PoolInv, TypeOK
  <2> QED BY <1>1, <2>1 DEF PoolInv, TypeOK
<1>5. MappingsFit'
  BY <1>1, <1>2 DEF PoolInv, TypeOK, MappingsFit
<1> QED BY <1>1, <1>3, <1>4, <1>5, PhaseMoves

\* A dispatcher that could not place its call begins its release.
LEMMA DispatcherReleases ==
  ASSUME PoolInv, CallbacksArePrompt, NEW c \in Calls, phase[c] \in {"picked", "placed"},
         NEW j \in Jobs, j \in {ReleaseNumber(number[c]), ReleaseByRun(c)},
         phase' = [phase EXCEPT ![c] = "failed"], job' = [job EXCEPT ![c] = j],
         UNCHANGED <<pool, free, age, poolTtl, batchAge, late, number, mapping, mapTtl>>
  PROVE  PoolInv'
<1>1. /\ phase'[c] = "failed" /\ \A d \in Calls \ {c} : phase'[d] = phase[d]
      /\ c \in Workers /\ job'[c] = j /\ \A w \in Workers \ {c} : job'[w] = job[w]
      /\ c \notin Callbacks
  BY NumbersAssumption DEF PoolInv, TypeOK, Workers
<1>2. c \notin Releasing /\ \A w \in Releasing : Owner(w) # c
  BY NoReleaseYet
<1>3. /\ Owner(c)' = c /\ ((j.step = "read" /\ j.call = c) \/ (j.step = "free" /\ j.number = number[c]))
      /\ \A w \in Releasing : Owner(w)' = Owner(w)
  BY <1>1, <1>2, NumbersAssumption DEF Owner, ReleaseNumber, ReleaseByRun, Releasing
<1>4. Releasing' = Releasing \cup {c}
  BY <1>1, <1>3 DEF Releasing
<1>5. TypeOK'
  <2>1. "failed" \in Phases
    BY DEF Phases
  <2> QED BY <2>1 DEF PoolInv, TypeOK
<1>6. Holders' \subseteq Holders
  <2>1. Calling' \subseteq Calling /\ Awaiting' \subseteq Awaiting /\ c \in Calling
    BY <1>1 DEF Calling, Awaiting
  <2> QED BY <1>3, <1>4, <2>1 DEF Holders
<1>7. NumbersHeld' /\ HoldersDiffer'
  BY <1>6, HoldersStay
<1>8. JobsFit'
  <2> SUFFICES ASSUME NEW w \in Releasing'
               PROVE  /\ Owner(w)' \in Calls
                      /\ \/ phase'[Owner(w)'] = "failed" /\ w = Owner(w)'
                         \/ phase'[Owner(w)'] = "over" /\ late'[Owner(w)'] > MaxLate /\ w \in Callbacks
                      /\ job'[w].step = "read" => job'[w].call = Owner(w)'
                      /\ job'[w].step = "free" => job'[w].number = number'[Owner(w)']
    BY DEF JobsFit
  <2>1. CASE w = c
    BY <1>1, <1>3, <2>1
  <2>2. CASE w # c
    BY <1>1, <1>2, <1>3, <1>4, <2>2 DEF PoolInv, JobsFit, Releasing
  <2> QED BY <2>1, <2>2
<1>9. OneRelease'
  BY <1>2, <1>3, <1>4 DEF PoolInv, OneRelease
<1>10. DispatchersFit' /\ MappingsFit' /\ BatchIsCounted'
  BY <1>1 DEF PoolInv, DispatchersFit, MappingsFit, BatchIsCounted, Workers
<1> QED BY <1>5, <1>7, <1>8, <1>9, <1>10 DEF PoolInv

LEMMA DispatchFailed ==
  ASSUME PoolInv, CallbacksArePrompt, NEW c \in Calls, DispatchFails(c) \/ PlacingFails(c)
  PROVE  PoolInv'
<1>1. /\ phase[c] \in {"picked", "placed"} /\ phase' = [phase EXCEPT ![c] = "failed"]
      /\ UNCHANGED <<pool, free, age, poolTtl, batchAge, late, number, mapping, mapTtl>>
      /\ \/ job' = [job EXCEPT ![c] = ReleaseNumber(number[c])]
         \/ job' = [job EXCEPT ![c] = ReleaseByRun(c)]
         \/ job' = job
  BY DEF DispatchFails, PlacingFails, redis
<1>2. ReleaseNumber(number[c]) \in Jobs /\ ReleaseByRun(c) \in Jobs
  BY DEF ReleaseNumber, ReleaseByRun, Jobs, PoolInv, TypeOK
<1>3. CASE job' = job
  <2>1. "failed" \in Phases
    BY DEF Phases
  <2>2. TypeOK' /\ MappingsFit'
    BY <1>1, <1>3, <2>1 DEF PoolInv, TypeOK, MappingsFit
  <2> QED BY <1>1, <1>3, <2>1, <2>2, PhaseMoves
<1>4. CASE job' # job
  BY <1>1, <1>2, <1>4, DispatcherReleases
<1> QED BY <1>3, <1>4

LEMMA CallEnded ==
  ASSUME PoolInv, NEW c \in Calls, EndCall(c)
  PROVE  PoolInv'
<1>1. /\ phase[c] = "placed" /\ phase' = [phase EXCEPT ![c] = "over"]
      /\ UNCHANGED <<pool, free, age, poolTtl, batchAge, late, number, job, mapping, mapTtl>>
  BY DEF EndCall, redis
<1>2. "over" \in Phases
  BY DEF Phases
<1>3. TypeOK' /\ MappingsFit'
  BY <1>1, <1>2 DEF PoolInv, TypeOK, MappingsFit
<1> QED BY <1>1, <1>2, <1>3, PhaseMoves

LEMMA CallbackServed ==
  ASSUME PoolInv, CallbacksArePrompt, NEW k \in Callbacks, NEW c \in Calls, Callback(k, c)
  PROVE  PoolInv'
<1>1. /\ job[k] = Idle /\ phase[c] = "over" /\ late[c] <= MaxLate
      /\ job' = [job EXCEPT ![k] = ReleaseByRun(c)]
      /\ late' = [late EXCEPT ![c] = MaxLate + 1]
      /\ UNCHANGED <<pool, free, age, poolTtl, batchAge, phase, number, mapping, mapTtl>>
  BY DEF Callback, redis, CallbacksArePrompt
<1>2. ReleaseByRun(c) \in Jobs /\ k \in Workers /\ k \notin Calls
  BY NumbersAssumption DEF ReleaseByRun, Jobs, Workers
<1>3. TypeOK'
  <2>1. MaxLate + 1 \in 0 .. MaxLate + 1
    BY TimesAssumption
  <2> QED BY <1>1, <1>2, <2>1 DEF PoolInv, TypeOK
<1>4. /\ job'[k] = ReleaseByRun(c) /\ \A w \in Workers \ {k} : job'[w] = job[w]
      /\ late'[c] = MaxLate + 1 /\ \A d \in Calls \ {c} : late'[d] = late[d]
  BY <1>1, <1>2 DEF PoolInv, TypeOK
<1>5. k \notin Releasing /\ \A w \in Releasing : Owner(w) # c
  <2>1. ~(late[c] > MaxLate) /\ phase[c] # "failed"
    BY <1>1, TimesAssumption DEF PoolInv, TypeOK
  <2> QED BY <1>1, <2>1, IdleType DEF PoolInv, JobsFit, Releasing
<1>6. /\ Owner(k)' = c /\ \A w \in Releasing : Owner(w)' = Owner(w)
      /\ Releasing' = Releasing \cup {k}
  BY <1>2, <1>4, <1>5 DEF Owner, Releasing, ReleaseByRun
<1>7. Holders' \subseteq Holders
  <2>1. Calling' = Calling /\ Awaiting' \subseteq Awaiting /\ c \in Awaiting
    BY <1>1, <1>4, TimesAssumption DEF Calling, Awaiting
  <2> QED BY <1>6, <2>1 DEF Holders
<1>8. NumbersHeld' /\ HoldersDiffer'
  BY <1>1, <1>7, HoldersStay
<1>9. JobsFit'
  <2> SUFFICES ASSUME NEW w \in Releasing'
               PROVE  /\ Owner(w)' \in Calls
                      /\ \/ phase'[Owner(w)'] = "failed" /\ w = Owner(w)'
                         \/ phase'[Owner(w)'] = "over" /\ late'[Owner(w)'] > MaxLate /\ w \in Callbacks
                      /\ job'[w].step = "read" => job'[w].call = Owner(w)'
                      /\ job'[w].step = "free" => job'[w].number = number'[Owner(w)']
    BY DEF JobsFit
  <2>1. CASE w = k
    BY <1>1, <1>4, <1>6, <2>1, TimesAssumption DEF ReleaseByRun
  <2>2. CASE w # k
    BY <1>1, <1>4, <1>5, <1>6, <2>2 DEF PoolInv, JobsFit, Releasing
  <2> QED BY <2>1, <2>2
<1>10. OneRelease'
  BY <1>5, <1>6 DEF PoolInv, OneRelease
<1>11. DispatchersFit' /\ MappingsFit' /\ BatchIsCounted'
  BY <1>1, <1>2, <1>4 DEF PoolInv, DispatchersFit, MappingsFit, BatchIsCounted, Workers
<1> QED BY <1>3, <1>8, <1>9, <1>10, <1>11 DEF PoolInv

\* A release goes on to free the number of its call, or has nothing left to free.
LEMMA ReleaseMoves ==
  ASSUME PoolInv, NEW w \in Workers, NEW j \in Jobs, job[w].step # "idle",
         job' = [job EXCEPT ![w] = j],
         \/ j.step \notin {"read", "free"}
         \/ (w \in Releasing /\ j.step = "free" /\ j.call = job[w].call /\ j.number = number[Owner(w)]),
         UNCHANGED <<phase, late, number, pool, age, poolTtl, batchAge>>,
         \A c \in Calls : mapping'[c] \in {mapping[c], NoNumber}
  PROVE  /\ DispatchersFit' /\ JobsFit' /\ OneRelease' /\ MappingsFit' /\ BatchIsCounted'
         /\ Holders' \subseteq Holders /\ Releasing' \subseteq Releasing
         /\ \A v \in Releasing' : Owner(v)' = Owner(v)
         /\ j.step # "free" => Releasing' = Releasing \ {w}
<1>1. job'[w] = j /\ \A v \in Workers \ {w} : job'[v] = job[v]
  BY DEF PoolInv, TypeOK
<1>2. /\ Releasing' \subseteq Releasing /\ \A v \in Releasing' : Owner(v)' = Owner(v)
      /\ j.step # "free" => Releasing' = Releasing \ {w}
  BY <1>1 DEF Releasing, Owner
<1>3. Calling' = Calling /\ Awaiting' = Awaiting
  BY DEF Calling, Awaiting
<1>4. Holders' \subseteq Holders
  BY <1>2, <1>3 DEF Holders
<1>5. JobsFit'
  <2> SUFFICES ASSUME NEW v \in Releasing'
               PROVE  /\ Owner(v) \in Calls
                      /\ \/ phase[Owner(v)] = "failed" /\ v = Owner(v)
                         \/ phase[Owner(v)] = "over" /\ late[Owner(v)] > MaxLate /\ v \in Callbacks
                      /\ job'[v].step = "read" => job'[v].call = Owner(v)
                      /\ job'[v].step = "free" => job'[v].number = number[Owner(v)]
    BY <1>2 DEF JobsFit
  <2>1. v \in Releasing
    BY <1>2
  <2>2. CASE v = w
    BY <1>1, <2>1, <2>2 DEF PoolInv, JobsFit, Releasing
  <2>3. CASE v # w
    BY <1>1, <2>1, <2>3 DEF PoolInv, JobsFit, Releasing
  <2> QED BY <2>2, <2>3
<1>6. OneRelease'
  BY <1>2 DEF PoolInv, OneRelease
<1>7. DispatchersFit' /\ MappingsFit' /\ BatchIsCounted'
  BY <1>1 DEF PoolInv, DispatchersFit, MappingsFit, BatchIsCounted, Workers
<1> QED BY <1>2, <1>4, <1>5, <1>6, <1>7

LEMMA MappingRead ==
  ASSUME PoolInv, CallbacksArePrompt, NEW w \in Workers, ReadMapping(w)
  PROVE  PoolInv'
<1> DEFINE n == mapping[job[w].call]
           j == IF n = NoNumber THEN Idle ELSE [job[w] EXCEPT !.step = "free", !.number = n]
<1>1. /\ job[w].step = "read" /\ job' = [job EXCEPT ![w] = j]
      /\ UNCHANGED <<pool, free, age, poolTtl, batchAge, phase, late, number, mapping, mapTtl>>
  BY DEF ReadMapping, redis
<1>2. w \in Releasing /\ job[w] \in Jobs
  BY <1>1 DEF Releasing, PoolInv, TypeOK
<1>3. job[w].call \in Calls /\ Owner(w) = job[w].call
  BY <1>1, <1>2 DEF PoolInv, JobsFit, Owner
<1>4. n # NoNumber => n = number[Owner(w)] /\ n \in Numbers
  BY <1>3 DEF PoolInv, MappingsFit, TypeOK
<1>5. j \in Jobs
  BY <1>2, <1>4, IdleType DEF Jobs
<1>6. \/ j.step \notin {"read", "free"}
      \/ (w \in Releasing /\ j.step = "free" /\ j.call = job[w].call /\ j.number = number[Owner(w)])
  <2>1. CASE n = NoNumber
    BY <2>1, IdleType
  <2>2. CASE n # NoNumber
    BY <1>2, <1>4, <2>2 DEF Jobs
  <2> QED BY <2>1, <2>2
<1> HIDE DEF j
<1>7. TypeOK'
  BY <1>1, <1>5 DEF PoolInv, TypeOK
<1>8. Holders' \subseteq Holders /\ DispatchersFit' /\ JobsFit' /\ OneRelease' /\ MappingsFit'
      /\ BatchIsCounted'
  BY <1>1, <1>5, <1>6, ReleaseMoves
<1>9. NumbersHeld' /\ HoldersDiffer'
  BY <1>1, <1>8, HoldersStay
<1> QED BY <1>7, <1>8, <1>9 DEF PoolInv

LEMMA ReleaseEnded ==
  ASSUME PoolInv, CallbacksArePrompt, NEW w \in Workers, ForgetMapping(w) \/ Interrupt(w)
  PROVE  PoolInv'
<1>1. /\ job[w].step # "idle" /\ job' = [job EXCEPT ![w] = Idle]
      /\ UNCHANGED <<pool, free, age, poolTtl, batchAge, phase, late, number>>
  BY DEF ForgetMapping, Interrupt, redis
<1>2. \/ mapping' = mapping /\ mapTtl' = mapTtl
      \/ /\ mapping' = [mapping EXCEPT ![job[w].call] = NoNumber]
         /\ mapTtl' = [mapTtl EXCEPT ![job[w].call] = 0]
  BY DEF ForgetMapping, Interrupt, redis
<1>3. \A c \in Calls : mapping'[c] \in {mapping[c], NoNumber}
  BY <1>2 DEF PoolInv, TypeOK
<1>4. TypeOK'
  <2>1. 0 \in 0 .. MappingTtl
    BY TimesAssumption
  <2>2. mapping' \in [Calls -> Numbers \cup {NoNumber}] /\ mapTtl' \in [Calls -> 0 .. MappingTtl]
    BY <1>2, <2>1 DEF PoolInv, TypeOK
  <2> QED BY <1>1, <2>2, IdleType DEF PoolInv, TypeOK
<1>5. Holders' \subseteq Holders /\ DispatchersFit' /\ JobsFit' /\ OneRelease' /\ MappingsFit'
      /\ BatchIsCounted'
  BY <1>1, <1>3, IdleType, ReleaseMoves
<1>6. NumbersHeld' /\ HoldersDiffer'
  BY <1>1, <1>5, HoldersStay
<1> QED BY <1>4, <1>5, <1>6 DEF PoolInv

\* The number freed is that of the call the release was for, which held it.
LEMMA NumberFreed ==
  ASSUME PoolInv, CallbacksArePrompt, NEW w \in Workers, FreeNumber(w)
  PROVE  PoolInv'
<1> DEFINE j == IF job[w].number \in pool /\ job[w].call # NoNumber
                THEN [job[w] EXCEPT !.step = "forget"] ELSE Idle
<1>1. /\ job[w].step = "free" /\ free' = free \cup ({job[w].number} \cap pool)
      /\ job' = [job EXCEPT ![w] = j]
      /\ UNCHANGED <<pool, age, poolTtl, batchAge, phase, late, number, mapping, mapTtl>>
  BY DEF FreeNumber
<1>2. w \in Releasing /\ job[w] \in Jobs /\ job[w].number = number[Owner(w)] /\ Owner(w) \in Holders
  BY <1>1 DEF Releasing, PoolInv, TypeOK, JobsFit, Holders
<1>3. j \in Jobs /\ j.step \notin {"read", "free"}
  BY <1>2, IdleType DEF Jobs
<1> HIDE DEF j
<1>4. TypeOK'
  BY <1>1, <1>3 DEF PoolInv, TypeOK
<1>5. /\ Holders' \subseteq Holders /\ DispatchersFit' /\ JobsFit' /\ OneRelease' /\ MappingsFit'
      /\ BatchIsCounted' /\ Releasing' = Releasing \ {w}
      /\ \A v \in Releasing' : Owner(v)' = Owner(v)
  BY <1>1, <1>3, ReleaseMoves
<1>6. Owner(w) \notin Holders'
  <2>1. Calling' = Calling /\ Awaiting' = Awaiting
    BY <1>1 DEF Calling, Awaiting
  <2>2. Owner(w) \notin Calling /\ Owner(w) \notin Awaiting
    BY <1>2, TimesAssumption DEF PoolInv, JobsFit, Calling, Awaiting, TypeOK
  <2>3. \A v \in Releasing' : Owner(v)' # Owner(w)
    BY <1>2, <1>5 DEF PoolInv, OneRelease
  <2> QED BY <2>1, <2>2, <2>3 DEF Holders
<1>7. \A d \in Holders' : number[d] # job[w].number
  BY <1>2, <1>5, <1>6 DEF PoolInv, HoldersDiffer
<1>8. NumbersHeld' /\ HoldersDiffer'
  BY <1>1, <1>5, <1>7 DEF PoolInv, NumbersHeld, HoldersDiffer
<1> QED BY <1>4, <1>5, <1>8 DEF PoolInv

\* Within a tick a release has ended, so nobody but the calls in progress holds a
\* number, and they have not reached their deadline.
LEMMA TimePassed ==
  ASSUME PoolInv, CallbacksArePrompt, Tick
  PROVE  PoolInv'
<1>1. /\ \A c \in Calls : ~Overdue(c)
      /\ \A w \in Workers : job[w] = Idle
      /\ UNCHANGED <<phase, number, job>>
      /\ age' = [n \in Numbers |-> IF n \in pool \ free THEN Older(n) ELSE 0]
      /\ poolTtl' = (IF poolTtl = 0 THEN 0 ELSE poolTtl - 1)
      /\ pool' = (IF poolTtl <= 1 THEN {} ELSE pool)
      /\ free' = (IF poolTtl <= 1 THEN {} ELSE free)
      /\ batchAge' = (IF batchAge > BatchLength THEN batchAge ELSE batchAge + 1)
      /\ mapTtl' = [c \in Calls |-> IF mapTtl[c] = 0 THEN 0 ELSE mapTtl[c] - 1]
      /\ mapping' = [c \in Calls |-> IF mapTtl[c] <= 1 THEN NoNumber ELSE mapping[c]]
      /\ late' = [c \in Calls |-> IF phase[c] = "over" /\ late[c] <= MaxLate
                                 THEN late[c] + 1 ELSE late[c]]
  BY DEF Tick, CallbacksArePrompt
<1>2. TypeOK'
  <2>1. age' \in [Numbers -> 0 .. StaleTimeout]
    <3> SUFFICES ASSUME NEW n \in Numbers
                 PROVE  Older(n) \in 0 .. StaleTimeout /\ 0 \in 0 .. StaleTimeout
      BY <1>1
    <3> QED BY TimesAssumption DEF Older, PoolInv, TypeOK
  <2>2. poolTtl' \in 0 .. PoolTtl /\ batchAge' \in 0 .. BatchLength + 1
    BY <1>1, TimesAssumption DEF PoolInv, TypeOK
  <2>3. pool' \in SUBSET Numbers /\ free' \in SUBSET pool'
    BY <1>1 DEF PoolInv, TypeOK
  <2>4. mapTtl' \in [Calls -> 0 .. MappingTtl] /\ mapping' \in [Calls -> Numbers \cup {NoNumber}]
    BY <1>1, TimesAssumption DEF PoolInv, TypeOK
  <2>5. late' \in [Calls -> 0 .. MaxLate + 1]
    <3> SUFFICES ASSUME NEW c \in Calls
                 PROVE  /\ late[c] <= MaxLate => late[c] + 1 \in 0 .. MaxLate + 1
                        /\ late[c] \in 0 .. MaxLate + 1
      BY <1>1
    <3> QED BY TimesAssumption DEF PoolInv, TypeOK
  <2> QED BY <1>1, <2>1, <2>2, <2>3, <2>4, <2>5 DEF PoolInv, TypeOK
<1>3. Releasing' = {} /\ Calling' = Calling
  BY <1>1, IdleType DEF Releasing, Calling
<1>4. Awaiting' = {}
  <2> SUFFICES ASSUME NEW c \in Calls, phase[c] = "over" PROVE ~(late'[c] <= 0)
    BY <1>1 DEF Awaiting, CallbacksArePrompt
  <2>1. late[c] \in Nat
    BY TimesAssumption DEF PoolInv, TypeOK
  <2> QED BY <1>1, <2>1 DEF CallbacksArePrompt
<1>5. Holders' = Calling
  BY <1>3, <1>4 DEF Holders
<1>6. NumbersHeld'
  <2> SUFFICES ASSUME NEW c \in Calling
               PROVE  /\ number[c] \in pool' \ free' /\ age'[number[c]] <= MaxCall
                      /\ PoolTtl <= poolTtl' + BatchLength + age'[number[c]]
    BY <1>1, <1>5 DEF NumbersHeld
  <2>1. c \in Holders /\ c \in Calls
    BY DEF Calling, Holders
  <2>2. /\ number[c] \in Numbers /\ number[c] \in pool \ free /\ age[number[c]] \in Nat
        /\ PoolTtl <= poolTtl + BatchLength + age[number[c]]
    BY <2>1, HeldIsNotAvailable DEF PoolInv, NumbersHeld
  <2>3. age[number[c]] < MaxCall
    BY <1>1, <2>1, <2>2, TimesAssumption DEF Overdue, Calling
  <2>4. age'[number[c]] = age[number[c]] + 1
    BY <1>1, <2>2, <2>3, TimesAssumption DEF Older, CallbacksArePrompt
  <2>5. poolTtl \in Nat /\ poolTtl > 1
    BY <2>2, <2>3, TimesAssumption DEF PoolInv, TypeOK, CallbacksArePrompt
  <2> QED BY <1>1, <2>2, <2>3, <2>4, <2>5, TimesAssumption
<1>7. HoldersDiffer'
  BY <1>1, <1>5 DEF PoolInv, HoldersDiffer, Holders
<1>8. DispatchersFit' /\ JobsFit' /\ OneRelease'
  BY <1>1, <1>3 DEF PoolInv, DispatchersFit, JobsFit, OneRelease
<1>9. MappingsFit'
  BY <1>1 DEF PoolInv, MappingsFit
<1>10. BatchIsCounted'
  <2>1. poolTtl \in Nat /\ batchAge \in Nat
    BY TimesAssumption DEF PoolInv, TypeOK
  <2>2. ASSUME batchAge' <= BatchLength PROVE poolTtl' + batchAge' = PoolTtl
    <3>1. batchAge < BatchLength /\ batchAge' = batchAge + 1 /\ poolTtl + batchAge = PoolTtl
      BY <1>1, <2>1, <2>2, TimesAssumption DEF PoolInv, BatchIsCounted
    <3>2. poolTtl > 0
      BY <2>1, <3>1, TimesAssumption DEF CallbacksArePrompt
    <3> QED BY <1>1, <2>1, <3>1, <3>2, TimesAssumption
  <2> QED BY <2>2 DEF BatchIsCounted
<1> QED BY <1>2, <1>6, <1>7, <1>8, <1>9, <1>10 DEF PoolInv

LEMMA PoolInvStep ==
  ASSUME PoolInv, CallbacksArePrompt, [Next]_vars
  PROVE  PoolInv'
<1>1. CASE StartBatch
  BY <1>1, BatchStarts
<1>2. ASSUME NEW c \in Calls, Dispatcher(c) PROVE PoolInv'
  BY <1>2, NumberPicked, DispatchGivesUp, CallPlaced, DispatchFailed, CallEnded DEF Dispatcher
<1>3. ASSUME NEW k \in Callbacks, NEW c \in Calls, Callback(k, c) PROVE PoolInv'
  BY <1>3, CallbackServed
<1>4. ASSUME NEW w \in Workers, Release(w) PROVE PoolInv'
  BY <1>4, MappingRead, NumberFreed, ReleaseEnded DEF Release
<1>5. CASE Tick
  BY <1>5, TimePassed
<1>6. CASE UNCHANGED vars
  <2>1. /\ TypeOK' /\ DispatchersFit' /\ MappingsFit' /\ BatchIsCounted'
    BY <1>6 DEF vars, PoolInv, TypeOK, DispatchersFit, MappingsFit, BatchIsCounted
  <2>2. Releasing' = Releasing /\ Holders' = Holders /\ \A w : Owner(w)' = Owner(w)
    BY <1>6 DEF vars, Releasing, Holders, Owner, Calling, Awaiting
  <2>3. JobsFit' /\ OneRelease' /\ NumbersHeld' /\ HoldersDiffer'
    BY <1>6, <2>2 DEF vars, PoolInv, JobsFit, OneRelease, NumbersHeld, HoldersDiffer
  <2> QED BY <2>1, <2>3 DEF PoolInv
<1> QED BY <1>1, <1>2, <1>3, <1>4, <1>5, <1>6 DEF Next

LEMMA PoolInvAlways ==
  ASSUME CallbacksArePrompt
  PROVE  Spec => []PoolInv
<1>1. Init => PoolInv
  BY PoolInvInit
<1>2. PoolInv /\ [Next]_vars => PoolInv'
  BY PoolInvStep
<1> QED BY <1>1, <1>2, PTL DEF Spec

-----------------------------------------------------------------------------
(* What follows.                                                           *)

\* Every variable keeps its type (RateLimiter's two Redis keys and the
\* dispatcher's and the callbacks' progress).
THEOREM PoolTypes ==
  ASSUME CallbacksArePrompt
  PROVE  Spec => []TypeOK
<1>1. PoolInv => TypeOK
  BY DEF PoolInv
<1> QED BY <1>1, PoolInvAlways, PTL

\* No two calls in progress are made from one number: what acquire_from_number
\* gives is unique until the call ends (campaign_call_dispatcher.py:283).
THEOREM NumbersAreNeverShared ==
  ASSUME CallbacksArePrompt
  PROVE  Spec => []NumbersNotShared
<1>1. PoolInv => NumbersNotShared
  BY DEF PoolInv, HoldersDiffer, Holders, NumbersNotShared
<1> QED BY <1>1, PoolInvAlways, PTL

=============================================================================
