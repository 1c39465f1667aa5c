--------------------------- MODULE DashboardProofs ---------------------------
(***************************************************************************)
(* What holds of the two components that keep their records in the store   *)
(* of the dashboard, CallLeases and Payments.  Each theorem is about one   *)
(* of them, and what the store holds is read as that one's collections.    *)
(*                                                                         *)
(* CallLeases: for any calls, demo links, processes, limits, times and     *)
(* faults, with nothing assumed but that Dograh answers, or is given up,   *)
(* before a reservation has expired.  Payments: for any payments, amounts, *)
(* callbacks, processes and faults.  The sum of a ledger is a recursive    *)
(* function, which the invariant states by its partial sums, and which has *)
(* no other value.                                                         *)
(***************************************************************************)
EXTENDS CallLeases, Payments, FiniteSetTheorems, SequenceTheorems, WellFoundedInduction, TLAPS

-----------------------------------------------------------------------------
(* The inductive invariant of CallLeases.                                  *)

\* A copy of the store that the plan allows; what has no phase is no lease.
Sound(db) ==
  /\ db \in Databases
  /\ \A c \in Calls : db.lease[c].phase = "none" => db.lease[c].left = 0
  /\ IsFiniteSet(Active(db)) /\ Cardinality(Active(db)) <= Limit

CopiesAreSound == \A db \in Copies : Sound(db)

\* While Dograh is asked for the call, its reservation has not expired.
ReservationLasts(c) ==
  request[c].pc \in {"mint", "bind"} =>
    \A db \in Copies : \/ db.lease[c] = NoLease
                       \/ db.lease[c].left + request[c].age >= Reservation

\* A browser whose "connected" is still to be taken has not been connected.
Expected(c) == \/ request[c].pc = "answered" /\ client[c].pc \in {"away", "connecting"}
               \/ <<c, "connected">> \in mail

ConnectsOnce(c) ==
  Expected(c) => \A db \in Copies : db.lease[c].phase \in {"none", "connecting"}

\* A call that goes on has a lease for as long as it may last.
LeaseOutlastsCall(c) ==
  client[c].pc = "confirmed" /\ run[c] = "open" =>
    \A db \in Copies : /\ db.lease[c].phase = "connected"
                       /\ db.lease[c].left + client[c].age >= Session + Grace

\* What was given back stays so.
EndIsKept(c) == c \in ended => \A db \in Copies : db.lease[c] = NoLease

LeaseFits(c) ==
  /\ ReservationLasts(c)
  /\ c \in Browsers => ConnectsOnce(c) /\ LeaseOutlastsCall(c) /\ EndIsKept(c)

LeasesFit == \A c \in Calls : LeaseFits(c)

\* Browsers follow their requests, and messages their browsers.
ClientFits(c) ==
  /\ (client[c].pc # "away" \/ c \in ended \/ \E action \in {"connected", "ended"} : <<c, action>> \in mail)
       => request[c].pc = "answered"
  /\ <<c, "connected">> \in mail => client[c].pc \in {"talking", "over"}
  /\ <<c, "ended">> \in mail \/ c \in ended => client[c].pc = "over"
  /\ client[c].pc = "connecting" => client[c].age <= ConnectTime
  /\ client[c].pc \in {"talking", "confirmed"} => client[c].age <= Session

ClientsFit == \A c \in Browsers : ClientFits(c)

\* A run is made once, and what a meter read of it stays true.
RunsFit ==
  /\ \A c \in Calls : request[c].pc \in {"idle", "refresh", "reserve", "mint"} => run[c] = "none"
  /\ \A p \in Processes : meter[p].completed \subseteq Over

LeasesInv == TypeOK /\ CopiesAreSound /\ LeasesFit /\ ClientsFit /\ RunsFit

-----------------------------------------------------------------------------
(* Copies of the store.                                                    *)

\* The constants are what arithmetic needs.
LEMMA Times ==
  /\ Limit \in Nat \ {0} /\ MaxStarts \in Nat \ {0} /\ Reservation \in Nat \ {0}
  /\ MintTime \in Nat \ {0} /\ ConnectTime \in Nat \ {0} /\ Session \in Nat \ {0}
  /\ Grace \in Nat \ {0} /\ Hour \in Nat \ {0} /\ MaxFaults \in Nat /\ Largest \in Nat
  /\ MintTime < Reservation
  /\ Reservation \in 0 .. Largest /\ Hour \in 0 .. Largest /\ Session + Grace \in 0 .. Largest
BY LeasesAssumption, MintAssumption, StoreAssumption DEF Largest

\* What a copy is made of.
LEMMA LeaseTypes ==
  ASSUME NEW db \in Databases
  PROVE  /\ db = [lease |-> db.lease, starts |-> db.starts]
         /\ db.lease \in [Calls -> Leases] /\ db.starts \in 0 .. MaxStarts
         /\ \A c \in Calls : db.lease[c] \in Leases /\ db.lease[c].left \in Nat
BY Times DEF Databases, Leases

\* What a request or the meter reads is one of the copies.
LEMMA DbIsACopy == Db \in Copies
BY DEF Db, Copies

\* A copy in which no lease became active is sound like the one it was made of.
LEMMA NoLeaseMore ==
  ASSUME NEW old, Sound(old), NEW db \in Databases,
         \A c \in Calls : db.lease[c].phase = "none" => db.lease[c].left = 0,
         \A c \in Calls : db.lease[c].left > 0 => old.lease[c].left > 0
  PROVE  Sound(db)
<1>1. Active(db) \subseteq Active(old)
  BY DEF Active
<1>2. IsFiniteSet(Active(old)) /\ Cardinality(Active(old)) <= Limit
  BY DEF Sound
<1>3. IsFiniteSet(Active(db)) /\ Cardinality(Active(db)) <= Cardinality(Active(old))
  BY <1>1, <1>2, FS_Subset
<1>4. Cardinality(Active(db)) \in Nat /\ Cardinality(Active(old)) \in Nat
  BY <1>2, <1>3, FS_CardinalityType
<1>5. Cardinality(Active(db)) <= Limit
  BY <1>2, <1>3, <1>4, Times
<1> QED BY <1>3, <1>5 DEF Sound

\* A lease is extended while it is active, or given when there is room for it.
LEMMA LeaseGiven ==
  ASSUME NEW db, Sound(db), NEW c \in Calls, NEW phase \in Phases \ {"none"},
         NEW left \in 0 .. Largest,
         db.lease[c].left > 0 \/ Cardinality(Active(db)) < Limit
  PROVE  /\ Sound(WithLease(db, c, phase, left))
         /\ WithLease(db, c, phase, left).lease[c] = [phase |-> phase, left |-> left]
         /\ \A e \in Calls \ {c} : WithLease(db, c, phase, left).lease[e] = db.lease[e]
<1> DEFINE l == [phase |-> phase, left |-> left]
           new == WithLease(db, c, phase, left)
<1>1. db \in Databases
  BY DEF Sound
<1>2. l \in Leases /\ l.phase # "none"
  BY DEF Leases
<1>3. new = [lease |-> [db.lease EXCEPT ![c] = l], starts |-> db.starts]
  BY <1>1, LeaseTypes DEF WithLease
<1> HIDE DEF new, l
<1>4. new \in Databases /\ new.lease[c] = l /\ \A e \in Calls \ {c} : new.lease[e] = db.lease[e]
  BY <1>1, <1>2, <1>3, LeaseTypes DEF Databases
<1>5. \A e \in Calls : new.lease[e].phase = "none" => new.lease[e].left = 0
  BY <1>2, <1>4 DEF Sound
<1>6. Active(new) \subseteq Active(db) \cup {c}
  BY <1>4 DEF Active
<1>7. IsFiniteSet(Active(db)) /\ Cardinality(Active(db)) <= Limit
      /\ Cardinality(Active(db)) \in Nat
  BY FS_CardinalityType DEF Sound
<1>8. IsFiniteSet(Active(db) \cup {c}) /\ Cardinality(Active(db) \cup {c}) <= Limit
  <2>1. CASE c \in Active(db)
    <3>1. Active(db) \cup {c} = Active(db)
      BY <2>1
    <3> QED BY <1>7, <3>1
  <2>2. CASE c \notin Active(db)
    <3>1. Cardinality(Active(db)) < Limit
      BY <2>2 DEF Active
    <3>2. /\ IsFiniteSet(Active(db) \cup {c})
          /\ Cardinality(Active(db) \cup {c}) = Cardinality(Active(db)) + 1
      BY <1>7, <2>2, FS_AddElement
    <3> QED BY <1>7, <3>1, <3>2, Times
  <2> QED BY <2>1, <2>2
<1>9. IsFiniteSet(Active(new)) /\ Cardinality(Active(new)) <= Cardinality(Active(db) \cup {c})
  BY <1>6, <1>8, FS_Subset
<1>10. Cardinality(Active(new)) \in Nat /\ Cardinality(Active(db) \cup {c}) \in Nat
  BY <1>8, <1>9, FS_CardinalityType
<1>11. Cardinality(Active(new)) <= Limit
  BY <1>8, <1>9, <1>10, Times
<1>12. Sound(new)
  BY <1>4, <1>5, <1>9, <1>11 DEF Sound
<1> QED BY <1>4, <1>12 DEF new, l

\* A lease is dropped.
LEMMA LeaseDropped ==
  ASSUME NEW db, Sound(db), NEW c \in Calls
  PROVE  /\ Sound(WithoutLease(db, c)) /\ WithoutLease(db, c).lease[c] = NoLease
         /\ \A e \in Calls \ {c} : WithoutLease(db, c).lease[e] = db.lease[e]
<1> DEFINE new == WithoutLease(db, c)
<1>1. db \in Databases
  BY DEF Sound
<1>2. NoLease \in Leases /\ NoLease.left = 0
  BY Times DEF NoLease, Leases, Phases
<1>3. new = [lease |-> [db.lease EXCEPT ![c] = NoLease], starts |-> db.starts]
  BY <1>1, LeaseTypes DEF WithoutLease
<1> HIDE DEF new
<1>4. /\ new \in Databases /\ new.lease[c] = NoLease
      /\ \A e \in Calls \ {c} : new.lease[e] = db.lease[e]
  BY <1>1, <1>2, <1>3, LeaseTypes DEF Databases
<1>5. Sound(new)
  BY <1>1, <1>2, <1>4, NoLeaseMore, LeaseTypes DEF Sound
<1> QED BY <1>4, <1>5 DEF new

\* A start of a demo link is counted or given back.
LEMMA StartsCounted ==
  ASSUME NEW db, Sound(db), NEW n \in 0 .. MaxStarts
  PROVE  Sound([db EXCEPT !.starts = n]) /\ [db EXCEPT !.starts = n].lease = db.lease
<1> DEFINE new == [db EXCEPT !.starts = n]
<1>1. db \in Databases
  BY DEF Sound
<1>2. new \in Databases /\ new.lease = db.lease
  BY <1>1, LeaseTypes DEF Databases
<1> HIDE DEF new
<1>3. Sound(new)
  BY <1>1, <1>2, NoLeaseMore, LeaseTypes DEF Sound
<1> QED BY <1>2, <1>3 DEF new

-----------------------------------------------------------------------------
(* Steps of the store.                                                     *)

LEMMA Commits ==
  ASSUME LeasesInv, NEW db, Sound(db), Commit(db)
  PROVE  CopiesAreSound' /\ StoreTypeOK(Databases)' /\ Copies' = {db}
<1>1. mem' = db /\ saved' = db /\ UNCHANGED <<mode, faults>>
  BY DEF Commit
<1>2. CopiesAreSound'
  BY <1>1 DEF CopiesAreSound, Copies, Sound, Active
<1>3. StoreTypeOK(Databases)'
  BY <1>1 DEF LeasesInv, TypeOK, StoreTypeOK, Sound
<1> QED BY <1>1, <1>2, <1>3 DEF Copies

LEMMA Aborts ==
  ASSUME LeasesInv, NEW db, Sound(db), Abort(db)
  PROVE  CopiesAreSound' /\ StoreTypeOK(Databases)' /\ Copies' \subseteq Copies \cup {db}
<1>1. mem' = mem /\ saved' \in {saved, db} /\ faults' \in 0 .. MaxFaults /\ mode' = mode
  BY Times DEF Abort, Fault, LeasesInv, TypeOK, StoreTypeOK
<1>2. Sound(mem') /\ Sound(saved')
  BY <1>1 DEF LeasesInv, CopiesAreSound, Copies
<1>3. CopiesAreSound'
  BY <1>2 DEF CopiesAreSound, Copies, Sound, Active
<1>4. StoreTypeOK(Databases)'
  BY <1>1, <1>2 DEF LeasesInv, TypeOK, StoreTypeOK, Sound
<1> QED BY <1>1, <1>3, <1>4 DEF Copies

LEMMA StoreStays ==
  ASSUME LeasesInv,
         \/ UNCHANGED <<store, faults>>
         \/ Fault /\ UNCHANGED store
         \/ Restart
  PROVE  CopiesAreSound' /\ StoreTypeOK(Databases)' /\ Copies' \subseteq Copies
<1>1. /\ mem' \in {mem, saved} /\ saved' = saved /\ mode' = mode
      /\ faults' \in 0 .. MaxFaults
  BY Times DEF Restart, Fault, LeasesInv, TypeOK, StoreTypeOK, store
<1>2. Sound(mem') /\ Sound(saved')
  BY <1>1 DEF LeasesInv, CopiesAreSound, Copies
<1>3. CopiesAreSound'
  BY <1>2 DEF CopiesAreSound, Copies, Sound, Active
<1>4. StoreTypeOK(Databases)'
  BY <1>1, <1>2 DEF LeasesInv, TypeOK, StoreTypeOK, Sound
<1> QED BY <1>1, <1>3, <1>4 DEF Copies

-----------------------------------------------------------------------------
(* Calls that a step does not concern.                                     *)

\* Nobody moves for call c.
Untouched(c) ==
  /\ request'[c] = request[c] /\ run'[c] = run[c]
  /\ c \in Browsers =>
       /\ client'[c] = client[c] /\ (c \in ended' <=> c \in ended)
       /\ \A action \in {"connected", "ended"} : <<c, action>> \in mail' <=> <<c, action>> \in mail

\* No copy of the store has a lease of c that none had.
LeaseKept(c) == \A x \in Copies' : \E y \in Copies : x.lease[c] = y.lease[c]

LEMMA Bystander ==
  ASSUME LeasesInv, NEW c \in Calls, Untouched(c), LeaseKept(c)
  PROVE  LeaseFits(c)'
<1>1. LeaseFits(c)
  BY DEF LeasesInv, LeasesFit
<1>2. ReservationLasts(c)'
  BY <1>1 DEF LeaseFits, ReservationLasts, Untouched, LeaseKept
<1>3. ASSUME c \in Browsers
      PROVE  ConnectsOnce(c)' /\ LeaseOutlastsCall(c)' /\ EndIsKept(c)'
  <2>1. ConnectsOnce(c)'
    BY <1>1, <1>3 DEF LeaseFits, ConnectsOnce, Expected, Untouched, LeaseKept
  <2>2. LeaseOutlastsCall(c)'
    BY <1>1, <1>3 DEF LeaseFits, LeaseOutlastsCall, Untouched, LeaseKept
  <2>3. EndIsKept(c)'
    BY <1>1, <1>3 DEF LeaseFits, EndIsKept, Untouched, LeaseKept
  <2> QED BY <2>1, <2>2, <2>3
<1> QED BY <1>2, <1>3 DEF LeaseFits

\* Of the others a mutation for one call leaves what there was.
LEMMA OthersKeepTheirLeases ==
  ASSUME NEW c \in Calls, NEW db,
         Copies' \subseteq Copies \cup {db},
         \A e \in Calls \ {c} : db.lease[e] = Db.lease[e]
  PROVE  \A e \in Calls \ {c} : LeaseKept(e)
BY DbIsACopy DEF LeaseKept

\* A call that was answered has its browser, its messages and its run behind it.
LEMMA ClientsStay ==
  ASSUME LeasesInv, UNCHANGED browser,
         \A c \in Calls : request[c].pc = "answered" => request'[c].pc = "answered"
  PROVE  ClientsFit'
<1>1. \A c \in Browsers : c \in Calls
  BY DEF Calls
<1> QED BY <1>1 DEF LeasesInv, ClientsFit, ClientFits, browser

\* Nothing is known yet of the call of a request that is under way.
LEMMA NotYetAnswered ==
  ASSUME LeasesInv, NEW c \in Browsers, request[c].pc # "answered"
  PROVE  /\ client[c].pc = "away" /\ c \notin ended
         /\ \A action \in {"connected", "ended"} : <<c, action>> \notin mail
BY DEF LeasesInv, ClientsFit, ClientFits

-----------------------------------------------------------------------------
(* Requests.                                                               *)

\* A request moves on: what has to be seen to is its reservation, the lease with
\* which it is answered, and its run.
LEMMA RequestMoves ==
  ASSUME LeasesInv, NEW c \in Calls, request[c].pc # "answered",
         NEW r \in Requests, request' = [request EXCEPT ![c] = r],
         UNCHANGED <<browser, meter>>, run' \in [Calls -> RunStates],
         \A e \in Calls \ {c} : run'[e] = run[e],
         run[c] = "completed" => run'[c] = "completed",
         r.pc \in {"idle", "refresh", "reserve", "mint"} => run'[c] = "none",
         CopiesAreSound', StoreTypeOK(Databases)',
         \A e \in Calls \ {c} : LeaseKept(e),
         r.pc \in {"mint", "bind"} =>
           \A db \in Copies' : db.lease[c] = NoLease \/ db.lease[c].left + r.age >= Reservation,
         r.pc = "answered" /\ c \in Browsers =>
           \A db \in Copies' : db.lease[c].phase \in {"none", "connecting"}
  PROVE  LeasesInv'
<1>1. TypeOK /\ request \in [Calls -> Requests] /\ run \in [Calls -> RunStates]
  BY DEF LeasesInv, TypeOK
<1>2. request'[c] = r /\ \A e \in Calls \ {c} : request'[e] = request[e]
  BY <1>1
<1>3. TypeOK'
  BY <1>1 DEF TypeOK, browser
<1>4. ASSUME NEW e \in Calls
      PROVE  LeaseFits(e)'
  <2>1. CASE e # c
    <3>1. Untouched(e)
      BY <1>2, <2>1 DEF Untouched, browser
    <3> QED BY <2>1, <3>1, Bystander
  <2>2. CASE e = c
    <3>1. ReservationLasts(c)'
      BY <1>2 DEF ReservationLasts
    <3>2. ASSUME c \in Browsers
          PROVE  ConnectsOnce(c)' /\ LeaseOutlastsCall(c)' /\ EndIsKept(c)'
      <4>1. /\ client'[c].pc = "away" /\ c \notin ended'
            /\ <<c, "connected">> \notin mail'
        BY <3>2, NotYetAnswered DEF browser
      <4> QED BY <1>2, <3>2, <4>1 DEF ConnectsOnce, Expected, LeaseOutlastsCall, EndIsKept
    <3> QED BY <2>2, <3>1, <3>2 DEF LeaseFits
  <2> QED BY <2>1, <2>2
<1>5. LeasesFit'
  BY <1>4 DEF LeasesFit
<1>6. ClientsFit'
  <2>1. \A e \in Calls : request[e].pc = "answered" => request'[e].pc = "answered"
    BY <1>2
  <2> QED BY <2>1, ClientsStay
<1>7. RunsFit'
  <2>1. \A e \in Calls : request'[e].pc \in {"idle", "refresh", "reserve", "mint"} => run'[e] = "none"
    BY <1>2 DEF LeasesInv, RunsFit
  <2>2. Over \subseteq Over'
    BY DEF Over
  <2> QED BY <2>1, <2>2 DEF LeasesInv, RunsFit
<1> QED BY <1>3, <1>5, <1>6, <1>7 DEF LeasesInv

\* Where Goto leads is a request, and the time of Dograh is not forgotten.
LEMMA GotoMoves ==
  ASSUME LeasesInv, NEW c \in Calls, NEW pc \in Pcs, Goto(c, pc)
  PROVE  \E r \in Requests : /\ request' = [request EXCEPT ![c] = r] /\ r.pc = pc
                             /\ pc \in {"mint", "bind"} => r.age = request[c].age
<1> DEFINE r == [pc |-> pc,
                 on |-> IF pc \in Settled THEN Alone ELSE request[c].on,
                 age |-> IF pc \in {"mint", "bind"} THEN request[c].age ELSE 0]
<1>1. request \in [Calls -> Requests] /\ request[c] \in Requests
  BY DEF LeasesInv, TypeOK
<1>2. r \in Requests
  BY <1>1, StoreAssumption, Times DEF Requests
<1>3. request' = [request EXCEPT ![c] = r]
  BY <1>1 DEF Goto
<1> QED BY <1>2, <1>3

\* The steps to which the lease of the call does not matter.
LEMMA SmallSteps ==
  ASSUME LeasesInv, NEW c \in Calls, request[c].pc # "answered",
         NEW pc \in Pcs \ {"mint", "bind", "answered"},
         Goto(c, pc) \/ (pc \in {"refresh", "refund"} /\ \E r \in Requests :
                           r.pc = pc /\ request' = [request EXCEPT ![c] = r]),
         pc \in {"idle", "refresh", "reserve"} => run[c] = "none",
         UNCHANGED <<browser, upstream>>, CopiesAreSound', StoreTypeOK(Databases)',
         \A e \in Calls \ {c} : LeaseKept(e)
  PROVE  LeasesInv'
<1>1. PICK r \in Requests : r.pc = pc /\ request' = [request EXCEPT ![c] = r]
  BY GotoMoves
<1>2. run' = run /\ meter' = meter /\ run \in [Calls -> RunStates]
  BY DEF upstream, LeasesInv, TypeOK
<1> QED BY <1>1, <1>2, RequestMoves

LEMMA BeginSteps ==
  ASSUME LeasesInv, NEW c \in Calls, NEW p \in Processes, Begin(c, p) \/ BeginDemo(c, p)
  PROVE  LeasesInv'
<1>1. /\ request \in [Calls -> Requests] /\ request[c] \in Requests
      /\ request[c].pc = "idle" /\ run[c] = "none" /\ UNCHANGED <<browser, upstream>>
  BY DEF Begin, BeginDemo, LeasesInv, TypeOK, RunsFit
<1>2. CASE Begin(c, p)
  <2> DEFINE r == [pc |-> "refresh", on |-> p, age |-> 0]
  <2>1. r \in Requests /\ request' = [request EXCEPT ![c] = r] /\ r.pc = "refresh"
    BY <1>2, Times DEF Begin, Requests, Pcs
  <2>2. CopiesAreSound' /\ StoreTypeOK(Databases)' /\ Copies' \subseteq Copies
    BY <1>2, StoreStays DEF Begin
  <2>3. \A e \in Calls \ {c} : LeaseKept(e)
    BY <2>2 DEF LeaseKept
  <2> HIDE DEF r
  <2>4. "refresh" \in Pcs \ {"mint", "bind", "answered"}
    BY DEF Pcs
  <2> QED BY <1>1, <2>1, <2>2, <2>3, <2>4, SmallSteps
<1>3. CASE BeginDemo(c, p)
  <2> DEFINE n == Db.starts + 1
             db == [Db EXCEPT !.starts = n]
             r(pc) == [request[c] EXCEPT !.pc = pc, !.on = p]
  <2>1. Sound(Db) /\ Db \in Databases
    BY DbIsACopy DEF LeasesInv, CopiesAreSound, Sound
  <2>2. CASE Db.starts >= MaxStarts
    <3>1. Goto(c, "failed") /\ UNCHANGED <<store, faults>>
      BY <1>3, <2>2 DEF BeginDemo
    <3>2. CopiesAreSound' /\ StoreTypeOK(Databases)' /\ Copies' \subseteq Copies
      BY <3>1, StoreStays
    <3>3. \A e \in Calls \ {c} : LeaseKept(e)
      BY <3>2 DEF LeaseKept
    <3>4. "failed" \in Pcs \ {"mint", "bind", "answered"}
      BY DEF Pcs
    <3> QED BY <1>1, <3>1, <3>2, <3>3, <3>4, SmallSteps
  <2>3. CASE ~(Db.starts >= MaxStarts)
    <3>1. n \in 0 .. MaxStarts
      BY <2>1, <2>3, LeaseTypes, Times
    <3>2. Sound(db) /\ db.lease = Db.lease
      BY <2>1, <3>1, StartsCounted
    <3>3. \E pc \in {"refresh", "refund"} :
            /\ request' = [request EXCEPT ![c].pc = pc, ![c].on = p]
            /\ Commit(db) \/ Abort(db)
      BY <1>3, <2>3 DEF BeginDemo
    <3> HIDE DEF db, n
    <3>4. CopiesAreSound' /\ StoreTypeOK(Databases)' /\ Copies' \subseteq Copies \cup {db}
      BY <3>2, <3>3, Commits, Aborts
    <3>5. \A e \in Calls \ {c} : LeaseKept(e)
      BY <3>2, <3>4, OthersKeepTheirLeases
    <3>6. PICK pc \in {"refresh", "refund"} : request' = [request EXCEPT ![c].pc = pc, ![c].on = p]
      BY <3>3
    <3>7. r(pc) \in Requests /\ r(pc).pc = pc /\ request' = [request EXCEPT ![c] = r(pc)]
      BY <1>1, <3>6 DEF Requests, Pcs
    <3> HIDE DEF r
    <3>8. pc \in Pcs \ {"mint", "bind", "answered"}
      BY DEF Pcs
    <3> QED BY <1>1, <3>4, <3>5, <3>7, <3>8, SmallSteps
  <2> QED BY <2>2, <2>3
<1> QED BY <1>2, <1>3

\* A mutation for call c that is sound leaves the leases of the others.
LEMMA MutationSound ==
  ASSUME LeasesInv, NEW c \in Calls, NEW db, Sound(db), Commit(db) \/ Abort(db),
         \A e \in Calls \ {c} : db.lease[e] = Db.lease[e]
  PROVE  /\ CopiesAreSound' /\ StoreTypeOK(Databases)' /\ Copies' \subseteq Copies \cup {db}
         /\ Commit(db) => Copies' = {db}
         /\ \A e \in Calls \ {c} : LeaseKept(e)
<1>1. CopiesAreSound' /\ StoreTypeOK(Databases)' /\ Copies' \subseteq Copies \cup {db}
  BY Commits, Aborts
<1>2. Commit(db) => Copies' = {db}
  BY Commits
<1> QED BY <1>1, <1>2, OthersKeepTheirLeases

\* So does a step that leaves the store alone.
LEMMA StoreUntouched ==
  ASSUME LeasesInv, UNCHANGED <<store, faults>> \/ (Fault /\ UNCHANGED store)
  PROVE  /\ CopiesAreSound' /\ StoreTypeOK(Databases)' /\ Copies' \subseteq Copies
         /\ \A e \in Calls : LeaseKept(e)
<1>1. CopiesAreSound' /\ StoreTypeOK(Databases)' /\ Copies' \subseteq Copies
  BY StoreStays
<1> QED BY <1>1 DEF LeaseKept

LEMMA DbIsSound ==
  ASSUME LeasesInv
  PROVE  Sound(Db) /\ Db \in Databases /\ Cardinality(Active(Db)) \in Nat
<1>1. Sound(Db)
  BY DbIsACopy DEF LeasesInv, CopiesAreSound
<1> QED BY <1>1, FS_CardinalityType DEF Sound

LEMMA FailuresArePcs ==
  ASSUME NEW c \in Calls
  PROVE  AfterError(c) \in Pcs \ {"idle", "refresh", "reserve", "mint", "bind", "answered"}
BY DEF AfterError, Pcs

\* A reservation is made when there is room, and is new.
LEMMA ReserveStep ==
  ASSUME LeasesInv, NEW c \in Calls, Reserve(c)
  PROVE  LeasesInv'
<1>1. /\ request[c].pc = "reserve" /\ run[c] = "none" /\ UNCHANGED <<browser, upstream>>
      /\ request[c] \in Requests /\ request[c].age \in Nat
  BY Times DEF Reserve, LeasesInv, RunsFit, TypeOK, Requests
<1>2. CASE Cardinality(Active(Db)) >= Limit
  <2>1. Goto(c, AfterError(c)) /\ UNCHANGED <<store, faults>>
    BY <1>2 DEF Reserve, Throw
  <2> QED BY <1>1, <2>1, StoreUntouched, FailuresArePcs, SmallSteps
<1>3. CASE ~(Cardinality(Active(Db)) >= Limit)
  <2> DEFINE db == WithLease(Db, c, "reserved", Reservation)
  <2>1. Cardinality(Active(Db)) < Limit
    BY <1>3, DbIsSound, Times
  <2>2. /\ Sound(db) /\ db.lease[c] = [phase |-> "reserved", left |-> Reservation]
        /\ \A e \in Calls \ {c} : db.lease[e] = Db.lease[e]
    BY <2>1, DbIsSound, LeaseGiven, Times DEF Phases
  <2>3. Mutation(c, db, "mint", AfterError(c))
    BY <1>3 DEF Reserve
  <2> HIDE DEF db
  <2>4. CASE Commit(db) /\ Goto(c, "mint")
    <3>1. PICK r \in Requests : /\ request' = [request EXCEPT ![c] = r] /\ r.pc = "mint"
                                /\ r.age = request[c].age
      BY <2>4, GotoMoves DEF Pcs
    <3>2. /\ CopiesAreSound' /\ StoreTypeOK(Databases)' /\ Copies' = {db}
          /\ \A e \in Calls \ {c} : LeaseKept(e)
      BY <2>2, <2>4, MutationSound
    <3>3. \A x \in Copies' : x.lease[c].left + r.age >= Reservation
      BY <1>1, <2>2, <3>1, <3>2, Times
    <3>4. run' = run /\ meter' = meter /\ run \in [Calls -> RunStates]
      BY <1>1 DEF upstream, LeasesInv, TypeOK
    <3> QED BY <1>1, <3>1, <3>2, <3>3, <3>4, RequestMoves
  <2>5. CASE Abort(db) /\ Goto(c, AfterError(c))
    BY <1>1, <2>2, <2>5, MutationSound, FailuresArePcs, SmallSteps
  <2> QED BY <2>3, <2>4, <2>5 DEF Mutation
<1> QED BY <1>2, <1>3

\* Dograh makes the run, once.
LEMMA MintStep ==
  ASSUME LeasesInv, NEW c \in Calls, Mint(c)
  PROVE  LeasesInv'
<1>1. /\ request[c].pc = "mint" /\ run[c] = "none" /\ UNCHANGED <<store, faults, browser, meter>>
      /\ run \in [Calls -> RunStates]
  BY DEF Mint, LeasesInv, RunsFit, TypeOK
<1>2. /\ CopiesAreSound' /\ StoreTypeOK(Databases)' /\ Copies' \subseteq Copies
      /\ \A e \in Calls \ {c} : LeaseKept(e)
  BY <1>1, StoreUntouched
<1>3. /\ run' \in [Calls -> RunStates]
      /\ \A e \in Calls \ {c} : run'[e] = run[e]
  BY <1>1 DEF Mint, RunStates
<1>4. PICK pc \in {"bind", "release", "answered"} :
         Goto(c, pc) /\ (pc = "answered" => c \in Dials)
  BY DEF Mint
<1>5. pc \in Pcs
  BY DEF Pcs
<1>6. PICK r \in Requests : /\ request' = [request EXCEPT ![c] = r] /\ r.pc = pc
                            /\ pc = "bind" => r.age = request[c].age
  BY <1>4, <1>5, GotoMoves
<1>7. r.pc \in {"mint", "bind"} =>
        \A db \in Copies' : db.lease[c] = NoLease \/ db.lease[c].left + r.age >= Reservation
  BY <1>1, <1>2, <1>6 DEF LeasesInv, LeasesFit, LeaseFits, ReservationLasts
<1>8. ~(r.pc = "answered" /\ c \in Browsers)
  BY <1>4, <1>6, LeasesAssumption
<1> QED BY <1>1, <1>2, <1>3, <1>6, <1>7, <1>8, RequestMoves

\* What is bound is bound in time: its reservation is active.
LEMMA BindStep ==
  ASSUME LeasesInv, NEW c \in Calls, Bind(c)
  PROVE  LeasesInv'
<1>1. /\ request[c].pc = "bind" /\ UNCHANGED <<browser, upstream>>
      /\ request[c] \in Requests /\ request[c].age \in 0 .. MintTime
  BY DEF Bind, LeasesInv, TypeOK, Requests
<1>2. /\ run' = run /\ meter' = meter /\ run \in [Calls -> RunStates]
  BY <1>1 DEF upstream, LeasesInv, TypeOK
<1>3. Db.lease[c] = NoLease \/ Db.lease[c].left > 0
  <2>1. Db.lease[c] = NoLease \/ Db.lease[c].left + request[c].age >= Reservation
    BY <1>1, DbIsACopy DEF LeasesInv, LeasesFit, LeaseFits, ReservationLasts
  <2>2. Db.lease[c].left \in Nat
    BY DbIsSound, LeaseTypes
  <2> QED BY <1>1, <2>1, <2>2, Times
<1>4. ASSUME Goto(c, "release"), CopiesAreSound', StoreTypeOK(Databases)',
             \A e \in Calls \ {c} : LeaseKept(e)
      PROVE  LeasesInv'
  <2>1. "release" \in Pcs \ {"mint", "bind", "answered"}
    BY DEF Pcs
  <2> QED BY <1>1, <1>4, <2>1, SmallSteps
<1>5. ASSUME Goto(c, "answered"), CopiesAreSound', StoreTypeOK(Databases)',
             \A e \in Calls \ {c} : LeaseKept(e),
             c \in Browsers => \A db \in Copies' : db.lease[c].phase \in {"none", "connecting"}
      PROVE  LeasesInv'
  <2>1. PICK r \in Requests : request' = [request EXCEPT ![c] = r] /\ r.pc = "answered"
    BY <1>5, GotoMoves DEF Pcs
  <2> QED BY <1>1, <1>2, <1>5, <2>1, RequestMoves
<1>6. CASE /\ Db.lease[c] = NoLease /\ c \in Browsers
           /\ Goto(c, "release") /\ UNCHANGED <<store, faults>>
  BY <1>4, <1>6, StoreUntouched
<1>7. CASE /\ Db.lease[c] # NoLease /\ c \in Browsers
           /\ Mutation(c, WithLease(Db, c, "connecting", Reservation), "answered", "release")
  <2> DEFINE db == WithLease(Db, c, "connecting", Reservation)
  <2>1. /\ Sound(db) /\ db.lease[c] = [phase |-> "connecting", left |-> Reservation]
        /\ \A e \in Calls \ {c} : db.lease[e] = Db.lease[e]
    BY <1>3, <1>7, DbIsSound, LeaseGiven, Times DEF Phases
  <2> HIDE DEF db
  <2>2. CASE Commit(db) /\ Goto(c, "answered")
    BY <1>5, <2>1, <2>2, MutationSound
  <2>3. CASE Abort(db) /\ Goto(c, "release")
    BY <1>4, <2>1, <2>3, MutationSound
  <2> QED BY <1>7, <2>2, <2>3 DEF Mutation, db
<1>8. CASE /\ c \in Dials
           /\ Mutation(c, IF Db.lease[c] = NoLease THEN Db ELSE WithLease(Db, c, "bound", Hour),
                       "answered", "release")
  <2>0. ASSUME Db.lease[c] # NoLease
        PROVE  /\ Sound(WithLease(Db, c, "bound", Hour))
               /\ WithLease(Db, c, "bound", Hour).lease[c] = [phase |-> "bound", left |-> Hour]
               /\ \A e \in Calls \ {c} : WithLease(Db, c, "bound", Hour).lease[e] = Db.lease[e]
    <3>1. Db.lease[c].left > 0 /\ Sound(Db)
      BY <1>3, <2>0, DbIsSound
    <3>2. "bound" \in Phases \ {"none"} /\ Hour \in 0 .. Largest
      BY Times DEF Phases
    <3> QED BY <3>1, <3>2, LeaseGiven
  <2> DEFINE db == IF Db.lease[c] = NoLease THEN Db ELSE WithLease(Db, c, "bound", Hour)
  <2>1. Sound(db) /\ \A e \in Calls \ {c} : db.lease[e] = Db.lease[e]
    <3>1. CASE Db.lease[c] = NoLease
      BY <3>1, DbIsSound
    <3>2. CASE Db.lease[c] # NoLease
      BY <2>0, <3>2
    <3> QED BY <3>1, <3>2
  <2>2. c \notin Browsers
    BY <1>8, LeasesAssumption
  <2> HIDE DEF db
  <2>3. CASE Commit(db) /\ Goto(c, "answered")
    BY <1>5, <2>1, <2>2, <2>3, MutationSound
  <2>4. CASE Abort(db) /\ Goto(c, "release")
    BY <1>4, <2>1, <2>4, MutationSound
  <2> QED BY <1>8, <2>3, <2>4 DEF Mutation, db
<1> QED BY <1>6, <1>7, <1>8 DEF Bind

\* A lease is released, and a start given back.
LEMMA GiveBackSteps ==
  ASSUME LeasesInv, NEW c \in Calls, Release(c) \/ Refund(c)
  PROVE  LeasesInv'
<1>1. request[c].pc \in {"release", "refund"} /\ UNCHANGED <<browser, upstream>>
  BY DEF Release, Refund
<1>2. CASE Release(c)
  <2> DEFINE db == WithoutLease(Db, c)
  <2>1. Sound(db) /\ \A e \in Calls \ {c} : db.lease[e] = Db.lease[e]
    BY DbIsSound, LeaseDropped
  <2>2. (Commit(db) \/ Abort(db)) /\ Goto(c, AfterError(c))
    BY <1>2 DEF Release, Mutation
  <2> HIDE DEF db
  <2> QED BY <1>1, <2>1, <2>2, MutationSound, FailuresArePcs, SmallSteps
<1>3. CASE Refund(c)
  <2> DEFINE n == IF Db.starts = 0 THEN 0 ELSE Db.starts - 1
             db == [Db EXCEPT !.starts = n]
  <2>1. n \in 0 .. MaxStarts
    BY DbIsSound, LeaseTypes, Times
  <2>2. Sound(db) /\ \A e \in Calls \ {c} : db.lease[e] = Db.lease[e]
    BY <2>1, DbIsSound, StartsCounted
  <2>3. (Commit(db) \/ Abort(db)) /\ Goto(c, "failed")
    BY <1>3 DEF Refund, Mutation
  <2> HIDE DEF db
  <2>4. "failed" \in Pcs \ {"idle", "refresh", "reserve", "mint", "bind", "answered"}
    BY DEF Pcs
  <2> QED BY <1>1, <2>2, <2>3, <2>4, MutationSound, SmallSteps
<1> QED BY <1>2, <1>3

-----------------------------------------------------------------------------
(* Browsers.                                                               *)

\* A browser moves, or a message of it arrives.
LEMMA BrowserMoves ==
  ASSUME LeasesInv, NEW c \in Browsers, request[c].pc = "answered",
         UNCHANGED <<request, upstream>>, CopiesAreSound', StoreTypeOK(Databases)',
         NEW k \in Clients, client' = [client EXCEPT ![c] = k],
         mail' \subseteq mail \cup {<<c, "connected">>, <<c, "ended">>},
         mail \ {<<c, "connected">>, <<c, "ended">>} \subseteq mail',
         ended' \in {ended, ended \cup {c}},
         \A e \in Calls \ {c} : LeaseKept(e),
         ConnectsOnce(c)', LeaseOutlastsCall(c)', EndIsKept(c)', ClientFits(c)'
  PROVE  LeasesInv'
<1>1. TypeOK /\ client \in [Browsers -> Clients] /\ mail \in SUBSET (Browsers \X {"connected", "ended"})
      /\ ended \in SUBSET Browsers
  BY DEF LeasesInv, TypeOK
<1>2. UNCHANGED <<request, run, meter>>
  BY DEF upstream
<1>3. TypeOK'
  <2>1. /\ client' \in [Browsers -> Clients] /\ ended' \in SUBSET Browsers
        /\ mail' \in SUBSET (Browsers \X {"connected", "ended"})
    BY <1>1
  <2> QED BY <1>1, <1>2, <2>1 DEF TypeOK
<1>4. \A e \in Browsers \ {c} :
        /\ client'[e] = client[e] /\ (e \in ended' <=> e \in ended)
        /\ \A action \in {"connected", "ended"} : <<e, action>> \in mail' <=> <<e, action>> \in mail
  BY <1>1
<1>5. ASSUME NEW e \in Calls
      PROVE  LeaseFits(e)'
  <2>1. CASE e # c
    <3>1. Untouched(e)
      BY <1>2, <1>4, <2>1 DEF Untouched
    <3> QED BY <2>1, <3>1, Bystander
  <2>2. CASE e = c
    <3>1. ReservationLasts(c)'
      BY <1>2 DEF ReservationLasts
    <3> QED BY <2>2, <3>1 DEF LeaseFits
  <2> QED BY <2>1, <2>2
<1>6. LeasesFit'
  BY <1>5 DEF LeasesFit
<1>7. ClientsFit'
  <2>1. \A e \in Browsers \ {c} : ClientFits(e)'
    BY <1>2, <1>4 DEF LeasesInv, ClientsFit, ClientFits
  <2> QED BY <2>1 DEF ClientsFit
<1>8. RunsFit'
  BY <1>2 DEF LeasesInv, RunsFit, Over
<1> QED BY <1>3, <1>6, <1>7, <1>8 DEF LeasesInv

\* A browser that has moved on has been answered.
LEMMA BrowserFacts ==
  ASSUME LeasesInv, NEW c \in Browsers
  PROVE  /\ ClientFits(c) /\ LeaseFits(c) /\ c \in Calls
         /\ client \in [Browsers -> Clients] /\ client[c] \in Clients
         /\ client[c].age \in Nat /\ mail \in SUBSET (Browsers \X {"connected", "ended"})
<1>1. c \in Calls
  BY DEF Calls
<1>2. client \in [Browsers -> Clients] /\ client[c] \in Clients
      /\ mail \in SUBSET (Browsers \X {"connected", "ended"})
  BY DEF LeasesInv, TypeOK
<1> QED BY <1>1, <1>2, Times DEF LeasesInv, ClientsFit, LeasesFit, Clients

\* Where Move leads.
LEMMA Moves ==
  ASSUME LeasesInv, NEW c \in Browsers, NEW pc \in {"connecting", "talking", "over"}, Move(c, pc)
  PROVE  [pc |-> pc, age |-> 0] \in Clients /\ client' = [client EXCEPT ![c] = [pc |-> pc, age |-> 0]]
         /\ client'[c] = [pc |-> pc, age |-> 0]
<1>1. [pc |-> pc, age |-> 0] \in Clients
  BY Times DEF Clients
<1> QED BY <1>1, BrowserFacts DEF Move

\* A step of a browser that changes no lease and acknowledges nothing.
LEMMA BrowserSteps ==
  ASSUME LeasesInv, NEW c \in Browsers, request[c].pc = "answered",
         UNCHANGED <<request, upstream, ended>>,
         UNCHANGED <<store, faults>> \/ (Fault /\ UNCHANGED store),
         NEW k \in Clients, client' = [client EXCEPT ![c] = k],
         k.pc = "confirmed" => k = client[c],
         mail' \subseteq mail \cup {<<c, "connected">>, <<c, "ended">>},
         mail \ {<<c, "connected">>, <<c, "ended">>} \subseteq mail',
         k.pc \in {"away", "connecting"} \/ <<c, "connected">> \in mail' => Expected(c),
         ClientFits(c)'
  PROVE  LeasesInv'
<1>1. /\ CopiesAreSound' /\ StoreTypeOK(Databases)' /\ Copies' \subseteq Copies
      /\ \A e \in Calls : LeaseKept(e)
  BY StoreUntouched
<1>2. LeaseFits(c) /\ client'[c] = k /\ UNCHANGED <<request, run>>
  BY BrowserFacts DEF upstream
<1>3. ConnectsOnce(c)'
  <2>1. Expected(c)' => Expected(c)
    BY <1>2 DEF Expected
  <2> QED BY <1>1, <1>2, <2>1 DEF LeaseFits, ConnectsOnce
<1>4. LeaseOutlastsCall(c)'
  BY <1>1, <1>2 DEF LeaseFits, LeaseOutlastsCall
<1>5. EndIsKept(c)'
  BY <1>1, <1>2 DEF LeaseFits, EndIsKept
<1> QED BY <1>1, <1>3, <1>4, <1>5, BrowserMoves

\* The browser is answered, connects, stops or is gone.
LEMMA VisitorSteps ==
  ASSUME LeasesInv, NEW c \in Browsers,
         Answered(c) \/ Connected(c) \/ StopCall(c) \/ Vanish(c)
  PROVE  LeasesInv'
<1>1. ClientFits(c)
  BY BrowserFacts
<1>2. /\ request[c].pc = "answered" /\ UNCHANGED <<request, upstream, ended, store, faults>>
  BY <1>1 DEF Answered, Connected, StopCall, Vanish, ClientFits
<1>3. \/ /\ Move(c, "connecting") /\ mail' = mail /\ client[c].pc = "away"
      \/ /\ Move(c, "talking") /\ mail' = mail \cup {<<c, "connected">>}
         /\ client[c].pc = "connecting"
      \/ /\ Move(c, "over") /\ mail' \in {mail, mail \cup {<<c, "ended">>}}
  BY DEF Answered, Connected, StopCall, Vanish, Post
<1>4. PICK pc \in {"connecting", "talking", "over"} :
        /\ Move(c, pc) /\ mail' \in {mail, mail \cup {<<c, "connected">>}, mail \cup {<<c, "ended">>}}
        /\ pc = "connecting" => mail' = mail /\ client[c].pc = "away"
        /\ pc = "talking" => client[c].pc = "connecting"
        /\ mail' = mail \cup {<<c, "connected">>} /\ mail' # mail => pc = "talking"
        /\ <<c, "ended">> \in mail' => <<c, "ended">> \in mail \/ pc = "over"
  BY <1>3
<1> DEFINE k == [pc |-> pc, age |-> 0]
<1>5. k \in Clients /\ client' = [client EXCEPT ![c] = k] /\ client'[c] = k
  BY Moves, <1>4
<1>6. k.pc = pc /\ k.age = 0
  OBVIOUS
<1> HIDE DEF k
<1>7. k.pc \in {"away", "connecting"} \/ <<c, "connected">> \in mail' => Expected(c)
  BY <1>2, <1>4, <1>6 DEF Expected
<1>8. ClientFits(c)'
  <2>1. <<c, "connected">> \in mail' => k.pc \in {"talking", "over"}
    BY <1>1, <1>4, <1>6 DEF ClientFits
  <2>2. <<c, "ended">> \in mail' \/ c \in ended' => k.pc = "over"
    BY <1>1, <1>2, <1>4, <1>6 DEF ClientFits
  <2> QED BY <1>2, <1>5, <1>6, <2>1, <2>2, Times DEF ClientFits
<1> QED BY <1>2, <1>4, <1>5, <1>6, <1>7, <1>8, BrowserSteps

\* What notifyLease makes of an answer.
LEMMA Replies ==
  ASSUME LeasesInv, NEW c \in Browsers, NEW ok \in BOOLEAN, Reply(c, ok),
         <<c, "connected">> \in mail
  PROVE  /\ \E k \in Clients :
              /\ client' = [client EXCEPT ![c] = k] /\ client'[c] = k
              /\ k.pc \in {"confirmed", "over"}
              /\ k.pc = "confirmed" => ok /\ client[c].pc = "talking" /\ k.age = client[c].age
         /\ mail' \in {mail \ {<<c, "connected">>},
                       (mail \ {<<c, "connected">>}) \cup {<<c, "ended">>}}
         /\ <<c, "ended">> \in mail' => <<c, "ended">> \in mail \/ client'[c].pc = "over"
<1>1. ClientFits(c) /\ client \in [Browsers -> Clients] /\ client[c] \in Clients
  BY BrowserFacts
<1>2. client[c].pc \in {"talking", "over"}
  BY <1>1 DEF ClientFits
<1>3. CASE client[c].pc # "talking"
  <2>1. mail' = mail \ {<<c, "connected">>} /\ client' = client
    BY <1>3 DEF Reply
  <2>2. client' = [client EXCEPT ![c] = client[c]]
    BY <1>1, <2>1
  <2> QED BY <1>1, <1>2, <1>3, <2>1, <2>2
<1>4. CASE client[c].pc = "talking" /\ ok
  <2> DEFINE k == [client[c] EXCEPT !.pc = "confirmed"]
  <2>1. k \in Clients /\ k.pc = "confirmed" /\ k.age = client[c].age
    BY <1>1 DEF Clients
  <2>2. client' = [client EXCEPT ![c] = k] /\ mail' = mail \ {<<c, "connected">>}
    BY <1>4 DEF Reply
  <2> HIDE DEF k
  <2>3. client'[c] = k
    BY <1>1, <2>2
  <2>4. <<c, "ended">> \in mail' => <<c, "ended">> \in mail
    BY <2>2
  <2> QED BY <1>4, <2>1, <2>2, <2>3, <2>4
<1>5. CASE client[c].pc = "talking" /\ ~ok
  <2>1. Move(c, "over") /\ mail' = (mail \ {<<c, "connected">>}) \cup {<<c, "ended">>}
    BY <1>5 DEF Reply
  <2> DEFINE k == [pc |-> "over", age |-> 0]
  <2>2. k \in Clients /\ client' = [client EXCEPT ![c] = k] /\ client'[c] = k
    BY <2>1, Moves
  <2>3. k.pc = "over"
    OBVIOUS
  <2> QED BY <2>1, <2>2, <2>3
<1> QED BY <1>3, <1>4, <1>5

\* A message is lost, or with it its answer.
LEMMA LoseStep ==
  ASSUME LeasesInv, NEW c \in Browsers, Lose(c)
  PROVE  LeasesInv'
<1>1. ClientFits(c) /\ client \in [Browsers -> Clients] /\ client[c] \in Clients
  BY BrowserFacts
<1>2. /\ request[c].pc = "answered" /\ UNCHANGED <<request, upstream, ended, store, faults>>
  BY <1>1 DEF Lose, ClientFits
<1>3. CASE <<c, "connected">> \in mail /\ Reply(c, FALSE)
  <2>1. PICK k \in Clients : /\ client' = [client EXCEPT ![c] = k] /\ client'[c] = k
                             /\ k.pc = "over"
    BY <1>3, Replies
  <2>2. /\ mail' \in {mail \ {<<c, "connected">>},
                      (mail \ {<<c, "connected">>}) \cup {<<c, "ended">>}}
    BY <1>3, Replies
  <2>3. ClientFits(c)'
    BY <1>2, <2>1 DEF ClientFits
  <2> QED BY <1>2, <2>1, <2>2, <2>3, BrowserSteps
<1>4. CASE <<c, "ended">> \in mail /\ mail' = mail \ {<<c, "ended">>} /\ UNCHANGED client
  <2>1. client' = [client EXCEPT ![c] = client[c]] /\ client'[c] = client[c]
    BY <1>1, <1>4
  <2>2. ClientFits(c)'
    BY <1>1, <1>2, <1>4 DEF ClientFits
  <2>3. client[c].pc \in {"away", "connecting"} \/ <<c, "connected">> \in mail' => Expected(c)
    BY <1>2, <1>4 DEF Expected
  <2> QED BY <1>1, <1>2, <1>4, <2>1, <2>2, <2>3, BrowserSteps
<1> QED BY <1>3, <1>4 DEF Lose

\* A connection extends the lease of the call, once, or ends it.
LEMMA ConnectStep ==
  ASSUME LeasesInv, NEW c \in Browsers, Connect(c)
  PROVE  LeasesInv'
<1> DEFINE db == IF Db.lease[c].phase # "connecting" THEN Db
                 ELSE WithLease(Db, c, "connected", Session + Grace)
<1>1. /\ ClientFits(c) /\ LeaseFits(c) /\ c \in Calls /\ client \in [Browsers -> Clients]
      /\ client[c].age \in Nat
  BY BrowserFacts
<1>2. /\ request[c].pc = "answered" /\ UNCHANGED <<request, upstream, ended>>
      /\ <<c, "connected">> \in mail /\ request' = request /\ run' = run
  BY <1>1 DEF Connect, ClientFits, upstream
<1>3. /\ \A x \in Copies : x.lease[c].phase \in {"none", "connecting"}
  BY <1>1, <1>2 DEF LeaseFits, ConnectsOnce, Expected
<1>4. Sound(Db) /\ Db.lease[c].phase \in {"none", "connecting"}
      /\ (Db.lease[c].phase = "none" => Db.lease[c].left = 0)
      /\ Db.lease[c].left \in Nat
  BY <1>1, <1>3, DbIsACopy, DbIsSound, LeaseTypes DEF Sound
<1>5. PICK ok \in BOOLEAN : /\ Reply(c, ok)
                            /\ \/ Db.lease[c].left = 0 /\ ~ok /\ UNCHANGED <<store, faults>>
                               \/ Db.lease[c].left # 0 /\ Commit(db)
                               \/ Db.lease[c].left # 0 /\ Abort(db) /\ ~ok
  BY DEF Connect
<1>6. PICK k \in Clients :
        /\ client' = [client EXCEPT ![c] = k] /\ client'[c] = k
        /\ k.pc \in {"confirmed", "over"}
        /\ k.pc = "confirmed" => ok /\ client[c].pc = "talking" /\ k.age = client[c].age
  BY <1>2, <1>5, Replies
<1>7. /\ mail' \in {mail \ {<<c, "connected">>},
                    (mail \ {<<c, "connected">>}) \cup {<<c, "ended">>}}
      /\ <<c, "ended">> \in mail' => <<c, "ended">> \in mail \/ k.pc = "over"
  BY <1>2, <1>5, <1>6, Replies
<1>8. ClientFits(c)'
  BY <1>1, <1>2, <1>6, <1>7 DEF ClientFits
<1>9. ConnectsOnce(c)'
  BY <1>6, <1>7 DEF ConnectsOnce, Expected
<1>10. CASE Db.lease[c].left = 0 /\ ~ok /\ UNCHANGED <<store, faults>>
  <2>1. k.pc = "over"
    BY <1>6, <1>10
  <2>2. k.pc \in {"away", "connecting"} \/ <<c, "connected">> \in mail' => Expected(c)
    BY <1>2 DEF Expected
  <2> QED BY <1>2, <1>6, <1>7, <1>8, <1>10, <2>1, <2>2, BrowserSteps
<1>11. CASE Db.lease[c].left # 0 /\ (Commit(db) \/ (Abort(db) /\ ~ok))
  <2>1. Db.lease[c].phase = "connecting" /\ Db.lease[c].left > 0
    BY <1>4, <1>11
  <2>2. "connected" \in Phases \ {"none"} /\ Session + Grace \in 0 .. Largest
    BY Times DEF Phases
  <2>3. /\ Sound(db) /\ db.lease[c] = [phase |-> "connected", left |-> Session + Grace]
        /\ \A e \in Calls \ {c} : db.lease[e] = Db.lease[e]
    BY <1>1, <1>4, <2>1, <2>2, LeaseGiven
  <2> HIDE DEF db
  <2>4. /\ CopiesAreSound' /\ StoreTypeOK(Databases)' /\ Copies' \subseteq Copies \cup {db}
        /\ Commit(db) => Copies' = {db}
        /\ \A e \in Calls \ {c} : LeaseKept(e)
    BY <1>1, <1>11, <2>3, MutationSound
  <2>5. c \notin ended
    BY <1>1, <2>1, DbIsACopy DEF LeaseFits, EndIsKept, NoLease
  <2>6. EndIsKept(c)'
    BY <1>2, <2>5 DEF EndIsKept
  <2>7. LeaseOutlastsCall(c)'
    <3>1. CASE Commit(db)
      <4>1. \A x \in Copies' : x.lease[c].phase = "connected" /\ x.lease[c].left = Session + Grace
        BY <2>3, <2>4, <3>1
      <4>2. k.pc = "confirmed" => Session + Grace + k.age >= Session + Grace
        BY <1>1, <1>6, Times
      <4> QED BY <1>6, <4>1, <4>2 DEF LeaseOutlastsCall
    <3>2. CASE ~ok
      BY <1>6, <3>2 DEF LeaseOutlastsCall
    <3> QED BY <1>11, <3>1, <3>2
  <2> QED BY <1>2, <1>6, <1>7, <1>8, <1>9, <2>4, <2>6, <2>7, BrowserMoves
<1> HIDE DEF db
<1> QED BY <1>5, <1>10, <1>11

\* An end gives the lease back, in both copies when it is acknowledged.
LEMMA EndStep ==
  ASSUME LeasesInv, NEW c \in Browsers, End(c)
  PROVE  LeasesInv'
<1> DEFINE db == WithoutLease(Db, c)
<1>1. /\ ClientFits(c) /\ LeaseFits(c) /\ c \in Calls /\ client \in [Browsers -> Clients]
      /\ client[c] \in Clients
  BY BrowserFacts
<1>2. /\ request[c].pc = "answered" /\ UNCHANGED <<request, upstream, client>>
      /\ client[c].pc = "over" /\ mail' = mail \ {<<c, "ended">>}
      /\ (Commit(db) /\ ended' = ended \cup {c}) \/ (Abort(db) /\ UNCHANGED ended)
  BY <1>1 DEF End, ClientFits
<1>3. /\ Sound(db) /\ db.lease[c] = NoLease /\ \A e \in Calls \ {c} : db.lease[e] = Db.lease[e]
  BY <1>1, DbIsSound, LeaseDropped
<1> HIDE DEF db
<1>4. /\ CopiesAreSound' /\ StoreTypeOK(Databases)' /\ Copies' \subseteq Copies \cup {db}
      /\ Commit(db) => Copies' = {db}
      /\ \A e \in Calls \ {c} : LeaseKept(e)
  BY <1>1, <1>2, <1>3, MutationSound
<1>5. client' = [client EXCEPT ![c] = client[c]] /\ client'[c] = client[c]
  BY <1>1, <1>2
<1>6. ClientFits(c)'
  BY <1>1, <1>2, <1>5 DEF ClientFits
<1>7. ConnectsOnce(c)'
  <2>1. Expected(c)' => Expected(c)
    BY <1>2 DEF Expected
  <2> QED BY <1>1, <1>3, <1>4, <2>1 DEF LeaseFits, ConnectsOnce, NoLease
<1>8. LeaseOutlastsCall(c)'
  BY <1>2 DEF LeaseOutlastsCall
<1>9. EndIsKept(c)'
  BY <1>1, <1>2, <1>3, <1>4 DEF LeaseFits, EndIsKept
<1> QED BY <1>1, <1>2, <1>4, <1>5, <1>6, <1>7, <1>8, <1>9, BrowserMoves

-----------------------------------------------------------------------------
(* The meter, Dograh, crashes and time.                                    *)

\* Requests go on or fail together, runs end, and leases go of runs that are over.
LEMMA ManyMove ==
  ASSUME LeasesInv, UNCHANGED browser, CopiesAreSound', StoreTypeOK(Databases)',
         request' \in [Calls -> Requests], run' \in [Calls -> RunStates],
         meter' \in [Processes -> [busy : BOOLEAN, completed : SUBSET Calls]],
         \A c \in Calls :
           \/ request'[c] = request[c]
           \/ /\ request[c].pc # "answered" /\ request'[c].pc \in {"reserve", "refund", "failed"}
              /\ request'[c].pc = "reserve" => request[c].pc = "refresh",
         \A c \in Calls : run'[c] = run[c] \/ (run[c] = "open" /\ run'[c] = "completed"),
         \A p \in Processes : meter'[p].completed \subseteq Over',
         \A c \in Calls : \A x \in Copies' :
           \/ \E y \in Copies : x.lease[c] = y.lease[c]
           \/ x.lease[c] = NoLease /\ run[c] = "completed"
  PROVE  LeasesInv'
<1>1. TypeOK'
  BY DEF LeasesInv, TypeOK, browser
<1>2. ASSUME NEW c \in Calls
      PROVE  LeaseFits(c)'
  <2>1. LeaseFits(c)
    BY DEF LeasesInv, LeasesFit
  <2>2. ReservationLasts(c)'
    BY <2>1 DEF LeaseFits, ReservationLasts
  <2>3. ASSUME c \in Browsers
        PROVE  ConnectsOnce(c)' /\ LeaseOutlastsCall(c)' /\ EndIsKept(c)'
    <3>1. ConnectsOnce(c)'
      <4>1. Expected(c)' => Expected(c)
        BY DEF Expected, browser
      <4> QED BY <2>1, <2>3, <4>1 DEF LeaseFits, ConnectsOnce, NoLease
    <3>2. LeaseOutlastsCall(c)'
      BY <2>1, <2>3 DEF LeaseFits, LeaseOutlastsCall, browser
    <3>3. EndIsKept(c)'
      BY <2>1, <2>3 DEF LeaseFits, EndIsKept, browser
    <3> QED BY <3>1, <3>2, <3>3
  <2> QED BY <2>2, <2>3 DEF LeaseFits
<1>3. LeasesFit'
  BY <1>2 DEF LeasesFit
<1>4. ClientsFit'
  <2>1. \A c \in Calls : request[c].pc = "answered" => request'[c].pc = "answered"
    OBVIOUS
  <2> QED BY <2>1, ClientsStay
<1>5. RunsFit'
  BY DEF LeasesInv, RunsFit
<1> QED BY <1>1, <1>3, <1>4, <1>5 DEF LeasesInv

\* The leases that go when the runs of completed are over.
LEMMA MeteredLeases ==
  ASSUME NEW db, Sound(db), NEW completed
  PROVE  /\ Sound(Metered(db, completed))
         /\ \A c \in Calls : \/ Metered(db, completed).lease[c] = db.lease[c]
                             \/ Metered(db, completed).lease[c] = NoLease /\ c \in completed
<1> DEFINE lease == [c \in Calls |->
                       IF c \in completed /\ db.lease[c].phase \in Bound THEN NoLease
                       ELSE db.lease[c]]
           new == [lease |-> lease, starts |-> db.starts]
<1>1. db \in Databases
  BY DEF Sound
<1>2. NoLease \in Leases /\ NoLease.left = 0
  BY Times DEF NoLease, Leases, Phases
<1>3. Metered(db, completed) = new
  BY <1>1, LeaseTypes DEF Metered
<1>4. lease \in [Calls -> Leases]
  BY <1>1, <1>2, LeaseTypes
<1>5. new \in Databases /\ new.lease = lease
  BY <1>1, <1>4, LeaseTypes DEF Databases
<1>6. \A c \in Calls : lease[c] = db.lease[c] \/ (lease[c] = NoLease /\ c \in completed)
  OBVIOUS
<1> HIDE DEF new, lease
<1>7. Sound(new)
  BY <1>1, <1>2, <1>5, <1>6, NoLeaseMore DEF Sound
<1> QED BY <1>3, <1>5, <1>6, <1>7

\* The runs are read; what is read of them stays true.
LEMMA ReadRunsStep ==
  ASSUME LeasesInv, NEW p \in Processes, ReadRuns(p)
  PROVE  LeasesInv'
<1>1. TypeOK /\ UNCHANGED <<store, faults, request, browser, run>>
      /\ meter' = [meter EXCEPT ![p] = [busy |-> TRUE, completed |-> Over]]
  BY DEF ReadRuns, LeasesInv
<1>2. CopiesAreSound' /\ StoreTypeOK(Databases)' /\ Copies' \subseteq Copies
  BY <1>1, StoreStays
<1>3. Over \in SUBSET Calls /\ Over' = Over
  BY <1>1 DEF Over
<1>4. /\ meter' \in [Processes -> [busy : BOOLEAN, completed : SUBSET Calls]]
      /\ \A q \in Processes : meter'[q].completed \subseteq Over'
  BY <1>1, <1>3 DEF TypeOK, LeasesInv, RunsFit
<1>5. request' \in [Calls -> Requests] /\ run' \in [Calls -> RunStates]
  BY <1>1 DEF TypeOK
<1> QED BY <1>1, <1>2, <1>4, <1>5, ManyMove

\* They are written, and the requests that wait are admitted or fail.
LEMMA WriteRunsStep ==
  ASSUME LeasesInv, NEW p \in Processes, WriteRuns(p)
  PROVE  LeasesInv'
<1> DEFINE db == Metered(Db, meter[p].completed)
<1>1. /\ TypeOK /\ UNCHANGED <<browser, run>> /\ meter' = [meter EXCEPT ![p] = Unread]
      /\ meter[p].completed \subseteq Over
  BY DEF WriteRuns, LeasesInv, RunsFit
<1>2. /\ Sound(db)
      /\ \A c \in Calls : db.lease[c] = Db.lease[c]
                          \/ (db.lease[c] = NoLease /\ c \in meter[p].completed)
  BY DbIsSound, MeteredLeases
<1>3. \E to : /\ Continue(p, to) /\ \A c \in Calls : to[c] \in {"reserve", "refund", "failed"}
              /\ Commit(db) \/ Abort(db) \/ (Fault /\ UNCHANGED store)
  <2> DEFINE go == [c \in Calls |-> "reserve"]
             stop == [c \in Calls |-> AfterError(c)]
  <2>1. \A c \in Calls : go[c] = "reserve" /\ stop[c] \in {"refund", "failed"}
    BY DEF AfterError
  <2>2. \/ Continue(p, go) /\ Commit(db)
        \/ Continue(p, stop) /\ (Abort(db) \/ (Fault /\ UNCHANGED store))
    BY DEF WriteRuns
  <2> HIDE DEF go, stop, db
  <2> QED BY <2>1, <2>2
<1> HIDE DEF db
<1>4. CopiesAreSound' /\ StoreTypeOK(Databases)' /\ Copies' \subseteq Copies \cup {db}
  BY <1>2, <1>3, Commits, Aborts, StoreStays
<1>5. \A c \in Calls : \A x \in Copies' :
        \/ \E y \in Copies : x.lease[c] = y.lease[c]
        \/ x.lease[c] = NoLease /\ run[c] = "completed"
  BY <1>1, <1>2, <1>4, DbIsACopy DEF Over
<1>6. /\ meter' \in [Processes -> [busy : BOOLEAN, completed : SUBSET Calls]]
      /\ \A q \in Processes : meter'[q].completed \subseteq Over'
  BY <1>1 DEF TypeOK, LeasesInv, RunsFit, Unread, Over
<1>7. PICK to : Continue(p, to) /\ \A c \in Calls : to[c] \in {"reserve", "refund", "failed"}
  BY <1>3
<1>8. ASSUME NEW c \in Calls
      PROVE  /\ request'[c] \in Requests
             /\ \/ request'[c] = request[c]
                \/ /\ request[c].pc # "answered" /\ request'[c].pc \in {"reserve", "refund", "failed"}
                   /\ request'[c].pc = "reserve" => request[c].pc = "refresh"
  <2>1. request[c] \in Requests
    BY <1>1 DEF TypeOK
  <2>2. CASE c \in Waiting(p)
    <3>1. request'[c] = [request[c] EXCEPT !.pc = to[c]]
      BY <1>7, <2>2 DEF Continue
    <3>2. to[c] \in Pcs
      BY <1>7 DEF Pcs
    <3>3. request'[c] \in Requests /\ request'[c].pc = to[c]
      BY <2>1, <3>1, <3>2 DEF Requests
    <3> QED BY <1>7, <2>2, <3>3 DEF Waiting
  <2>3. CASE c \notin Waiting(p)
    BY <1>7, <2>1, <2>3 DEF Continue
  <2> QED BY <2>2, <2>3
<1>9. request' \in [Calls -> Requests]
  BY <1>7, <1>8 DEF Continue
<1>10. run' \in [Calls -> RunStates] /\ run' = run
  BY <1>1 DEF TypeOK
<1> QED BY <1>1, <1>4, <1>5, <1>6, <1>8, <1>9, <1>10, ManyMove

\* A run ends.
LEMMA CompleteStep ==
  ASSUME LeasesInv, NEW c \in Calls, Complete(c)
  PROVE  LeasesInv'
<1>1. /\ TypeOK /\ UNCHANGED <<store, faults, request, browser, meter>> /\ run[c] = "open"
      /\ run' = [run EXCEPT ![c] = "completed"]
  BY DEF Complete, LeasesInv
<1>2. CopiesAreSound' /\ StoreTypeOK(Databases)' /\ Copies' \subseteq Copies
  BY <1>1, StoreStays
<1>3. /\ run' \in [Calls -> RunStates]
      /\ \A e \in Calls : run'[e] = run[e] \/ (run[e] = "open" /\ run'[e] = "completed")
  BY <1>1 DEF TypeOK, RunStates
<1>4. \A p \in Processes : meter'[p].completed \subseteq Over'
  BY <1>1, <1>3 DEF LeasesInv, RunsFit, Over
<1>5. /\ meter' \in [Processes -> [busy : BOOLEAN, completed : SUBSET Calls]]
      /\ request' \in [Calls -> Requests]
  BY <1>1 DEF TypeOK
<1> QED BY <1>1, <1>2, <1>3, <1>4, <1>5, ManyMove

\* The requests of a process die with it, and what it had not written.
LEMMA CrashStep ==
  ASSUME LeasesInv, NEW p \in Processes, Crash(p)
  PROVE  LeasesInv'
<1> DEFINE dead == [pc |-> "failed", on |-> Alone, age |-> 0]
<1>1. /\ TypeOK /\ UNCHANGED <<browser, run>> /\ meter' = [meter EXCEPT ![p] = Unread]
      /\ Restart
      /\ request' = [c \in Calls |->
           IF request[c].on = p /\ request[c].pc \notin Settled THEN dead ELSE request[c]]
  BY DEF Crash, LeasesInv
<1>2. CopiesAreSound' /\ StoreTypeOK(Databases)' /\ Copies' \subseteq Copies
  BY <1>1, StoreStays
<1>3. dead \in Requests /\ dead.pc = "failed"
  BY StoreAssumption, Times DEF Requests, Pcs
<1>4. /\ meter' \in [Processes -> [busy : BOOLEAN, completed : SUBSET Calls]]
      /\ \A q \in Processes : meter'[q].completed \subseteq Over'
  BY <1>1 DEF TypeOK, LeasesInv, RunsFit, Unread, Over
<1> HIDE DEF dead
<1>5. /\ request' \in [Calls -> Requests] /\ run' \in [Calls -> RunStates] /\ run' = run
  BY <1>1, <1>3 DEF TypeOK
<1>6. \A c \in Calls :
        \/ request'[c] = request[c]
        \/ request[c].pc # "answered" /\ request'[c].pc = "failed"
  BY <1>1, <1>3 DEF Settled
<1> QED BY <1>1, <1>2, <1>4, <1>5, <1>6, ManyMove

\* A copy a tick later.
LEMMA OlderLeases ==
  ASSUME NEW db, Sound(db)
  PROVE  /\ Sound(Older(db))
         /\ \A c \in Calls :
              /\ Older(db).lease[c].phase = db.lease[c].phase
              /\ Older(db).lease[c].left = IF db.lease[c].left = 0 THEN 0 ELSE db.lease[c].left - 1
              /\ db.lease[c] = NoLease => Older(db).lease[c] = NoLease
<1> DEFINE l(c) == [phase |-> db.lease[c].phase,
                    left |-> IF db.lease[c].left = 0 THEN 0 ELSE db.lease[c].left - 1]
           lease == [c \in Calls |-> l(c)]
           new == [lease |-> lease, starts |-> db.starts]
<1>1. db \in Databases
  BY DEF Sound
<1>2. \A c \in Calls : l(c) \in Leases
  <2> TAKE c \in Calls
  <2>1. db.lease[c] \in Leases /\ db.lease[c].left \in 0 .. Largest
    BY <1>1, LeaseTypes DEF Leases
  <2>2. db.lease[c].phase \in Phases
    BY <2>1 DEF Leases
  <2>3. (IF db.lease[c].left = 0 THEN 0 ELSE db.lease[c].left - 1) \in 0 .. Largest
    BY <2>1, Times
  <2> QED BY <2>2, <2>3 DEF Leases
<1>3. Older(db) = new
  BY <1>1, LeaseTypes DEF Older
<1>4. new \in Databases /\ new.lease = lease
  BY <1>1, <1>2, LeaseTypes DEF Databases
<1>5. \A c \in Calls : /\ lease[c].phase = db.lease[c].phase
                       /\ lease[c].left = IF db.lease[c].left = 0 THEN 0 ELSE db.lease[c].left - 1
  OBVIOUS
<1>6. \A c \in Calls : db.lease[c] = NoLease => lease[c] = NoLease
  BY DEF NoLease
<1> HIDE DEF new, lease, l
<1>7. Sound(new)
  <2>1. \A c \in Calls : db.lease[c].left \in Nat
    BY <1>1, LeaseTypes
  <2>2. \A c \in Calls : lease[c].left > 0 => db.lease[c].left > 0
    BY <1>5, <2>1
  <2>3. \A c \in Calls : lease[c].phase = "none" => lease[c].left = 0
    BY <1>5 DEF Sound
  <2> QED BY <1>4, <2>2, <2>3, NoLeaseMore
<1> QED BY <1>3, <1>4, <1>5, <1>6, <1>7

\* A tick takes as much from a lease as it adds to the wait for it.
LEMMA TickStep ==
  ASSUME LeasesInv, Tick
  PROVE  LeasesInv'
<1>1. /\ TypeOK /\ mem' = Older(mem) /\ saved' = Older(saved)
      /\ UNCHANGED <<mode, faults, mail, ended, run, meter>>
      /\ Sound(mem) /\ Sound(saved)
  BY DEF Tick, upstream, LeasesInv, CopiesAreSound, Copies
<1>2. CopiesAreSound' /\ StoreTypeOK(Databases)'
  <2>1. Sound(mem') /\ Sound(saved')
    BY <1>1, OlderLeases
  <2>2. CopiesAreSound'
    BY <2>1 DEF CopiesAreSound, Copies, Sound, Active
  <2> QED BY <1>1, <2>1, <2>2 DEF TypeOK, StoreTypeOK, Sound
<1>3. \A c \in Calls : \A x \in Copies' : \E y \in Copies :
        /\ y.lease[c].left \in Nat
        /\ x.lease[c].phase = y.lease[c].phase
        /\ x.lease[c].left = IF y.lease[c].left = 0 THEN 0 ELSE y.lease[c].left - 1
        /\ y.lease[c] = NoLease => x.lease[c] = NoLease
  <2>1. \A db \in Copies : Sound(db) /\ \A c \in Calls : db.lease[c].left \in Nat
    BY <1>1, LeaseTypes DEF Copies, Sound
  <2>2. \A x \in Copies' : \E y \in Copies : x = Older(y)
    BY <1>1 DEF Copies
  <2> QED BY <2>1, <2>2, OlderLeases
<1>4. ASSUME NEW c \in Calls
      PROVE  /\ request'[c] \in Requests /\ request'[c].pc = request[c].pc
             /\ request[c].pc \in {"mint", "bind"} =>
                  request[c].age < MintTime /\ request'[c].age = request[c].age + 1
             /\ request[c].age \in Nat
  <2>1. request[c] \in Requests /\ request[c].age \in 0 .. MintTime
    BY <1>1 DEF TypeOK, Requests
  <2>2. CASE c \in Minting
    <3>1. request'[c] = [request[c] EXCEPT !.age = request[c].age + 1] /\ request[c].age < MintTime
      BY <2>2 DEF Tick
    <3>2. request[c].age + 1 \in 0 .. MintTime
      BY <2>1, <3>1, Times
    <3> QED BY <2>1, <3>1, <3>2 DEF Requests
  <2>3. CASE c \notin Minting
    <3>1. request'[c] = request[c]
      BY <2>3 DEF Tick
    <3> QED BY <2>1, <2>3, <3>1 DEF Minting
  <2> QED BY <2>2, <2>3
<1>5. ASSUME NEW c \in Browsers
      PROVE  /\ client'[c] \in Clients /\ client'[c].pc = client[c].pc /\ client[c].age \in Nat
             /\ client[c].pc = "connecting" =>
                  client[c].age < ConnectTime /\ client'[c].age = client[c].age + 1
             /\ client[c].pc \in {"talking", "confirmed"} =>
                  client[c].age < Session /\ client'[c].age = client[c].age + 1
  <2>1. client[c] \in Clients /\ client[c].age \in Nat
    BY BrowserFacts
  <2>2. CASE Timed(c)
    <3>1. /\ client'[c] = [client[c] EXCEPT !.age = client[c].age + 1]
          /\ client[c].age < IF client[c].pc = "connecting" THEN ConnectTime ELSE Session
      BY <2>2 DEF Tick
    <3>2. client[c].age + 1 \in 0 .. ConnectTime + Session
      BY <2>1, <3>1, Times
    <3> QED BY <2>1, <3>1, <3>2 DEF Clients
  <2>3. CASE ~Timed(c)
    <3>1. client'[c] = client[c]
      BY <2>3 DEF Tick
    <3> QED BY <2>1, <2>3, <3>1 DEF Timed
  <2> QED BY <2>2, <2>3
<1>6. TypeOK'
  <2>1. request' \in [Calls -> Requests]
    BY <1>4 DEF Tick
  <2>2. client' \in [Browsers -> Clients]
    BY <1>5 DEF Tick
  <2> QED BY <1>1, <1>2, <2>1, <2>2 DEF TypeOK
<1>7. ASSUME NEW c \in Calls
      PROVE  LeaseFits(c)'
  <2>1. LeaseFits(c)
    BY DEF LeasesInv, LeasesFit
  <2>2. ReservationLasts(c)'
    <3>1. ASSUME request[c].pc \in {"mint", "bind"}, NEW x \in Copies'
          PROVE  x.lease[c] = NoLease \/ x.lease[c].left + request'[c].age >= Reservation
      <4>1. PICK y \in Copies :
              /\ y.lease[c].left \in Nat
              /\ x.lease[c].left = IF y.lease[c].left = 0 THEN 0 ELSE y.lease[c].left - 1
              /\ y.lease[c] = NoLease => x.lease[c] = NoLease
        BY <1>3, <3>1
      <4>2. y.lease[c] = NoLease \/ y.lease[c].left + request[c].age >= Reservation
        BY <2>1, <3>1 DEF LeaseFits, ReservationLasts
      <4>3. request[c].age < MintTime /\ request'[c].age = request[c].age + 1 /\ request[c].age \in Nat
        BY <1>4, <3>1
      <4> QED BY <4>1, <4>2, <4>3, Times
    <3> QED BY <1>4, <3>1 DEF ReservationLasts
  <2>3. ASSUME c \in Browsers
        PROVE  ConnectsOnce(c)' /\ LeaseOutlastsCall(c)' /\ EndIsKept(c)'
    <3>1. ConnectsOnce(c)'
      <4>1. Expected(c)' => Expected(c)
        BY <1>1, <1>4, <1>5, <2>3 DEF Expected
      <4> QED BY <1>3, <2>1, <2>3, <4>1 DEF LeaseFits, ConnectsOnce
    <3>2. LeaseOutlastsCall(c)'
      <4>1. ASSUME client[c].pc = "confirmed", run[c] = "open", NEW x \in Copies'
            PROVE  /\ x.lease[c].phase = "connected"
                   /\ x.lease[c].left + client'[c].age >= Session + Grace
        <5>1. PICK y \in Copies :
                /\ y.lease[c].left \in Nat
                /\ x.lease[c].phase = y.lease[c].phase
                /\ x.lease[c].left = IF y.lease[c].left = 0 THEN 0 ELSE y.lease[c].left - 1
          BY <1>3, <4>1
        <5>2. y.lease[c].phase = "connected" /\ y.lease[c].left + client[c].age >= Session + Grace
          BY <2>1, <2>3, <4>1 DEF LeaseFits, LeaseOutlastsCall
        <5>3. client[c].age < Session /\ client'[c].age = client[c].age + 1 /\ client[c].age \in Nat
          BY <1>5, <2>3, <4>1
        <5> QED BY <5>1, <5>2, <5>3, Times
      <4> QED BY <1>1, <1>5, <2>3, <4>1 DEF LeaseOutlastsCall
    <3>3. EndIsKept(c)'
      BY <1>1, <1>3, <2>1, <2>3 DEF LeaseFits, EndIsKept
    <3> QED BY <3>1, <3>2, <3>3
  <2> QED BY <2>2, <2>3 DEF LeaseFits
<1>8. LeasesFit'
  BY <1>7 DEF LeasesFit
<1>9. ClientsFit'
  <2>1. ASSUME NEW c \in Browsers
        PROVE  ClientFits(c)'
    <3>1. c \in Calls /\ ClientFits(c)
      BY BrowserFacts
    <3>2. /\ client'[c].pc = "connecting" => client'[c].age <= ConnectTime
          /\ client'[c].pc \in {"talking", "confirmed"} => client'[c].age <= Session
      BY <1>5, Times
    <3> QED BY <1>1, <1>4, <1>5, <3>1, <3>2 DEF ClientFits
  <2> QED BY <2>1 DEF ClientsFit
<1>10. RunsFit'
  BY <1>1, <1>4 DEF LeasesInv, RunsFit, Over
<1> QED BY <1>2, <1>6, <1>8, <1>9, <1>10 DEF LeasesInv

-----------------------------------------------------------------------------
(* The invariant and what follows from it.                                 *)

LEMMA LeasesInvInit == Init => LeasesInv
<1> SUFFICES ASSUME Init PROVE LeasesInv
  OBVIOUS
<1>1. mem = Empty /\ saved = Empty /\ mode \in Modes /\ faults = 0
  BY DEF Init, StoreInit
<1>2. NoLease \in Leases /\ NoLease.left = 0 /\ NoLease.phase = "none"
  BY Times DEF NoLease, Leases, Phases
<1>3. /\ Empty \in Databases /\ \A c \in Calls : Empty.lease[c] = NoLease
      /\ Active(Empty) = {}
  <2>1. Empty \in Databases /\ \A c \in Calls : Empty.lease[c] = NoLease
    BY <1>2, Times DEF Empty, Databases
  <2> QED BY <1>2, <2>1 DEF Active
<1>4. Sound(Empty)
  BY <1>2, <1>3, FS_EmptySet, Times DEF Sound
<1>5. CopiesAreSound
  BY <1>1, <1>4 DEF CopiesAreSound, Copies
<1>6. TypeOK
  <2>1. StoreTypeOK(Databases)
    BY <1>1, <1>3, Times DEF StoreTypeOK
  <2>2. request \in [Calls -> Requests]
    BY StoreAssumption, Times DEF Init, Requests, Pcs
  <2>3. client \in [Browsers -> Clients]
    BY Times DEF Init, Clients
  <2> QED BY <2>1, <2>2, <2>3 DEF Init, TypeOK, RunStates, Unread
<1>7. LeasesFit
  BY <1>1, <1>3
     DEF Init, LeasesFit, LeaseFits, ReservationLasts, ConnectsOnce, LeaseOutlastsCall, EndIsKept,
         Expected
<1>8. ClientsFit
  BY DEF Init, ClientsFit, ClientFits
<1>9. RunsFit
  BY DEF Init, RunsFit, Unread
<1> QED BY <1>5, <1>6, <1>7, <1>8, <1>9 DEF LeasesInv

\* LeasesInv is inductive.
LEMMA LeasesInvNext == LeasesInv /\ [Next]_vars => LeasesInv'
<1> SUFFICES ASSUME LeasesInv, [Next]_vars PROVE LeasesInv'
  OBVIOUS
<1>1. CASE UNCHANGED vars
  <2>1. UNCHANGED <<store, faults, browser, upstream, request>>
    BY <1>1 DEF vars, store, browser, upstream
  <2>2. CopiesAreSound' /\ StoreTypeOK(Databases)' /\ Copies' \subseteq Copies
    BY <2>1, StoreStays
  <2>3. /\ request' \in [Calls -> Requests] /\ run' \in [Calls -> RunStates]
        /\ meter' \in [Processes -> [busy : BOOLEAN, completed : SUBSET Calls]]
        /\ request' = request /\ run' = run /\ meter' = meter
    BY <2>1 DEF upstream, LeasesInv, TypeOK
  <2>4. \A p \in Processes : meter'[p].completed \subseteq Over'
    BY <2>3 DEF LeasesInv, RunsFit, Over
  <2> QED BY <2>1, <2>2, <2>3, <2>4, ManyMove
<1>2. ASSUME NEW c \in Calls, NEW p \in Processes, Begin(c, p) \/ BeginDemo(c, p)
      PROVE  LeasesInv'
  BY <1>2, BeginSteps
<1>3. ASSUME NEW c \in Calls,
             Reserve(c) \/ Mint(c) \/ Bind(c) \/ Release(c) \/ Refund(c) \/ Complete(c)
      PROVE  LeasesInv'
  BY <1>3, ReserveStep, MintStep, BindStep, GiveBackSteps, CompleteStep
<1>4. ASSUME NEW p \in Processes, ReadRuns(p) \/ WriteRuns(p) \/ Crash(p)
      PROVE  LeasesInv'
  BY <1>4, ReadRunsStep, WriteRunsStep, CrashStep
<1>5. ASSUME NEW c \in Browsers,
             \/ Answered(c) \/ Connected(c) \/ StopCall(c) \/ Vanish(c)
             \/ Connect(c) \/ End(c) \/ Lose(c)
      PROVE  LeasesInv'
  BY <1>5, VisitorSteps, ConnectStep, EndStep, LoseStep
<1> QED BY <1>1, <1>2, <1>3, <1>4, <1>5, TickStep DEF Next

LEMMA LeasesInvAlways == Spec => []LeasesInv
BY LeasesInvInit, LeasesInvNext, PTL DEF Spec

\* Every variable keeps its type.
THEOREM LeaseTypesAreKept == Spec => []TypeOK
<1>1. LeasesInv => TypeOK
  BY DEF LeasesInv
<1> QED BY <1>1, LeasesInvAlways, PTL

\* No more leases are active than the plan allows, however requests overlap, in
\* whatever processes, and whatever fails or crashes between their steps.
THEOREM PlanIsNotExceeded == Spec => []LeasesWithinLimit
<1>1. LeasesInv => LeasesWithinLimit
  BY DbIsACopy DEF LeasesInv, CopiesAreSound, Sound, LeasesWithinLimit
<1> QED BY <1>1, LeasesInvAlways, PTL

\* A call from a browser whose connection was acknowledged is counted for as long
\* as it may go on: no refresh, release or expiry frees its slot for another.
THEOREM LiveCallsStayCounted == Spec => []LiveCallsAreCounted
<1>1. LeasesInv => LiveCallsAreCounted
  <2> SUFFICES ASSUME LeasesInv, NEW c \in Browsers, client[c].pc = "confirmed", run[c] = "open"
               PROVE  c \in Active(Db)
    BY DEF LiveCallsAreCounted
  <2>1. c \in Calls /\ client[c].age \in Nat /\ ClientFits(c) /\ LeaseFits(c)
    BY BrowserFacts
  <2>2. Db.lease[c].left + client[c].age >= Session + Grace /\ client[c].age <= Session
    BY <2>1, DbIsACopy DEF LeaseFits, LeaseOutlastsCall, ClientFits
  <2>3. Db.lease[c].left \in Nat
    BY <2>1, DbIsSound, LeaseTypes
  <2>4. Db.lease[c].left > 0
    BY <2>1, <2>2, <2>3, Times
  <2> QED BY <2>1, <2>4 DEF Active
<1> QED BY <1>1, LeasesInvAlways, PTL

\* A slot that a browser gave back stays free, in whatever order its messages come
\* and whichever copy of the store survives.
THEOREM EndedCallsRemainFree == Spec => []EndedCallsStayFree
<1>1. LeasesInv => EndedCallsStayFree
  <2> SUFFICES ASSUME LeasesInv, NEW c \in ended
               PROVE  Db.lease[c] = NoLease
    BY DEF EndedCallsStayFree
  <2>1. c \in Browsers
    BY DEF LeasesInv, TypeOK
  <2> QED BY <2>1, BrowserFacts, DbIsACopy DEF LeaseFits, EndIsKept
<1> QED BY <1>1, LeasesInvAlways, PTL

-----------------------------------------------------------------------------
(* The inductive invariant of Payments.                                    *)

HasKey(db, key) == \E k \in DOMAIN db.ledger : db.ledger[k].key = key

\* The sums of the first entries of a ledger, none to all of them.
PartialSums(ledger, s) ==
  /\ s \in [0 .. Len(ledger) -> Int] /\ s[0] = 0
  /\ \A n \in 1 .. Len(ledger) : s[n] = s[n - 1] + ledger[n].amount

\* The wallet is what the ledger adds up to.
Adds(db) == \E s : PartialSums(db.ledger, s) /\ s[Len(db.ledger)] = db.wallet

\* A copy of the store: a reference is in the ledger once, an intent is credited
\* exactly when its reference is there, with its credits, and the wallet is the sum
\* of the ledger and not overdrawn.
BooksSound(db) ==
  /\ db \in Books
  /\ \A j, k \in DOMAIN db.ledger : db.ledger[j].key = db.ledger[k].key => j = k
  /\ \A i \in Intents : db.intents[i] = "credited" <=> HasKey(db, i)
  /\ \A k \in DOMAIN db.ledger : db.ledger[k].key \in Intents =>
       db.ledger[k] = [key |-> db.ledger[k].key, amount |-> Credits[db.ledger[k].key]]
  /\ Adds(db) /\ db.wallet >= 0

BooksAreSound == BooksSound(saved) /\ BooksSound(mem)

\* A callback is credited when PayU has said that it captured the payment.
CallbacksFit ==
  \A c \in Callbacks :
    /\ handler[c].pc # "idle" => handler[c].intent \in Intents
    /\ handler[c].pc = "credit" => offer[handler[c].intent] = "paid"

\* A credit that was answered is in both copies, so that none of them can take it
\* from the other.
AnsweredInBoth ==
  \A i \in answered : saved.intents[i] = "credited" /\ mem.intents[i] = "credited"

PaymentsInv == /\ PaymentsTypeOK /\ BooksAreSound /\ CallbacksFit
               /\ OnlyCapturedIsCredited /\ AnsweredInBoth

-----------------------------------------------------------------------------
(* What mutations make of a copy.                                          *)

LEMMA EmptyIsSound == BooksSound(EmptyBooks)
<1>1. EmptyBooks.ledger = << >> /\ EmptyBooks.wallet = 0 /\ EmptyBooks \in Books
      /\ \A i \in Intents : EmptyBooks.intents[i] = "absent"
  BY DEF EmptyBooks, Books
<1>2. DOMAIN EmptyBooks.ledger = {}
  BY <1>1
<1>3. Adds(EmptyBooks)
  <2>1. PartialSums(<< >>, [n \in 0 .. 0 |-> 0])
    BY DEF PartialSums
  <2> QED BY <1>1, <2>1 DEF Adds
<1> QED BY <1>1, <1>2, <1>3 DEF BooksSound, HasKey

\* A ledger with one entry more.
LEMMA EntryAdds ==
  ASSUME NEW db, db.ledger \in Seq(Entries), Adds(db), NEW entry \in Entries,
         NEW new, new.ledger = Append(db.ledger, entry), new.wallet = db.wallet + entry.amount
  PROVE  Adds(new)
<1> DEFINE n == Len(db.ledger)
<1>1. PICK s : PartialSums(db.ledger, s) /\ s[n] = db.wallet
  BY DEF Adds
<1> DEFINE r == [k \in 0 .. n + 1 |-> IF k = n + 1 THEN new.wallet ELSE s[k]]
<1>2. n \in Nat /\ db.wallet \in Int /\ entry.amount \in Int /\ new.wallet \in Int
  <2>1. n \in Nat
    BY LenProperties
  <2>2. s[n] \in Int
    BY <1>1, <2>1 DEF PartialSums
  <2> QED BY <1>1, <2>1, <2>2 DEF Entries
<1>3. /\ Len(new.ledger) = n + 1 /\ new.ledger[n + 1] = entry
      /\ \A k \in 1 .. n : new.ledger[k] = db.ledger[k]
  BY AppendProperties
<1>4. PartialSums(new.ledger, r)
  <2>1. r \in [0 .. Len(new.ledger) -> Int] /\ r[0] = 0
    BY <1>1, <1>2, <1>3 DEF PartialSums
  <2>2. \A k \in 1 .. n : r[k] = r[k - 1] + new.ledger[k].amount
    BY <1>1, <1>2, <1>3 DEF PartialSums
  <2>3. r[n + 1] = r[n] + new.ledger[n + 1].amount
    BY <1>1, <1>2, <1>3
  <2> HIDE DEF r
  <2>4. ASSUME NEW k \in 1 .. Len(new.ledger)
        PROVE  r[k] = r[k - 1] + new.ledger[k].amount
    <3>1. CASE k \in 1 .. n
      BY <2>2, <3>1
    <3>2. CASE k = n + 1
      <4>1. k - 1 = n
        BY <1>2, <3>2
      <4> QED BY <2>3, <3>2, <4>1
    <3> QED BY <1>2, <1>3, <2>4, <3>1, <3>2
  <2> QED BY <2>1, <2>4 DEF PartialSums
<1>5. r[Len(new.ledger)] = new.wallet
  BY <1>2, <1>3
<1> QED BY <1>4, <1>5 DEF Adds

\* A new entry, and with the reference of an intent the intent as well.
LEMMA EntryAdded ==
  ASSUME NEW db, BooksSound(db), NEW key \in Intents \cup Keys, NEW amount \in Int,
         ~HasKey(db, key), db.wallet + amount >= 0,
         NEW intents \in [Intents -> {"absent", "pending", "credited"}],
         \A i \in Intents : intents[i] = "credited" <=> db.intents[i] = "credited" \/ i = key,
         key \in Intents => amount = Credits[key],
         NEW new,
         new = [intents |-> intents, wallet |-> db.wallet + amount,
                ledger |-> Append(db.ledger, [key |-> key, amount |-> amount])]
  PROVE  BooksSound(new)
<1> DEFINE entry == [key |-> key, amount |-> amount]
<1> DEFINE n == Len(db.ledger)
<1>1. db \in Books /\ db.ledger \in Seq(Entries) /\ db.wallet \in Int /\ n \in Nat
      /\ DOMAIN db.ledger = 1 .. n
  BY DEF BooksSound, Books
<1>2. entry \in Entries /\ entry.key = key /\ entry.amount = amount
  BY DEF Entries
<1> HIDE DEF entry
<1>3. /\ new.ledger = Append(db.ledger, entry) /\ new.intents = intents
      /\ new.wallet = db.wallet + amount
  BY DEF entry
<1>4. /\ new.ledger \in Seq(Entries) /\ Len(new.ledger) = n + 1
      /\ new.ledger[n + 1] = entry /\ DOMAIN new.ledger = (1 .. n) \cup {n + 1}
      /\ \A k \in 1 .. n : new.ledger[k] = db.ledger[k]
  <2>1. new.ledger \in Seq(Entries) /\ Len(new.ledger) = n + 1
    BY <1>1, <1>2, <1>3, AppendProperties
  <2>2. DOMAIN new.ledger = (1 .. n) \cup {n + 1}
    BY <1>1, <2>1
  <2> QED BY <1>1, <1>2, <1>3, <2>1, <2>2, AppendProperties
<1>5. new \in Books
  BY <1>1, <1>3, <1>4 DEF Books, entry
<1>6. \A j, k \in DOMAIN new.ledger : new.ledger[j].key = new.ledger[k].key => j = k
  BY <1>1, <1>2, <1>4 DEF BooksSound, HasKey, Adds
<1>7. \A i \in Intents : HasKey(new, i) <=> HasKey(db, i) \/ i = key
  BY <1>1, <1>2, <1>4 DEF HasKey
<1>8. \A k \in DOMAIN new.ledger : new.ledger[k].key \in Intents =>
        new.ledger[k] = [key |-> new.ledger[k].key, amount |-> Credits[new.ledger[k].key]]
  <2>1. key \in Intents => entry = [key |-> entry.key, amount |-> Credits[entry.key]]
    BY <1>2 DEF entry
  <2> QED BY <1>1, <1>2, <1>4, <2>1 DEF BooksSound
<1>9. Adds(new)
  BY <1>1, <1>2, <1>3, EntryAdds DEF BooksSound
<1> QED BY <1>3, <1>5, <1>6, <1>7, <1>8, <1>9 DEF BooksSound

\* An administrator's entry, unless the wallet cannot bear it.
LEMMA AdjustmentIsSound ==
  ASSUME NEW db, BooksSound(db), NEW key \in Keys, NEW amount \in Amounts,
         ~Rejected(db, key, amount)
  PROVE  /\ BooksSound(AddLedgerEntry(db, key, amount))
         /\ AddLedgerEntry(db, key, amount).intents = db.intents
<1>1. db \in Books /\ db.wallet \in Int /\ amount \in Int
  BY PaymentsAssumption DEF BooksSound, Books
<1>2. CASE HasKey(db, key)
  BY <1>2 DEF HasKey, AddLedgerEntry
<1>3. CASE ~HasKey(db, key)
  <2> DEFINE new == [intents |-> db.intents, wallet |-> db.wallet + amount,
                     ledger |-> Append(db.ledger, [key |-> key, amount |-> amount])]
  <2>1. AddLedgerEntry(db, key, amount) = new
    BY <1>1, <1>3 DEF HasKey, AddLedgerEntry, Books
  <2>2. db.wallet + amount >= 0
    BY <1>1, <1>3 DEF HasKey, Rejected
  <2>3. key \notin Intents /\ db.intents \in [Intents -> {"absent", "pending", "credited"}]
    BY <1>1, PaymentsAssumption DEF Books
  <2>4. \A i \in Intents : db.intents[i] = "credited" <=> db.intents[i] = "credited" \/ i = key
    BY <2>3
  <2>5. BooksSound(new)
    BY <1>1, <1>3, <2>2, <2>3, <2>4, EntryAdded
  <2>6. new.intents = db.intents
    OBVIOUS
  <2> QED BY <2>1, <2>5, <2>6
<1> QED BY <1>2, <1>3

\* The credits of an intent.
LEMMA CreditIsSound ==
  ASSUME NEW db, BooksSound(db), NEW i \in Intents
  PROVE  /\ BooksSound(Credited(db, i)) /\ Credited(db, i).intents[i] = "credited"
         /\ \A j \in Intents \ {i} : Credited(db, i).intents[j] = db.intents[j]
<1>1. db \in Books /\ db.wallet \in Int /\ db.wallet >= 0
      /\ db.intents \in [Intents -> {"absent", "pending", "credited"}]
  BY DEF BooksSound, Books
<1>2. Credits[i] \in Nat \ {0} /\ Credits[i] \in Int /\ db.wallet + Credits[i] >= 0
  BY <1>1, PaymentsAssumption
<1>3. CASE db.intents[i] = "credited"
  BY <1>3 DEF Credited
<1>4. CASE db.intents[i] # "credited"
  <2> DEFINE intents == [db.intents EXCEPT ![i] = "credited"]
  <2> DEFINE new == [intents |-> intents, wallet |-> db.wallet + Credits[i],
                     ledger |-> Append(db.ledger, [key |-> i, amount |-> Credits[i]])]
  <2>1. ~HasKey(db, i)
    BY <1>4 DEF BooksSound
  <2>2. Credited(db, i) = new
    BY <1>1, <1>4, <2>1 DEF Credited, AddLedgerEntry, HasKey, Books
  <2>3. /\ intents \in [Intents -> {"absent", "pending", "credited"}]
        /\ intents[i] = "credited" /\ \A j \in Intents \ {i} : intents[j] = db.intents[j]
    BY <1>1
  <2> HIDE DEF intents
  <2>4. \A j \in Intents : intents[j] = "credited" <=> db.intents[j] = "credited" \/ j = i
    BY <2>3
  <2>5. BooksSound(new)
    BY <1>1, <1>2, <2>1, <2>3, <2>4, EntryAdded
  <2>6. new.intents = intents
    OBVIOUS
  <2> QED BY <2>2, <2>3, <2>5, <2>6
<1> QED BY <1>3, <1>4

\* An intent that was not credited begins again.
LEMMA PendingIsSound ==
  ASSUME NEW db, BooksSound(db), NEW i \in Intents, db.intents[i] # "credited"
  PROVE  /\ BooksSound([db EXCEPT !.intents[i] = "pending"])
         /\ \A j \in Intents : [db EXCEPT !.intents[i] = "pending"].intents[j] = "credited"
                                 <=> db.intents[j] = "credited"
<1> DEFINE new == [db EXCEPT !.intents[i] = "pending"]
<1>1. db \in Books
  BY DEF BooksSound
<1>2. /\ new \in Books /\ new.ledger = db.ledger /\ new.wallet = db.wallet
      /\ \A j \in Intents : new.intents[j] = "credited" <=> db.intents[j] = "credited"
  BY <1>1 DEF Books
<1> HIDE DEF new
<1>3. BooksSound(new)
  BY <1>2 DEF BooksSound, HasKey, Adds
<1> QED BY <1>2, <1>3 DEF new

-----------------------------------------------------------------------------
(* The steps.                                                              *)

LEMMA PaymentsInvInit == PaymentsInit => PaymentsInv
<1> SUFFICES ASSUME PaymentsInit PROVE PaymentsInv
  OBVIOUS
<1>1. saved = EmptyBooks /\ mem = EmptyBooks /\ BooksSound(EmptyBooks)
  BY EmptyIsSound DEF PaymentsInit, StoreInit
<1>2. \A i \in Intents : EmptyBooks.intents[i] = "absent"
  BY DEF EmptyBooks
<1>3. Idle \in HandlerStates /\ Idle.pc = "idle"
  BY StoreAssumption DEF Idle, HandlerStates
<1>4. PaymentsTypeOK
  <2>1. 0 \in 0 .. MaxFaults /\ 0 \in 0 .. MaxReplays + 1
    BY StoreAssumption, PaymentsAssumption
  <2>2. StoreTypeOK(Books)
    BY <1>1, <2>1 DEF PaymentsInit, StoreInit, StoreTypeOK, BooksSound
  <2>3. /\ handler \in [Callbacks -> HandlerStates]
        /\ offer \in [Intents -> {"none", "failed", "made", "paid"}]
    BY <1>3 DEF PaymentsInit
  <2> QED BY <2>1, <2>2, <2>3 DEF PaymentsInit, PaymentsTypeOK
<1>5. BooksAreSound /\ OnlyCapturedIsCredited
  BY <1>1, <1>2 DEF BooksAreSound, OnlyCapturedIsCredited, Copies
<1>6. CallbacksFit /\ AnsweredInBoth
  BY <1>3 DEF PaymentsInit, CallbacksFit, AnsweredInBoth
<1> QED BY <1>4, <1>5, <1>6 DEF PaymentsInv

\* What a mutation starts from.
LEMMA BooksDbIsSound ==
  ASSUME PaymentsInv
  PROVE  /\ BooksSound(Db) /\ \A i \in Intents : Db.intents[i] = "credited" => offer[i] = "paid"
         /\ \A i \in answered : Db.intents[i] = "credited"
BY DEF PaymentsInv, Db, BooksAreSound, OnlyCapturedIsCredited, Copies, AnsweredInBoth

\* A mutation that was written, and one that throws: both copies are ones that were
\* there, or the new one.
LEMMA Mutates ==
  ASSUME PaymentsInv, NEW db, BooksSound(db), Commit(db) \/ (Abort(db) /\ answered' = answered),
         \A i \in Intents : db.intents[i] = "credited" => offer'[i] = "paid",
         \A i \in Intents : offer[i] = "paid" => offer'[i] = "paid",
         \A i \in answered' : db.intents[i] = "credited",
         offer' \in [Intents -> {"none", "failed", "made", "paid"}],
         handler' \in [Callbacks -> HandlerStates], sent' \in 0 .. MaxReplays + 1,
         answered' \in SUBSET Intents, CallbacksFit'
  PROVE  PaymentsInv'
<1>1. /\ mode' = mode /\ mem' \in {mem, db} /\ saved' \in {saved, db}
      /\ Commit(db) => mem' = db /\ saved' = db
      /\ faults' = faults \/ (faults < MaxFaults /\ faults' = faults + 1)
  BY DEF Commit, Abort, Fault
<1>2. BooksSound(mem) /\ BooksSound(saved)
  BY DEF PaymentsInv, BooksAreSound
<1>3. BooksAreSound'
  <2>1. BooksSound(mem') /\ BooksSound(saved')
    BY <1>1, <1>2
  <2> QED BY <2>1 DEF BooksAreSound, BooksSound, HasKey, Adds
<1>4. PaymentsTypeOK'
  <2>1. mem' \in Books /\ saved' \in Books
    BY <1>1, <1>2 DEF BooksSound
  <2>2. faults' \in 0 .. MaxFaults
    BY <1>1, StoreAssumption DEF PaymentsInv, PaymentsTypeOK, StoreTypeOK
  <2> QED BY <1>1, <2>1, <2>2 DEF PaymentsInv, PaymentsTypeOK, StoreTypeOK
<1>5. OnlyCapturedIsCredited'
  BY <1>1 DEF PaymentsInv, OnlyCapturedIsCredited, Copies
<1>6. AnsweredInBoth'
  BY <1>1 DEF PaymentsInv, AnsweredInBoth
<1> QED BY <1>3, <1>4, <1>5, <1>6 DEF PaymentsInv

\* A step that leaves the store alone.
LEMMA BooksUntouched ==
  ASSUME PaymentsInv, UNCHANGED <<store, answered>>, PaymentsTypeOK', CallbacksFit',
         \A i \in Intents : offer[i] = "paid" => offer'[i] = "paid"
  PROVE  PaymentsInv'
<1>1. mem' = mem /\ saved' = saved
  BY DEF store
<1>2. BooksAreSound'
  <2>1. BooksSound(mem') /\ BooksSound(saved')
    BY <1>1 DEF PaymentsInv, BooksAreSound
  <2> QED BY <2>1 DEF BooksAreSound, BooksSound, HasKey, Adds
<1> QED BY <1>1, <1>2
        DEF PaymentsInv, OnlyCapturedIsCredited, Copies, AnsweredInBoth

\* A callback goes on or ends.
LEMMA CallbackMoves ==
  ASSUME PaymentsInv, NEW c \in Callbacks, offer' = offer,
         \/ Finish(c)
         \/ handler[c].pc # "idle" /\ GoOn(c, "verify")
         \/ handler[c].pc # "idle" /\ offer[handler[c].intent] = "paid" /\ GoOn(c, "credit")
  PROVE  handler' \in [Callbacks -> HandlerStates] /\ CallbacksFit'
<1>1. handler \in [Callbacks -> HandlerStates] /\ handler[c] \in HandlerStates
  BY DEF PaymentsInv, PaymentsTypeOK
<1>2. Idle \in HandlerStates /\ Idle.pc = "idle"
  BY StoreAssumption DEF Idle, HandlerStates
<1>3. CASE Finish(c)
  BY <1>1, <1>2, <1>3 DEF Finish, PaymentsInv, CallbacksFit
<1>4. ASSUME NEW pc \in {"verify", "credit"}, GoOn(c, pc), handler[c].pc # "idle",
             pc = "credit" => offer[handler[c].intent] = "paid"
      PROVE  handler' \in [Callbacks -> HandlerStates] /\ CallbacksFit'
  <2> DEFINE r == [handler[c] EXCEPT !.pc = pc]
  <2>1. r \in HandlerStates /\ r.pc = pc /\ r.intent = handler[c].intent
    BY <1>1 DEF HandlerStates
  <2>2. handler' = [handler EXCEPT ![c] = r]
    BY <1>4 DEF GoOn
  <2> HIDE DEF r
  <2> QED BY <1>1, <1>4, <2>1, <2>2 DEF PaymentsInv, CallbacksFit
<1> QED BY <1>3, <1>4

LEMMA CheckoutSteps ==
  ASSUME PaymentsInv, NEW i \in Intents, CreateIntent(i) \/ Pay(i)
  PROVE  PaymentsInv'
<1>1. offer \in [Intents -> {"none", "failed", "made", "paid"}] /\ PaymentsTypeOK
  BY DEF PaymentsInv, PaymentsTypeOK
<1>2. CASE CreateIntent(i)
  <2> DEFINE db == [Db EXCEPT !.intents[i] = "pending"]
  <2>1. offer[i] = "none" /\ Db.intents[i] # "credited"
    BY <1>2, BooksDbIsSound DEF CreateIntent
  <2>2. /\ BooksSound(db)
        /\ \A j \in Intents : db.intents[j] = "credited" <=> Db.intents[j] = "credited"
    BY <2>1, BooksDbIsSound, PendingIsSound
  <2>3. /\ Commit(db) \/ (Abort(db) /\ answered' = answered)
        /\ \E o \in {"made", "failed"} : offer' = [offer EXCEPT ![i] = o]
        /\ UNCHANGED <<handler, sent, answered>>
    BY <1>2 DEF CreateIntent
  <2> HIDE DEF db
  <2>4. /\ offer' \in [Intents -> {"none", "failed", "made", "paid"}]
        /\ \A j \in Intents : offer[j] = "paid" => offer'[j] = "paid"
    BY <1>1, <2>1, <2>3
  <2>5. CallbacksFit'
    BY <2>3, <2>4 DEF PaymentsInv, CallbacksFit
  <2>6. \A j \in answered' : db.intents[j] = "credited"
    BY <1>1, <2>2, <2>3, BooksDbIsSound DEF PaymentsTypeOK
  <2> QED BY <1>1, <2>2, <2>3, <2>4, <2>5, <2>6, BooksDbIsSound, Mutates DEF PaymentsTypeOK
<1>3. CASE Pay(i)
  <2>1. /\ offer' = [offer EXCEPT ![i] = "paid"]
        /\ UNCHANGED <<store, faults, handler, sent, answered>>
    BY <1>3 DEF Pay
  <2>2. /\ offer' \in [Intents -> {"none", "failed", "made", "paid"}]
        /\ \A j \in Intents : offer[j] = "paid" => offer'[j] = "paid"
    BY <1>1, <2>1
  <2>3. PaymentsTypeOK' /\ CallbacksFit'
    BY <1>1, <2>1, <2>2 DEF PaymentsTypeOK, StoreTypeOK, store, PaymentsInv, CallbacksFit
  <2> QED BY <2>1, <2>2, <2>3, BooksUntouched
<1> QED BY <1>2, <1>3

LEMMA AdjustStep ==
  ASSUME PaymentsInv, NEW key \in Keys, NEW amount \in Amounts, Adjust(key, amount)
  PROVE  PaymentsInv'
<1>1. PaymentsTypeOK /\ sent \in 0 .. MaxReplays + 1 /\ UNCHANGED <<offer, handler, answered>>
  BY DEF PaymentsInv, PaymentsTypeOK, Adjust
<1>2. sent' \in 0 .. MaxReplays + 1
  BY <1>1, PaymentsAssumption DEF Adjust
<1>3. CallbacksFit'
  BY <1>1 DEF PaymentsInv, CallbacksFit
<1>4. CASE Rejected(Db, key, amount)
  <2>1. UNCHANGED <<store, faults>>
    BY <1>4 DEF Adjust
  <2>2. PaymentsTypeOK'
    BY <1>1, <1>2, <2>1 DEF PaymentsTypeOK, StoreTypeOK, store
  <2> QED BY <1>1, <1>3, <2>1, <2>2, BooksUntouched
<1>5. CASE ~Rejected(Db, key, amount)
  <2> DEFINE db == AddLedgerEntry(Db, key, amount)
  <2>1. BooksSound(db) /\ db.intents = Db.intents
    BY <1>5, BooksDbIsSound, AdjustmentIsSound
  <2>2. Commit(db) \/ (Abort(db) /\ answered' = answered)
    BY <1>1, <1>5 DEF Adjust
  <2> HIDE DEF db
  <2> QED BY <1>1, <1>2, <1>3, <2>1, <2>2, BooksDbIsSound, Mutates DEF PaymentsTypeOK
<1> QED BY <1>4, <1>5

LEMMA CallbackSteps ==
  ASSUME PaymentsInv, NEW c \in Callbacks, Record(c) \/ Verify(c) \/ Credit(c)
  PROVE  PaymentsInv'
<1>1. PaymentsTypeOK /\ UNCHANGED <<offer, sent>>
  BY DEF PaymentsInv, Record, Verify, Credit
<1>2. handler' \in [Callbacks -> HandlerStates] /\ CallbacksFit'
  <2>1. \/ Finish(c)
        \/ handler[c].pc # "idle" /\ GoOn(c, "verify")
        \/ handler[c].pc # "idle" /\ offer[handler[c].intent] = "paid" /\ GoOn(c, "credit")
    BY DEF Record, Verify, Credit
  <2> QED BY <1>1, <2>1, CallbackMoves
<1>3. CASE Record(c)
  <2>1. (Commit(Db) \/ (Abort(Db) /\ answered' = answered)) /\ answered' = answered
    BY <1>3 DEF Record
  <2> QED BY <1>1, <1>2, <2>1, BooksDbIsSound, Mutates DEF PaymentsTypeOK
<1>4. CASE Verify(c)
  <2>1. /\ UNCHANGED <<store, answered>>
        /\ (faults' = faults \/ (faults < MaxFaults /\ faults' = faults + 1))
    BY <1>4 DEF Verify, Fault
  <2>2. PaymentsTypeOK'
    BY <1>1, <1>2, <2>1, StoreAssumption DEF PaymentsTypeOK, StoreTypeOK, store
  <2> QED BY <1>1, <1>2, <2>1, <2>2, BooksUntouched
<1>5. CASE Credit(c)
  <2> DEFINE i == handler[c].intent
  <2> DEFINE db == Credited(Db, i)
  <2>1. i \in Intents /\ offer[i] = "paid"
    BY <1>5 DEF Credit, PaymentsInv, CallbacksFit
  <2>2. /\ BooksSound(db) /\ db.intents[i] = "credited"
        /\ \A j \in Intents \ {i} : db.intents[j] = Db.intents[j]
    BY <2>1, BooksDbIsSound, CreditIsSound
  <2>3. \/ Commit(db) /\ answered' = answered \cup {i}
        \/ Abort(db) /\ answered' = answered
    BY <1>5 DEF Credit
  <2> HIDE DEF db, i
  <2>4. answered' \in SUBSET Intents /\ \A j \in answered' : db.intents[j] = "credited"
    BY <1>1, <2>1, <2>2, <2>3, BooksDbIsSound DEF PaymentsTypeOK
  <2>5. \A j \in Intents : db.intents[j] = "credited" => offer'[j] = "paid"
    BY <1>1, <2>1, <2>2, BooksDbIsSound
  <2> QED BY <1>1, <1>2, <2>2, <2>3, <2>4, <2>5, Mutates DEF PaymentsTypeOK
<1> QED BY <1>3, <1>4, <1>5

LEMMA ReceiveStep ==
  ASSUME PaymentsInv, NEW c \in Callbacks, NEW p \in Processes, NEW i \in Intents,
         NEW success \in BOOLEAN, Receive(c, p, i, success)
  PROVE  PaymentsInv'
<1>1. PaymentsTypeOK /\ UNCHANGED <<store, faults, offer, sent, answered>>
  BY DEF PaymentsInv, Receive
<1>2. PICK pc \in {"record", "reject"} :
        handler' = [handler EXCEPT ![c] = [pc |-> pc, intent |-> i, on |-> p]]
  BY DEF Receive
<1> DEFINE r == [pc |-> pc, intent |-> i, on |-> p]
<1>3. r \in HandlerStates /\ r.pc # "credit" /\ r.intent \in Intents
  BY DEF HandlerStates
<1> HIDE DEF r
<1>4. handler' = [handler EXCEPT ![c] = r]
  BY <1>2 DEF r
<1>5. PaymentsTypeOK' /\ CallbacksFit'
  BY <1>1, <1>3, <1>4 DEF PaymentsTypeOK, StoreTypeOK, store, PaymentsInv, CallbacksFit
<1> QED BY <1>1, <1>5, BooksUntouched

LEMMA CrashPaymentsStep ==
  ASSUME PaymentsInv, NEW p \in Processes, CrashPayments(p)
  PROVE  PaymentsInv'
<1>1. /\ PaymentsTypeOK /\ UNCHANGED <<mode, saved, offer, sent, answered>> /\ mem' = saved
      /\ faults < MaxFaults /\ faults' = faults + 1
      /\ handler' = [c \in Callbacks |-> IF handler[c].on = p THEN Idle ELSE handler[c]]
  BY DEF PaymentsInv, CrashPayments, Restart, Fault
<1>2. Idle \in HandlerStates /\ Idle.pc = "idle"
  BY StoreAssumption DEF Idle, HandlerStates
<1>3. PaymentsTypeOK'
  <2>1. faults' \in 0 .. MaxFaults
    BY <1>1, StoreAssumption DEF PaymentsTypeOK, StoreTypeOK
  <2>2. handler' \in [Callbacks -> HandlerStates]
    BY <1>1, <1>2 DEF PaymentsTypeOK
  <2> QED BY <1>1, <2>1, <2>2 DEF PaymentsTypeOK, StoreTypeOK
<1>4. CallbacksFit'
  BY <1>1, <1>2 DEF PaymentsInv, CallbacksFit
<1>5. BooksAreSound'
  BY <1>1 DEF PaymentsInv, BooksAreSound, BooksSound, HasKey, Adds
<1> QED BY <1>1, <1>3, <1>4, <1>5
        DEF PaymentsInv, OnlyCapturedIsCredited, Copies, AnsweredInBoth

LEMMA PaymentsInvStep == PaymentsInv /\ [PaymentsNext]_paymentsVars => PaymentsInv'
<1> SUFFICES ASSUME PaymentsInv, [PaymentsNext]_paymentsVars PROVE PaymentsInv'
  OBVIOUS
<1>1. CASE PaymentsNext
  BY <1>1, CheckoutSteps, AdjustStep, ReceiveStep, CallbackSteps, CrashPaymentsStep DEF PaymentsNext
<1>2. CASE UNCHANGED paymentsVars
  <2>1. UNCHANGED <<store, answered>> /\ offer' = offer /\ PaymentsTypeOK' /\ CallbacksFit'
    BY <1>2 DEF paymentsVars, store, PaymentsInv, PaymentsTypeOK, StoreTypeOK, CallbacksFit
  <2> QED BY <2>1, BooksUntouched
<1> QED BY <1>1, <1>2

LEMMA PaymentsInvAlways == PaymentsSpec => []PaymentsInv
BY PaymentsInvInit, PaymentsInvStep, PTL DEF PaymentsSpec

-----------------------------------------------------------------------------
(* The sum of a ledger.                                                    *)

\* Whatever satisfies the recursion of Balance has the partial sums as its values.
LEMMA SumsAreUnique ==
  ASSUME NEW l \in Seq(Entries), NEW s, PartialSums(l, s), NEW f,
         f = [n \in 0 .. Len(l) |-> IF n = 0 THEN 0 ELSE f[n - 1] + l[n].amount]
  PROVE  \A n \in 0 .. Len(l) : f[n] = s[n]
<1> DEFINE Differ == {n \in 0 .. Len(l) : f[n] # s[n]}
<1>1. Len(l) \in Nat /\ Differ \subseteq Nat
  BY LenProperties
<1>2. /\ f[0] = 0 /\ s[0] = 0
      /\ \A n \in 1 .. Len(l) : /\ f[n] = f[n - 1] + l[n].amount
                               /\ s[n] = s[n - 1] + l[n].amount
  <2>1. \A n \in 0 .. Len(l) : f[n] = IF n = 0 THEN 0 ELSE f[n - 1] + l[n].amount
    OBVIOUS
  <2> QED BY <1>1, <2>1 DEF PartialSums
<1>3. ASSUME Differ # {} PROVE FALSE
  <2> HIDE DEF Differ
  <2>1. PICK m \in Differ : \A n \in Differ : ~ (<<n, m>> \in OpToRel(<, Nat))
    BY <1>1, <1>3, NatLessThanWellFounded, WFMin
  <2> USE DEF Differ
  <2>2. m \in 1 .. Len(l)
    BY <1>1, <1>2
  <2>3. m \in Nat /\ m - 1 \in 0 .. Len(l) /\ m - 1 \in Nat /\ m - 1 < m
    BY <1>1, <2>2
  <2>4. f[m - 1] = s[m - 1]
    <3>1. <<m - 1, m>> \in OpToRel(<, Nat)
      BY <2>3 DEF OpToRel
    <3>2. m - 1 \notin Differ
      BY <2>1, <3>1
    <3> QED BY <2>3, <3>2
  <2>5. f[m] = s[m]
    BY <1>2, <2>2, <2>4
  <2> QED BY <2>5
<1> QED BY <1>3

\* The recursion of Balance has a value, and that is the last of the partial sums.
LEMMA BalanceIsTheLastSum ==
  ASSUME NEW l \in Seq(Entries), NEW s, PartialSums(l, s)
  PROVE  Balance(l) = s[Len(l)]
<1> DEFINE Sums(f) ==
      f = [n \in 0 .. Len(l) |-> IF n = 0 THEN 0 ELSE f[n - 1] + l[n].amount]
<1>1. Len(l) \in Nat
  BY LenProperties
<1>2. Sums(s)
  <2>1. \A n \in 0 .. Len(l) : s[n] = IF n = 0 THEN 0 ELSE s[n - 1] + l[n].amount
    BY <1>1 DEF PartialSums
  <2> QED BY <1>1, <2>1 DEF PartialSums
<1> DEFINE sum == CHOOSE f : Sums(f)
<1>3. Sums(sum)
  <2> HIDE DEF Sums
  <2> QED BY <1>2
<1>4. Balance(l) = sum[Len(l)]
  BY DEF Balance
<1> HIDE DEF sum
<1>5. \A n \in 0 .. Len(l) : sum[n] = s[n]
  BY <1>3, SumsAreUnique
<1> QED BY <1>1, <1>4, <1>5

\* A sound copy is a balanced book.
LEMMA SoundBooks ==
  ASSUME NEW db, BooksSound(db)
  PROVE  /\ \A j, k \in DOMAIN db.ledger : db.ledger[j].key = db.ledger[k].key => j = k
         /\ \A i \in Intents :
              db.intents[i] = "credited" <=>
                \E k \in DOMAIN db.ledger : db.ledger[k] = [key |-> i, amount |-> Credits[i]]
         /\ db.wallet = Balance(db.ledger) /\ db.wallet >= 0
<1>1. \A i \in Intents :
        HasKey(db, i) <=>
          \E k \in DOMAIN db.ledger : db.ledger[k] = [key |-> i, amount |-> Credits[i]]
  BY DEF BooksSound, HasKey
<1>2. db.wallet = Balance(db.ledger)
  <2>1. db.ledger \in Seq(Entries)
    BY DEF BooksSound, Books
  <2>2. PICK s : PartialSums(db.ledger, s) /\ s[Len(db.ledger)] = db.wallet
    BY DEF BooksSound, Adds
  <2> QED BY <2>1, <2>2, BalanceIsTheLastSum
<1> QED BY <1>1, <1>2 DEF BooksSound

-----------------------------------------------------------------------------
(* The theorems.                                                           *)

\* The store, the callbacks and the checkouts keep their types.
THEOREM PaymentsTypes == PaymentsSpec => []PaymentsTypeOK
<1>1. PaymentsInv => PaymentsTypeOK
  BY DEF PaymentsInv
<1> QED BY <1>1, PaymentsInvAlways, PTL

\* addLedgerEntry and the last mutation of apiPayuCallback: in memory and on disk a
\* reference is booked once, exactly the credited intents are booked, each with its
\* credits, and the wallet is what the ledger adds up to and not overdrawn.
THEOREM BooksAreBalanced == PaymentsSpec => []BooksBalance
<1>1. PaymentsInv => BooksBalance
  BY SoundBooks DEF PaymentsInv, BooksAreSound, BooksBalance, Copies
<1> QED BY <1>1, PaymentsInvAlways, PTL

\* verifyPayment stands between the callback and the credit.
THEOREM CreditsAreCaptured == PaymentsSpec => []OnlyCapturedIsCredited
<1>1. PaymentsInv => OnlyCapturedIsCredited
  BY DEF PaymentsInv
<1> QED BY <1>1, PaymentsInvAlways, PTL

\* A credit that was answered is not taken back by a failed write, a restart or the
\* write of another process.
THEOREM AnswersAreKept == PaymentsSpec => []AnsweredCreditStays
<1>1. PaymentsInv => AnsweredCreditStays
  BY DEF PaymentsInv, AnsweredInBoth, AnsweredCreditStays
<1> QED BY <1>1, PaymentsInvAlways, PTL
=============================================================================
