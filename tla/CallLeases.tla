----------------------------- MODULE CallLeases -----------------------------
(***************************************************************************)
(* The calls that the dashboard lets a workspace start: the lease each one *)
(* holds, the browser that reports when its call connects and ends, a demo *)
(* link's starts, and the meter that reads Dograh's runs and drops the     *)
(* leases of those that are over.                                          *)
(*                                                                         *)
(* Every step of a request is a mutation of the store or a call to Dograh, *)
(* and other requests run between them.  A tick is a minute; of a lease    *)
(* what is left of it is kept, 0 when it has expired.  Minutes and agents  *)
(* are left out, and leases that older versions left behind.               *)
(***************************************************************************)
EXTENDS DashboardStore, FiniteSets

CONSTANTS
  Browsers,     \* calls from a browser
  Demos,        \* those of them that a demo link starts
  Dials,        \* telephone calls
  Limit,        \* maxConcurrentCalls of the plan
  MaxStarts,    \* maxStarts of the demo link
  Reservation,  \* ticks that reserveCall and bindBrowserCall give a lease
  MintTime,     \* ticks that Dograh may take to start a call
  ConnectTime,  \* ticks a browser waits for its connection
  Session,      \* ticks that a call from a browser may last
  Grace,        \* ticks a connected lease lasts beyond that
  Hour          \* ticks that bindCall gives a lease

Calls == Browsers \cup Dials

ASSUME LeasesAssumption ==
  /\ Demos \subseteq Browsers /\ Browsers \cap Dials = {}
  /\ {Limit, MaxStarts, Reservation, MintTime, ConnectTime, Session, Grace, Hour}
       \subseteq Nat \ {0}

\* Dograh is given 12 and 8 seconds, or 60, and a reservation lasts 120.
ASSUME MintAssumption == MintTime < Reservation

VARIABLES
  request,  \* what the request of each call is doing
  client,   \* the browser of each call
  mail,     \* lifecycle messages that are on their way
  ended,    \* calls whose end was acknowledged
  run,      \* the workflow run of each call in Dograh
  meter     \* the refresh of each process

vars == <<store, faults, request, client, mail, ended, run, meter>>
upstream == <<run, meter>>
browser == <<client, mail, ended>>

-----------------------------------------------------------------------------
Phases == {"none", "reserved", "connecting", "connected", "bound"}
Largest == Reservation + Session + Grace + Hour
Leases == [phase : Phases, left : 0 .. Largest]
NoLease == [phase |-> "none", left |-> 0]

Databases == [lease : [Calls -> Leases], starts : 0 .. MaxStarts]

Empty == [lease |-> [c \in Calls |-> NoLease], starts |-> 0]

RunStates == {"none", "open", "completed"}

Pcs == {"idle", "refresh", "reserve", "mint", "bind", "release", "refund", "answered", "failed"}

Requests == [pc : Pcs, on : Processes, age : 0 .. MintTime]

\* Ticks since the connection was asked for, or since it was made.
Clients == [pc : {"away", "connecting", "talking", "confirmed", "over"},
            age : 0 .. ConnectTime + Session]

TypeOK ==
  /\ StoreTypeOK(Databases)
  /\ request \in [Calls -> Requests]
  /\ client \in [Browsers -> Clients]
  /\ mail \in SUBSET (Browsers \X {"connected", "ended"})
  /\ ended \in SUBSET Browsers
  /\ run \in [Calls -> RunStates]
  /\ meter \in [Processes -> [busy : BOOLEAN, completed : SUBSET Calls]]

Unread == [busy |-> FALSE, completed |-> {}]

Init ==
  /\ StoreInit(Empty)
  /\ request = [c \in Calls |-> [pc |-> "idle", on |-> Alone, age |-> 0]]
  /\ client = [c \in Browsers |-> [pc |-> "away", age |-> 0]]
  /\ mail = {} /\ ended = {}
  /\ run = [c \in Calls |-> "none"]
  /\ meter = [p \in Processes |-> Unread]
-----------------------------------------------------------------------------
(* Leases and the steps of a request.                                      *)

Active(db) == {c \in Calls : db.lease[c].left > 0}

WithLease(db, c, phase, left) ==
  [db EXCEPT !.lease[c] = [phase |-> phase, left |-> left]]

WithoutLease(db, c) == [db EXCEPT !.lease[c] = NoLease]

Settled == {"idle", "answered", "failed"}

\* Where a request is, and for how long Dograh has been called, matter no
\* more when it is settled.
Goto(c, pc) ==
  request' = [request EXCEPT ![c] =
    [pc |-> pc,
     on |-> IF pc \in Settled THEN Alone ELSE @.on,
     age |-> IF pc \in {"mint", "bind"} THEN @.age ELSE 0]]

\* An error leaves mintDograhVoiceSession or the dial: a demo gets its start
\* back first.
AfterError(c) == IF c \in Demos THEN "refund" ELSE "failed"
Throw(c) == Goto(c, AfterError(c))

\* A mutation that leads to pc, or is thrown and leads to otherwise.
Mutation(c, db, pc, otherwise) ==
  \/ Commit(db) /\ Goto(c, pc)
  \/ Abort(db) /\ Goto(c, otherwise)

\* apiVoiceSession, apiTelephonyDial.
Begin(c, p) ==
  /\ c \notin Demos /\ request[c].pc = "idle" /\ p \in Running
  /\ request' = [request EXCEPT ![c] = [pc |-> "refresh", on |-> p, age |-> 0]]
  /\ UNCHANGED <<store, faults, browser, upstream>>

\* apiPublicDemoSession counts the start.  "reserved" is set inside the
\* mutation: when the write fails, a start is given back all the same.
BeginDemo(c, p) ==
  LET db == [Db EXCEPT !.starts = @ + 1]
      begin(pc) == request' = [request EXCEPT ![c].pc = pc, ![c].on = p] IN
  /\ c \in Demos /\ request[c].pc = "idle" /\ p \in Running
  /\ IF Db.starts >= MaxStarts THEN Goto(c, "failed") /\ UNCHANGED <<store, faults>>
     ELSE \/ Commit(db) /\ begin("refresh")
          \/ Abort(db) /\ begin("refund")
  /\ UNCHANGED <<browser, upstream>>

\* reserveCall, with assertCallsAllowed in the same mutation.
Reserve(c) ==
  /\ request[c].pc = "reserve"
  /\ IF Cardinality(Active(Db)) >= Limit THEN Throw(c) /\ UNCHANGED <<store, faults>>
     ELSE Mutation(c, WithLease(Db, c, "reserved", Reservation), "mint", AfterError(c))
  /\ UNCHANGED <<browser, upstream>>

\* Dograh makes a run and answers; or it does not, or the answer is lost.  A
\* dial may be answered without the run's id, and keeps its reservation.
Mint(c) ==
  /\ request[c].pc = "mint"
  /\ \/ run' = [run EXCEPT ![c] = "open"]
        /\ \E pc \in {"bind", "release"} \cup IF c \in Dials THEN {"answered"} ELSE {} :
             Goto(c, pc)
     \/ Goto(c, "release") /\ UNCHANGED run
  /\ UNCHANGED <<store, faults, browser, meter>>

\* bindBrowserCall refuses a lease that is gone; bindCall passes over it.
Bind(c) ==
  /\ request[c].pc = "bind"
  /\ \/ /\ Db.lease[c] = NoLease /\ c \in Browsers
        /\ Goto(c, "release") /\ UNCHANGED <<store, faults>>
     \/ /\ Db.lease[c] # NoLease /\ c \in Browsers
        /\ Mutation(c, WithLease(Db, c, "connecting", Reservation), "answered", "release")
     \/ /\ c \in Dials
        /\ Mutation(c, IF Db.lease[c] = NoLease THEN Db ELSE WithLease(Db, c, "bound", Hour),
                    "answered", "release")
  /\ UNCHANGED <<browser, upstream>>

\* releaseCall.
Release(c) ==
  /\ request[c].pc = "release"
  /\ Mutation(c, WithoutLease(Db, c), AfterError(c), AfterError(c))
  /\ UNCHANGED <<browser, upstream>>

Refund(c) ==
  /\ request[c].pc = "refund"
  /\ Mutation(c, [Db EXCEPT !.starts = IF @ = 0 THEN 0 ELSE @ - 1], "failed", "failed")
  /\ UNCHANGED <<browser, upstream>>

-----------------------------------------------------------------------------
(* callMeter.refresh: one at a time in each process, which requests join.  *)

Waiting(p) == {c \in Calls : request[c].pc = "refresh" /\ request[c].on = p}

Continue(p, to) ==
  request' = [c \in Calls |-> IF c \in Waiting(p) THEN [request[c] EXCEPT !.pc = to[c]]
                              ELSE request[c]]

Over == {c \in Calls : run[c] = "completed"}

\* The timer's, or a request's: the runs are read.
ReadRuns(p) ==
  /\ p \in Running /\ ~meter[p].busy
  /\ meter' = [meter EXCEPT ![p] = [busy |-> TRUE, completed |-> Over]]
  /\ UNCHANGED <<store, faults, request, browser, run>>

\* The leases of runs that are over are dropped, if they are bound to them.
Bound == {"connecting", "connected", "bound"}

MeteredConnected(db, completed) ==
  [db EXCEPT !.lease = [c \in Calls |->
     IF c \in completed /\ @[c].phase = "connected" THEN NoLease ELSE @[c]]]

Metered(db, completed) ==
  [db EXCEPT !.lease = [c \in Calls |->
     IF c \in completed /\ @[c].phase \in Bound THEN NoLease ELSE @[c]]]

\* They are written, and those who wait go on; or Dograh or the write fails,
\* and nobody is admitted.
WriteRuns(p) ==
  LET db == Metered(Db, meter[p].completed) IN
  /\ meter[p].busy /\ meter' = [meter EXCEPT ![p] = Unread]
  /\ \/ Commit(db) /\ Continue(p, [c \in Calls |-> "reserve"])
     \/ Abort(db) /\ Continue(p, [c \in Calls |-> AfterError(c)])
     \/ Fault /\ Continue(p, [c \in Calls |-> AfterError(c)]) /\ UNCHANGED store
  /\ UNCHANGED <<browser, run>>

-----------------------------------------------------------------------------
(* The browser, app.js and demo.js.                                        *)

Move(c, pc) == client' = [client EXCEPT ![c] = [pc |-> pc, age |-> 0]]
Post(c, action) == mail' = mail \cup {<<c, action>>}

\* The answer arrives; or the visitor has left, and the page says so.
Answered(c) ==
  /\ request[c].pc = "answered" /\ client[c].pc = "away"
  /\ \/ Move(c, "connecting") /\ UNCHANGED mail
     \/ Move(c, "over") /\ Post(c, "ended")
  /\ UNCHANGED <<store, faults, request, ended, upstream>>

Connected(c) ==
  /\ client[c].pc = "connecting" /\ Move(c, "talking") /\ Post(c, "connected")
  /\ UNCHANGED <<store, faults, request, ended, upstream>>

\* stopCall: the visitor, the page's exit, a timer or a lost connection.
StopCall(c) ==
  /\ client[c].pc \in {"connecting", "talking", "confirmed"}
  /\ Move(c, "over") /\ Post(c, "ended")
  /\ UNCHANGED <<store, faults, request, ended, upstream>>

\* The browser is gone, or never saw the answer.
Vanish(c) ==
  /\ request[c].pc = "answered" /\ client[c].pc # "over" /\ Move(c, "over")
  /\ UNCHANGED <<store, faults, request, mail, ended, upstream>>

\* What notifyLease answers to "connected" matters while the call goes on:
\* an error stops it.
Reply(c, ok) ==
  LET rest == mail \ {<<c, "connected">>} IN
  IF client[c].pc # "talking" THEN mail' = rest /\ UNCHANGED client
  ELSE IF ok THEN /\ client' = [client EXCEPT ![c].pc = "confirmed"]
                  /\ mail' = rest
  ELSE Move(c, "over") /\ mail' = rest \cup {<<c, "ended">>}

ConnectUpserting(c) ==
  LET new == WithLease(Db, c, "connected", Session + Grace) IN
  /\ <<c, "connected">> \in mail
  /\ \/ Commit(new) /\ \E ok \in BOOLEAN : Reply(c, ok)
     \/ Abort(new) /\ Reply(c, FALSE)
  /\ UNCHANGED <<request, ended, upstream>>

ConnectWithoutExtending(c) ==
  /\ <<c, "connected">> \in mail
  /\ IF Db.lease[c].left = 0 THEN Reply(c, FALSE) /\ UNCHANGED <<store, faults>>
     ELSE Commit(Db) /\ Reply(c, TRUE)
  /\ UNCHANGED <<request, ended, upstream>>

\* browserCallLifecycle.  A repeated "connected" would extend nothing.
Connect(c) ==
  LET new == IF Db.lease[c].phase # "connecting" THEN Db
             ELSE WithLease(Db, c, "connected", Session + Grace) IN
  /\ <<c, "connected">> \in mail
  /\ IF Db.lease[c].left = 0 THEN Reply(c, FALSE) /\ UNCHANGED <<store, faults>>
     ELSE \/ Commit(new) /\ \E ok \in BOOLEAN : Reply(c, ok)
          \/ Abort(new) /\ Reply(c, FALSE)
  /\ UNCHANGED <<request, ended, upstream>>

End(c) ==
  LET db == WithoutLease(Db, c) IN
  /\ <<c, "ended">> \in mail
  /\ mail' = mail \ {<<c, "ended">>}
  /\ \/ Commit(db) /\ ended' = ended \cup {c}
     \/ Abort(db) /\ UNCHANGED ended
  /\ UNCHANGED <<request, client, upstream>>

Lose(c) ==
  /\ \/ <<c, "connected">> \in mail /\ Reply(c, FALSE)
     \/ <<c, "ended">> \in mail /\ mail' = mail \ {<<c, "ended">>} /\ UNCHANGED client
  /\ UNCHANGED <<store, faults, request, ended, upstream>>

-----------------------------------------------------------------------------
(* Dograh, time and crashes.                                               *)

Complete(c) ==
  /\ run[c] = "open" /\ run' = [run EXCEPT ![c] = "completed"]
  /\ UNCHANGED <<store, faults, request, browser, meter>>

Older(db) ==
  [db EXCEPT !.lease = [c \in Calls |->
     [phase |-> @[c].phase, left |-> IF @[c].left = 0 THEN 0 ELSE @[c].left - 1]]]

Minting == {c \in Calls : request[c].pc \in {"mint", "bind"}}
Timed(c) == client[c].pc \in {"connecting", "talking", "confirmed"}

\* Calls to Dograh, the browser's wait for its connection and the call itself
\* last no longer than they may.
Tick ==
  /\ \A c \in Minting : request[c].age < MintTime
  /\ \A c \in Browsers :
       Timed(c) => client[c].age < IF client[c].pc = "connecting" THEN ConnectTime ELSE Session
  /\ request' = [c \in Calls |-> IF c \in Minting THEN [request[c] EXCEPT !.age = @ + 1]
                                 ELSE request[c]]
  /\ client' = [c \in Browsers |-> IF Timed(c) THEN [client[c] EXCEPT !.age = @ + 1]
                                   ELSE client[c]]
  /\ mem' = Older(mem) /\ saved' = Older(saved)
  /\ UNCHANGED <<mode, faults, mail, ended, upstream>>

\* Requests under way and the refresh die with their process.
Crash(p) ==
  /\ p \in Running /\ Restart
  /\ request' = [c \in Calls |->
       IF request[c].on = p /\ request[c].pc \notin Settled
       THEN [pc |-> "failed", on |-> Alone, age |-> 0] ELSE request[c]]
  /\ meter' = [meter EXCEPT ![p] = Unread]
  /\ UNCHANGED <<browser, run>>

Next ==
  \/ \E c \in Calls, p \in Processes : Begin(c, p) \/ BeginDemo(c, p)
  \/ \E c \in Calls :
       Reserve(c) \/ Mint(c) \/ Bind(c) \/ Release(c) \/ Refund(c) \/ Complete(c)
  \/ \E p \in Processes : ReadRuns(p) \/ WriteRuns(p) \/ Crash(p)
  \/ \E c \in Browsers :
       Answered(c) \/ Connected(c) \/ StopCall(c) \/ Vanish(c)
       \/ Connect(c) \/ End(c) \/ Lose(c)
  \/ Tick

Spec == Init /\ [][Next]_vars

\* The timer refreshes the meter of each process again and again.
FairSpec ==
  Spec /\ \A p \in Processes : WF_vars(ReadRuns(p)) /\ WF_vars(WriteRuns(p))

-----------------------------------------------------------------------------
(* Correctness.                                                            *)

\* However requests overlap, in one process or in several, and whatever
\* fails or crashes between their steps, no more leases are active than the
\* plan allows: binding and connecting never bring an expired lease back.
LeasesWithinLimit == Cardinality(Active(Db)) <= Limit

\* A call from a browser that goes on, its connection acknowledged and its
\* run open, holds an active lease: no refresh, release or expiry frees its
\* slot for another.
LiveCallsAreCounted ==
  \A c \in Browsers :
    client[c].pc = "confirmed" /\ run[c] = "open" => c \in Active(Db)

\* A slot that a browser gave back stays free, though its "connected" may
\* come after its "ended" and a refresh may have read the run before.
EndedCallsStayFree == \A c \in ended : Db.lease[c] = NoLease

\* The demo sessions handed out are at most those the link allows.
Handed == {c \in Demos : request[c].pc = "answered"}
StartsWithinLimit == Cardinality(Handed) <= MaxStarts

\* The slot of a call whose run is completed is freed, though nobody reports
\* its end and its lease has long to go.
CompletedCallsFreeTheirSlot ==
  \A c \in Calls :
    (run[c] = "completed" /\ Db.lease[c].phase \in Bound)
      ~> (Db.lease[c].phase \notin Bound)
=============================================================================
