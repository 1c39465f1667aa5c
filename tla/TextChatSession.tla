--------------------------- MODULE TextChatSession ---------------------------
(***************************************************************************)
(* One text chat: the session row with its revision, the workflow run that *)
(* owns it, the requests of an editor's tabs or of a visitor's widget, the *)
(* sweep that ends the chats nobody ends, and the completion job.          *)
(*                                                                         *)
(* A request loads the session, works on what it loaded for as long as a   *)
(* language model takes, and writes under the revision it expects; the row *)
(* is locked only while it is written.  A turn is its id and its status:   *)
(* texts, checkpoints, usage and the run's copy of the log are left out,   *)
(* and with them the second write of a rewind, which is only of the log.   *)
(* A visitor's widget sends what a tab sends, but no rewind.               *)
(***************************************************************************)
EXTENDS Integers, Sequences

CONSTANTS
  Clients,      \* tabs and widgets, with one request at a time each
  Creator,      \* the one that creates the chat
  Workers,      \* ARQ workers
  NoRevision,   \* expected_revision left out
  Guarded,      \* whether every client sends expected_revision
  Timeout,      \* text_chat_inactivity_timeout_seconds, in ticks
  Lookback,     \* TEXT_CHAT_INACTIVITY_SWEEP_LOOKBACK_SECONDS, in ticks
  Interval,     \* ticks from a sweep to the next
  MaxRequests,  \* bound: requests after the one that creates the chat
  MaxCrashes    \* bound: handlers that die

ASSUME TextChatAssumption ==
  /\ Creator \in Clients /\ Clients \cap Workers = {}
  /\ NoRevision \notin Nat /\ Guarded \in BOOLEAN
  /\ {Timeout, Lookback, MaxRequests, MaxCrashes} \subseteq Nat
  /\ Interval \in Nat \ {0}

\* The bound that MAX_TEXT_CHAT_INACTIVITY_TIMEOUT_SECONDS puts on a timeout.
ASSUME SweepAssumption == Timeout + Interval <= Lookback

VARIABLES
  session,     \* the row: rev, status, turns, cursor and discarded_future
  nextTurn,    \* the id of the next turn
  run,         \* the workflow run: completed, state and disposition
  handler,     \* what each request or job is doing
  jobs,        \* revisions for which an inactivity job waits or runs
  completion,  \* the completion job: "none", "queued", or "done" with its result kept
  age,         \* ticks since updated_at
  since,       \* ticks since the last sweep
  lost,        \* whether a request died between completing and enqueueing
  requests,    \* requests so far
  crashes

vars == <<session, nextTurn, run, handler, jobs, completion, age, since, lost,
          requests, crashes>>

-----------------------------------------------------------------------------
Handlers == Clients \cup Workers

\* A turn 0 is no turn: the cursor of a chat that is not rewound.
NoTurn == 0

TurnStatuses == {"pending", "completed", "failed"}
Turns == [id : Nat \ {0}, status : TurnStatuses]
SessionStatuses == {"idle", "pending_assistant_turn", "rewound", "error", "completed"}
Sessions == [rev : Nat, status : SessionStatuses, turns : Seq(Turns),
             cursor : Nat, discarded : SUBSET (Nat \ {0})]

\* default_text_chat_session_data
NewSession == [rev |-> 0, status |-> "idle", turns |-> << >>,
               cursor |-> NoTurn, discarded |-> {}]

Writing == {"initialize", "append", "rewind", "end", "execute"}
Pcs == {"idle", "reload", "record", "enqueue"} \cup Writing

\* rev: the revision the next write expects; snap: the session as loaded.
HandlerStates == [pc : Pcs, rev : Nat \cup {NoRevision}, snap : Sessions, cursor : Nat]
Idle == [pc |-> "idle", rev |-> 0, snap |-> NewSession, cursor |-> NoTurn]

Dispositions == {"none", "agent", "user_hangup", "user_idle_max_duration_exceeded"}

TypeOK ==
  /\ session \in Sessions /\ nextTurn \in Nat \ {0}
  /\ run \in [completed : BOOLEAN, state : {"initialized", "running", "completed"},
              disposition : Dispositions]
  /\ handler \in [Handlers -> HandlerStates]
  /\ jobs \in SUBSET Nat
  /\ completion \in {"none", "queued", "done"}
  /\ age \in 0 .. Lookback + 1 /\ since \in 0 .. Interval
  /\ lost \in BOOLEAN /\ requests \in 0 .. MaxRequests /\ crashes \in 0 .. MaxCrashes

\* The request that creates the chat holds the empty session.
Init ==
  /\ session = NewSession /\ nextTurn = 1
  /\ run = [completed |-> FALSE, state |-> "initialized", disposition |-> "none"]
  /\ handler = [h \in Handlers |->
                  IF h = Creator THEN [Idle EXCEPT !.pc = "initialize"] ELSE Idle]
  /\ jobs = {} /\ completion = "none"
  /\ age = 0 /\ since = 0
  /\ lost = FALSE /\ requests = 0 /\ crashes = 0

-----------------------------------------------------------------------------
(* The row.                                                                *)

Ids(turns) == {turns[i].id : i \in DOMAIN turns}

ExpectsNothing(rev) == TRUE

\* The comparison under the lock, of an expected revision if there is one.
Expects(rev) == rev = NoRevision \/ rev = session.rev

WriteKeepingRevision(new) ==
  /\ session' = [new EXCEPT !.rev = session.rev]
  /\ age' = 0

\* update_workflow_run_text_session, with the row locked.
Write(new) ==
  /\ session' = [new EXCEPT !.rev = session.rev + 1]
  /\ age' = 0

\* What was loaded is not looked at again.
Goto(h, pc) == handler' = [handler EXCEPT ![h] = [Idle EXCEPT !.pc = pc, !.rev = handler[h].rev]]
Finish(h) == handler' = [handler EXCEPT ![h] = Idle]

\* The inactivity job leaves the queue with the worker that ran it.
Done(h) ==
  /\ Finish(h)
  /\ jobs' = IF h \in Workers THEN jobs \ {handler[h].rev} ELSE jobs

-----------------------------------------------------------------------------
(* Requests.                                                               *)

\* What a client sends for a revision; one that has passed is a conflict at once.
Expected == {session.rev} \cup (IF Guarded THEN {} ELSE {NoRevision})

Request == requests < MaxRequests /\ requests' = requests + 1

Load(h, pc, cursor) ==
  /\ handler[h].pc = "idle" /\ Request
  /\ \E rev \in Expected :
       handler' = [handler EXCEPT ![h] =
                     [pc |-> pc, rev |-> rev, snap |-> session, cursor |-> cursor]]
  /\ UNCHANGED <<session, nextTurn, run, jobs, completion,
                 age, since, lost, crashes>>

Open == ~run.completed /\ session.status # "completed"

LoadAppend(c) == Open /\ Load(c, "append", NoTurn)

LoadRewind(c) ==
  /\ Open
  /\ \E cursor \in Ids(session.turns) \cup {NoTurn} : Load(c, "rewind", cursor)

LoadEnd(c) == ~run.completed /\ Load(c, "end", NoTurn)

\* A repeated end request goes straight to the completion job.
LoadEndAgain(c) ==
  /\ run.completed /\ handler[c].pc = "idle" /\ Request
  /\ Goto(c, "enqueue")
  /\ UNCHANGED <<session, nextTurn, run, jobs, completion,
                 age, since, lost, crashes>>

\* Any write under a revision that has passed: 409, or a job that is skipped.
Conflict(h) ==
  /\ handler[h].pc \in Writing
  /\ ~Expects(handler[h].rev)
  /\ Done(h)
  /\ UNCHANGED <<session, nextTurn, run, completion, age,
                 since, lost, requests, crashes>>

AddPending(h, turns, discarded) ==
  /\ Write([handler[h].snap EXCEPT
              !.turns = Append(turns, [id |-> nextTurn, status |-> "pending"]),
              !.status = "pending_assistant_turn",
              !.cursor = NoTurn, !.discarded = discarded])
  /\ nextTurn' = nextTurn + 1
  /\ Goto(h, "reload")
  /\ UNCHANGED <<run, jobs, completion, since, lost, requests, crashes>>

Initialize(c) ==
  /\ handler[c].pc = "initialize" /\ Expects(handler[c].rev)
  /\ AddPending(c, << >>, handler[c].snap.discarded)

\* truncate_text_chat_future_turns: the turns up to the cursor.
Active(s) ==
  IF s.cursor = NoTurn THEN s.turns
  ELSE SubSeq(s.turns, 1, CHOOSE i \in DOMAIN s.turns : s.turns[i].id = s.cursor)

AppendMessage(c) ==
  LET s == handler[c].snap IN
  /\ handler[c].pc = "append" /\ Expects(handler[c].rev)
  /\ AddPending(c, Active(s), s.discarded \cup (Ids(s.turns) \ Ids(Active(s))))

Rewind(c) ==
  LET h == handler[c] IN
  /\ h.pc = "rewind" /\ Expects(h.rev)
  /\ Write([h.snap EXCEPT !.cursor = h.cursor,
                          !.status = IF h.cursor = NoTurn THEN "idle" ELSE "rewound"])
  /\ Finish(c)
  /\ UNCHANGED <<nextTurn, run, jobs, completion, since, lost, requests, crashes>>

\* _reload_text_chat_session: whatever the row holds by now.
Reload(c) ==
  /\ handler[c].pc = "reload"
  /\ handler' = [handler EXCEPT ![c] =
       [@ EXCEPT !.pc = "execute", !.rev = session.rev, !.snap = session]]
  /\ UNCHANGED <<session, nextTurn, run, jobs, completion,
                 age, since, lost, requests, crashes>>

-----------------------------------------------------------------------------
(* execute_pending_text_chat_turn: what the model has answered is written. *)

LastOf(turns) == turns[Len(turns)]

HasPending(s) == s.turns # << >> /\ LastOf(s.turns).status = "pending"

Settled(s, turnStatus, status) ==
  [s EXCEPT !.turns[Len(s.turns)].status = turnStatus, !.status = status]

Executed(c) == handler[c].pc = "execute" /\ HasPending(handler[c].snap)

\* TextChatPendingTurnLostError, or the ValueError of the runner.
PendingLost(c) ==
  /\ handler[c].pc = "execute" /\ ~HasPending(handler[c].snap)
  /\ Finish(c)
  /\ UNCHANGED <<session, nextTurn, run, jobs, completion,
                 age, since, lost, requests, crashes>>

Reply(c) ==
  /\ Executed(c) /\ Expects(handler[c].rev)
  /\ Write(Settled(handler[c].snap, "completed", "idle"))
  /\ Goto(c, "record")
  /\ UNCHANGED <<nextTurn, run, jobs, completion, since, lost, requests, crashes>>

\* _mark_pending_turn_failed
Fail(c) ==
  /\ Executed(c) /\ Expects(handler[c].rev)
  /\ Write(Settled(handler[c].snap, "failed", "error"))
  /\ Finish(c)
  /\ UNCHANGED <<nextTurn, run, jobs, completion, since, lost, requests, crashes>>

\* The run is updated in a transaction of its own; is_completed=False writes nothing.
Record(c) ==
  /\ handler[c].pc = "record"
  /\ run' = [run EXCEPT !.state = "running"]
  /\ Finish(c)
  /\ UNCHANGED <<session, nextTurn, jobs, completion, age,
                 since, lost, requests, crashes>>

\* complete_workflow_run_text_session: the session and its run in one transaction.
Complete(h, new, disposition) ==
  /\ Expects(handler[h].rev)
  /\ Write(new)
  /\ run' = [completed |-> TRUE, state |-> "completed", disposition |-> disposition]
  /\ Goto(h, "enqueue")
  /\ UNCHANGED <<nextTurn, jobs, completion, since, lost, requests, crashes>>

\* The agent ends the chat with its reply.
Dispose(c) ==
  /\ Executed(c)
  /\ Complete(c, Settled(handler[c].snap, "completed", "completed"), "agent")

End(h) ==
  /\ handler[h].pc = "end"
  /\ Complete(h, [handler[h].snap EXCEPT !.status = "completed"],
              IF h \in Workers THEN "user_idle_max_duration_exceeded" ELSE "user_hangup")

\* _enqueue_text_chat_completion; ARQ drops an id that it has.
Enqueue(h) ==
  /\ handler[h].pc = "enqueue"
  /\ completion' = IF completion = "none" THEN "queued" ELSE completion
  /\ Done(h)
  /\ UNCHANGED <<session, nextTurn, run, age, since, lost, requests, crashes>>

-----------------------------------------------------------------------------
(* Workers and time.                                                       *)

ProcessCompletion ==
  /\ completion = "queued"
  /\ completion' = "done"
  /\ UNCHANGED <<session, nextTurn, run, handler, jobs, age, since, lost, requests, crashes>>

SweepEarlyWindow ==
  /\ since = Interval /\ since' = 0
  /\ jobs' = IF ~run.completed /\ age \in Timeout .. Lookback - 2
             THEN jobs \cup {session.rev} ELSE jobs
  /\ UNCHANGED <<session, nextTurn, run, handler, completion,
                 age, lost, requests, crashes>>

\* sweep_inactive_text_chat_sessions: one job per revision.
Sweep ==
  /\ since = Interval /\ since' = 0
  /\ jobs' = IF ~run.completed /\ age \in Timeout .. Lookback
             THEN jobs \cup {session.rev} ELSE jobs
  /\ UNCHANGED <<session, nextTurn, run, handler, completion,
                 age, lost, requests, crashes>>

TakeJobUnguarded(w) ==
  /\ handler[w].pc = "idle"
  /\ \E rev \in jobs \ {handler[v].rev : v \in {v \in Workers : handler[v].pc # "idle"}} :
       handler' = [handler EXCEPT ![w] =
         [pc |-> IF run.completed THEN "enqueue" ELSE "end",
          rev |-> session.rev, snap |-> session, cursor |-> NoTurn]]
  /\ UNCHANGED <<session, nextTurn, run, jobs, completion,
                 age, since, lost, requests, crashes>>

TakeJobOfOpenRun(w) ==
  /\ handler[w].pc = "idle" /\ ~run.completed
  /\ \E rev \in jobs \ {handler[v].rev : v \in {v \in Workers : handler[v].pc # "idle"}} :
       handler' = [handler EXCEPT ![w] =
         [pc |-> "end", rev |-> rev, snap |-> session, cursor |-> NoTurn]]
  /\ UNCHANGED <<session, nextTurn, run, jobs, completion,
                 age, since, lost, requests, crashes>>

\* complete_inactive_text_chat_session, with the revision the sweep saw.
TakeJob(w) ==
  /\ handler[w].pc = "idle"
  /\ \E rev \in jobs \ {handler[v].rev : v \in {v \in Workers : handler[v].pc # "idle"}} :
       handler' = [handler EXCEPT ![w] =
         [pc |-> IF run.completed THEN "enqueue" ELSE "end",
          rev |-> rev, snap |-> session, cursor |-> NoTurn]]
  /\ UNCHANGED <<session, nextTurn, run, jobs, completion,
                 age, since, lost, requests, crashes>>

\* A process dies: the request is gone, ARQ runs the job again.
Crash(h) ==
  /\ handler[h].pc # "idle" /\ crashes < MaxCrashes
  /\ crashes' = crashes + 1
  /\ lost' = (lost \/ (h \in Clients /\ handler[h].pc = "enqueue"))
  /\ Finish(h)
  /\ UNCHANGED <<session, nextTurn, run, jobs, completion, age, since, requests>>

\* Cron is on time, and ARQ serves a job within the tick it was enqueued in.
Tick ==
  /\ jobs = {} /\ since < Interval /\ since' = since + 1
  /\ age' = IF age > Lookback THEN age ELSE age + 1
  /\ UNCHANGED <<session, nextTurn, run, handler, jobs, completion, lost, requests, crashes>>

-----------------------------------------------------------------------------
ChatRequest(c) ==
  \/ LoadAppend(c) \/ LoadRewind(c) \/ LoadEnd(c) \/ LoadEndAgain(c)
  \/ Initialize(c) \/ AppendMessage(c) \/ Rewind(c)
  \/ Reload(c) \/ PendingLost(c) \/ Reply(c) \/ Fail(c) \/ Dispose(c) \/ Record(c)

Settle(h) == Conflict(h) \/ End(h) \/ Enqueue(h)

Next ==
  \/ \E c \in Clients : ChatRequest(c)
  \/ \E w \in Workers : TakeJob(w)
  \/ \E h \in Handlers : Settle(h) \/ Crash(h)
  \/ ProcessCompletion \/ Sweep \/ Tick

Spec == Init /\ [][Next]_vars

\* Processes run, ARQ serves its queue and cron fires; users owe nothing.
FairSpec ==
  /\ Spec
  /\ WF_vars(Tick) /\ WF_vars(Sweep) /\ WF_vars(ProcessCompletion)
  /\ \A w \in Workers : WF_vars(TakeJob(w))
  /\ \A h \in Handlers : WF_vars(Settle(h))

-----------------------------------------------------------------------------
(* Properties.                                                             *)

\* workflow_run_text_session_client.py:162-175: a request that may still write
\* holds the row as it is, so no write undoes one that the writer has not seen,
\* however long the model took.
NoWriteIsBlind ==
  \A h \in Handlers :
    handler[h].pc \in Writing /\ Expects(handler[h].rev) => handler[h].snap = session

\* text_chat_session_service.py:362-386: a turn that was written is in the chat or
\* in discarded_future, once, whatever tabs and widgets send at the same time.
TurnsAreKept ==
  /\ Ids(session.turns) \cup session.discarded = 1 .. nextTurn - 1
  /\ Ids(session.turns) \cap session.discarded = {}
  /\ \A i, j \in DOMAIN session.turns : i < j => session.turns[i].id < session.turns[j].id

\* text_chat_session_service.py:277-333: an answer, or a failure, is the last word
\* on its turn, though two requests can have executed it.
SettledTurnsStay ==
  [][\A i \in DOMAIN session.turns :
       session.turns[i].status # "pending" =>
         \/ \E j \in DOMAIN session'.turns : session'.turns[j] = session.turns[i]
         \/ session.turns[i].id \in session'.discarded]_vars

\* text_chat_inactivity.py:142-143: the sweep ends no chat that became active
\* after it looked.
SweepSparesActive ==
  [][~run.completed /\ run'.disposition = "user_idle_max_duration_exceeded"
       => age >= Timeout]_vars

\* text_chat_session_service.py:244-245: a completed chat gets its integrations and
\* billing, but for a request that dies before it has enqueued the job.
CompletionIsProcessed == run.completed ~> completion = "done" \/ lost

\* constants.py:224-227: a chat that everyone leaves is completed; the sweep meets
\* it once before it is older than the lookback.
AbandonedChatEnds == <>run.completed
=============================================================================
