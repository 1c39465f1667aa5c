---------------------------- MODULE TextChatProofs ----------------------------
(***************************************************************************)
(* What holds of TextChatSession for any number of clients, workers and    *)
(* requests and for any timeouts, when every client sends the revision     *)
(* that it expects.                                                        *)
(***************************************************************************)
EXTENDS TextChatSession, SequenceTheorems, TLAPS

\* useTextChatSession.ts:149 and dograh-widget.js:1992 send expected_revision with
\* every request; the API (routes/workflow_text_chat.py:43) does not insist on it.
ClientsSendRevisions == Guarded

-----------------------------------------------------------------------------
(* The inductive invariant.                                                *)

\* No write and no job is ahead of the row.
RevisionsArePast ==
  /\ \A h \in Handlers : handler[h].pc \in Writing => handler[h].rev \in 0 .. session.rev
  /\ \A rev \in jobs : rev <= session.rev

\* A chat is rewound to one of its turns, or not at all.
CursorIsTurn == session.cursor \in Ids(session.turns) \cup {NoTurn}

\* What a request that has loaded the session will do to it makes sense for it.
RequestsFit ==
  \A h \in Handlers :
    /\ handler[h].pc = "initialize" => handler[h].snap = NewSession
    /\ handler[h].pc = "rewind" =>
         handler[h].cursor \in Ids(handler[h].snap.turns) \cup {NoTurn}

\* A job for the revision of the row is for a chat that is inactive.
JobsAreDue ==
  /\ \A rev \in jobs : rev = session.rev => age >= Timeout
  /\ \A w \in Workers :
       handler[w].pc = "end" /\ handler[w].rev = session.rev => age >= Timeout

\* Only a completed run has a disposition.
OpenRun == ~run.completed => run.disposition = "none"

ChatInv == /\ TypeOK /\ NoWriteIsBlind /\ TurnsAreKept /\ RevisionsArePast
           /\ CursorIsTurn /\ RequestsFit /\ JobsAreDue /\ OpenRun

-----------------------------------------------------------------------------
(* Types.                                                                  *)

LEMMA NewSessionType == NewSession \in Sessions /\ Ids(NewSession.turns) = {}
BY DEF NewSession, Sessions, SessionStatuses, NoTurn, Ids

LEMMA IdleType == Idle \in HandlerStates /\ Idle.pc \notin Writing
BY NewSessionType DEF Idle, HandlerStates, Pcs, Writing, NoTurn

\* A handler takes a new state.
LEMMA HandlerType ==
  ASSUME TypeOK, NEW h \in Handlers, NEW r \in HandlerStates,
         handler' = [handler EXCEPT ![h] = r]
  PROVE  /\ handler' \in [Handlers -> HandlerStates] /\ handler'[h] = r
         /\ \A g \in Handlers \ {h} : handler'[g] = handler[g]
BY DEF TypeOK

\* Goto and Finish leave the handler with nothing to write.
LEMMA GoneOn ==
  ASSUME TypeOK, NEW h \in Handlers,
         \/ Finish(h)
         \/ \E pc \in {"reload", "record", "enqueue"} : Goto(h, pc)
  PROVE  /\ handler' \in [Handlers -> HandlerStates] /\ handler'[h].pc \notin Writing
         /\ \A g \in Handlers \ {h} : handler'[g] = handler[g]
<1>1. CASE Finish(h)
  BY <1>1, IdleType, HandlerType DEF Finish
<1>2. ASSUME NEW pc \in {"reload", "record", "enqueue"}, Goto(h, pc)
      PROVE  /\ handler' \in [Handlers -> HandlerStates] /\ handler'[h].pc \notin Writing
             /\ \A g \in Handlers \ {h} : handler'[g] = handler[g]
  <2> DEFINE r == [Idle EXCEPT !.pc = pc, !.rev = handler[h].rev]
  <2>1. r \in HandlerStates /\ r.pc \notin Writing
    <3>1. handler[h].rev \in Nat \cup {NoRevision}
      BY DEF TypeOK, HandlerStates
    <3> QED BY <3>1, IdleType DEF HandlerStates, Pcs, Writing
  <2>2. handler' = [handler EXCEPT ![h] = r]
    BY <1>2 DEF Goto
  <2> HIDE DEF r
  <2> QED BY <2>1, <2>2, HandlerType
<1> QED BY <1>1, <1>2

LEMMA ChatInvInit == Init => ChatInv
<1> SUFFICES ASSUME Init PROVE ChatInv
  OBVIOUS
<1> DEFINE first == [Idle EXCEPT !.pc = "initialize"]
<1>1. first \in HandlerStates /\ first.snap = NewSession /\ first.rev = 0
  BY IdleType DEF HandlerStates, Idle, Pcs, Writing
<1>2. \A h \in Handlers : handler[h] = first \/ handler[h] = Idle
  BY DEF Init
<1>3. TypeOK
  <2>1. handler \in [Handlers -> HandlerStates]
    BY <1>1, IdleType DEF Init
  <2>2. /\ 0 \in 0 .. Lookback + 1 /\ 0 \in 0 .. Interval
        /\ 0 \in 0 .. MaxRequests /\ 0 \in 0 .. MaxCrashes
    BY TextChatAssumption
  <2>3. /\ run \in [completed : BOOLEAN, state : {"initialized", "running", "completed"},
                    disposition : Dispositions]
        /\ jobs \in SUBSET Nat /\ 1 \in Nat \ {0}
    BY DEF Init, Dispositions
  <2>4. run.completed = FALSE /\ jobs = {} /\ completion = "none" /\ lost = FALSE
    BY DEF Init
  <2> QED BY <2>1, <2>2, <2>3, <2>4, NewSessionType DEF Init, TypeOK
<1>4. session = NewSession /\ NewSession.rev = 0 /\ NewSession.cursor = NoTurn
      /\ NewSession.turns = << >> /\ NewSession.discarded = {}
  BY DEF Init, NewSession
<1>5. NoWriteIsBlind /\ RequestsFit /\ RevisionsArePast /\ JobsAreDue
  <2>1. first.pc = "initialize" /\ Idle.pc = "idle"
    BY DEF Idle
  <2> HIDE DEF first
  <2>2. NoWriteIsBlind /\ RequestsFit
    BY <1>1, <1>2, <1>4, <2>1, IdleType DEF NoWriteIsBlind, RequestsFit, Writing
  <2>3. \A h \in Handlers : handler[h].pc \in Writing => handler[h].rev = 0
    BY <1>1, <1>2, IdleType
  <2>4. jobs = {} /\ 0 \in 0 .. 0
    BY DEF Init
  <2>5. RevisionsArePast
    BY <1>4, <2>3, <2>4 DEF RevisionsArePast
  <2>6. JobsAreDue
    BY <1>2, <2>1, <2>4 DEF JobsAreDue, Handlers
  <2> QED BY <2>2, <2>5, <2>6
<1>6. TurnsAreKept /\ CursorIsTurn /\ OpenRun
  <2>1. 1 .. 1 - 1 = {} /\ Ids(<< >>) = {}
    BY DEF Ids
  <2> QED BY <1>4, <2>1 DEF TurnsAreKept, CursorIsTurn, OpenRun, Init
<1> QED BY <1>3, <1>5, <1>6 DEF ChatInv

-----------------------------------------------------------------------------
(* The two kinds of steps.                                                 *)

\* A step that leaves the row alone: a handler has nothing to write, or what it
\* loaded is the row.
LEMMA RowUntouched ==
  ASSUME ChatInv, TypeOK', session' = session, nextTurn' = nextTurn, age <= age',
         run.completed => run'.completed, run'.disposition = run.disposition,
         \A rev \in jobs' \ jobs : rev = session.rev /\ age >= Timeout,
         \A h \in Handlers :
           \/ handler'[h] = handler[h]
           \/ handler'[h].pc \notin Writing
           \/ /\ handler'[h].pc # "initialize" /\ handler'[h].snap = session
              /\ handler'[h].rev \in 0 .. session.rev
              /\ handler'[h].pc = "rewind" =>
                   handler'[h].cursor \in Ids(session.turns) \cup {NoTurn}
              /\ h \in Workers => handler'[h].rev \in jobs
  PROVE  ChatInv'
<1> USE DEF ChatInv
<1>1. TurnsAreKept' /\ CursorIsTurn' /\ OpenRun'
  BY DEF TurnsAreKept, CursorIsTurn, OpenRun, TypeOK
<1>2. NoWriteIsBlind' /\ RequestsFit'
  BY DEF NoWriteIsBlind, RequestsFit, Expects, Writing
<1>3. RevisionsArePast'
  <2>1. session.rev \in Nat /\ jobs \subseteq Nat
    BY DEF TypeOK, Sessions
  <2>2. \A rev \in jobs' : rev <= session'.rev
    <3>1. \A rev \in jobs : rev <= session'.rev
      BY <2>1 DEF RevisionsArePast
    <3>2. \A rev \in jobs' \ jobs : rev <= session'.rev
      BY <2>1
    <3> QED BY <3>1, <3>2
  <2>3. \A h \in Handlers :
          handler'[h].pc \in Writing => handler'[h].rev \in 0 .. session'.rev
    BY DEF RevisionsArePast
  <2> QED BY <2>2, <2>3 DEF RevisionsArePast
<1>4. JobsAreDue'
  <2>1. age \in Nat /\ age' \in Nat /\ Timeout \in Nat
    BY TextChatAssumption DEF TypeOK
  <2>2. Workers \subseteq Handlers /\ "end" \in Writing
    BY DEF Handlers, Writing
  <2>3. \A rev \in jobs' : rev = session'.rev => age' >= Timeout
    BY <2>1 DEF JobsAreDue
  <2>4. ASSUME NEW w \in Workers, handler'[w].pc = "end", handler'[w].rev = session'.rev
        PROVE  age' >= Timeout
    <3>1. CASE handler'[w] = handler[w]
      BY <2>1, <2>4, <3>1 DEF JobsAreDue
    <3>2. CASE handler'[w].rev \in jobs
      BY <2>1, <2>4, <3>2 DEF JobsAreDue
    <3> QED BY <2>2, <2>4, <3>1, <3>2
  <2> QED BY <2>3, <2>4 DEF JobsAreDue
<1> QED BY <1>1, <1>2, <1>3, <1>4

\* A step that writes the row: no other handler can write any more.
LEMMA RowWritten ==
  ASSUME ChatInv, TypeOK', TurnsAreKept', CursorIsTurn', OpenRun', jobs' \subseteq jobs,
         session'.rev = session.rev + 1, NEW h \in Handlers,
         handler'[h].pc \notin Writing,
         \A g \in Handlers \ {h} : handler'[g] = handler[g]
  PROVE  ChatInv'
<1>1. session.rev \in Nat /\ jobs \subseteq Nat
  BY DEF ChatInv, TypeOK, Sessions
<1>2. ASSUME NEW g \in Handlers, handler'[g].pc \in Writing
      PROVE  /\ handler'[g] = handler[g] /\ handler'[g].rev \in 0 .. session.rev
             /\ handler'[g].rev # session'.rev /\ handler'[g].rev # NoRevision
  BY <1>1, <1>2, TextChatAssumption DEF ChatInv, RevisionsArePast
<1>3. NoWriteIsBlind'
  BY <1>2 DEF NoWriteIsBlind, Expects
<1>4. RequestsFit'
  BY <1>2 DEF ChatInv, RequestsFit, Writing
<1>5. RevisionsArePast'
  BY <1>1, <1>2 DEF ChatInv, RevisionsArePast
<1>6. JobsAreDue'
  <2>1. Workers \subseteq Handlers /\ "end" \in Writing
    BY DEF Handlers, Writing
  <2> QED BY <1>1, <1>2, <2>1 DEF ChatInv, RevisionsArePast, JobsAreDue
<1> QED BY <1>3, <1>4, <1>5, <1>6 DEF ChatInv

-----------------------------------------------------------------------------
(* The steps that write the row.                                           *)

\* A handler that is about to write holds the row.
LEMMA WriterHoldsRow ==
  ASSUME ChatInv, NEW h \in Handlers, handler[h].pc \in Writing, Expects(handler[h].rev)
  PROVE  handler[h].snap = session
BY DEF ChatInv, NoWriteIsBlind

\* The turns up to the cursor are the first ones of the chat.
LEMMA ActiveIsPrefix ==
  ASSUME NEW s \in Sessions, s.cursor \in Ids(s.turns) \cup {NoTurn}
  PROVE  /\ Active(s) \in Seq(Turns) /\ Len(Active(s)) <= Len(s.turns)
         /\ \A i \in 1 .. Len(Active(s)) : Active(s)[i] = s.turns[i]
<1>1. s.turns \in Seq(Turns)
  BY DEF Sessions
<1>2. CASE s.cursor = NoTurn
  BY <1>1, <1>2 DEF Active
<1>3. CASE s.cursor # NoTurn
  <2> DEFINE k == CHOOSE i \in DOMAIN s.turns : s.turns[i].id = s.cursor
  <2>1. k \in DOMAIN s.turns
    BY <1>3 DEF Ids
  <2>2. k \in 1 .. Len(s.turns)
    BY <2>1, <1>1
  <2>3. Active(s) = SubSeq(s.turns, 1, k)
    BY <1>3 DEF Active
  <2> HIDE DEF k
  <2> QED BY <1>1, <2>2, <2>3
<1> QED BY <1>2, <1>3

\* A turn is added to the first turns of a chat, and the others are discarded.
LEMMA TurnAdded ==
  ASSUME ChatInv, NEW h \in Handlers, handler[h].snap = session,
         NEW turns \in Seq(Turns), Len(turns) <= Len(session.turns),
         \A i \in 1 .. Len(turns) : turns[i] = session.turns[i],
         AddPending(h, turns, session.discarded \cup (Ids(session.turns) \ Ids(turns)))
  PROVE  ChatInv'
<1> DEFINE turn == [id |-> nextTurn, status |-> "pending"]
<1> DEFINE after == Append(turns, turn)
<1> DEFINE gone == session.discarded \cup (Ids(session.turns) \ Ids(turns))
<1>1. /\ session \in Sessions /\ session.rev \in Nat /\ session.turns \in Seq(Turns)
      /\ session.discarded \in SUBSET (Nat \ {0}) /\ nextTurn \in Nat \ {0}
  BY DEF ChatInv, TypeOK, Sessions
<1>2. /\ session' = [session EXCEPT !.turns = after, !.status = "pending_assistant_turn",
                                    !.cursor = NoTurn, !.discarded = gone,
                                    !.rev = session.rev + 1]
      /\ age' = 0 /\ nextTurn' = nextTurn + 1
  BY DEF AddPending, Write
<1>3. turn \in Turns /\ turn.id = nextTurn
  BY <1>1 DEF Turns, TurnStatuses
<1>4. /\ after \in Seq(Turns) /\ Len(after) = Len(turns) + 1
      /\ \A i \in 1 .. Len(turns) : after[i] = turns[i]
      /\ after[Len(turns) + 1] = turn
  BY <1>3, AppendProperties
<1>5. Ids(turns) \subseteq Ids(session.turns)
  BY <1>1 DEF Ids
<1>6. Ids(session.turns) \subseteq Nat \ {0}
  <2>1. \A i \in DOMAIN session.turns : session.turns[i] \in Turns
    BY <1>1
  <2> QED BY <2>1 DEF Ids, Turns
<1>7. Ids(after) = Ids(turns) \cup {nextTurn}
  <2>1. DOMAIN after = 1 .. Len(turns) + 1 /\ DOMAIN turns = 1 .. Len(turns) /\ Len(turns) \in Nat
    BY <1>4
  <2>2. 1 .. Len(turns) + 1 = (1 .. Len(turns)) \cup {Len(turns) + 1}
    BY <2>1
  <2> HIDE DEF after, turn
  <2> QED BY <1>3, <1>4, <2>1, <2>2 DEF Ids
<1>8. gone \in SUBSET (Nat \ {0})
  BY <1>1, <1>6
<1> HIDE DEF turn, after, gone
<1>9. session' \in Sessions /\ session'.rev = session.rev + 1
      /\ session'.turns = after /\ session'.discarded = gone /\ session'.cursor = NoTurn
  <2>1. session.rev + 1 \in Nat /\ "pending_assistant_turn" \in SessionStatuses /\ NoTurn \in Nat
    BY <1>1 DEF SessionStatuses, NoTurn
  <2> QED BY <1>1, <1>2, <1>4, <1>8, <2>1 DEF Sessions
<1>10. TurnsAreKept'
  <2>1. /\ Ids(session.turns) \cup session.discarded = 1 .. nextTurn - 1
        /\ Ids(session.turns) \cap session.discarded = {}
    BY DEF ChatInv, TurnsAreKept
  <2>2. 1 .. (nextTurn + 1) - 1 = (1 .. nextTurn - 1) \cup {nextTurn}
    BY <1>1
  <2>3. nextTurn \notin 1 .. nextTurn - 1
    BY <1>1
  <2>4. Ids(after) \cup gone = 1 .. nextTurn' - 1
    BY <1>2, <1>5, <1>7, <2>1, <2>2 DEF gone
  <2>5. Ids(after) \cap gone = {}
    BY <1>5, <1>7, <2>1, <2>3 DEF gone
  <2>6. ASSUME NEW i \in DOMAIN after, NEW j \in DOMAIN after, i < j
        PROVE  after[i].id < after[j].id
    <3>1. i \in 1 .. Len(turns) /\ j \in 1 .. Len(turns) + 1
      BY <1>4, <2>6
    <3>2. i \in 1 .. Len(session.turns) /\ after[i] = session.turns[i]
      BY <3>1, <1>1, <1>4
    <3>3. CASE j \in 1 .. Len(turns)
      <4>1. j \in 1 .. Len(session.turns) /\ after[j] = session.turns[j]
        BY <3>3, <1>1, <1>4
      <4> QED BY <3>2, <4>1, <2>6, <1>1 DEF ChatInv, TurnsAreKept
    <3>4. CASE j = Len(turns) + 1
      <4>1. after[j].id = nextTurn
        BY <3>4, <1>3, <1>4
      <4>2. session.turns[i].id \in 1 .. nextTurn - 1
        BY <3>2, <2>1, <1>1 DEF Ids
      <4> QED BY <3>2, <4>1, <4>2, <1>1
    <3> QED BY <3>1, <3>3, <3>4
  <2> QED BY <1>9, <2>4, <2>5, <2>6 DEF TurnsAreKept
<1>11. /\ handler' \in [Handlers -> HandlerStates] /\ handler'[h].pc \notin Writing
       /\ \A g \in Handlers \ {h} : handler'[g] = handler[g]
  <2>1. Goto(h, "reload") /\ TypeOK
    BY DEF AddPending, ChatInv
  <2> QED BY <2>1, GoneOn
<1>12. TypeOK'
  <2>1. 0 \in 0 .. Lookback + 1 /\ nextTurn + 1 \in Nat \ {0}
    BY <1>1, TextChatAssumption
  <2> QED BY <1>2, <1>9, <1>11, <2>1 DEF AddPending, ChatInv, TypeOK
<1>13. CursorIsTurn' /\ OpenRun' /\ jobs' \subseteq jobs
  BY <1>9 DEF AddPending, ChatInv, CursorIsTurn, OpenRun
<1> QED BY <1>9, <1>10, <1>11, <1>12, <1>13, RowWritten

\* The first turn, and a message.
LEMMA TurnSteps ==
  ASSUME ChatInv, NEW c \in Clients, Initialize(c) \/ AppendMessage(c)
  PROVE  ChatInv'
<1>1. c \in Handlers
  BY DEF Handlers
<1>2. handler[c].snap = session
  BY <1>1, WriterHoldsRow DEF Initialize, AppendMessage, Writing
<1>3. session \in Sessions /\ session.cursor \in Ids(session.turns) \cup {NoTurn}
  BY DEF ChatInv, TypeOK, CursorIsTurn
<1>4. CASE Initialize(c)
  <2>1. session = NewSession
    BY <1>1, <1>2, <1>4 DEF Initialize, ChatInv, RequestsFit
  <2>2. session.turns = << >> /\ Ids(session.turns) = {}
    BY <2>1, NewSessionType DEF NewSession
  <2>3. << >> \in Seq(Turns) /\ Len(<< >>) = 0 /\ Ids(<< >>) = {}
    BY <2>2
  <2>4. session.discarded \cup (Ids(session.turns) \ Ids(<< >>)) = session.discarded
    BY <2>2
  <2>5. AddPending(c, << >>, session.discarded \cup (Ids(session.turns) \ Ids(<< >>)))
    BY <1>2, <1>4, <2>4 DEF Initialize
  <2>6. Len(<< >>) <= Len(session.turns) /\ \A i \in 1 .. Len(<< >>) : << >>[i] = session.turns[i]
    BY <2>2, <2>3
  <2> QED BY <1>1, <1>2, <2>3, <2>5, <2>6, TurnAdded
<1>5. CASE AppendMessage(c)
  <2>1. AddPending(c, Active(session),
                   session.discarded \cup (Ids(session.turns) \ Ids(Active(session))))
    BY <1>2, <1>5 DEF AppendMessage
  <2> QED BY <1>1, <1>2, <1>3, <2>1, ActiveIsPrefix, TurnAdded
<1> QED BY <1>4, <1>5

\* A write that keeps the turns, up to their status, and what was discarded.
LEMMA TurnsUnmoved ==
  ASSUME ChatInv, NEW h \in Handlers, NEW new \in Sessions, Write(new),
         new.discarded = session.discarded, Len(new.turns) = Len(session.turns),
         \A i \in 1 .. Len(session.turns) : new.turns[i].id = session.turns[i].id,
         new.cursor \in Ids(session.turns) \cup {NoTurn},
         TypeOK /\ session' \in Sessions /\ age' = 0 => TypeOK', OpenRun',
         nextTurn' = nextTurn, jobs' \subseteq jobs, handler'[h].pc \notin Writing,
         \A g \in Handlers \ {h} : handler'[g] = handler[g]
  PROVE  ChatInv'
<1>1. session.rev \in Nat /\ session.turns \in Seq(Turns) /\ new.turns \in Seq(Turns)
  BY DEF ChatInv, TypeOK, Sessions
<1>2. session' \in Sessions /\ session'.rev = session.rev + 1
      /\ session'.turns = new.turns /\ session'.discarded = new.discarded
      /\ session'.cursor = new.cursor /\ age' = 0
  <2>1. session' = [new EXCEPT !.rev = session.rev + 1] /\ age' = 0
    BY DEF Write
  <2>2. session.rev + 1 \in Nat
    BY <1>1
  <2> QED BY <2>1, <2>2 DEF Sessions
<1>3. DOMAIN new.turns = 1 .. Len(session.turns) /\ DOMAIN session.turns = 1 .. Len(session.turns)
  BY <1>1
<1>4. Ids(new.turns) = Ids(session.turns)
  BY <1>3 DEF Ids
<1>5. TurnsAreKept'
  BY <1>2, <1>3, <1>4 DEF ChatInv, TurnsAreKept
<1>6. CursorIsTurn'
  BY <1>2, <1>4 DEF CursorIsTurn
<1> QED BY <1>2, <1>5, <1>6, RowWritten DEF ChatInv

\* The last turn is settled.
LEMMA SettledTurns ==
  ASSUME NEW s \in Sessions, HasPending(s), NEW turnStatus \in TurnStatuses,
         NEW status \in SessionStatuses
  PROVE  LET new == Settled(s, turnStatus, status) IN
         /\ new \in Sessions /\ new.discarded = s.discarded /\ new.cursor = s.cursor
         /\ Len(new.turns) = Len(s.turns)
         /\ \A i \in 1 .. Len(s.turns) :
              /\ new.turns[i].id = s.turns[i].id
              /\ i # Len(s.turns) => new.turns[i] = s.turns[i]
<1> DEFINE n == Len(s.turns)
<1> DEFINE after == [s.turns EXCEPT ![n].status = turnStatus]
<1>1. s.turns \in Seq(Turns) /\ n \in Nat /\ n # 0
  BY DEF HasPending, Sessions
<1>2. \A i \in 1 .. n : s.turns[i] \in Turns
  BY <1>1
<1>3. [s.turns[n] EXCEPT !.status = turnStatus] \in Turns
      /\ [s.turns[n] EXCEPT !.status = turnStatus].id = s.turns[n].id
  BY <1>1, <1>2 DEF Turns
<1>4. /\ after \in Seq(Turns) /\ Len(after) = n
      /\ \A i \in 1 .. n : /\ after[i].id = s.turns[i].id
                           /\ i # n => after[i] = s.turns[i]
  <2>1. after = [i \in 1 .. n |-> IF i = n THEN [s.turns[n] EXCEPT !.status = turnStatus]
                                  ELSE s.turns[i]]
    BY <1>1
  <2>2. \A i \in 1 .. n : after[i] \in Turns
    BY <1>2, <1>3, <2>1
  <2>3. after \in [1 .. n -> Turns]
    BY <2>1, <2>2
  <2>4. after \in Seq(Turns) /\ Len(after) = n
    BY <2>3, <1>1
  <2> QED BY <1>3, <2>1, <2>4
<1>5. Settled(s, turnStatus, status) = [s EXCEPT !.turns = after, !.status = status]
  BY <1>1 DEF Settled, Sessions
<1> HIDE DEF after
<1> QED BY <1>4, <1>5 DEF Sessions

\* A request that is rewound, answered or failed.
LEMMA RequestWrites ==
  ASSUME ChatInv, NEW c \in Clients, Rewind(c) \/ Reply(c) \/ Fail(c)
  PROVE  ChatInv'
<1>1. c \in Handlers
  BY DEF Handlers
<1>2. handler[c].snap = session
  BY <1>1, WriterHoldsRow DEF Rewind, Reply, Fail, Executed, Writing
<1>3. /\ TypeOK /\ session \in Sessions /\ session.turns \in Seq(Turns)
      /\ session.cursor \in Ids(session.turns) \cup {NoTurn}
  BY DEF ChatInv, TypeOK, CursorIsTurn, Sessions
<1>4. OpenRun' /\ nextTurn' = nextTurn /\ jobs' \subseteq jobs
  BY DEF Rewind, Reply, Fail, ChatInv, OpenRun
<1>5. Finish(c) \/ \E pc \in {"reload", "record", "enqueue"} : Goto(c, pc)
  BY DEF Rewind, Reply, Fail
<1>6. /\ handler' \in [Handlers -> HandlerStates] /\ handler'[c].pc \notin Writing
      /\ \A g \in Handlers \ {c} : handler'[g] = handler[g]
  BY <1>1, <1>3, <1>5, GoneOn
<1>7. TypeOK /\ session' \in Sessions /\ age' = 0 => TypeOK'
  <2>1. 0 \in 0 .. Lookback + 1
    BY TextChatAssumption
  <2> QED BY <1>6, <2>1 DEF Rewind, Reply, Fail, TypeOK
<1>8. CASE Rewind(c)
  <2> DEFINE new == [session EXCEPT !.cursor = handler[c].cursor,
                       !.status = IF handler[c].cursor = NoTurn THEN "idle" ELSE "rewound"]
  <2>1. handler[c].cursor \in Ids(session.turns) \cup {NoTurn} /\ handler[c].cursor \in Nat
    BY <1>1, <1>2, <1>8 DEF Rewind, ChatInv, RequestsFit, TypeOK, HandlerStates
  <2>2. /\ new \in Sessions /\ new.turns = session.turns
        /\ new.discarded = session.discarded /\ new.cursor = handler[c].cursor
    BY <1>3, <2>1 DEF Sessions, SessionStatuses
  <2>3. Write(new)
    BY <1>2, <1>8 DEF Rewind
  <2> HIDE DEF new
  <2> QED BY <1>1, <1>3, <1>4, <1>6, <1>7, <2>1, <2>2, <2>3, TurnsUnmoved
<1>9. ASSUME NEW turnStatus \in TurnStatuses, NEW status \in SessionStatuses,
             HasPending(session), Write(Settled(session, turnStatus, status))
      PROVE  ChatInv'
  <2> DEFINE new == Settled(session, turnStatus, status)
  <2>1. /\ new \in Sessions /\ new.discarded = session.discarded
        /\ new.cursor = session.cursor /\ Len(new.turns) = Len(session.turns)
        /\ \A i \in 1 .. Len(session.turns) : new.turns[i].id = session.turns[i].id
    BY <1>3, <1>9, SettledTurns
  <2>2. Write(new)
    BY <1>9
  <2> HIDE DEF new
  <2> QED BY <1>1, <1>3, <1>4, <1>6, <1>7, <2>1, <2>2, TurnsUnmoved
<1>10. CASE Reply(c) \/ Fail(c)
  <2>1. HasPending(session)
    BY <1>2, <1>10 DEF Reply, Fail, Executed
  <2>2. /\ Reply(c) => Write(Settled(session, "completed", "idle"))
        /\ Fail(c) => Write(Settled(session, "failed", "error"))
    BY <1>2 DEF Reply, Fail
  <2>3. {"completed", "failed"} \subseteq TurnStatuses /\ {"idle", "error"} \subseteq SessionStatuses
    BY DEF TurnStatuses, SessionStatuses
  <2> QED BY <1>9, <1>10, <2>1, <2>2, <2>3
<1> QED BY <1>8, <1>10

\* The end of the chat, by the agent, a request or a job.
LEMMA ChatEnds ==
  ASSUME ChatInv, NEW h \in Handlers, (h \in Clients /\ Dispose(h)) \/ End(h)
  PROVE  ChatInv'
<1>1. handler[h].snap = session
  BY WriterHoldsRow DEF Dispose, End, Complete, Executed, Writing
<1>2. /\ TypeOK /\ session \in Sessions /\ session.turns \in Seq(Turns)
      /\ session.cursor \in Ids(session.turns) \cup {NoTurn}
  BY DEF ChatInv, TypeOK, CursorIsTurn, Sessions
<1>3. PICK new \in Sessions, disposition \in Dispositions :
        /\ Complete(h, new, disposition) /\ new.discarded = session.discarded
        /\ new.cursor = session.cursor /\ Len(new.turns) = Len(session.turns)
        /\ \A i \in 1 .. Len(session.turns) : new.turns[i].id = session.turns[i].id
  <2>1. CASE Dispose(h)
    <3> DEFINE new == Settled(session, "completed", "completed")
    <3>1. HasPending(session) /\ "completed" \in TurnStatuses /\ "completed" \in SessionStatuses
      BY <1>1, <2>1 DEF Dispose, Executed, TurnStatuses, SessionStatuses
    <3>2. /\ new \in Sessions /\ new.discarded = session.discarded
          /\ new.cursor = session.cursor /\ Len(new.turns) = Len(session.turns)
          /\ \A i \in 1 .. Len(session.turns) : new.turns[i].id = session.turns[i].id
      BY <1>2, <3>1, SettledTurns
    <3>3. Complete(h, new, "agent") /\ "agent" \in Dispositions
      BY <1>1, <2>1 DEF Dispose, Dispositions
    <3> HIDE DEF new
    <3> QED BY <3>2, <3>3
  <2>2. CASE End(h)
    <3> DEFINE new == [session EXCEPT !.status = "completed"]
    <3>1. /\ new \in Sessions /\ new.discarded = session.discarded
          /\ new.cursor = session.cursor /\ new.turns = session.turns
      BY <1>2 DEF Sessions, SessionStatuses
    <3>2. PICK disposition \in Dispositions : Complete(h, new, disposition)
      BY <1>1, <2>2 DEF End, Dispositions
    <3> HIDE DEF new
    <3> QED BY <3>1, <3>2
  <2> QED BY <2>1, <2>2
<1>4. /\ Write(new) /\ Goto(h, "enqueue") /\ nextTurn' = nextTurn /\ jobs' = jobs
      /\ run' = [completed |-> TRUE, state |-> "completed", disposition |-> disposition]
  BY <1>3 DEF Complete
<1>5. /\ handler' \in [Handlers -> HandlerStates] /\ handler'[h].pc \notin Writing
      /\ \A g \in Handlers \ {h} : handler'[g] = handler[g]
  BY <1>2, <1>4, GoneOn
<1>6. TypeOK /\ session' \in Sessions /\ age' = 0 => TypeOK'
  <2>1. 0 \in 0 .. Lookback + 1
    BY TextChatAssumption
  <2> QED BY <1>3, <1>4, <1>5, <2>1 DEF Complete, TypeOK
<1>7. OpenRun'
  BY <1>4 DEF OpenRun
<1> QED BY <1>2, <1>3, <1>4, <1>5, <1>6, <1>7, TurnsUnmoved

-----------------------------------------------------------------------------
(* The steps that leave the row alone.                                     *)

\* A handler that goes on without having loaded anything to write.
LEMMA HandlerGoesOn ==
  ASSUME ChatInv, NEW h \in Handlers,
         \/ h \in Clients /\ (LoadEndAgain(h) \/ PendingLost(h) \/ Record(h))
         \/ Conflict(h) \/ Enqueue(h) \/ Crash(h)
  PROVE  ChatInv'
<1>1. /\ TypeOK /\ session' = session /\ nextTurn' = nextTurn /\ age' = age
      /\ jobs' \subseteq jobs
  BY DEF ChatInv, LoadEndAgain, PendingLost, Record, Conflict, Enqueue, Crash, Done
<1>2. Finish(h) \/ \E pc \in {"reload", "record", "enqueue"} : Goto(h, pc)
  BY DEF LoadEndAgain, PendingLost, Record, Conflict, Enqueue, Crash, Done
<1>3. /\ handler' \in [Handlers -> HandlerStates] /\ handler'[h].pc \notin Writing
      /\ \A g \in Handlers \ {h} : handler'[g] = handler[g]
  BY <1>1, <1>2, GoneOn
<1>4. /\ run' \in [completed : BOOLEAN, state : {"initialized", "running", "completed"},
                   disposition : Dispositions]
      /\ run'.completed = run.completed /\ run'.disposition = run.disposition
  BY <1>1 DEF TypeOK, LoadEndAgain, PendingLost, Record, Conflict, Enqueue, Crash
<1>5. requests' \in 0 .. MaxRequests /\ crashes' \in 0 .. MaxCrashes
  <2>1. requests' = requests \/ (requests < MaxRequests /\ requests' = requests + 1)
    BY DEF LoadEndAgain, Request, PendingLost, Record, Conflict, Enqueue, Crash
  <2>2. crashes' = crashes \/ (crashes < MaxCrashes /\ crashes' = crashes + 1)
    BY DEF LoadEndAgain, PendingLost, Record, Conflict, Enqueue, Crash
  <2> QED BY <1>1, <2>1, <2>2, TextChatAssumption DEF TypeOK
<1>6. lost' \in BOOLEAN /\ completion' \in {"none", "queued", "done"} /\ since' = since
  BY <1>1 DEF TypeOK, LoadEndAgain, PendingLost, Record, Conflict, Enqueue, Crash
<1>7. TypeOK'
  BY <1>1, <1>3, <1>4, <1>5, <1>6 DEF TypeOK
<1>8. age \in Nat
  BY <1>1, TextChatAssumption DEF TypeOK
<1> QED BY <1>1, <1>3, <1>4, <1>7, <1>8, RowUntouched

\* A handler that loads the row: a request, a reload, or a job.
LEMMA RowLoaded ==
  ASSUME ChatInv, ClientsSendRevisions, NEW h \in Handlers, NEW r \in HandlerStates,
         handler' = [handler EXCEPT ![h] = r],
         UNCHANGED <<session, nextTurn, run, jobs, completion, age, since, lost, crashes>>,
         requests' \in 0 .. MaxRequests,
         \/ r.pc \notin Writing
         \/ /\ r.pc # "initialize" /\ r.snap = session /\ r.rev \in 0 .. session.rev
            /\ r.pc = "rewind" => r.cursor \in Ids(session.turns) \cup {NoTurn}
            /\ h \in Workers => r.rev \in jobs
  PROVE  ChatInv'
<1>1. /\ handler' \in [Handlers -> HandlerStates] /\ handler'[h] = r
      /\ \A g \in Handlers \ {h} : handler'[g] = handler[g]
  BY HandlerType DEF ChatInv
<1>2. TypeOK'
  BY <1>1 DEF ChatInv, TypeOK
<1>3. age \in Nat
  BY TextChatAssumption DEF ChatInv, TypeOK
<1> QED BY <1>1, <1>2, <1>3, RowUntouched

LEMMA RequestLoads ==
  ASSUME ChatInv, ClientsSendRevisions, NEW c \in Clients,
         LoadAppend(c) \/ LoadRewind(c) \/ LoadEnd(c)
  PROVE  ChatInv'
<1>1. c \in Handlers /\ c \notin Workers
  BY TextChatAssumption DEF Handlers
<1>2. session \in Sessions /\ session.rev \in Nat /\ requests \in 0 .. MaxRequests
  BY DEF ChatInv, TypeOK, Sessions
<1>3. PICK pc \in {"append", "rewind", "end"}, cursor \in Ids(session.turns) \cup {NoTurn} :
        Load(c, pc, cursor)
  BY DEF LoadAppend, LoadRewind, LoadEnd
<1> DEFINE r == [pc |-> pc, rev |-> session.rev, snap |-> session, cursor |-> cursor]
<1>4. /\ handler' = [handler EXCEPT ![c] = r]
      /\ UNCHANGED <<session, nextTurn, run, jobs, completion, age, since, lost, crashes>>
  <2>1. Expected = {session.rev}
    BY DEF Expected, ClientsSendRevisions
  <2> QED BY <1>3, <2>1 DEF Load
<1>5. cursor \in Nat
  <2>1. \A i \in DOMAIN session.turns : session.turns[i] \in Turns
    BY <1>2 DEF Sessions
  <2>2. \A i \in DOMAIN session.turns : session.turns[i].id \in Nat
    BY <2>1 DEF Turns
  <2> QED BY <2>2 DEF Ids, NoTurn
<1>6. r \in HandlerStates /\ r.pc # "initialize" /\ r.snap = session
      /\ r.rev \in 0 .. session.rev /\ r.cursor = cursor
  BY <1>2, <1>5 DEF HandlerStates, Pcs, Writing
<1>7. requests' \in 0 .. MaxRequests
  BY <1>2, <1>3, TextChatAssumption DEF Load, Request
<1> HIDE DEF r
<1> QED BY <1>1, <1>4, <1>6, <1>7, RowLoaded

LEMMA Reloads ==
  ASSUME ChatInv, ClientsSendRevisions, NEW c \in Clients, Reload(c)
  PROVE  ChatInv'
<1>1. c \in Handlers /\ c \notin Workers
  BY TextChatAssumption DEF Handlers
<1>2. session \in Sessions /\ session.rev \in Nat /\ handler[c] \in HandlerStates
  BY <1>1 DEF ChatInv, TypeOK, Sessions
<1> DEFINE r == [handler[c] EXCEPT !.pc = "execute", !.rev = session.rev, !.snap = session]
<1>3. r \in HandlerStates /\ r.pc = "execute" /\ r.snap = session /\ r.rev \in 0 .. session.rev
  <2>1. "execute" \in Pcs /\ session.rev \in Nat \cup {NoRevision}
    BY <1>2 DEF Pcs, Writing
  <2>2. r \in HandlerStates
    BY <1>2, <2>1 DEF HandlerStates
  <2>3. r.pc = "execute" /\ r.snap = session /\ r.rev = session.rev
    BY <1>2 DEF HandlerStates
  <2> QED BY <1>2, <2>2, <2>3
<1>4. /\ handler' = [handler EXCEPT ![c] = r] /\ requests' \in 0 .. MaxRequests
      /\ UNCHANGED <<session, nextTurn, run, jobs, completion, age, since, lost, crashes>>
  BY DEF Reload, ChatInv, TypeOK
<1> HIDE DEF r
<1> QED BY <1>1, <1>3, <1>4, RowLoaded

LEMMA JobTaken ==
  ASSUME ChatInv, ClientsSendRevisions, NEW w \in Workers, TakeJob(w)
  PROVE  ChatInv'
<1>1. w \in Handlers
  BY DEF Handlers
<1>2. session \in Sessions /\ session.rev \in Nat /\ jobs \subseteq Nat
  BY DEF ChatInv, TypeOK, Sessions
<1>3. PICK rev \in jobs :
        handler' = [handler EXCEPT ![w] =
          [pc |-> IF run.completed THEN "enqueue" ELSE "end",
           rev |-> rev, snap |-> session, cursor |-> NoTurn]]
  BY DEF TakeJob
<1> DEFINE r == [pc |-> IF run.completed THEN "enqueue" ELSE "end",
                 rev |-> rev, snap |-> session, cursor |-> NoTurn]
<1>4. r \in HandlerStates /\ r.pc \in {"enqueue", "end"} /\ r.snap = session /\ r.rev = rev
  BY <1>2 DEF HandlerStates, Pcs, Writing, NoTurn
<1>5. rev \in 0 .. session.rev
  BY <1>2 DEF ChatInv, RevisionsArePast
<1>6. /\ handler' = [handler EXCEPT ![w] = r] /\ requests' \in 0 .. MaxRequests
      /\ UNCHANGED <<session, nextTurn, run, jobs, completion, age, since, lost, crashes>>
  BY <1>3 DEF TakeJob, ChatInv, TypeOK
<1> HIDE DEF r
<1> QED BY <1>1, <1>4, <1>5, <1>6, RowLoaded

\* The sweep enqueues a job for a chat that has been inactive for the timeout.
LEMMA TimePasses ==
  ASSUME ChatInv, Sweep \/ Tick \/ ProcessCompletion
  PROVE  ChatInv'
<1>1. /\ TypeOK /\ session' = session /\ nextTurn' = nextTurn /\ run' = run
      /\ handler' = handler
  BY DEF ChatInv, Sweep, Tick, ProcessCompletion
<1>2. age \in Nat /\ age <= age' /\ age' \in 0 .. Lookback + 1
  BY <1>1, TextChatAssumption DEF TypeOK, Sweep, Tick, ProcessCompletion
<1>3. session.rev \in Nat
  BY <1>1 DEF TypeOK, Sessions
<1>4. jobs' \in SUBSET Nat /\ \A rev \in jobs' \ jobs : rev = session.rev /\ age >= Timeout
  <2>1. jobs' = jobs \/ (jobs' = jobs \cup {session.rev} /\ age >= Timeout)
    BY <1>2, TextChatAssumption DEF Sweep, Tick, ProcessCompletion
  <2> QED BY <1>1, <1>3, <2>1 DEF TypeOK
<1>5. since' \in 0 .. Interval
  BY <1>1, TextChatAssumption DEF TypeOK, Sweep, Tick, ProcessCompletion
<1>6. TypeOK'
  BY <1>1, <1>2, <1>4, <1>5 DEF TypeOK, Sweep, Tick, ProcessCompletion
<1> QED BY <1>1, <1>2, <1>4, <1>6, RowUntouched

LEMMA ChatInvStep == ClientsSendRevisions /\ ChatInv /\ [Next]_vars => ChatInv'
<1> SUFFICES ASSUME ClientsSendRevisions, ChatInv, [Next]_vars PROVE ChatInv'
  OBVIOUS
<1>1. CASE \E c \in Clients : ChatRequest(c)
  <2>1. PICK c \in Clients : ChatRequest(c)
    BY <1>1
  <2>2. c \in Handlers
    BY DEF Handlers
  <2> QED BY <2>1, <2>2, RequestLoads, Reloads, TurnSteps, RequestWrites, ChatEnds, HandlerGoesOn
          DEF ChatRequest
<1>2. CASE \E w \in Workers : TakeJob(w)
  BY <1>2, JobTaken
<1>3. CASE \E h \in Handlers : Settle(h) \/ Crash(h)
  BY <1>3, HandlerGoesOn, ChatEnds DEF Settle
<1>4. CASE ProcessCompletion \/ Sweep \/ Tick
  BY <1>4, TimePasses
<1>5. CASE UNCHANGED vars
  BY <1>5 DEF vars, ChatInv, TypeOK, NoWriteIsBlind, Expects, TurnsAreKept, RevisionsArePast,
              CursorIsTurn, RequestsFit, JobsAreDue, OpenRun
<1> QED BY <1>1, <1>2, <1>3, <1>4, <1>5 DEF Next

LEMMA ChatInvAlways ==
  ASSUME ClientsSendRevisions
  PROVE  Spec => []ChatInv
<1>1. ChatInv /\ [Next]_vars => ChatInv'
  BY ChatInvStep
<1> QED BY <1>1, ChatInvInit, PTL DEF Spec

-----------------------------------------------------------------------------
(* The theorems.                                                           *)

\* The row, the run, the requests and the jobs keep their types.
THEOREM ChatTypes ==
  ASSUME ClientsSendRevisions
  PROVE  Spec => []TypeOK
<1>1. ChatInv => TypeOK
  BY DEF ChatInv
<1> QED BY <1>1, ChatInvAlways, PTL

\* The compare-and-write of update_workflow_run_text_session: who writes has seen
\* the row as it is.
THEOREM WritersHaveSeenTheRow ==
  ASSUME ClientsSendRevisions
  PROVE  Spec => []NoWriteIsBlind
<1>1. ChatInv => NoWriteIsBlind
  BY DEF ChatInv
<1> QED BY <1>1, ChatInvAlways, PTL

\* No turn of a chat is lost or doubled, whoever else writes to it.
THEOREM NoTurnIsLost ==
  ASSUME ClientsSendRevisions
  PROVE  Spec => []TurnsAreKept
<1>1. ChatInv => TurnsAreKept
  BY DEF ChatInv
<1> QED BY <1>1, ChatInvAlways, PTL

\* Only a write changes the row, and it is made by a handler that holds it.
LEMMA StepKeepsSettled ==
  ASSUME ClientsSendRevisions, ChatInv, Next,
         NEW i \in DOMAIN session.turns, session.turns[i].status # "pending"
  PROVE  \/ \E j \in DOMAIN session'.turns : session'.turns[j] = session.turns[i]
         \/ session.turns[i].id \in session'.discarded
<1>1. /\ session \in Sessions /\ session.turns \in Seq(Turns) /\ i \in 1 .. Len(session.turns)
      /\ session.cursor \in Ids(session.turns) \cup {NoTurn}
  BY DEF ChatInv, TypeOK, CursorIsTurn, Sessions
<1>2. CASE session' = session
  BY <1>2
<1>3. ASSUME NEW h \in Handlers, handler[h].snap = session, AppendMessage(h)
      PROVE  \/ \E j \in DOMAIN session'.turns : session'.turns[j] = session.turns[i]
             \/ session.turns[i].id \in session'.discarded
  <2> DEFINE kept == Active(session)
  <2> DEFINE turn == [id |-> nextTurn, status |-> "pending"]
  <2>1. /\ kept \in Seq(Turns) /\ Len(kept) <= Len(session.turns)
        /\ \A j \in 1 .. Len(kept) : kept[j] = session.turns[j]
    BY <1>1, ActiveIsPrefix
  <2>2. /\ session'.turns = Append(kept, turn)
        /\ session'.discarded = session.discarded \cup (Ids(session.turns) \ Ids(kept))
    BY <1>1, <1>3 DEF AppendMessage, AddPending, Write, Sessions
  <2>3. turn \in Turns
    BY DEF ChatInv, TypeOK, Turns, TurnStatuses
  <2> HIDE DEF kept, turn
  <2>4. CASE session.turns[i].id \in Ids(kept)
    <3>1. PICK k \in 1 .. Len(kept) : kept[k].id = session.turns[i].id
      BY <2>1, <2>4 DEF Ids
    <3>2. k \in 1 .. Len(session.turns) /\ kept[k] = session.turns[k]
      BY <1>1, <2>1, <3>1
    <3>3. \A m \in 1 .. Len(session.turns) : session.turns[m].id \in Nat
      <4>1. \A m \in 1 .. Len(session.turns) : session.turns[m] \in Turns
        BY <1>1
      <4> QED BY <4>1 DEF Turns
    <3>4. k = i
      <4>1. k < i => session.turns[k].id < session.turns[i].id
        BY <1>1, <3>2 DEF ChatInv, TurnsAreKept
      <4>2. i < k => session.turns[i].id < session.turns[k].id
        BY <1>1, <3>2 DEF ChatInv, TurnsAreKept
      <4> QED BY <1>1, <3>1, <3>2, <3>3, <4>1, <4>2
    <3>5. /\ Append(kept, turn) \in Seq(Turns) /\ Len(Append(kept, turn)) = Len(kept) + 1
          /\ \A m \in 1 .. Len(kept) : Append(kept, turn)[m] = kept[m]
      BY <2>1, <2>3, AppendProperties
    <3>6. k \in DOMAIN session'.turns /\ session'.turns[k] = session.turns[i]
      BY <2>2, <3>1, <3>2, <3>4, <3>5
    <3> QED BY <3>6
  <2>5. CASE session.turns[i].id \notin Ids(kept)
    BY <2>2, <2>5 DEF Ids
  <2> QED BY <2>4, <2>5
<1>4. ASSUME NEW turnStatus \in TurnStatuses, NEW status \in SessionStatuses,
             HasPending(session), Write(Settled(session, turnStatus, status))
      PROVE  \E j \in DOMAIN session'.turns : session'.turns[j] = session.turns[i]
  <2> DEFINE new == Settled(session, turnStatus, status)
  <2>1. i # Len(session.turns)
    BY <1>4 DEF HasPending, LastOf
  <2>2. /\ new \in Sessions /\ Len(new.turns) = Len(session.turns)
        /\ new.turns[i] = session.turns[i]
    BY <1>1, <1>4, <2>1, SettledTurns
  <2>3. session' = [new EXCEPT !.rev = session.rev + 1]
    BY <1>4 DEF Write
  <2> HIDE DEF new
  <2>4. session'.turns = new.turns /\ DOMAIN new.turns = 1 .. Len(new.turns)
    BY <2>2, <2>3 DEF Sessions
  <2> QED BY <1>1, <2>2, <2>4
<1>5. ASSUME NEW h \in Handlers, Initialize(h)
      PROVE  FALSE
  <2>1. handler[h].snap = session /\ handler[h].snap = NewSession
    BY <1>5, WriterHoldsRow DEF Initialize, Writing, ChatInv, RequestsFit
  <2>2. session.turns = << >>
    BY <2>1 DEF NewSession
  <2> QED BY <1>1, <2>2
<1>6. ASSUME NEW h \in Handlers, handler[h].snap = session, Rewind(h) \/ End(h)
      PROVE  session'.turns = session.turns
  BY <1>1, <1>6 DEF Rewind, End, Complete, Write, Sessions
<1>7. \/ session' = session
      \/ \E h \in Handlers : \/ Initialize(h) \/ AppendMessage(h) \/ Rewind(h) \/ End(h)
                             \/ Reply(h) \/ Fail(h) \/ Dispose(h)
  BY DEF Next, ChatRequest, Settle, LoadAppend, LoadRewind, LoadEnd, LoadEndAgain, Load, Reload,
         PendingLost, Record, Conflict, Enqueue, TakeJob, Crash, ProcessCompletion, Sweep, Tick,
         Handlers
<1>8. ASSUME NEW h \in Handlers, \/ AppendMessage(h) \/ Rewind(h) \/ End(h)
                                \/ Reply(h) \/ Fail(h) \/ Dispose(h)
      PROVE  handler[h].snap = session
  BY <1>8, WriterHoldsRow
     DEF AppendMessage, Rewind, End, Complete, Reply, Fail, Dispose, Executed, Writing
<1>9. ASSUME NEW h \in Handlers, Reply(h) \/ Fail(h) \/ Dispose(h), handler[h].snap = session
      PROVE  \E turnStatus \in TurnStatuses, status \in SessionStatuses :
               HasPending(session) /\ Write(Settled(session, turnStatus, status))
  BY <1>9 DEF Reply, Fail, Dispose, Executed, Complete, TurnStatuses, SessionStatuses
<1> QED BY <1>2, <1>3, <1>4, <1>5, <1>6, <1>7, <1>8, <1>9

\* What was answered, or has failed, is never executed again.
THEOREM SettledTurnsAreFinal ==
  ASSUME ClientsSendRevisions
  PROVE  Spec => SettledTurnsStay
<1>1. ChatInv /\ [Next]_vars =>
        [\A i \in DOMAIN session.turns :
           session.turns[i].status # "pending" =>
             \/ \E j \in DOMAIN session'.turns : session'.turns[j] = session.turns[i]
             \/ session.turns[i].id \in session'.discarded]_vars
  BY StepKeepsSettled
<1> QED BY <1>1, ChatInvAlways, PTL DEF Spec, SettledTurnsStay

\* A job ends the chat under the revision at which the sweep found it inactive.
THEOREM SweepSparesActiveChats ==
  ASSUME ClientsSendRevisions
  PROVE  Spec => SweepSparesActive
<1>1. ChatInv /\ [Next]_vars =>
        [~run.completed /\ run'.disposition = "user_idle_max_duration_exceeded"
           => age >= Timeout]_vars
  <2> SUFFICES ASSUME ChatInv, Next, ~run.completed,
                      run'.disposition = "user_idle_max_duration_exceeded"
               PROVE  age >= Timeout
    OBVIOUS
  <2>1. run.disposition = "none"
    BY DEF ChatInv, OpenRun
  <2>2. PICK h \in Handlers : End(h) /\ h \in Workers
    <3>1. run'.disposition = run.disposition
          \/ \E h \in Handlers : End(h) \/ Dispose(h)
      BY DEF Next, ChatRequest, Settle, LoadAppend, LoadRewind, LoadEnd, LoadEndAgain, Load,
             Initialize, AppendMessage, AddPending, Rewind, Reload, PendingLost, Reply, Fail,
             Record, Conflict, Enqueue, TakeJob, Crash, ProcessCompletion, Sweep, Tick,
             Handlers, ChatInv, TypeOK
    <3>2. ASSUME NEW h \in Handlers, Dispose(h)
          PROVE  run'.disposition = "agent"
      BY <3>2 DEF Dispose, Complete
    <3>3. ASSUME NEW h \in Handlers \ Workers, End(h)
          PROVE  run'.disposition = "user_hangup"
      BY <3>3 DEF End, Complete
    <3> QED BY <2>1, <3>1, <3>2, <3>3
  <2>3. handler[h].pc = "end" /\ Expects(handler[h].rev)
    BY <2>2 DEF End, Complete
  <2>4. handler[h].rev = session.rev
    BY <2>3, TextChatAssumption DEF Expects, ChatInv, RevisionsArePast, Writing
  <2> QED BY <2>2, <2>3, <2>4 DEF ChatInv, JobsAreDue
<1> QED BY <1>1, ChatInvAlways, PTL DEF Spec, SweepSparesActive

=============================================================================
