---------------------------- MODULE TranscriptLog ----------------------------
(***************************************************************************)
(* The transcript of a call as TranscriptLogCoordinator puts it together.  *)
(* The life of the turns, the speech in them and the text of what was said *)
(* come from different parts of the pipeline, in either order; each turn   *)
(* has a user side and an assistant side, and a side is appended to the    *)
(* log, once and for good, when its turn has ended.                        *)
(*                                                                         *)
(* The methods hold one lock, so that each is a step.  The stored log is   *)
(* sorted by time: logged keeps what was appended for each side, and not   *)
(* the order between them.  A text stands for the turn it was said in.     *)
(***************************************************************************)
EXTENDS Integers, Sequences

CONSTANTS
  MaxTurns,  \* bound: turns of the call
  MaxTexts   \* bound: messages of the user

ASSUME TranscriptAssumption == MaxTurns \in Nat \ {0} /\ MaxTexts \in Nat

Turns == 1 .. MaxTurns
Sides == {"user", "assistant"}
Parts == Turns \X Sides
None == 0

VARIABLES
  known,        \* turns that have a state
  ended,        \* turns that have ended
  interrupted,  \* turns whose end was an interruption
  spoken,       \* sides with a start of speech
  speaking,     \* sides that speak
  text,         \* the texts joined in each side
  emitted,      \* sides that are in the log
  logged,       \* what was appended to the log for each side
  active,       \* _active_turn_id
  started,      \* environment: the last turn that the turn tracker has started
  owed,         \* environment: turns whose reply is not yet known as text
  messages,     \* environment: messages of the user so far
  flushed       \* whether the pipeline has finished

turns == <<known, ended, interrupted, active>>
sides == <<spoken, speaking, text>>
journal == <<emitted, logged>>
environment == <<started, owed, messages, flushed>>
vars == <<turns, sides, journal, environment>>

-----------------------------------------------------------------------------
User(t) == <<t, "user">>
Assistant(t) == <<t, "assistant">>

Init ==
  /\ known = {} /\ ended = {} /\ interrupted = {} /\ active = None
  /\ spoken = {} /\ speaking = {} /\ text = [p \in Parts |-> <<>>]
  /\ emitted = {} /\ logged = [p \in Parts |-> <<>>]
  /\ started = 0 /\ owed = <<>> /\ messages = 0 /\ flushed = FALSE

ReadyAgain(p) ==
  /\ p[1] \in ended' /\ text'[p] # <<>>
  /\ p[2] = "assistant" => p \notin speaking'

\* _emit_ready_sides: a side with text, not yet emitted, whose turn has ended; the
\* assistant's only when it has stopped speaking.
Ready(p) ==
  /\ p[1] \in ended' /\ p \notin emitted /\ text'[p] # <<>>
  /\ p[2] = "assistant" => p \notin speaking'

\* _append, for the sides of these turns that are ready.
Emit(these) ==
  LET now == {p \in Parts : p[1] \in these /\ Ready(p)}
  IN  /\ emitted' = emitted \cup now
      /\ logged' = [p \in Parts |->
                      IF p \in now THEN Append(logged[p], text'[p]) ELSE logged[p]]

-----------------------------------------------------------------------------
(* The life of the turns, and the speech in them, in the order of the tracker. *)

RecordTurnStarted(t) ==
  /\ ~flushed /\ t = started + 1 /\ started' = t
  /\ started # 0 => started \in ended
  /\ known' = known \cup {t}
  /\ active' = IF active = None \/ t >= active THEN t ELSE active
  /\ UNCHANGED <<ended, interrupted, sides, journal, owed, messages, flushed>>

\* A turn that nobody interrupts ends when its reply has become text.
RecordTurnEnded(t, cut) ==
  /\ ~flushed /\ t = started /\ t \notin ended
  /\ ~cut => \A i \in 1 .. Len(owed) : owed[i] # t
  /\ known' = known \cup {t} /\ ended' = ended \cup {t}
  /\ interrupted' = IF cut THEN interrupted \cup {t} ELSE interrupted
  /\ active' = IF active = t THEN None ELSE active
  /\ UNCHANGED sides
  /\ Emit({t})
  /\ UNCHANGED environment

Speak(p) ==
  /\ ~flushed /\ p[1] = started /\ p[1] \notin ended
  /\ known' = known \cup {p[1]}
  /\ spoken' = spoken \cup {p} /\ speaking' = speaking \cup {p}
  /\ UNCHANGED <<ended, interrupted, active, text, journal, started, messages, flushed>>

RecordUserStartedSpeaking(t) == Speak(User(t)) /\ UNCHANGED owed

\* A turn has one reply.
RecordBotStartedSpeaking(t) ==
  /\ Assistant(t) \notin spoken
  /\ Speak(Assistant(t)) /\ owed' = Append(owed, t)

RecordUserStoppedSpeaking(t) ==
  /\ ~flushed /\ User(t) \in speaking
  /\ speaking' = speaking \ {User(t)}
  /\ UNCHANGED <<turns, spoken, text, journal, environment>>

RecordBotStoppedQuietly(t) ==
  /\ ~flushed /\ Assistant(t) \in speaking
  /\ speaking' = speaking \ {Assistant(t)}
  /\ UNCHANGED <<turns, spoken, text, journal, environment>>

\* It may come when the turn has ended, and the reply is then complete.
RecordBotStoppedSpeaking(t) ==
  /\ ~flushed /\ Assistant(t) \in speaking
  /\ speaking' = speaking \ {Assistant(t)}
  /\ UNCHANGED <<turns, spoken, text>>
  /\ Emit({t})
  /\ UNCHANGED environment

-----------------------------------------------------------------------------
(* The texts, in the order in which they were said. *)

First(S) == CHOOSE t \in S : \A u \in S : t <= u
Last(S) == CHOOSE t \in S : \A u \in S : u <= t

\* Turns in which this side has spoken and has no text.
Candidates(side) ==
  {t \in known : <<t, side>> \in spoken /\ text[<<t, side>>] = <<>>}

ActiveLacks(side) == active # None /\ text[<<active, side>>] = <<>>

OldestCandidate(side) ==
  IF Candidates(side) # {} THEN First(Candidates(side))
  ELSE IF known # {} THEN Last(known) ELSE 1

SelectUserTurn ==
  IF ActiveLacks("user") THEN active ELSE OldestCandidate("user")

SelectActiveTurn ==
  IF ActiveLacks("assistant") THEN active ELSE OldestCandidate("assistant")

\* The reply of an interrupted turn comes when the next turn is active.
SelectAssistantTurn ==
  LET cut == Candidates("assistant") \cap ended \cap interrupted
  IN  IF cut # {} THEN First(cut)
      ELSE IF ActiveLacks("assistant") THEN active
      ELSE OldestCandidate("assistant")

Record(t, side, said) ==
  /\ known' = known \cup {t}
  /\ text' = [text EXCEPT ![<<t, side>>] = Append(@, said)]
  /\ UNCHANGED <<ended, interrupted, active, spoken, speaking>>
  /\ Emit({t})

\* A message may come at any time, whether or not speech was noticed.
RecordUserTranscript ==
  /\ ~flushed /\ messages < MaxTexts /\ messages' = messages + 1
  /\ Record(SelectUserTurn, "user", SelectUserTurn)
  /\ UNCHANGED <<started, owed, flushed>>

RecordAssistantTranscript ==
  /\ ~flushed /\ owed # <<>> /\ owed' = Tail(owed)
  /\ Record(SelectAssistantTurn, "assistant", Head(owed))
  /\ UNCHANGED <<started, messages, flushed>>

\* The pipeline has finished: what is left is emitted as it is.
Flush ==
  /\ ~flushed /\ flushed' = TRUE
  /\ ended' = ended \cup known /\ speaking' = {}
  /\ UNCHANGED <<known, interrupted, active, spoken, text>>
  /\ Emit(known)
  /\ UNCHANGED <<started, owed, messages>>

-----------------------------------------------------------------------------
Next ==
  \/ \E t \in Turns :
       \/ RecordTurnStarted(t) \/ \E cut \in BOOLEAN : RecordTurnEnded(t, cut)
       \/ RecordUserStartedSpeaking(t) \/ RecordUserStoppedSpeaking(t)
       \/ RecordBotStartedSpeaking(t) \/ RecordBotStoppedSpeaking(t)
  \/ RecordUserTranscript \/ RecordAssistantTranscript \/ Flush

Spec == Init /\ [][Next]_vars

-----------------------------------------------------------------------------
(* Properties *)

\* Every variable keeps its type.
TypeOK ==
  /\ known \subseteq Turns /\ ended \subseteq Turns /\ interrupted \subseteq Turns
  /\ active \in Turns \cup {None}
  /\ spoken \subseteq Parts /\ speaking \subseteq Parts /\ emitted \subseteq Parts
  /\ text \in [Parts -> Seq(Turns)] /\ logged \in [Parts -> Seq(Seq(Turns))]
  /\ started \in 0 .. MaxTurns /\ owed \in Seq(Turns)
  /\ messages \in 0 .. MaxTexts /\ flushed \in BOOLEAN

\* An event of the log is final: it is appended once for a side, when the turn has
\* ended and its bot is silent, and what comes later does not change it.
EventsAreFinal ==
  [][\A p \in Parts :
       logged'[p] # logged[p] =>
         /\ logged[p] = <<>> /\ logged'[p] = <<text'[p]>>
         /\ p[1] \in ended' /\ (p[2] = "assistant" => p \notin speaking')]_vars

\* Whichever of a text, the end of its turn and the end of the bot's speech comes
\* last, it is the one that brings the side into the log: none waits for the flush.
NothingIsHeldBack ==
  \A p \in Parts :
    (p[1] \in ended /\ text[p] # <<>> /\ p \notin emitted)
      => p[2] = "assistant" /\ p \in speaking

\* After the flush every side with a text is in the log.
FlushLeavesNothing ==
  flushed => \A p \in Parts : text[p] # <<>> => logged[p] # <<>>

\* A reply is logged in the turn it was spoken in, also when it was cut short and
\* its text comes while the next turn is under way.
RepliesKeepTheirTurn ==
  \A t \in Turns : \A i \in 1 .. Len(text[Assistant(t)]) : text[Assistant(t)][i] = t
=============================================================================
