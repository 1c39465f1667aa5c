------------------------- MODULE TranscriptLogProofs -------------------------
(***************************************************************************)
(* What holds of TranscriptLog for any number of turns and messages: the   *)
(* events of the log are final, no side waits for the flush that need not, *)
(* the flush leaves nothing, and replies keep their turn.                  *)
(***************************************************************************)
EXTENDS TranscriptLog, SequenceTheorems, WellFoundedInduction, TLAPS

-----------------------------------------------------------------------------
(* The inductive invariant.                                                *)

\* emitted says which sides have been appended to the log.
EmittedIsLogged == \A p \in Parts : p \in emitted <=> logged[p] # <<>>

\* A text is joined in a turn that has a state, and the flush goes through those.
TextIsKnown == \A p \in Parts : text[p] # <<>> => p[1] \in known

LogInv == /\ TypeOK /\ NothingIsHeldBack /\ FlushLeavesNothing
          /\ EmittedIsLogged /\ TextIsKnown

LEMMA LogInvInit == Init => LogInv
<1> SUFFICES ASSUME Init PROVE LogInv
  OBVIOUS
<1>1. TypeOK
  <2>1. 0 \in 0 .. MaxTurns /\ 0 \in 0 .. MaxTexts
    BY TranscriptAssumption
  <2>2. text \in [Parts -> Seq(Turns)] /\ logged \in [Parts -> Seq(Seq(Turns))]
    BY DEF Init
  <2>3. owed \in Seq(Turns) /\ active \in Turns \cup {None}
    BY DEF Init
  <2> QED BY <2>1, <2>2, <2>3 DEF Init, TypeOK
<1>2. \A p \in Parts : text[p] = <<>> /\ logged[p] = <<>>
  BY DEF Init
<1> QED
  BY <1>1, <1>2 DEF Init, LogInv, NothingIsHeldBack, FlushLeavesNothing,
                    EmittedIsLogged, TextIsKnown

-----------------------------------------------------------------------------
(* The turn a text goes to.                                                *)

\* A set of turns that is not empty has a first turn.
LEMMA FirstTurn ==
  ASSUME NEW S \in SUBSET Turns, S # {}
  PROVE  First(S) \in S
<1>1. PICK t \in S : \A u \in S : ~ (<<u, t>> \in OpToRel(<, Nat))
  <2>1. S \subseteq Nat
    BY TranscriptAssumption DEF Turns
  <2> QED BY <2>1, NatLessThanWellFounded, WFMin
<1>2. \A u \in S : t <= u
  <2> SUFFICES ASSUME NEW u \in S PROVE t <= u
    OBVIOUS
  <2>1. t \in Nat /\ u \in Nat
    BY TranscriptAssumption DEF Turns
  <2>2. ~ (u < t)
    BY <1>1, <2>1 DEF OpToRel
  <2> QED BY <2>1, <2>2
<1> QED BY <1>2 DEF First

\* And a last one: the first of their distances from the bound.
LEMMA LastTurn ==
  ASSUME NEW S \in SUBSET Turns, S # {}
  PROVE  Last(S) \in S
<1> DEFINE D == {MaxTurns + 1 - t : t \in S}
<1>1. D \in SUBSET Turns /\ D # {}
  BY TranscriptAssumption DEF Turns
<1>2. PICK d \in D : \A e \in D : ~ (<<e, d>> \in OpToRel(<, Nat))
  <2>1. D \subseteq Nat
    BY <1>1, TranscriptAssumption DEF Turns
  <2>2. D # {}
    BY <1>1
  <2> HIDE DEF D
  <2> QED BY <2>1, <2>2, NatLessThanWellFounded, WFMin
<1>3. PICK t \in S : d = MaxTurns + 1 - t
  OBVIOUS
<1>4. \A u \in S : u <= t
  <2> SUFFICES ASSUME NEW u \in S PROVE u <= t
    OBVIOUS
  <2>1. t \in Nat /\ u \in Nat /\ MaxTurns \in Nat
    BY TranscriptAssumption DEF Turns
  <2>2. MaxTurns + 1 - u \in D
    OBVIOUS
  <2>3. d \in Nat /\ MaxTurns + 1 - u \in Nat
    BY <1>1, <2>2, TranscriptAssumption DEF Turns
  <2>4. ~ (MaxTurns + 1 - u < d)
    BY <1>2, <2>2, <2>3 DEF OpToRel
  <2> QED BY <1>3, <2>1, <2>3, <2>4
<1> QED BY <1>4 DEF Last

\* The candidates are turns, and so is what is selected among them.
LEMMA OldestIsTurn ==
  ASSUME TypeOK, NEW side \in Sides
  PROVE  OldestCandidate(side) \in Turns
<1>1. Candidates(side) \in SUBSET Turns /\ known \in SUBSET Turns
  BY DEF TypeOK, Candidates
<1>2. 1 \in Turns
  BY TranscriptAssumption DEF Turns
<1> QED BY <1>1, <1>2, FirstTurn, LastTurn DEF OldestCandidate

LEMMA SelectedIsTurn ==
  ASSUME TypeOK
  PROVE  SelectUserTurn \in Turns /\ SelectAssistantTurn \in Turns
<1>1. \A side \in Sides : ActiveLacks(side) => active \in Turns
  BY DEF TypeOK, ActiveLacks
<1>2. SelectUserTurn \in Turns
  BY <1>1, OldestIsTurn DEF SelectUserTurn, Sides
<1>3. SelectAssistantTurn \in Turns
  <2> DEFINE cut == Candidates("assistant") \cap ended \cap interrupted
  <2>1. cut \in SUBSET Turns
    BY DEF TypeOK
  <2> HIDE DEF cut
  <2>2. CASE cut # {}
    BY <2>1, <2>2, FirstTurn DEF SelectAssistantTurn, cut
  <2>3. CASE cut = {}
    BY <2>3, <1>1, OldestIsTurn DEF SelectAssistantTurn, Sides, cut
  <2> QED BY <2>2, <2>3
<1> QED BY <1>2, <1>3

-----------------------------------------------------------------------------
(* The steps.                                                              *)

\* The steps that append nothing: text is as it was, no turn ends, and no bot
\* falls silent in a turn that has ended.
LEMMA NothingEmitted ==
  ASSUME LogInv, TypeOK', UNCHANGED <<journal, text, ended, flushed>>,
         known \subseteq known',
         \A p \in Parts : p \in speaking \ speaking' => p[2] # "assistant"
  PROVE  LogInv'
<1> USE DEF LogInv, TypeOK, journal
<1>1. NothingIsHeldBack'
  BY DEF NothingIsHeldBack
<1>2. FlushLeavesNothing' /\ EmittedIsLogged' /\ TextIsKnown'
  BY DEF FlushLeavesNothing, EmittedIsLogged, TextIsKnown
<1> QED BY <1>1, <1>2

\* The steps that emit the sides of some turns, beyond which nothing has changed
\* that a side waits for.
LEMMA SomeEmitted ==
  ASSUME LogInv, NEW these \in SUBSET Turns, Emit(these),
         text' \in [Parts -> Seq(Turns)], ended' \subseteq Turns,
         speaking' \subseteq Parts,
         \A p \in Parts : text[p] # <<>> => text'[p] # <<>>,
         \A p \in Parts : p[1] \notin these =>
           /\ text'[p] = text[p] /\ (p[1] \in ended' <=> p[1] \in ended)
           /\ p \in speaking' <=> p \in speaking
  PROVE  /\ emitted' \subseteq Parts /\ logged' \in [Parts -> Seq(Seq(Turns))]
         /\ NothingIsHeldBack' /\ EmittedIsLogged'
<1> DEFINE now == {p \in Parts : p[1] \in these /\ Ready(p)}
<1>1. /\ emitted' = emitted \cup now
      /\ logged' = [p \in Parts |->
                      IF p \in now THEN Append(logged[p], text'[p]) ELSE logged[p]]
  BY DEF Emit
<1>2. /\ emitted \subseteq Parts /\ logged \in [Parts -> Seq(Seq(Turns))]
      /\ text \in [Parts -> Seq(Turns)]
  BY DEF LogInv, TypeOK
<1>3. emitted' \subseteq Parts /\ logged' \in [Parts -> Seq(Seq(Turns))]
  <2>1. \A p \in Parts : /\ logged[p] \in Seq(Seq(Turns)) /\ text'[p] \in Seq(Turns)
                         /\ Append(logged[p], text'[p]) \in Seq(Seq(Turns))
    BY <1>2
  <2> HIDE DEF now
  <2>2. logged' \in [Parts -> Seq(Seq(Turns))]
    BY <1>1, <2>1
  <2> QED BY <1>1, <1>2, <2>2 DEF now
<1>4. NothingIsHeldBack'
  <2> SUFFICES ASSUME NEW p \in Parts, p[1] \in ended', text'[p] # <<>>, p \notin emitted'
               PROVE  p[2] = "assistant" /\ p \in speaking'
    BY DEF NothingIsHeldBack
  <2>1. CASE p[1] \in these
    BY <2>1, <1>1 DEF Ready
  <2>2. CASE p[1] \notin these
    BY <2>2, <1>1 DEF LogInv, NothingIsHeldBack
  <2> QED BY <2>1, <2>2
<1>5. EmittedIsLogged'
  <2> SUFFICES ASSUME NEW p \in Parts
               PROVE  p \in emitted' <=> logged'[p] # <<>>
    BY DEF EmittedIsLogged
  <2>1. logged[p] \in Seq(Seq(Turns)) /\ text'[p] \in Seq(Turns)
    BY <1>2
  <2>2. CASE p \in now
    <3>1. Append(logged[p], text'[p]) # <<>>
      BY <2>1, AppendProperties
    <3> QED BY <2>2, <1>1, <3>1
  <2>3. CASE p \notin now
    BY <2>3, <1>1 DEF LogInv, EmittedIsLogged
  <2> QED BY <2>2, <2>3
<1> QED BY <1>3, <1>4, <1>5

\* The turn tracker starts a turn, or a side starts or stops to speak.
LEMMA QuietSteps ==
  ASSUME LogInv, NEW t \in Turns,
         \/ RecordTurnStarted(t) \/ RecordUserStartedSpeaking(t)
         \/ RecordBotStartedSpeaking(t) \/ RecordUserStoppedSpeaking(t)
  PROVE  LogInv'
<1> USE DEF turns, sides, journal, environment
<1>1. CASE RecordTurnStarted(t)
  <2>1. TypeOK'
    BY <1>1 DEF RecordTurnStarted, LogInv, TypeOK, Turns
  <2> QED BY <1>1, <2>1, NothingEmitted DEF RecordTurnStarted
<1>2. CASE RecordUserStartedSpeaking(t)
  <2>1. TypeOK'
    BY <1>2 DEF RecordUserStartedSpeaking, Speak, LogInv, TypeOK, Parts, Sides, User
  <2> QED BY <1>2, <2>1, NothingEmitted DEF RecordUserStartedSpeaking, Speak
<1>3. CASE RecordBotStartedSpeaking(t)
  <2>1. Append(owed, t) \in Seq(Turns)
    BY DEF LogInv, TypeOK
  <2>2. TypeOK'
    BY <1>3, <2>1 DEF RecordBotStartedSpeaking, Speak, LogInv, TypeOK, Parts, Sides, Assistant
  <2> QED BY <1>3, <2>2, NothingEmitted DEF RecordBotStartedSpeaking, Speak
<1>4. CASE RecordUserStoppedSpeaking(t)
  <2>1. TypeOK'
    BY <1>4 DEF RecordUserStoppedSpeaking, LogInv, TypeOK
  <2>2. User(t)[2] # "assistant"
    BY DEF User
  <2> QED BY <1>4, <2>1, <2>2, NothingEmitted DEF RecordUserStoppedSpeaking
<1> QED BY <1>1, <1>2, <1>3, <1>4

\* A turn ends, or its bot falls silent.
LEMMA TurnEnds ==
  ASSUME LogInv, NEW t \in Turns, NEW cut \in BOOLEAN,
         RecordTurnEnded(t, cut) \/ RecordBotStoppedSpeaking(t)
  PROVE  LogInv'
<1> USE DEF turns, sides, journal, environment
<1>1. /\ Emit({t}) /\ text' = text /\ known \subseteq known' /\ ~flushed'
      /\ ended' \subseteq Turns /\ speaking' \subseteq Parts
  BY DEF RecordTurnEnded, RecordBotStoppedSpeaking, LogInv, TypeOK
<1>2. \A p \in Parts : p[1] \notin {t} =>
        /\ text'[p] = text[p] /\ (p[1] \in ended' <=> p[1] \in ended)
        /\ p \in speaking' <=> p \in speaking
  BY DEF RecordTurnEnded, RecordBotStoppedSpeaking, Assistant
<1>3. /\ emitted' \subseteq Parts /\ logged' \in [Parts -> Seq(Seq(Turns))]
      /\ NothingIsHeldBack' /\ EmittedIsLogged'
  <2>1. {t} \in SUBSET Turns /\ text' \in [Parts -> Seq(Turns)]
    BY <1>1 DEF LogInv, TypeOK
  <2> QED BY <1>1, <1>2, <2>1, SomeEmitted
<1>4. TypeOK'
  BY <1>1, <1>3 DEF RecordTurnEnded, RecordBotStoppedSpeaking, LogInv, TypeOK
<1>5. FlushLeavesNothing' /\ TextIsKnown'
  BY <1>1 DEF LogInv, FlushLeavesNothing, TextIsKnown
<1> QED BY <1>3, <1>4, <1>5 DEF LogInv

\* A text is joined to the side it was selected for.
LEMMA TextRecorded ==
  ASSUME LogInv, NEW t \in Turns, NEW side \in Sides, NEW said \in Turns,
         Record(t, side, said), started' = started, flushed' = FALSE,
         owed' \in Seq(Turns), messages' \in 0 .. MaxTexts
  PROVE  LogInv'
<1>1. <<t, side>> \in Parts
  BY DEF Parts
<1>2. text \in [Parts -> Seq(Turns)]
  BY DEF LogInv, TypeOK
<1>3. \A p \in Parts : text'[p] = IF p = <<t, side>> THEN Append(text[p], said) ELSE text[p]
  BY <1>1, <1>2 DEF Record
<1>4. text' \in [Parts -> Seq(Turns)]
  <2>1. Append(text[<<t, side>>], said) \in Seq(Turns)
    BY <1>1, <1>2
  <2> QED BY <1>2, <2>1 DEF Record
<1>5. \A p \in Parts : text[p] # <<>> => text'[p] # <<>>
  <2> SUFFICES ASSUME NEW p \in Parts, text[p] # <<>> PROVE text'[p] # <<>>
    OBVIOUS
  <2>1. text[p] \in Seq(Turns)
    BY <1>2
  <2>2. Append(text[p], said) # <<>>
    BY <2>1, AppendProperties
  <2> QED BY <1>3, <2>2
<1>6. Emit({t}) /\ ended' = ended /\ speaking' = speaking
  BY DEF Record
<1>7. \A p \in Parts : p[1] \notin {t} =>
        /\ text'[p] = text[p] /\ (p[1] \in ended' <=> p[1] \in ended)
        /\ p \in speaking' <=> p \in speaking
  BY <1>3, <1>6
<1>8. /\ emitted' \subseteq Parts /\ logged' \in [Parts -> Seq(Seq(Turns))]
      /\ NothingIsHeldBack' /\ EmittedIsLogged'
  <2>1. {t} \in SUBSET Turns /\ ended' \subseteq Turns /\ speaking' \subseteq Parts
    BY <1>6 DEF LogInv, TypeOK
  <2> QED BY <1>4, <1>5, <1>6, <1>7, <2>1, SomeEmitted
<1>9. TypeOK'
  BY <1>4, <1>8 DEF Record, LogInv, TypeOK
<1>10. TextIsKnown'
  BY <1>3 DEF Record, LogInv, TextIsKnown
<1> QED BY <1>8, <1>9, <1>10 DEF LogInv, FlushLeavesNothing

LEMMA TextSteps ==
  ASSUME LogInv, RecordUserTranscript \/ RecordAssistantTranscript
  PROVE  LogInv'
<1>1. SelectUserTurn \in Turns /\ SelectAssistantTurn \in Turns
  BY SelectedIsTurn DEF LogInv
<1>2. "user" \in Sides /\ "assistant" \in Sides
  BY DEF Sides
<1>3. started' = started /\ flushed' = FALSE
  BY DEF RecordUserTranscript, RecordAssistantTranscript, LogInv, TypeOK
<1>4. CASE RecordUserTranscript
  <2>1. owed' \in Seq(Turns) /\ messages' \in 0 .. MaxTexts
    BY <1>4, TranscriptAssumption DEF RecordUserTranscript, LogInv, TypeOK
  <2>2. Record(SelectUserTurn, "user", SelectUserTurn)
    BY <1>4 DEF RecordUserTranscript
  <2> QED BY <1>1, <1>2, <1>3, <2>1, <2>2, TextRecorded
<1>5. CASE RecordAssistantTranscript
  <2>1. /\ owed \in Seq(Turns) /\ owed # <<>>
        /\ messages' \in 0 .. MaxTexts
    BY <1>5 DEF RecordAssistantTranscript, LogInv, TypeOK
  <2>2. Head(owed) \in Turns /\ Tail(owed) \in Seq(Turns)
    BY <2>1
  <2>3. Record(SelectAssistantTurn, "assistant", Head(owed)) /\ owed' = Tail(owed)
    BY <1>5 DEF RecordAssistantTranscript
  <2> QED BY <1>1, <1>2, <1>3, <2>1, <2>2, <2>3, TextRecorded
<1> QED BY <1>4, <1>5

\* Every text is in a turn that has a state, and with the flush all of those have
\* ended and nobody speaks.
LEMMA FlushEmits ==
  ASSUME LogInv, Flush
  PROVE  LogInv'
<1>1. /\ Emit(known) /\ ended' = ended \cup known /\ speaking' = {}
      /\ text' = text /\ known' = known
  BY DEF Flush
<1>2. known \in SUBSET Turns /\ ended \subseteq Turns /\ text \in [Parts -> Seq(Turns)]
  BY DEF LogInv, TypeOK
<1> DEFINE now == {p \in Parts : p[1] \in known /\ Ready(p)}
<1>3. /\ emitted' = emitted \cup now
      /\ logged' = [p \in Parts |->
                      IF p \in now THEN Append(logged[p], text'[p]) ELSE logged[p]]
  BY <1>1 DEF Emit
<1>4. \A p \in Parts : text[p] # <<>> => p \in emitted'
  BY <1>1, <1>3 DEF LogInv, TextIsKnown, Ready
<1>5. logged' \in [Parts -> Seq(Seq(Turns))] /\ emitted' \subseteq Parts
      /\ EmittedIsLogged'
  <2>1. \A p \in Parts : /\ logged[p] \in Seq(Seq(Turns)) /\ text'[p] \in Seq(Turns)
    BY <1>1, <1>2 DEF LogInv, TypeOK
  <2>2. \A p \in Parts : /\ Append(logged[p], text'[p]) \in Seq(Seq(Turns))
                         /\ Append(logged[p], text'[p]) # <<>>
    BY <2>1, AppendProperties
  <2>3. emitted \subseteq Parts
    BY DEF LogInv, TypeOK
  <2> HIDE DEF now
  <2>4. logged' \in [Parts -> Seq(Seq(Turns))]
    BY <1>3, <2>1, <2>2
  <2>5. emitted' \subseteq Parts
    BY <1>3, <2>3 DEF now
  <2>6. EmittedIsLogged'
    BY <1>3, <2>2 DEF LogInv, EmittedIsLogged
  <2> QED BY <2>4, <2>5, <2>6
<1>6. TypeOK'
  BY <1>1, <1>2, <1>5 DEF Flush, LogInv, TypeOK
<1>7. NothingIsHeldBack' /\ FlushLeavesNothing' /\ TextIsKnown'
  BY <1>1, <1>4, <1>5
     DEF LogInv, NothingIsHeldBack, FlushLeavesNothing, TextIsKnown, EmittedIsLogged
<1> QED BY <1>5, <1>6, <1>7 DEF LogInv

LEMMA LogInvStep == LogInv /\ [Next]_vars => LogInv'
<1> SUFFICES ASSUME LogInv, [Next]_vars PROVE LogInv'
  OBVIOUS
<1>1. CASE Next
  <2>1. CASE \E t \in Turns : \/ RecordTurnStarted(t) \/ RecordUserStartedSpeaking(t)
                              \/ RecordBotStartedSpeaking(t) \/ RecordUserStoppedSpeaking(t)
    BY <2>1, QuietSteps
  <2>2. CASE \E t \in Turns : \/ \E cut \in BOOLEAN : RecordTurnEnded(t, cut)
                              \/ RecordBotStoppedSpeaking(t)
    BY <2>2, TurnEnds
  <2>3. CASE RecordUserTranscript \/ RecordAssistantTranscript
    BY <2>3, TextSteps
  <2>4. CASE Flush
    BY <2>4, FlushEmits
  <2> QED BY <1>1, <2>1, <2>2, <2>3, <2>4 DEF Next
<1>2. CASE UNCHANGED vars
  BY <1>2 DEF vars, turns, sides, journal, environment, LogInv, TypeOK,
              NothingIsHeldBack, FlushLeavesNothing, EmittedIsLogged, TextIsKnown
<1> QED BY <1>1, <1>2

LEMMA LogInvAlways == Spec => []LogInv
BY LogInvInit, LogInvStep, PTL DEF Spec

-----------------------------------------------------------------------------
(* The theorems.                                                           *)

\* TranscriptLogCoordinator keeps its types.
THEOREM TranscriptTypes == Spec => []TypeOK
BY LogInvAlways, PTL DEF LogInv

\* _emit_ready_sides is called wherever a side can become ready.
THEOREM NoSideIsHeldBack == Spec => []NothingIsHeldBack
BY LogInvAlways, PTL DEF LogInv

\* flush_pending empties the coordinator.
THEOREM TheFlushLeavesNothing == Spec => []FlushLeavesNothing
BY LogInvAlways, PTL DEF LogInv

\* What emit(these) appends is appended to sides that have nothing in the log.
LEMMA EmitIsFinal ==
  ASSUME LogInv, NEW these, Emit(these), NEW p \in Parts, logged'[p] # logged[p]
  PROVE  /\ logged[p] = <<>> /\ logged'[p] = <<text'[p]>>
         /\ p[1] \in ended' /\ (p[2] = "assistant" => p \notin speaking')
<1>1. Ready(p) /\ logged'[p] = Append(logged[p], text'[p])
  BY DEF Emit
<1>2. logged[p] = <<>>
  BY <1>1 DEF Ready, LogInv, EmittedIsLogged
<1>3. Append(<<>>, text'[p]) = <<text'[p]>>
  OBVIOUS
<1> QED BY <1>1, <1>2, <1>3 DEF Ready

\* An event is appended once, when its turn is over and its bot silent.
THEOREM EventsStayFinal == Spec => EventsAreFinal
<1>1. LogInv /\ [Next]_vars =>
        [\A p \in Parts :
           logged'[p] # logged[p] =>
             /\ logged[p] = <<>> /\ logged'[p] = <<text'[p]>>
             /\ p[1] \in ended' /\ (p[2] = "assistant" => p \notin speaking')]_vars
  <2> SUFFICES ASSUME LogInv, Next, NEW p \in Parts, logged'[p] # logged[p]
               PROVE  /\ logged[p] = <<>> /\ logged'[p] = <<text'[p]>>
                      /\ p[1] \in ended' /\ (p[2] = "assistant" => p \notin speaking')
    OBVIOUS
  <2>1. \E these : Emit(these)
    <3>1. logged' # logged
      OBVIOUS
    <3> QED
      BY <3>1 DEF Next, RecordTurnStarted, RecordTurnEnded, RecordUserStartedSpeaking,
         RecordUserStoppedSpeaking, RecordBotStartedSpeaking, RecordBotStoppedSpeaking,
         RecordUserTranscript, RecordAssistantTranscript, Flush, Speak, Record,
         sides, journal
  <2> QED BY <2>1, EmitIsFinal
<1> QED BY <1>1, LogInvAlways, PTL DEF Spec, EventsAreFinal
-----------------------------------------------------------------------------
(* The turn of a reply.                                                    *)

\* Replies are owed in the order of their turns, once each ...
OwedInOrder == \A i, j \in 1 .. Len(owed) : i < j => owed[i] < owed[j]

\* ... for the turns whose bot has spoken and that have no text of it.
OwedAreSpoken ==
  /\ \A i \in 1 .. Len(owed) :
       /\ Assistant(owed[i]) \in spoken /\ text[Assistant(owed[i])] = <<>>
       /\ owed[i] <= started
  /\ \A t \in Turns : Assistant(t) \in spoken /\ text[Assistant(t)] = <<>> =>
       \E i \in 1 .. Len(owed) : owed[i] = t

SpokenIsKnown ==
  \A t \in Turns : /\ Assistant(t) \in spoken => t \in known
                   /\ text[Assistant(t)] # <<>> => Assistant(t) \in spoken

\* Only an interruption ends a turn whose reply is owed.
OwedAreCut ==
  \A i \in 1 .. Len(owed) : \/ owed[i] \in ended /\ owed[i] \in interrupted
                            \/ owed[i] = started /\ started \notin ended

\* The active turn is the last one that started, until it ends.
ActiveIsStarted ==
  /\ \A t \in ended : t <= started
  /\ active = IF started \in ended THEN None ELSE started

RepliesInv == /\ OwedInOrder /\ OwedAreSpoken /\ SpokenIsKnown /\ RepliesKeepTheirTurn
              /\ ~flushed => OwedAreCut /\ ActiveIsStarted

LEMMA PartFacts ==
  /\ \A t \in Turns : Assistant(t) \in Parts /\ User(t) \in Parts /\ t \in Nat \ {0}
  /\ \A t, u \in Turns : Assistant(t) # User(u) /\ (Assistant(t) = Assistant(u) => t = u)
  /\ \A t \in Turns : Assistant(t) = <<t, "assistant">> /\ User(t) = <<t, "user">>
BY TranscriptAssumption DEF Assistant, User, Parts, Turns, Sides

LEMMA OwedFacts ==
  ASSUME TypeOK
  PROVE  /\ owed \in Seq(Turns) /\ Len(owed) \in Nat /\ started \in Nat
         /\ \A i \in 1 .. Len(owed) : owed[i] \in Turns /\ owed[i] \in Nat \ {0}
         /\ \A t \in ended : t \in Turns
BY PartFacts, LenProperties, TranscriptAssumption DEF TypeOK

LEMMA RepliesInvInit == Init => RepliesInv
<1> SUFFICES ASSUME Init PROVE RepliesInv
  OBVIOUS
<1>1. Len(owed) = 0 /\ started = 0 /\ ended = {} /\ spoken = {} /\ active = None
      /\ text = [p \in Parts |-> <<>>]
  BY DEF Init
<1>2. \A t \in Turns : text[Assistant(t)] = <<>> /\ Len(text[Assistant(t)]) = 0
  BY <1>1, PartFacts
<1> QED BY <1>1, <1>2
        DEF RepliesInv, OwedInOrder, OwedAreSpoken, SpokenIsKnown, OwedAreCut, ActiveIsStarted,
            RepliesKeepTheirTurn, None

\* A turn starts when the one before it has ended: what is owed then was cut short.
LEMMA TurnStartsInOrder ==
  ASSUME LogInv, RepliesInv, NEW t \in Turns, RecordTurnStarted(t)
  PROVE  RepliesInv'
<1>1. /\ ~flushed /\ t = started + 1 /\ started' = t /\ (started # 0 => started \in ended)
      /\ known' = known \cup {t} /\ active' = IF active = None \/ t >= active THEN t ELSE active
      /\ UNCHANGED <<ended, interrupted, spoken, text, owed, flushed>>
  BY DEF RecordTurnStarted, sides
<1>2. OwedAreCut /\ ActiveIsStarted /\ TypeOK
  BY <1>1 DEF RepliesInv, LogInv
<1>3. t \notin ended /\ active = None
  BY <1>1, <1>2, OwedFacts DEF ActiveIsStarted, None
<1>4. OwedAreCut'
  BY <1>1, <1>2, OwedFacts DEF OwedAreCut
<1>5. ActiveIsStarted'
  <2>1. active' = started' /\ started' \notin ended'
    BY <1>1, <1>3
  <2>2. \A u \in ended : u <= started + 1
    BY <1>2, OwedFacts, PartFacts DEF ActiveIsStarted
  <2> QED BY <1>1, <2>1, <2>2 DEF ActiveIsStarted
<1>6. OwedInOrder' /\ OwedAreSpoken' /\ SpokenIsKnown' /\ RepliesKeepTheirTurn'
  BY <1>1, <1>2, OwedFacts
     DEF RepliesInv, OwedInOrder, OwedAreSpoken, SpokenIsKnown, RepliesKeepTheirTurn
<1> QED BY <1>4, <1>5, <1>6 DEF RepliesInv

LEMMA TurnEndsInOrder ==
  ASSUME LogInv, RepliesInv, NEW t \in Turns, NEW cut \in BOOLEAN, RecordTurnEnded(t, cut)
  PROVE  RepliesInv'
<1>1. /\ ~flushed /\ t = started /\ t \notin ended
      /\ ~cut => \A i \in 1 .. Len(owed) : owed[i] # t
      /\ known' = known \cup {t} /\ ended' = ended \cup {t}
      /\ cut => interrupted' = interrupted \cup {t}
      /\ ~cut => interrupted' = interrupted
      /\ active' = IF active = t THEN None ELSE active
      /\ UNCHANGED <<spoken, text, owed, flushed, started>>
  BY DEF RecordTurnEnded, sides, environment
<1>2. OwedAreCut /\ ActiveIsStarted /\ TypeOK
  BY <1>1 DEF RepliesInv, LogInv
<1>3. OwedAreCut'
  BY <1>1, <1>2 DEF OwedAreCut
<1>4. ActiveIsStarted'
  BY <1>1, <1>2, OwedFacts DEF ActiveIsStarted
<1>5. OwedInOrder' /\ OwedAreSpoken' /\ SpokenIsKnown' /\ RepliesKeepTheirTurn'
  BY <1>1 DEF RepliesInv, OwedInOrder, OwedAreSpoken, SpokenIsKnown, RepliesKeepTheirTurn
<1> QED BY <1>3, <1>4, <1>5 DEF RepliesInv

\* The user's speech and texts, and silence, are nothing to the replies.
LEMMA RepliesStay ==
  ASSUME LogInv, RepliesInv,
         \A t \in Turns : /\ text'[Assistant(t)] = text[Assistant(t)]
                          /\ Assistant(t) \in spoken' <=> Assistant(t) \in spoken,
         known \subseteq known', UNCHANGED <<owed, started>>,
         flushed' \/ UNCHANGED <<ended, interrupted, active, flushed>>
  PROVE  RepliesInv'
<1>1. OwedInOrder' /\ OwedAreSpoken' /\ SpokenIsKnown' /\ RepliesKeepTheirTurn'
  BY OwedFacts DEF LogInv, RepliesInv, OwedInOrder, OwedAreSpoken, SpokenIsKnown, RepliesKeepTheirTurn
<1>2. ~flushed' => OwedAreCut' /\ ActiveIsStarted'
  BY DEF RepliesInv, OwedAreCut, ActiveIsStarted
<1> QED BY <1>1, <1>2 DEF RepliesInv

\* The bot speaks once in a turn, and its reply is owed from then on.
LEMMA ReplyOwed ==
  ASSUME LogInv, RepliesInv, NEW t \in Turns, RecordBotStartedSpeaking(t)
  PROVE  RepliesInv'
<1>1. /\ ~flushed /\ t = started /\ t \notin ended /\ Assistant(t) \notin spoken
      /\ known' = known \cup {t} /\ spoken' = spoken \cup {Assistant(t)}
      /\ owed' = Append(owed, t)
      /\ UNCHANGED <<ended, interrupted, active, text, started, flushed>>
  BY PartFacts DEF RecordBotStartedSpeaking, Speak, journal
<1>2. OwedAreCut /\ ActiveIsStarted /\ TypeOK
  BY <1>1 DEF RepliesInv, LogInv
<1> DEFINE n == Len(owed)
<1>3. /\ n \in Nat /\ Len(owed') = n + 1 /\ owed'[n + 1] = t
      /\ \A i \in 1 .. n : owed'[i] = owed[i] /\ owed[i] \in Turns /\ owed[i] \in Nat
      /\ \A i \in 1 .. n + 1 : i \in 1 .. n \/ i = n + 1
  BY <1>1, <1>2, OwedFacts, AppendProperties
<1>4. \A i \in 1 .. n : owed[i] < t
  BY <1>1, <1>2, <1>3, OwedFacts DEF RepliesInv, OwedAreSpoken
<1>5. text[Assistant(t)] = <<>>
  BY <1>1 DEF RepliesInv, SpokenIsKnown
<1>6. OwedInOrder'
  BY <1>1, <1>3, <1>4 DEF RepliesInv, OwedInOrder
<1>7. OwedAreSpoken'
  <2>1. \A i \in 1 .. Len(owed') : /\ Assistant(owed'[i]) \in spoken' /\ text'[Assistant(owed'[i])] = <<>>
                                   /\ owed'[i] <= started'
    BY <1>1, <1>2, <1>3, <1>5, OwedFacts DEF RepliesInv, OwedAreSpoken
  <2>2. ASSUME NEW u \in Turns, Assistant(u) \in spoken', text'[Assistant(u)] = <<>>
        PROVE  \E i \in 1 .. Len(owed') : owed'[i] = u
    <3>1. CASE u = t
      BY <1>3, <3>1
    <3>2. CASE u # t
      BY <1>1, <1>3, <2>2, <3>2, PartFacts DEF RepliesInv, OwedAreSpoken
    <3> QED BY <3>1, <3>2
  <2> QED BY <2>1, <2>2 DEF OwedAreSpoken
<1>8. SpokenIsKnown' /\ RepliesKeepTheirTurn'
  BY <1>1, PartFacts DEF RepliesInv, SpokenIsKnown, RepliesKeepTheirTurn
<1>9. OwedAreCut' /\ ActiveIsStarted'
  BY <1>1, <1>2, <1>3 DEF OwedAreCut, ActiveIsStarted
<1> QED BY <1>6, <1>7, <1>8, <1>9 DEF RepliesInv

\* While replies are owed, the turn selected for the next one is the turn it was spoken
\* in: the first that was cut short, or the active one.
LEMMA SelectedIsOwed ==
  ASSUME LogInv, RepliesInv, ~flushed, owed # <<>>
  PROVE  SelectAssistantTurn = Head(owed)
<1> DEFINE cut == Candidates("assistant") \cap ended \cap interrupted
<1> DEFINE first == owed[1]
<1>1. /\ OwedAreCut /\ ActiveIsStarted /\ TypeOK /\ owed \in Seq(Turns)
      /\ Len(owed) \in Nat /\ 1 \in 1 .. Len(owed) /\ first \in Turns /\ first \in Nat \ {0}
      /\ Head(owed) = first
  BY OwedFacts, HeadTailProperties, LenProperties DEF RepliesInv, LogInv
<1>2. \A t \in Turns : t \in Candidates("assistant") <=> \E i \in 1 .. Len(owed) : owed[i] = t
  <2>1. \A t \in Turns : t \in Candidates("assistant") <=>
          t \in known /\ Assistant(t) \in spoken /\ text[Assistant(t)] = <<>>
    BY DEF Candidates, Assistant
  <2> QED BY <2>1 DEF RepliesInv, OwedAreSpoken, SpokenIsKnown
<1>3. Candidates("assistant") \subseteq Turns
  BY <1>1 DEF Candidates, TypeOK
<1>4. \A t \in Candidates("assistant") : first <= t
  BY <1>1, <1>2, <1>3, OwedFacts DEF RepliesInv, OwedInOrder
<1>5. CASE first \in cut
  <2>1. \A t \in cut : first <= t
    BY <1>4
  <2>2. \A t \in cut : t \in Nat
    BY <1>3, PartFacts
  <2> HIDE DEF cut, first
  <2>3. First(cut) = first
    <3>1. First(cut) \in cut /\ \A u \in cut : First(cut) <= u
      BY <1>5, <2>1 DEF First
    <3>2. First(cut) <= first /\ first <= First(cut) /\ First(cut) \in Nat /\ first \in Nat
      BY <1>5, <2>1, <2>2, <3>1
    <3> QED BY <3>2
  <2>4. cut # {}
    BY <1>5
  <2> QED BY <1>1, <2>3, <2>4 DEF SelectAssistantTurn, cut
<1>6. CASE first \notin cut
  <2>1. first = started /\ started \notin ended
    BY <1>1, <1>2, <1>6 DEF OwedAreCut
  <2>2. \A i \in 1 .. Len(owed) : owed[i] = first
    BY <1>1, <1>2, <1>4, <2>1, OwedFacts DEF RepliesInv, OwedAreSpoken
  <2>3. cut = {}
    BY <1>2, <1>3, <1>6, <2>2
  <2>4. active = first /\ active # None
    BY <1>1, <2>1 DEF ActiveIsStarted, None
  <2>5. ActiveLacks("assistant")
    BY <1>1, <2>4 DEF ActiveLacks, Assistant, RepliesInv, OwedAreSpoken
  <2> HIDE DEF cut
  <2> QED BY <1>1, <2>3, <2>4, <2>5 DEF SelectAssistantTurn, cut
<1> QED BY <1>5, <1>6

\* The text of a reply comes: it is the first that is owed.
LEMMA ReplyGiven ==
  ASSUME LogInv, RepliesInv, RecordAssistantTranscript
  PROVE  RepliesInv'
<1> DEFINE t == Head(owed)
<1>1. /\ ~flushed /\ owed # <<>> /\ owed' = Tail(owed) /\ Record(t, "assistant", t)
      /\ UNCHANGED <<started, messages, flushed>>
  BY SelectedIsOwed DEF RecordAssistantTranscript
<1>2. OwedAreCut /\ ActiveIsStarted /\ TypeOK /\ text \in [Parts -> Seq(Turns)]
  BY <1>1 DEF RepliesInv, LogInv, TypeOK
<1>3. /\ t \in Turns /\ t = owed[1] /\ 1 \in 1 .. Len(owed)
      /\ Len(owed) \in Nat /\ Len(owed') \in Nat /\ Len(owed') = Len(owed) - 1
      /\ \A i \in 1 .. Len(owed') : owed'[i] = owed[i + 1] /\ i + 1 \in 1 .. Len(owed)
      /\ \A j \in 1 .. Len(owed) : j = 1 \/ (j - 1 \in 1 .. Len(owed') /\ owed'[j - 1] = owed[j])
  BY <1>1, <1>2, OwedFacts, HeadTailProperties, LenProperties
<1> HIDE DEF t
<1>4. /\ text' = [text EXCEPT ![Assistant(t)] = Append(text[Assistant(t)], t)]
      /\ known' = known \cup {t}
      /\ UNCHANGED <<ended, interrupted, active, spoken>>
  BY <1>1 DEF Record, Assistant
<1>5. /\ text[Assistant(t)] = <<>> /\ Assistant(t) \in spoken
      /\ text'[Assistant(t)] = <<t>>
      /\ \A u \in Turns : u # t => text'[Assistant(u)] = text[Assistant(u)]
  <2>1. text[Assistant(t)] = <<>> /\ Assistant(t) \in spoken
    BY <1>3 DEF RepliesInv, OwedAreSpoken
  <2>2. Append(<<>>, t) = <<t>>
    OBVIOUS
  <2> QED BY <1>2, <1>3, <1>4, <2>1, <2>2, PartFacts
<1>6. \A i \in 1 .. Len(owed') : owed'[i] \in Turns /\ owed'[i] # t
  BY <1>2, <1>3, OwedFacts DEF RepliesInv, OwedInOrder
<1>7. OwedInOrder'
  BY <1>3 DEF RepliesInv, OwedInOrder
<1>8. OwedAreSpoken'
  <2>1. \A i \in 1 .. Len(owed') : /\ Assistant(owed'[i]) \in spoken' /\ text'[Assistant(owed'[i])] = <<>>
                                   /\ owed'[i] <= started'
    <3> SUFFICES ASSUME NEW i \in 1 .. Len(owed')
                 PROVE  /\ Assistant(owed'[i]) \in spoken' /\ text'[Assistant(owed'[i])] = <<>>
                        /\ owed'[i] <= started'
      OBVIOUS
    <3>1. owed'[i] = owed[i + 1] /\ i + 1 \in 1 .. Len(owed)
      BY <1>3
    <3>2. /\ Assistant(owed[i + 1]) \in spoken /\ text[Assistant(owed[i + 1])] = <<>>
          /\ owed[i + 1] <= started
      BY <3>1 DEF RepliesInv, OwedAreSpoken
    <3> QED BY <1>1, <1>4, <1>5, <1>6, <3>1, <3>2
  <2>2. ASSUME NEW u \in Turns, Assistant(u) \in spoken', text'[Assistant(u)] = <<>>
        PROVE  \E i \in 1 .. Len(owed') : owed'[i] = u
    <3>1. <<t>> # <<>>
      OBVIOUS
    <3>2. u # t
      BY <1>5, <2>2, <3>1
    <3>3. PICK j \in 1 .. Len(owed) : owed[j] = u
      BY <1>4, <1>5, <2>2, <3>2 DEF RepliesInv, OwedAreSpoken
    <3> QED BY <1>3, <3>2, <3>3
  <2> QED BY <2>1, <2>2 DEF OwedAreSpoken
<1>9. SpokenIsKnown'
  BY <1>4, <1>5 DEF RepliesInv, SpokenIsKnown
<1>10. RepliesKeepTheirTurn'
  BY <1>3, <1>5 DEF RepliesInv, RepliesKeepTheirTurn
<1>11. OwedAreCut' /\ ActiveIsStarted'
  BY <1>1, <1>2, <1>3, <1>4 DEF OwedAreCut, ActiveIsStarted
<1> QED BY <1>7, <1>8, <1>9, <1>10, <1>11 DEF RepliesInv

LEMMA RepliesInvStep == LogInv /\ RepliesInv /\ [Next]_vars => RepliesInv'
<1> SUFFICES ASSUME LogInv, RepliesInv, [Next]_vars PROVE RepliesInv'
  OBVIOUS
<1>1. ASSUME NEW t \in Turns, \/ RecordTurnStarted(t) \/ RecordBotStartedSpeaking(t)
                              \/ \E cut \in BOOLEAN : RecordTurnEnded(t, cut)
      PROVE  RepliesInv'
  BY <1>1, TurnStartsInOrder, TurnEndsInOrder, ReplyOwed
<1>2. ASSUME NEW t \in Turns, \/ RecordUserStartedSpeaking(t) \/ RecordUserStoppedSpeaking(t)
                              \/ RecordBotStoppedSpeaking(t)
      PROVE  RepliesInv'
  <2>1. /\ text' = text /\ known \subseteq known' /\ UNCHANGED <<owed, started>>
        /\ UNCHANGED <<ended, interrupted, active, flushed>>
        /\ spoken' = spoken \/ spoken' = spoken \cup {User(t)}
    BY <1>2 DEF RecordUserStartedSpeaking, RecordUserStoppedSpeaking, RecordBotStoppedSpeaking,
                Speak, turns, journal, environment
  <2> QED BY <2>1, PartFacts, RepliesStay
<1>3. CASE RecordUserTranscript
  <2> DEFINE t == SelectUserTurn
  <2>1. t \in Turns
    BY SelectedIsTurn DEF LogInv
  <2>2. /\ text' = [text EXCEPT ![User(t)] = Append(text[User(t)], t)]
        /\ known \subseteq known' /\ UNCHANGED <<owed, started>>
        /\ UNCHANGED <<ended, interrupted, active, flushed, spoken>>
    BY <1>3 DEF RecordUserTranscript, Record, User
  <2> HIDE DEF t
  <2>3. text \in [Parts -> Seq(Turns)]
    BY DEF LogInv, TypeOK
  <2>4. \A u \in Turns : text'[Assistant(u)] = text[Assistant(u)]
    BY <2>1, <2>2, <2>3, PartFacts
  <2> QED BY <2>2, <2>4, RepliesStay
<1>4. CASE Flush
  <2>1. /\ flushed' = TRUE /\ UNCHANGED <<known, spoken, text, started, owed>>
    BY <1>4 DEF Flush
  <2> QED BY <2>1, RepliesStay
<1>5. CASE UNCHANGED vars
  BY <1>5, RepliesStay DEF vars, turns, sides, environment
<1> QED BY <1>1, <1>2, <1>3, <1>4, <1>5, ReplyGiven DEF Next

\* A reply is logged in the turn it was spoken in, in a call of any length, also when it was
\* cut short and its text comes while later turns are under way.
THEOREM RepliesStayInTheirTurn == Spec => []RepliesKeepTheirTurn
<1>1. RepliesInv => RepliesKeepTheirTurn
  BY DEF RepliesInv
<1> QED BY <1>1, LogInvAlways, RepliesInvInit, RepliesInvStep, PTL DEF Spec

=============================================================================
