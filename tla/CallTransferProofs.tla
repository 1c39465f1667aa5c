-------------------------- MODULE CallTransferProofs --------------------------
(***************************************************************************)
(* What holds of CallTransfer, for any number of transfers and any number  *)
(* of failing steps and lost events.                                       *)
(*                                                                         *)
(* The first parts of the invariant hold whatever fails: there is one      *)
(* destination that rows, tasks and the bridge can know of, the bridge is  *)
(* made once, and a channel ends once.  The other parts are about calls in *)
(* which no step failed, and follow the channels that end: before the swap *)
(* nothing ends the caller or the media channel, so that no task runs;     *)
(* after it, while the parties stay, only the task of the media channel    *)
(* does, and it keeps the call.                                            *)
(***************************************************************************)
EXTENDS CallTransfer, TLAPS

-----------------------------------------------------------------------------
(* The inductive invariant.                                                *)

\* Before the media channel is created; the last that the agent may be; the
\* steps of the swap once it is recorded, and all that may follow them.
Early == {"arriving", "admitted", "created", "bound", "register", "create"}
Talking == {"running", "find", "mark"}
Swapping == {"add", "track", "remove", "drop", "forget"}
Swapped == Swapping \cup {"close", "over"}

\* The tool serves one transfer, and is done with it when the swap begins.
ToolFits ==
  /\ tool.pc # "idle" => tool.dest \in Destinations
  /\ tool.pc = "dial" => channel[tool.dest] = "none"
  /\ pipeline \in {"find", "mark"} \cup Swapping => tool.pc = "idle"
  /\ latest \in {tool.dest, None}
  /\ pipeline = "mark" => latest # None /\ row.bridge

\* A row that knows of a transfer knows of the last one, and has a bridge.
RowFits(r) ==
  IF r.state = "none" THEN r.dest = None
  ELSE r.bridge /\ r.dest = tool.dest /\ r.dest \in Destinations

TaskFits(c) ==
  /\ RowFits(task[c].row)
  /\ task[c].row.state # "none" => row.state # "none"
  /\ task[c].pc = "keep" => c = Media /\ task[c].row.state = "in-progress"
  /\ task[c].pc \in {"part", "split", "peer"} =>
       task[c].row.state = "complete" /\ c \in {Caller, tool.dest}

\* The destination of the row is the only one that leads to the run, that has
\* a task or that is in the bridge; and from the mark on there is no other.
RowsFit ==
  /\ RowFits(row) /\ \A c \in Channels : TaskFits(c)
  /\ row.state # "none" => pipeline \in Swapped
  /\ pipeline \in Swapping => row.state # "none"
  /\ \A d \in Destinations :
       d \in tracked \/ task[d].pc # "none" \/ d \in bridge.in => d = row.dest

\* The bridge is made once, after the media channel, and saved once.
SetupFits ==
  /\ setup \in Early => pipeline = "off" /\ ~row.bridge
  /\ pipeline = "off" <=> channel[Media] = "none"
  /\ setup \in {"bridging", "saving"} => pipeline # "off" /\ ~pending /\ ~row.bridge
  /\ pending => setup \in {"create", "done"} /\ ~row.bridge

\* What is said of a destination when it has answered.
Answered(d) ==
  \/ <<"StasisStart", d>> \in events
  \/ tool.dest = d /\ (tool.heard = "answered" \/ pipeline \in {"find", "mark"})
  \/ row.dest = d

\* A channel ends once, and a destination that answered ends by itself until
\* the transfer is recorded.
ChannelsFit ==
  /\ channel[Caller] \in {"up", "gone"}
  /\ \A c \in Channels :
       /\ <<"StasisStart", c>> \in events => channel[c] \in {"up", "gone"}
       /\ <<"StasisEnd", c>> \in events => task[c].pc = "none"
       /\ <<"StasisEnd", c>> \in events \/ task[c].pc # "none" => Gone(c)
  /\ \A d \in Destinations : Answered(d) =>
       /\ channel[d] \in {"up", "gone"}
       /\ row.state = "none" => Up(d) \/ d \in left

\* The caller stays, and no step fails: the agent has caller and media channel
\* for as long as it talks, and a bridge that is saved or about to be has the
\* caller in it.
Calm == faults = 0 /\ Caller \notin left

CalmFits ==
  Calm =>
    /\ setup \in Early => Up(Caller)
    /\ pipeline \in Talking =>
         /\ Up(Caller) /\ Up(Media)
         /\ row.bridge \/ setup = "saving" => bridge.open /\ Caller \in bridge.in

\* The destination stays too: nothing but the end of the media channel is in
\* the way of the transfer, and it completes the transfer that is recorded.
Peace == Calm /\ tool.dest \notin left /\ row.state # "none"

PeaceFits ==
  Peace =>
    /\ Up(Caller) /\ Up(row.dest)
    /\ bridge.open /\ Caller \in bridge.in
    /\ IF pipeline = "add" THEN Up(Media) ELSE row.dest \in bridge.in
    /\ task[Media].pc \in {"none", "read", "keep"}
    /\ \/ row.state = "in-progress"
       \/ /\ row.state = "complete" /\ Gone(Media)
          /\ task[Media].pc = "none" /\ <<"StasisEnd", Media>> \notin events

\* Of the parties of a transfer that is terminated one is gone, and the other
\* too unless the task of the first is about to end it.
TerminatedFits ==
  faults = 0 /\ row.state = "terminated" =>
    \E c \in {Caller, row.dest} :
      Gone(c) /\ (task[c].pc \in {"split", "peer"} \/ Gone(Peer(c, row.dest)))

\* A slot is with the admission, or with a pipeline that is on its way.
SlotFits ==
  faults = 0 =>
    /\ slot = "held" => setup \in {"admitted", "created"}
    /\ slot = "bound" =>
         setup \in {"bound", "register", "create"} \/ pipeline \notin {"off", "over"}

TransferInv ==
  /\ TypeOK
  /\ ToolFits /\ RowsFit /\ SetupFits /\ ChannelsFit
  /\ CalmFits /\ PeaceFits /\ TerminatedFits /\ SlotFits

-----------------------------------------------------------------------------
(* Tasks and channels.                                                     *)

\* A task goes on as one.
LEMMA TasksKeepType ==
  ASSUME TypeOK, NEW c \in Channels,
         NEW pc \in {"none", "read", "keep", "part", "split", "peer",
                     "tear", "caller", "media", "keys"},
         TaskGoto(c, pc)
  PROVE  task' \in [Channels -> Tasks]
<1>1. [task[c] EXCEPT !.pc = pc] \in Tasks
  BY DEF TypeOK, Tasks
<1> QED
  BY <1>1 DEF TypeOK, TaskGoto

\* A request to delete a channel.
LEMMA DeleteKeepsTypes ==
  ASSUME TypeOK, NEW c \in Channels, Delete(c)
  PROVE  /\ channel' \in [Channels -> {"none", "ringing", "up", "gone"}]
         /\ bridge' \in [open : BOOLEAN, in : SUBSET Channels]
         /\ events' \subseteq {"StasisStart", "StasisEnd", "ChannelDestroyed"} \X Channels
  BY DEF TypeOK, Delete, End, Up

\* While the caller stays and no step fails, no task runs before the swap.
LEMMA NoTaskYet ==
  ASSUME TypeOK, RowsFit, SetupFits, ChannelsFit, CalmFits,
         Calm, setup \in Early \/ pipeline \in Talking,
         NEW c \in Channels
  PROVE  task[c].pc = "none"
<1>1. row.dest = None
  BY DEF RowsFit, RowFits, SetupFits, Early, Talking, Swapped, Swapping
<1>2. ~Gone(Caller) /\ ~Gone(Media)
  BY DEF CalmFits, SetupFits, Early, Talking, Up, Gone
<1> QED
  BY <1>1, <1>2, TransferAssumption DEF RowsFit, ChannelsFit, Channels

\* What a task that goes on has of its own: its place, and not its row.
LEMMA TaskGoesOn ==
  ASSUME TypeOK, NEW c \in Channels, NEW pc, TaskGoto(c, pc)
  PROVE  \A b \in Channels : /\ task'[b].row = task[b].row
                             /\ task'[b].pc = IF b = c THEN pc ELSE task[b].pc
<1>1. task \in [Channels -> Tasks]
  BY DEF TypeOK
<1>2. task' = [task EXCEPT ![c] = [task[c] EXCEPT !.pc = pc]]
  BY DEF TaskGoto
<1>3. /\ [task[c] EXCEPT !.pc = pc].row = task[c].row
      /\ [task[c] EXCEPT !.pc = pc].pc = pc
  BY <1>1 DEF Tasks
<1> QED
  BY <1>1, <1>2, <1>3

\* Only a channel that leads to the run has a task.
LEMMA StasisEndIsRead ==
  ASSUME TypeOK, NEW c \in Channels, OnStasisEnd(c)
  PROVE  \A b \in Channels :
           /\ task'[b].row = task[b].row
           /\ task'[b].pc = IF b = c /\ c \in tracked THEN "read" ELSE task[b].pc
<1>1. CASE c \in tracked
  <2>1. TaskGoto(c, "read")
    BY <1>1 DEF OnStasisEnd
  <2> QED
    BY <1>1, <2>1, TaskGoesOn
<1>2. CASE c \notin tracked
  BY <1>2 DEF OnStasisEnd
<1> QED
  BY <1>1, <1>2

-----------------------------------------------------------------------------
(* Every step keeps every part of the invariant.                           *)

\* Every step keeps the types of the variables.
LEMMA TypeOKStep ==
  ASSUME TypeOK, ToolFits, RowsFit, [Next]_vars
  PROVE  TypeOK'
<1> USE TransferAssumption DEF TypeOK, Channels, Destinations
<1>1. CASE Admit
  BY <1>1, DeleteKeepsTypes DEF Admit, Reject, Proceed, StartGoto, Setups, asterisk,
    redis
<1>2. CASE CreateRun
  BY <1>2 DEF CreateRun, Proceed, StartGoto, asterisk, redis, Setups
<1>3. CASE Bind
  BY <1>3 DEF Bind, Proceed, StartGoto, asterisk, redis, Setups
<1>4. CASE CheckQuota
  BY <1>4, DeleteKeepsTypes DEF CheckQuota, Reject, Proceed, StartGoto, Setups, asterisk,
    redis
<1>5. CASE AdmissionFails
  <2>1. faults' \in 0 .. MaxFaults
    BY <1>5 DEF AdmissionFails, Fault
  <2>2. setup' \in Setups /\ slot' \in {slot, "free"} /\ Delete(Caller)
    BY <1>5 DEF AdmissionFails, Reject, StartGoto, Setups
  <2> QED
    BY <1>5, <2>1, <2>2, DeleteKeepsTypes DEF AdmissionFails, Reject, redis
<1>6. CASE Register
  BY <1>6 DEF Register, StartGoto, asterisk, Setups
<1>7. CASE CreateMedia
  BY <1>7 DEF CreateMedia, StartGoto, redis, Pipelines, Setups
<1>8. CASE MediaFails
  <2>1. faults' \in 0 .. MaxFaults
    BY <1>8 DEF MediaFails, Fault
  <2>2. setup' \in Setups /\ pending' \in BOOLEAN
    BY <1>8 DEF MediaFails, StartGoto, Setups
  <2> QED
    BY <1>8, <2>1, <2>2 DEF MediaFails, asterisk
<1>9. CASE OnMediaStart
  BY <1>9 DEF OnMediaStart, StartGoto, Setups
<1>10. CASE CreateBridge
  BY <1>10 DEF CreateBridge, StartGoto, Up, redis, Setups
<1>11. CASE SaveBridge
  BY <1>11 DEF SaveBridge, StartGoto, asterisk, redis, Rows, Setups
<1>12. ASSUME NEW d \in Destinations, StartTransfer(d) PROVE TypeOK'
  BY <1>12 DEF StartTransfer, StoreContext, asterisk, Tools
<1>13. CASE Dial
  BY <1>13 DEF Dial, ToolGoto, redis, Tools, ToolFits
<1>14. CASE DialFails
  <2>1. tool.dest \in Destinations
    BY <1>14 DEF DialFails, ToolFits
  <2>2. faults' \in 0 .. MaxFaults
    BY <1>14 DEF DialFails, Fault
  <2>3. tool' \in Tools
    BY <1>14 DEF DialFails, ToolDone, Tools
  <2>4. /\ channel' \in [Channels -> {"none", "ringing", "up", "gone"}]
        /\ context' \in [Destinations -> {"none", "stored", "dialled"}]
        /\ latest' \in Destinations \cup {None}
    BY <1>14, <2>1 DEF DialFails, RemoveContext
  <2> QED
    BY <1>14, <2>2, <2>3, <2>4 DEF DialFails
<1>15. CASE StoreDialled
  BY <1>15 DEF StoreDialled, ToolGoto, StoreContext, asterisk, Tools, ToolFits
<1>16. CASE Subscribe
  BY <1>16 DEF Subscribe, ToolGoto, asterisk, redis, Tools
<1>17. CASE Hear
  BY <1>17 DEF Hear, ToolDone, EndCall, asterisk, redis, Pipelines, Tools
<1>18. CASE TimeOut
  BY <1>18 DEF TimeOut, ToolDone, asterisk, redis, Tools
<1>19. CASE AgentEnds
  BY <1>19 DEF AgentEnds, EndCall, asterisk, redis, Pipelines
<1>20. CASE Hangup
  BY <1>20, DeleteKeepsTypes DEF Hangup, PipelineGoto, Pipelines, redis
<1>21. CASE Find
  BY <1>21 DEF Find, PipelineGoto, Target, asterisk, redis, Pipelines
<1>22. CASE Mark
  BY <1>22 DEF Mark, PipelineGoto, Target, asterisk, redis, Pipelines, Rows,
    Tasks
<1>23. CASE Add
  <2>1. row.dest \in Destinations
    BY <1>23 DEF Add, RowsFit, RowFits, Swapping
  <2>2. bridge' \in [open : BOOLEAN, in : SUBSET Channels]
    BY <1>23, <2>1 DEF Add
  <2>3. pipeline' \in Pipelines
    BY <1>23 DEF Add, PipelineGoto, Pipelines
  <2> QED
    BY <1>23, <2>2, <2>3 DEF Add, redis
<1>24. CASE Track
  BY <1>24 DEF Track, PipelineGoto, asterisk, Pipelines, Rows, RowsFit,
    RowFits, TaskFits, Swapping
<1>25. CASE RemoveMedia
  BY <1>25 DEF RemoveMedia, PipelineGoto, redis, Pipelines
<1>26. CASE DropMedia
  BY <1>26, DeleteKeepsTypes DEF DropMedia, PipelineGoto, Pipelines, redis
<1>27. CASE Forget
  BY <1>27 DEF Forget, PipelineGoto, RemoveContext, asterisk, Pipelines, Rows,
    RowsFit, RowFits, TaskFits, Swapping
<1>28. CASE SwapFails
  BY <1>28 DEF SwapFails, Fault, PipelineGoto, asterisk, redis, Pipelines
<1>29. CASE Close
  BY <1>29, DeleteKeepsTypes DEF Close, PipelineGoto, Pipelines, redis
<1>30. ASSUME NEW d \in Destinations, Answer(d) PROVE TypeOK'
  BY <1>30 DEF Answer, redis
<1>31. ASSUME NEW d \in Destinations, Refuse(d) PROVE TypeOK'
  BY <1>31 DEF Refuse, redis
<1>32. ASSUME NEW c \in Channels, HangUp(c) PROVE TypeOK'
  BY <1>32, DeleteKeepsTypes DEF HangUp, Delete, redis
<1>33. ASSUME NEW e \in events, Lose(e) PROVE TypeOK'
  BY <1>33 DEF Lose, Fault, redis
<1>34. ASSUME NEW d \in Destinations, OnAnswered(d) PROVE TypeOK'
  <2>1. tool' \in Tools
    BY <1>34 DEF OnAnswered, Publish, Tools
  <2>2. events' \subseteq events /\ mapped' \subseteq Destinations
    BY <1>34 DEF OnAnswered
  <2> QED
    BY <1>34, <2>1, <2>2 DEF OnAnswered
<1>35. ASSUME NEW d \in Destinations, OnDestroyed(d) PROVE TypeOK'
  BY <1>35 DEF OnDestroyed, Publish, redis, Tools
<1>36. ASSUME NEW c \in Channels, OnStasisEnd(c) PROVE TypeOK'
  <2>1. task' \in [Channels -> Tasks]
    BY <1>36, TasksKeepType DEF OnStasisEnd
  <2>2. events' \subseteq events
    BY <1>36 DEF OnStasisEnd
  <2> QED
    BY <1>36, <2>1, <2>2 DEF OnStasisEnd, redis
<1>37. ASSUME NEW c \in Channels, ReadRow(c) PROVE TypeOK'
  BY <1>37 DEF ReadRow, Meaning, asterisk, redis, Tasks, Rows
<1>38. ASSUME NEW c \in Channels, Keep(c) PROVE TypeOK'
  BY <1>38 DEF Keep, TaskDone, asterisk, NoTask, EmptyRow, Rows, Tasks
<1>39. ASSUME NEW c \in Channels, Part(c) PROVE TypeOK'
  <2>1. task' \in [Channels -> Tasks]
    BY <1>39, TasksKeepType DEF Part
  <2>2. row' \in Rows
    BY <1>39 DEF Part, Rows, Tasks
  <2> QED
    BY <1>39, <2>1, <2>2 DEF Part, asterisk, redis
<1>40. ASSUME NEW c \in Channels, DeleteBridge(c) PROVE TypeOK'
  <2>1. task' \in [Channels -> Tasks]
    BY <1>40, TasksKeepType DEF DeleteBridge
  <2>2. NoBridge \in [open : BOOLEAN, in : SUBSET Channels]
    BY DEF NoBridge
  <2>3. bridge' \in {bridge, NoBridge}
    BY <1>40 DEF DeleteBridge
  <2> QED
    BY <1>40, <2>1, <2>2, <2>3 DEF DeleteBridge, redis
<1>41. ASSUME NEW c \in Channels, DeletePeer(c) PROVE TypeOK'
  <2>1. task' \in [Channels -> Tasks]
    BY <1>41, TasksKeepType DEF DeletePeer
  <2>2. Peer(c, task[c].row.dest) \in Channels
    BY <1>41 DEF DeletePeer, Peer, RowsFit, TaskFits, RowFits
  <2> QED
    BY <1>41, <2>1, <2>2, DeleteKeepsTypes DEF DeletePeer, redis
<1>42. ASSUME NEW c \in Channels, DeleteLegs(c) PROVE TypeOK'
  <2>1. task' \in [Channels -> Tasks]
    BY <1>42, TasksKeepType DEF DeleteLegs
  <2>2. Delete(Caller) \/ Delete(Media)
    BY <1>42 DEF DeleteLegs
  <2> QED
    BY <1>42, <2>1, <2>2, DeleteKeepsTypes DEF DeleteLegs, redis
<1>43. ASSUME NEW c \in Channels, DeleteKeys(c) PROVE TypeOK'
  BY <1>43 DEF DeleteKeys, TaskDone, asterisk, NoTask, EmptyRow, Tasks, Rows
<1>44. ASSUME NEW c \in Channels, TaskFails(c) PROVE TypeOK'
  BY <1>44 DEF TaskFails, Fault, TaskDone, asterisk, redis, NoTask, EmptyRow,
    Tasks, Rows
<1>45. CASE UNCHANGED vars
  BY <1>45 DEF vars, asterisk, redis
<1> HIDE DEF TypeOK
<1> QED
  BY <1>1, <1>2, <1>3, <1>4, <1>5, <1>6, <1>7, <1>8, <1>9, <1>10, <1>11,
     <1>12, <1>13, <1>14, <1>15, <1>16, <1>17, <1>18, <1>19, <1>20, <1>21,
     <1>22, <1>23, <1>24, <1>25, <1>26, <1>27, <1>28, <1>29, <1>30, <1>31,
     <1>32, <1>33, <1>34, <1>35, <1>36, <1>37, <1>38, <1>39, <1>40, <1>41,
     <1>42, <1>43, <1>44, <1>45 DEF Next, Server, Admission, Setup, Tool,
     Pipeline, Disconnected, Swap, Ending

\* A tool that is idle starts a transfer, and what it is told names the last.
LEMMA ToolFitsStep ==
  ASSUME TypeOK, ToolFits, RowsFit, [Next]_vars
  PROVE  ToolFits'
<1> USE TransferAssumption DEF Channels, Destinations, ToolFits, RowsFit,
  RowFits, TaskFits, Talking, Swapping, Swapped
<1>1. CASE Admit
  BY <1>1 DEF Admit, Reject, Proceed, StartGoto, Delete, redis, asterisk, Up,
    End, TypeOK
<1>2. CASE CheckQuota
  BY <1>2 DEF CheckQuota, Reject, Proceed, StartGoto, Delete, redis, asterisk,
    Up, End, TypeOK
<1>3. CASE AdmissionFails
  BY <1>3 DEF AdmissionFails, Fault, Reject, StartGoto, Delete, redis, Up,
    End, TypeOK
<1>4. CASE CreateMedia
  BY <1>4 DEF CreateMedia, StartGoto, redis, TypeOK
<1>5. CASE SaveBridge
  BY <1>5 DEF SaveBridge, StartGoto, asterisk, redis, TypeOK, Rows
<1>6. ASSUME NEW d \in Destinations, StartTransfer(d) PROVE ToolFits'
  BY <1>6 DEF StartTransfer, StoreContext, asterisk, TypeOK, Tools
<1>7. CASE Dial
  BY <1>7 DEF Dial, ToolGoto, redis, TypeOK, Tools
<1>8. CASE DialFails
  BY <1>8 DEF DialFails, Fault, ToolDone, RemoveContext, TypeOK, Tools
<1>9. CASE StoreDialled
  BY <1>9 DEF StoreDialled, ToolGoto, StoreContext, asterisk, TypeOK, Tools
<1>10. CASE Subscribe
  BY <1>10 DEF Subscribe, ToolGoto, asterisk, redis, TypeOK, Tools
<1>11. CASE Hear
  BY <1>11 DEF Hear, ToolDone, EndCall, asterisk, redis, TypeOK, Tools
<1>12. CASE TimeOut
  BY <1>12 DEF TimeOut, ToolDone, asterisk, redis, TypeOK, Tools
<1>13. CASE AgentEnds
  BY <1>13 DEF AgentEnds, EndCall, asterisk, redis, TypeOK
<1>14. CASE Hangup
  BY <1>14 DEF Hangup, PipelineGoto, Delete, redis, Up, End, TypeOK
<1>15. CASE Find
  BY <1>15 DEF Find, PipelineGoto, Target, asterisk, redis, TypeOK
<1>16. CASE Mark
  BY <1>16 DEF Mark, PipelineGoto, Target, asterisk, redis, TypeOK, Rows
<1>17. CASE Add
  BY <1>17 DEF Add, Up, PipelineGoto, redis, TypeOK
<1>18. CASE Track
  BY <1>18 DEF Track, PipelineGoto, asterisk, TypeOK
<1>19. CASE RemoveMedia
  BY <1>19 DEF RemoveMedia, PipelineGoto, redis, TypeOK
<1>20. CASE DropMedia
  BY <1>20 DEF DropMedia, PipelineGoto, Delete, redis, Up, End, TypeOK
<1>21. CASE Forget
  BY <1>21 DEF Forget, PipelineGoto, RemoveContext, asterisk, TypeOK
<1>22. CASE SwapFails
  BY <1>22 DEF SwapFails, Fault, PipelineGoto, asterisk, redis, TypeOK
<1>23. CASE Close
  BY <1>23 DEF Close, PipelineGoto, Delete, redis, Up, End, TypeOK
<1>24. ASSUME NEW d \in Destinations, Answer(d) PROVE ToolFits'
  BY <1>24 DEF Answer, redis, TypeOK
<1>25. ASSUME NEW d \in Destinations, Refuse(d) PROVE ToolFits'
  BY <1>25 DEF Refuse, redis, TypeOK
<1>26. ASSUME NEW c \in Channels, HangUp(c) PROVE ToolFits'
  BY <1>26 DEF HangUp, Up, End, redis, TypeOK
<1>27. ASSUME NEW d \in Destinations, OnAnswered(d) PROVE ToolFits'
  BY <1>27 DEF OnAnswered, Publish, TypeOK, Tools
<1>28. ASSUME NEW d \in Destinations, OnDestroyed(d) PROVE ToolFits'
  BY <1>28 DEF OnDestroyed, Publish, redis, TypeOK, Tools
<1>29. ASSUME NEW c \in Channels, Keep(c) PROVE ToolFits'
  BY <1>29 DEF Keep, TaskDone, asterisk, NoTask, EmptyRow, TypeOK, Rows, Tasks
<1>30. ASSUME NEW c \in Channels, Part(c) PROVE ToolFits'
  BY <1>30 DEF Part, TaskGoto, asterisk, redis, TypeOK, Rows, Tasks
<1>31. ASSUME NEW c \in Channels, DeletePeer(c) PROVE ToolFits'
  BY <1>31 DEF DeletePeer, TaskGoto, Delete, Peer, redis, Up, End, TypeOK,
    Tasks, Rows
<1>32. ASSUME NEW c \in Channels, DeleteLegs(c) PROVE ToolFits'
  BY <1>32 DEF DeleteLegs, TaskGoto, Delete, redis, Up, End, TypeOK, Tasks,
    Rows
<1>33. ASSUME UNCHANGED <<channel, row, latest, tool, pipeline>>
      PROVE  ToolFits'
  BY <1>33
<1>34. CASE CreateRun \/ Bind \/ Register \/ MediaFails \/ OnMediaStart
           \/ CreateBridge
  BY <1>33, <1>34 DEF CreateRun, Proceed, StartGoto, asterisk, redis, Bind,
    Register, MediaFails, OnMediaStart, CreateBridge
<1>35. ASSUME NEW e \in events, Lose(e)
      PROVE  ToolFits'
  BY <1>33, <1>35 DEF Lose, redis
<1>36. ASSUME NEW c \in Channels, OnStasisEnd(c) \/ ReadRow(c)
             \/ DeleteBridge(c) \/ DeleteKeys(c) \/ TaskFails(c)
      PROVE  ToolFits'
  BY <1>33, <1>36 DEF OnStasisEnd, TaskGoto, redis, ReadRow, Meaning,
    asterisk, DeleteBridge, NoBridge, DeleteKeys, TaskDone, NoTask, EmptyRow,
    TaskFails
<1>37. CASE UNCHANGED vars
  BY <1>33, <1>37 DEF vars, asterisk, redis
<1> HIDE DEF ToolFits, RowsFit, RowFits, TaskFits, Talking, Swapping, Swapped
<1> QED
  BY <1>1, <1>2, <1>3, <1>4, <1>5, <1>6, <1>7, <1>8, <1>9, <1>10, <1>11,
     <1>12, <1>13, <1>14, <1>15, <1>16, <1>17, <1>18, <1>19, <1>20, <1>21,
     <1>22, <1>23, <1>24, <1>25, <1>26, <1>27, <1>28, <1>29, <1>30, <1>31,
     <1>32, <1>33, <1>34, <1>35, <1>36, <1>37 DEF Next, Server, Admission,
     Setup, Tool, Pipeline, Disconnected, Swap, Ending

\* Rows are written whole, but only from rows that knew of the same transfer,
\* and none is begun after it.
LEMMA RowsFitStep ==
  ASSUME TypeOK, ToolFits, RowsFit, SetupFits, [Next]_vars
  PROVE  RowsFit'
<1> USE TransferAssumption DEF Channels, Destinations, ToolFits, RowsFit,
  RowFits, TaskFits, SetupFits, Early, Swapping, Swapped
<1>1. CASE Admit
  BY <1>1 DEF Admit, Reject, Proceed, StartGoto, Delete, redis, asterisk, Up,
    End, TypeOK
<1>2. CASE CheckQuota
  BY <1>2 DEF CheckQuota, Reject, Proceed, StartGoto, Delete, redis, asterisk,
    Up, End, TypeOK
<1>3. CASE AdmissionFails
  BY <1>3 DEF AdmissionFails, Fault, Reject, StartGoto, Delete, redis, Up,
    End, TypeOK
<1>4. CASE Register
  BY <1>4 DEF Register, StartGoto, asterisk, TypeOK
<1>5. CASE CreateMedia
  BY <1>5 DEF CreateMedia, StartGoto, redis, TypeOK
<1>6. CASE CreateBridge
  BY <1>6 DEF CreateBridge, StartGoto, Up, redis, TypeOK
<1>7. CASE SaveBridge
  BY <1>7 DEF SaveBridge, StartGoto, asterisk, redis, TypeOK, Rows
<1>8. ASSUME NEW d \in Destinations, StartTransfer(d) PROVE RowsFit'
  BY <1>8 DEF StartTransfer, StoreContext, asterisk, TypeOK, Tools
<1>9. CASE Dial
  BY <1>9 DEF Dial, ToolGoto, redis, TypeOK, Tools
<1>10. CASE DialFails
  BY <1>10 DEF DialFails, Fault, ToolDone, RemoveContext, TypeOK, Tools
<1>11. CASE StoreDialled
  BY <1>11 DEF StoreDialled, ToolGoto, StoreContext, asterisk, TypeOK, Tools
<1>12. CASE Subscribe
  BY <1>12 DEF Subscribe, ToolGoto, asterisk, redis, TypeOK, Tools
<1>13. CASE Hear
  BY <1>13 DEF Hear, ToolDone, EndCall, asterisk, redis, TypeOK, Tools
<1>14. CASE TimeOut
  BY <1>14 DEF TimeOut, ToolDone, asterisk, redis, TypeOK, Tools
<1>15. CASE AgentEnds
  BY <1>15 DEF AgentEnds, EndCall, asterisk, redis, TypeOK
<1>16. CASE Hangup
  BY <1>16 DEF Hangup, PipelineGoto, Delete, redis, Up, End, TypeOK
<1>17. CASE Find
  BY <1>17 DEF Find, PipelineGoto, Target, asterisk, redis, TypeOK
<1>18. CASE Mark
  BY <1>18 DEF Mark, PipelineGoto, Target, asterisk, redis, TypeOK, Rows
<1>19. CASE Add
  BY <1>19 DEF Add, Up, PipelineGoto, redis, TypeOK
<1>20. CASE Track
  BY <1>20 DEF Track, PipelineGoto, asterisk, TypeOK
<1>21. CASE RemoveMedia
  BY <1>21 DEF RemoveMedia, PipelineGoto, redis, TypeOK
<1>22. CASE DropMedia
  BY <1>22 DEF DropMedia, PipelineGoto, Delete, redis, Up, End, TypeOK
<1>23. CASE Forget
  BY <1>23 DEF Forget, PipelineGoto, RemoveContext, asterisk, TypeOK
<1>24. CASE SwapFails
  BY <1>24 DEF SwapFails, Fault, PipelineGoto, asterisk, redis, TypeOK
<1>25. CASE Close
  BY <1>25 DEF Close, PipelineGoto, Delete, redis, Up, End, TypeOK
<1>26. ASSUME NEW c \in Channels, HangUp(c) PROVE RowsFit'
  BY <1>26 DEF HangUp, Up, End, redis, TypeOK
<1>27. ASSUME NEW d \in Destinations, OnAnswered(d) PROVE RowsFit'
  BY <1>27 DEF OnAnswered, Publish, TypeOK, Tools
<1>28. ASSUME NEW d \in Destinations, OnDestroyed(d) PROVE RowsFit'
  BY <1>28 DEF OnDestroyed, Publish, redis, TypeOK, Tools
<1>29. ASSUME NEW c \in Channels, OnStasisEnd(c) PROVE RowsFit'
  <2>1. UNCHANGED <<row, tool, pipeline, tracked, bridge>>
    BY <1>29 DEF OnStasisEnd, redis
  <2> QED
    BY <1>29, <2>1, StasisEndIsRead
<1>30. ASSUME NEW c \in Channels, ReadRow(c) PROVE RowsFit'
  BY <1>30 DEF ReadRow, Meaning, asterisk, redis, TypeOK, Tasks, Rows
<1>31. ASSUME NEW c \in Channels, Keep(c) PROVE RowsFit'
  BY <1>31 DEF Keep, TaskDone, asterisk, NoTask, EmptyRow, TypeOK, Rows, Tasks
<1>32. ASSUME NEW c \in Channels, Part(c) PROVE RowsFit'
  BY <1>32 DEF Part, TaskGoto, asterisk, redis, TypeOK, Rows, Tasks
<1>33. ASSUME NEW c \in Channels, DeleteBridge(c) PROVE RowsFit'
  BY <1>33 DEF DeleteBridge, TaskGoto, NoBridge, redis, TypeOK, Tasks, Rows
<1>34. ASSUME NEW c \in Channels, DeletePeer(c) PROVE RowsFit'
  BY <1>34 DEF DeletePeer, TaskGoto, Delete, Peer, redis, Up, End, TypeOK,
    Tasks, Rows
<1>35. ASSUME NEW c \in Channels, DeleteLegs(c) PROVE RowsFit'
  <2>1. UNCHANGED <<row, tool, pipeline, tracked>> /\ bridge'.in \subseteq bridge.in
    BY <1>35 DEF DeleteLegs, Delete, End, redis, TypeOK
  <2>2. PICK pc \in {"media", "keys"} : task[c].pc # "none" /\ TaskGoto(c, pc)
    BY <1>35 DEF DeleteLegs
  <2>3. \A b \in Channels : /\ task'[b].row = task[b].row
                           /\ task'[b].pc = IF b = c THEN pc ELSE task[b].pc
    BY <2>2, TaskGoesOn
  <2>4. ASSUME NEW b \in Channels
        PROVE  /\ task'[b].row = task[b].row
               /\ task'[b].pc # "none" => task[b].pc # "none"
               /\ task'[b].pc \in {"keep", "part", "split", "peer"} => task'[b].pc = task[b].pc
    BY <2>2, <2>3
  <2>5. \A b \in Channels : TaskFits(b)'
    BY <2>1, <2>4
  <2>6. \A d \in Destinations : task'[d].pc # "none" \/ d \in bridge'.in =>
                                  task[d].pc # "none" \/ d \in bridge.in
    BY <2>1, <2>4
  <2> QED
    BY <2>1, <2>5, <2>6
<1>36. ASSUME NEW c \in Channels, DeleteKeys(c) PROVE RowsFit'
  BY <1>36 DEF DeleteKeys, TaskDone, asterisk, NoTask, EmptyRow, TypeOK,
    Tasks, Rows
<1>37. ASSUME NEW c \in Channels, TaskFails(c) PROVE RowsFit'
  BY <1>37 DEF TaskFails, Fault, TaskDone, asterisk, redis, NoTask, EmptyRow,
    TypeOK, Tasks, Rows
<1>38. ASSUME UNCHANGED <<bridge, row, tracked, task, tool, pipeline>>
      PROVE  RowsFit'
  BY <1>38
<1>39. CASE CreateRun \/ Bind \/ MediaFails \/ OnMediaStart
  BY <1>38, <1>39 DEF CreateRun, Proceed, StartGoto, asterisk, redis, Bind,
    MediaFails, OnMediaStart
<1>40. ASSUME NEW d \in Destinations, Answer(d) \/ Refuse(d)
      PROVE  RowsFit'
  BY <1>38, <1>40 DEF Answer, redis, Refuse
<1>41. ASSUME NEW e \in events, Lose(e)
      PROVE  RowsFit'
  BY <1>38, <1>41 DEF Lose, redis
<1>42. CASE UNCHANGED vars
  BY <1>38, <1>42 DEF vars, asterisk, redis
<1> HIDE DEF ToolFits, RowsFit, RowFits, TaskFits, SetupFits, Early, Swapping,
  Swapped
<1> QED
  BY <1>1, <1>2, <1>3, <1>4, <1>5, <1>6, <1>7, <1>8, <1>9, <1>10, <1>11,
     <1>12, <1>13, <1>14, <1>15, <1>16, <1>17, <1>18, <1>19, <1>20, <1>21,
     <1>22, <1>23, <1>24, <1>25, <1>26, <1>27, <1>28, <1>29, <1>30, <1>31,
     <1>32, <1>33, <1>34, <1>35, <1>36, <1>37, <1>38, <1>39, <1>40, <1>41,
     <1>42 DEF Next, Server, Admission, Setup, Tool, Pipeline, Disconnected,
     Swap, Ending

\* The media channel waits for its bridge until its StasisStart takes it.
LEMMA SetupFitsStep ==
  ASSUME TypeOK, ToolFits, RowsFit, SetupFits, ChannelsFit, [Next]_vars
  PROVE  SetupFits'
<1> USE TransferAssumption DEF Channels, Destinations, ToolFits, RowsFit,
  RowFits, TaskFits, SetupFits, ChannelsFit, Early
<1>1. CASE Admit
  BY <1>1 DEF Admit, Reject, Proceed, StartGoto, Delete, redis, asterisk, Up,
    End, TypeOK
<1>2. CASE CreateRun
  BY <1>2 DEF CreateRun, Proceed, StartGoto, asterisk, redis, TypeOK
<1>3. CASE Bind
  BY <1>3 DEF Bind, Proceed, StartGoto, asterisk, redis, TypeOK
<1>4. CASE CheckQuota
  BY <1>4 DEF CheckQuota, Reject, Proceed, StartGoto, Delete, redis, asterisk,
    Up, End, TypeOK
<1>5. CASE AdmissionFails
  BY <1>5 DEF AdmissionFails, Fault, Reject, StartGoto, Delete, redis, Up,
    End, TypeOK
<1>6. CASE Register
  BY <1>6 DEF Register, StartGoto, asterisk, TypeOK
<1>7. CASE CreateMedia
  BY <1>7 DEF CreateMedia, StartGoto, redis, TypeOK
<1>8. CASE MediaFails
  BY <1>8 DEF MediaFails, Fault, StartGoto, asterisk, TypeOK
<1>9. CASE OnMediaStart
  BY <1>9 DEF OnMediaStart, StartGoto, TypeOK
<1>10. CASE CreateBridge
  BY <1>10 DEF CreateBridge, StartGoto, Up, redis, TypeOK
<1>11. CASE SaveBridge
  BY <1>11 DEF SaveBridge, StartGoto, asterisk, redis, TypeOK, Rows
<1>12. CASE Dial
  BY <1>12 DEF Dial, ToolGoto, redis, TypeOK, Tools
<1>13. CASE DialFails
  BY <1>13 DEF DialFails, Fault, ToolDone, RemoveContext, TypeOK, Tools
<1>14. CASE Hear
  BY <1>14 DEF Hear, ToolDone, EndCall, asterisk, redis, TypeOK, Tools
<1>15. CASE AgentEnds
  BY <1>15 DEF AgentEnds, EndCall, asterisk, redis, TypeOK
<1>16. CASE Hangup
  BY <1>16 DEF Hangup, PipelineGoto, Delete, redis, Up, End, TypeOK
<1>17. CASE Find
  BY <1>17 DEF Find, PipelineGoto, Target, asterisk, redis, TypeOK
<1>18. CASE Mark
  BY <1>18 DEF Mark, PipelineGoto, Target, asterisk, redis, TypeOK, Rows
<1>19. CASE Add
  BY <1>19 DEF Add, Up, PipelineGoto, redis, TypeOK
<1>20. CASE Track
  BY <1>20 DEF Track, PipelineGoto, asterisk, TypeOK
<1>21. CASE RemoveMedia
  BY <1>21 DEF RemoveMedia, PipelineGoto, redis, TypeOK
<1>22. CASE DropMedia
  BY <1>22 DEF DropMedia, PipelineGoto, Delete, redis, Up, End, TypeOK
<1>23. CASE Forget
  BY <1>23 DEF Forget, PipelineGoto, RemoveContext, asterisk, TypeOK
<1>24. CASE SwapFails
  BY <1>24 DEF SwapFails, Fault, PipelineGoto, asterisk, redis, TypeOK
<1>25. CASE Close
  BY <1>25 DEF Close, PipelineGoto, Delete, redis, Up, End, TypeOK
<1>26. ASSUME NEW d \in Destinations, Answer(d) PROVE SetupFits'
  BY <1>26 DEF Answer, redis, TypeOK
<1>27. ASSUME NEW d \in Destinations, Refuse(d) PROVE SetupFits'
  BY <1>27 DEF Refuse, redis, TypeOK
<1>28. ASSUME NEW c \in Channels, HangUp(c) PROVE SetupFits'
  BY <1>28 DEF HangUp, Up, End, redis, TypeOK
<1>29. ASSUME NEW c \in Channels, Keep(c) PROVE SetupFits'
  BY <1>29 DEF Keep, TaskDone, asterisk, NoTask, EmptyRow, TypeOK, Rows, Tasks
<1>30. ASSUME NEW c \in Channels, Part(c) PROVE SetupFits'
  BY <1>30 DEF Part, TaskGoto, asterisk, redis, TypeOK, Rows, Tasks
<1>31. ASSUME NEW c \in Channels, DeletePeer(c) PROVE SetupFits'
  BY <1>31 DEF DeletePeer, TaskGoto, Delete, Peer, redis, Up, End, TypeOK,
    Tasks, Rows
<1>32. ASSUME NEW c \in Channels, DeleteLegs(c) PROVE SetupFits'
  BY <1>32 DEF DeleteLegs, TaskGoto, Delete, redis, Up, End, TypeOK, Tasks,
    Rows
<1>33. ASSUME UNCHANGED <<channel, row, pending, setup, pipeline>>
      PROVE  SetupFits'
  BY <1>33
<1>34. ASSUME NEW d \in Destinations, StartTransfer(d) \/ OnAnswered(d)
             \/ OnDestroyed(d)
      PROVE  SetupFits'
  BY <1>33, <1>34 DEF StartTransfer, StoreContext, asterisk, OnAnswered,
    Publish, OnDestroyed, redis
<1>35. CASE StoreDialled \/ Subscribe \/ TimeOut
  BY <1>33, <1>35 DEF StoreDialled, ToolGoto, StoreContext, asterisk,
    Subscribe, redis, TimeOut, ToolDone
<1>36. ASSUME NEW e \in events, Lose(e)
      PROVE  SetupFits'
  BY <1>33, <1>36 DEF Lose, redis
<1>37. ASSUME NEW c \in Channels, OnStasisEnd(c) \/ ReadRow(c)
             \/ DeleteBridge(c) \/ DeleteKeys(c) \/ TaskFails(c)
      PROVE  SetupFits'
  BY <1>33, <1>37 DEF OnStasisEnd, TaskGoto, redis, ReadRow, Meaning,
    asterisk, DeleteBridge, NoBridge, DeleteKeys, TaskDone, NoTask, EmptyRow,
    TaskFails
<1>38. CASE UNCHANGED vars
  BY <1>33, <1>38 DEF vars, asterisk, redis
<1> HIDE DEF ToolFits, RowsFit, RowFits, TaskFits, SetupFits, ChannelsFit,
  Early
<1> QED
  BY <1>1, <1>2, <1>3, <1>4, <1>5, <1>6, <1>7, <1>8, <1>9, <1>10, <1>11,
     <1>12, <1>13, <1>14, <1>15, <1>16, <1>17, <1>18, <1>19, <1>20, <1>21,
     <1>22, <1>23, <1>24, <1>25, <1>26, <1>27, <1>28, <1>29, <1>30, <1>31,
     <1>32, <1>33, <1>34, <1>35, <1>36, <1>37, <1>38 DEF Next, Server,
     Admission, Setup, Tool, Pipeline, Disconnected, Swap, Ending

\* Channels end once, and nobody but a task of a transfer ends a destination.
LEMMA ChannelsFitStep ==
  ASSUME TypeOK, ToolFits, RowsFit, SetupFits, ChannelsFit, [Next]_vars
  PROVE  ChannelsFit'
<1> USE TransferAssumption DEF Channels, Destinations, ToolFits, RowsFit,
  RowFits, TaskFits, SetupFits, ChannelsFit, Answered, Up, Gone, Early,
  Swapping, Swapped
<1>1. CASE Admit
  BY <1>1 DEF Admit, Reject, Proceed, StartGoto, Delete, redis, asterisk, End,
    TypeOK
<1>2. CASE CheckQuota
  BY <1>2 DEF CheckQuota, Reject, Proceed, StartGoto, Delete, redis, asterisk,
    End, TypeOK
<1>3. CASE AdmissionFails
  BY <1>3 DEF AdmissionFails, Fault, Reject, StartGoto, Delete, redis, End,
    TypeOK
<1>4. CASE CreateMedia
  BY <1>4 DEF CreateMedia, StartGoto, redis, TypeOK
<1>5. CASE OnMediaStart
  BY <1>5 DEF OnMediaStart, StartGoto, TypeOK
<1>6. CASE SaveBridge
  BY <1>6 DEF SaveBridge, StartGoto, asterisk, redis, TypeOK, Rows
<1>7. ASSUME NEW d \in Destinations, StartTransfer(d) PROVE ChannelsFit'
  BY <1>7 DEF StartTransfer, StoreContext, asterisk, TypeOK, Tools
<1>8. CASE Dial
  BY <1>8 DEF Dial, ToolGoto, redis, TypeOK, Tools
<1>9. CASE DialFails
  BY <1>9 DEF DialFails, Fault, ToolDone, RemoveContext, TypeOK, Tools
<1>10. CASE StoreDialled
  BY <1>10 DEF StoreDialled, ToolGoto, StoreContext, asterisk, TypeOK, Tools
<1>11. CASE Subscribe
  BY <1>11 DEF Subscribe, ToolGoto, asterisk, redis, TypeOK, Tools
<1>12. CASE Hear
  BY <1>12 DEF Hear, ToolDone, EndCall, asterisk, redis, TypeOK, Tools
<1>13. CASE TimeOut
  BY <1>13 DEF TimeOut, ToolDone, asterisk, redis, TypeOK, Tools
<1>14. CASE AgentEnds
  BY <1>14 DEF AgentEnds, EndCall, asterisk, redis, TypeOK
<1>15. CASE Hangup
  BY <1>15 DEF Hangup, PipelineGoto, Delete, redis, End, TypeOK
<1>16. CASE Find
  BY <1>16 DEF Find, PipelineGoto, Target, asterisk, redis, TypeOK
<1>17. CASE Mark
  BY <1>17 DEF Mark, PipelineGoto, Target, asterisk, redis, TypeOK, Rows
<1>18. CASE Add
  BY <1>18 DEF Add, PipelineGoto, redis, TypeOK
<1>19. CASE Track
  BY <1>19 DEF Track, PipelineGoto, asterisk, TypeOK
<1>20. CASE RemoveMedia
  BY <1>20 DEF RemoveMedia, PipelineGoto, redis, TypeOK
<1>21. CASE DropMedia
  BY <1>21 DEF DropMedia, PipelineGoto, Delete, redis, End, TypeOK
<1>22. CASE Forget
  BY <1>22 DEF Forget, PipelineGoto, RemoveContext, asterisk, TypeOK
<1>23. CASE SwapFails
  BY <1>23 DEF SwapFails, Fault, PipelineGoto, asterisk, redis, TypeOK
<1>24. CASE Close
  BY <1>24 DEF Close, PipelineGoto, Delete, redis, End, TypeOK
<1>25. ASSUME NEW d \in Destinations, Answer(d) PROVE ChannelsFit'
  BY <1>25 DEF Answer, redis, TypeOK
<1>26. ASSUME NEW d \in Destinations, Refuse(d) PROVE ChannelsFit'
  BY <1>26 DEF Refuse, redis, TypeOK
<1>27. ASSUME NEW c \in Channels, HangUp(c) PROVE ChannelsFit'
  BY <1>27 DEF HangUp, End, redis, TypeOK
<1>28. ASSUME NEW e \in events, Lose(e) PROVE ChannelsFit'
  BY <1>28 DEF Lose, Fault, redis, TypeOK
<1>29. ASSUME NEW d \in Destinations, OnAnswered(d) PROVE ChannelsFit'
  BY <1>29 DEF OnAnswered, Publish, TypeOK, Tools
<1>30. ASSUME NEW d \in Destinations, OnDestroyed(d) PROVE ChannelsFit'
  BY <1>30 DEF OnDestroyed, Publish, redis, TypeOK, Tools
<1>31. ASSUME NEW c \in Channels, OnStasisEnd(c) PROVE ChannelsFit'
  BY <1>31 DEF OnStasisEnd, TaskGoto, redis, TypeOK, Tasks, Rows
<1>32. ASSUME NEW c \in Channels, ReadRow(c) PROVE ChannelsFit'
  BY <1>32 DEF ReadRow, Meaning, asterisk, redis, TypeOK, Tasks, Rows
<1>33. ASSUME NEW c \in Channels, Keep(c) PROVE ChannelsFit'
  BY <1>33 DEF Keep, TaskDone, asterisk, NoTask, EmptyRow, TypeOK, Rows, Tasks
<1>34. ASSUME NEW c \in Channels, Part(c) PROVE ChannelsFit'
  BY <1>34 DEF Part, TaskGoto, asterisk, redis, TypeOK, Rows, Tasks
<1>35. ASSUME NEW c \in Channels, DeleteBridge(c) PROVE ChannelsFit'
  BY <1>35 DEF DeleteBridge, TaskGoto, NoBridge, redis, TypeOK, Tasks, Rows
<1>36. ASSUME NEW c \in Channels, DeletePeer(c) PROVE ChannelsFit'
  BY <1>36 DEF DeletePeer, TaskGoto, Delete, Peer, redis, End, TypeOK, Tasks,
    Rows
<1>37. ASSUME NEW c \in Channels, DeleteLegs(c) PROVE ChannelsFit'
  BY <1>37 DEF DeleteLegs, TaskGoto, Delete, redis, End, TypeOK, Tasks, Rows
<1>38. ASSUME NEW c \in Channels, DeleteKeys(c) PROVE ChannelsFit'
  BY <1>38 DEF DeleteKeys, TaskDone, asterisk, NoTask, EmptyRow, TypeOK,
    Tasks, Rows
<1>39. ASSUME NEW c \in Channels, TaskFails(c) PROVE ChannelsFit'
  BY <1>39 DEF TaskFails, Fault, TaskDone, asterisk, redis, NoTask, EmptyRow,
    TypeOK, Tasks, Rows
<1>40. ASSUME UNCHANGED <<channel, left, events, row, task, tool, pipeline>>
      PROVE  ChannelsFit'
  BY <1>40
<1>41. CASE CreateRun \/ Bind \/ Register \/ MediaFails \/ CreateBridge
  BY <1>40, <1>41 DEF CreateRun, Proceed, StartGoto, asterisk, redis, Bind,
    Register, MediaFails, CreateBridge
<1>42. CASE UNCHANGED vars
  BY <1>40, <1>42 DEF vars, asterisk, redis
<1> HIDE DEF ToolFits, RowsFit, RowFits, TaskFits, SetupFits, ChannelsFit,
  Answered, Up, Gone, Early, Swapping, Swapped
<1> QED
  BY <1>1, <1>2, <1>3, <1>4, <1>5, <1>6, <1>7, <1>8, <1>9, <1>10, <1>11,
     <1>12, <1>13, <1>14, <1>15, <1>16, <1>17, <1>18, <1>19, <1>20, <1>21,
     <1>22, <1>23, <1>24, <1>25, <1>26, <1>27, <1>28, <1>29, <1>30, <1>31,
     <1>32, <1>33, <1>34, <1>35, <1>36, <1>37, <1>38, <1>39, <1>40, <1>41,
     <1>42 DEF Next, Server, Admission, Setup, Tool, Pipeline, Disconnected,
     Swap, Ending

\* Under the agent nothing ends the caller or the media channel, for only the
\* end of one of them begins a task.
LEMMA CalmFitsStep ==
  ASSUME TypeOK, ToolFits, RowsFit, SetupFits, ChannelsFit, CalmFits,
         [Next]_vars
  PROVE  CalmFits'
<1> USE TransferAssumption DEF Channels, Destinations, ToolFits, RowsFit,
  RowFits, TaskFits, SetupFits, ChannelsFit, CalmFits, Calm, Up, Gone, Early,
  Talking, Swapping, Swapped
<1>1. CASE Admit
  BY <1>1 DEF Admit, Reject, Proceed, StartGoto, Delete, redis, asterisk, End,
    TypeOK
<1>2. CASE CreateRun
  BY <1>2 DEF CreateRun, Proceed, StartGoto, asterisk, redis, TypeOK
<1>3. CASE Bind
  BY <1>3 DEF Bind, Proceed, StartGoto, asterisk, redis, TypeOK
<1>4. CASE CheckQuota
  BY <1>4 DEF CheckQuota, Reject, Proceed, StartGoto, Delete, redis, asterisk,
    End, TypeOK
<1>5. CASE AdmissionFails
  BY <1>5 DEF AdmissionFails, Fault, Reject, StartGoto, Delete, redis, End,
    TypeOK
<1>6. CASE Register
  BY <1>6 DEF Register, StartGoto, asterisk, TypeOK
<1>7. CASE CreateMedia
  BY <1>7 DEF CreateMedia, StartGoto, redis, TypeOK
<1>8. CASE MediaFails
  BY <1>8 DEF MediaFails, Fault, StartGoto, asterisk, TypeOK
<1>9. CASE OnMediaStart
  BY <1>9 DEF OnMediaStart, StartGoto, TypeOK
<1>10. CASE CreateBridge
  BY <1>10 DEF CreateBridge, StartGoto, redis, TypeOK
<1>11. CASE SaveBridge
  BY <1>11 DEF SaveBridge, StartGoto, asterisk, redis, TypeOK, Rows
<1>12. CASE Dial
  BY <1>12 DEF Dial, ToolGoto, redis, TypeOK, Tools
<1>13. CASE DialFails
  BY <1>13 DEF DialFails, Fault, ToolDone, RemoveContext, TypeOK, Tools
<1>14. CASE Hear
  BY <1>14 DEF Hear, ToolDone, EndCall, asterisk, redis, TypeOK, Tools
<1>15. CASE AgentEnds
  BY <1>15 DEF AgentEnds, EndCall, asterisk, redis, TypeOK
<1>16. CASE Hangup
  BY <1>16 DEF Hangup, PipelineGoto, Delete, redis, End, TypeOK
<1>17. CASE Find
  BY <1>17 DEF Find, PipelineGoto, Target, asterisk, redis, TypeOK
<1>18. CASE Mark
  BY <1>18 DEF Mark, PipelineGoto, Target, asterisk, redis, TypeOK, Rows
<1>19. CASE Add
  BY <1>19 DEF Add, PipelineGoto, redis, TypeOK
<1>20. CASE Track
  BY <1>20 DEF Track, PipelineGoto, asterisk, TypeOK
<1>21. CASE RemoveMedia
  BY <1>21 DEF RemoveMedia, PipelineGoto, redis, TypeOK
<1>22. CASE DropMedia
  BY <1>22 DEF DropMedia, PipelineGoto, Delete, redis, End, TypeOK
<1>23. CASE Forget
  BY <1>23 DEF Forget, PipelineGoto, RemoveContext, asterisk, TypeOK
<1>24. CASE SwapFails
  BY <1>24 DEF SwapFails, Fault, PipelineGoto, asterisk, redis, TypeOK
<1>25. CASE Close
  BY <1>25 DEF Close, PipelineGoto, Delete, redis, End, TypeOK
<1>26. ASSUME NEW d \in Destinations, Answer(d) PROVE CalmFits'
  BY <1>26 DEF Answer, redis, TypeOK
<1>27. ASSUME NEW d \in Destinations, Refuse(d) PROVE CalmFits'
  BY <1>27 DEF Refuse, redis, TypeOK
<1>28. ASSUME NEW c \in Channels, HangUp(c) PROVE CalmFits'
  BY <1>28 DEF HangUp, End, redis, TypeOK
<1>29. ASSUME NEW e \in events, Lose(e) PROVE CalmFits'
  BY <1>29 DEF Lose, Fault, redis, TypeOK
<1>30. ASSUME NEW c \in Channels, Keep(c) PROVE CalmFits'
  BY <1>30 DEF Keep, TaskDone, asterisk, NoTask, EmptyRow, TypeOK, Rows, Tasks
<1>31. ASSUME NEW c \in Channels, Part(c) PROVE CalmFits'
  BY <1>31 DEF Part, TaskGoto, asterisk, redis, TypeOK, Rows, Tasks
<1>32. ASSUME NEW c \in Channels, DeleteBridge(c) PROVE CalmFits'
  BY <1>32, NoTaskYet DEF DeleteBridge, TaskGoto, NoBridge, redis, TypeOK,
    Tasks, Rows
<1>33. ASSUME NEW c \in Channels, DeletePeer(c) PROVE CalmFits'
  BY <1>33, NoTaskYet DEF DeletePeer, TaskGoto, Delete, Peer, redis, End,
    TypeOK, Tasks, Rows
<1>34. ASSUME NEW c \in Channels, DeleteLegs(c) PROVE CalmFits'
  BY <1>34, NoTaskYet DEF DeleteLegs, TaskGoto, Delete, redis, End, TypeOK,
    Tasks, Rows
<1>35. ASSUME NEW c \in Channels, TaskFails(c) PROVE CalmFits'
  BY <1>35 DEF TaskFails, Fault, TaskDone, asterisk, redis, NoTask, EmptyRow,
    TypeOK, Tasks, Rows
<1>36. ASSUME UNCHANGED <<channel, bridge, left, row, setup, pipeline, faults>>
      PROVE  CalmFits'
  BY <1>36
<1>37. ASSUME NEW d \in Destinations, StartTransfer(d) \/ OnAnswered(d)
             \/ OnDestroyed(d)
      PROVE  CalmFits'
  BY <1>36, <1>37 DEF StartTransfer, StoreContext, asterisk, OnAnswered,
    Publish, OnDestroyed, redis
<1>38. CASE StoreDialled \/ Subscribe \/ TimeOut
  BY <1>36, <1>38 DEF StoreDialled, ToolGoto, StoreContext, asterisk,
    Subscribe, redis, TimeOut, ToolDone
<1>39. ASSUME NEW c \in Channels, OnStasisEnd(c) \/ ReadRow(c)
             \/ DeleteKeys(c)
      PROVE  CalmFits'
  BY <1>36, <1>39 DEF OnStasisEnd, TaskGoto, redis, ReadRow, Meaning,
    asterisk, DeleteKeys, TaskDone, NoTask, EmptyRow
<1>40. CASE UNCHANGED vars
  BY <1>36, <1>40 DEF vars, asterisk, redis
<1> HIDE DEF ToolFits, RowsFit, RowFits, TaskFits, SetupFits, ChannelsFit,
  CalmFits, Calm, Up, Gone, Early, Talking, Swapping, Swapped
<1> QED
  BY <1>1, <1>2, <1>3, <1>4, <1>5, <1>6, <1>7, <1>8, <1>9, <1>10, <1>11,
     <1>12, <1>13, <1>14, <1>15, <1>16, <1>17, <1>18, <1>19, <1>20, <1>21,
     <1>22, <1>23, <1>24, <1>25, <1>26, <1>27, <1>28, <1>29, <1>30, <1>31,
     <1>32, <1>33, <1>34, <1>35, <1>36, <1>37, <1>38, <1>39, <1>40 DEF Next,
     Server, Admission, Setup, Tool, Pipeline, Disconnected, Swap, Ending

\* The steps of the swap and the end of the media channel, in any order, leave
\* caller and destination in the bridge.
LEMMA PeaceFitsStep ==
  ASSUME TransferInv, [Next]_vars
  PROVE  PeaceFits'
<1> USE TransferAssumption DEF Channels, Destinations, TransferInv, ToolFits,
  RowsFit, RowFits, TaskFits, SetupFits, ChannelsFit, Answered, CalmFits,
  PeaceFits, Peace, Calm, Up, Gone, Early, Talking, Swapping, Swapped
<1>1. CASE Admit
  BY <1>1 DEF Admit, Reject, Proceed, StartGoto, Delete, redis, asterisk, End,
    TypeOK
<1>2. CASE CheckQuota
  BY <1>2 DEF CheckQuota, Reject, Proceed, StartGoto, Delete, redis, asterisk,
    End, TypeOK
<1>3. CASE AdmissionFails
  BY <1>3 DEF AdmissionFails, Fault, Reject, StartGoto, Delete, redis, End,
    TypeOK
<1>4. CASE CreateMedia
  BY <1>4 DEF CreateMedia, StartGoto, redis, TypeOK
<1>5. CASE MediaFails
  BY <1>5 DEF MediaFails, Fault, StartGoto, asterisk, TypeOK
<1>6. CASE OnMediaStart
  BY <1>6 DEF OnMediaStart, StartGoto, TypeOK
<1>7. CASE CreateBridge
  BY <1>7 DEF CreateBridge, StartGoto, redis, TypeOK
<1>8. CASE SaveBridge
  BY <1>8 DEF SaveBridge, StartGoto, asterisk, redis, TypeOK, Rows
<1>9. ASSUME NEW d \in Destinations, StartTransfer(d) PROVE PeaceFits'
  BY <1>9 DEF StartTransfer, StoreContext, asterisk, TypeOK, Tools
<1>10. CASE Dial
  BY <1>10 DEF Dial, ToolGoto, redis, TypeOK, Tools
<1>11. CASE DialFails
  BY <1>11 DEF DialFails, Fault, ToolDone, RemoveContext, TypeOK, Tools
<1>12. CASE StoreDialled
  BY <1>12 DEF StoreDialled, ToolGoto, StoreContext, asterisk, TypeOK, Tools
<1>13. CASE Subscribe
  BY <1>13 DEF Subscribe, ToolGoto, asterisk, redis, TypeOK, Tools
<1>14. CASE Hear
  BY <1>14 DEF Hear, ToolDone, EndCall, asterisk, redis, TypeOK, Tools
<1>15. CASE TimeOut
  BY <1>15 DEF TimeOut, ToolDone, asterisk, redis, TypeOK, Tools
<1>16. CASE AgentEnds
  BY <1>16 DEF AgentEnds, EndCall, asterisk, redis, TypeOK
<1>17. CASE Hangup
  BY <1>17 DEF Hangup, PipelineGoto, Delete, redis, End, TypeOK
<1>18. CASE Find
  BY <1>18 DEF Find, PipelineGoto, Target, asterisk, redis, TypeOK
<1>19. CASE Mark
  <2> SUFFICES ASSUME Peace' PROVE PeaceFits'
    BY DEF PeaceFits
  <2>1. /\ UNCHANGED <<faults, left, tool, channel, bridge, events, task, setup>>
        /\ pipeline = "mark" /\ pipeline' = "add"
    BY <1>19 DEF Mark, PipelineGoto, asterisk, redis
  <2>2. latest = tool.dest /\ tool.dest \in Destinations /\ row.bridge /\ row.state = "none"
    BY <2>1 DEF TypeOK
  <2>3. row'.state = "in-progress" /\ row'.dest = tool.dest
    BY <1>19, <2>2 DEF Mark, Target, Rows
  <2>4. Up(tool.dest)
    BY <2>1, <2>2
  <2>5. Up(Caller) /\ Up(Media) /\ bridge.open /\ Caller \in bridge.in
    BY <2>1, <2>2
  <2>6. task[Media].pc = "none"
    BY <2>5
  <2> QED
    BY <2>1, <2>3, <2>4, <2>5, <2>6
<1>20. CASE Add
  BY <1>20 DEF Add, PipelineGoto, redis, TypeOK
<1>21. CASE Track
  BY <1>21 DEF Track, PipelineGoto, asterisk, TypeOK
<1>22. CASE RemoveMedia
  BY <1>22 DEF RemoveMedia, PipelineGoto, redis, TypeOK
<1>23. CASE DropMedia
  <2> SUFFICES ASSUME Peace' PROVE PeaceFits'
    BY DEF PeaceFits
  <2>1. /\ Delete(Media) /\ pipeline = "drop" /\ pipeline' = "forget"
        /\ UNCHANGED <<faults, left, tool, row, task>>
    BY <1>23 DEF DropMedia, PipelineGoto, redis
  <2>2. Peace /\ Caller # Media /\ row.dest # Media
    BY <2>1
  <2>3. bridge'.open = bridge.open /\ bridge.in \ {Media} \subseteq bridge'.in
    BY <2>1 DEF Delete, End, TypeOK
  <2>4. channel'[Caller] = channel[Caller] /\ channel'[row.dest] = channel[row.dest]
    BY <2>1, <2>2 DEF Delete, End, TypeOK
  <2>5. CASE Up(Media)
    BY <2>1, <2>2, <2>3, <2>4, <2>5
  <2>6. CASE ~Up(Media)
    BY <2>1, <2>2, <2>4, <2>6 DEF Delete
  <2> QED
    BY <2>5, <2>6
<1>24. CASE Forget
  BY <1>24 DEF Forget, PipelineGoto, RemoveContext, asterisk, TypeOK
<1>25. CASE SwapFails
  BY <1>25 DEF SwapFails, Fault, PipelineGoto, asterisk, redis, TypeOK
<1>26. CASE Close
  <2> SUFFICES ASSUME Peace' PROVE PeaceFits'
    BY DEF PeaceFits
  <2>1. /\ Delete(Media) /\ pipeline = "close" /\ pipeline' = "over"
        /\ UNCHANGED <<faults, left, tool, row, task>>
    BY <1>26 DEF Close, PipelineGoto, redis
  <2>2. Peace /\ Caller # Media /\ row.dest # Media
    BY <2>1
  <2>3. bridge'.open = bridge.open /\ bridge.in \ {Media} \subseteq bridge'.in
    BY <2>1 DEF Delete, End, TypeOK
  <2>4. channel'[Caller] = channel[Caller] /\ channel'[row.dest] = channel[row.dest]
    BY <2>1, <2>2 DEF Delete, End, TypeOK
  <2>5. CASE Up(Media)
    BY <2>1, <2>2, <2>3, <2>4, <2>5
  <2>6. CASE ~Up(Media)
    BY <2>1, <2>2, <2>4, <2>6 DEF Delete
  <2> QED
    BY <2>5, <2>6
<1>27. ASSUME NEW d \in Destinations, Answer(d) PROVE PeaceFits'
  BY <1>27 DEF Answer, redis, TypeOK
<1>28. ASSUME NEW d \in Destinations, Refuse(d) PROVE PeaceFits'
  BY <1>28 DEF Refuse, redis, TypeOK
<1>29. ASSUME NEW c \in Channels, HangUp(c) PROVE PeaceFits'
  BY <1>29 DEF HangUp, End, redis, TypeOK
<1>30. ASSUME NEW e \in events, Lose(e) PROVE PeaceFits'
  BY <1>30 DEF Lose, Fault, redis, TypeOK
<1>31. ASSUME NEW d \in Destinations, OnAnswered(d) PROVE PeaceFits'
  <2>1. tool'.dest = tool.dest
    BY <1>31 DEF OnAnswered, Publish, TypeOK, Tools
  <2>2. events' \subseteq events
    BY <1>31 DEF OnAnswered
  <2>3. UNCHANGED <<faults, left, row, channel, bridge, pipeline, task>>
    BY <1>31 DEF OnAnswered
  <2> QED
    BY <2>1, <2>2, <2>3
<1>32. ASSUME NEW d \in Destinations, OnDestroyed(d) PROVE PeaceFits'
  <2>1. tool'.dest = tool.dest
    BY <1>32 DEF OnDestroyed, Publish, TypeOK, Tools
  <2>2. events' \subseteq events
    BY <1>32 DEF OnDestroyed
  <2>3. UNCHANGED <<faults, left, row, channel, bridge, pipeline, task>>
    BY <1>32 DEF OnDestroyed, redis
  <2> QED
    BY <2>1, <2>2, <2>3
<1>33. ASSUME NEW c \in Channels, OnStasisEnd(c) PROVE PeaceFits'
  <2> SUFFICES ASSUME Peace' PROVE PeaceFits'
    BY DEF PeaceFits
  <2>1. /\ UNCHANGED <<faults, left, tool, row, channel, bridge, pipeline>>
        /\ <<"StasisEnd", c>> \in events /\ events' = events \ {<<"StasisEnd", c>>}
    BY <1>33 DEF OnStasisEnd, redis
  <2>2. task'[Media].pc = IF Media = c /\ c \in tracked THEN "read" ELSE task[Media].pc
    BY <1>33, StasisEndIsRead
  <2>3. c = Media => row.state = "in-progress" /\ task[Media].pc = "none"
    BY <2>1
  <2> QED
    BY <2>1, <2>2, <2>3
<1>34. ASSUME NEW c \in Channels, ReadRow(c) PROVE PeaceFits'
  BY <1>34 DEF ReadRow, Meaning, asterisk, redis, TypeOK, Tasks, Rows
<1>35. ASSUME NEW c \in Channels, Keep(c) PROVE PeaceFits'
  <2> SUFFICES ASSUME Peace' PROVE PeaceFits'
    BY DEF PeaceFits
  <2>1. UNCHANGED <<faults, left, tool, channel, bridge, pipeline, events>>
    BY <1>35 DEF Keep, asterisk
  <2>2. c = Media /\ task[c].row.state = "in-progress"
    BY <1>35 DEF Keep
  <2>3. row'.state = "complete" /\ row'.dest = tool.dest
    BY <1>35, <2>2 DEF Keep
  <2>4. row.dest = tool.dest /\ Peace
    BY <2>1, <2>2
  <2>5. task'[Media].pc = "none"
    BY <1>35, <2>2 DEF Keep, TaskDone, NoTask, TypeOK
  <2>6. Gone(Media) /\ <<"StasisEnd", Media>> \notin events
    BY <1>35, <2>2 DEF Keep
  <2> QED
    BY <2>1, <2>3, <2>4, <2>5, <2>6
<1>36. ASSUME NEW c \in Channels, Part(c) PROVE PeaceFits'
  BY <1>36 DEF Part, TaskGoto, asterisk, redis, TypeOK, Rows, Tasks
<1>37. ASSUME NEW c \in Channels, DeleteBridge(c) PROVE PeaceFits'
  BY <1>37 DEF DeleteBridge, TaskGoto, NoBridge, redis, TypeOK, Tasks, Rows
<1>38. ASSUME NEW c \in Channels, DeletePeer(c) PROVE PeaceFits'
  BY <1>38 DEF DeletePeer, TaskGoto, Delete, Peer, redis, End, TypeOK, Tasks,
    Rows
<1>39. ASSUME NEW c \in Channels, DeleteLegs(c) PROVE PeaceFits'
  BY <1>39 DEF DeleteLegs, TaskGoto, Delete, redis, End, TypeOK, Tasks, Rows
<1>40. ASSUME NEW c \in Channels, DeleteKeys(c) PROVE PeaceFits'
  BY <1>40 DEF DeleteKeys, TaskDone, asterisk, NoTask, EmptyRow, TypeOK,
    Tasks, Rows
<1>41. ASSUME NEW c \in Channels, TaskFails(c) PROVE PeaceFits'
  BY <1>41 DEF TaskFails, Fault, TaskDone, asterisk, redis, NoTask, EmptyRow,
    TypeOK, Tasks, Rows
<1>42. ASSUME UNCHANGED <<channel, bridge, left, events, row, task, tool, pipeline, faults>>
      PROVE  PeaceFits'
  BY <1>42
<1>43. CASE CreateRun \/ Bind \/ Register
  BY <1>42, <1>43 DEF CreateRun, Proceed, StartGoto, asterisk, redis, Bind,
    Register
<1>44. CASE UNCHANGED vars
  BY <1>42, <1>44 DEF vars, asterisk, redis
<1> HIDE DEF TransferInv, ToolFits, RowsFit, RowFits, TaskFits, SetupFits,
  ChannelsFit, Answered, CalmFits, PeaceFits, Peace, Calm, Up, Gone, Early,
  Talking, Swapping, Swapped
<1> QED
  BY <1>1, <1>2, <1>3, <1>4, <1>5, <1>6, <1>7, <1>8, <1>9, <1>10, <1>11,
     <1>12, <1>13, <1>14, <1>15, <1>16, <1>17, <1>18, <1>19, <1>20, <1>21,
     <1>22, <1>23, <1>24, <1>25, <1>26, <1>27, <1>28, <1>29, <1>30, <1>31,
     <1>32, <1>33, <1>34, <1>35, <1>36, <1>37, <1>38, <1>39, <1>40, <1>41,
     <1>42, <1>43, <1>44 DEF Next, Server, Admission, Setup, Tool, Pipeline,
     Disconnected, Swap, Ending

\* A transfer is terminated by the task of a party that is gone, and that task
\* ends the other before it is done.
LEMMA TerminatedFitsStep ==
  ASSUME TypeOK, ToolFits, RowsFit, ChannelsFit, TerminatedFits, [Next]_vars
  PROVE  TerminatedFits'
<1> USE TransferAssumption DEF Channels, Destinations, ToolFits, RowsFit,
  RowFits, TaskFits, ChannelsFit, TerminatedFits, Gone, Peer, Swapped
<1>1. CASE Admit
  BY <1>1 DEF Admit, Reject, Proceed, StartGoto, Delete, redis, asterisk, Up,
    End, TypeOK
<1>2. CASE CheckQuota
  BY <1>2 DEF CheckQuota, Reject, Proceed, StartGoto, Delete, redis, asterisk,
    Up, End, TypeOK
<1>3. CASE AdmissionFails
  BY <1>3 DEF AdmissionFails, Fault, Reject, StartGoto, Delete, redis, Up,
    End, TypeOK
<1>4. CASE CreateMedia
  BY <1>4 DEF CreateMedia, StartGoto, redis, TypeOK
<1>5. CASE MediaFails
  BY <1>5 DEF MediaFails, Fault, StartGoto, asterisk, TypeOK
<1>6. CASE SaveBridge
  BY <1>6 DEF SaveBridge, StartGoto, asterisk, redis, TypeOK, Rows
<1>7. CASE Dial
  BY <1>7 DEF Dial, ToolGoto, redis, TypeOK, Tools
<1>8. CASE DialFails
  BY <1>8 DEF DialFails, Fault, ToolDone, RemoveContext, TypeOK, Tools
<1>9. CASE Hangup
  BY <1>9 DEF Hangup, PipelineGoto, Delete, redis, Up, End, TypeOK
<1>10. CASE Mark
  BY <1>10 DEF Mark, PipelineGoto, Target, asterisk, redis, TypeOK, Rows
<1>11. CASE DropMedia
  BY <1>11 DEF DropMedia, PipelineGoto, Delete, redis, Up, End, TypeOK
<1>12. CASE SwapFails
  BY <1>12 DEF SwapFails, Fault, PipelineGoto, asterisk, redis, TypeOK
<1>13. CASE Close
  BY <1>13 DEF Close, PipelineGoto, Delete, redis, Up, End, TypeOK
<1>14. ASSUME NEW d \in Destinations, Answer(d) PROVE TerminatedFits'
  BY <1>14 DEF Answer, redis, TypeOK
<1>15. ASSUME NEW d \in Destinations, Refuse(d) PROVE TerminatedFits'
  BY <1>15 DEF Refuse, redis, TypeOK
<1>16. ASSUME NEW c \in Channels, HangUp(c) PROVE TerminatedFits'
  BY <1>16 DEF HangUp, Up, End, redis, TypeOK
<1>17. ASSUME NEW e \in events, Lose(e) PROVE TerminatedFits'
  BY <1>17 DEF Lose, Fault, redis, TypeOK
<1>18. ASSUME NEW c \in Channels, OnStasisEnd(c) PROVE TerminatedFits'
  <2> SUFFICES ASSUME row.state = "terminated", faults = 0 PROVE TerminatedFits'
    BY <1>18 DEF OnStasisEnd
  <2>1. task[c].pc = "none" /\ UNCHANGED <<faults, row, channel>>
    BY <1>18 DEF OnStasisEnd, redis
  <2>2. PICK b \in {Caller, row.dest} :
          Gone(b) /\ (task[b].pc \in {"split", "peer"} \/ Gone(Peer(b, row.dest)))
    OBVIOUS
  <2>3. b \in Channels
    OBVIOUS
  <2>4. task[b].pc \in {"split", "peer"} => task'[b].pc = task[b].pc
    BY <1>18, <2>1, <2>3, StasisEndIsRead
  <2> QED
    BY <2>1, <2>2, <2>4
<1>19. ASSUME NEW c \in Channels, ReadRow(c) PROVE TerminatedFits'
  BY <1>19 DEF ReadRow, Meaning, asterisk, redis, TypeOK, Tasks, Rows
<1>20. ASSUME NEW c \in Channels, Keep(c) PROVE TerminatedFits'
  BY <1>20 DEF Keep, TaskDone, asterisk, NoTask, EmptyRow, TypeOK, Rows, Tasks
<1>21. ASSUME NEW c \in Channels, Part(c) PROVE TerminatedFits'
  <2>1. task[c].row.state = "complete" /\ c \in {Caller, tool.dest} /\ Gone(c)
    BY <1>21 DEF Part
  <2>2. row'.dest = tool.dest
    BY <1>21, <2>1 DEF Part, TypeOK, Tasks
  <2>3. task'[c].pc = "split" /\ channel' = channel
    BY <1>21, TaskGoesOn DEF Part, asterisk
  <2> QED
    BY <2>1, <2>2, <2>3
<1>22. ASSUME NEW c \in Channels, DeleteBridge(c) PROVE TerminatedFits'
  BY <1>22 DEF DeleteBridge, TaskGoto, NoBridge, redis, TypeOK, Tasks, Rows
<1>23. ASSUME NEW c \in Channels, DeletePeer(c) PROVE TerminatedFits'
  <2> DEFINE peer == Peer(c, row.dest)
  <2> SUFFICES ASSUME row.state = "terminated", faults = 0 PROVE TerminatedFits'
    BY <1>23 DEF DeletePeer
  <2>1. task[c].row.state = "complete" /\ c \in {Caller, tool.dest} /\ Gone(c)
    BY <1>23 DEF DeletePeer
  <2>2. row.dest = tool.dest /\ row.dest \in Destinations /\ RowFits(task[c].row)
    BY <2>1
  <2>3. channel[peer] \in {"up", "gone"} /\ peer \in Channels
    BY <2>1, <2>2 DEF Answered
  <2>4. task[c].row.dest = row.dest
    BY <2>1, <2>2
  <2>5. UNCHANGED <<row, faults>> /\ Delete(peer)
    BY <1>23, <2>4 DEF DeletePeer
  <2>6. channel'[peer] = "gone" /\ channel'[c] = "gone"
    BY <2>1, <2>3, <2>5 DEF Delete, End, Up, TypeOK
  <2> QED
    BY <2>1, <2>2, <2>5, <2>6
<1>24. ASSUME NEW c \in Channels, DeleteLegs(c) PROVE TerminatedFits'
  BY <1>24 DEF DeleteLegs, TaskGoto, Delete, redis, Up, End, TypeOK, Tasks,
    Rows
<1>25. ASSUME NEW c \in Channels, DeleteKeys(c) PROVE TerminatedFits'
  BY <1>25 DEF DeleteKeys, TaskDone, asterisk, NoTask, EmptyRow, TypeOK,
    Tasks, Rows
<1>26. ASSUME NEW c \in Channels, TaskFails(c) PROVE TerminatedFits'
  BY <1>26 DEF TaskFails, Fault, TaskDone, asterisk, redis, NoTask, EmptyRow,
    TypeOK, Tasks, Rows
<1>27. ASSUME UNCHANGED <<channel, row, task, faults>>
      PROVE  TerminatedFits'
  BY <1>27
<1>28. CASE CreateRun \/ Bind \/ Register \/ OnMediaStart \/ CreateBridge
           \/ StoreDialled \/ Subscribe \/ Hear \/ TimeOut \/ AgentEnds
           \/ Find \/ Add \/ Track \/ RemoveMedia \/ Forget
  BY <1>27, <1>28 DEF CreateRun, Proceed, StartGoto, asterisk, redis, Bind,
    Register, OnMediaStart, CreateBridge, StoreDialled, ToolGoto,
    StoreContext, Subscribe, Hear, ToolDone, EndCall, TimeOut, AgentEnds,
    Find, PipelineGoto, Target, Add, Track, RemoveMedia, Forget, RemoveContext
<1>29. ASSUME NEW d \in Destinations, StartTransfer(d) \/ OnAnswered(d)
             \/ OnDestroyed(d)
      PROVE  TerminatedFits'
  BY <1>27, <1>29 DEF StartTransfer, StoreContext, asterisk, OnAnswered,
    Publish, OnDestroyed, redis
<1>30. CASE UNCHANGED vars
  BY <1>27, <1>30 DEF vars, asterisk, redis
<1> HIDE DEF ToolFits, RowsFit, RowFits, TaskFits, ChannelsFit,
  TerminatedFits, Gone, Peer, Swapped
<1> QED
  BY <1>1, <1>2, <1>3, <1>4, <1>5, <1>6, <1>7, <1>8, <1>9, <1>10, <1>11,
     <1>12, <1>13, <1>14, <1>15, <1>16, <1>17, <1>18, <1>19, <1>20, <1>21,
     <1>22, <1>23, <1>24, <1>25, <1>26, <1>27, <1>28, <1>29, <1>30 DEF Next,
     Server, Admission, Setup, Tool, Pipeline, Disconnected, Swap, Ending

\* A slot goes from the admission to the pipeline, and is given back by it.
LEMMA SlotFitsStep ==
  ASSUME TypeOK, SetupFits, ChannelsFit, SlotFits, [Next]_vars
  PROVE  SlotFits'
<1> USE TransferAssumption DEF Channels, Destinations, SetupFits, ChannelsFit,
  SlotFits, Early
<1>1. CASE Admit
  BY <1>1 DEF Admit, Reject, Proceed, StartGoto, Delete, redis, asterisk, Up,
    End, TypeOK
<1>2. CASE CreateRun
  BY <1>2 DEF CreateRun, Proceed, StartGoto, asterisk, redis, TypeOK
<1>3. CASE Bind
  BY <1>3 DEF Bind, Proceed, StartGoto, asterisk, redis, TypeOK
<1>4. CASE CheckQuota
  BY <1>4 DEF CheckQuota, Reject, Proceed, StartGoto, Delete, redis, asterisk,
    Up, End, TypeOK
<1>5. CASE AdmissionFails
  BY <1>5 DEF AdmissionFails, Fault, Reject, StartGoto, Delete, redis, Up,
    End, TypeOK
<1>6. CASE Register
  BY <1>6 DEF Register, StartGoto, asterisk, TypeOK
<1>7. CASE CreateMedia
  BY <1>7 DEF CreateMedia, StartGoto, redis, TypeOK
<1>8. CASE MediaFails
  BY <1>8 DEF MediaFails, Fault, StartGoto, asterisk, TypeOK
<1>9. CASE OnMediaStart
  BY <1>9 DEF OnMediaStart, StartGoto, TypeOK
<1>10. CASE CreateBridge
  BY <1>10 DEF CreateBridge, StartGoto, Up, redis, TypeOK
<1>11. CASE SaveBridge
  BY <1>11 DEF SaveBridge, StartGoto, asterisk, redis, TypeOK, Rows
<1>12. CASE DialFails
  BY <1>12 DEF DialFails, Fault, ToolDone, RemoveContext, TypeOK, Tools
<1>13. CASE Hear
  BY <1>13 DEF Hear, ToolDone, EndCall, asterisk, redis, TypeOK, Tools
<1>14. CASE AgentEnds
  BY <1>14 DEF AgentEnds, EndCall, asterisk, redis, TypeOK
<1>15. CASE Hangup
  BY <1>15 DEF Hangup, PipelineGoto, Delete, redis, Up, End, TypeOK
<1>16. CASE Find
  BY <1>16 DEF Find, PipelineGoto, Target, asterisk, redis, TypeOK
<1>17. CASE Mark
  BY <1>17 DEF Mark, PipelineGoto, Target, asterisk, redis, TypeOK, Rows
<1>18. CASE Add
  BY <1>18 DEF Add, Up, PipelineGoto, redis, TypeOK
<1>19. CASE Track
  BY <1>19 DEF Track, PipelineGoto, asterisk, TypeOK
<1>20. CASE RemoveMedia
  BY <1>20 DEF RemoveMedia, PipelineGoto, redis, TypeOK
<1>21. CASE DropMedia
  BY <1>21 DEF DropMedia, PipelineGoto, Delete, redis, Up, End, TypeOK
<1>22. CASE Forget
  BY <1>22 DEF Forget, PipelineGoto, RemoveContext, asterisk, TypeOK
<1>23. CASE SwapFails
  BY <1>23 DEF SwapFails, Fault, PipelineGoto, asterisk, redis, TypeOK
<1>24. CASE Close
  BY <1>24 DEF Close, PipelineGoto, Delete, redis, Up, End, TypeOK
<1>25. ASSUME NEW e \in events, Lose(e) PROVE SlotFits'
  BY <1>25 DEF Lose, Fault, redis, TypeOK
<1>26. ASSUME NEW c \in Channels, ReadRow(c) PROVE SlotFits'
  BY <1>26 DEF ReadRow, Meaning, asterisk, redis, TypeOK, Tasks, Rows
<1>27. ASSUME NEW c \in Channels, TaskFails(c) PROVE SlotFits'
  BY <1>27 DEF TaskFails, Fault, TaskDone, asterisk, redis, NoTask, EmptyRow,
    TypeOK, Tasks, Rows
<1>28. ASSUME UNCHANGED <<setup, pipeline, slot, faults>>
      PROVE  SlotFits'
  BY <1>28
<1>29. ASSUME NEW d \in Destinations, StartTransfer(d) \/ Answer(d)
             \/ Refuse(d) \/ OnAnswered(d) \/ OnDestroyed(d)
      PROVE  SlotFits'
  BY <1>28, <1>29 DEF StartTransfer, StoreContext, asterisk, Answer, redis,
    Refuse, OnAnswered, Publish, OnDestroyed
<1>30. CASE Dial \/ StoreDialled \/ Subscribe \/ TimeOut
  BY <1>28, <1>30 DEF Dial, ToolGoto, redis, StoreDialled, StoreContext,
    asterisk, Subscribe, TimeOut, ToolDone
<1>31. ASSUME NEW c \in Channels, HangUp(c) \/ OnStasisEnd(c) \/ Keep(c)
             \/ Part(c) \/ DeleteBridge(c) \/ DeletePeer(c) \/ DeleteLegs(c)
             \/ DeleteKeys(c)
      PROVE  SlotFits'
  BY <1>28, <1>31 DEF HangUp, End, redis, OnStasisEnd, TaskGoto, Keep,
    TaskDone, asterisk, NoTask, EmptyRow, Part, DeleteBridge, NoBridge,
    DeletePeer, Delete, Peer, DeleteLegs, DeleteKeys
<1>32. CASE UNCHANGED vars
  BY <1>28, <1>32 DEF vars, asterisk, redis
<1> HIDE DEF SetupFits, ChannelsFit, SlotFits, Early
<1> QED
  BY <1>1, <1>2, <1>3, <1>4, <1>5, <1>6, <1>7, <1>8, <1>9, <1>10, <1>11,
     <1>12, <1>13, <1>14, <1>15, <1>16, <1>17, <1>18, <1>19, <1>20, <1>21,
     <1>22, <1>23, <1>24, <1>25, <1>26, <1>27, <1>28, <1>29, <1>30, <1>31,
     <1>32 DEF Next, Server, Admission, Setup, Tool, Pipeline, Disconnected,
     Swap, Ending

-----------------------------------------------------------------------------
(* The invariant holds.                                                    *)

LEMMA TransferInvInit == Init => TransferInv
<1> SUFFICES ASSUME Init PROVE TransferInv
  OBVIOUS
<1> USE TransferAssumption DEF Init, Channels, Destinations
<1>1. TypeOK
  <2>1. EmptyRow \in Rows
    BY DEF EmptyRow, Rows
  <2>2. NoTask \in Tasks
    BY <2>1 DEF NoTask, Tasks
  <2>3. NoBridge \in [open : BOOLEAN, in : SUBSET Channels]
    BY DEF NoBridge
  <2>4. tool \in Tools /\ setup \in Setups /\ pipeline \in Pipelines
    BY DEF Tools, Setups, Pipelines
  <2>5. task \in [Channels -> Tasks] /\ row \in Rows
    BY <2>1, <2>2
  <2>6. /\ channel \in [Channels -> {"none", "ringing", "up", "gone"}]
        /\ bridge \in [open : BOOLEAN, in : SUBSET Channels]
    BY <2>3
  <2>7. /\ context \in [Destinations -> {"none", "stored", "dialled"}]
        /\ latest \in Destinations \cup {None} 
        /\ slot \in {"none", "held", "bound", "free"}
    OBVIOUS
  <2>8. faults \in 0 .. MaxFaults
    OBVIOUS
  <2>9. pending \in BOOLEAN
    OBVIOUS
  <2> QED
    BY <2>4, <2>5, <2>6, <2>7, <2>8, <2>9 DEF TypeOK
<1>2. ToolFits
  BY DEF ToolFits, Swapping
<1>3. RowsFit
  BY DEF RowsFit, RowFits, TaskFits, EmptyRow, NoTask, NoBridge, Swapping
<1>4. SetupFits
  BY DEF SetupFits, Early, EmptyRow
<1>5. ChannelsFit
  BY DEF ChannelsFit, Answered, EmptyRow, NoTask
<1>6. CalmFits
  BY DEF CalmFits, Talking, Up
<1>7. PeaceFits /\ TerminatedFits
  BY DEF PeaceFits, Peace, TerminatedFits, EmptyRow
<1>8. SlotFits
  BY DEF SlotFits
<1> QED
  BY <1>1, <1>2, <1>3, <1>4, <1>5, <1>6, <1>7, <1>8 DEF TransferInv

LEMMA TransferInvStep == TransferInv /\ [Next]_vars => TransferInv'
<1> SUFFICES ASSUME TransferInv, [Next]_vars PROVE TransferInv'
  OBVIOUS
<1>1. /\ TypeOK /\ ToolFits /\ RowsFit /\ SetupFits /\ ChannelsFit
      /\ CalmFits /\ TerminatedFits /\ SlotFits
  BY DEF TransferInv
<1> QED
  BY <1>1, TypeOKStep, ToolFitsStep, RowsFitStep, SetupFitsStep, ChannelsFitStep,
     CalmFitsStep, PeaceFitsStep, TerminatedFitsStep, SlotFitsStep DEF TransferInv

LEMMA TransferInvAlways == Spec => []TransferInv
  BY TransferInvInit, TransferInvStep, PTL DEF Spec

-----------------------------------------------------------------------------
(* What follows from it.                                                   *)

\* Channels, bridge, row, Redis, tasks, tool, pipeline and slot keep their types.
THEOREM TransferTypesAreKept == Spec => []TypeOK
<1>1. TransferInv => TypeOK
  BY DEF TransferInv
<1> QED
  BY <1>1, TransferInvAlways, PTL

\* A caller is connected to the destination dialled last and to no other,
\* whatever earlier transfers left behind, however late their destinations
\* answer, and whichever steps fail.
THEOREM OnlyLastDestinationIsConnected == Spec => []LastDestinationIsConnected
<1>1. TransferInv => LastDestinationIsConnected
  <2> SUFFICES ASSUME TransferInv PROVE LastDestinationIsConnected
    OBVIOUS
  <2>1. \A d \in bridge.in \cap Destinations : d = row.dest
    BY DEF TransferInv, RowsFit
  <2>2. row.dest \in {None, tool.dest}
    BY DEF TransferInv, RowsFit, RowFits
  <2> QED
    BY <2>1, <2>2, TransferAssumption DEF LastDestinationIsConnected
<1> QED
  BY <1>1, TransferInvAlways, PTL

\* A completed transfer whose parties both stay has both in the bridge, in
\* whatever order the writes of the swap and the end of the agent's media
\* channel came, if no step failed.
THEOREM CompletedTransferStays == Spec => []ConnectedCallStays
<1>1. TransferInv => ConnectedCallStays
  <2> SUFFICES ASSUME TransferInv, row.state = "complete", faults = 0,
                      {Caller, row.dest} \cap left = {}
               PROVE  {Caller, row.dest} \subseteq bridge.in
    BY DEF ConnectedCallStays
  <2>1. Peace
    BY DEF TransferInv, RowsFit, RowFits, Peace, Calm
  <2> QED
    BY <2>1 DEF TransferInv, PeaceFits, Up, Gone
<1> QED
  BY <1>1, TransferInvAlways, PTL

\* When a transfer that was terminated is at rest neither party is left, if no
\* step failed, although a party's task ends only the other one.
THEOREM TerminatedTransferEndsBoth == Spec => []PartingEndsBoth
<1>1. TransferInv => PartingEndsBoth
  <2> SUFFICES ASSUME TransferInv, AtRest, row.state = "terminated", faults = 0
               PROVE  ~Up(Caller) /\ ~Up(row.dest)
    BY DEF PartingEndsBoth
  <2>1. PICK c \in {Caller, row.dest} :
          Gone(c) /\ (task[c].pc \in {"split", "peer"} \/ Gone(Peer(c, row.dest)))
    BY DEF TransferInv, TerminatedFits
  <2>2. row.dest \in Destinations
    BY DEF TransferInv, RowsFit, RowFits
  <2>3. task[c].pc = "none"
    BY <2>2 DEF AtRest, Channels
  <2> QED
    BY <2>1, <2>3 DEF Up, Gone, Peer
<1> QED
  BY <1>1, TransferInvAlways, PTL

\* The slot of a caller who has gone has been given back when nothing is left to
\* do, if no step failed.
THEOREM SlotOfGoneCallerIsGivenBack == Spec => []SlotOfGoneCallerIsFreed
<1>1. TransferInv => SlotOfGoneCallerIsFreed
  BY DEF TransferInv, TypeOK, SlotFits, SlotOfGoneCallerIsFreed, AtRest
<1> QED
  BY <1>1, TransferInvAlways, PTL
=============================================================================
