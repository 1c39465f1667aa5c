----------------------------- MODULE CallTransfer -----------------------------
(***************************************************************************)
(* One call over Asterisk: the caller's channel enters the application,    *)
(* gets an external media channel (the agent) and a bridge; the agent may  *)
(* transfer the caller to a destination it dials; and the end of any       *)
(* channel tears the call down.                                            *)
(*                                                                         *)
(* Four actors share the call.  Asterisk owns the channels and the bridge  *)
(* and sends events.  ari_manager runs a task for each event.  The         *)
(* transfer tool dials and waits on a pub/sub channel, which loses what    *)
(* is published while nobody listens.  The pipeline ends the call, by a    *)
(* hang-up or by swapping the bridge.  They share the row of the run,      *)
(* written whole by whoever read it, and the keys of Redis.                *)
(*                                                                         *)
(* A transfer and the channel of its destination have one name.            *)
(***************************************************************************)
EXTENDS Integers

CONSTANTS
  Caller, Media, \* the caller's channel and the external media channel
  None,          \* no destination
  MaxTransfers,  \* bound: transfers of the call
  MaxFaults      \* bound: failing steps and lost events

Destinations == 1 .. MaxTransfers

ASSUME TransferAssumption ==
  /\ {Caller, Media, None} \cap Destinations = {} /\ Caller # Media
  /\ None \notin {Caller, Media}
  /\ MaxTransfers \in Nat /\ MaxFaults \in Nat

Channels == Destinations \cup {Caller, Media}

VARIABLES
  channel,   \* Asterisk: the state of each channel
  bridge,    \* Asterisk: the channels in the bridge, and whether there is one
  left,      \* channels whose own end hung up
  events,    \* events of Asterisk not yet dispatched
  row,       \* gathered_context of the run
  tracked,   \* Redis: channels that lead to the run (ari:channel:<id>)
  pending,   \* Redis: whether a bridge waits for the media channel
  context,   \* Redis: the context of each transfer
  latest,    \* Redis: the transfer that the caller's call id leads to
  mapped,    \* Redis: destinations that lead to their transfer
  setup,     \* the tasks of the caller's StasisStart and the media channel's
  task,      \* the task of each channel's StasisEnd
  tool,      \* the transfer tool, and the transfer it serves or served last
  pipeline,  \* the pipeline, from its start to the end of its last frame
  slot,      \* the concurrency slot of the call
  faults     \* faults so far

asterisk == <<channel, bridge, left, events>>
redis == <<tracked, pending, context, latest, mapped>>
vars == <<asterisk, row, redis, setup, task, tool, pipeline, slot, faults>>

-----------------------------------------------------------------------------
NoBridge == [open |-> FALSE, in |-> {}]

\* The keys of gathered_context that matter here.
Rows == [bridge : BOOLEAN, state : {"none", "in-progress", "complete", "terminated"},
         dest : Destinations \cup {None}]

\* A task of StasisEnd: where it is, and the row as it read it.
Tasks == [pc : {"none", "read", "keep", "part", "split", "peer",
               "tear", "caller", "media", "keys"},
          row : Rows]

EmptyRow == [bridge |-> FALSE, state |-> "none", dest |-> None]
NoTask == [pc |-> "none", row |-> EmptyRow]

Setups == {"arriving", "admitted", "created", "bound", "register", "create",
           "bridging", "saving", "done"}

Tools == [pc : {"idle", "dial", "store", "subscribe", "waiting"},
          dest : Destinations \cup {None},
          heard : {"nothing", "answered", "failed"}]

Pipelines == {"off", "running", "hangup", "find", "mark", "add", "track",
              "remove", "drop", "forget", "close", "over"}

\* An inbound call rings; an outbound one comes with its run and its slot.
Init ==
  /\ channel = [c \in Channels |-> IF c = Caller THEN "up" ELSE "none"]
  /\ bridge = NoBridge /\ left = {} /\ events = {}
  /\ row = EmptyRow /\ tracked = {} /\ pending = FALSE
  /\ context = [d \in Destinations |-> "none"] /\ latest = None /\ mapped = {}
  /\ \/ setup = "arriving" /\ slot = "none"
     \/ setup = "register" /\ slot = "bound"
  /\ task = [c \in Channels |-> NoTask]
  /\ tool = [pc |-> "idle", dest |-> None, heard |-> "nothing"]
  /\ pipeline = "off" /\ faults = 0

Fault == faults < MaxFaults /\ faults' = faults + 1

-----------------------------------------------------------------------------
(* Asterisk *)

Up(c) == channel[c] = "up"
Gone(c) == channel[c] = "gone"

\* Channel c ends: it leaves the bridge, and the application hears of it.
End(c) ==
  /\ channel' = [channel EXCEPT ![c] = "gone"]
  /\ bridge' = [bridge EXCEPT !.in = @ \ {c}]
  /\ events' = events \cup {<<"StasisEnd", c>>}
       \cup (IF c \in Destinations THEN {<<"ChannelDestroyed", c>>} ELSE {})

\* _delete_channel, and the strategies' DELETE: a channel that is not there is
\* answered 404, which they ignore.
Delete(c) ==
  IF Up(c) THEN End(c) ELSE UNCHANGED <<channel, bridge, events>>

Answer(d) ==
  /\ channel[d] = "ringing"
  /\ channel' = [channel EXCEPT ![d] = "up"]
  /\ events' = events \cup {<<"StasisStart", d>>}
  /\ UNCHANGED <<bridge, left, row, redis, setup, task, tool, pipeline, slot, faults>>

\* Busy, declined, or not answered within the timeout of the dial.
Refuse(d) ==
  /\ channel[d] = "ringing"
  /\ channel' = [channel EXCEPT ![d] = "gone"]
  /\ events' = events \cup {<<"ChannelDestroyed", d>>}
  /\ UNCHANGED <<bridge, left, row, redis, setup, task, tool, pipeline, slot, faults>>

HangUp(c) ==
  /\ Up(c) /\ c # Media
  /\ End(c) /\ left' = left \cup {c}
  /\ UNCHANGED <<row, redis, setup, task, tool, pipeline, slot, faults>>

\* The WebSocket of the events is down for a while.
Lose(e) ==
  /\ Fault /\ events' = events \ {e}
  /\ UNCHANGED <<channel, bridge, left, row, redis, setup, task, tool, pipeline, slot>>

-----------------------------------------------------------------------------
(* ari_manager: an inbound call is admitted. *)

StartGoto(pc) == setup' = pc

\* Every way out of _handle_inbound_stasis_start but the last hangs up.
Reject(freed) ==
  /\ StartGoto("done") /\ Delete(Caller) /\ slot' = freed
  /\ UNCHANGED <<left, row, redis, task, tool, pipeline>>

Proceed(pc, holds) ==
  /\ StartGoto(pc) /\ slot' = holds
  /\ UNCHANGED <<asterisk, row, redis, task, tool, pipeline>>

\* No number, no workflow or no slot; or else a slot of the organization.
Admit ==
  /\ setup = "arriving" /\ UNCHANGED faults
  /\ Reject("none") \/ Proceed("admitted", "held")

CreateRun == setup = "admitted" /\ Proceed("created", "held") /\ UNCHANGED faults

Bind == setup = "created" /\ Proceed("bound", "bound") /\ UNCHANGED faults

\* A mutant: the slot is not released when the quota is exceeded.
CheckQuotaKeepingSlot ==
  /\ setup = "bound" /\ UNCHANGED faults
  /\ Reject("bound") \/ Proceed("register", "bound")

CheckQuota ==
  /\ setup = "bound" /\ UNCHANGED faults
  /\ Reject("free") \/ Proceed("register", "bound")

\* A slot that is held but not bound cannot be found by its run.
AdmissionFails ==
  /\ Fault
  /\ \/ setup \in {"arriving", "created"} /\ Reject(slot)
     \/ setup \in {"admitted", "bound"} /\ Reject("free")

Admission == Admit \/ CreateRun \/ Bind \/ CheckQuota \/ AdmissionFails

-----------------------------------------------------------------------------
(* ari_manager: the caller gets its media channel and a bridge. *)

\* Everything is registered before the channel exists, for its StasisStart may
\* overtake the answer to the request that creates it.
Register ==
  /\ setup = "register" /\ StartGoto("create")
  /\ tracked' = tracked \cup {Caller, Media} /\ pending' = TRUE
  /\ UNCHANGED <<asterisk, row, context, latest, mapped, task, tool, pipeline, slot, faults>>

\* Asterisk opens the media WebSocket, and the pipeline starts on it.
CreateMedia ==
  /\ setup = "create" /\ StartGoto("done")
  /\ channel' = [channel EXCEPT ![Media] = "up"]
  /\ events' = events \cup {<<"StasisStart", Media>>}
  /\ pipeline' = "running"
  /\ UNCHANGED <<bridge, left, row, redis, task, tool, slot, faults>>

MediaFails ==
  /\ setup = "create" /\ Fault /\ StartGoto("done") /\ pending' = FALSE
  /\ UNCHANGED <<asterisk, row, tracked, context, latest, mapped, task, tool,
                 pipeline, slot>>

\* The media channel is known by a key that comes and goes with tracked.
OnMediaStart ==
  /\ <<"StasisStart", Media>> \in events
  /\ events' = events \ {<<"StasisStart", Media>>}
  /\ IF Media \in tracked /\ pending
     THEN pending' = FALSE /\ StartGoto("bridging")
     ELSE UNCHANGED <<pending, setup>>
  /\ UNCHANGED <<channel, bridge, left, row, tracked, context, latest, mapped,
                 task, tool, pipeline, slot, faults>>

\* Whether the channels could be added is not looked at.
CreateBridge ==
  /\ setup = "bridging" /\ StartGoto("saving")
  /\ bridge' = [open |-> TRUE,
                in |-> IF Up(Caller) /\ Up(Media) THEN {Caller, Media} ELSE {}]
  /\ UNCHANGED <<channel, left, events, row, redis, task, tool, pipeline, slot, faults>>

SaveBridge ==
  /\ setup = "saving" /\ StartGoto("done")
  /\ row' = [row EXCEPT !.bridge = TRUE]
  /\ UNCHANGED <<asterisk, redis, task, tool, pipeline, slot, faults>>

Setup == Register \/ CreateMedia \/ MediaFails \/ OnMediaStart \/ CreateBridge \/ SaveBridge

-----------------------------------------------------------------------------
(* call_transfer_manager *)

\* A mutant: the transfer of the call id is only written once.
StoreContextOnce(d, dialled) ==
  /\ context' = [context EXCEPT ![d] = dialled]
  /\ latest' = IF latest = None THEN d ELSE latest

\* store_transfer_context
StoreContext(d, dialled) ==
  context' = [context EXCEPT ![d] = dialled] /\ latest' = d

\* remove_transfer_context: the key by call id goes with a context that is there.
RemoveContext(d) ==
  /\ context' = [context EXCEPT ![d] = "none"]
  /\ latest' = IF context[d] = "none" THEN latest ELSE None

\* publish_transfer_event, to the one subscriber there may be.
Publish(d, what) ==
  tool' = IF tool.pc = "waiting" /\ tool.dest = d /\ tool.heard = "nothing"
          THEN [tool EXCEPT !.heard = what] ELSE tool

-----------------------------------------------------------------------------
(* The transfer tool *)

ToolGoto(pc) == tool' = [tool EXCEPT !.pc = pc]
ToolDone == tool' = [tool EXCEPT !.pc = "idle", !.heard = "nothing"]

\* end_call_with_reason: only the first reason counts.
EndCall(how) == pipeline' = IF pipeline = "running" THEN how ELSE pipeline

\* The context is stored before the destination is dialled.
StartTransfer(d) ==
  /\ pipeline = "running" /\ tool.pc = "idle" /\ row.bridge
  /\ channel[d] = "none" /\ \A e \in 1 .. d - 1 : channel[e] # "none"
  /\ tool' = [pc |-> "dial", dest |-> d, heard |-> "nothing"]
  /\ StoreContext(d, "stored")
  /\ UNCHANGED <<asterisk, row, tracked, pending, mapped, setup, task, pipeline, slot, faults>>

Dial ==
  /\ tool.pc = "dial" /\ ToolGoto("store")
  /\ channel' = [channel EXCEPT ![tool.dest] = "ringing"]
  /\ UNCHANGED <<bridge, left, events, row, redis, setup, task, pipeline, slot, faults>>

\* The provider cannot dial: the agent goes on with the caller.
DialFails ==
  /\ tool.pc = "dial" /\ Fault /\ ToolDone
  /\ channel' = [channel EXCEPT ![tool.dest] = "gone"]
  /\ RemoveContext(tool.dest)
  /\ UNCHANGED <<bridge, left, events, row, tracked, pending, mapped, setup, task,
                 pipeline, slot>>

\* The destination may have answered or refused since it was dialled.
StoreDialled ==
  /\ tool.pc = "store" /\ ToolGoto("subscribe")
  /\ mapped' = mapped \cup {tool.dest} /\ StoreContext(tool.dest, "dialled")
  /\ UNCHANGED <<asterisk, row, tracked, pending, setup, task, pipeline, slot, faults>>

\* wait_for_transfer_completion subscribes only now.
Subscribe ==
  /\ tool.pc = "subscribe" /\ ToolGoto("waiting")
  /\ UNCHANGED <<asterisk, row, redis, setup, task, pipeline, slot, faults>>

\* An answer ends the call of the agent; a failure goes back to it.
Hear ==
  /\ tool.pc = "waiting" /\ tool.heard # "nothing" /\ ToolDone
  /\ IF tool.heard = "answered" THEN EndCall("find") ELSE UNCHANGED pipeline
  /\ UNCHANGED <<asterisk, row, redis, setup, task, slot, faults>>

\* The agent goes on; the context stays, and the destination may still ring.
TimeOut ==
  /\ tool.pc = "waiting" /\ ToolDone
  /\ UNCHANGED <<asterisk, row, redis, setup, task, pipeline, slot, faults>>

Tool ==
  \/ \E d \in Destinations : StartTransfer(d)
  \/ Dial \/ DialFails \/ StoreDialled \/ Subscribe
  \/ Hear \/ TimeOut

-----------------------------------------------------------------------------
(* The pipeline: its last frame is a hang-up or the swap of the bridge. *)

PipelineGoto(pc) == pipeline' = pc

\* The agent ends the call, or the call has lasted long enough.
AgentEnds ==
  /\ pipeline = "running" /\ EndCall("hangup")
  /\ UNCHANGED <<asterisk, row, redis, setup, task, tool, slot, faults>>

\* on_client_disconnected
Disconnected == Gone(Media) /\ AgentEnds

Hangup ==
  /\ pipeline = "hangup" /\ PipelineGoto("close") /\ Delete(Caller)
  /\ UNCHANGED <<left, row, redis, setup, task, tool, slot, faults>>

\* find_transfer_context_for_call, the run of the caller, its bridge.
Target == latest

Find ==
  /\ pipeline = "find"
  /\ PipelineGoto(IF /\ Target # None /\ context[Target] = "dialled"
                     /\ Caller \in tracked /\ row.bridge
                  THEN "mark" ELSE "close")
  /\ UNCHANGED <<asterisk, row, redis, setup, task, tool, slot, faults>>

\* The transfer is recorded before the bridge is touched.
Mark ==
  /\ pipeline = "mark" /\ PipelineGoto("add")
  /\ row' = [row EXCEPT !.state = "in-progress", !.dest = Target]
  /\ UNCHANGED <<asterisk, redis, setup, task, tool, slot, faults>>

\* When Asterisk refuses, the strategy gives up and leaves the mark.
Add ==
  /\ pipeline = "add"
  /\ IF bridge.open /\ Up(row.dest)
     THEN bridge' = [bridge EXCEPT !.in = @ \cup {row.dest}] /\ PipelineGoto("track")
     ELSE UNCHANGED bridge /\ PipelineGoto("close")
  /\ UNCHANGED <<channel, left, events, row, redis, setup, task, tool, slot, faults>>

Track ==
  /\ pipeline = "track" /\ PipelineGoto("remove")
  /\ tracked' = tracked \cup {row.dest}
  /\ UNCHANGED <<asterisk, row, pending, context, latest, mapped, setup, task, tool,
                 slot, faults>>

RemoveMedia ==
  /\ pipeline = "remove" /\ PipelineGoto("drop")
  /\ bridge' = [bridge EXCEPT !.in = @ \ {Media}]
  /\ UNCHANGED <<channel, left, events, row, redis, setup, task, tool, slot, faults>>

DropMedia ==
  /\ pipeline = "drop" /\ PipelineGoto("forget") /\ Delete(Media)
  /\ UNCHANGED <<left, row, redis, setup, task, tool, slot, faults>>

Forget ==
  /\ pipeline = "forget" /\ PipelineGoto("close")
  /\ mapped' = mapped \ {row.dest} /\ RemoveContext(row.dest)
  /\ UNCHANGED <<asterisk, row, tracked, pending, setup, task, tool, slot, faults>>

\* A request or a write of the strategy raises.
SwapFails ==
  /\ pipeline \in {"mark", "add", "track", "remove", "drop", "forget"} /\ Fault
  /\ PipelineGoto("close")
  /\ UNCHANGED <<asterisk, row, redis, setup, task, tool, slot>>

\* The WebSocket closes, which ends the media channel; the run gives back its slot.
Close ==
  /\ pipeline = "close" /\ PipelineGoto("over") /\ Delete(Media) /\ slot' = "free"
  /\ UNCHANGED <<left, row, redis, setup, task, tool, faults>>

Swap == Find \/ Mark \/ Add \/ Track \/ RemoveMedia \/ DropMedia \/ Forget

Pipeline == AgentEnds \/ Disconnected \/ Hangup \/ Swap \/ SwapFails \/ Close

-----------------------------------------------------------------------------
(* ari_manager: events of the destination. *)

OnAnswered(d) ==
  /\ <<"StasisStart", d>> \in events
  /\ events' = events \ {<<"StasisStart", d>>}
  /\ mapped' = mapped \cup {d}
  /\ IF context[d] # "none" THEN Publish(d, "answered") ELSE UNCHANGED tool
  /\ UNCHANGED <<channel, bridge, left, row, tracked, pending, context, latest,
                 setup, task, pipeline, slot, faults>>

OnDestroyed(d) ==
  /\ <<"ChannelDestroyed", d>> \in events
  /\ events' = events \ {<<"ChannelDestroyed", d>>}
  /\ IF d \in mapped THEN Publish(d, "failed") ELSE UNCHANGED tool
  /\ UNCHANGED <<channel, bridge, left, row, redis, setup, task, pipeline, slot, faults>>

-----------------------------------------------------------------------------
(* ari_manager: _handle_stasis_end. *)

TaskGoto(c, pc) == task' = [task EXCEPT ![c].pc = pc]
TaskDone(c) == task' = [task EXCEPT ![c] = NoTask]

\* A channel that leads to no run is not ours.
OnStasisEnd(c) ==
  /\ <<"StasisEnd", c>> \in events
  /\ events' = events \ {<<"StasisEnd", c>>}
  /\ IF c \in tracked THEN TaskGoto(c, "read") ELSE UNCHANGED task
  /\ UNCHANGED <<channel, bridge, left, row, redis, setup, tool, pipeline, slot, faults>>

\* What the end of c means to the row it read: the agent leaving a transfer,
\* a party leaving a completed one, or the end of the call.
Meaning(c, r) ==
  IF r.state = "in-progress" /\ c = Media THEN "keep"
  ELSE IF r.state = "complete" /\ r.bridge /\ c \in {Caller, r.dest} THEN "part"
  ELSE "tear"

ReadRow(c) ==
  /\ task[c].pc = "read"
  /\ slot' = IF slot = "bound" THEN "free" ELSE slot
  /\ task' = [task EXCEPT ![c] = [pc |-> Meaning(c, row), row |-> row]]
  /\ UNCHANGED <<asterisk, row, redis, setup, tool, pipeline, faults>>

\* A mutant: the return after it is missing.
KeepAndTear(c) ==
  /\ task[c].pc = "keep" /\ TaskGoto(c, "tear")
  /\ row' = [task[c].row EXCEPT !.state = "complete"]
  /\ tracked' = tracked \ {c}
  /\ UNCHANGED <<asterisk, pending, context, latest, mapped, setup, tool, pipeline,
                 slot, faults>>

\* The agent has left: the bridge and the caller are kept.
Keep(c) ==
  /\ task[c].pc = "keep" /\ TaskDone(c)
  /\ row' = [task[c].row EXCEPT !.state = "complete"]
  /\ tracked' = tracked \ {c}
  /\ UNCHANGED <<asterisk, pending, context, latest, mapped, setup, tool, pipeline,
                 slot, faults>>

Part(c) ==
  /\ task[c].pc = "part" /\ TaskGoto(c, "split")
  /\ row' = [task[c].row EXCEPT !.state = "terminated"]
  /\ UNCHANGED <<asterisk, redis, setup, tool, pipeline, slot, faults>>

\* _delete_bridge, in both teardowns
DeleteBridge(c) ==
  /\ \/ task[c].pc = "split" /\ TaskGoto(c, "peer") /\ bridge' = NoBridge
     \/ /\ task[c].pc = "tear" /\ TaskGoto(c, "caller")
        /\ bridge' = IF task[c].row.bridge THEN NoBridge ELSE bridge
  /\ UNCHANGED <<channel, left, events, row, redis, setup, tool, pipeline, slot, faults>>

\* A mutant: the channel that left.
PeerItself(c, dest) == IF c = Caller THEN Caller ELSE dest

Peer(c, dest) == IF c = Caller THEN dest ELSE Caller

DeletePeer(c) ==
  /\ task[c].pc = "peer" /\ TaskGoto(c, "keys") /\ Delete(Peer(c, task[c].row.dest))
  /\ UNCHANGED <<left, row, redis, setup, tool, pipeline, slot, faults>>

\* The caller and the media channel, but not a destination.
DeleteLegs(c) ==
  /\ \/ task[c].pc = "caller" /\ TaskGoto(c, "media") /\ Delete(Caller)
     \/ task[c].pc = "media" /\ TaskGoto(c, "keys") /\ Delete(Media)
  /\ UNCHANGED <<left, row, redis, setup, tool, pipeline, slot, faults>>

DeleteKeys(c) ==
  LET r == task[c].row
  IN  /\ task[c].pc = "keys" /\ TaskDone(c)
      /\ tracked' = tracked \ ({Caller, Media, c}
                               \cup (IF r.state = "complete" THEN {r.dest} ELSE {}))
      /\ mapped' = mapped \ {r.dest}
      /\ UNCHANGED <<asterisk, row, pending, context, latest, setup, tool, pipeline,
                     slot, faults>>

\* Whatever raises is logged, and the rest is not done.
TaskFails(c) ==
  /\ task[c].pc # "none" /\ Fault /\ TaskDone(c)
  /\ UNCHANGED <<asterisk, row, redis, setup, tool, pipeline, slot>>

Ending(c) ==
  \/ OnStasisEnd(c) \/ ReadRow(c) \/ Keep(c) \/ Part(c)
  \/ DeleteBridge(c) \/ DeletePeer(c) \/ DeleteLegs(c) \/ DeleteKeys(c)

-----------------------------------------------------------------------------
\* What the server does of its own accord.
Server ==
  \/ \E d \in Destinations : OnAnswered(d) \/ OnDestroyed(d)
  \/ \E c \in Channels : Ending(c)
  \/ Admission \/ Setup \/ Tool \/ Pipeline

Next ==
  \/ \E d \in Destinations : Answer(d) \/ Refuse(d)
  \/ \E c \in Channels : HangUp(c) \/ TaskFails(c)
  \/ \E e \in events : Lose(e)
  \/ Server

Spec == Init /\ [][Next]_vars

-----------------------------------------------------------------------------
(* Properties *)

\* Every variable keeps its type.
TypeOK ==
  /\ channel \in [Channels -> {"none", "ringing", "up", "gone"}]
  /\ bridge \in [open : BOOLEAN, in : SUBSET Channels]
  /\ left \subseteq Channels
  /\ events \subseteq {"StasisStart", "StasisEnd", "ChannelDestroyed"} \X Channels
  /\ row \in Rows
  /\ tracked \subseteq Channels /\ pending \in BOOLEAN
  /\ context \in [Destinations -> {"none", "stored", "dialled"}]
  /\ latest \in Destinations \cup {None} /\ mapped \subseteq Destinations
  /\ setup \in Setups /\ task \in [Channels -> Tasks]
  /\ tool \in Tools /\ pipeline \in Pipelines
  /\ slot \in {"none", "held", "bound", "free"} /\ faults \in 0 .. MaxFaults

\* A caller is connected to the destination dialled last, whatever earlier
\* transfers of the call left behind: contexts are not removed when a wait
\* times out, and their destinations may answer later.
LastDestinationIsConnected == bridge.in \cap Destinations \subseteq {tool.dest}

\* A transfer that was completed and whose parties both stay is not torn down
\* by the ends of the agent and of its media channel, which arrive in any order
\* with the writes of the swap: both are in the bridge, unless a step failed.
ConnectedCallStays ==
  (/\ row.state = "complete" /\ faults = 0
   /\ {Caller, row.dest} \cap left = {})
    => {Caller, row.dest} \subseteq bridge.in

\* Nothing is left to do for the server, unless somebody answers or hangs up.
AtRest ==
  /\ events = {} /\ \A c \in Channels : task[c].pc = "none"
  /\ setup = "done" /\ tool.pc = "idle" /\ pipeline \in {"off", "over"}

\* When a party of a completed transfer leaves, the task of its end hangs up the
\* other, although the pipeline of the call is long over: once a transfer recorded
\* as terminated is at rest neither party is left, whichever of them left first,
\* whether the other left by itself, and whatever the other tasks wrote meanwhile:
\* unless an event was lost or a step failed.
PartingEndsBoth ==
  AtRest /\ row.state = "terminated" /\ faults = 0 => ~Up(Caller) /\ ~Up(row.dest)

\* When nothing is left to do for a caller who has gone, the slot of the call has
\* been given back, whether the call was being admitted, set up, in the hands of the
\* agent or of a destination: unless a step failed, when it is left to the
\* stale-slot timeout.
SlotOfGoneCallerIsFreed ==
  AtRest /\ Gone(Caller) => (slot \in {"none", "free"} \/ faults > 0)
=============================================================================
