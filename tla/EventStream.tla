----------------------------- MODULE EventStream -----------------------------
(***************************************************************************)
(* One subscription of the Rust SDK (src/sdk/rust/src/subscribe.rs and    *)
(* the ack/nack half of src/sdk/rust/src/types.rs):                       *)
(*   - EventStream::connect: the subscribe handshake, then a spawned      *)
(*     task (the pump) that loops on tokio::select! over the WebSocket    *)
(*     read half and the ack channel's receiver;                          *)
(*   - the two bounded tokio mpsc channels (events to the caller, ack     *)
(*     decisions to the pump);                                            *)
(*   - the caller: EventStream::poll_next, Event::ack, Event::nack and    *)
(*     dropping the EventStream;                                          *)
(*   - the broker, as the environment: it writes frames to the socket.    *)
(* Frames are abstracted to their kind; payloads, timestamps and attempt  *)
(* counters are left out because the client only copies them.            *)
(***************************************************************************)
EXTENDS Naturals, Sequences, SequencesExt

CONSTANTS AutoAckModes, \* the SubscribeOptions.auto_ack values a caller may pass
          EvCap,        \* capacity of the event channel (100 in the code)
          AckCap,       \* capacity of the ack channel (100 in the code)
          MaxEvents,    \* bound: event frames the broker sends
          MaxNoise      \* bound: error/malformed/ignored frames it sends

ASSUME /\ AutoAckModes \subseteq BOOLEAN /\ AutoAckModes # {}
       /\ EvCap \in Nat \ {0} /\ AckCap \in Nat \ {0}
       /\ MaxEvents \in Nat /\ MaxNoise \in Nat

EventIds == 1..MaxEvents
NoId == 0

(* Inbound frame kinds, as the pump's match on read.next() tells them     *)
(* apart: "bad" is any frame that becomes an Err item and the loop goes  *)
(* on (an "error" frame, an event without id or topic, unparsable JSON); *)
(* "ignored" is a non-text message or a text frame of another type;      *)
(* "close" is a Close message or the end of the stream; "fail" is a      *)
(* transport error, which becomes an Err item and ends the loop.         *)
FrameKinds == {"subscribed", "rejected", "event", "bad", "ignored", "close", "fail"}
Frame == [kind : FrameKinds, id : EventIds \cup {NoId}]
Item == [ok : BOOLEAN, id : EventIds \cup {NoId}]   \* Result<Event> in the channel
AckMessage == [kind : {"ack", "nack"}, id : EventIds]

VARIABLES wsRead,        \* frames written by the broker, not yet read
          wireOpen,      \* the broker has not closed its side
          sentEvents,    \* history: ids of the event frames the broker sent
          noise,         \* bad/ignored frames the broker sent (bounded)
          wsWrite,       \* ack/nack frames that reached the broker, in order
          phase,         \* connect: "handshake", "open" or "failed"
          pumpPc,        \* "none" (not spawned), "select", "sending", "sendingLast", "done"
          pumpItem,      \* the item the pump is awaiting event_tx.send for
          eventQueue,    \* contents of the event channel
          ackQueue,      \* contents of the ack channel
          handleDropped, \* the EventStream (event_rx and its ack_tx) was dropped
          ended,         \* poll_next returned None
          held,          \* delivered events the caller still holds undecided
          callerPc,      \* "idle" or "blocked" in ack_tx.send(..).await
          callerMsg,     \* the AckMessage the blocked caller is sending
          delivered,     \* history: ids of the Ok items the caller pulled
          decided,       \* history: the caller's ack/nack calls, in order
          autoAck        \* options.auto_ack this stream was connected with

brokerVars == <<wsRead, wireOpen, sentEvents, noise>>
pumpVars == <<phase, pumpPc, pumpItem>>
callerVars == <<handleDropped, ended, held, callerPc, callerMsg, delivered, decided, autoAck>>
vars == <<brokerVars, wsWrite, pumpVars, eventQueue, ackQueue, callerVars>>

NoItem == [ok |-> FALSE, id |-> NoId]
NoMsg == [kind |-> "ack", id |-> 1]

Init ==
    /\ wsRead = <<>>
    /\ wireOpen = TRUE
    /\ sentEvents = <<>>
    /\ noise = 0
    /\ wsWrite = <<>>
    /\ phase = "handshake"
    /\ pumpPc = "none"
    /\ pumpItem = NoItem
    /\ eventQueue = <<>>
    /\ ackQueue = <<>>
    /\ handleDropped = FALSE
    /\ ended = FALSE
    /\ held = {}
    /\ callerPc = "idle"
    /\ callerMsg = NoMsg
    /\ delivered = <<>>
    /\ decided = <<>>
    /\ autoAck \in AutoAckModes

-----------------------------------------------------------------------------
(* The broker.  It answers the subscribe frame once, then writes event    *)
(* frames with fresh ids and noise, until it closes or fails.            *)

Push(f) == wsRead' = Append(wsRead, f)

BrokerReply(k) ==
    /\ phase = "handshake" /\ wireOpen /\ wsRead = <<>>
    /\ Push([kind |-> k, id |-> NoId])
    /\ wireOpen' = (k = "subscribed")
    /\ UNCHANGED <<sentEvents, noise, wsWrite, pumpVars, eventQueue, ackQueue, callerVars>>

Subscribed == wsRead # <<>> \/ phase # "handshake"

BrokerSendEvent ==
    /\ wireOpen /\ Subscribed
    /\ Len(sentEvents) < MaxEvents
    /\ LET e == Len(sentEvents) + 1
       IN /\ Push([kind |-> "event", id |-> e])
          /\ sentEvents' = Append(sentEvents, e)
    /\ UNCHANGED <<wireOpen, noise, wsWrite, pumpVars, eventQueue, ackQueue, callerVars>>

BrokerSendNoise(k) ==
    /\ wireOpen /\ Subscribed
    /\ noise < MaxNoise
    /\ Push([kind |-> k, id |-> NoId])
    /\ noise' = noise + 1
    /\ UNCHANGED <<wireOpen, sentEvents, wsWrite, pumpVars, eventQueue, ackQueue, callerVars>>

BrokerClose(k) ==
    /\ wireOpen /\ Subscribed
    /\ Push([kind |-> k, id |-> NoId])
    /\ wireOpen' = FALSE
    /\ UNCHANGED <<sentEvents, noise, wsWrite, pumpVars, eventQueue, ackQueue, callerVars>>

-----------------------------------------------------------------------------
(* EventStream::connect.  The first frame read decides the handshake:     *)
(* only "subscribed" creates the channels and spawns the pump; anything  *)
(* else returns an error and leaves nothing running.                     *)
Connect ==
    /\ phase = "handshake" /\ wsRead # <<>>
    /\ wsRead' = Tail(wsRead)
    /\ IF Head(wsRead).kind = "subscribed"
       THEN phase' = "open" /\ pumpPc' = "select"
       ELSE phase' = "failed" /\ UNCHANGED pumpPc
    /\ UNCHANGED <<wireOpen, sentEvents, noise, wsWrite, pumpItem, eventQueue, ackQueue, callerVars>>

(* Faulty variant: a frame that becomes an Err item ends the loop, as a   *)
(* transport error does.                                                  *)
ReadFrame_ErrorEndsLoop ==
    /\ pumpPc = "select" /\ wsRead # <<>>
    /\ LET f == Head(wsRead) IN
       /\ wsRead' = Tail(wsRead)
       /\ CASE f.kind = "event" ->
                 pumpPc' = "sending" /\ pumpItem' = [ok |-> TRUE, id |-> f.id]
            [] f.kind \in {"bad", "fail"} ->
                 pumpPc' = "sendingLast" /\ pumpItem' = NoItem
            [] f.kind = "close" ->
                 pumpPc' = "done" /\ UNCHANGED pumpItem
            [] OTHER ->
                 UNCHANGED <<pumpPc, pumpItem>>
    /\ UNCHANGED <<wireOpen, sentEvents, noise, wsWrite, phase, eventQueue, ackQueue, callerVars>>

(* The pump's read branch: one frame of read.next().                     *)
ReadFrame ==
    /\ pumpPc = "select" /\ wsRead # <<>>
    /\ LET f == Head(wsRead) IN
       /\ wsRead' = Tail(wsRead)
       /\ CASE f.kind = "event" ->
                 pumpPc' = "sending" /\ pumpItem' = [ok |-> TRUE, id |-> f.id]
            [] f.kind = "bad" ->
                 pumpPc' = "sending" /\ pumpItem' = NoItem
            [] f.kind = "fail" ->
                 pumpPc' = "sendingLast" /\ pumpItem' = NoItem
            [] f.kind = "close" ->
                 pumpPc' = "done" /\ UNCHANGED pumpItem
            [] OTHER ->
                 UNCHANGED <<pumpPc, pumpItem>>
    /\ UNCHANGED <<wireOpen, sentEvents, noise, wsWrite, phase, eventQueue, ackQueue, callerVars>>

(* event_tx.send(item).await completes once the channel has room, or      *)
(* fails at once when event_rx was dropped.  A failed Ok send breaks the *)
(* loop; a failed Err send is ignored (let _ = ...) and the loop goes on.*)
SendItem_Unbounded ==
    /\ pumpPc \in {"sending", "sendingLast"}
    /\ eventQueue' = IF handleDropped THEN eventQueue
                     ELSE Append(eventQueue, pumpItem)
    /\ pumpPc' = IF pumpPc = "sendingLast" \/ (handleDropped /\ pumpItem.ok)
                 THEN "done" ELSE "select"
    /\ pumpItem' = NoItem
    /\ UNCHANGED <<brokerVars, wsWrite, phase, ackQueue, callerVars>>

SendItem ==
    /\ pumpPc \in {"sending", "sendingLast"}
    /\ handleDropped \/ Len(eventQueue) < EvCap
    /\ eventQueue' = IF handleDropped THEN eventQueue
                     ELSE Append(eventQueue, pumpItem)
    /\ pumpPc' = IF pumpPc = "sendingLast" \/ (handleDropped /\ pumpItem.ok)
                 THEN "done" ELSE "select"
    /\ pumpItem' = NoItem
    /\ UNCHANGED <<brokerVars, wsWrite, phase, ackQueue, callerVars>>

(* Senders of the ack channel: the EventStream's own ack_tx, and, when    *)
(* auto_ack is off, the clone ack_tx_for_events that the pump task itself *)
(* owns for as long as it runs (plus the clones inside Events).          *)
(* Faulty variant: the events always get a clone of ack_tx.               *)
AckSendersAlive_AlwaysCloned == TRUE

AckSendersAlive == ~handleDropped \/ ~autoAck

(* The pump's ack branch: ack_rx.recv().  A message is written to the     *)
(* socket (the write's error is ignored, so after the broker closed the *)
(* frame is lost); None, when every sender is gone, breaks the loop.     *)
(* Faulty variant: the head of the channel is written but not consumed.   *)
RecvAck_Peek ==
    /\ pumpPc = "select"
    /\ ackQueue # <<>> \/ ~AckSendersAlive
    /\ IF ackQueue # <<>>
       THEN /\ UNCHANGED ackQueue
            /\ wsWrite' = IF wireOpen THEN Append(wsWrite, Head(ackQueue)) ELSE wsWrite
            /\ UNCHANGED pumpPc
       ELSE /\ pumpPc' = "done"
            /\ UNCHANGED <<ackQueue, wsWrite>>
    /\ UNCHANGED <<brokerVars, phase, pumpItem, eventQueue, callerVars>>

RecvAck ==
    /\ pumpPc = "select"
    /\ ackQueue # <<>> \/ ~AckSendersAlive
    /\ IF ackQueue # <<>>
       THEN /\ ackQueue' = Tail(ackQueue)
            /\ wsWrite' = IF wireOpen THEN Append(wsWrite, Head(ackQueue)) ELSE wsWrite
            /\ UNCHANGED pumpPc
       ELSE /\ pumpPc' = "done"
            /\ UNCHANGED <<ackQueue, wsWrite>>
    /\ UNCHANGED <<brokerVars, phase, pumpItem, eventQueue, callerVars>>

-----------------------------------------------------------------------------
(* The caller.                                                           *)

(* poll_next: the next item, or None once the pump (the only event_tx)   *)
(* is gone and the channel is drained.                                   *)
PollNext ==
    /\ phase = "open" /\ ~handleDropped /\ ~ended /\ callerPc = "idle"
    /\ \/ /\ eventQueue # <<>>
          /\ eventQueue' = Tail(eventQueue)
          /\ LET it == Head(eventQueue) IN
             /\ delivered' = IF it.ok THEN Append(delivered, it.id) ELSE delivered
             /\ held' = IF it.ok /\ ~autoAck THEN held \cup {it.id} ELSE held
          /\ UNCHANGED ended
       \/ /\ eventQueue = <<>> /\ pumpPc = "done"
          /\ ended' = TRUE
          /\ UNCHANGED <<eventQueue, delivered, held>>
    /\ UNCHANGED <<brokerVars, wsWrite, pumpVars, ackQueue, handleDropped, callerPc, callerMsg, decided, autoAck>>

(* tx.send(msg).await from Event::ack / Event::nack: queued when there is *)
(* room, an ignored error when ack_rx is gone, otherwise the caller waits.*)
(* Faulty variant: an unbounded ack channel.                              *)
PostAck_Unbounded(m) ==
    \/ /\ pumpPc = "done"
       /\ callerPc' = "idle" /\ UNCHANGED ackQueue
    \/ /\ pumpPc # "done"
       /\ ackQueue' = Append(ackQueue, m) /\ callerPc' = "idle"

PostAck(m) ==
    \/ /\ pumpPc = "done"
       /\ callerPc' = "idle" /\ UNCHANGED ackQueue
    \/ /\ pumpPc # "done" /\ Len(ackQueue) < AckCap
       /\ ackQueue' = Append(ackQueue, m) /\ callerPc' = "idle"
    \/ /\ pumpPc # "done" /\ Len(ackQueue) = AckCap
       /\ callerPc' = "blocked" /\ UNCHANGED ackQueue

(* Event::ack / Event::nack on a held event.  With auto_ack the event has *)
(* no sender and both are no-ops, so only held events (manual mode) get  *)
(* here.  The caller may still hold events after dropping the stream.    *)
Decide(id, kind) ==
    /\ callerPc = "idle" /\ id \in held
    /\ LET m == [kind |-> kind, id |-> id] IN
       /\ PostAck(m)
       /\ callerMsg' = m
       /\ decided' = Append(decided, m)
    /\ held' = held \ {id}
    /\ UNCHANGED <<brokerVars, wsWrite, pumpVars, eventQueue, handleDropped, ended, delivered, autoAck>>

EventAck(id) == Decide(id, "ack")
EventNack(id) == Decide(id, "nack")

(* The blocked send wakes up when the channel has room or ack_rx is gone. *)
AckUnblock ==
    /\ callerPc = "blocked"
    /\ pumpPc = "done" \/ Len(ackQueue) < AckCap
    /\ PostAck(callerMsg)
    /\ UNCHANGED <<brokerVars, wsWrite, pumpVars, eventQueue, handleDropped, ended, held, callerMsg, delivered, decided, autoAck>>

(* Dropping the EventStream drops event_rx and the stream's ack_tx.      *)
DropStream ==
    /\ phase = "open" /\ ~handleDropped /\ callerPc = "idle"
    /\ handleDropped' = TRUE
    /\ UNCHANGED <<brokerVars, wsWrite, pumpVars, eventQueue, ackQueue, ended, held, callerPc, callerMsg, delivered, decided, autoAck>>

-----------------------------------------------------------------------------
(* The SDK's own consumer, examples/subscribe.rs: it subscribes with      *)
(* auto_ack(false) and loops on stream.next(): an Ok event is acked       *)
(* (event.ack().await?, which always returns Ok) before the next pull, an *)
(* Err item is printed and skipped, None ends the loop.  It never nacks  *)
(* and never drops the stream while it is running.                       *)
ExampleInit == Init /\ autoAck = FALSE

ExampleCaller ==
    \/ held = {} /\ PollNext
    \/ \E id \in held : EventAck(id)
    \/ AckUnblock

PumpNext == ReadFrame \/ SendItem \/ RecvAck

BrokerNext ==
    \/ \E k \in {"subscribed", "rejected"} : BrokerReply(k)
    \/ BrokerSendEvent
    \/ \E k \in {"bad", "ignored"} : BrokerSendNoise(k)
    \/ \E k \in {"close", "fail"} : BrokerClose(k)

Next ==
    \/ BrokerNext
    \/ Connect
    \/ PumpNext
    \/ PollNext
    \/ \E id \in EventIds : EventAck(id) \/ EventNack(id)
    \/ AckUnblock
    \/ DropStream

-----------------------------------------------------------------------------
(* Properties.                                                           *)

TypeOK ==
    /\ wsRead \in Seq(Frame)
    /\ wireOpen \in BOOLEAN
    /\ sentEvents \in Seq(EventIds) /\ noise \in 0..MaxNoise
    /\ wsWrite \in Seq(AckMessage)
    /\ phase \in {"handshake", "open", "failed"}
    /\ pumpPc \in {"none", "select", "sending", "sendingLast", "done"}
    /\ pumpItem \in Item
    /\ eventQueue \in Seq(Item) /\ Len(eventQueue) <= EvCap
    /\ ackQueue \in Seq(AckMessage) /\ Len(ackQueue) <= AckCap
    /\ handleDropped \in BOOLEAN /\ ended \in BOOLEAN
    /\ held \in SUBSET EventIds
    /\ callerPc \in {"idle", "blocked"} /\ callerMsg \in AckMessage
    /\ delivered \in Seq(EventIds) /\ decided \in Seq(AckMessage)
    /\ autoAck \in BOOLEAN

(* The subscription implements its contract: through the event channel,  *)
(* the pump's select! loop and the handling of error and close frames,   *)
(* the caller is handed the broker's events in order and each once, the *)
(* stream ends only after every event sent on the connection was handed *)
(* over, and the ack/nack frames the pump writes are the caller's       *)
(* Event::ack / Event::nack calls in call order.                         *)
Contract == INSTANCE EventStreamContract
    WITH DecisionKinds <- {"ack", "nack"},
         published <- sentEvents, connOpen <- wireOpen,
         streamEnded <- ended, decisions <- decided, ackFrames <- wsWrite

ContractRefined == Contract!Spec

(* Dropping the EventStream stops the pump task (and so closes the       *)
(* socket): spec.md 4.3/8 say the pump detects the dropped handle        *)
(* through ack_rx.recv() returning None.                                 *)
PumpStopsAfterStreamDrop == handleDropped ~> (pumpPc = "done")

(* The same promise for the streams that keep it: with auto_ack the pump *)
(* holds no clone of ack_tx (subscribe.rs 102), so dropping the stream    *)
(* ends the pump's select! loop through ack_rx.recv() returning None.     *)
AutoAckPumpStops == autoAck => PumpStopsAfterStreamDrop

(* The pump and the caller never wait on each other: it is never the    *)
(* case that the pump is parked in event_tx.send(..).await on a full     *)
(* event channel, which only the caller drains, while the caller is      *)
(* parked in Event::ack/nack on a full ack channel, which only the pump  *)
(* drains.                                                               *)
NoMutualWait ==
    ~ /\ pumpPc \in {"sending", "sendingLast"} /\ ~handleDropped
      /\ Len(eventQueue) = EvCap
      /\ callerPc = "blocked" /\ Len(ackQueue) = AckCap

-----------------------------------------------------------------------------
(* The pump is a tokio task: the runtime keeps polling it while one of   *)
(* its futures is ready, and select! picks among ready branches at       *)
(* random, so each branch is weakly fair.  Neither the broker nor the    *)
(* caller's code is assumed to make progress.                            *)
Fairness ==
    /\ WF_vars(ReadFrame)
    /\ WF_vars(SendItem)
    /\ WF_vars(RecvAck)

Spec == Init /\ [][Next]_vars
FairSpec == Spec /\ Fairness

(* The broker and the pump against examples/subscribe.rs as the caller.  *)
ExampleSpec == ExampleInit /\ [][BrokerNext \/ Connect \/ PumpNext \/ ExampleCaller]_vars

=============================================================================
