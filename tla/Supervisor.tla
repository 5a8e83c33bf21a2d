----------------------------- MODULE Supervisor -----------------------------
(***************************************************************************)
(* The reconnect loops of the desktop examples: agent-management's       *)
(* start_*_subscription, hub's start_permission_listener, toast's         *)
(* start_*_subscription, and event-log's run / start_subscription.  Each  *)
(* loops for ever: subscribe with auto_ack and from("latest"), forward     *)
(* every Ok event to the UI until the stream ends, sleep 5 s, subscribe    *)
(* again.  They differ on an Err item: the drain loops skip it, event-log *)
(* breaks out, drops the stream and reconnects.  event-log also tells the *)
(* UI its state: "connected" 500 ms after subscribing, "error" and then   *)
(* "disconnected" when it leaves a stream.                                *)
(*                                                                         *)
(* One subscription is the sequence of items its connection carries, in  *)
(* order, ending after the last one: what EventStream is checked to       *)
(* guarantee (ContractRefined), with the Err items of error frames and of *)
(* a transport error added.  The broker publishes events on the topic at  *)
(* any time; with auto_ack it counts an event as delivered once it has    *)
(* sent it on a connection, and a new subscription from "latest" starts    *)
(* after the last event published.                                         *)
(***************************************************************************)
EXTENDS Integers, Sequences, SequencesExt

CONSTANTS LoopKinds,    \* which loops to check: "drain" and/or "eventlog"
          MaxEvents,    \* bound: events published on the topic
          MaxErrors     \* bound: error frames the broker sends

ASSUME LoopKinds \subseteq {"drain", "eventlog"} /\ LoopKinds # {}

Events == 1..MaxEvents
Err == 0                \* an Err item (error frame, bad frame, transport error)

VARIABLES loop,         \* the loop's code: "drain" or "eventlog"
          status,       \* last "status" event event-log emitted to the UI
          phase,        \* "subscribing" | "settling" | "streaming" | "sleeping"
          published,    \* events published on the topic so far (1..published)
          connOpen,     \* the broker may still send on the current connection
          cursor,       \* last event the broker has sent on this connection
          inFlight,     \* items on the current connection not yet forwarded
          sent,         \* history: events the broker sent on some connection
          forwarded,    \* history: events emitted to the UI, in order
          firstCursor,  \* history: the cursor of the first live subscription (-1: none yet)
          errors        \* error frames sent so far

vars == <<loop, status, phase, published, connOpen, cursor, inFlight, sent, forwarded, firstCursor, errors>>

Init ==
    /\ loop \in LoopKinds
    /\ status = "none"
    /\ phase = "subscribing"
    /\ published = 0
    /\ connOpen = FALSE
    /\ cursor = 0
    /\ inFlight = << >>
    /\ sent = {}
    /\ forwarded = << >>
    /\ firstCursor = -1
    /\ errors = 0

-----------------------------------------------------------------------------
(* The broker (environment).                                             *)

Publish ==
    /\ published < MaxEvents
    /\ published' = published + 1
    /\ UNCHANGED <<loop, status, phase, connOpen, cursor, inFlight, sent, forwarded, firstCursor, errors>>

\* The next event after the connection's cursor goes out on it.
BrokerSend ==
    /\ connOpen /\ cursor < published
    /\ cursor' = cursor + 1
    /\ inFlight' = Append(inFlight, cursor + 1)
    /\ sent' = sent \cup {cursor + 1}
    /\ UNCHANGED <<loop, status, phase, published, connOpen, forwarded, firstCursor, errors>>

BrokerError ==
    /\ connOpen /\ errors < MaxErrors
    /\ inFlight' = Append(inFlight, Err)
    /\ errors' = errors + 1
    /\ UNCHANGED <<loop, status, phase, published, connOpen, cursor, sent, forwarded, firstCursor>>

\* The connection goes away: a close frame, or a transport error, which the
\* pump turns into one last Err item.
ConnectionLost(withErr) ==
    /\ connOpen
    /\ connOpen' = FALSE
    /\ inFlight' = IF withErr THEN Append(inFlight, Err) ELSE inFlight
    /\ UNCHANGED <<loop, status, phase, published, cursor, sent, forwarded, firstCursor, errors>>

-----------------------------------------------------------------------------
(* The loop.                                                             *)

(* Where a successful subscribe leads: event-log first sleeps 500 ms and  *)
(* emits status "connected", the drain loops go straight to the stream.   *)
Subscribed == IF loop = "eventlog" THEN "settling" ELSE "streaming"

(* event-log's app.emit("status", st); the drain loops emit no status.   *)
ReportStatus(st) == status' = IF loop = "eventlog" THEN st ELSE status

(* Faulty variant: the subscription starts from "beginning".             *)
Subscribe_FromBeginning(ok) ==
    /\ phase = "subscribing"
    /\ phase' = IF ok THEN Subscribed ELSE "sleeping"
    /\ connOpen' = ok
    /\ cursor' = 0
    /\ inFlight' = << >>
    /\ firstCursor' = IF ok /\ firstCursor = -1 THEN 0 ELSE firstCursor
    /\ UNCHANGED <<loop, status, published, sent, forwarded, errors>>

(* subscribe_with_options(topics, auto_ack(true).from("latest")): either  *)
(* the handshake succeeds and the new connection starts after the last    *)
(* published event, or it fails (refused, bad reply, no network; in       *)
(* event-log also a missing API key) and the loop goes to sleep with no  *)
(* status emitted.                                                        *)
Subscribe(ok) ==
    /\ phase = "subscribing"
    /\ phase' = IF ok THEN Subscribed ELSE "sleeping"
    /\ connOpen' = ok
    /\ cursor' = published
    /\ inFlight' = << >>
    /\ firstCursor' = IF ok /\ firstCursor = -1 THEN published ELSE firstCursor
    /\ UNCHANGED <<loop, status, published, sent, forwarded, errors>>

(* event-log: tokio::time::sleep(500 ms) returns and status "connected"   *)
(* is emitted, whatever became of the connection meanwhile (the pump has *)
(* kept reading into the channel).                                        *)
Settle ==
    /\ phase = "settling"
    /\ phase' = "streaming"
    /\ ReportStatus("connected")
    /\ UNCHANGED <<loop, published, connOpen, cursor, inFlight, sent, forwarded, firstCursor, errors>>

(* Faulty variant: every item is emitted, Err items included.            *)
ForwardEvent_AnyItem ==
    /\ phase = "streaming" /\ inFlight # << >>
    /\ forwarded' = Append(forwarded, Head(inFlight))
    /\ inFlight' = Tail(inFlight)
    /\ UNCHANGED <<loop, status, phase, published, connOpen, cursor, sent, firstCursor, errors>>

(* stream.next() yields Ok(event): it is emitted to the UI.              *)
ForwardEvent ==
    /\ phase = "streaming" /\ inFlight # << >> /\ Head(inFlight) # Err
    /\ forwarded' = Append(forwarded, Head(inFlight))
    /\ inFlight' = Tail(inFlight)
    /\ UNCHANGED <<loop, status, phase, published, connOpen, cursor, sent, firstCursor, errors>>

(* Faulty variant: the drain loop also leaves on an Err item.             *)
SkipErr_Break ==
    /\ phase = "streaming" /\ inFlight # << >> /\ Head(inFlight) = Err
    /\ phase' = "sleeping"
    /\ connOpen' = FALSE
    /\ inFlight' = << >>
    /\ ReportStatus("disconnected")
    /\ UNCHANGED <<loop, published, cursor, sent, forwarded, firstCursor, errors>>

(* stream.next() yields Err: a drain loop skips it (if let Ok(..)),       *)
(* event-log emits status "error", breaks, emits "disconnected" (the     *)
(* UI's last status), drops the stream (with auto_ack the pump then      *)
(* stops and the connection closes) and reaches the 5 s sleep.           *)
SkipErr ==
    /\ phase = "streaming" /\ inFlight # << >> /\ Head(inFlight) = Err
    /\ IF loop = "eventlog"
       THEN /\ phase' = "sleeping"
            /\ connOpen' = FALSE
            /\ inFlight' = << >>
            /\ ReportStatus("disconnected")
       ELSE /\ inFlight' = Tail(inFlight)
            /\ UNCHANGED <<phase, connOpen, status>>
    /\ UNCHANGED <<loop, published, cursor, sent, forwarded, firstCursor, errors>>

(* Faulty variant: the end of the stream is not reported.                *)
StreamEnded_Silent ==
    /\ phase = "streaming" /\ inFlight = << >> /\ ~connOpen
    /\ phase' = "sleeping"
    /\ UNCHANGED <<loop, status, published, connOpen, cursor, inFlight, sent, forwarded, firstCursor, errors>>

(* stream.next() yields None: the connection is gone and every item on it *)
(* has been taken; event-log emits status "disconnected"; the loop        *)
(* reaches the 5 s sleep.                                                 *)
StreamEnded ==
    /\ phase = "streaming" /\ inFlight = << >> /\ ~connOpen
    /\ phase' = "sleeping"
    /\ ReportStatus("disconnected")
    /\ UNCHANGED <<loop, published, connOpen, cursor, inFlight, sent, forwarded, firstCursor, errors>>

(* tokio::time::sleep(5 s) returns; the loop subscribes again.           *)
Wake ==
    /\ phase = "sleeping"
    /\ phase' = "subscribing"
    /\ UNCHANGED <<loop, status, published, connOpen, cursor, inFlight, sent, forwarded, firstCursor, errors>>

-----------------------------------------------------------------------------
Next ==
    \/ Publish \/ BrokerSend \/ BrokerError
    \/ \E b \in BOOLEAN : ConnectionLost(b)
    \/ \E ok \in BOOLEAN : Subscribe(ok)
    \/ Settle \/ ForwardEvent \/ SkipErr \/ StreamEnded \/ Wake

(* The loop is one tokio task that runs whenever one of its futures is    *)
(* ready, and the sleep always returns: weak fairness on its steps.  The   *)
(* broker is not assumed to send anything, to accept a subscription or to *)
(* keep a connection up.                                                   *)
Fairness ==
    /\ WF_vars(\E ok \in BOOLEAN : Subscribe(ok)) /\ WF_vars(Settle)
    /\ WF_vars(ForwardEvent) /\ WF_vars(SkipErr) /\ WF_vars(StreamEnded)
    /\ WF_vars(Wake)

Spec == Init /\ [][Next]_vars
FairSpec == Spec /\ Fairness

-----------------------------------------------------------------------------
(* Properties.                                                           *)

TypeOK ==
    /\ loop \in {"drain", "eventlog"}
    /\ status \in {"none", "connected", "disconnected"}
    /\ phase \in {"subscribing", "settling", "streaming", "sleeping"}
    /\ published \in 0..MaxEvents /\ cursor \in 0..MaxEvents
    /\ connOpen \in BOOLEAN
    /\ inFlight \in Seq(Events \cup {Err})
    /\ sent \subseteq Events
    /\ forwarded \in Seq(Events)
    /\ firstCursor \in -1..MaxEvents
    /\ errors \in 0..MaxErrors

(* Across any number of reconnects the UI is given each event at most once *)
(* and in publish order: a new subscription never replays what an earlier *)
(* one delivered.                                                         *)
ForwardedOnceInOrder ==
    \A i, j \in 1..Len(forwarded) : i < j => forwarded[i] < forwarded[j]

(* Every event the broker sent on a connection (and so, with auto_ack,    *)
(* counts as delivered) is eventually emitted to the UI.                  *)
SentEventsForwarded ==
    \A e \in Events : (e \in sent) ~> (e \in Range(forwarded))

(* Once the app has subscribed, the UI never sees an event while missing *)
(* one published before it and after that first subscription: across    *)
(* the 5 s sleep, a failed handshake and a dead connection the loop      *)
(* resumes where it stopped (the durable subscription of spec.md section *)
(* 1).  What was published before the first subscribe, from("latest")    *)
(* skips on purpose.                                                      *)
GaplessForwarding ==
    \A i \in 1..Len(forwarded) :
        \A d \in (firstCursor + 1)..(forwarded[i] - 1) : d \in Range(forwarded)

(* The drain loops (hub, toast, agent-management) skip Err items, so      *)
(* every event sent on one of their connections reaches the UI.          *)
DrainLoopForwardsSent == (loop = "drain") => SentEventsForwarded

(* event-log's status line does not keep saying "connected" about a lost *)
(* connection: once the broker closed or failed the connection while the *)
(* UI shows "connected" (also when the loss came during the 500 ms wait  *)
(* before "connected" was emitted), the loop eventually reaches the end  *)
(* of the stream or an Err item and emits "disconnected".                *)
ConnectionLossReported ==
    (status = "connected" /\ ~connOpen) ~> (status # "connected")

=============================================================================
