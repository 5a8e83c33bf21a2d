# TLA+ models of notif (Rust SDK and desktop examples)

This directory holds TLA+ models of the notif.sh Rust SDK (`src/sdk/rust`) and
of the desktop applications built on it (`src/examples`), the TLC
configurations that check them, and `PROJECT.json`, which lists the
components, runs, the source lines each definition models, the hazards the
properties aim at, and the findings.

## 1. Inventory

### Components

| Component | Source | State it keeps | Operations |
|---|---|---|---|
| Client / builder | `sdk/rust/src/client.rs` | api key, server URL, HTTP client (immutable after `build`) | `NotifBuilder::build` (key-prefix check), `Notif::from_env`, `emit` (one HTTP POST, 401 -> `Auth`, other non-2xx -> `Api`), `subscribe[_with_options]` |
| Error taxonomy | `sdk/rust/src/error.rs` | none | constructors only |
| Wire types | `sdk/rust/src/types.rs` | none (`Event` carries an optional clone of the ack sender) | serde shapes; `Event::ack`, `Event::nack` |
| Subscription client (`EventStream`) | `sdk/rust/src/subscribe.rs` | the socket halves; a bounded event channel (100) and a bounded ack channel (100); the spawned pump task | `connect` (URL rewrite, handshake: exactly one reply frame), the pump's `select!` loop (read branch, ack branch), `poll_next`, drop |
| Reconnect loops (supervisors) | `examples/*/src/lib.rs` (`start_*_subscription`, `start_permission_listener`, event-log `run`) | none across attempts | `loop { subscribe; drain stream; sleep 5s }`; event-log breaks on the first `Err` item |
| Permission queue (agent-management) | `examples/agent-management/src/lib.rs` | `queues: session -> VecDeque<PermissionRequest>`, `active: session -> PermissionRequest`, each behind its own tokio `Mutex` | subscription handler (push), `get_current_permission` (pop to active), `respond_permission` (remove active, emit), `get_sessions`, `get_badge_counts` |
| Chat sessions and agents (agent-management) | same file | `chat_sessions`, `active_chat_session`, `agents`, `selected_agent` behind separate mutexes | `send_prompt` (emit, then insert session), `send_followup` (read agent, emit, append message + status), `cancel_session`, `handle_agent_event` (append message, set session and agent status), agent subscription (upsert agent), getters/setters |
| Window / view state (agent-management, toast) | same files | `window_visible`, `current_view` | `show_window`, `hide_window`, `toggle_overlay`, `set_view` |
| Hub, toast, event-log forwarders | `examples/modular-desktop/*/src/lib.rs` | none beyond the subscription | emit a notification / permission response; forward received events to the UI |
| SDK examples | `sdk/rust/examples/*.rs` | none | one emit; one manual-ack subscribe loop (`subscribe.rs`, modelled as `EventStream`'s `ExampleInit` / `ExampleCaller`) |

### How they interact

* The caller asks `Notif::subscribe_with_options`; `EventStream::connect`
  opens the socket, sends one subscribe frame and reads exactly one reply.
  Only `subscribed` spawns the pump; anything else returns an error.
* The pump loops on `tokio::select!` over `read.next()` and `ack_rx.recv()`.
  An event frame becomes `Ok(Event)` and is sent on the event channel
  (`send(..).await`, so a full channel parks the whole loop); error frames,
  malformed events and bad JSON become `Err` items and the loop goes on; a
  transport error becomes an `Err` item and ends the loop; Close / end of
  stream ends the loop.  An ack message is written to the socket, its error
  ignored; `None` from `ack_rx` ends the loop.
* The caller pulls with `poll_next`; with `auto_ack` off each `Event` carries
  a clone of `ack_tx`, and `Event::ack` / `Event::nack` await a send on the
  ack channel (errors ignored, `Ok(())` returned).
* The desktop apps run one reconnect loop per subscription as background
  tasks, and Tauri commands from the UI run concurrently with them on the
  async runtime; they share the app state only through tokio mutexes, and
  the agent-management app talks to agents only through `emit` and the
  session subscription.

### What is hard

* Concurrency inside one subscription: the pump and the caller communicate
  only through two bounded channels, each side blocking on the other's
  channel; `select!` has no priority.
* Failure: error frames versus transport errors versus close; write errors
  ignored; acks posted after the pump ended are silently dropped.
* Cancellation: dropping the stream must stop the pump, detected only through
  the channels' sender/receiver counts.
* In the desktop app: commands and subscription handlers interleave at every
  `.await`; locks are taken in different orders by different commands; a
  command emits to an agent and only afterwards records the session the
  agent's replies refer to; reconnects use `from("latest")`.

### Properties that make each component correct

* Subscription client: events are handed over in broker order, each once,
  and the stream ends only after all of them (EventStreamContract); ack/nack
  frames are the caller's calls in order; the pump and caller never wait on
  each other; dropping the stream stops the pump.
* Reconnect loop: a failed or ended subscription is always followed by a new
  attempt; no two pumps of one loop run at once; event-log's status line
  does not keep saying "connected" about a lost connection.
* Emit: `Ok` only when the broker took and published the event; a caller
  that reports success to the UI has really delivered.
* Permission queue: every request received is, until answered, either queued
  or active; no response is emitted for a request that was never shown; the
  commands never deadlock on the two mutexes.
* Chat sessions: every agent event for a session the app created is recorded
  in it; a session's status matches the last event for it.

Hazards are listed one by one, at their source line, in `PROJECT.json`
("hazards").

## 2. Plan

Modules, in order of importance (done ones marked):

1. **EventStream** (done) – one subscription: handshake, the pump's two
   branches, both channels, the caller's pull / ack / nack / drop, the broker
   as environment.  MC module `MCEventStream`.
2. **EventStreamContract** (done) – the abstract promise of a subscription;
   `EventStream` refines it (`ContractRefined`).
3. **PermissionQueue** (done) – agent-management's `queues` / `active` maps with
   the two tokio mutexes as explicit lock state, the subscription handler,
   `get_current_permission`, `respond_permission` (with emit failure),
   `get_sessions`, `get_badge_counts`; concurrent UI commands as processes.
   Properties: no lock-order deadlock, no lost request, no response without
   a shown request.
4. **ChatSessions** (done) – `send_prompt`, `send_followup`, `cancel_session`,
   `handle_agent_event`, agent upsert; agents as environment answering
   emits.  Properties: events are not dropped for sessions the app created;
   the status reflects the last agent event.
5. **Supervisor** (done) – the reconnect loop of the examples (fixed delay,
   unbounded retries; event-log's break on `Err`), each subscription
   abstracted to the in-order, complete item sequence that `EventStream` is
   shown to deliver (`ContractRefined`) rather than instantiated, which keeps
   the loop's state space small.  Properties: no replay across reconnects,
   every event sent on a connection forwarded, what `from("latest")` loses.
6. **NotifClient** (done) – `Notif::emit` and `NotifError` as operators:
   how the POST can go (never sent, taken but unanswered, answered with a
   status and a body that decodes or not), what `emit` returns for each, and
   whether the broker published.  `PermissionQueue` and `ChatSessions`
   EXTEND it, so both apps take their emit outcomes from the code's status
   classification instead of an assumed set.
7. **Left for later sittings** – a property on the agent record
   (announcements on `agents.available` racing session events); the
   window flag of `show_window` / `hide_window` (a race recorded as a
   hazard); composing `Supervisor` with `EventStream` by INSTANCE for
   event-log, whose dropped stream must stop its pump (auto_ack on, which
   `stream_modes` shows in isolation); the builder's key-prefix check and
   `connect`'s URL rewrite.

Bounds: channel capacities 1 (the code's 100 behaves the same, only full vs
not full matters to the control flow), 3–4 events, 1 noise frame; two or
three sessions and two concurrent commands for the app modules.

## 3. Modules and runs

### EventStream (`EventStream.tla`, `MCEventStream.tla`)

State: `wsRead` (frames the broker wrote, unread), `wireOpen`, `wsWrite`
(ack frames that reached the broker), `phase` (handshake / open / failed),
`pumpPc` / `pumpItem` (the pump's position: in `select!`, parked in
`event_tx.send`, or done), `eventQueue` / `ackQueue` (the two channels),
the caller's `handleDropped`, `ended`, `held` (events not yet acked),
`callerPc` / `callerMsg` (parked in `Event::ack`), and the histories
`sentEvents`, `delivered`, `decided`.  `autoAck` is the option the caller
subscribed with; it never changes and is chosen at Init from the constant
`AutoAckModes`, so one run covers both modes.  `AckSendersAlive` says
whether an `ack_tx` survives the drop (only the pump's clone with
`auto_ack` off).

Actions: `Connect` (the handshake read), `ReadFrame` (one arm of the read
branch per frame kind), `SendItem` (the awaited `event_tx.send`, with the
Ok-breaks / Err-ignored difference on a dropped receiver), `RecvAck` (the ack
branch, including `None`), `PollNext`, `EventAck` / `EventNack` (via
`PostAck`), `AckUnblock`, `DropStream`; the broker's `BrokerReply`,
`BrokerSendEvent`, `BrokerSendNoise`, `BrokerClose`.

Fairness: weak fairness on the pump's three actions only: the pump is a
tokio task that the runtime polls whenever a future is ready, and `select!`
chooses randomly among ready branches.  Neither the broker nor the caller's
code is assumed to make progress.

Bounds (`MCEventStream`): channel capacity 1 each, 4 events, 1 noise frame.
Four events are what it takes to fill both channels while the pump and the
caller each hold one more message.  `CHECK_DEADLOCK FALSE` because the
system stops for good once the broker has closed and the stream has ended.

| Run | cfg | Expect | Shows |
|---|---|---|---|
| stream_modes | `MCEventStream_modes.cfg` | pass | with `auto_ack` on and off (chosen at Init): refines the contract (`ContractRefined`); with `auto_ack` on, dropping the stream stops the pump (`AutoAckPumpStops`) |
| stream_mutual_wait | `MCEventStream_mutual_wait.cfg` | violation | with the SDK's own `examples/subscribe.rs` as the caller (`ExampleSpec`: `auto_ack` off, each event acked before the next pull) the pump (parked on a full event channel) and the example (parked in `event.ack()` on a full ack channel) wait on each other for ever |
| stream_drop_leak | `MCEventStream_drop_leak.cfg` | violation | `auto_ack` off: a dropped stream leaves the pump and socket alive while the broker is quiet |


### PermissionQueue (`PermissionQueue.tla`, `MCPermissionQueue.tla`)

State: `queues` and `active` (the two maps, requests abstracted to their
arrival number), `owner` (which command holds each tokio `Mutex`), `pc` /
`arg` / `taken` per command slot (`Procs`: concurrent Tauri command
invocations), and the histories `arrived`, `shown`, `removed` and
`responses` (decisions the broker published).  The UI only answers a session it
has displayed a request of (`shown[s] # <<>>`).

Actions: `PermissionRequestArrives` (the subscription handler's push, one
lock scope), `GetSessions` / `GetBadgeCounts` (lock `queues`) and their
`...Read` second halves (lock `active`, read, drop both), `GetCurrentPermission`
(lock `active`; return if the session has an active request, else keep
holding it) and `GetCurrentPermissionPop` (lock `queues`, pop into
`active`), `RespondPermission` (remove `active[s]` in its own scope) and
`RespondPermissionEmit` (the emit, for every `EmitExchanges` outcome of
`NotifClient`: published or not, `Ok` or `Err`).

Fairness: strong fairness on every lock acquisition of a command already
running (tokio's `Mutex` is FIFO, so a waiter that is offered the lock
infinitely often gets it), weak fairness on the emit; nothing forces the UI
to invoke commands or the broker to send requests.

Bounds (`MCPermissionQueue`): 2 command slots, 2 sessions, 3 requests,
3 responses: enough for a request to be queued behind an active one in each
session while both slots are inside commands.

| Run | cfg | Expect | Shows |
|---|---|---|---|
| permission_safety | `MCPermissionQueue.cfg` | pass | every request received is, in arrival order per session, shown once and then either active or answered; never lost or duplicated (`RequestsAccountedInOrder`) |
| permission_responses | `MCPermissionQueue_responses.cfg` | violation | once no response is in progress, the decisions published for a session are not exactly the requests removed from it, each once and in the order they were shown (`ResponsesMatchAnswered`): a failed emit loses an answered request; even with every emit succeeding, two responses in flight reach the broker swapped |
| permission_deadlock | `MCPermissionQueue_deadlock.cfg` | violation | `get_current_permission` (active then queues) and `get_badge_counts` / `get_sessions` (queues then active) deadlock |

### ChatSessions (`ChatSessions.tla`, `MCChatSessions.tla`)

State: `chat` (`chat_sessions`: session id -> agent, message log reduced to
"user" and the agent's event kinds, status), `activeChat`, `agents`,
`owner` of the two locks a command can hold across an await
(`chat_sessions`, `active_chat_session`), per command `pc` / `arg` /
`argAgent`; the agents' side `agentPhase` and the FIFO `events` the session
subscription reads; histories `requests` (what the broker accepted),
`handled`, `published`, `discovered`.

Actions: `SendPrompt` (fresh id, emit; `EmitOutcomes`, from `NotifClient`,
are ok, lost, and late: `Err` although the broker published, a timeout or
an error status or bad body after the broker took the request), `SendPromptInsert`, `SendPromptActivate`,
`SendFollowup` and `SendFollowupRecord`, `CancelSession`,
`GetActiveChatSession` / `GetActiveChatSessionRead` (the nested lock),
`SetActiveChatSession`, `HandleAgentEvent` (both lock scopes of
`handle_agent_event`), `AgentDiscovered`; the agents' `AgentPublish`
(started, output/blocked, completed/failed, in that protocol).

Fairness: strong fairness on lock acquisitions of running commands and of
the session subscription task, as for PermissionQueue.

Bounds: 2 command slots, 1 agent, 2 session ids.  The passing run
(`MCChatSessions.cfg`) checks safety and liveness together with 1 agent
event, 2 accepted requests and 1 discovery (announcing "busy" with
an active session, or "offline" without one): enough for a command to hold `active_chat_session` while
another inserts a session, and for a prompt plus a follow-up.  The
violation runs use 3 events and explore without fairness, which is what a
full started / output / completed answer needs.

| Run | cfg | Expect | Shows |
|---|---|---|---|
| chat_safety | `MCChatSessions.cfg` | pass | commands return and every published agent answer is handled (`CommandsReturn`, `EventsEventuallyHandled`) |
| chat_dropped_answers | `MCChatSessions_dropped.cfg` | violation | an answer handled between `send_prompt`'s emit and its insert is lost |
| chat_stale_status | `MCChatSessions_stale.cfg` | violation | `send_followup` overwrites a final status with "running" |

### Supervisor (`Supervisor.tla`)

State: `loop` ("drain" for hub, toast and agent-management, "eventlog";
chosen at Init from `LoopKinds`); event-log's last UI `status`; the loop's
`phase` (subscribing / settling / streaming / sleeping); the broker's
`published` count, and for the current connection `connOpen`, `cursor` (the
last event sent on it) and `inFlight` (items on it not yet taken: events
and `Err` items); histories `sent`, `forwarded` and `firstCursor` (where the
first live subscription started); `errors`.

Actions: `Subscribe(ok)` (from "latest": the cursor starts at the last
published event; event-log then waits in "settling"), `Settle` (event-log's
500 ms sleep, then status "connected"), `ForwardEvent`, `SkipErr` (skip, or
for event-log break, report "disconnected" and drop the stream),
`StreamEnded` (`None`; event-log reports "disconnected"), `Wake` (the 5 s
sleep returns); the broker's `Publish`, `BrokerSend`, `BrokerError`,
`ConnectionLost`.  `ReportStatus` is event-log's `app.emit("status", ..)`,
a no-op for the drain loops.

Fairness: weak fairness on the loop's own steps (one tokio task; the sleep
returns); none on the broker.  There is no attempt counter: failed
subscriptions return to an earlier state, so the graph stays finite and the
loop never deadlocks (deadlock is checked).

Bounds: 4 events and 2 error frames for the passing run (both loop kinds),
3 events for the violations (`LoopKinds` = {"drain"} for the gap,
{"eventlog"} for the break): enough for an event in flight behind an error frame and for a
second subscription after events were forwarded on a first.

| Run | cfg | Expect | Shows |
|---|---|---|---|
| supervisor_loops | `MCSupervisor_loops.cfg` | pass | both loops forward each event at most once, in order, across reconnects (`ForwardedOnceInOrder`); a drain loop forwards every event sent to it (`DrainLoopForwardsSent`); event-log's status does not stay "connected" after the connection is lost (`ConnectionLossReported`) |
| supervisor_gap | `MCSupervisor_gap.cfg` | violation | after the first subscription, the events forwarded are not gapless (`GaplessForwarding`): an event published on a connection that dies before the broker sends it is skipped by the resubscription `from("latest")` (events before the first subscription are skipped on purpose and not counted) |
| supervisor_break | `MCSupervisor_break.cfg` | violation | event-log's break on an `Err` item loses events already sent on the stream |

### Findings

* `subscribe.rs:134` – the pump awaits `event_tx.send` inside the read branch,
  so with a full event channel it stops draining acks; a caller acking each
  event then blocks on the full ack channel and the subscription stops for
  good (16 steps with capacity 1; with capacity 100 it needs the random
  `select!` choice to favour reads long enough, which a sustained load does).
* `subscribe.rs:102` – with `auto_ack` off the pump owns a clone of `ack_tx`,
  so `ack_rx.recv()` never returns `None`: dropping the stream is noticed only
  when a later event fails to send, contrary to spec.md 4.3 and 8.
* `agent-management lib.rs:202/208` against `166-167` and `313-314` – lock
  order inversion between `get_current_permission` and `get_sessions` /
  `get_badge_counts`: two concurrent commands deadlock, and with them the
  permission subscription (it needs `queues`), in 3 steps.
* `agent-management lib.rs:229` – `respond_permission` removes the active
  request before it emits the decision: when the emit fails (never sent,
  or an error status the broker did not publish on) the request is gone
  from the UI and no decision reached the agent; a second click on the same
  session while the first emit is in flight emits a decision with no
  request (`permission_responses`).
* `agent-management lib.rs:253` – the decision (`lib.rs:232-250`) carries
  only the session id, and the emit runs after the lock scope: two
  responses for one session, each to the request shown at the time, can
  reach the broker in the other order, so the hook that reads them in order
  matches each decision to the wrong request (same run, all emits `Ok`).
* `agent-management lib.rs:381/408` – `send_prompt` emits before it records
  the session; an answer handled in between is dropped by
  `handle_agent_event` (5 steps).
* `agent-management lib.rs:459` – `send_followup` sets "running" after its
  emit returns; an agent's completed/failed answer handled first is
  overwritten, and the user's message is listed after the reply.
* `hub lib.rs:123` (and every other loop) – resubscribing `from("latest")`
  after the 5 s sleep skips what was published meanwhile; spec.md leaves the
  resume position of a reconnect open (spec gap).
* `event-log lib.rs:58` – breaks on any `Err` item although spec.md makes an
  error frame non-fatal; events sent after it on that stream are lost.

## 4. Not modelled (yet)

* JSON encoding/decoding, URL rewriting, payload defaults (`attempt` 1,
  `max_attempts` 3): data only, the control flow does not depend on them.
* The broker itself (out of scope in spec.md); it appears only as the
  environment writing frames.
* `NotifBuilder::build` / `Notif::from_env` (the key-prefix check and the
  environment lookup) and `connect`'s URL rewrite: pure conversions that
  run once before anything concurrent starts.
* The HTTP request of `emit` beyond what `NotifClient` keeps (the stage it
  failed at, three representative statuses, whether the body decodes).
  Observed but not checked by a run: `emit` maps a transport failure and an
  undecodable body to `NotifError::Http`, and `connect` maps a refused
  connection to `WebSocket`, where spec.md section 7 names `ConnectionError`
  and `SerializationError`; `NotifClient.EmitResult` models what the code
  does.
* Tauri window, view, agent selection and shortcut plumbing: single
  assignments under their own mutex, never held across another await.
  `show_window` / `hide_window` set `window_visible` in a lock scope apart
  from the window call, so two concurrent invocations can leave the flag
  disagreeing with the window; this is listed as a hazard
  (agent-management `lib.rs:276`).  `set_view` and `select_agent` have the
  same shape (`lib.rs:307`, `353-354`): the value is stored in one lock
  statement and the `view_changed` / `agent_selected` event is emitted after
  the guard is dropped, so two concurrent calls can leave the stored value
  and the UI's last event disagreeing.  The property that matters here (the
  stored value agrees with the window or the UI) fails in every instance
  with two concurrent calls, so it would be a violation run of its own in a
  module that nothing else reads; the twelve runs are kept for the findings
  above, which lose data or stop progress.
* Agent status ordering (`lib.rs:585`, `lib.rs:680`): the announcement
  subscription upserts the whole `Agent` record and session events set the
  agent's status from whatever session event came last, with no order
  between the two subscriptions.  `ChatSessions.AgentDiscovered` and
  `HandleAgentEvent` model both writes, but no run states a property of the
  agent's status: the UI only displays it.
* What `emit`'s result tells its caller: `Ok` comes only after a 2xx, which
  `NotifClient` takes to mean the broker published, so a property that a
  command's `Ok` means "delivered" would restate that assumption and is not
  stated.  The opposite case, `Err` after the broker took the request
  (`lib.rs:387`: the agent runs a session the app never records), is a
  hazard without a property.
* Larger chat instances: `chat_safety` checks liveness, and 2 agent events
  already take TLC beyond a quarter of an hour.
* Pure reads under one lock (`get_chat_sessions`, `get_agents`,
  `get_selected_agent`, `get_current_view`): they change nothing and hold
  no other lock.
* The Claude Code hook and the agents themselves (outside this repository):
  the agents appear only as the environment publishing session events.
* The permission answer between the modular-desktop apps and the hook:
  hub's `respond_permission` sends a decision with no session id
  (`hub lib.rs:88`), and hub and toast both subscribe to
  `claude.permission.request` without a consumer group, so with both
  running each request is shown twice and can be answered twice
  (`toast lib.rs:61`).  Both commands are stateless emits and what a
  duplicate or unaddressed decision does is up to the hook; both are
  listed as hazards without a property.
* Schedule types and the wire structs of `types.rs`, the re-exports of the
  SDK's `lib.rs`, and each app's `run()` (Tauri builder, plugin and shortcut
  registration, spawning the subscription tasks, which is the modules'
  `Init`): declarations and set-up with no behaviour of their own.
