---------------------------- MODULE ChatSessions ----------------------------
(***************************************************************************)
(* The chat side of the agent-management desktop app                      *)
(* (src/examples/agent-management/src/lib.rs): the UI starts a session   *)
(* on an agent with send_prompt, continues it with send_followup, stops   *)
(* it with cancel_session; the agents answer on agents.*.session.* topics *)
(* and the session subscription records each answer in the session with   *)
(* handle_agent_event.  The agent subscription upserts discovered agents. *)
(*                                                                         *)
(* Commands are Tauri async commands and run concurrently with each other *)
(* and with the subscription tasks; they meet only in tokio mutexes.  The *)
(* two locks a command can hold while awaiting another one are explicit  *)
(* (owner); a block that locks, updates and unlocks with no other await  *)
(* is one step guarded by the lock being free.                            *)
(*                                                                         *)
(* The agents are the environment: an agent that was sent a request for a *)
(* session answers with started, then any output/blocked, then one of    *)
(* completed/failed, which the broker delivers to the session            *)
(* subscription in publish order.                                         *)
(***************************************************************************)
EXTENDS Naturals, Sequences, SequencesExt, TLC, NotifClient

CONSTANTS Procs,        \* concurrent command invocations
          AgentNames,   \* agents the UI may address
          SessionIds,   \* ids send_prompt may generate
          MaxEvents,    \* bound: session events the agents publish
          MaxRequests,  \* bound: requests the broker accepts
          MaxDiscovery, \* bound: agents.available announcements
          NoSession     \* model value: Option<String>::None

ASSUME NoSession \notin SessionIds

Kinds == {"started", "output", "blocked", "completed", "failed"}
StatusValues == {"running", "completed", "failed", "blocked"}
AgentStatusValues == {"idle", "busy", "offline", "none"}
(* What an agents.available event may carry: a status and an            *)
(* active_session_id.                                                      *)
Announced == [status : AgentStatusValues, activeSession : SessionIds \cup {NoSession}]
Locks == {"chat_sessions", "active_chat_session"}

(* client.emit's outcomes, EmitOutcomes, Delivered and EmitOk, come from *)
(* NotifClient: "ok", "lost" (Err, never published) or "late" (Err, but  *)
(* the broker published the request).                                     *)

VARIABLES chat,         \* chat_sessions: session id -> [agent, log, status]
          activeChat,   \* active_chat_session
          agents,       \* agents: name -> [status, activeSession]
          owner,        \* lock -> holder of that tokio Mutex
          pc,           \* proc -> where its command is suspended
          arg,          \* proc -> session of its command
          argAgent,     \* proc -> agent_name of its command
          requests,     \* history: requests the broker accepted, in order
          agentPhase,   \* agent side: session -> "none" | "asked" | "running" | "done"
          events,       \* session events published, not yet handled (FIFO)
          published,    \* history: number of session events published
          handled,      \* history: session -> kinds the handler processed
          discovered    \* history: number of agents.available events

vars == <<chat, activeChat, agents, owner, pc, arg, argAgent, requests, agentPhase,
          events, published, handled, discovered>>

DefaultAgent == CHOOSE a \in AgentNames : TRUE
Free(l) == owner[l] = "free"

(* A command moves on to `at` with its locals session_id / agent_name; on *)
(* return ("idle") its locals are gone.                                  *)
Goto(p, at, s, a) ==
    /\ pc' = [pc EXCEPT ![p] = at]
    /\ arg' = [arg EXCEPT ![p] = IF at = "idle" THEN NoSession ELSE s]
    /\ argAgent' = [argAgent EXCEPT ![p] = IF at = "idle" THEN DefaultAgent ELSE a]
Return(p) == Goto(p, "idle", NoSession, DefaultAgent)
ReleaseAll(p) == [l \in Locks |-> IF owner[l] = p THEN "free" ELSE owner[l]]
Used == {r.session : r \in Range(requests)} \cup DOMAIN chat \cup
        {arg[p] : p \in {q \in Procs : pc[q] # "idle"}}

Init ==
    /\ chat = << >>
    /\ activeChat = NoSession
    /\ agents = << >>
    /\ owner = [l \in Locks |-> "free"]
    /\ pc = [p \in Procs |-> "idle"]
    /\ arg = [p \in Procs |-> NoSession]
    /\ argAgent = [p \in Procs |-> DefaultAgent]
    /\ requests = << >>
    /\ agentPhase = [s \in SessionIds |-> "none"]
    /\ events = << >>
    /\ published = 0
    /\ handled = [s \in SessionIds |-> << >>]
    /\ discovered = 0

(* client.emit of a session.create / .message / .cancel request: one     *)
(* accepted by the broker reaches the agent, and create / resume make it *)
(* (re)start the session.                                                *)
Request(s, a, o, kind) ==
    /\ Len(requests) < MaxRequests
    /\ requests' = IF Delivered(o)
                   THEN Append(requests, [kind |-> kind, session |-> s, agent |-> a])
                   ELSE requests
    /\ agentPhase' = IF Delivered(o) /\ kind # "cancel"
                     THEN [agentPhase EXCEPT ![s] = "asked"] ELSE agentPhase

(* send_prompt(agent, prompt), up to the emit: a fresh session id, the    *)
(* session.create request emitted; an Err returns before anything is    *)
(* recorded.                                                             *)
SendPrompt(p, a, s, o) ==
    /\ pc[p] = "idle" /\ s \notin Used
    /\ Request(s, a, o, "create")
    /\ Goto(p, IF EmitOk(o) THEN "send_prompt_insert" ELSE "idle", s, a)
    /\ UNCHANGED <<chat, activeChat, agents, owner, events, published, handled, discovered>>

(* Faulty variant: the chat_sessions guard is kept while active_chat_session *)
(* is locked (one scope for both updates).                                *)
SendPromptInsert_HoldLock(p) ==
    /\ pc[p] = "send_prompt_insert" /\ Free("chat_sessions")
    /\ chat' = chat @@ (arg[p] :> [agent |-> argAgent[p], log |-> <<"user">>,
                                   status |-> "running"])
    /\ owner' = [owner EXCEPT !["chat_sessions"] = p]
    /\ pc' = [pc EXCEPT ![p] = "send_prompt_activate"]
    /\ UNCHANGED <<activeChat, agents, arg, argAgent, requests, agentPhase, events, published, handled, discovered>>

(* send_prompt, after the emit: insert the session with the user's prompt *)
(* as its only message and status "running" (a scope of its own).       *)
SendPromptInsert(p) ==
    /\ pc[p] = "send_prompt_insert" /\ Free("chat_sessions")
    /\ chat' = chat @@ (arg[p] :> [agent |-> argAgent[p], log |-> <<"user">>,
                                   status |-> "running"])
    /\ pc' = [pc EXCEPT ![p] = "send_prompt_activate"]
    /\ UNCHANGED <<activeChat, agents, owner, arg, argAgent, requests, agentPhase, events, published, handled, discovered>>

(* send_prompt, last: make the new session the active chat session.      *)
SendPromptActivate(p) ==
    /\ pc[p] = "send_prompt_activate" /\ Free("active_chat_session")
    /\ activeChat' = arg[p]
    /\ owner' = ReleaseAll(p)
    /\ Return(p)
    /\ UNCHANGED <<chat, agents, requests, agentPhase, events, published, handled, discovered>>

(* send_followup(s) up to its emit, and cancel_session(s): read the       *)
(* session's agent under chat_sessions ("Session not found" if absent),  *)
(* then emit session.message / session.cancel.  Sessions are never       *)
(* removed and never change agent, so the read and the emit are one step. *)
SendFollowup(p, s, o) ==
    /\ pc[p] = "idle" /\ Free("chat_sessions") /\ s \in DOMAIN chat
    /\ Request(s, chat[s].agent, o, "resume")
    /\ Goto(p, IF EmitOk(o) THEN "send_followup_record" ELSE "idle", s, chat[s].agent)
    /\ UNCHANGED <<chat, activeChat, agents, owner, events, published, handled, discovered>>

(* send_followup, after the emit: append the user's message and set the  *)
(* status to "running", whatever the agent has answered meanwhile.       *)
SendFollowupRecord(p) ==
    /\ pc[p] = "send_followup_record" /\ Free("chat_sessions")
    /\ chat' = [chat EXCEPT ![arg[p]].log = Append(@, "user"),
                            ![arg[p]].status = "running"]
    /\ Return(p)
    /\ UNCHANGED <<activeChat, agents, owner, requests, agentPhase, events, published, handled, discovered>>

CancelSession(p, s, o) ==
    /\ pc[p] = "idle" /\ Free("chat_sessions") /\ s \in DOMAIN chat
    /\ Request(s, chat[s].agent, o, "cancel")
    /\ UNCHANGED <<chat, activeChat, agents, owner, pc, arg, argAgent, events, published, handled, discovered>>

-----------------------------------------------------------------------------
(* The agents (environment).  An agent answers a create / resume with     *)
(* started, then output / blocked while running, then completed or failed; *)
(* it may also fail before starting.  Events reach the session            *)
(* subscription in publish order.                                         *)
AgentOf(s) == (CHOOSE r \in Range(requests) : r.session = s).agent
Answers == {<<"asked", "started", "running">>, <<"asked", "failed", "done">>,
            <<"running", "output", "running">>, <<"running", "blocked", "running">>,
            <<"running", "completed", "done">>, <<"running", "failed", "done">>}

AgentPublish(s, k) ==
    /\ published < MaxEvents
    /\ \E t \in Answers :
          /\ t[1] = agentPhase[s] /\ t[2] = k
          /\ agentPhase' = [agentPhase EXCEPT ![s] = t[3]]
    /\ events' = Append(events, [session |-> s, agent |-> AgentOf(s), kind |-> k])
    /\ published' = published + 1
    /\ UNCHANGED <<chat, activeChat, agents, owner, pc, arg, argAgent, requests, handled, discovered>>

(* start_agent_subscription: an agents.available event that decodes as  *)
(* an Agent replaces the agent's whole record, status and active session *)
(* as announced.                                                          *)
AgentDiscovered(a, rec) ==
    /\ discovered < MaxDiscovery
    /\ agents' = [x \in DOMAIN agents \cup {a} |->
                     IF x = a THEN rec
                     ELSE agents[x]]
    /\ discovered' = discovered + 1
    /\ UNCHANGED <<chat, activeChat, owner, pc, arg, argAgent, requests, agentPhase, events, published, handled>>

-----------------------------------------------------------------------------
(* Faulty variant: the session status is set to the raw event kind.       *)
SessionStatus_RawKind(k, old) == k

(* handle_agent_event's mapping from event kind to session status.        *)
SessionStatus(k, old) ==
    CASE k \in {"started", "progress", "output"} -> "running"
      [] k \in {"completed", "failed", "blocked"} -> k
      [] OTHER -> old

(* ... and to agent status and active session.                            *)
AgentAfter(k, s, old) ==
    [status |-> CASE k \in {"started", "progress", "output", "blocked"} -> "busy"
                  [] k \in {"completed", "failed"} -> "idle"
                  [] OTHER -> old.status,
     activeSession |-> IF k \in {"completed", "failed"} THEN NoSession ELSE s]

(* start_session_subscription + handle_agent_event: the next event is     *)
(* appended to its session, if the app has it, with the status its kind  *)
(* maps to, and then, in a block of its own, the agent's record, if known, *)
(* is updated; an event for an unknown session or agent changes nothing.  *)
(* The agents block holds no other lock, so the two blocks are one step.  *)
HandleAgentEvent ==
    /\ events # << >> /\ Free("chat_sessions")
    /\ LET e == Head(events) IN
       /\ chat' = IF e.session \in DOMAIN chat
                  THEN [chat EXCEPT ![e.session].log = Append(@, e.kind),
                                    ![e.session].status = SessionStatus(e.kind, @)]
                  ELSE chat
       /\ agents' = IF e.agent \in DOMAIN agents
                    THEN [agents EXCEPT ![e.agent] = AgentAfter(e.kind, e.session, @)]
                    ELSE agents
       /\ handled' = [handled EXCEPT ![e.session] = Append(@, e.kind)]
    /\ events' = Tail(events)
    /\ UNCHANGED <<activeChat, owner, pc, arg, argAgent, requests, agentPhase, published, discovered>>

-----------------------------------------------------------------------------
(* get_active_chat_session: lock active_chat_session; None returns at    *)
(* once, otherwise chat_sessions is locked while the first guard is held. *)
GetActiveChatSession(p) ==
    /\ pc[p] = "idle" /\ Free("active_chat_session") /\ activeChat # NoSession
    /\ owner' = [owner EXCEPT !["active_chat_session"] = p]
    /\ Goto(p, "get_active_chat_session", activeChat, DefaultAgent)
    /\ UNCHANGED <<chat, activeChat, agents, requests, agentPhase, events, published, handled, discovered>>

GetActiveChatSessionRead(p) ==
    /\ pc[p] = "get_active_chat_session" /\ Free("chat_sessions")
    /\ owner' = ReleaseAll(p)
    /\ Return(p)
    /\ UNCHANGED <<chat, activeChat, agents, requests, agentPhase, events, published, handled, discovered>>

(* set_active_chat_session: any id the UI passes, or None.               *)
SetActiveChatSession(p, s) ==
    /\ pc[p] = "idle" /\ Free("active_chat_session")
    /\ activeChat' = s
    /\ UNCHANGED <<chat, agents, owner, pc, arg, argAgent, requests, agentPhase, events, published, handled, discovered>>

-----------------------------------------------------------------------------
Next ==
    \/ \E p \in Procs :
          \/ \E a \in AgentNames, s \in SessionIds, o \in EmitOutcomes : SendPrompt(p, a, s, o)
          \/ SendPromptInsert(p) \/ SendPromptActivate(p)
          \/ \E s \in SessionIds, o \in EmitOutcomes :
                SendFollowup(p, s, o) \/ CancelSession(p, s, o)
          \/ SendFollowupRecord(p)
          \/ GetActiveChatSession(p) \/ GetActiveChatSessionRead(p)
          \/ \E s \in SessionIds \cup {NoSession} : SetActiveChatSession(p, s)
    \/ \E s \in SessionIds, k \in Kinds : AgentPublish(s, k)
    \/ \E a \in AgentNames, rec \in Announced : AgentDiscovered(a, rec)
    \/ HandleAgentEvent

(* A command that is waiting on a tokio Mutex gets it once it is offered  *)
(* repeatedly (the Mutex is FIFO), and so does the session subscription   *)
(* task; neither the UI nor the agents are assumed to do anything.        *)
Fairness ==
    /\ SF_vars(HandleAgentEvent)
    /\ \A p \in Procs :
          /\ SF_vars(SendPromptInsert(p)) /\ SF_vars(SendPromptActivate(p))
          /\ SF_vars(SendFollowupRecord(p)) /\ SF_vars(GetActiveChatSessionRead(p))

Spec == Init /\ [][Next]_vars
FairSpec == Spec /\ Fairness

-----------------------------------------------------------------------------
(* Properties.                                                           *)

Session == [agent : AgentNames, log : Seq(Kinds \cup {"user"}), status : StatusValues]

TypeOK ==
    /\ DOMAIN chat \subseteq SessionIds /\ \A s \in DOMAIN chat : chat[s] \in Session
    /\ activeChat \in SessionIds \cup {NoSession}
    /\ DOMAIN agents \subseteq AgentNames
    /\ \A a \in DOMAIN agents :
          agents[a] \in [status : AgentStatusValues, activeSession : SessionIds \cup {NoSession}]
    /\ owner \in [Locks -> Procs \cup {"free"}]
    /\ arg \in [Procs -> SessionIds \cup {NoSession}]
    /\ events \in Seq([session : SessionIds, agent : AgentNames, kind : Kinds])

(* Every agent event for a session the app created is in that session's  *)
(* messages, in the order the subscription delivered them.                *)
IsAgentKind(m) == m \in Kinds
AgentEventsRecorded ==
    \A s \in DOMAIN chat : SelectSeq(chat[s].log, IsAgentKind) = handled[s]

(* Once the agent has finished a session, all its events are handled and *)
(* recorded (none was lost to the race above) and no command for it is in *)
(* flight, the session does not still say "running", a status nothing    *)
(* will ever change again.                                                 *)
Quiet(s) ==
    /\ agentPhase[s] = "done"
    /\ \A i \in 1..Len(events) : events[i].session # s
    /\ \A p \in Procs : pc[p] # "idle" => arg[p] # s
    /\ SelectSeq(chat[s].log, IsAgentKind) = handled[s]
ChatStatusSettles ==
    \A s \in DOMAIN chat : Quiet(s) => chat[s].status # "running"

(* Every command the UI invokes returns: get_active_chat_session holds    *)
(* active_chat_session while it waits for chat_sessions, and send_prompt  *)
(* takes them in the other order, one after the other.                    *)
CommandsReturn == \A p \in Procs : (pc[p] # "idle") ~> (pc[p] = "idle")

(* The session subscription task is never blocked for good: every event  *)
(* the agents publish is eventually handled.                              *)
EventsEventuallyHandled ==
    \A n \in 1..MaxEvents : (published >= n) ~> (published - Len(events) >= n)

=============================================================================
