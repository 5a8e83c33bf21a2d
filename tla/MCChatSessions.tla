--------------------------- MODULE MCChatSessions ---------------------------
(* Two concurrent commands, one agent, two session ids the uuid may yield. *)
EXTENDS ChatSessions

CONSTANTS p1, p2, a1, s1, s2

MCProcs == {p1, p2}
MCAgentNames == {a1}
MCSessionIds == {s1, s2}
\* Announcements: busy on a session (a status handle_agent_event also sets)
\* and offline with none (one it never sets).
MCAnnounced == {[status |-> "busy", activeSession |-> s1],
               [status |-> "offline", activeSession |-> NoSession]}
=============================================================================
