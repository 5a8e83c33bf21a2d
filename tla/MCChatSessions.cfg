\* The chat commands under every interleaving with the session subscription
\* and the agents: safety, and under FIFO mutexes, progress.
CONSTANTS
    p1 = p1  p2 = p2  a1 = a1  s1 = s1  s2 = s2
    NoSession = NoSession
    Procs <- MCProcs
    AgentNames <- MCAgentNames
    SessionIds <- MCSessionIds
    Announced <- MCAnnounced
    MaxEvents = 1
    MaxRequests = 2
    MaxDiscovery = 1
SPECIFICATION FairSpec
INVARIANTS TypeOK
PROPERTIES CommandsReturn EventsEventuallyHandled
\* The app stops for good once the agents and the UI have used their bounds.
CHECK_DEADLOCK FALSE
