\* An agent answer handled before send_prompt records its session is lost.
CONSTANTS
    p1 = p1  p2 = p2  a1 = a1  s1 = s1  s2 = s2
    NoSession = NoSession
    Procs <- MCProcs
    AgentNames <- MCAgentNames
    SessionIds <- MCSessionIds
    MaxEvents = 3
    MaxRequests = 2
    MaxDiscovery = 1
SPECIFICATION Spec
INVARIANT AgentEventsRecorded
\* The app stops for good once the agents and the UI have used their bounds.
CHECK_DEADLOCK FALSE
