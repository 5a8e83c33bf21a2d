\* Do concurrent commands always return?
CONSTANTS
    p1 = p1
    p2 = p2
    s1 = s1
    s2 = s2
    NoOwner = NoOwner
    Procs <- MCProcs
    Sessions <- MCSessions
    MaxRequests <- MCMaxRequests
    MaxResponses <- MCMaxResponses

SPECIFICATION FairSpec

PROPERTY CommandsReturn

CHECK_DEADLOCK FALSE
