\* Safety of the permission queue under every interleaving of two commands
\* and the subscription task.
CONSTANTS
    p1 = p1
    p2 = p2
    s1 = s1
    s2 = s2
    NoOwner = NoOwner
    Procs <- MCProcs
    Sessions <- MCSessions
    MaxRequests <- MCMaxRequests
    MaxResponses <- MCMaxResponses

SPECIFICATION Spec

INVARIANT TypeOK
INVARIANT RequestsAccountedInOrder

\* The lock-order inversion really stops the commands (see
\* MCPermissionQueue_deadlock.cfg), so a stopped state is not reported here.
CHECK_DEADLOCK FALSE
