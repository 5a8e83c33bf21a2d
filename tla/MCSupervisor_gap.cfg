\* A drain loop, after its first subscription: an event published on a
\* connection that dies before it is sent is never seen.
CONSTANTS
    LoopKinds = {"drain"}
    MaxEvents = 3
    MaxErrors = 0
SPECIFICATION Spec
INVARIANT GaplessForwarding
