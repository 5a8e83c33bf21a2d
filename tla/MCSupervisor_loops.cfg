\* Both kinds of loop: a drain loop (agent-management, hub, toast), which
\* skips Err items, and event-log's loop, which leaves the stream on one.
CONSTANTS
    LoopKinds = {"drain", "eventlog"}
    MaxEvents = 4
    MaxErrors = 2
SPECIFICATION FairSpec
INVARIANTS TypeOK ForwardedOnceInOrder
PROPERTIES DrainLoopForwardsSent ConnectionLossReported
