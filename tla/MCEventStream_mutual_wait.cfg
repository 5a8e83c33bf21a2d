\* examples/subscribe.rs (auto_ack off, each event acked before the next
\* pull): can the pump and the caller end up waiting on each other?
CONSTANTS
    AutoAckModes = {FALSE}
    EvCap <- MCEvCap
    AckCap <- MCAckCap
    MaxEvents <- MCMaxEvents
    MaxNoise <- MCMaxNoise

SPECIFICATION ExampleSpec

INVARIANT NoMutualWait

CHECK_DEADLOCK FALSE
