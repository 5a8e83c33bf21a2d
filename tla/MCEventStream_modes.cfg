\* One subscription, connected with auto_ack = TRUE or with auto_ack = FALSE.
CONSTANTS
    AutoAckModes = {TRUE, FALSE}
    EvCap <- MCEvCap
    AckCap <- MCAckCap
    MaxEvents <- MCMaxEvents
    MaxNoise <- MCMaxNoise

SPECIFICATION FairSpec

INVARIANT TypeOK
PROPERTY ContractRefined
PROPERTY AutoAckPumpStops

\* The system stops for good once the broker has closed and the stream has ended.
CHECK_DEADLOCK FALSE
