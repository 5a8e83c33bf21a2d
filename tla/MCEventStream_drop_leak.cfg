\* auto_ack = false: does dropping the EventStream stop the pump task?
CONSTANTS
    AutoAckModes = {FALSE}
    EvCap <- MCEvCap
    AckCap <- MCAckCap
    MaxEvents <- MCMaxEvents
    MaxNoise <- MCMaxNoise

SPECIFICATION FairSpec

PROPERTY PumpStopsAfterStreamDrop

CHECK_DEADLOCK FALSE
