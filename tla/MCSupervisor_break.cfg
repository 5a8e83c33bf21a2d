\* event-log's loop: an Err item drops the stream with events still on it.
CONSTANTS
    LoopKinds = {"eventlog"}
    MaxEvents = 3
    MaxErrors = 1
SPECIFICATION FairSpec
PROPERTY SentEventsForwarded
