SPECIFICATION Spec
CONSTANTS
    OnsetDuration = 1
    OffsetDuration = 2
    MaxQueueSize = 2
    MaxFrames = 5
    MaxTime = 3
    MaxSessions = 2
    MaxStops = 2
CHECK_DEADLOCK FALSE
INVARIANTS
    TypeOK
    TurnsAsHeard
    SubscriberCatchesUp
