SPECIFICATION Spec
CONSTANTS
    l1 = l1
    l2 = l2
    l3 = l3
    NoLead = NoLead
    Leads = {l1, l2, l3}
    CreatedAt <- MCCreatedAt
    UtcOffset <- MCUtcOffset
    FailedBefore <- MCFailedBefore
    StartTime <- MCStartTime
    Horizon <- MCHorizon
    Refused = {l3}
    BatchSize = 2
    PollInterval = 5
    StartHour = 8
    EndHour = 21
    MaxRequest = 1
    MaxFaults = 2
CHECK_DEADLOCK FALSE
INVARIANTS
    TypeOK
    DialedSoonAfterHours
PROPERTIES
    DialsPaced
    BackoffRespected
