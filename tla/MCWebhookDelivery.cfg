SPECIFICATION FairSpec
CONSTANTS
    e1 = e1
    v1 = v1
    v2 = v2
    j1 = j1
    j2 = j2
    j3 = j3
    w1 = w1
    w2 = w2
    q1 = q1
    Endpoints = {e1}
    Events = {v1}
    Jobs = {j1, j2}
    NoJob = NoJob
    Nobody = Nobody
    Workers = {w1, w2}
    Requests = {q1}
    MaxAttempts = 2
    Threshold = 2
    MaxRetries = 1
    MaxFaults = 1
CHECK_DEADLOCK FALSE
INVARIANTS
    TypeOK
    DeliveredWasAccepted
    SettledWhenIdle
    AttemptsBounded
    DisabledOnlyAfterFailures
    AutoDisableNotMissed
PROPERTIES
    QueueDrains
