SPECIFICATION Spec
CONSTANTS
    r1 = r1
    r2 = r2
    w1 = w1
    w2 = w2
    Rows = {r1}
    Workers = {w1, w2}
    NoRow = NoRow
    PointOf <- MCPointOf
    TypeOf <- MCSameType
    BatchSize = 1
    Lease = 1
    MaxAttempts = 2
    BackoffBase = 1
    BackoffMax = 2
    MaxDelay = 0
    MaxClock = 3
    MaxFaults = 1
    MaxReplays = 1
SYMMETRY WorkerSymmetry
INVARIANTS
    TypeOK
    LeaseExclusive
    DeliveredIsStored
    NoStrandedRow
PROPERTIES
    DeliveredIsFinal
    FailureSettlesLastClaim
    ContractSpec
