SPECIFICATION Spec
CONSTANTS
    r1 = r1
    r2 = r2
    w1 = w1
    w2 = w2
    Rows = {r1, r2}
    Workers = {w1, w2}
    NoRow = NoRow
    PointOf <- MCPointOf
    TypeOf <- MCSameType
    BatchSize = 2
    Lease = 1
    MaxAttempts = 2
    BackoffBase = 1
    BackoffMax = 2
    MaxDelay = 0
    MaxClock = 3
    MaxFaults = 0
    MaxReplays = 0
SYMMETRY RowWorkerSymmetry
CONSTRAINT NoStop
INVARIANTS
    DeliveryInv
PROPERTIES
    OnlyLeaseholderSettles
