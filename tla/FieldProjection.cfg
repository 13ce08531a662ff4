SPECIFICATION Spec
CONSTANTS
    t1 = t1
    t2 = t2
    t3 = t3
    w1 = w1
    w2 = w2
    s1 = s1
    s2 = s2
    Tasks = {t1, t2, t3}
    Workers = {w1, w2}
    Streams = {s1, s2}
    StreamOf <- MCStreamOf
    FieldsOf <- MCFieldsOf
    NoFields = NoFields
    BatchSize = 2
    Lease = 1
    MaxAttempts = 2
    BackoffBase = 1
    BackoffMax = 2
    MaxDelay = 1
    MaxClock = 2
    MaxFaults = 1
SYMMETRY WorkerSymmetry
INVARIANTS
    ProjectionInv
    ProjectedOnce
    GivenUpJustified
