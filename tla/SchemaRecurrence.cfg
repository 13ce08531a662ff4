SPECIFICATION Spec
CONSTANTS
    t1 = t1
    t2 = t2
    t3 = t3
    t4 = t4
    w1 = w1
    w2 = w2
    s1 = s1
    Tasks = {t1, t2, t3}
    Workers = {w1}
    Streams = {s1}
    StreamOf <- MCOneStream
    FingerprintOf <- MCMostlySame
    NoFingerprint = NoFingerprint
    BatchSize = 2
    Lease = 1
    MaxAttempts = 2
    BackoffBase = 1
    BackoffMax = 2
    MaxDelay = 0
    MaxClock = 1
    MaxFaults = 0
INVARIANTS
    ChangesAreEvidenced
