SPECIFICATION Spec
CONSTANTS
    ta = ta
    tb = tb
    s1 = s1
    s2 = s2
    c1 = c1
    c2 = c2
    m1 = m1
    m2 = m2
    q1 = q1
    q2 = q2
    r1 = r1
    r2 = r2
    n = n
    o = o
    two = two
    mean = mean
    None = None
    Tenants = {ta, tb}
    Streams = {s1, s2}
    TenantOf <- MCTenantOf
    Names = {n, o}
    ClassIds = {c1, c2}
    MembershipIds = {m1, m2}
    QueryIds = {q1, q2}
    Requests = {r1, r2}
    Specs = {two, mean}
    SeriesOf <- MCSeriesOf
    RawSpecs = {two}
    Contents <- MCContents
    Series <- MCSeries
    SeriesRank <- MCSeriesRank
    WindowStart = 1
    WindowStop = 4
    MaxPointsPerSeries = 2
    MaxPointsPerResponse = 3
SYMMETRY IdSymmetry
INVARIANTS
    ClassesInv
    TenantIsolation
    NoOrphans
    QueriesOverMembers
    ExecutesOverMembers
    TruncatedIsHonest
    SeriesAreEarliest
    LimitsAreKept
CHECK_DEADLOCK FALSE
