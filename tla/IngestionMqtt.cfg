SPECIFICATION Spec
CONSTANTS
    point = point
    spelt = spelt
    plain = plain
    broken = broken
    nul = nul
    alien = alien
    a1 = a1
    a2 = a2
    s1 = s1
    Messages = {point, plain}
    Streams = {s1}
    NoStream = NoStream
    Adapters = {a1}
    NoCapture = NoCapture
    StreamOf <- MCStreamOf
    TopicOf <- MCTopicOf
    ContentOf <- MCContentOf
    FormOf <- MCFormOf
    ContentTypeOf <- MCMqtt
    SourceTimeOf <- MCSourceTimeOf
    BrokerTimeOf <- MCBrokerTimeOf
    FutureSkew = 1
    FallbackWindow = 2
    Minute = 3
    FirstClock = 2
    MaxClock = 4
    MaxDeliveries = 3
    MaxFaults = 0
INVARIANTS
    PointsReachOutbox
