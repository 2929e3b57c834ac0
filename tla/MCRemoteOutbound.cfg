SPECIFICATION FairSpec
CONSTANTS
    s1 = s1
    s2 = s2
    Streams = {s1, s2}
    StreamOrder <- MCStreamOrder
    MaxMessages = 2
    MaxSegments = 2
    QueueSize = 2
    MaxBreaks = 2
INVARIANTS BufferCoversUntaken MissingIsUnderWay
PROPERTIES StreamsAsPromised
CHECK_DEADLOCK FALSE
