SPECIFICATION Spec
CONSTANTS
    k1 = k1
    k2 = k2
    Keys = {k1, k2}
    MaxEnvelopes = 2
    MaxSeq = 2
    EventCap = 1
    ClosedCap = 1
    WriterCap = 1
    MaxBreaks = 1
    MaxConnections = 2
INVARIANTS OrphansReported CursorCoversDelivery DeadPumpNoticed
PROPERTIES HandedInOrder
SYMMETRY Symmetry
CHECK_DEADLOCK FALSE
