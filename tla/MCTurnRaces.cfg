SPECIFICATION FairSpec
CONSTANTS
    t1 = t1
    a = a
    u1 = u1
    u2 = u2
    m1 = m1
    m2 = m2
    Threads = {t1}
    Turns = {a}
    Items = {u1}
    KindOf <- MCKindOf
    TheThread = t1
    TheTurn = a
    Steers = {u1}
    Mails = {}
    BoardMails = {}
    Cancellers = {"interrupt", "guardian"}
    DeferPreemption = FALSE
    MaxSamples = 2
INVARIANTS InterruptedNotPersisted
PROPERTIES EveryTurnReported FinishingReleased
