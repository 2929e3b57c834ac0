SPECIFICATION Spec
CONSTANTS
    t1 = t1
    a = a
    u1 = u1
    u2 = u2
    m1 = m1
    m2 = m2
    Threads = {t1}
    Turns = {a}
    Items = {u1, u2, m1, m2}
    KindOf <- MCKindOf
    TheThread = t1
    TheTurn = a
    Steers = {u1, u2}
    Mails = {m1, m2}
    BoardMails = {m2}
    Cancellers = {}
    DeferPreemption = FALSE
    MaxSamples = 3
INVARIANTS DeliveredOnceInOrder FinalAnswerSticks
PROPERTIES SteersTakenBeforeClosing
