SPECIFICATION FairSpec
CONSTANTS
    t1 = t1
    t2 = t2
    a = a
    b = b
    u1 = u1
    m1 = m1
    c1 = c1
    w1 = w1
    w2 = w2
    r1 = r1
    Threads = {t1, t2}
    Turns = {a}
    Items = {u1, m1, c1}
    Watchers = {w2}
    Waiters = {r1}
    KindOf <- MCKindOf
    WatchKey <- MCWatchKey
    WatchFor <- MCWatchFor
    WaitKey <- MCWaitKey
    MaxBatch = 2
INVARIANTS NoLostWakeup InjectionBitExact NoLostWait OutcomeJustified
PROPERTY WatcherWakes
