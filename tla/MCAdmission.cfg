SPECIFICATION FairSpec
CONSTANTS
    t1 = t1
    t2 = t2
    s1 = s1
    r1 = r1
    c1 = c1
    p1 = p1
    p2 = p2
    Threads = {t1, t2}
    Starts = {s1}
    Reviews = {r1}
    Continuations = {c1}
    ThreadOf <- TwoThreads
    Pausers = {p1, p2}
INVARIANTS PauseExclusive WorkersCounted ShutdownQuiet
PROPERTIES DrainEnds OneOwner ReservationSurvivesDrain
CHECK_DEADLOCK FALSE
