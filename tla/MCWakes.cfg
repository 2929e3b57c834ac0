SPECIFICATION Spec
CONSTANTS
    m1 = m1
    m2 = m2
    s1 = s1
    t1 = t1
    t2 = t2
    i1 = i1
    Mails = {m1, m2}
    Starts = {s1}
    Turns = {t1, t2}
    Interrupts = {i1}
    MaxPauses = 1
    MaxToggles = 1
SYMMETRY Interchangeable
INVARIANTS MailOnce MailHasWaker MutexesHandedOn
CHECK_DEADLOCK FALSE
