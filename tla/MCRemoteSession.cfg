SPECIFICATION FairSpec
CONSTANTS
    a1 = a1
    a2 = a2
    none = none
    h1 = h1
    h2 = h2
    Accounts = {a1, a2}
    NoAccount = none
    Handlers = {h1}
    MaxChanges = 2
    MaxToggles = 1
PROPERTIES EnrollmentKeepsOwner OwnerChangeEndsConnection ShutdownEndsRun
CHECK_DEADLOCK FALSE
