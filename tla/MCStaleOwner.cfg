SPECIFICATION FairSpec
CONSTANTS
    a1 = a1
    a2 = a2
    none = none
    h1 = h1
    h2 = h2
    Accounts = {a1, a2}
    NoAccount = none
    Handlers = {h1}
    MaxChanges = 1
    MaxToggles = 0
PROPERTIES OtherOwnersConnectionEnds
CHECK_DEADLOCK FALSE
