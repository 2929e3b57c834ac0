SPECIFICATION Spec
CONSTANTS
    s1 = s1
    s2 = s2
    s3 = s3
    work = work
    Spawns = {s1, s2, s3}
    TaskPaths = {work}
    PathOf <- TwoOnOnePath
    Names = {Ada}
    MaxThreads = 2
    RootThread = root
    RootPath = rootPath
    Resumers = {r1, r2}
INVARIANTS TypeOK IdentitiesBijective PlaceholdersHeld SlotsAccounted NamesDistinct
CHECK_DEADLOCK FALSE
