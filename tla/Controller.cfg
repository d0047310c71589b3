SPECIFICATION FairSpec
CONSTANTS
    a = a
    b = b
    p = p
    q = q
    name1 = name1
    name2 = name2
    lock = lock
    arch = arch
    routeros = routeros
    extra = extra
    Caller = {a, b}
    Process = {p, q}
    ProcessOf <- OneEach
    LockName = {name1, name2}
    LockFile = {lock}
    FileOf <- TwoNames
    LockPath <- Paths
    Nobody = nobody
    Release = {v1}
    Files = 2
    ArchOf <- Archs
    PackageOf <- Packages
    Probed <- Two
    System = routeros
    Content = {x, y}
    None = none
    Torn = torn
INVARIANTS
    TypeOK
    MutualExclusion
    NoStaleEntry
    ManifestWhole
    StagingCanFinish
PROPERTIES
    UploadsIntact
    ImplementsPublished
    CommandsEnd
