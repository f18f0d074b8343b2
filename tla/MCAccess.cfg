SPECIFICATION AccessSpec
CONSTANTS
    routeA = routeA
    routeB = routeB
    pathX = pathX
    pathXSlash = pathXSlash
    subA = subA
    subB = subB
    appA = appA
    None = None
    Ids = {routeA, routeB}
    Paths = {pathX, pathXSlash}
    WithSlash <- MCWithSlash
    Subs = {subA, subB}
    Apps = {appA}
    Offers <- MCOffers
    Configs <- MCConfigs
    Callers = {k1, k2}
    MaxErrors = 1
    MaxCalls = 5
    QRs = {"q1"}
    PermanentTokens = {"perm"}
    PairRequests = {"p1", "p2"}
    CodeTTL = 2
    LockTTL = 1
    MaxPairingAttempts = 2
    MaxCodeFailures = 2
    GlobalFailureLimit = 2
    GlobalCodeLimit = 1
    DeviceIds = {"d1", "d2"}
    MaxCounted = 1
    UserNames = {"u1", "u2"}
    Passwords = {"w1", "w2"}
    SetupRequests = {"r1", "r2"}
    KeyIds = {"k1"}
    DnsNames = {"nas.local"}
    IpNames = {"192.168.1.5"}
    CertOps = {"r1"}
    Handshakes = {"h1"}
    MaxKeys = 2
    MaxCertFaults = 1
SYMMETRY MCSymmetry
INVARIANTS
    AccessTypeOK
    TreeIsCurrent
    RegistryAgrees
    CodesPairOnce
    RevokedStaysOut
    SetupAnswersHold
    MemoryIsPersisted
CHECK_DEADLOCK FALSE
