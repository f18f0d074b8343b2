SPECIFICATION PlatformSpec
CONSTANTS
    d1 = d1
    p1 = p1
    p2 = p2
    bad = bad
    Conns = {c1, c2}
    Devices = {d1}
    DeviceOf <- MCDeviceOf
    Patterns = {p1, p2, bad}
    InvalidOnes <- MCInvalidOnes
    MaxSubscriptionsPerClient = 1
    Env = {"admin", "write_error", "will", "topics"}
    NoRecord = NoRecord
    Peers = {"i1", "i2"}
    FedServices = {"a1", "a2"}
    Hosts <- MCHosts
    QueueSize = 1
    MaxWrites = 2
    MaxRestarts = 1
    Churn = {"i2"}
    DeploymentIds = {"deploy_1", "deploy_2"}
    ServiceNames = {"web"}
    ComposeServices = {"v1", "v2"}
    MaxToolboxFaults = 1
    DockerIds = {"c1"}
    ManagedPods = {"p1"}
    LonePods = {"q1"}
    SingleOps = {"r1"}
    MaxConcurrentBulkOps = 1
    MaxBatch = 2
    MaxRuntimeFaults = 1
    Targets = {"t1", "t2", "t3"}
    ProxyDevices = {"d1", "d2"}
    CookieNames = {"c1"}
    ProxyRequests = {"q1", "q2"}
    RouteEditors = {"e1", "e2"}
    MaxReplies = 2
    ConfigFiles <- MCConfigFiles
    FirstConfig <- MCFirstConfig
    MaxFileWrites = 3
    MaxReloadFaults = 1
INVARIANTS
    PlatformTypeOK
    IndexesAgree
    OfflineAnnounced
    
    ClocksAreSound
    DeploymentsAreWhole
    BulkAnswerIsComplete
    CookiesAreOwn
    NothingLeaks
    ProgramFollowsFile
PROPERTIES
    OwnerDecides
CHECK_DEADLOCK FALSE
