SPECIFICATION ProgressSpec
CONSTANTS
    Notifs = {"n1", "n2", "n3"}
    Devices = {"d1"}
    DeviceOf <- MCDeviceOf
    Workers = {"w1", "w2"}
    Retriers = {}
    Tokens = {"t1"}
    BufferSize = 2
    MaxRetries = 1
    MaxErrors = 0
    Env = {"stop", "crash", "expiry"}
    NoRecord = NoRecord
    Peers = {"i1", "i2"}
    FedServices = {"a1"}
    Hosts <- MCHosts
    QueueSize = 1
    MaxWrites = 2
    MaxRestarts = 1
    Churn = {}
    ScriptIds = {"s1"}
    ExecIds = {"e1", "e2"}
    ScheduleIds = {"c1"}
    WorkerCount = 1
    RunnerQueueSize = 1
    MaxScriptFaults = 0
    NoStream = NoStream
    Streams = {"s1", "s2", "s3"}
    LogDevices = {"d1", "d2"}
    StreamDevice <- MCStreamDevice
    CertRequests = {"r1", "r2"}
    MaxServers = 3
    MaxCutOffs = 1
INVARIANTS
    ProgressTypeOK
    AcceptedExactlyOnce
    StopDrains
    TrackedNotCancelled
PROPERTIES
    StopTerminates
    CancelledEnds
    Converges
    AcceptedEnds
    UpgradeCompletes
CHECK_DEADLOCK FALSE
