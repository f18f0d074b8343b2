SPECIFICATION JobsSpec
CONSTANTS
    ScriptIds = {s1}
    ExecIds = {e1, e2}
    ScheduleIds = {c1}
    WorkerCount = 1
    RunnerQueueSize = 1
    MaxScriptFaults = 1
    MinutesPerHour = 2
    HoursPerDay = 2
    DaysPerWeek = 4
    DaysBefore <- MCDaysBefore
    LeapMonth = 2
    MaxDay = 3
    CronStarts = {0, 83, 95}
    HealthApps = {"a1"}
    UnhealthyThreshold = 2
    MaxFailures = 2
    MaxGenerations = 2
    MaxProbes = 1
    MaxSaves = 1
    MaxAlerts = 2
    HealthCalls = {"r1", "r2"}
    SystemComponents = {"storage"}
    CacheTTL = 2
    CheckTimeout = 1
    MaxBackups = 2
    MaxTableChanges = 2
    TableItems = {"i1"}
    Retention = 1
    MaxBackupFaults = 1
    ProposalIds = {"p1"}
    ProposalChSize = 1
    MaxScanFailures = 2
    MaxMoves = 1
    MaxDiscoveryFaults = 1
    Networks = {"n1", "n2"}
    HttpPort = 80
    OtherPort = 5000
    NonHTTPPort = 22
INVARIANTS
    JobsTypeOK
    NothingIsOrphaned
    NextRunIsFirst
    
    HealthyIsRecent
    BackupsAreGood
    ActiveIsListed
    ProposalsAreAllowed
PROPERTIES
    ExecutionsRunOnce
CHECK_DEADLOCK FALSE
