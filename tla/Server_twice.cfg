SPECIFICATION ServerSpec
CONSTANTS
    CertRequests = {"r1", "r2"}
    MaxServers = 3
    MaxCutOffs = 0
INVARIANTS
    UpgradeKeepsServing
CHECK_DEADLOCK FALSE
