SPECIFICATION ToolboxSpec
CONSTANTS
    DeploymentIds = {"deploy_1"}
    ServiceNames = {"web"}
    ComposeServices = {"v1", "v2"}
    MaxToolboxFaults = 0
INVARIANTS
    RemovedIsGone
CHECK_DEADLOCK FALSE
