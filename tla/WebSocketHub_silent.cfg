SPECIFICATION Spec
CONSTANTS
    d1 = d1
    p1 = p1
    p2 = p2
    bad = bad
    Conns = {c1, c2}
    Devices = {d1}
    DeviceOf <- MCDeviceOf
    Patterns = {}
    InvalidOnes <- MCInvalidOnes
    MaxSubscriptionsPerClient = 1
    Env = {"admin"}
PROPERTIES
    LastOneAnnounces
CHECK_DEADLOCK FALSE
