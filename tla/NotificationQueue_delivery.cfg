SPECIFICATION FairDeviceSpec
CONSTANTS
    d1 = d1
    Notifs = {n1, n2}
    Devices = {d1}
    DeviceOf <- MCDeviceOf
    Workers = {w1}
    Retriers = {r1}
    Tokens = {t1}
    BufferSize = 1
    MaxRetries = 1
    MaxErrors = 0
    Env = {}
PROPERTIES
    EventuallyReceived
CHECK_DEADLOCK FALSE
