SPECIFICATION Spec
CONSTANTS
    d1 = d1
    Notifs = {n1}
    Devices = {d1}
    DeviceOf <- MCDeviceOf
    Workers = {w1}
    Retriers = {}
    Tokens = {t1}
    BufferSize = 1
    MaxRetries = 1
    MaxErrors = 0
    Env = {"stop"}
INVARIANTS
    NoSendOnClosedChannel
CHECK_DEADLOCK FALSE
