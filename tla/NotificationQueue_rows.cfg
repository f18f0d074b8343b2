SPECIFICATION Spec
CONSTANTS
    d1 = d1
    Notifs = {n1}
    Devices = {d1}
    DeviceOf <- MCDeviceOf
    Workers = {w1}
    Retriers = {r1}
    Tokens = {t1, t2}
    BufferSize = 1
    MaxRetries = 2
    MaxErrors = 1
    Env = {"stop", "crash", "revoke", "expiry", "webui"}
SYMMETRY MCSymmetry
INVARIANTS
    RetryAccounting
    DeliveredMeansAcked
PROPERTIES
    NotificationsLiveOnce
CHECK_DEADLOCK FALSE
