SPECIFICATION LogsSpec
CONSTANTS
    d1 = d1
    d2 = d2
    s1 = s1
    s2 = s2
    s3 = s3
    s4 = s4
    NoStream = NoStream
    Streams = {s1, s2, s3}
    LogDevices = {d1, d2}
    StreamDevice <- MCDeviceOf
INVARIANTS
    SingleStreamPerDevice
CHECK_DEADLOCK FALSE
