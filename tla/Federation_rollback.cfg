SPECIFICATION FedSpec
CONSTANTS
    p1 = p1
    p2 = p2
    p3 = p3
    a1 = a1
    a2 = a2
    NoRecord = NoRecord
    Peers = {p1, p2, p3}
    FedServices = {a1}
    Hosts <- MCHosts
    QueueSize = 1
    MaxWrites = 2
    MaxRestarts = 0
    Churn = {}
PROPERTIES
    NewerWins
