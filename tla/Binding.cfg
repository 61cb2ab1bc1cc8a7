SPECIFICATION Spec
CONSTANTS
    nobody = nobody
    friends = friends
    MaxClients = 3
    Lists = {nobody, friends}
    NoTrust = nobody
    MaxRequests = 3
    MaxFaults = 1
    MaxQueue = 2
INVARIANTS
    TypeOK
    TrustConfirmed
    StopLeavesNoClient
PROPERTIES
    StaysReachable
CHECK_DEADLOCK FALSE
