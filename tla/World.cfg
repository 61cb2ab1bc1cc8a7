SPECIFICATION Spec
CONSTANTS
    a = a
    b = b
    Hosts = {a, b}
    Disturbed = {a, b}
    MaxFaults = 1
    MaxInbox = 2
INVARIANTS
    TypeOK
    ConnectedIsBacked
PROPERTIES
    LiveLinkKept
    Heals
CHECK_DEADLOCK FALSE
