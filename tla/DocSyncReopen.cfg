SPECIFICATION Spec
CONSTANTS
    o = o
    a = a
    b = b
    Clients = {a}
    Local = {}
    Ordered = {}
    Writers = {a}
    External = ext
    RetryOpen = TRUE
    RemoteOpens = 2
    LocalOpens = 1
    MaxOpens <- MCMaxOpens
    MaxOps = 2
    MaxBatch = 1
    MaxExternal = 1
    MaxBreaks = 1
PROPERTIES
    LogSpec
CHECK_DEADLOCK FALSE
