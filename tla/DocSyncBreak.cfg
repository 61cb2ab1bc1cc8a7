SPECIFICATION Spec
CONSTANTS
    o = o
    a = a
    b = b
    Clients = {a}
    Local = {}
    Ordered = {a}
    Writers = {a}
    External = ext
    RetryOpen = FALSE
    RemoteOpens = 1
    LocalOpens = 1
    MaxOpens <- MCMaxOpens
    MaxOps = 2
    MaxBatch = 1
    MaxExternal = 2
    MaxBreaks = 1
INVARIANTS
    NoDocFatal
CHECK_DEADLOCK FALSE
