SPECIFICATION FairSpec
CONSTANTS
    o = o
    a = a
    b = b
    Clients = {o, a}
    Local = {o}
    Ordered = {o, a}
    Writers = {o, a}
    External = ext
    RetryOpen = FALSE
    RemoteOpens = 2
    LocalOpens = 1
    MaxOpens <- MCMaxOpens
    MaxOps = 2
    MaxBatch = 2
    MaxExternal = 1
    MaxBreaks = 0
INVARIANTS
    TypeOK
    OpenIsSubscribed
    NoGap
    RemoteOpsAnnounced
PROPERTIES
    NoEditHeldBack
    CatchUp
CHECK_DEADLOCK FALSE
