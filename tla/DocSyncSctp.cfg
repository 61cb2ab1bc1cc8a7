SPECIFICATION Spec
CONSTANTS
    o = o
    a = a
    b = b
    Clients = {a, b}
    Local = {}
    Ordered = {}
    Writers = {a, b}
    External = ext
    RetryOpen = FALSE
    RemoteOpens = 1
    LocalOpens = 1
    MaxOpens <- MCMaxOpens
    MaxOps = 3
    MaxBatch = 2
    MaxExternal = 0
    MaxBreaks = 1
INVARIANTS
    HistoryAgreement
    SequencedOnce
    NoSelfConcurrency
    NoOpForgotten
    AcksFit
CHECK_DEADLOCK FALSE
