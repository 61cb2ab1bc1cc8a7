SPECIFICATION ResetSpec
CONSTANTS
    Sites = {1, 2}
    EditorSites = {1}
    External = 2
    InitLen = 0
    MaxLen = 5
    MaxStr = 2
    MaxSegs = 2
    MaxChunks = 3
INVARIANTS
    TypeOK
    Coalesced
    CursorsExact
    NoPanic
    InternalOpShown
    EditorOpMeant
    ResetShowsFile
CHECK_DEADLOCK FALSE
