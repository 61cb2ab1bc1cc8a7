SPECIFICATION Spec
CONSTANTS
    Clients = {1, 2}
    LateJoin = {}
    InitLen = 0
    Kinds1 = {"Ins", "Undo"}
    Kinds2 = {"Ins"}
    Kinds <- MCKinds
    Edits1 = 4
    Edits2 = 1
    MaxEdits <- MCMaxEdits
    MaxTotal = 5
    MaxIns = 1
    MaxDel = 1
    MaxGroup = 1
INVARIANTS
    OnlyOwnUndone
CHECK_DEADLOCK FALSE
