SPECIFICATION Spec
CONSTANTS
    Clients = {1, 2}
    LateJoin = {2}
    InitLen = 2
    Kinds1 = {"Ins", "Del"}
    Kinds2 = {"Ins", "Del"}
    Kinds <- MCKinds
    Edits1 = 2
    Edits2 = 2
    MaxEdits <- MCMaxEdits
    MaxTotal = 3
    MaxIns = 1
    MaxDel = 2
    MaxGroup = 1
INVARIANTS
    Converged
    AckIsLocalHead
CHECK_DEADLOCK FALSE
