SPECIFICATION Spec
CONSTANTS
    Clients = {1, 2}
    LateJoin = {}
    InitLen = 0
    Kinds1 = {"Ins", "Undo", "Redo"}
    Kinds2 = {"Ins"}
    Kinds <- MCKinds
    Edits1 = 4
    Edits2 = 1
    MaxEdits <- MCMaxEdits
    MaxTotal = 4
    MaxIns = 1
    MaxDel = 1
    MaxGroup = 2
INVARIANTS
    UndoQueueIsTwoStacks
CHECK_DEADLOCK FALSE
