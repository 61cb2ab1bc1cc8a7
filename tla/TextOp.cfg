SPECIFICATION PairSpec
CONSTANTS
    DocLen = 4
    MaxStr = 2
    MaxSegs = 2
    Sites = {1, 2}
INVARIANTS
    TP1
    IP3
    MarkFollowsText
