SPECIFICATION Spec
CONSTANTS
    src = src
    lib = lib
    f = f
    g = g
    buffer = buffer
    none = none
    NoName = none
    Dirs = {src, lib}
    Names = {f}
    Buffer = buffer
    InitFiles <- MCInitFiles
    Wide = {1}
    MaxInodes = 2
    MaxTexts = 1
    MaxDocs = 2
    MaxSteps = 2
    MaxNotices = 2
INVARIANTS
    TypeOK
    InSync
    HandlesApart
    WritesUnderItsName
PROPERTIES
    EchoIsIgnored
CHECK_DEADLOCK FALSE
