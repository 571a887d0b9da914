CONSTANTS
    p1 = p1
    p2 = p2
    NULL = null
    Procs <- MCProcs
    BaseLength = 3
    ExtLength = 1
    Chunk = 3
    Volume <- MCVolume
    EntriesPerSector = 2
    EndOfChain <- MCEnd
    Paths <- MCPaths
    FatWrites <- MCFatWrites
    Sizes = {1}
    Before <- MCBefore
    Slack = {"NUL", "A"}
    MaxOps = 3

SPECIFICATION Spec

INVARIANT
    FoundIsCalled

CHECK_DEADLOCK FALSE
