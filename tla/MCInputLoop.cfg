CONSTANTS
    KB_BUF_SIZE = 3
    Scripts <- MCScripts
    MouseBytes = 5
SPECIFICATION FairSpec
INVARIANTS
    BuffersFaithful
    ModifiersAreHeld
    PacketsWhole
PROPERTIES
    MouseServed
CHECK_DEADLOCK FALSE
