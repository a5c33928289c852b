CONSTANTS
    Blocks <- MCBlocks
    Capacity = 3
    Base = 2
    MaxVersion = 3
    Chunks <- MCChunks
    Resizings <- MCResizings
    Stores <- MCStores
    Additions <- MCAdditions
SPECIFICATION Spec
PROPERTIES
    RevertedIsGone
CHECK_DEADLOCK FALSE
