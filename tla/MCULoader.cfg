SPECIFICATION LoaderSpec
CONSTANTS
    PHY_READ_TO = 4
    MaxFrames = 2
    MaxLines = 2
    MaxRead = 2
INVARIANTS RunsOnlyNegotiated
PROPERTIES BootEnds LoopServesAll
