SPECIFICATION Spec
CONSTANTS
    Size = 3
    BufSize = 6
    Chars = {"a", "nl"}
    NL = "nl"
    NUL = "nul"
    MaxRx = 6
INVARIANTS TypeOK NumNeverOverstates NoPhantomByte FoundLineIsWhole
PROPERTIES CountedLineDelivered
