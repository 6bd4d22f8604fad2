SPECIFICATION Spec
CONSTANTS
    Size = 2
    BufSize = 5
    Chars = {"a", "nl"}
    NL = "nl"
    NUL = "nul"
    MaxRx = 6
PROPERTIES NewlineDelivered
