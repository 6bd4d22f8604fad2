SPECIFICATION Spec
CONSTANTS
    MEM_SIZE = 9
    SIZEOF_STRUCT_MEM = 1
    MIN_SIZE = 2
    NPool = 2
    NRef = 1
    BUFSIZE = 2
    SIZEOF_STRUCT_PBUF = 1
    HLEN = 1
    MaxLength = 3
    Requests <- MCRequests
    MaxRefs = 2
    MaxUse = 2
    Full = 3
INVARIANTS RefsExact TotLenExact NothingLost PayloadInside HeapSound EndedByShortPacket
