SPECIFICATION Spec
CONSTANTS
    MEMP_NUM_REASSDATA = 3
    IP_REASS_MAX_PBUFS = 6
    BufSize = 8
    DatagramLen = 30
    Payloads = {12}
    Ids = {d1, d2, d3, d4}
    d1 = d1
    d2 = d2
    d3 = d3
    d4 = d4
SYMMETRY Symmetry
CHECK_DEADLOCK FALSE
INVARIANTS DeliveredWhole
