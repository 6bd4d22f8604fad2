SPECIFICATION TimeSpec
CONSTANTS
    Modulus = 64
    TickPeriod = 3
    Tasks <- FourTasks
    Interval <- Intervals
    MaxStall = 4
INVARIANTS NeverOverdue
PROPERTIES NeverEarly
