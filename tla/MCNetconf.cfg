SPECIFICATION NetSpec
CONSTANTS
    MaxDhcpTries = 4
    Faults = {"nomem", "nopcb", "badoffer"}
    MaxRefusals = 2
    MaxCmds = 3
INVARIANTS PrintedAddressIsUsed LeaseNeverRenewed NoContestedLease
PROPERTIES SettledAddressStays FallsBack
