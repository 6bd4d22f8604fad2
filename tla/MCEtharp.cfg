SPECIFICATION Spec
CONSTANTS
    ARP_TABLE_SIZE = 2
    ARP_MAXAGE = 4
    ARP_AGE_REREQUEST_USED = 2
    ARP_MAXPENDING = 2
    Hosts = {"gw", "h1"}
    Gateway = "gw"
    Remote = "r"
    Macs = {"m1", "m2"}
    Configs <- MCConfigs
INVARIANTS OneEntryPerAddress CopiesOwned RightStation
PROPERTIES WaitEnds
