SPECIFICATION Spec
CONSTANTS
    NPcb = 3
    Block = 2
    FileSize = 2
    MaxTransfers = 2
    MaxLosses = 1
    MaxRepeats = 1
    MaxStrays = 1
    Impatient = FALSE
INVARIANTS OnePcbPerConnection DoneMeansAllBlocks SizeCoversFile
PROPERTIES LateDataIgnored TransferCompletes
