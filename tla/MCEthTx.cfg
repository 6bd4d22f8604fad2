SPECIFICATION Spec
CONSTANTS
    TxBufNb = 3
    MaxSegs = 2
    MaxFrames = 6
INVARIANTS OkMeansHandedOver
PROPERTIES SentOnceFollowed ImplementsFifo
\* The stack may have nothing more to send.
CHECK_DEADLOCK FALSE
