SPECIFICATION Spec
CONSTANTS
    RxBufNb = 3
    MaxSegs = 3
    MaxFrames = 5
INVARIANTS RingInStep SegmentsRecognised
PROPERTIES AllGivenBack ImplementsFifo
