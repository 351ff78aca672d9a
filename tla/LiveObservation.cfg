CONSTANTS
    MaxStream = 2
    MaxSequence = 4
    MaxBoundary = 4
    MaxPauses = 2
SPECIFICATION FairSpec
PROPERTIES FramesFenced StreamsDoNotMix CallEnds
