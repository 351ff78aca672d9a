CONSTANTS
    MaxFrames = 2
    MaxPauses = 1
    MaxFaults = 1
    Depth = 1
    MaxStarts = 2
SPECIFICATION RecordingSpec
INVARIANTS RecordedInFull NothingUnowned
PROPERTIES PausedIsDurable RecordingEnds
CHECK_DEADLOCK FALSE
