SPECIFICATION Spec
CONSTANTS
    Slot = 8
    Period = 4
    Latency = 3
    Prefix = 2
    Block = 3
    Buffer = 6
    Audio <- MCAudio
    Instants <- MCInstants
    MaxFrames = 2
    MaxStalls = 2
INVARIANTS
    PlaybackTypeOK
    SentFramesWerePlayed
    OnsetOnBoundary
PROPERTIES
    EndedFramesAreSilent
    FramesEnd
CHECK_DEADLOCK FALSE
