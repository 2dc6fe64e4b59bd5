SPECIFICATION Spec
CONSTANTS
    Us = Us
    AllCall = AllCall
    Elsewhere = Elsewhere
    NoArg = NoArg
    NoStation = NoStation
    Nothing = Nothing
    k1 = k1
    k2 = k2
    k3 = k3
    Groups <- mcGroups
    Stations <- mcOne
    Offsets <- mcOffsets
    Messages <- mcMailAndTalk
    Requests <- mcRequests
    MaxFrames = 3
    FRAME_TIMEOUT = 6
    NON_BUFFERED_TIMEOUT = 4
    SLOT = 3
    QUEUE_DEPTH = 1
    MAX_ATTEMPTS = 1
    MaxOut = 2
    MaxMail = 2
    MaxSent = 2
    MaxStores = 1
    StoredFor <- mcOne
    DbMayFail = TRUE
INVARIANT AckedMailIsWhole
