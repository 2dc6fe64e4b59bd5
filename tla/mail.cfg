SPECIFICATION Spec
CONSTANTS
    Us = Us
    AllCall = AllCall
    Elsewhere = Elsewhere
    NoArg = NoArg
    NoStation = NoStation
    Nothing = Nothing
    k1 = k1
    k2 = k2
    k3 = k3
    Groups <- mcGroups
    Stations <- mcStations
    Offsets <- mcOffsets
    Messages <- mcMessages
    Requests <- mcRequests
    MaxFrames = 3
    FRAME_TIMEOUT = 6
    NON_BUFFERED_TIMEOUT = 4
    SLOT = 3
    QUEUE_DEPTH = 1
    MAX_ATTEMPTS = 2
    MaxOut = 2
    MaxMail = 2
    MaxSent = 2
    MaxStores = 1
    StoredFor <- mcAskers
    DbMayFail = TRUE
INVARIANTS
    TypeOK
    StoredMailIsWhole
    AcksAnswerStoredMail
    HeldMailGoesToItsRecipient
    OnlyCallersAreServed
PROPERTIES
    CleanMessagesAreDispatched
    ImplementsCustody
