SPECIFICATION FairSpec
CONSTANTS
    QUEUE_DEPTH = 2
    MAX_ATTEMPTS = 2
    ACK_SLOTS = 2
    MaxRows = 2
    k1 = k1
    NoCall = NoCall
    Stations <- mcStations
    Payloads <- mcPayloads
    Clients <- mcClients
    Submits <- mcSubmits
    MaxCrashes = 1
    DbMayFail = FALSE
PROPERTIES
    EveryMessageSettles
    EveryBurstEnds
