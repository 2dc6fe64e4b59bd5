SPECIFICATION FairSpec
CONSTANTS
    QUEUE_DEPTH = 1
    MAX_ATTEMPTS = 2
    ACK_SLOTS = 2
    MaxRows = 1
    k1 = k1
    NoCall = NoCall
    Stations <- mcStations
    Payloads <- mcPayloads
    Clients <- mcClients
    Submits <- mcSubmitsMail
    MaxCrashes = 0
    DbMayFail = FALSE
PROPERTY DeliveredIsTerminal
