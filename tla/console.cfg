SPECIFICATION Spec
CONSTANTS
    Peers <- MCPeers
    Me = "ME"
    GroupPicks <- MCGroups
    MaxMail = 3
    Limit = 2
    NoStation = NoStation
    MaxBeacons = 2
    MaxReverts = 1
    Scenarios <- MCScenarios
INVARIANTS
    ConsoleTypeOK
    HeartbeatMatchesMode
    SosMatchesArmed
    ShutdownScreenIsOwned
    KeyboardLock
    ListAgreesWithMailbox
    BadgeCoversUnread
PROPERTIES
    DraftSurvives
    SingleShotEnds
    GesturesEnd
CHECK_DEADLOCK FALSE
