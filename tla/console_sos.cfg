SPECIFICATION Spec
CONSTANTS
    Peers <- MCPeers
    Me = "ME"
    GroupPicks <- MCGroups
    MaxMail = 2
    Limit = 2
    NoStation = NoStation
    MaxBeacons = 2
    MaxReverts = 1
    Scenarios <- MCScenarios
INVARIANT SosIsEncodable
CHECK_DEADLOCK FALSE
