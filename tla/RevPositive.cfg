CONSTANTS
    c1 = c1
    c2 = c2
    NoClient = NoClient
    NoReq = NoReq
    NoReply = NoReply
    Null = Null
    NoApp = "noapp"
    NoCoord = "nocoord"
    NoKey = "none"
    Origin = "origin"
    Token <- McToken
    Upper <- McUpper
    Coords <- McCoords
    Keys <- McKeys
    Apps <- McApps
    Geohash <- McGeohash
    BadKeys <- NoBadKeys
    Clients <- OneClient
    Provider = "opencage"
    Replies <- OcEmptyReplies
    CtlTokens <- NoControl
    Requests <- RevRequests
    DbFaults <- NoFaults
    MaxSent = 2
    MaxBoots = 1
SPECIFICATION Spec
INVARIANTS PositiveCached
CHECK_DEADLOCK FALSE
