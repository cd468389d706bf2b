CONSTANTS
    c1 = c1
    c2 = c2
    NoClient = NoClient
    NoReq = NoReq
    NoReply = NoReply
    Null = Null
    NoApp = "noapp"
    NoCoord = "nocoord"
    NoKey = "none"
    Origin = "origin"
    Token <- McToken
    Upper <- McUpper
    Coords <- McCoords
    Keys <- McKeys
    Apps <- McApps
    Geohash <- McGeohash
    BadKeys <- NoBadKeys
    Clients <- TwoClients
    Provider = "locationiq"
    Replies <- LqReplies
    CtlTokens <- NoControl
    Requests <- CacheRequests
    DbFaults <- FullOnly
    MaxSent = 3
    MaxBoots = 2
SPECIFICATION FairSpec
PROPERTIES ImplementsCache Answered SigintExits
CHECK_DEADLOCK FALSE
