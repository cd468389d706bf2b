CONSTANTS
    c1 = c1
    c2 = c2
    NoClient = NoClient
    NoReq = NoReq
    NoReply = NoReply
    Null = Null
    NoApp = "noapp"
    NoCoord = "nocoord"
    NoKey = "none"
    Origin = "origin"
    Token <- McToken
    Upper <- McUpper
    Coords <- McCoords
    Keys <- McKeys
    Apps <- McApps
    Geohash <- McGeohash
    BadKeys <- NoBadKeys
    Clients <- TwoClients
    Provider = "opencage"
    Replies <- OcOddReplies
    CtlTokens <- Control
    Requests <- MostRequests
    DbFaults <- AllDbFaults
    MaxSent = 3
    MaxBoots = 2
SPECIFICATION Spec
INVARIANTS TypeOK StatsAddUp ReplyBelongsToCell OnlyAnswersCached StopBeforeRelease
 
SYMMETRY Symmetry
CHECK_DEADLOCK FALSE
