CONSTANTS
    Keys <- SomeKeys
    Chars <- SomeChars
    BadKeys <- EmptyKey
    DbFaults <- Recoverable
    Order <- InOrder
    Written <- Payloads
    Texts <- ByHand
    BufSize = 6
    SP = " "
    NL = "NL"
    CR = "CR"
    NUL = "NUL"
    DELETE <- DeleteText
    Undecodable <- NotJson
    OpenFaults <- AllOpenFaults
    MaxRuns = 3
    MaxWrites = 2
SPECIFICATION Spec
INVARIANTS TypeOK GivesBack  RestoresBackup 
PROPERTIES LockIsShared
CHECK_DEADLOCK FALSE
