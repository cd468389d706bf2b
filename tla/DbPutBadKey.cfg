CONSTANTS
    k1 = k1
    k2 = k2
    k3 = k3
    v1 = v1
    v2 = v2
    DELETE = DELETE
    NoCall = NoCall
    Keys <- ThreeKeys
    BadKeys <- LongKey
    DbFaults <- Recoverable
    Values <- TwoValues
SPECIFICATION Spec
INVARIANTS PutHonest

