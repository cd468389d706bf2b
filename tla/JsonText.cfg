CONSTANTS
    Trees <- McTrees
    Depth = 4
    Texts <- McTexts
SPECIFICATION Spec
INVARIANTS TypeOK NothingLeaks ReadsInside DecodesJson RoundTrips
PROPERTIES BufferHolds
CHECK_DEADLOCK FALSE
