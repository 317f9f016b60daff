SPECIFICATION FairSpec
CONSTANTS
    Texts <- MCTexts
    Inputs <- MCInputs
    kCheapPrepend = 1
    kInitialSize = 6
    Chunk = 2
    Resets = TRUE
INVARIANTS
    DecodesLikeWhole
    WholeResponse
    ClosedMeansAnswered
    NoFileForgotten
PROPERTIES
    RequestAnswered
