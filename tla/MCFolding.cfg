SPECIFICATION FoldingSpec
CONSTANTS
    Bits <- MCBits
    Scenes <- ScalarScenes
INVARIANT ValuesAreExact
CHECK_DEADLOCK FALSE
