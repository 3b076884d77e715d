SPECIFICATION FlowSpec
CONSTANTS
    Bits <- MCBits
    Scenes <- ScalarScenes
PROPERTY FlowIsKept
