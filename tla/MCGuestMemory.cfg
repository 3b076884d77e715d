SPECIFICATION MCSpec
CONSTANTS
    Scenes <- MCScenes
    Names = {"a", "b"}
    Starts = {0, 3, 7, 15}
    ProbeLengths = {0, 1, 4, 5, 16}
    MaxDepth = 2
    Esps = {0, 1, 2, 8, 9, 15, 16, 17, 18, 20, 24, 55, 56, 57, 63}
    Ebps = {19, 57}
    MaxBytes = 3
    MaxSteps = 1
INVARIANTS
    DecodersAgree
    AccessesAreExact
PROPERTY
    BytesAreRouted
