SPECIFICATION MCSpec
CONSTANTS
    Calls = {c1, c2, c3, c4, c5}
    NoCall = NoCall
    MaxFrames = 4
    h1 = h1
    h2 = h2
    b1 = b1
    Interpreter = interpreter
    None = none
SYMMETRY CallSymmetry
INVARIANTS ParkedCallsMatchFrames CallersAreAnswered CalledFramesHaveCallers HooksAreWhole
PROPERTIES EndsAreClean
