SPECIFICATION MCSpec
CONSTANTS
    Colors <- MCColors
    TextCells = 2
    RomGlyphs <- MCGlyphs
    Scenes <- MCScenes
    CallsOf <- MCCallsOf
    StepsOf <- MCStepsOf
    VgaBlocks = {"v"}
    MoreBlocks = {"x"}
    Pages = {1}
    Values = {0, 1}
    Kinds = {"vga", "direct"}
    Addresses = {0, 1, 2, 3, 4, 5, 6, 7, 8, 9, 10}
    MaxChanges = 2
    MaxRetraces = 3
    MaxEvents = 0
INVARIANTS
    SavedStateIsExact
    OutputIsExact
PROPERTY
    ImageShowsTheCapture
CHECK_DEADLOCK FALSE
