SPECIFICATION Spec
CONSTANTS
    Ops = {1, 2, 3}
    InitialTexts <- MCInitialTexts
    ForeignTexts <- MCForeignTexts
    WriteTexts <- MCWriteTexts
    Blocks <- MCBlocks
    Windows <- MCWindows
    Batches <- MCBatches
    MaxForeign = 1
    NoFile = NoFile
    None = None
INVARIANTS GrantIsShown EditIsExact
PROPERTIES UnreadSurvives
CHECK_DEADLOCK FALSE
