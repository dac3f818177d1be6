SPECIFICATION Spec
CONSTANTS
    LineOps <- MCLineOps
    LineBase <- MCLineBase
    LineRange = 14
    OpcodeBase = 13
    DefaultIsStmt = TRUE
    LineHeaders <- MCHeaders
    CompilationDir <- MCCompilationDir
    DefinedFile <- MCDefinedFile
    MaxLineOps = 5
    FrameShapes <- MCShapes
    EhFrames <- MCEhFrames
    CompactPages <- MCPages
    FuncStart = 4
    MaxLocation = 8
    StackOps <- MCStackOps
    RegisterValue <- MCRegisterValue
    FrameCfa = 5
    Ram <- MCRam
    FrameBase <- MCFrameBase
    Implicit <- MCImplicit
    PieceSizes <- MCPieceSizes
    LocationForms <- MCForms
    MaxStackOps = 4
    MaxPieces = 2
    MaxDepth = 4
    CursorBytes <- MCCursorBytes
    GroupBits = 3
    CursorBits = 8
    MaxBytes = 4
    DieKinds <- MCDieKinds
    RangeForms <- MCRangeForms
    UnitLowPc = 2
    ReadAddresses = {2, 3, 4, 5, 6}
    MaxDies = 6
INVARIANTS RowsCorrect LookupCorrect FdeUnwinds CompactUnwinds ExpressionLocates ReadsObject CursorAgrees TreeWalked ScopesNest
CHECK_DEADLOCK FALSE
