SPECIFICATION Spec
CONSTANTS
    Side = 2
    Boxes <- NoBoxes
    SolutionsMet <- OneSolution
    OrdersMet <- OneOrder
    ExtremeLevel = 1
    ExtremeChains = 0
    MaxMistakes = 2
    MaxMoves = 2
    Unreadable <- BadFile
    Absent <- NoFile
    FilesFirst <- Files
    Places <- TouchedPlaces
    Keys <- PressedKeys
    MaxEdits = 1
INVARIANTS
    TypeOK
    MovesSurvive
    ClockRunsWhilePlaying
    AskedBeforeReplacing
    DialogMatches
    PuzzlesSound
PROPERTIES
    ImplementsHistory
    GameArrives
    DestroyReturns
