SPECIFICATION Spec
CONSTANTS
    MaxCount = 1
    Unreadable <- BadFile
    FilesFirst <- GoodFile
    RestoredFirst <- NothingRestored
    NotRestored <- NoneRestored
    MaxCommands = 3
    Places <- Screen
    HitTest <- Button
    Slop = 1
    Fingers = {1, 2, 3}
    MaxSamples = 2
    MaxEvents = 7
INVARIANTS
    TapsAreWhole
PROPERTIES
    CommandsComplete
    RedrawReturns
    TimeoutIsFatal
\* The activity may be destroyed, or the process ended.
CHECK_DEADLOCK FALSE
