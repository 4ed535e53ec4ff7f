SPECIFICATION Spec
CONSTANTS
    MaxCount = 1
    Unreadable <- BadFile
    FilesFirst <- Files
    RestoredFirst <- Restored
    NotRestored <- NoneRestored
    MaxCommands = 4
    Places <- Screen
    HitTest <- Button
    Slop = 1
    Fingers = {1, 2, 3}
    MaxSamples = 2
    MaxEvents = 1
INVARIANTS
    TypeOK
    WindowReleased
    SavedIsOnDisk
PROPERTIES
    RedrawIsShown
    SnapshotIsCurrent
\* The activity may be destroyed, or the process ended.
CHECK_DEADLOCK FALSE
