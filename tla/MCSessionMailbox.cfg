SPECIFICATION Spec
CONSTANTS
    MaxCommands = 3
    MaxEditions = 3
INVARIANTS
    TypeOK
    SlotConsistent
    NoLostNotification
PROPERTIES
    EditionsSeen
    ImplementsLatest
\* The session may be destroyed, and the bounds may be used up.
CHECK_DEADLOCK FALSE
