SPECIFICATION Spec
CONSTANTS
    Devices = {"tv"}
    Identified = {"tv"}
    Networks = {"cafe"}
    PhoneWifi = {"cafe"}
    PhoneHotspots = {}
    Supported = {"cafe"}
    Unsecured = {}
    Scans <- CafeScan
    KnownFirst <- OneKnown
    CastsFirst <- CafeCast
    Passphrases = {"wrong"}
    Flaky = FALSE
    MaxCommands = 3
    ScanAttempts = 1
    SaveAttempts = 2
    MaxMisses = 2
CHECK_DEADLOCK FALSE
PROPERTIES
    FailedJoinNotDone
