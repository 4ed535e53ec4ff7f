SPECIFICATION Spec
CONSTANTS
    Devices = {"tv"}
    Identified = {"tv"}
    Networks = {"home", "cafe"}
    PhoneWifi = {"home"}
    PhoneHotspots = {}
    Supported = {"home", "cafe"}
    Unsecured = {}
    Scans <- CafeScan
    KnownFirst <- OneKnown
    CastsFirst <- OneCast
    Passphrases = {"right", "wrong", "malformed"}
    Flaky = FALSE
    MaxCommands = 4
    ScanAttempts = 1
    SaveAttempts = 2
    MaxMisses = 2
INVARIANTS
    TypeOK
    RequestsAccounted
    SettledReleases
    HotspotKept
    DoneIsVerified
    NoSilentEnd
CHECK_DEADLOCK FALSE
