SPECIFICATION Spec
CONSTANTS
    Devices = {"tv", "den", "guest"}
    Identified = {"tv", "den"}
    Networks = {"home"}
    PhoneWifi = {"home"}
    PhoneHotspots = {"tv"}
    Supported = {"home"}
    Unsecured = {"home"}
    Scans <- HomeScans
    KnownFirst <- TwoKnown
    CastsFirst <- ThreeCasts
    Passphrases = {"right"}
    Flaky = TRUE
    MaxCommands = 2
    ScanAttempts = 2
    SaveAttempts = 2
    MaxMisses = 2
INVARIANTS
    DevicesListed
PROPERTIES
    CommandsEnd
CHECK_DEADLOCK FALSE
