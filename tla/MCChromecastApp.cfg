SPECIFICATION AppSpec
CONSTANTS
    Devices = {"tv"}
    Identified = {"tv"}
    Networks = {"home", "cafe"}
    PhoneWifi = {"home"}
    PhoneHotspots = {}
    Supported = {"home", "cafe"}
    Unsecured = {"cafe"}
    Scans <- TwoNetworks
    KnownFirst <- HomeKnown
    CastsFirst <- HomeCast
    Passphrases = {"right"}
    Flaky = FALSE
    MaxCommands = 3
    ScanAttempts = 1
    SaveAttempts = 1
    MaxMisses = 1
INVARIANTS
    JoinsAsShown
    ScreenReleases
PROPERTIES
    ScreenSettles
\* The app may be closed.
CHECK_DEADLOCK FALSE
