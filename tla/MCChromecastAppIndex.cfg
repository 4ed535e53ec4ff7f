SPECIFICATION AppSpec
CONSTANTS
    Devices = {"tv", "den"}
    Identified = {"tv", "den"}
    Networks = {"home"}
    PhoneWifi = {"home"}
    PhoneHotspots = {}
    Supported = {"home"}
    Unsecured = {}
    Scans <- NoScan
    KnownFirst <- TwoKnown
    CastsFirst <- DenAnswers
    Passphrases = {}
    Flaky = FALSE
    MaxCommands = 2
    ScanAttempts = 1
    SaveAttempts = 1
    MaxMisses = 1
PROPERTIES
    OpensTappedDevice
\* The app may be closed.
CHECK_DEADLOCK FALSE
