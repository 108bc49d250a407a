\* The orchestrator comes back, the default thresholds.  RecoveryNeeded is violated too.
CONSTANTS
    Askers = {}
    Outages = {"refusing"}
    Threshold = 5
    Recovery = 3
    Window = 12
    Interval = 2
    ProbeTime = 1
    JoinTime = 1
    Garbled = FALSE
    Stops = FALSE
    Punctual = TRUE
    Runners = {}
    Jobs = {}
    NoJob = NoJob
    GitFails = FALSE
    SyncTimes = FALSE
    SaveFails = FALSE
SPECIFICATION FairFailoverSpec
PROPERTY ReturnsNormal
