\* The loop alone, the default thresholds, an outage that refuses connections, a state file that may not be written.
CONSTANTS
    Askers = {}
    Outages = {"refusing"}
    Threshold = 5
    Recovery = 3
    Window = 12
    Interval = 2
    ProbeTime = 1
    JoinTime = 1
    Garbled = FALSE
    Stops = FALSE
    Punctual = TRUE
    Runners = {}
    Jobs = {}
    NoJob = NoJob
    GitFails = FALSE
    SyncTimes = FALSE
    SaveFails = TRUE
SPECIFICATION FairFailoverSpec
PROPERTIES SlowToDown EarnedRecovery ComesBack TakesOver
