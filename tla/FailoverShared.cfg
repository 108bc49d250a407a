\* The loop, a thread that calls check_now(), a task, an owner that stops and starts; everything may fail.
CONSTANTS
    Askers = {"asker"}
    Outages = {"silent"}
    Threshold = 2
    Recovery = 1
    Window = 2
    Interval = 1
    ProbeTime = 1
    JoinTime = 1
    Garbled = TRUE
    Stops = TRUE
    Punctual = FALSE
    Runners = {"r1"}
    Jobs = {"t1"}
    NoJob = NoJob
    GitFails = TRUE
    SyncTimes = TRUE
    SaveFails = TRUE
SPECIFICATION FailoverSpec
INVARIANTS CountersAgree DownIsAutonomous
PROPERTY OutageKeepsTrees
