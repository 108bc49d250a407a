\* The orchestrator comes back while a task runs.
CONSTANTS
    Askers = {}
    Outages = {"refusing"}
    Threshold = 2
    Recovery = 2
    Window = 2
    Interval = 1
    ProbeTime = 1
    JoinTime = 1
    Garbled = FALSE
    Stops = FALSE
    Punctual = FALSE
    Runners = {"r1"}
    Jobs = {"t1"}
    NoJob = NoJob
    GitFails = FALSE
    SyncTimes = FALSE
    SaveFails = FALSE
SPECIFICATION FailoverSpec
INVARIANT RunsIsolated
