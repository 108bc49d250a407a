\* stop() gives up waiting for a slow probe, start() follows.
CONSTANTS
    Askers = {}
    Outages = {"silent"}
    Threshold = 5
    Recovery = 3
    Window = 12
    Interval = 2
    ProbeTime = 1
    JoinTime = 1
    Garbled = FALSE
    Stops = TRUE
    Punctual = TRUE
SPECIFICATION Spec
INVARIANT StartedRuns
