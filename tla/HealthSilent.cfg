\* The defaults of the code, an orchestrator whose host is unreachable.
CONSTANTS
    Askers = {}
    Outages = {"silent"}
    Threshold = 5
    Recovery = 3
    Window = 12
    Interval = 2
    ProbeTime = 1
    JoinTime = 1
    Garbled = FALSE
    Stops = FALSE
    Punctual = TRUE
SPECIFICATION FairSpec
PROPERTIES StaysDown
