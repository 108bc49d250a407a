\* Production: two workers, two tasks, nobody calls recover_stale.
CONSTANTS
    Tasks = {1, 2}
    Agents = {"worker-mac", "worker-gx10"}
    Nodes = {"mac", "gx10"}
    NoOne = NoOne
    NodeOf <- MCNodeOf
    Priority <- MCPriority
    MaxRetries <- MCMaxRetries
    Timeout <- MCTimeout
    Callers <- MCCallers
    Instances = {"mac", "gx10", "cli", "cron"}
    InstanceOf <- MCInstanceOf
    ResumeArgs = {"mac"}
    RetryBound = 3
    Workers = {"mac", "gx10"}
    AgentOf <- WorkerAgent
    Clients = {"cli"}
    Recoverers = {}
    HbPeriod = 1
    MaxExits = 1
    MayRaise = {"start", "complete", "fail", "pause"}
    MaxErrors = 1
SPECIFICATION FairPoolSpec
INVARIANT OrphansAlone
PROPERTY OneLossPerFault
CHECK_DEADLOCK FALSE
