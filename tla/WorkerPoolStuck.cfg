\* Production: nobody calls recover_stale.
CONSTANTS
    Tasks = {1}
    Agents = {"worker-mac", "worker-gx10"}
    Nodes = {"mac", "gx10"}
    NoOne = NoOne
    NodeOf <- MCNodeOf
    Priority <- MCPriority
    MaxRetries <- MCMaxRetries
    Timeout <- MCTimeout
    Callers <- MCCallers
    Instances = {"mac", "gx10", "cli", "cron"}
    InstanceOf <- MCInstanceOf
    ResumeArgs = {}
    RetryBound = 2
    Workers = {"mac", "gx10"}
    AgentOf <- WorkerAgent
    Clients = {"cli"}
    Recoverers = {}
    HbPeriod = 1
    MaxExits = 1
    MayRaise = {}
    MaxErrors = 0
SPECIFICATION FairPoolSpec
PROPERTY Settles
CHECK_DEADLOCK FALSE
