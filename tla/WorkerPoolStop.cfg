\* A worker whose start() failed stops while another runs its old task.
CONSTANTS
    Tasks = {1}
    Agents = {"worker-mac", "worker-gx10"}
    Nodes = {"mac", "gx10"}
    NoOne = NoOne
    NodeOf <- MCNodeOf
    Priority <- MCPriority
    MaxRetries <- MCMaxRetries
    Timeout <- MCTimeout
    Callers <- MCCallers
    Instances = {"mac", "gx10", "cli", "cron"}
    InstanceOf <- MCInstanceOf
    ResumeArgs = {}
    RetryBound = 2
    Workers = {"mac", "gx10"}
    AgentOf <- WorkerAgent
    Clients = {"cli"}
    Recoverers = {"cron"}
    HbPeriod = 1
    MaxExits = 1
    MayRaise = {"start", "complete", "fail"}
    MaxErrors = 1
SPECIFICATION PoolSpec
PROPERTY StopPausesOwn
CHECK_DEADLOCK FALSE
