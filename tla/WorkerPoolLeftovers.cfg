\* One worker that exits by stop() or Ctrl-C.
CONSTANTS
    Tasks = {1}
    Agents = {"worker-mac", "worker-gx10"}
    Nodes = {"mac", "gx10"}
    NoOne = NoOne
    NodeOf <- MCNodeOf
    Priority <- MCPriority
    MaxRetries <- MCMaxRetries
    Timeout <- MCTimeout
    Callers <- MCCallers
    Instances = {"mac", "gx10", "cli", "cron"}
    InstanceOf <- MCInstanceOf
    ResumeArgs = {}
    RetryBound = 2
    Workers = {"mac"}
    AgentOf <- WorkerAgent
    Clients = {"cli"}
    Recoverers = {}
    HbPeriod = 1
    MaxExits = 1
    MayRaise = {}
    MaxErrors = 0
SPECIFICATION PoolSpec
INVARIANT StoppedHoldsNothing
CHECK_DEADLOCK FALSE
