\* Two processes: recover_stale() reads, the worker beats, recover_stale() writes.
CONSTANTS
    Tasks = {1}
    Agents = {"mac"}
    Nodes = {"mac"}
    NoOne = NoOne
    NodeOf <- MCNodeOf
    Priority <- MCPriority
    MaxRetries <- MCMaxRetries
    Timeout <- MCTimeout
    Callers = {"p1", "p2"}
    Instances = {"p1", "p2"}
    InstanceOf <- OneEach
    ResumeArgs = {NoOne}
    RetryBound = 2
SPECIFICATION Spec
PROPERTY RecoverOnlyStale
