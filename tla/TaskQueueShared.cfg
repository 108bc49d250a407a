\* Two threads of one process: they share one TaskQueue object and its lock.
CONSTANTS
    Tasks = {1, 2}
    Agents = {"mac", "gx10"}
    Nodes = {"mac"}
    NoOne = NoOne
    NodeOf <- MCNodeOf
    Priority <- MCPriority
    MaxRetries <- MCMaxRetries
    Timeout <- MCTimeout
    Callers = {"c1", "c2"}
    Instances = {"c1"}
    InstanceOf <- Shared
    ResumeArgs = {"mac", "gx10", NoOne}
    RetryBound = 2
SPECIFICATION Spec
INVARIANTS TypeOK QueueConsistent RetriesCountFailures LockProtects
PROPERTIES HandOver DoneIsFinal RecoverOnlyStale AtomicPool
