\* Two threads of one process: resume() looks the owner up outside the lock.
CONSTANTS
    Tasks = {1}
    Agents = {"mac", "gx10"}
    Nodes = {"mac"}
    NoOne = NoOne
    NodeOf <- MCNodeOf
    Priority <- MCPriority
    MaxRetries <- MCMaxRetries
    Timeout <- MCTimeout
    Callers = {"c1", "c2"}
    Instances = {"c1"}
    InstanceOf <- Shared
    ResumeArgs = {NoOne}
    RetryBound = 2
SPECIFICATION Spec
PROPERTY ReservedForOwner
