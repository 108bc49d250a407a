\* A thread that read _shutdown before it was set starts an execution afterwards.  With
\* FifoByPriority instead: aging breaks the FIFO of the docstring.
CONSTANTS
    e1 = e1
    e2 = e2
    e3 = e3
    e4 = e4
    Executions = {e1, e2, e3, e4}
    Agents <- MCAgents
    AgentOf <- MCAgentOf
    PriorityOf <- MCPriorityOf
    After <- MCAfter
    MaxConcurrent = 1
    Cancelled = {}
    Closers = {"k1"}
    AgeBound = 2
    None = None
CHECK_DEADLOCK FALSE
SPECIFICATION Spec
PROPERTIES QuietAfterShutdown
