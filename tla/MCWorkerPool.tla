---------------------------- MODULE MCWorkerPool ----------------------------
(***************************************************************************)
(* Small instances of WorkerPool: workers on the nodes "mac" and "gx10",   *)
(* tasks without a node and with equal priority, one retry to spare.       *)
(***************************************************************************)
EXTENDS WorkerPool

MCNodeOf     == [t \in Tasks |-> NoOne]
MCPriority   == [t \in Tasks |-> 0]
MCMaxRetries == [t \in Tasks |-> 3]
MCTimeout    == [t \in Tasks |-> 1]

MCCallers    == (Workers \X {"main", "beat", "stop"}) \cup ((Clients \cup Recoverers) \X {"main"})
MCInstanceOf == [c \in Callers |-> c[1]]

WorkerAgent == [w \in Workers |-> IF w = "mac" THEN "worker-mac" ELSE "worker-gx10"]
=============================================================================
