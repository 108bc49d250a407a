---------------------------- MODULE MCTaskQueue -----------------------------
(***************************************************************************)
(* Small instances of TaskQueue.  Two tasks: the first has no node, the    *)
(* higher priority and a retry to spare; the second was created for node   *)
(* "mac" and its first failure goes to a human.                            *)
(***************************************************************************)
EXTENDS TaskQueue

MCNodeOf     == [t \in Tasks |-> IF t = 2 THEN "mac" ELSE NoOne]
MCPriority   == [t \in Tasks |-> IF t = 1 THEN 1 ELSE 0]
MCMaxRetries == [t \in Tasks |-> IF t = 2 THEN 1 ELSE 3]
MCTimeout    == [t \in Tasks |-> IF t = 2 THEN 1 ELSE 0]

OneEach == [c \in Callers |-> c]               \* every caller its own object
TwoProcesses == [c \in Callers |-> IF c = "p1" THEN "p1" ELSE "p2"]
Shared == [c \in Callers |-> CHOOSE i \in Instances : TRUE]
=============================================================================
