------------------------------ MODULE TaskTypes ------------------------------
(***************************************************************************)
(* The rows of the task table of motor/orchestration/task_queue.py and the *)
(* vocabulary shared by the queue (TaskQueue) and by its abstract          *)
(* specification (TaskPool).                                               *)
(*                                                                         *)
(* A task is named by its rank in created_at order, the tie-break of every *)
(* ORDER BY in the file, so "created earlier" is "smaller".  The columns   *)
(* fixed by create() are constants; assigned_to = '' is NoOne.             *)
(***************************************************************************)
EXTENDS Integers

CONSTANTS
    Tasks,       \* ranks of the tasks that may be created
    Agents,      \* names a worker claims under ("worker-mac")
    Nodes,       \* node identifiers ("mac")
    NoOne,       \* the empty string in assigned_to and in node_id
    NodeOf,      \* node_id given to create()
    Priority,    \* priority given to create()
    MaxRetries,  \* max_retries given to create()
    Timeout      \* timeout_seconds given to create(), in ticks of the model

Names == Agents \cup Nodes

ASSUME TaskAssumption ==
    /\ Tasks \subseteq Nat
    /\ NoOne \notin Names
    /\ NodeOf \in [Tasks -> Nodes \cup {NoOne}]
    /\ Priority \in [Tasks -> Int]
    /\ MaxRetries \in [Tasks -> Int]
    /\ Timeout \in [Tasks -> Nat]

(***************************************************************************)
(* TaskStatus.  "none" is a task that has not been created yet.            *)
(***************************************************************************)
TaskStatus == {"pending", "assigned", "in_progress", "paused", "review",
               "done", "failed", "failed_require_human", "timeout"}

Claimable == {"pending", "timeout"}      \* what claim and claim_next accept
Active    == {"assigned", "in_progress"} \* what fail, pause, ... accept

(***************************************************************************)
(* ORDER BY priority DESC, created_at ASC.                                 *)
(***************************************************************************)
Precedes(t, u) ==
    \/ Priority[t] > Priority[u]
    \/ Priority[t] = Priority[u] /\ t < u

First(t, S) == t \in S /\ \A u \in S \ {t} : Precedes(t, u)

(* The value v in every row of S, the rest of column f as it was. *)
Put(f, S, v) == [t \in Tasks |-> IF t \in S THEN v ELSE f[t]]

(* Where fail() sends a task whose retries column has become n. *)
FailedStatus(t, n, require_human) ==
    IF require_human \/ n >= MaxRetries[t] THEN "failed_require_human"
                                           ELSE "failed"
=============================================================================
