---------------------------- MODULE ExecutionPool -----------------------------
(***************************************************************************)
(* What AgentScheduler promises about the executions given to it: each one *)
(* waits, runs once and leaves its result, unless cancel() takes it out of *)
(* the queue first; a result waits for shutdown() to return it, or for the *)
(* next result of the same agent to replace it.  Queues, levels, aging,    *)
(* threads and the lock are the business of the implementation.            *)
(***************************************************************************)
CONSTANTS
    Executions,   \* the executions submitted
    Rivals(_),    \* the other executions of an agent
    Cancellable   \* executions of the agents somebody cancels

VARIABLE phase

Phases == {"new", "waiting", "running", "reported", "replaced", "returned",
           "cancelled"}

Init == phase = [e \in Executions |-> "new"]

Becomes(e, from, to) ==
    phase[e] = from /\ phase' = [phase EXCEPT ![e] = to]

Submit(e) == Becomes(e, "new", "waiting")

Start(e) == Becomes(e, "waiting", "running")

Cancel(e) == e \in Cancellable /\ Becomes(e, "waiting", "cancelled")

Report(e) ==
    /\ phase[e] = "running"
    /\ phase' = [f \in Executions |->
          IF f = e THEN "reported"
          ELSE IF f \in Rivals(e) /\ phase[f] = "reported" THEN "replaced"
          ELSE phase[f]]

(* shutdown() returns every result there is. *)
Return ==
    phase' = [e \in Executions |-> IF phase[e] = "reported" THEN "returned"
                                   ELSE phase[e]]

Next ==
    \/ \E e \in Executions : Submit(e) \/ Start(e) \/ Cancel(e) \/ Report(e)
    \/ Return

Spec == Init /\ [][Next]_phase
=============================================================================
