---------------------------- MODULE AgentScheduler ----------------------------
(***************************************************************************)
(* AgentScheduler and its _PriorityQueue (motor/agents/scheduler.py).      *)
(* Callers submit executions, each execution gets a thread of its own when *)
(* there is room, and a thread that ends dispatches the next.              *)
(*                                                                         *)
(* A section of code under self._lock is one step, but for the loop of     *)
(* _maybe_dispatch(), where each iteration is one and the lock stays held. *)
(* _shutdown is read and written outside the lock.                         *)
(*                                                                         *)
(* time.time() is kept as `overdue`: how many of the executions pushed so  *)
(* far, oldest first, have waited more than the 60 s of age().  An         *)
(* execution is pushed once; two may belong to one agent.  What a thread   *)
(* does between its start and its report is simulated in the code too.     *)
(***************************************************************************)
EXTENDS Subsequences, SequencesExt

CONSTANTS
    Executions,     \* the AgentExecution objects callers submit
    Agents,         \* agent_id
    AgentOf,        \* the agent of an execution
    PriorityOf,     \* what _map_priority() returns for it
    After,          \* what the thread that submits it submits before, or None
    MaxConcurrent,  \* max_concurrent
    Cancelled,      \* agents somebody calls cancel() for
    Closers,        \* threads that call shutdown()
    AgeBound,       \* bound of the model on `overdue`
    None            \* no entry in a dictionary

ASSUME SchedulerAssumption ==
    /\ AgentOf \in [Executions -> Agents]
    /\ PriorityOf \in [Executions -> 0..2]
    /\ After \in [Executions -> Executions \cup {None}]
    /\ {MaxConcurrent, AgeBound} \subseteq Nat
    /\ Cancelled \subseteq Agents
    /\ None \notin Executions

VARIABLES
    queues,    \* _queue._queues: a sequence of executions per level
    running,   \* _running: the execution whose thread each agent has
    results,   \* _results: the execution each agent's result is of
    shutdown,  \* _shutdown
    pc,        \* per thread, where it is
    closer,    \* per caller of shutdown(), where it is
    pushed,    \* the executions pushed so far, in that order
    overdue,   \* how many of them are older than 60 s
    returned   \* history: executions whose result a shutdown() returned

dicts == <<running, results>>
vars  == <<queues, dicts, shutdown, pc, closer, pushed, overdue, returned>>

Levels == 0..3

(* The caller of submit(e) and the thread of e. *)
Threads == {"submit", "run"} \X Executions

Queued(e) == \E l \in Levels : e \in Range(queues[l])

Busy == {a \in Agents : running[a] # None}

LockFree(t) == \A u \in Threads : pc[u] = "loop" => u = t

Overdue(e) == \E i \in 1..overdue : pushed[i] = e

Init ==
    /\ queues = [l \in Levels |-> <<>>]
    /\ running = [a \in Agents |-> None]
    /\ results = [a \in Agents |-> None]
    /\ shutdown = FALSE
    /\ pc = [t \in Threads |-> IF t[1] = "submit" THEN "ready" ELSE "none"]
    /\ closer = [k \in Closers |-> "ready"]
    /\ pushed = <<>>
    /\ overdue = 0
    /\ returned = {}

(* submit(): push under the lock, then _maybe_dispatch(). *)
Submit(e) ==
    LET t == <<"submit", e>> IN
    /\ pc[t] = "ready" /\ LockFree(t)
    /\ After[e] # None => pc[<<"submit", After[e]>>] = "done"
    /\ queues' = [queues EXCEPT ![PriorityOf[e]] = Append(@, e)]
    /\ pushed' = Append(pushed, e)
    /\ pc' = [pc EXCEPT ![t] = "check"]
    /\ UNCHANGED <<dicts, shutdown, closer, overdue, returned>>

(* Slip: only a caller of submit() dispatches. *)
CheckSubmitOnly(t) ==
    /\ pc[t] = "check"
    /\ pc' = [pc EXCEPT ![t] =
                 IF shutdown \/ t[1] = "run" THEN "done" ELSE "dispatch"]
    /\ UNCHANGED <<queues, dicts, shutdown, closer, pushed, overdue, returned>>

(* The first lines of _maybe_dispatch(), without the lock. *)
Check(t) ==
    /\ pc[t] = "check"
    /\ pc' = [pc EXCEPT ![t] = IF shutdown THEN "done" ELSE "dispatch"]
    /\ UNCHANGED <<queues, dicts, shutdown, closer, pushed, overdue, returned>>

(* The executions of a level that age() leaves there, and the others. *)
Stay(s)  == Pick(s, {i \in DOMAIN s : ~Overdue(s[i])})
Leave(s) == Pick(s, {i \in DOMAIN s : Overdue(s[i])})

(* Slip: what is aged also stays where it was. *)
AgedCopied == [queues EXCEPT ![2] = @ \o Leave(queues[1]) \o Leave(queues[0])]

(***************************************************************************)
(* age(): level 0, then level 1, lose what has waited too long to the next *)
(* level.  What came from level 0 is overdue at level 1 too.               *)
(***************************************************************************)
Aged == [queues EXCEPT ![0] = Stay(@), ![1] = Stay(@),
                       ![2] = @ \o Leave(queues[1]) \o Leave(queues[0])]

(* Slip: room is tested once, before the loop. *)
NextWithoutRoom(t) ==
    /\ pc[t] \in {"dispatch", "loop"} /\ LockFree(t)
    /\ pc[t] = "loop" \/ Cardinality(Busy) < MaxConcurrent
    /\ \E l \in Levels, e \in Executions :
          /\ Aged[l] # <<>> /\ e = Head(Aged[l])
          /\ \A k \in Levels : k < l => Aged[k] = <<>>
          /\ queues' = [Aged EXCEPT ![l] = Tail(@)]
          /\ running' = [running EXCEPT ![AgentOf[e]] = e]
          /\ pc' = [pc EXCEPT ![t] = "loop", ![<<"run", e>>] = "executing"]
    /\ UNCHANGED <<results, shutdown, closer, pushed, overdue, returned>>

(* Slip: pop() takes the newest. *)
NextNewest(t) ==
    /\ pc[t] \in {"dispatch", "loop"} /\ LockFree(t)
    /\ Cardinality(Busy) < MaxConcurrent
    /\ \E l \in Levels, e \in Executions :
          /\ Aged[l] # <<>> /\ e = Last(Aged[l])
          /\ \A k \in Levels : k < l => Aged[k] = <<>>
          /\ queues' = [Aged EXCEPT ![l] = Front(@)]
          /\ running' = [running EXCEPT ![AgentOf[e]] = e]
          /\ pc' = [pc EXCEPT ![t] = "loop", ![<<"run", e>>] = "executing"]
    /\ UNCHANGED <<results, shutdown, closer, pushed, overdue, returned>>

(* One iteration of the loop: age, pop, start a thread. *)
DispatchNext(t) ==
    /\ pc[t] \in {"dispatch", "loop"} /\ LockFree(t)
    /\ Cardinality(Busy) < MaxConcurrent
    /\ \E l \in Levels, e \in Executions :
          /\ Aged[l] # <<>> /\ e = Head(Aged[l])
          /\ \A k \in Levels : k < l => Aged[k] = <<>>
          /\ queues' = [Aged EXCEPT ![l] = Tail(@)]
          /\ running' = [running EXCEPT ![AgentOf[e]] = e]
          /\ pc' = [pc EXCEPT ![t] = "loop", ![<<"run", e>>] = "executing"]
    /\ UNCHANGED <<results, shutdown, closer, pushed, overdue, returned>>

(* The loop ends: no room, or nothing in the queue. *)
DispatchEnd(t) ==
    /\ pc[t] \in {"dispatch", "loop"} /\ LockFree(t)
    /\ \/ Cardinality(Busy) >= MaxConcurrent
       \/ \A l \in Levels : queues[l] = <<>>
    /\ pc' = [pc EXCEPT ![t] = "done"]
    /\ UNCHANGED <<queues, dicts, shutdown, closer, pushed, overdue, returned>>

(* The end of _run_execution(): the result, then the entry of the agent. *)
Report(e) ==
    LET t == <<"run", e>> IN
    /\ pc[t] = "executing" /\ LockFree(t)
    /\ results' = [results EXCEPT ![AgentOf[e]] = e]
    /\ running' = [running EXCEPT ![AgentOf[e]] = None]
    /\ pc' = [pc EXCEPT ![t] = "check"]
    /\ UNCHANGED <<queues, shutdown, closer, pushed, overdue, returned>>

Has(s, a) == \E i \in DOMAIN s : AgentOf[s[i]] = a

(* remove(): all but the first execution of the agent. *)
Without(s, a) ==
    Pick(s, {i \in DOMAIN s : AgentOf[s[i]] = a => \E j \in 1..(i - 1) : AgentOf[s[j]] = a})

(***************************************************************************)
(* cancel(): removes the agent's first queued execution, by level, and its *)
(* entry in _running.  The thread goes on.                                 *)
(***************************************************************************)
Cancel(a) ==
    /\ a \in Cancelled
    /\ \A t \in Threads : pc[t] # "loop"
    /\ running[a] # None \/ \E l \in Levels : Has(queues[l], a)
    /\ queues' = [l \in Levels |->
          IF Has(queues[l], a) /\ \A k \in Levels : k < l => ~Has(queues[k], a)
          THEN Without(queues[l], a) ELSE queues[l]]
    /\ running' = [running EXCEPT ![a] = None]
    /\ UNCHANGED <<results, shutdown, pc, closer, pushed, overdue, returned>>

(* shutdown(): the flag, without the lock; then bounded joins. *)
Close(k) ==
    /\ closer[k] = "ready"
    /\ shutdown' = TRUE
    /\ closer' = [closer EXCEPT ![k] = "joining"]
    /\ UNCHANGED <<queues, dicts, pc, pushed, overdue, returned>>

(* shutdown() after its joins ended or timed out. *)
Collect(k) ==
    /\ closer[k] = "joining"
    /\ \A t \in Threads : pc[t] # "loop"
    /\ returned' = returned \cup (Range(results) \ {None})
    /\ results' = [a \in Agents |-> None]
    /\ running' = [a \in Agents |-> None]
    /\ closer' = [closer EXCEPT ![k] = "done"]
    /\ UNCHANGED <<queues, shutdown, pc, pushed, overdue>>

(* The oldest execution that had not waited 60 s now has. *)
Clock ==
    /\ overdue < Len(pushed) /\ overdue < AgeBound
    /\ overdue' = overdue + 1
    /\ UNCHANGED <<queues, dicts, shutdown, pc, closer, pushed, returned>>

Step(t) == Check(t) \/ DispatchNext(t) \/ DispatchEnd(t)

Next ==
    \/ \E e \in Executions : Submit(e) \/ Report(e)
    \/ \E t \in Threads : Step(t)
    \/ \E a \in Agents : Cancel(a)
    \/ \E k \in Closers : Close(k) \/ Collect(k)
    \/ Clock

Spec == Init /\ [][Next]_vars

-----------------------------------------------------------------------------

SchedTypeOK ==
    /\ queues \in [Levels -> Seq(Executions)]
    /\ running \in [Agents -> Executions \cup {None}]
    /\ results \in [Agents -> Executions \cup {None}]
    /\ shutdown \in BOOLEAN
    /\ pc \in [Threads -> {"none", "ready", "executing", "check", "dispatch",
                           "loop", "done"}]
    /\ closer \in [Closers -> {"ready", "joining", "done"}]
    /\ pushed \in Seq(Executions)
    /\ overdue \in 0..Len(pushed)
    /\ returned \subseteq Executions

(* An agent with one execution only. *)
Single(e) == \A f \in Executions : AgentOf[f] = AgentOf[e] => f = e

(***************************************************************************)
(* No wakeup is lost: while something is queued and the scheduler is open, *)
(* some thread has yet to dispatch, whatever was cancelled and whichever   *)
(* executions share an agent.                                              *)
(***************************************************************************)
WillDispatch == \E t \in Threads :
                   pc[t] \in {"executing", "check", "dispatch", "loop"}

NoLostWakeup ==
    MaxConcurrent > 0 /\ ~shutdown /\ (\E l \in Levels : queues[l] # <<>>)
        => WillDispatch

(***************************************************************************)
(* What became of an execution, as its caller sees it.                     *)
(***************************************************************************)
PhaseOf(e) ==
    CASE e \in returned -> "returned"
      [] e \notin returned /\ pc[<<"run", e>>] = "executing" -> "running"
      [] e \notin returned /\ pc[<<"run", e>>] = "none" ->
            IF Queued(e) THEN "waiting"
            ELSE IF e \in Range(pushed) THEN "cancelled" ELSE "new"
      [] OTHER -> IF results[AgentOf[e]] = e THEN "reported" ELSE "replaced"

Rivals(e) == {f \in Executions \ {e} : AgentOf[f] = AgentOf[e]}

Pool == INSTANCE ExecutionPool WITH
            phase       <- [e \in Executions |-> PhaseOf(e)],
            Cancellable <- {e \in Executions : AgentOf[e] \in Cancelled},
            Rivals      <- Rivals

(***************************************************************************)
(* The scheduler implements the pool: aging, cancel(), shutdown() and the  *)
(* races of submitters and ending threads lose no execution, start none    *)
(* twice, and take no result away but where the pool says so.              *)
(***************************************************************************)
ImplementsPool == Pool!Spec

(***************************************************************************)
(* Until a shutdown, at most max_concurrent threads execute, leaving aside *)
(* those of cancelled agents and of agents with several executions: their  *)
(* entries go before they do.                                              *)
(***************************************************************************)
Capacity ==
    ~shutdown =>
        Cardinality({e \in Executions : /\ pc[<<"run", e>>] = "executing"
                                        /\ Single(e)
                                        /\ AgentOf[e] \notin Cancelled})
            <= MaxConcurrent

Started(e) == pc[<<"run", e>>] = "none" /\ pc'[<<"run", e>>] # "none"

Earlier(e, f) == Before(pushed, e, f)

(***************************************************************************)
(* Until age() touches them, executions start by priority and, within one, *)
(* in the order of submission.                                             *)
(***************************************************************************)
FreshInOrder ==
    [][\A e, f \in Executions :
          Started(f) /\ Queued(e) /\ Queued(e)' /\ ~Overdue(e) =>
             /\ PriorityOf[f] <= PriorityOf[e]
             /\ PriorityOf[f] = PriorityOf[e] => ~Earlier(e, f)]_vars

(***************************************************************************)
(* The docstring of the class: "FIFO por prioridad".  Not so: an execution *)
(* that waited goes to a lower level and a later one of its own priority   *)
(* starts before it.                                                       *)
(***************************************************************************)
FifoByPriority ==
    [][\A e, f \in Executions :
          Started(f) /\ Queued(e) /\ Queued(e)'
          /\ PriorityOf[f] = PriorityOf[e] => ~Earlier(e, f)]_vars

(***************************************************************************)
(* What shutdown() announces, "Deja de aceptar nuevas tareas": nothing     *)
(* starts once some shutdown() has returned.  A thread that read _shutdown *)
(* before breaks it.                                                       *)
(***************************************************************************)
QuietAfterShutdown ==
    [][\A e \in Executions :
          Started(e) => \A k \in Closers : closer[k] # "done"]_vars
=============================================================================
