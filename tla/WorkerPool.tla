----------------------------- MODULE WorkerPool ------------------------------
(***************************************************************************)
(* The worker daemons of motor/orchestration/worker.py on top of the task  *)
(* queue.  Each worker is a process with its own TaskQueue object, used by *)
(* its main loop, its heartbeat thread and the thread that calls stop().   *)
(* Clients create tasks and resume paused ones; recoverers call            *)
(* recover_stale().  Nothing in the repository does: production is         *)
(* Recoverers = {}.                                                        *)
(*                                                                         *)
(* Every step that touches the queue is a step of TaskQueue joined with a  *)
(* step of the worker's control.  The opencode subprocess is the time a    *)
(* worker spends in "running"; one whose worker died is in `orphans`.      *)
(***************************************************************************)
EXTENDS TaskQueue

CONSTANTS
    Workers,      \* node_id of each worker
    AgentOf,      \* NodeWorker.agent, the name its claims are made under
    Clients, Recoverers,
    HbPeriod,     \* ticks between two heartbeats of a task, at most
    MaxExits,     \* bound of the model: crashes, stops and interrupts
    MayRaise,     \* the queue calls of a worker that may raise
    MaxErrors     \* bound of the model: how often they do

NoTask     == 0
Main(p)    == <<p, "main">>
Beater(w)  == <<w, "beat">>
Stopper(w) == <<w, "stop">>

ASSUME PoolAssumption ==
    /\ Workers \subseteq Nodes
    /\ AgentOf \in [Workers -> Agents]
    /\ Callers = (Workers \X {"main", "beat", "stop"}) \cup ((Clients \cup Recoverers) \X {"main"})
    /\ \A c \in Callers : InstanceOf[c] = c[1]
    /\ Workers \cap (Clients \cup Recoverers) = {}
    /\ MayRaise \subseteq {"start", "complete", "fail", "pause"}
    /\ {HbPeriod, MaxExits, MaxErrors} \subseteq Nat
    /\ NoTask \notin Tasks

VARIABLES
    pc,        \* where the main loop is
    task,      \* the task run_once() got from claim_next()
    current,   \* _current_task_id
    beating,   \* the task the heartbeat thread keeps alive
    stop,      \* the _stop event
    halting,   \* the task stop() is about to pause
    exits, errors,
    orphans,   \* <<w, t>>: an opencode of t whose worker w died and which still runs
    resumed    \* history: the tasks a client resumed

worker == <<pc, task, current, beating, stop, halting>>
queue  == <<status, assigned_to, retries, last_heartbeat, cursor>>
all    == <<queue, worker, exits, errors, orphans, resumed>>

Alive     == {"poll", "claimed", "starting", "running", "completing", "failing", "closing",
              "parking", "releasing"}
Executing == {"running", "completing", "failing", "closing"}

PoolInit ==
    /\ Init
    /\ pc = [w \in Workers |-> "down"]
    /\ task = [w \in Workers |-> NoTask]
    /\ current = [w \in Workers |-> NoTask]
    /\ beating = [w \in Workers |-> NoTask]
    /\ stop = [w \in Workers |-> FALSE]
    /\ halting = [w \in Workers |-> NoTask]
    /\ exits = 0
    /\ orphans = {} /\ resumed = {}
    /\ errors = 0

(* The main loop of w goes from one point to another. *)
Goto(w, from, to) ==
    /\ pc[w] = from
    /\ pc' = [pc EXCEPT ![w] = to]
    /\ UNCHANGED <<exits, orphans, resumed, task, stop, halting>>

(* A queue call of thread c raises ("database is locked"): nothing is written. *)
Raises(c, call) ==
    /\ call \in MayRaise
    /\ errors < MaxErrors
    /\ errors' = errors + 1
    /\ cursor' = [cursor EXCEPT ![c] = Idle]
    /\ UNCHANGED <<status, assigned_to, retries, last_heartbeat>>

-----------------------------------------------------------------------------
(* run(), run_once()                                                       *)

(* Slip: a worker that starts puts the tasks it held back into the pool. *)
BootRequeues(w) ==
    /\ pc[w] = "down"
    /\ pc' = [pc EXCEPT ![w] = "poll"]
    /\ status' = Put(status, HeldBy(AgentOf[w]), "pending")
    /\ assigned_to' = Put(assigned_to, HeldBy(AgentOf[w]), NoOne)
    /\ UNCHANGED <<retries, last_heartbeat, cursor>>
    /\ UNCHANGED <<task, current, beating, stop, halting, exits, errors, orphans, resumed>>

Boot(w) ==
    /\ pc[w] = "down"
    /\ pc' = [pc EXCEPT ![w] = "poll"]
    /\ UNCHANGED <<queue, task, current, beating, stop, halting, exits, errors, orphans, resumed>>

PollSelect(w) ==
    /\ pc[w] = "poll" /\ ~ stop[w]
    /\ ClaimNextSelect(Main(w), AgentOf[w], w)
    /\ UNCHANGED <<worker, exits, errors, orphans, resumed>>

PollClaim(w) ==
    /\ pc[w] = "poll"
    /\ pc' = [pc EXCEPT ![w] = "claimed"]
    /\ \E t \in cursor[Main(w)].rows : task' = [task EXCEPT ![w] = t]
    /\ ClaimNextWrite(Main(w))
    /\ UNCHANGED <<current, beating, stop, halting, exits, errors, orphans, resumed>>

PollMiss(w) ==
    /\ pc[w] = "poll"
    /\ ~ cursor[Main(w)].rows \subseteq With(Claimable)
    /\ Abort(Main(w))
    /\ UNCHANGED <<worker, exits, errors, orphans, resumed>>

(* The loop ends: mark_absent(), that is WorkStealer.release(node_id). *)
Leave(w) ==
    /\ stop[w] /\ cursor[Main(w)] = Idle
    /\ Goto(w, "poll", "parking")
    /\ UNCHANGED <<queue, current, beating, errors>>

-----------------------------------------------------------------------------
(* _execute()                                                              *)

Begin(w) ==
    /\ Goto(w, "claimed", "starting")
    /\ current' = [current EXCEPT ![w] = task[w]]
    /\ UNCHANGED <<queue, beating, errors>>

(* Slip: the heartbeat thread is not started. *)
StartSilent(w) ==
    /\ Goto(w, "starting", "running")
    /\ Start(Main(w), task[w])
    /\ UNCHANGED <<current, beating, errors>>

StartOk(w) ==
    /\ Goto(w, "starting", "running")
    /\ Start(Main(w), task[w])
    /\ beating' = [beating EXCEPT ![w] = task[w]]
    /\ UNCHANGED <<current, errors>>

(* Slip: the task is run although start() failed. *)
StartIgnored(w) ==
    /\ Goto(w, "starting", "running")
    /\ \/ task[w] \notin With({"assigned"}) /\ UNCHANGED <<queue, errors>>
       \/ Raises(Main(w), "start")
    /\ UNCHANGED <<current, beating>>

(* start() returned None or raised: _current_task_id keeps its value. *)
StartFails(w) ==
    /\ Goto(w, "starting", "poll")
    /\ \/ task[w] \notin With({"assigned"}) /\ UNCHANGED <<queue, errors>>
       \/ Raises(Main(w), "start")
    /\ UNCHANGED <<current, beating>>

RunEnds(w) ==
    /\ Goto(w, "running", "completing") \/ Goto(w, "running", "failing")
    /\ UNCHANGED <<queue, current, beating, errors>>

CompleteOk(w) ==
    /\ Goto(w, "completing", "closing")
    /\ Complete(Main(w), task[w])
    /\ UNCHANGED <<current, beating, errors>>

(* complete() found another status: its None is ignored, the work is lost. *)
CompleteNone(w) ==
    /\ Goto(w, "completing", "closing")
    /\ task[w] \notin With({"in_progress", "review"})
    /\ UNCHANGED <<queue, current, beating, errors>>

CompleteRaises(w) ==
    /\ Goto(w, "completing", "failing")
    /\ Raises(Main(w), "complete")
    /\ UNCHANGED <<current, beating>>

FailRead(w) ==
    /\ pc[w] = "failing"
    /\ FailSelect(Main(w), task[w], FALSE)
    /\ UNCHANGED <<worker, exits, errors, orphans, resumed>>

(* Slip: a failed run is logged and fail() is not called. *)
FailSkipped(w) ==
    /\ Goto(w, "failing", "closing")
    /\ cursor' = [cursor EXCEPT ![Main(w)] = Idle]
    /\ UNCHANGED <<status, assigned_to, retries, last_heartbeat, current, beating, errors>>

FailDone(w) ==
    /\ Goto(w, "failing", "closing")
    /\ FailWrite(Main(w))
    /\ UNCHANGED <<current, beating, errors>>

(* TaskStateError, or the database: run() logs it, "finally" still runs. *)
FailRaises(w) ==
    /\ Goto(w, "failing", "closing")
    /\ \/ /\ cursor[Main(w)] = Idle
          /\ task[w] \notin With(Active)
          /\ UNCHANGED <<queue, errors>>
       \/ Raises(Main(w), "fail")
    /\ UNCHANGED <<current, beating>>

Close(w) ==
    /\ Goto(w, "closing", "poll")
    /\ current' = [current EXCEPT ![w] = NoTask]
    /\ beating' = [beating EXCEPT ![w] = NoTask]
    /\ UNCHANGED <<queue, errors>>

(* The heartbeat thread; heartbeat() ignores a task nobody holds. *)
Beat(w) ==
    /\ beating[w] # NoTask
    /\ Heartbeat(Beater(w), beating[w])
    /\ UNCHANGED <<worker, exits, errors, orphans, resumed>>

-----------------------------------------------------------------------------
(* stop(), called from another thread, and the release of the node.        *)

Exit == exits < MaxExits /\ exits' = exits + 1

Stop(w) ==
    /\ Exit
    /\ pc[w] \in Alive /\ ~ stop[w]
    /\ stop' = [stop EXCEPT ![w] = TRUE]
    /\ beating' = [beating EXCEPT ![w] = NoTask]
    /\ halting' = [halting EXCEPT ![w] = current[w]]
    /\ UNCHANGED <<queue, pc, task, current, errors, orphans, resumed>>

(* pause(task_id): no check of who holds the task. *)
PauseIfActive(c, t) ==
    IF t \in With(Active) THEN Pause(c, t) ELSE CanCall(c) /\ UNCHANGED queue

(* pause() is called under suppress(Exception). *)
StopPause(w) ==
    /\ halting[w] # NoTask
    /\ \/ PauseIfActive(Stopper(w), halting[w]) /\ UNCHANGED errors
       \/ Raises(Stopper(w), "pause")
    /\ halting' = [halting EXCEPT ![w] = NoTask]
    /\ UNCHANGED <<pc, task, current, beating, stop, exits, orphans, resumed>>

(***************************************************************************)
(* release(node_id): park_in_progress, then release_pending.  Both look    *)
(* for assigned_to = node_id, while claims are made under AgentOf[w].      *)
(***************************************************************************)
SweepNode(w, select(_, _), write(_), from, to) ==
    \/ /\ pc[w] = from /\ select(Main(w), w)
       /\ UNCHANGED <<worker, exits, errors, orphans, resumed>>
    \/ /\ Goto(w, from, to)
       /\ \/ write(Main(w))
          \/ cursor[Main(w)] = Idle /\ HeldBy(w) = {} /\ UNCHANGED queue
       /\ UNCHANGED <<current, beating, errors>>

Park(w)    == SweepNode(w, ParkSelect, ParkWrite, "parking", "releasing")
Release(w) ==
    /\ halting[w] = NoTask
    /\ SweepNode(w, ReleasePendingSelect, ReleaseWrite, "releasing", "stopped")

(* A stopped process that starts again has a new NodeWorker. *)
Forget(w) ==
    /\ task' = [task EXCEPT ![w] = NoTask]
    /\ beating' = [beating EXCEPT ![w] = NoTask]
    /\ stop' = [stop EXCEPT ![w] = FALSE]
    /\ halting' = [halting EXCEPT ![w] = NoTask]
    /\ cursor' = [cursor EXCEPT ![Main(w)] = Idle]
    /\ UNCHANGED <<status, assigned_to, retries, last_heartbeat, errors>>

Restart(w) ==
    /\ pc[w] = "stopped"
    /\ pc' = [pc EXCEPT ![w] = "down"]
    /\ current' = [current EXCEPT ![w] = NoTask]
    /\ Forget(w)
    /\ UNCHANGED <<exits, orphans, resumed>>

(***************************************************************************)
(* SIGTERM, SIGKILL, power: no handler runs.  The opencode that the worker *)
(* waits for may outlive it: subprocess.run() gives the child no way to    *)
(* notice, and its timeout dies with the parent.                           *)
(***************************************************************************)
Crash(w) ==
    /\ Exit
    /\ pc[w] \in Alive
    /\ pc' = [pc EXCEPT ![w] = "down"]
    /\ current' = [current EXCEPT ![w] = NoTask]
    /\ \/ UNCHANGED orphans
       \/ pc[w] = "running" /\ orphans' = orphans \cup {<<w, task[w]>>}
    /\ Forget(w)
    /\ UNCHANGED resumed

OrphanEnds ==
    /\ \E o \in orphans : orphans' = orphans \ {o}
    /\ UNCHANGED <<queue, worker, exits, errors, resumed>>

(***************************************************************************)
(* Ctrl-C in the main thread: "finally" clears _current_task_id, the       *)
(* exception leaves run() before mark_absent(), and main() calls stop().   *)
(* subprocess.run() kills its child before it lets the exception through.  *)
(***************************************************************************)
Interrupt(w) ==
    /\ Exit
    /\ pc[w] \in Alive
    /\ pc' = [pc EXCEPT ![w] = "interrupted"]
    /\ current' = IF pc[w] \in Executing THEN [current EXCEPT ![w] = NoTask] ELSE current
    /\ Forget(w)
    /\ UNCHANGED <<orphans, resumed>>

InterruptStop(w) ==
    /\ pc[w] = "interrupted"
    /\ pc' = [pc EXCEPT ![w] = "stopped"]
    /\ PauseIfActive(Main(w), current[w])
    /\ UNCHANGED <<task, current, beating, stop, halting, exits, errors, orphans, resumed>>

-----------------------------------------------------------------------------
(* Clients, recoverers, time.                                              *)

ClientCreate(c) ==
    /\ \E t \in Tasks : Create(Main(c), t)
    /\ UNCHANGED <<worker, exits, errors, orphans, resumed>>

ClientResume(c) ==
    /\ \E t \in Tasks, n \in ResumeArgs :
          Resume(Main(c), t, n) /\ resumed' = resumed \cup {t}
    /\ UNCHANGED <<worker, exits, errors, orphans>>

Recover(r) ==
    /\ RecoverSelect(Main(r)) \/ RecoverWrite(Main(r))
    /\ UNCHANGED <<worker, exits, errors, orphans, resumed>>

(***************************************************************************)
(* Workers are prompt: before a heartbeat is older than HbPeriod, a worker *)
(* goes from its claim to its start, its heartbeat thread beats, and       *)
(* stop(), which has ended that thread, pauses the task.                   *)
(***************************************************************************)
Prompt(w) ==
    /\ \A t \in {beating[w], halting[w]} \cap With(Active) : last_heartbeat[t] < HbPeriod
    /\ pc[w] \in {"claimed", "starting"} /\ task[w] \in With(Active)
          => last_heartbeat[task[w]] < HbPeriod

PoolTick ==
    /\ \A w \in Workers : Prompt(w)
    /\ Tick
    /\ UNCHANGED <<worker, exits, errors, orphans, resumed>>

Loop(w) ==
    \/ Boot(w) \/ Restart(w)
    \/ PollSelect(w) \/ PollClaim(w) \/ PollMiss(w) \/ Leave(w)
    \/ Begin(w) \/ StartOk(w) \/ StartFails(w)
    \/ RunEnds(w)
    \/ CompleteOk(w) \/ CompleteNone(w) \/ CompleteRaises(w)
    \/ FailRead(w) \/ FailDone(w) \/ FailRaises(w)
    \/ Close(w)
    \/ Park(w) \/ Release(w)
    \/ InterruptStop(w)

PoolNext ==
    \/ \E w \in Workers :
          Loop(w) \/ Beat(w) \/ Stop(w) \/ StopPause(w) \/ Crash(w) \/ Interrupt(w)
    \/ \E c \in Clients : ClientCreate(c) \/ ClientResume(c)
    \/ \E r \in Recoverers : Recover(r)
    \/ OrphanEnds
    \/ PoolTick

PoolSpec == PoolInit /\ [][PoolNext]_all

(***************************************************************************)
(* The operating system schedules every thread; the subprocess ends,       *)
(* because subprocess.run() has a timeout; launchd, systemd or the         *)
(* watchdog restart a worker; time passes.  Recoverers owe nothing.        *)
(***************************************************************************)
Fairness ==
    /\ \A w \in Workers : WF_all(Loop(w)) /\ WF_all(Beat(w)) /\ WF_all(StopPause(w))
    /\ WF_all(PoolTick)

FairPoolSpec == PoolSpec /\ Fairness

-----------------------------------------------------------------------------
(* Properties.                                                             *)

(* Control points and task variables stay in their domains. *)
PoolTypeOK ==
    /\ TypeOK
    /\ pc \in [Workers -> Alive \cup {"down", "stopped", "interrupted"}]
    /\ {task, current, beating, halting} \subseteq [Workers -> Tasks \cup {NoTask}]
    /\ stop \in [Workers -> BOOLEAN]
    /\ orphans \subseteq Workers \X (Tasks \cup {NoTask})
    /\ resumed \subseteq Tasks

(* Two workers never run the same task at the same time. *)
NoDoubleExecution ==
    \A v, w \in Workers :
       v # w /\ {pc[v], pc[w]} \subseteq {"running", "completing"} => task[v] # task[w]

(***************************************************************************)
(* A worker that runs a task holds it in the queue: nobody has taken it    *)
(* over, and if it is not in progress somebody paused it.                  *)
(***************************************************************************)
RunningHeld ==
    \A w \in Workers :
       pc[w] \in {"running", "completing"} =>
          /\ status[task[w]] \in {"in_progress", "paused"}
          /\ assigned_to[task[w]] = AgentOf[w]

(***************************************************************************)
(* A run that ended well ends in a task that is done.  Its result is lost  *)
(* only if somebody paused the task meanwhile, if complete() raises, which *)
(* sends the finished task to fail(), or if the process dies before the    *)
(* call: no heartbeat that is late, no recovery and no other worker costs  *)
(* a result.                                                               *)
(***************************************************************************)
WorkIsKept ==
    [][\A w \in Workers :
          pc[w] = "completing" /\ pc'[w] # "completing" =>
             \/ status'[task[w]] = "done"
             \/ status[task[w]] = "paused"
             \/ CompleteRaises(w) \/ Crash(w) \/ Interrupt(w)]_all

(* A created task is done, failed, or paused until somebody resumes it. *)
Settled(t) == status[t] \in {"done", "failed", "failed_require_human", "paused"}

(* What the queue's design aims at: every task settles, whatever crashes. *)
Settles == \A t \in Tasks : status[t] = "pending" ~> Settled(t)

(* The queue says somebody has the task, and no worker is at it. *)
Abandoned(t) ==
    /\ t \in With(Active)
    /\ \A w \in Workers :
          task[w] # t \/ pc[w] \notin {"claimed", "starting", "running", "completing", "failing"}

(***************************************************************************)
(* Nobody calls recover_stale(), so a task may be abandoned for good; but  *)
(* that takes a fault each: in the end every task is settled or abandoned, *)
(* and no more of them are abandoned than workers exited and calls raised. *)
(***************************************************************************)
OneLossPerFault ==
    /\ \A t \in Tasks : status[t] = "pending" ~> Settled(t) \/ Abandoned(t)
    /\ <>[](Cardinality({t \in Tasks : Abandoned(t)}) <= exits + errors)

(***************************************************************************)
(* No worker runs a task that the opencode of a dead worker still works    *)
(* on, unless a client resumed the task, which may have been paused under  *)
(* a running opencode.  It holds as long as nobody calls recover_stale(),  *)
(* the other way back to the pool for the task of a dead worker.           *)
(***************************************************************************)
OrphansAlone ==
    \A o \in orphans, w \in Workers :
        pc[w] = "running" /\ task[w] = o[2] => o[2] \in resumed

(* stop() pauses only tasks its own worker claimed. *)
StopPausesOwn ==
    [][\A w \in Workers :
          StopPause(w) /\ halting[w] \in With(Active)
             => assigned_to[halting[w]] = AgentOf[w]]_all

(* A worker that stopped holds no task, assigned or in progress. *)
StoppedHoldsNothing ==
    \A w \in Workers : pc[w] = "stopped" => HeldBy(AgentOf[w]) = {}
=============================================================================
