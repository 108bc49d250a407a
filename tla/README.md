# URA: verification of the concurrent core

URA is a multi-agent platform written in Python. This directory holds TLA+
models of the parts that coordinate others: the task queue that several nodes
share, the worker daemons that empty it, the failover that takes over when the
orchestrator is gone, the scheduler of agents inside a process, the scheduler
of the GPU's memory, the jobs of the knowledge engine, and the pipeline that
validates and repairs the sources. TLC checks the models on small instances;
TLAPS proves every safety property the passing runs check, the two
refinements of abstract specifications included, for any number of processes,
threads and tasks, some under conditions the theorem names.

Paths are relative to the root of the repository. Where a file is named without
its directory it is in the directory of its component, given in the inventory.

1. [Inventory](#1-inventory)
2. [Plan](#2-plan)
3. [Models](#3-models)
4. [Runs](#4-runs)
5. [Proofs](#5-proofs)
6. [What the code does not do](#6-what-the-code-does-not-do)
7. [Not modelled](#7-not-modelled)

## 1. Inventory

### The orchestration core, `src/motor/orchestration/`

| Component | State | Operations | Used by |
|---|---|---|---|
| Task queue, `task_queue.py` | table `tasks` in SQLite: status, owner, retries, heartbeat; one `RLock` per `TaskQueue` object | create, claim, claim_next, start, complete, fail, review, heartbeat, pause, resume, release_pending, park_in_progress, release_all_paused, recover_stale | workers, auditor, clients, each with its own object |
| Node worker, `worker.py` | current task, stop event, heartbeat thread | run loop, execute, stop, mark_absent | launchd, watchdog script, Ctrl-C |
| Work stealer, `worksteal.py` | last presence of each node, a rebalancing thread | acquire, release, rebalance | workers |
| Health checker, `failover.py` | state, counters, failure times, loop thread, stop event | start, stop, check_now, the loop | failover, any thread |
| Worktree manager, `failover.py` | dictionary of worktrees; git's directories and branches | create, validate, merge, cleanup, cleanup_all | failover, any thread |
| Autonomous failover, `failover.py` | mode, state file | callback of the checker, execute_task, start, stop | any thread |
| Remote executor, `failover.py` | none | ssh with retries | worktree manager, failover |
| Node registry, `node_registry.py` | records of the nodes, a file, a checking thread | register, unregister, check_health | work stealer, orchestrator |
| Auditor, `auditor.py` | git repository | review, audit, merge, run_cycle | a timer |
| Distributed lock, `distributed_lock.py` | lock files | acquire, release, is_locked | clients |
| Dispatch, contracts, telemetry, API | none that decides | | |

**How they interact.** Workers, clients and the auditor meet only in the
database. A `TaskQueue` object protects its operations with a lock of its own;
processes, or two objects in one process, have different locks and share only
SQLite. Python's `sqlite3` opens a transaction at the first `UPDATE`, so the
`SELECT` that precedes it is outside: between the two statements of an operation
other objects may write. The health checker calls the failover's callback under
its lock; the callback takes the failover's lock and, at the end of an outage,
runs `cleanup_all()` with both locks held. Runners take neither lock while their
git and ssh commands run.

**What is hard.** Two statements of one operation around a write of another
process; heartbeats that race the recovery of stale tasks; crashes between claim
and completion; a stop in the middle of a task; probes whose results are applied
in another order; counters and windows that decide a mode; commands that fail
half way; worktrees shared by threads. `PROJECT.json` lists each of these hazards
at its line, with the properties that would catch it.

**What makes each part correct.**

- Queue: a task has at most one holder, changes hands only through the common
  queue or a pause, a finished task stays finished, `retries` counts failures,
  recovery takes back only what is stale, every operation behaves as if atomic.
- Worker: no task runs twice at once, a worker that runs a task holds it, results
  are kept, a fault costs one task at most, and what an opencode of a dead worker
  still works on is given to nobody.
- Health checker: DOWN only after a real silence, HEALTHY only when earned,
  counters consistent whoever probes.
- Worktrees: one creator per task, no directory the manager does not know, no
  merge after a failed validation.
- Failover: DOWN means autonomous; the mode follows the orchestrator; a task in
  progress keeps its worktree.

### Schedulers, jobs and the pipeline

| Component | State | Operations | Used by |
|---|---|---|---|
| Agent scheduler, `src/motor/agents/scheduler.py` | four queues, `_running`, `_results`, one lock, `_shutdown` | submit, cancel, shutdown; dispatch and aging; a thread per execution | the agent runtime |
| VRAM scheduler, `src/core/mochila/vram_scheduler.py` and its copy in `mochila_server.py`, which is the one the service runs | queue of futures with deadlines, the active request, memory in use, error count | acquire, acquire_boot_vram, release; a loop that reads nvidia-smi and grants | HTTP handlers of the Mochila server |
| Knowledge jobs, `src/knowledge/engine/jobs.py` and `extraction_service.py` | table `op_jobs` in SQLite; child processes | enqueue, process_archive_jobs; claim, extract, time out, stop | a systemd timer, the compiler, services |
| Validation pipeline, `src/scripts/pro/tuneladora/pipeline/` | `pipeline.lock`, a snapshot directory, the working tree, git | one run: lock, phases, commit, verdict, gate, rollback | schedulers, watchers, hooks, the command line |

**How they interact.** Threads of the agent scheduler meet under one lock, but
the flag of a shutdown is read outside it. Handlers and loop of the VRAM scheduler
are coroutines of one event loop: a section without `await` is atomic, and a
grant and a timeout of the same caller may fall into one iteration. Archive runs,
services and their children share only the table; most updates name a row by its
id and look at nothing else. Runs of the pipeline share a lock file, the sources,
and the authors who edit them meanwhile.

**What is hard.** Who dispatches when a slot becomes free; callers that give up
while they are granted; deadlines of an entry and of its caller that differ; a
timer that fires while the last run works; children that outlive their parents;
lock files left behind; rollbacks of files that others changed.

**What makes each part correct.**

- Agent scheduler: whatever is queued is started by somebody, slots are respected,
  each execution runs once and its result is returned, fresh ones start in order.
- VRAM scheduler: one request is active, nobody is granted twice, late or out of
  turn, the GPU becomes free again.
- Knowledge jobs: a row says that work was done only if it was, no archive is left
  open, no file is extracted by two processes at once, a fault costs one
  extraction at most.
- Pipeline: runs exclude each other, no lock bars the others for ever, a failed run
  leaves none of its repairs, no edit is lost, and a run fails if the gate says so.

### The rest of the repository

`PROJECT.json` lists every part with its status. A planned part names the
files to be modelled; a part that is a Python package is named by its
`__init__.py`. Parts with a concurrent core of their own that are not
modelled yet are the circuit breakers and the backpressure
(`src/motor/platform/resilience.py`), the event buses, and the SQLite writer of
the knowledge engine.

## 2. Plan

Done, in this order:

1. `TaskTypes`, `TaskPool` (abstract), `TaskQueue` (detailed): the queue and its
   refinement.
2. `WorkerPool`: workers, clients and recoverers over `TaskQueue`;
   `WorkerPoolProofs`, about both.
3. `HealthChecker`, `Worktrees`, and `Failover`, which composes the two;
   `WorktreesProofs`; `FailoverProofs`, about the checker and the composition.
4. `ExecutionPool` (abstract), `AgentScheduler` (detailed) and the refinement between
   them; `AgentSchedulerProofs`.
5. `VRAMScheduler`: the queue of futures, callers that give up, boot services;
   `VRAMSchedulerProofs`. `Subsequences` and `SubsequencesProofs` are the lists
   that both schedulers filter.
6. `KnowledgeJobs`: overlapping timer runs, stale recovery, extraction services;
   `KnowledgeJobsProofs`.
7. `Pipeline`: the lock file, the snapshot, the gate; `PipelineProofs`.

Next:

8. `CircuitBreaker` and backpressure: calls that began in an earlier state,
   several half-open calls, permits against the counter.
9. `Auditor` over `TaskQueue`; `WorkStealer` presence and `rebalance()`, over
   `WorkerPool`; `NodeRegistry`; `DistributedLock`; a crash of the failover.

Proofs planned: which places `VRAMScheduler` loses with `LosesGrants`; what holds
of two overlapping archive runs; the type invariants of what step 8 and 9 add, and
the refinement of `DistributedLock` to a lock.

## 3. Models

Definitions marked "Slip:" are not part of the model. Each is the definition
that follows it with a plausible mistake of a programmer, such as a missing
condition; `PROJECT.json` names for every property one slip that violates it.

### TaskTypes, TaskPool, TaskQueue

`TaskTypes` has the statuses, the columns that never change (`NodeOf`,
`Priority`, `MaxRetries`, `Timeout`) and the order of `claim_next()`: priority,
then age, which is the task's number.

`TaskQueue` has one variable per column that changes and a `cursor` per caller.
An operation of one `UPDATE` is one action (`Create`, `Claim`, `Start`,
`Complete`, `Review`, `Heartbeat`, `Pause`, `Resume` with a node). One that
reads first is two: `...Select` puts what it read in the cursor,
`...Write` applies it (`claim_next`, `fail`, `release_pending`,
`park_in_progress`, `release_all_paused`, `recover_stale`, and `resume` without a
node). Both statements are inside the object's lock, except in `resume`, which
reads before it takes the lock: `CanCall` is the guard of the lock.
`Abort` is the end of a call that raises or finds nothing to write; nothing is
written, since `_open_db` rolls back.

`InstanceOf` maps each caller to its `TaskQueue` object. One object for all is
the single-process queue; different objects are processes.

`last_heartbeat` is an age in ticks, capped one past the timeout, `NoBeat` for the
empty string. Ages grow in `Tick`, which stands for `time.time()`.

`TaskPool` is what the queue promises: each operation is one atomic step on
status, owner and retries that changes exactly the rows its query describes.
`TaskQueue!AtomicPool` is the refinement, by the identity on these variables.

### WorkerPool

`WorkerPool` extends `TaskQueue`: a worker is a process with its own object and
three callers, the main loop, the heartbeat thread and the thread in
`stop()`. `pc` is the point of the main loop: `poll`, `claimed`, `starting`,
`running`, `completing`, `failing`, `closing` and, on the way out, `parking`,
`releasing`, `stopped`. Every step that touches the queue is a step of
`TaskQueue` joined with a step of the control.

- `Crash` is SIGTERM, SIGKILL or a power failure: `worker.py` installs no handler.
  The opencode it waits for may live on: then it is in `orphans` until
  `OrphanEnds`, since the timeout of `subprocess.run()` (`worker.py:163`) died with
  the worker.
- `Interrupt` is Ctrl-C, after which `main()` calls `stop()`. Here `subprocess.run()`
  kills its child.
- `Stop` and `StopPause` are `stop()` from another thread: event, end of the
  heartbeat, then `pause()` of `_current_task_id`.
- `Park` and `Release` are `mark_absent()`, that is `WorkStealer.release()`.
- `Raises` is a call that raises `database is locked`.

The agent's name, `worker-<node_id>`, differs from the node's, as in `main()`.

Assumptions: a worker is `Prompt`, that is, it sends a heartbeat, starts what
it claimed and finishes a `stop()` before a heartbeat is `HbPeriod` ticks old,
which is less than any timeout (30 s against 600 s by default). The program's
own claim "no heartbeat means dead" needs this.

### HealthChecker

One probe is `Send`, then `Answered`, `Unanswered` or `Breaks`, without the
lock; `Update` applies the result under the lock. The loop thread and any number
of `Askers` (`check_now()`) do this; `Ready` has the loop's wait and the stop
event. An owner calls `Start` and `Stop`; `JoinReturns` is the end of the join.
The orchestrator is up, `refusing` (an error at once) or `silent` (an error after
`timeout_s`), and `Turn` changes it at any time.

The list of failure times is kept as a tuple: the ages of the last `Threshold`
failures, `Window` for one that was pruned or cleared. `_update_state()`
only asks whether there are `Threshold` of them younger than the window.

`Breaks` is an answer that is not HTTP or not text: the exceptions are none of
those `_probe()` catches, and the loop thread ends.

`quiet` and `streak` are history variables for two properties. `Longest` and
`Silence` are their caps and those of the clocks: beyond them nobody looks.

With `Punctual`, threads that can go on do so before the next tick; without it
they are as slow as they like.

### Worktrees

A caller is a thread in one call (`call`): which operation, at which command, on
which task. Each git or ssh command is a step and so is each assignment under
the manager's lock. `trees` and `branches` are what git keeps. The branch is the
default one, so a task has one branch. `git worktree add -b` fails when the
branch or the directory exists; `GitFails` lets git commands fail for other
reasons and `SyncTimes` lets rsync exceed its timeout, which raises out of
`validate()`. `verdict` is a history variable: the result of the last validation
that finished.

### Failover

`Failover` extends `HealthChecker` and instantiates `Worktrees` as `Trees`, with
the checker's threads and the runners as callers. `Report` is `Update` joined
with the callback `OnHealthChange`: mode, state file, and the beginning of
`cleanup_all()`, whose steps are `Sweeping`; `OutageKeepsTrees` says that it is over
before the next outage. `LocksFree` says that nobody is in the
callback: a thread that wants the state or the mode waits until then. A write of the state
file may raise (`SaveFails`), which skips the rest of the callback. `StopSweeps`
is the `cleanup_all()` of `stop()`. A runner's `ExecuteTask` reads the mode; what follows
takes no lock except where a failed run is stored. In normal mode `execute_task()`
touches no state of the module.

### ExecutionPool, AgentScheduler

`ExecutionPool` is what a caller sees of an execution: new, waiting, running,
reported, then returned by a shutdown or replaced by the agent's next result, or
cancelled while it waited. `AgentScheduler` is the code. `pc` has two threads per
execution, the caller of `submit()` and the one that runs it; both dispatch. The
loop of `_maybe_dispatch()` keeps the lock from its first iteration (`loop`) to
`DispatchEnd`, each iteration ages and pops (`DispatchNext`); `Check` is the look
at `_shutdown` before the lock is taken. `time.time()` is `overdue`, the number of
executions, oldest first, that have waited more than the minute of `age()`.
`ImplementsPool` is the refinement: `PhaseOf` computes the phase of an execution
from the queues, the dictionaries and the threads.

An agent has one entry in `_running` and one in `_results`, so two executions of
one agent overwrite each other's. `Capacity` therefore speaks of agents with one
execution, and `ExecutionPool` lets a result be `replaced`.

### VRAMScheduler

One step is the code between two `await`s. A queue entry is its caller, its age
and whether its future still waits. `Admit` is `acquire()` with enough memory,
`Enqueue` the two that wait, `Serve` one pass of the loop over the queue,
`SyncOk`, `SyncFails`, `SyncExits` and `SyncHangs` the ways nvidia-smi may answer.
`GiveUp` is the timeout of `wait_for()`: it cancels the future and leaves the
entry; with `LosesGrants` it may come in the iteration in which the future was
granted. A streamed answer is sent after the handler returned, that is, after
`Release`. An entry lives for `Life`: the deadline the client asked for, at least
`FlexFloor` (5 s). The handlers of the repository ask for 15 s, so in the run the
floor is not above it; the theorems hold wherever it is, and then an entry outlives
its caller's wait.

The loop's comprehension `[... for ... in self._queue if dl > now]` is
`Pick(queue, InTime)`, the queue at the positions that stay, and `age()` and
`remove()` of the agent scheduler are written with `Pick` too. `SelectSeq` would
say the same, but it is recursive and the provers know nothing of it;
`PickIsSelectSeq` in `MCVRAMScheduler` has TLC compare the two on short lists.

### KnowledgeJobs

A row is its status and, of an archive, the age of `started_at`. A runner is a process in
`process_archive_jobs()`: `Begin` is its first transaction, which also recovers
stale jobs; it then works through what it listed, in any order since the query names
none, marking each job by id. A worker
is an extraction service: `Claim` is one `UPDATE ... RETURNING`, a child process
saves the asset and writes the row in two transactions, the parent waits, times
out or reads the result. `RunnerDies`, `WorkerDies` (whose child lives on), `Stop`,
`Raises` (an exception in the loop of a service) and `Busy` are the faults, with the
children that end before they wrote at most `CrashBound` of them. `archived`,
`saved` and `published` are what was really done. A tick is five minutes; a worker
that waits for its child notices the timeout before the next.

The age of an extraction decides nothing. Its claim names running rows too, with
`started_at < datetime('now', '-900')` (`extraction_service.py:36`, 326, 343); a
modifier without a unit makes `datetime()` return NULL in SQLite, so that the
comparison is never true, and `Claimable` is `pending` only. A row that
a dead or stopped service left running stays so, and its key stays closed. The
archives say `-5 minutes` (`jobs.py:164`) and are recovered.

A service is `Down` until somebody calls `start_worker()`, and again after a stop or a
death. Nothing outside the tests calls it, so no fairness is assumed of `Start`.

### Pipeline

A run is a process that calls `run()` once. The contents of a source are the set of
changes in it: the edits of authors and the repairs of runs. `Look` and `Take`
are the two halves of `_acquire_lock()`, `Degrade` its `OSError`; then one action
per phase, `Verdict` with the gate and the rollback, and `Finish`. The phases that
only judge are one, `Checks`, and a warning counts as OK: it changes neither the
verdict nor any file. `Raise` is a phase that raises, after which the `finally` releases
the lock and nothing is rolled back; `Kill` is the end of the process in the middle
of a run, `Exit` the end of one that finished and left its lock. `Faults`
says which of these happen. What a tool finds is a choice among the statuses its
phase can return. `calm` remembers the edits made while no run was at work.

The lock file is of a run, of nobody (there is none) or `Blank`: `open()` has made it
and the write has failed, or the process died in between. `Unfinished` says what a
failing or dying `_acquire_lock()` may leave, `Released` that an `unlink()` which
fails leaves the file (`runner.py:277`). Of an empty lock there is no process that
could be dead, and the lock of a daemon that failed to remove it is of a live one:
both bar the others until they are old (`Age`). `unruly` is history: two runs
were between reading and writing the lock at once, or the lock of a run at work
grew old. Nothing in the code prevents either.

## 4. Runs

| Run | Shows | Bounds |
|---|---|---|
| `task_queue_shared` | With one object every property of the queue holds, the refinement of `TaskPool` included. | 2 threads, 2 tasks, 2 agents, 1 node |
| `worker_pool_safety` | No two workers run a task, a runner holds its task, results are kept. | 2 workers, 1 client, 1 recoverer, 1 task, 2 exits, 2 errors |
| `worker_pool_live` | As deployed, without a recoverer: a fault costs one task at most, orphans are alone. | 2 workers, 2 tasks, 1 client that also resumes, 1 exit, one error in any call |
| `failover_shared` | Counters and mode stay consistent whatever fails; a cleanup does not reach into the next outage. | loop, asker, owner, runner, 1 task; `Threshold` 2, `Recovery` 1 |
| `failover_loop` | The anti-flapping rules, taking over, recovery, with writes that may fail. | defaults of the code, one tick = 5 s |
| `worktrees_shared` | One creator, no orphan, nobody left cleaning. | 2 callers, 2 tasks |
| `agent_scheduler` | No wakeup is lost, slots are kept, fresh executions start in order, the pool is implemented. | 4 executions of 3 agents, 2 submitting threads, 1 slot, 1 shutdown |
| `vram` | One request at a time, places and turns are kept, the GPU is free again. | 2 requests, 1 boot service, 2 units of memory |
| `jobs_archive` | What says completed was archived; no archive stays open. | 2 runs, 3 jobs, 2 of them of one directory, 1 fault |
| `jobs_extraction` | What says done is stored; no file is extracted twice at once; a fault costs one job at most. | 2 services, 3 jobs, 2 of them for one file, 2 faults |
| `pipeline` | Runs exclude each other unless they meet at the lock, locks give way, rollbacks undo what they should. | a gate for the file, a fix without files, 1 file, 1 edit, every fault |
| `pipeline_gate` | A run whose coverage is under the threshold passes: see section 6. | a gate and a fix, without faults |

**Why the bounds suffice.** A race in the queue has one caller between its two
statements and another that writes; a third adds a caller of the same object.
Two tasks are needed where the order of claims or a set of rows matters.
`MCPriority` and `MCNodeOf` make the two differ in rank and in node. A task fails
at most once (`RetriesCountFailures`), so `RetryBound = 2` cuts nothing off there, and
`3` not in `worker_pool_live`, where a lost update may count twice. `MaxExits = 2` lets
both workers go down, or one twice; in `worker_pool_live` one exit and one error
are two faults for two tasks, and `OrphansAlone` was also checked with one task and
three exits. In the failover, two probers are enough for
results out of order, and the thresholds of `failover_shared` are low so that
DOWN, and the way back, are a few steps away; `failover_loop` has the real ones:
`failure_threshold` 5, `recovery_threshold` 3, a window of 60 s and an interval of
10 s. The outages of `failover_shared` are silent, those of `failover_loop` refuse.

In `agent_scheduler` one slot makes every start wait for an end; two critical and
two normal executions, two of one agent, give the order, the aging and the
overwritten entries something to disagree about, and `AgeBound = 2` ages one of
them past another. In `vram` the second request needs all the memory, so that
both ways into the scheduler happen; `QueueBound = 3` leaves room for the places
of three callers, or for abandoned ones; the ticks keep the order of the code's
deadlines: an entry of a request expires (15 s) before its caller gives up
(16 s), that of a boot service (120 s) after (90 s). `LosesGrants` is on in the run, so the last
conjunct of `OneActive`, which speaks of lost grants, says nothing there; `OneActiveAlways`
proves it. In the jobs an archive is
stale after one tick, so that a slow one is taken for dead, and the child of an
extraction is stopped after one. Two faults let both services go down, or one
fall and its child with it, with a third job left to claim. Two runs of
the pipeline are enough for one to find the lock of the other, of one that ended,
raised or died, empty or kept; they share one file because what `FailedFixesGone` and
`EditsKept` say, they say of each file. The files of a snapshot that
are not those of the tools are in `PipelineBeliefs`, with two.

**Fairness.** `WorkerPool`: weak fairness of each worker's loop, heartbeat thread
and stopping thread (the operating system schedules threads; `subprocess.run()`
has a timeout; launchd, systemd or `ura-worker-watchdog.sh` starts a worker again) and of
time. Clients, failures and recoverers are not fair: nothing in the repository calls
`recover_stale()` again and again. `HealthChecker`:
the owner eventually calls `start()`, the loop thread is scheduled, time passes.
`Failover` adds that the commands of a cleanup end. Nothing is assumed of git's or the
orchestrator's success. `VRAMScheduler`: the event loop runs what is ready and
upstream requests end; nothing is assumed of clients, nor that nvidia-smi ends.
`KnowledgeJobs`: the timer fires for ever, started services run and time passes;
nobody need start a service, and children need not do anything. The timer is the
5-minute one the documentation names; `deploy/` has no unit for it. `Pipeline`: a run
that has started goes on, because every tool it calls has a time limit, and time
passes; no run need start. `AgentScheduler` is checked for safety only.

Deadlock is not checked in the runs of `WorkerPool`, which stop when every task is settled and no
exit is left, of `AgentScheduler`, which stops when everything is returned, and of
`Pipeline`, whose runs end; it is checked in all others.

**What is excluded.** `worker_pool_safety` excludes a `pause()` that raises: `stop()`
has ended the heartbeat thread before it and swallows the exception
(`worker.py:100`), so the task stays in progress without a heartbeat while opencode still
runs it, and a recoverer gives it to another worker. It also excludes a client
that resumes: a task paused by `stop()` may be resumed while opencode still runs
it. Both are in `worker_pool_live`. `NoDoubleExecution` compares workers; what an
orphaned opencode does to the next worker is `OrphansAlone`, which a recoverer
breaks: it gives the task of a dead worker, whose heartbeat ended, to another.

### More counterexamples

These configurations are kept beside the runs. Each violates one property:
`tlc -config X.cfg M`. Where a comment in the file lists several, the table has a
line for each; the comment says what to put in the place of the property.

| Configuration | Module | Property | Trace |
|---|---|---|---|
| `TaskQueueRecoverRace` | `MCTaskQueue` | `RecoverOnlyStale` | `recover_stale()` reads; the worker's process sends a heartbeat; the live task goes back to the queue (`task_queue.py:845`). |
| `TaskQueueReservation` | `MCTaskQueue` | `ReservedForOwner` | `resume()` without a node reads the owner; the task is released, claimed and paused by another; it is resumed for the old one (`task_queue.py:683`). |
| `WorkerPoolStop` | `MCWorkerPool` | `StopPausesOwn` | `start()` fails, `_current_task_id` stays, another worker takes the task, `stop()` pauses it (`worker.py:127`). |
| `WorkerPoolLeftovers` | `MCWorkerPool` | `StoppedHoldsNothing` | Claims carry the agent's name, releases look for the node's (`worker.py:116`). |
| `HealthRestart` | `HealthChecker` | `StartedRuns` | `stop()` gives up its join during a probe; `start()` finds the thread alive and returns; the thread exits (`failover.py:202`). |
| `WorktreesRetry` | `MCWorktrees` | `CreateSucceeds` | A second `create()` removes the directory, but not the branch, and fails (`failover.py:475`). |
| `FailoverReturn` | `Failover` | `RecoveryNeeded` | DOWN, an answer, a failure (DEGRADED), an answer: HEALTHY after one answer (`failover.py:163`). |
| `FailoverSweep` | `Failover` | `RunsIsolated` | The outage ends while a task runs: its worktree is removed (`failover.py:755`). |
| `JobsStuck` | `MCKnowledgeJobs` | `AllSettle` | A service dies with a job claimed: nobody claims a running row again (`extraction_service.py:36`). |
| `TaskQueueLostDone`, `WorkerPoolStuck`, `FailoverReturn`, `HealthSilent`, `WorktreesMerge` | | | Section 6. |
| `AgentSchedulerClose` | `MCAgentScheduler` | `QuietAfterShutdown` | A thread reads `_shutdown`, `shutdown()` returns the results, the thread starts an execution (`scheduler.py:178`). |
| `AgentSchedulerClose` | `MCAgentScheduler` | `FifoByPriority` | An execution ages to a lower level, a later one of its priority starts first (`scheduler.py:80`). |
| `VRAMBeliefs` | `MCVRAMScheduler` | `OneOnGpu` | A request streams its answer after its release, another is admitted (`mochila_server.py:707`). |
| `VRAMBeliefs` | `MCVRAMScheduler` | `HeadWaits` | A boot client gives up and tries again: its abandoned entry is at the head (`vram_scheduler.py:205`). |
| `VRAMBeliefs` | `MCVRAMScheduler` | `AlwaysFreeAgain` | The timeout comes with the grant: nobody releases (`vram_scheduler.py:209`). |
| `VRAMBeliefs` | `MCVRAMScheduler` | `AlwaysLeave` | nvidia-smi hangs in `communicate()`: the loop stops, nothing expires (`vram_scheduler.py:98`). |
| `JobsBeliefs` | `MCKnowledgeJobs` | `OneArchive` | Two runs list a job; both mark and archive it (`jobs.py:137`). |
| `JobsBeliefs` | `MCKnowledgeJobs` | `EndsOnce` | A run marks a job running that another completed (`jobs.py:140`). |
| `JobsLateTimeout` | `MCKnowledgeJobs` | `EndsOnce` | A child writes done while its parent times out; the parent marks it failed (`extraction_service.py:375`). |
| `PipelineBeliefs` | `MCPipeline` | `CommitsPassed` | Tests fail, the commit phase commits, the verdict is FAIL (`runner.py:968`). |
| `PipelineBeliefs` | `MCPipeline` | `EditsNeverLost` | An author edits a file after the snapshot; the rollback takes the edit away (`runner.py:988`). |
| `PipelineBeliefs` | `MCPipeline` | `NothingLeft` | Without files ruff repairs the whole tree, the snapshot has the changed files only (`runner.py:343`). |
| `PipelineBeliefs` | `MCPipeline` | `NoOverlap` | With `race`: two runs see no lock and both write one. With `slow`: a run outlasts the timeout (`runner.py:247`). |

## 5. Proofs

### Queue and workers

`WorkerPoolProofs` first proves of the queue, for any number of callers, objects,
tasks, agents and nodes, from the assumptions `TaskAssumption` and
`QueueAssumption` on the constants:

| Theorem | Objects |
|---|---|
| `TypeCorrect`: `[]TypeOK` | any |
| `ConsistentAlways`: `[]QueueConsistent` | any |
| `HandOverAlways`: `HandOver` | any |
| `LockProtectsAlways`: `[]LockProtects` | one |
| `OperationsAtomicAlways`: `OperationsAtomic` | one |
| `ImplementsPool`: `AtomicPool`, the refinement | one |
| `DoneIsFinalAlways`, `RetriesCounted`, `RecoverOnlyStaleAlways` | one |

"One" is the assumption `SharedInstance`, that all callers use the same object. The
counterexamples `TaskQueueLostDone`, `TaskQueueRecoverRace` and
`TaskQueueReservation` show that it is needed.

*Argument.* `TypeOK` and `QueueConsistent` are inductive: each action moves the
status and the owner of a row together. `HandOver` follows step by step: an owner
is replaced by another only where the row was claimable or
paused. For one object the key is `LockProtects`: at most one caller is between
its two statements, and what its cursor holds is still what it would read
(`CursorFresh`), because whoever could change it needs the lock. Without this
strengthening neither atomicity nor any of the last four results is inductive,
since they depend on what was read a step before. Given `LockProtects`, each
`...Write` is the atomic step of `TaskPool`, the others are so by
themselves, and a step that only reads is a stutter: this is `ImplementsPool`.
`DoneIsFinal` and `RetriesCountFailures` are properties of the pool's steps, carried
over by the refinement.

Of the workers, each with an object of its own, it proves, from `PoolAssumption`:

| Theorem | Further assumption |
|---|---|
| `PoolUsesQueue`: `PoolSpec => Spec`, the pool's steps are the queue's | none |
| `PoolTypeCorrect`: `[]PoolTypeOK` | none |
| `NoDoubleExecutionAlways`: `[]NoDoubleExecution` | `Careful` |
| `RunningHeldAlways`: `[]RunningHeld` | `Careful` |
| `WorkIsKeptAlways`: `WorkIsKept` | `Careful` |
| `OrphansAloneAlways`: `[]OrphansAlone` | `Careful`, `Recoverers = {}` |

`Careful` is what the code needs to keep a task with its worker, and each conjunct has
a reason: clients do not resume (a task paused by `stop()` may still be running),
`pause()` does not raise (`stop()` has ended the heartbeat by then), a heartbeat is
due before any task is stale, at most one recoverer works (two of them race, as
`TaskQueueRecoverRace` shows), and no node has the name of an agent (then
releases never touch a claimed row). Nothing else is excluded: crashes, stops,
interrupts, restarts and calls that raise all happen. `worker_pool_safety`
satisfies `Careful`; so does the program as it is deployed, where nobody resumes and no
recoverer runs, as long as no `pause()` raises. That workers are `Prompt`
(section 3) is part of the model.

*Argument.* `NoDoubleExecution` speaks of runs, the danger is in rows. The inductive
invariant `PoolInv` says of each worker that, from its claim to the end of its run,
the row is in its name with a status that fits, is younger than `HbPeriod` unless
paused, and is watched by the heartbeat thread or by the `stop()` that ended it
(`HoldsTask`, `Watches`); and that a claim about to be written or a failure
about to be stored is its own (`CursorOf`). `Exclusive` says that two workers never hold the
same task in that sense, `RecoveryOk` that a recoverer between its two statements
has no such task in its cursor. A tick keeps the ages because the workers are
`Prompt` (`TickInv`); a young row is not stale (`NotStale`), so recovery reads no row of a
worker; and a claim takes only rows on offer, which nobody runs (`Engages`). TLC
checked `PoolInv` on `worker_pool_safety` before it was proved.

`WorkIsKept` says where a run that ended well may end: in a done task, unless the task
was paused, `complete()` raised, or the process died before the call. That
`complete()` finds its task is what `PoolInv` shows. `OrphansAlone` needs
`OrphansOut`: the task of an orphan is neither on offer nor in the hands of a worker. Its
row was the dead worker's; nobody releases what carries an agent's name, and
without a recoverer or a client that resumes nothing else leads back to the pool.

### Failover

`FailoverProofs` proves of the checker and the failover, for any number of threads
and tasks, any thresholds and any timing, from `HealthAssumption` and
`FailoverAssumption`:

| Theorem | Specification | Further assumption |
|---|---|---|
| `HealthTyped`: `[]HealthTypeOK` | `Spec` of `HealthChecker` | none |
| `CountersAlwaysAgree`: `[]CountersAgree` | `Spec` | none |
| `RecoveryIsEarned`: `EarnedRecovery` | `Spec` | `Askers = {}` |
| `LoopIsSlowToDown`: `SlowToDown` | `Spec` | `Askers = {}`, `~Stops` |
| `FailoverCountersAgree`: `[]CountersAgree` | `FailoverSpec` | none |
| `FailoverRecoveryIsEarned`: `EarnedRecovery` | `FailoverSpec` | `Askers = {}` |
| `FailoverIsSlowToDown`: `SlowToDown` | `FailoverSpec` | `Askers = {}`, `~Stops` |
| `DownIsAutonomousAlways`: `[]DownIsAutonomous` | `FailoverSpec` | none |
| `FailoverUsesWorktrees`: `Trees!Spec` | `FailoverSpec` | none |
| `OutageKeepsTreesAlways`: `OutageKeepsTrees` | `FailoverSpec` | none |

*Argument.* `HealthTypeOK` and `CountersAgree` are inductive together: the order of
the failures needs their bounds. `EarnedRecovery` is not inductive by itself. Its
strengthening `RecoveriesEarned` says that every recovery counted is an answer of
the current streak and that an answer not yet applied is one more; while a failure
is not yet applied it says nothing. With a second prober an old answer may be
applied after a newer failure, hence `Askers = {}`.

`SlowToDown` needs an invariant of ages, `SlowInv`. `Spaced`: the k-th failure on record
is at least `(k - 1) * Interval` older than the first, and the first is an interval
old already or the loop still waits since then. `SilentSince`: unless an answer waits to
be applied, the silence is as long as the oldest failure on record. So the failure that fills the
list finds one that is `(Threshold - 1) * Interval` old, and a silence as long. The
loop must be the only prober, and nobody may stop it: a loop that is stopped and
started again probes at once, and failures come as fast as the owner restarts it.

The failover adds to the checker only steps that set timers back
(`StepsOfTheChecker`), so the results carry over. `DownIsAutonomous` needs only that
the mode is one of two: the callback runs in the same step, under the checker's
lock, as the change of state. What the failover does to worktrees is what
`Worktrees` allows (`FailoverUsesWorktrees`, one case per action). `OutageKeepsTrees` rests on
`NoSweep`: while the orchestrator is DOWN no prober is in a cleanup, because it sweeps in the
callback, with the lock a report needs.

`WorktreesProofs` proves, without any assumption, for any number of callers and
tasks, whatever commands fail:

| Theorem | Invariant |
|---|---|
| `TreesTypeCorrect`: `[]TreesTypeOK` | `TreesTyped` |
| `NoOrphanAlways`: `[]NoOrphan` | `TreesInv` |
| `OneCreatorAlways`: `[]OneCreator` | `TreesInv` |
| `QuiescentAlways`: `[]Quiescent` | `CleaningOwned` |

*Argument.* The manager has no lock around `create()`: git's refusal of an existing
branch is what keeps two callers apart. `BranchMade` says so: whoever is about to
register a worktree has made its branch. Since no step removes a branch, the next
`git worktree add -b` fails. `TreesInv` adds `NoOrphan` and `OneCreator`, which need each
other. For `Quiescent`, `CleaningOwned` says that a worktree marked CLEANING is in the
hands of a caller that will drop it.

### Agent scheduler

`AgentSchedulerProofs` proves, from `SchedulerAssumption` alone, for any number of
executions, agents, threads and callers of `shutdown()`:

| Theorem | Invariant |
|---|---|
| `NoWakeupLost`: `[]NoLostWakeup` | `SchedInv` |
| `CapacityKept`: `[]Capacity` | `SchedInv`, `Room`, `CountedHaveEntries` |
| `SchedTyped`: `[]SchedTypeOK` | `Books` |
| `PoolImplemented`: `ImplementsPool`, the refinement | `Books` |
| `FreshInOrderAlways`: `FreshInOrder` | `Books`, `Order` |

*Argument.* The common invariant `SchedInv` says that an entry of `_running` belongs to
an execution of that agent whose thread has not reported yet. So a full scheduler
has a thread that executes, and it will dispatch when it ends: `DispatchEnd` for
lack of room loses no wakeup, and when the queues are empty there is none to lose.
`NoLostWakeup` is inductive relative to that. For `Capacity` two more conjuncts are
needed: the entries never outnumber `MaxConcurrent` (`Room`), because each iteration
looks again; and an executing thread that `Capacity` counts has its entry
(`CountedHaveEntries`), since neither a cancel nor another execution of its agent
can have removed it. The entries of different agents differ, so there are at least
as many as counted threads.

`PhaseOf` computes the phase of an execution from all the variables, and a step maps to
a step of the pool only if they agree. That is `Books`: an execution is in one queue,
once (`Apart`), pushed once (`PushedOnce`), and queued only between its push and its start
(`QueuedWait`); and a result is of an execution of its agent whose thread has
reported (`ResultsOf`). Then each action is a step of `ExecutionPool` or a stutter:
`SubmitMaps`, `DispatchMaps`, `ReportMaps`, `CancelMaps`, `CollectMaps`; aging moves
executions between queues and maps to a stutter because it loses and repeats none.
`FreshInOrder` needs `Order`: a queued execution is at the level of its priority unless it
is overdue, and fresh ones of a level are in the order of their pushes. Aging appends
behind a level's own, but only what is overdue, of which the order says nothing.

### VRAM scheduler

`VRAMSchedulerProofs` proves, from `VRAMAssumption` alone, for any callers, needs,
memory and lengths of the queue, and with every way nvidia-smi may fail:

| Theorem | Invariant |
|---|---|
| `VramTypeCorrect`: `[]VramTypeOK` | itself |
| `OneActiveAlways`: `[]OneActive` | `VramTypeOK` |
| `KeepsPlaceAlways`: `[]KeepsPlace` | `Places` |
| `GrantsInOrderAlways`: `GrantsInOrder` | `Places` |

*Argument.* `KeepsPlace` compares the wait of a caller with its deadline, the code
compares the age of a place with its own; the two agree because a live place is as
old as its caller's wait, which `KeepsPlace` does not say and `Places` does. The
turn of the loop is one lemma, `ServeMoves`: the places in time stay in their order,
and only the first may leave, whose caller is then granted. So a
place in time is never lost, and nobody passes an earlier one that is in time.

Both schedulers rest on `SubsequencesProofs`: `Nth(I, k)` enumerates a set of positions
in order (`NthOrder`), hence `Pick(s, I)` has the elements of `s` at `I`, all of them,
without repetition if `s` has none, and no two in another order (`PickSeq`,
`PickKeeps`); the same of concatenation, `Tail` and `Append`. This is what a
recursive filter would have needed an induction for.

### Pipeline and knowledge jobs

`PipelineProofs` proves, from `PipelineAssumption`, for any number of runs, files and
edits:

| Theorem | Further assumption |
|---|---|
| `PipelineTyped`: `[]PipelineTypeOK` | none |
| `EditsKeptAlways`: `[]EditsKept` | none, every fault included |
| `OneAtATimeAlways`: `[]OneAtATime` | none, every fault included |
| `FailedFixesGoneAlways`: `[]FailedFixesGone` | none, every fault included |

`OneAtATime` is of the form "they overlap only if `unruly`", and `FailedFixesGone`
speaks of behaviours without a run that is `unruly` or without the lock; the faults that lead there
are steps of the model, and `PipelineBeliefs` has the overlap.

*Argument.* `OneAtATime` needs to know how a run got where it is (`Placed`) and is
strengthened to `Exclusive`: unless `unruly`, a run that works with the lock is named by
it and its lock is not old, so that it bars every other; one that is about to write
the lock is alone. A death, a write that fails or a lock left behind touches the lock of
the run it happens to and of no other. `EditsKept` needs that what a run at work copied
includes every calm edit of the file (`CalmCopied`): a calm edit is made while no run
is at work, and a run copies after it starts. `FailedFixesGone` needs that a run
repairs nothing before its copy (`Unmixed`), that nobody copies his own repairs
(`OwnCopies`), and that what has failed is gone from the copies in use as well
(`FailedGone`), since runs with the lock do not overlap.

`KnowledgeJobsProofs` proves, from `JobsAssumption` alone, for any number of jobs,
runners and services, any times and any number of crashes:

| Theorem | Further assumption |
|---|---|
| `JobsTypeCorrect`: `[]JobsTypeOK` | none |
| `ResultsAlwaysReal`: `[]ResultsReal` | none |
| `OneExtractionAlways`: `[]OneExtraction` | none |

*Argument.* `ResultsReal` is strengthened by `AboutToSay`: a runner about to write
completed has archived its job, and a child about to write done has saved its asset.
Since nothing archived or saved is ever taken back, it does not matter who
writes the row in between. `OneExtraction` needs no bound on time, because nothing running
is claimed again. `KeysClosed` says that of the rows of a key one at most is open.
`HandsInv` says of the job of a claim or a child that it is no longer pending
(`JobsTaken`), and in the hands of one service and one child at most (`HadAlone`,
`Parented`, `Childless`); and that its row says running as long as somebody will still
work on it (`WorkRuns`), so that its key is closed to every other job. A child that
timed out is killed before its row fails, which `WorkRuns` needs; an orphan keeps its row
running until it has written.

### Only model-checked

- Liveness: `OneLossPerFault`, `TakesOver`, `ComesBack`, `FreeAgain`, `AllSettle`,
  `OneJobPerCrash` and `LockGivesWay`. The prover does not reason about fairness and
  `ENABLED`.
- That `Pick` is `SelectSeq` (`PickIsSelectSeq`): an induction over the list.
- The counterexamples, by their nature.
- `WorkerPool` without `Careful`, where the safety properties fail or hold only on small
  instances.

The type invariants are theorems and in no run's configuration, except that of
`TaskQueue`; they can be added to any of the configurations.

## 6. What the code does not do

The first disagreement is the run `pipeline_gate`. The next six are configurations
beside the runs; the property of each states what a comment or a docstring says.

- **A run under the threshold passes** (`pipeline_gate`, `GateHolds`). `run()` asks the
  quality gate, and `_finish()` reads the coverage afterwards, so the gate sees none,
  which it takes for no data. "Cobertura: el reporte del runner la incluye a nivel
  raiz" (`src/scripts/pro/quality_gate.py:79`) and "Quality Gate: si REJECTED,
  el verdict baja a FAIL (antes del rollback)" (`runner.py:982`).
- **A done task may become failed** (`TaskQueueLostDone`, `DoneIsFinal`). `fail()` reads the row and
  writes it without a condition on its status. "Read within same lock to prevent race
  condition" (`task_queue.py:577`) holds inside one object only.
- **A crash may lose a task for ever** (`WorkerPoolStuck`, `Settles`). "Stale recovery
  automático" (`task_queue.py:5`): nothing outside the tests calls
  `recover_stale()`.
- **The mode may stay autonomous** (`FailoverReturn`, `ReturnsNormal`). DOWN is left through DEGRADED after
  one answer and one failure; the callback looks for DOWN to HEALTHY only. "Cuando
  orquestador responde, retorna a modo normal" (`failover.py:685`).
- **A dead service keeps its job for ever** (`JobsStuck`, `AllSettle`). The interval after which
  a running extraction is claimed again is `"-900"`, "15 min en formato SQL"
  (`extraction_service.py:36`); SQLite reads no unit in it and never claims one. The row
  stays running and its file, whose key it closes, cannot be queued again.
- **A silent host is never DOWN** (`HealthSilent`, `StaysDown`). A probe that times out takes 5 s, the
  loop waits 10 s: four failures in 60 s, never five. "(3 fallos
  consecutivos)" (`failover.py:10`).
- **A rejected task may be merged** (`WorktreesMerge`, `MergeBlocked`). The second validation overwrites
  FAILED and times out. "Bloqueado si validacion fallo" (`failover.py:576`).

Known from reading, without a run: nothing restarts a probing thread that an
unexpected exception ended; the state file is written and never read; nothing outside
the tests calls `start_worker()` of the extraction service, and `stop_worker()` leaves
the row of the child it terminated running; `max_retries` above 1 are never used up, because a failed task never returns to the queue
(`RetriesCountFailures` says so); the status `timeout` is never set. The handler
`admin_acquire_boot_vram()` answers "granted" when `acquire_boot_vram()` returned
False (`mochila_server.py:672-675`). `cancel()` of the agent scheduler frees the slot of
a running execution and dispatches nobody: the slot is used when the next thread
ends or somebody submits. Jobs of type `compile` are read and never inserted. A run
of the pipeline that raises is not rolled back.

## 7. Not modelled

- The schema, its migration and the archive of old rows; the `task_events`
  log; listings and statistics: read-only or run once at start.
- The contents of tasks, errors and outputs; paths; the opencode command.
- Presence and rebalancing of the work stealer, node registry, auditor, distributed lock,
  circuit breakers and backpressure, the compile lock, the crash of a failover:
  planned (section 2).
- The start and stop of the VRAM loop, the list of hot models, the estimate of a
  request's memory; `extract()`, which works without the table; the rollback on request,
  the memories, reports and plugins of the pipeline, and what its tools do to the text.
- The remote executor, dispatch, contracts, telemetry and the API module, which
  keep no state of their own; the API module defines none of the endpoints
  its docstring lists.
- The rest of the platform, which is most of its 2849 files: see the notes in `PROJECT.json`. Most of it
  transforms text, talks to external services or scans the host.
