------------------------------ MODULE Failover -------------------------------
(***************************************************************************)
(* AutonomousFailover of motor/orchestration/failover.py: the health       *)
(* checker's callback changes the mode, stores it in a file and, when the  *)
(* orchestrator is back, removes every worktree; runners execute tasks in  *)
(* worktrees while the mode is autonomous.                                 *)
(*                                                                         *)
(* The callback runs under the checker's lock and takes the failover's;    *)
(* both are held until cleanup_all() is over.  The commands of the runners *)
(* take neither, except to read the mode and to store a failed run.  In    *)
(* normal mode execute_task() touches none of this state.                  *)
(***************************************************************************)
EXTENDS HealthChecker

CONSTANTS
    Runners,     \* threads that call execute_task()
    Jobs, NoJob, GitFails, SyncTimes,
    SaveFails    \* whether atomic_write_json() may raise

ASSUME FailoverAssumption ==
    /\ Runners \cap Timed = {}
    /\ NoJob \notin Jobs
    /\ {GitFails, SyncTimes, SaveFails} \subseteq BOOLEAN

Threads == Timed \cup Runners

VARIABLES
    mode,     \* _mode
    saved,    \* the mode in the state file
    wt, trees, branches, verdict, call

Trees == INSTANCE Worktrees

failoverVars == <<mode, saved>>
treeVars     == <<wt, trees, branches, verdict, call>>
allVars      == <<vars, failoverVars, treeVars>>

FailoverInit ==
    /\ Init /\ Trees!Init
    /\ mode = "normal"
    /\ saved = "normal"   \* as good as no file: nobody reads it

Idle(c) == call[c] = Trees!Free

(* Slip: the callback cleans up after it has released the locks. *)
LocksReleased == TRUE

(* Nobody is in the callback, so both locks are free. *)
LocksFree == \A p \in Probers : Idle(p)

-----------------------------------------------------------------------------
(* _on_health_change(), called by _update_state()                          *)

Save(m) ==
    \/ saved' = m
    \/ SaveFails /\ UNCHANGED saved

(* cleanup_all() of the worktrees there are, if any, by thread c. *)
Sweep(c) ==
    IF Trees!Registered = {} THEN UNCHANGED treeVars ELSE Trees!CleanupAll(c)

EnterAutonomous ==
    /\ mode' = "autonomous"
    /\ Save("autonomous")
    /\ UNCHANGED treeVars

(* An exception in the callback skips the rest: _update_state() logs it. *)
BackToNormal(p) ==
    /\ mode' = "normal"
    /\ \/ saved' = "normal" /\ Sweep(p)
       \/ SaveFails /\ UNCHANGED <<saved, treeVars>>

(* Slip: the mode changes only when the state was HEALTHY before. *)
OnFall(p) ==
    CASE health = "healthy" /\ health' = "down" /\ mode = "normal" -> EnterAutonomous
      [] health = "down" /\ health' = "healthy" /\ mode = "autonomous" -> BackToNormal(p)
      [] OTHER -> UNCHANGED <<failoverVars, treeVars>>

OnHealthChange(p) ==
    CASE health # "down" /\ health' = "down" /\ mode = "normal" -> EnterAutonomous
      [] health = "down" /\ health' = "healthy" /\ mode = "autonomous" -> BackToNormal(p)
      [] OTHER -> UNCHANGED <<failoverVars, treeVars>>

Report(p) ==
    /\ LocksFree
    /\ Update(p)
    /\ OnHealthChange(p)

-----------------------------------------------------------------------------
(* start(), stop(), the probes                                             *)

Apart == UNCHANGED <<failoverVars, treeVars>>

Starts      == Idle("owner") /\ Start /\ Apart
LoopEnds    == Idle("loop") /\ LoopExits /\ Apart
Watching(p) == Idle(p) /\ Probing(p) /\ Apart
TimePasses  == Tick /\ Apart

Health ==
    \/ Starts \/ LoopEnds \/ TimePasses
    \/ Idle("owner") /\ Stop /\ Apart
    \/ \E p \in Probers : Watching(p)
    \/ \E o \in Outages \cup {"up"} : Turn(o) /\ Apart

(* After the join, stop() removes the worktrees, whatever the mode. *)
StopSweeps ==
    /\ JoinReturns
    /\ Sweep("owner")
    /\ UNCHANGED failoverVars

(* The loop's wait begins when its callback is over. *)
Sweeping(c) ==
    /\ \E j \in Jobs : Trees!Cleaning(c, j) \/ Trees!Unlink(c, j) \/ Trees!Cleaned(c, j)
    /\ timer' = [timer EXCEPT ![c] = 0]
    /\ UNCHANGED <<orchestrator, counters, probe, loop, owner, history, failoverVars>>

-----------------------------------------------------------------------------
(* execute_task()                                                          *)

ExecuteTask(r, j) ==
    /\ LocksFree
    /\ mode = "autonomous"
    /\ Trees!Execute(r, j)

Runs(r, j) ==
    \/ Trees!RemoveOld(r, j) \/ Trees!Add(r, j) \/ Trees!AddRaises(r, j)
    \/ Trees!Register(r, j)
    \/ Trees!RunOk(r, j)
    \/ LocksFree /\ Trees!RunFails(r, j)
    \/ Trees!Validating(r, j) \/ Trees!SyncOk(r, j) \/ Trees!SyncRaises(r, j)
    \/ Trees!Rejected(r, j) \/ Trees!Passed(r, j)

Running(r) ==
    /\ \E j \in Jobs : ExecuteTask(r, j) \/ Runs(r, j)
    /\ UNCHANGED <<vars, failoverVars>>

-----------------------------------------------------------------------------
FailoverNext ==
    \/ Health \/ StopSweeps
    \/ \E p \in Probers : Report(p)
    \/ \E c \in Timed : Sweeping(c)
    \/ \E r \in Runners : Running(r)

FailoverSpec == FailoverInit /\ [][FailoverNext]_allVars

(* As for the checker alone; git commands and the callback end. *)
FailoverFairness ==
    /\ WF_allVars(~ started /\ Starts) /\ WF_allVars(LoopEnds) /\ WF_allVars(TimePasses)
    /\ WF_allVars(Watching("loop")) /\ WF_allVars(Report("loop"))
    /\ \A c \in Timed : WF_allVars(Sweeping(c))

FairFailoverSpec == FailoverSpec /\ FailoverFairness

-----------------------------------------------------------------------------
(* Properties.                                                             *)

(* The parts keep their types; mode and file hold a mode. *)
FailoverTypeOK ==
    /\ HealthTypeOK /\ Trees!TreesTypeOK
    /\ {mode, saved} \subseteq {"normal", "autonomous"}

(***************************************************************************)
(* While the orchestrator is DOWN the mode is autonomous, whoever probes   *)
(* and whatever fails.                                                     *)
(***************************************************************************)
DownIsAutonomous == health = "down" => mode = "autonomous"

(***************************************************************************)
(* A task that runs or is validated during an outage has its worktree:     *)
(* the cleanup at the end of the outage does not take it away.             *)
(***************************************************************************)
RunsIsolated == Trees!Isolated

(***************************************************************************)
(* While the orchestrator is DOWN a worktree disappears only by stop() or  *)
(* by executing its task again: the cleanup at the end of an outage is     *)
(* over before the next outage begins, however slow its git commands are   *)
(* and whoever probes meanwhile.                                           *)
(***************************************************************************)
OutageKeepsTrees ==
    [][health = "down" =>
         \A j \in trees \ trees' :
            call["owner"].job = j \/ \E r \in Runners : Trees!At(r, "remove", j)]_allVars

(***************************************************************************)
(* After an outage, HEALTHY takes Recovery answered probes in a row.       *)
(***************************************************************************)
RecoveryNeeded ==
    [][mode = "autonomous" /\ health # "healthy" /\ health' = "healthy"
         => streak >= Recovery]_allVars

(***************************************************************************)
(* The mode becomes autonomous for good when the orchestrator is gone for  *)
(* good, and normal for good when it is back for good.                     *)
(***************************************************************************)
TakesOver     == <>[](orchestrator # "up") => <>[](mode = "autonomous")
ReturnsNormal == <>[](orchestrator = "up") => <>[](mode = "normal")
=============================================================================
