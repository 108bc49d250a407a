------------------------------ MODULE Worktrees ------------------------------
(***************************************************************************)
(* WorktreeManager of motor/orchestration/failover.py, and the part of     *)
(* AutonomousFailover.execute_task() that runs a task in a worktree.  Each *)
(* caller is a thread; the manager's lock covers single assignments only,  *)
(* so the git and ssh commands of different callers interleave freely.     *)
(*                                                                         *)
(* The repository is what git keeps: the directories of the worktrees and  *)
(* the branches, one per task; texts, paths and contents are left out.     *)
(***************************************************************************)
CONSTANTS
    Jobs, NoJob, \* task ids
    Threads,    \* callers
    GitFails,   \* whether git commands may fail without a cause in the model
    SyncTimes   \* whether rsync may pass its timeout, which raises

ASSUME TreesAssumption == NoJob \notin Jobs /\ {GitFails, SyncTimes} \subseteq BOOLEAN

VARIABLES
    wt,         \* _worktrees: the state of each Worktree, "none" if not registered
    trees,      \* tasks whose worktree directory exists
    branches,   \* tasks whose branch exists
    verdict,    \* history: outcome of the last validation of each task
    call        \* what each caller is doing

disk      == <<trees, branches>>
treesVars == <<wt, disk, verdict, call>>

Free == [op |-> "none", step |-> "none", job |-> NoJob, todo |-> {}]

Registered == {j \in Jobs : wt[j] # "none"}

Init ==
    /\ wt = [j \in Jobs |-> "none"]
    /\ trees = {}
    /\ branches = {}
    /\ verdict = [j \in Jobs |-> "none"]
    /\ call = [c \in Threads |-> Free]

(* c calls op on task j, or on the tasks todo, and begins at step. *)
Enter(c, op, step, j, todo) ==
    /\ call[c] = Free
    /\ call' = [call EXCEPT ![c] = [op |-> op, step |-> step, job |-> j, todo |-> todo]]
    /\ UNCHANGED <<wt, disk, verdict>>

At(c, step, j)  == call[c].step = step /\ call[c].job = j
Step(c, step)   == call' = [call EXCEPT ![c].step = step]
Return(c)       == call' = [call EXCEPT ![c] = Free]
Mark(j, state)  == wt' = [wt EXCEPT ![j] = state]
Judge(j, v)     == verdict' = [verdict EXCEPT ![j] = v]

-----------------------------------------------------------------------------
(* create()                                                                *)

Create(c, j)  == Enter(c, "create", "remove", j, {})
Execute(c, j) == Enter(c, "execute", "remove", j, {})

(* A directory left from before is removed; the result is not looked at. *)
RemoveOld(c, j) ==
    /\ At(c, "remove", j)
    /\ \/ trees' = trees \ {j}
       \/ GitFails /\ UNCHANGED trees
    /\ Step(c, "add")
    /\ UNCHANGED <<wt, branches, verdict>>

(* Slip: git worktree add -B, which takes over a branch that exists. *)
AddReset(c, j) ==
    /\ At(c, "add", j)
    /\ j \notin trees
    /\ trees' = trees \cup {j}
    /\ branches' = branches \cup {j}
    /\ Step(c, "register")
    /\ UNCHANGED <<wt, verdict>>

(* git worktree add -b: neither the branch nor the directory may exist. *)
Add(c, j) ==
    /\ At(c, "add", j)
    /\ j \notin branches \cup trees
    /\ trees' = trees \cup {j}
    /\ branches' = branches \cup {j}
    /\ Step(c, "register")
    /\ UNCHANGED <<wt, verdict>>

AddRaises(c, j) ==
    /\ At(c, "add", j)
    /\ GitFails \/ j \in branches \cup trees
    /\ Return(c)
    /\ UNCHANGED <<wt, disk, verdict>>

Register(c, j) ==
    /\ At(c, "register", j)
    /\ Mark(j, "active")
    /\ IF call[c].op = "execute" THEN Step(c, "run") ELSE Return(c)
    /\ UNCHANGED <<disk, verdict>>

(* execute_task() runs the command over ssh, then validates. *)
RunOk(c, j) ==
    /\ At(c, "run", j)
    /\ Step(c, "validate")
    /\ UNCHANGED <<wt, disk, verdict>>

RunFails(c, j) ==
    /\ At(c, "run", j)
    /\ Mark(j, "failed")
    /\ Return(c)
    /\ UNCHANGED <<disk, verdict>>

-----------------------------------------------------------------------------
(* validate()                                                              *)

Validate(c, j) == j \in Registered /\ Enter(c, "validate", "validate", j, {})

Validating(c, j) ==
    /\ At(c, "validate", j)
    /\ Mark(j, "validating")
    /\ Step(c, "sync")
    /\ UNCHANGED <<disk, verdict>>

SyncOk(c, j) ==
    /\ At(c, "sync", j)
    /\ j \in trees
    /\ Step(c, "test")
    /\ UNCHANGED <<wt, disk, verdict>>

(* rsync or pytest fails. *)
Rejected(c, j) ==
    /\ At(c, "sync", j) \/ At(c, "test", j)
    /\ Mark(j, "failed")
    /\ Judge(j, "failed")
    /\ Return(c)
    /\ UNCHANGED disk

(* subprocess.TimeoutExpired: the state stays VALIDATING. *)
SyncRaises(c, j) ==
    /\ SyncTimes
    /\ At(c, "sync", j)
    /\ Return(c)
    /\ UNCHANGED <<wt, disk, verdict>>

Passed(c, j) ==
    /\ At(c, "test", j)
    /\ Mark(j, "active")
    /\ Judge(j, "passed")
    /\ Return(c)
    /\ UNCHANGED disk

-----------------------------------------------------------------------------
(* merge(): the state is read without the lock, then set under it.         *)

Merge(c, j) ==
    /\ j \in Registered
    /\ wt[j] # "failed"
    /\ Enter(c, "merge", "mark", j, {})

Merging(c, j) ==
    /\ At(c, "mark", j)
    /\ Mark(j, "merging")
    /\ Step(c, "merge")
    /\ UNCHANGED <<disk, verdict>>

(* git checkout main fails: the state stays MERGING. *)
CheckoutFails(c, j) ==
    /\ GitFails
    /\ At(c, "merge", j)
    /\ Return(c)
    /\ UNCHANGED <<wt, disk, verdict>>

Merged(c, j) ==
    /\ At(c, "merge", j)
    /\ Mark(j, "done")
    /\ Return(c)
    /\ UNCHANGED <<disk, verdict>>

(* A conflict, or an exception. *)
MergeFails(c, j) ==
    /\ At(c, "merge", j)
    /\ Mark(j, "failed")
    /\ Return(c)
    /\ UNCHANGED <<disk, verdict>>

-----------------------------------------------------------------------------
(* cleanup() of one task, cleanup_all() of those registered when it began. *)

Cleanup(c, j) == j \in Registered /\ Enter(c, "cleanup", "clean", NoJob, {j})
CleanupAll(c) == Registered # {} /\ Enter(c, "cleanup_all", "clean", NoJob, Registered)

Cleaning(c, j) ==
    /\ At(c, "clean", NoJob) /\ j \in call[c].todo
    /\ Mark(j, "cleaning")
    /\ call' = [call EXCEPT ![c].step = "unlink", ![c].job = j, ![c].todo = @ \ {j}]
    /\ UNCHANGED <<disk, verdict>>

(* Slip: a failed git worktree remove raises. *)
UnlinkRaises(c, j) ==
    /\ At(c, "unlink", j)
    /\ \/ trees' = trees \ {j} /\ Step(c, "cleaned")
       \/ GitFails /\ UNCHANGED trees /\ Return(c)
    /\ UNCHANGED <<wt, branches, verdict>>

Unlink(c, j) ==
    /\ At(c, "unlink", j)
    /\ \/ trees' = trees \ {j}
       \/ GitFails /\ UNCHANGED trees
    /\ Step(c, "cleaned")
    /\ UNCHANGED <<wt, branches, verdict>>

(* Slip: the entry is deleted although git may have failed. *)
CleanedForget(c, j) ==
    /\ At(c, "cleaned", j)
    /\ Mark(j, "none")
    /\ call' = [call EXCEPT ![c] =
          IF @.todo = {} THEN Free ELSE [@ EXCEPT !.step = "clean", !.job = NoJob]]
    /\ UNCHANGED <<disk, verdict>>

Cleaned(c, j) ==
    /\ At(c, "cleaned", j)
    /\ Mark(j, "done")
    /\ call' = [call EXCEPT ![c] =
          IF @.todo = {} THEN Free ELSE [@ EXCEPT !.step = "clean", !.job = NoJob]]
    /\ UNCHANGED <<disk, verdict>>

-----------------------------------------------------------------------------
Creating(c, j) ==
    \/ Create(c, j) \/ Execute(c, j)
    \/ RemoveOld(c, j) \/ Add(c, j) \/ AddRaises(c, j) \/ Register(c, j)
    \/ RunOk(c, j) \/ RunFails(c, j)

Checking(c, j) ==
    \/ Validate(c, j) \/ Validating(c, j)
    \/ SyncOk(c, j) \/ SyncRaises(c, j) \/ Rejected(c, j) \/ Passed(c, j)

Joining(c, j) ==
    \/ Merge(c, j) \/ Merging(c, j)
    \/ CheckoutFails(c, j) \/ Merged(c, j) \/ MergeFails(c, j)

Clearing(c, j) ==
    \/ Cleanup(c, j) \/ Cleaning(c, j) \/ Unlink(c, j) \/ Cleaned(c, j)

Next ==
    \E c \in Threads :
       \/ CleanupAll(c)
       \/ \E j \in Jobs :
             Creating(c, j) \/ Checking(c, j) \/ Joining(c, j) \/ Clearing(c, j)

Spec == Init /\ [][Next]_treesVars

-----------------------------------------------------------------------------
(* Properties.                                                             *)

WorktreeState == {"active", "validating", "merging", "cleaning", "done", "failed"}

(* Every registered worktree has a state of the code, every caller a step. *)
TreesTypeOK ==
    /\ wt \in [Jobs -> WorktreeState \cup {"none"}]
    /\ {trees, branches} \subseteq SUBSET Jobs
    /\ verdict \in [Jobs -> {"none", "passed", "failed"}]
    /\ \A c \in Threads : call[c].job \in Jobs \cup {NoJob} /\ call[c].todo \subseteq Jobs

(***************************************************************************)
(* However callers interleave and git fails: a worktree on disk is known   *)
(* to the manager, so that cleanup_all() can remove it, unless the create  *)
(* that made it is about to register it.                                   *)
(***************************************************************************)
NoOrphan ==
    \A j \in trees : j \in Registered \/ \E c \in Threads : At(c, "register", j)

(***************************************************************************)
(* Two callers never both believe they created the worktree of one task.   *)
(***************************************************************************)
OneCreator ==
    \A c, d \in Threads, j \in Jobs : At(c, "register", j) /\ At(d, "register", j) => c = d

(***************************************************************************)
(* When everybody has returned no worktree is left CLEANING, in whatever   *)
(* order the callers overwrote each other's states and whatever failed.    *)
(***************************************************************************)
Quiescent ==
    (\A c \in Threads : call[c] = Free) => \A j \in Jobs : wt[j] # "cleaning"

(* A task is merged only when its last validation did not fail. *)
MergeBlocked == [][\A c \in Threads, j \in Jobs : Merged(c, j) => verdict[j] # "failed"]_treesVars

(* While a task runs or is validated in its worktree, the directory is there. *)
Isolated ==
    \A c \in Threads, j \in Jobs : At(c, "run", j) \/ At(c, "test", j) => j \in trees

(* When git works, create() fails only for a task whose directory is in use. *)
CreateSucceeds == [][\A c \in Threads, j \in Jobs : AddRaises(c, j) => j \in trees]_treesVars
=============================================================================
