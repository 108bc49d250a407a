--------------------------- MODULE WorktreesProofs ---------------------------
(***************************************************************************)
(* What the git and ssh commands of the callers leave behind, for any      *)
(* number of callers and tasks, in whatever order they run and whichever   *)
(* of them fail.                                                           *)
(***************************************************************************)
EXTENDS Worktrees, TLAPS

Ops   == {"none", "create", "execute", "validate", "merge", "cleanup", "cleanup_all"}
Steps == {"none", "remove", "add", "register", "run", "validate", "sync", "test", "mark",
          "merge", "clean", "unlink", "cleaned"}

Calls == [op : Ops, step : Steps, job : Jobs \cup {NoJob}, todo : SUBSET Jobs]

TreesTyped ==
    /\ wt \in [Jobs -> WorktreeState \cup {"none"}]
    /\ trees \subseteq Jobs /\ branches \subseteq Jobs
    /\ verdict \in [Jobs -> {"none", "passed", "failed"}]
    /\ call \in [Threads -> Calls]

(* A caller c that moves on without a change of task. *)
LEMMA StepTyped ==
    ASSUME TreesTyped, NEW c \in Threads, NEW step \in Steps, Step(c, step) \/ Return(c)
    PROVE  call' \in [Threads -> Calls]
<1>1. Free \in Calls
  BY DEF Free, Calls, Ops, Steps
<1>2. [call[c] EXCEPT !.step = step] \in Calls
  BY DEF TreesTyped, Calls
<1> QED
  BY <1>1, <1>2 DEF Step, Return, TreesTyped

LEMMA EnterTyped ==
    ASSUME TreesTyped, NEW c \in Threads, NEW op \in Ops, NEW step \in Steps,
           NEW j \in Jobs \cup {NoJob}, NEW todo \in SUBSET Jobs, Enter(c, op, step, j, todo)
    PROVE  TreesTyped'
BY DEF TreesTyped, Enter, Calls, disk

LEMMA MarkTyped ==
    ASSUME TreesTyped, NEW j \in Jobs, NEW state \in WorktreeState, Mark(j, state)
    PROVE  wt' \in [Jobs -> WorktreeState \cup {"none"}]
BY DEF TreesTyped, Mark

LEMMA TypedStep ==
    ASSUME TreesTyped, [Next]_treesVars
    PROVE  TreesTyped'
<1>1. ASSUME NEW c \in Threads, CleanupAll(c)
      PROVE  TreesTyped'
  <2>1. Registered \in SUBSET Jobs
    BY DEF Registered
  <2> QED
    BY <1>1, <2>1, EnterTyped DEF CleanupAll, Ops, Steps
<1>2. ASSUME NEW c \in Threads, NEW j \in Jobs, Creating(c, j)
      PROVE  TreesTyped'
  <2>1. CASE Create(c, j) \/ Execute(c, j)
    BY <2>1, EnterTyped DEF Create, Execute, Ops, Steps
  <2>2. CASE RemoveOld(c, j) \/ Add(c, j) \/ AddRaises(c, j) \/ RunOk(c, j)
    BY <2>2, StepTyped DEF RemoveOld, Add, AddRaises, RunOk, TreesTyped, disk, Ops, Steps
  <2>3. CASE Register(c, j) \/ RunFails(c, j)
    BY <2>3, StepTyped, MarkTyped DEF Register, RunFails, TreesTyped, disk, WorktreeState, Ops, Steps
  <2> QED
    BY <1>2, <2>1, <2>2, <2>3 DEF Creating
<1>3. ASSUME NEW c \in Threads, NEW j \in Jobs, Checking(c, j)
      PROVE  TreesTyped'
  <2>1. CASE Validate(c, j)
    BY <2>1, EnterTyped DEF Validate, Ops, Steps
  <2>2. CASE SyncOk(c, j) \/ SyncRaises(c, j)
    BY <2>2, StepTyped DEF SyncOk, SyncRaises, TreesTyped, disk, Ops, Steps
  <2>3. CASE Validating(c, j) \/ Rejected(c, j) \/ Passed(c, j)
    <3>1. wt' \in [Jobs -> WorktreeState \cup {"none"}]
      BY <2>3, MarkTyped DEF Validating, Rejected, Passed, WorktreeState
    <3>2. verdict' \in [Jobs -> {"none", "passed", "failed"}]
      BY <2>3 DEF Validating, Rejected, Passed, Judge, TreesTyped
    <3> QED
      BY <2>3, <3>1, <3>2, StepTyped DEF Validating, Rejected, Passed, TreesTyped, disk, Ops, Steps
  <2> QED
    BY <1>3, <2>1, <2>2, <2>3 DEF Checking
<1>4. ASSUME NEW c \in Threads, NEW j \in Jobs, Joining(c, j)
      PROVE  TreesTyped'
  <2>1. CASE Merge(c, j)
    BY <2>1, EnterTyped DEF Merge, Ops, Steps
  <2>2. CASE CheckoutFails(c, j)
    BY <2>2, StepTyped DEF CheckoutFails, TreesTyped, disk, Ops, Steps
  <2>3. CASE Merging(c, j) \/ Merged(c, j) \/ MergeFails(c, j)
    BY <2>3, StepTyped, MarkTyped DEF Merging, Merged, MergeFails, TreesTyped, disk, WorktreeState, Ops, Steps
  <2> QED
    BY <1>4, <2>1, <2>2, <2>3 DEF Joining
<1>5. ASSUME NEW c \in Threads, NEW j \in Jobs, Clearing(c, j)
      PROVE  TreesTyped'
  <2>1. CASE Cleanup(c, j)
    BY <2>1, EnterTyped DEF Cleanup, Ops, Steps
  <2>2. CASE Unlink(c, j)
    BY <2>2, StepTyped DEF Unlink, TreesTyped, Ops, Steps
  <2>3. CASE Cleaning(c, j) \/ Cleaned(c, j)
    <3>1. wt' \in [Jobs -> WorktreeState \cup {"none"}]
      BY <2>3, MarkTyped DEF Cleaning, Cleaned, WorktreeState
    <3>2. call' \in [Threads -> Calls]
      <4>1. call[c] \in Calls /\ Free \in Calls
        BY DEF TreesTyped, Free, Calls, Ops, Steps
      <4>2. CASE Cleaning(c, j)
        <5>1. [call[c] EXCEPT !.step = "unlink", !.job = j, !.todo = @ \ {j}] \in Calls
          BY <4>1 DEF Calls, Steps
        <5> QED
          BY <4>2, <5>1 DEF Cleaning, TreesTyped
      <4>3. CASE Cleaned(c, j)
        <5>1. [call[c] EXCEPT !.step = "clean", !.job = NoJob] \in Calls
          BY <4>1 DEF Calls, Steps
        <5> QED
          BY <4>1, <4>3, <5>1 DEF Cleaned, TreesTyped
      <4> QED
        BY <2>3, <4>2, <4>3
    <3> QED
      BY <2>3, <3>1, <3>2 DEF Cleaning, Cleaned, TreesTyped, disk
  <2> QED
    BY <1>5, <2>1, <2>2, <2>3 DEF Clearing
<1>6. CASE UNCHANGED treesVars
  BY <1>6 DEF treesVars, disk, TreesTyped
<1> QED
  BY <1>1, <1>2, <1>3, <1>4, <1>5, <1>6 DEF Next

(***************************************************************************)
(* States of worktrees, directories, verdicts and callers of Worktrees     *)
(* stay in their domains, whatever fails.                                  *)
(***************************************************************************)
THEOREM TreesTypeCorrect == Spec => []TreesTypeOK
<1>1. Init => TreesTyped
  BY DEF Init, TreesTyped, Free, Calls, Ops, Steps
<1>2. TreesTyped /\ [Next]_treesVars => TreesTyped'
  BY TypedStep
<1>3. TreesTyped => TreesTypeOK
  BY DEF TreesTyped, TreesTypeOK, Calls
<1> QED
  BY <1>1, <1>2, <1>3, PTL DEF Spec
-----------------------------------------------------------------------------
(* What c may do. *)
Acts(c) ==
    \/ CleanupAll(c)
    \/ \E j \in Jobs : Creating(c, j) \/ Checking(c, j) \/ Joining(c, j) \/ Clearing(c, j)

(* A step of one caller leaves the others where they are. *)
LEMMA OthersStay ==
    ASSUME TreesTyped, NEW c \in Threads, Acts(c)
    PROVE  \A d \in Threads \ {c} : call'[d] = call[d]
<1> USE DEF TreesTyped, Enter, Step, Return
<1>1. CASE CleanupAll(c)
  BY <1>1 DEF CleanupAll
<1>2. ASSUME NEW j \in Jobs, Creating(c, j)
      PROVE  \A d \in Threads \ {c} : call'[d] = call[d]
  BY <1>2 DEF Creating, Create, Execute, RemoveOld, Add, AddRaises, Register, RunOk, RunFails
<1>3. ASSUME NEW j \in Jobs, Checking(c, j)
      PROVE  \A d \in Threads \ {c} : call'[d] = call[d]
  BY <1>3 DEF Checking, Validate, Validating, SyncOk, SyncRaises, Rejected, Passed
<1>4. ASSUME NEW j \in Jobs, Joining(c, j)
      PROVE  \A d \in Threads \ {c} : call'[d] = call[d]
  BY <1>4 DEF Joining, Merge, Merging, CheckoutFails, Merged, MergeFails
<1>5. ASSUME NEW j \in Jobs, Clearing(c, j)
      PROVE  \A d \in Threads \ {c} : call'[d] = call[d]
  BY <1>5 DEF Clearing, Cleanup, Cleaning, Unlink, Cleaned
<1> QED
  BY <1>1, <1>2, <1>3, <1>4, <1>5 DEF Acts

(***************************************************************************)
(* Only git worktree add brings a caller to the registration or makes a    *)
(* directory, and it asks that the branch be new.                          *)
(***************************************************************************)
AddsNothing(c) ==
    /\ trees' \subseteq trees /\ branches' = branches
    /\ call'[c].step # "register"

LEMMA AddsOnly ==
    ASSUME TreesTyped, NEW c \in Threads, Acts(c)
    PROVE  AddsNothing(c) \/ \E j \in Jobs : Add(c, j)
<1> USE DEF AddsNothing, TreesTyped, Calls, Enter, Step, Return, Free, disk
<1>1. CASE CleanupAll(c)
  BY <1>1 DEF CleanupAll
<1>2. ASSUME NEW j \in Jobs, Creating(c, j)
      PROVE  AddsNothing(c) \/ Add(c, j)
  BY <1>2 DEF Creating, Create, Execute, RemoveOld, AddRaises, Register, RunOk, RunFails
<1>3. ASSUME NEW j \in Jobs, Checking(c, j)
      PROVE  AddsNothing(c)
  BY <1>3 DEF Checking, Validate, Validating, SyncOk, SyncRaises, Rejected, Passed
<1>4. ASSUME NEW j \in Jobs, Joining(c, j)
      PROVE  AddsNothing(c)
  BY <1>4 DEF Joining, Merge, Merging, CheckoutFails, Merged, MergeFails
<1>5. ASSUME NEW j \in Jobs, Clearing(c, j)
      PROVE  AddsNothing(c)
  <2>1. CASE Cleaned(c, j)
    BY <2>1 DEF Cleaned
  <2> QED
    BY <1>5, <2>1 DEF Clearing, Cleanup, Cleaning, Unlink
<1> QED
  BY <1>1, <1>2, <1>3, <1>4, <1>5 DEF Acts

(***************************************************************************)
(* No worktree is forgotten, and a caller leaves the registration only by  *)
(* registering.                                                            *)
(***************************************************************************)
LEMMA KnownStays ==
    ASSUME TreesTyped, NEW c \in Threads, Acts(c)
    PROVE  /\ Registered \subseteq Registered'
           /\ \A j \in Jobs : At(c, "register", j) => j \in Registered'
<1> USE DEF TreesTyped, Registered, WorktreeState, Mark, At, Enter, Free, disk
<1>1. CASE CleanupAll(c)
  BY <1>1 DEF CleanupAll
<1>2. ASSUME NEW j \in Jobs, Creating(c, j)
      PROVE  /\ Registered \subseteq Registered'
             /\ \A i \in Jobs : At(c, "register", i) => i \in Registered'
  BY <1>2 DEF Creating, Create, Execute, RemoveOld, Add, AddRaises, Register, RunOk, RunFails
<1>3. ASSUME NEW j \in Jobs, Checking(c, j)
      PROVE  /\ Registered \subseteq Registered'
             /\ \A i \in Jobs : At(c, "register", i) => i \in Registered'
  BY <1>3 DEF Checking, Validate, Validating, SyncOk, SyncRaises, Rejected, Passed
<1>4. ASSUME NEW j \in Jobs, Joining(c, j)
      PROVE  /\ Registered \subseteq Registered'
             /\ \A i \in Jobs : At(c, "register", i) => i \in Registered'
  BY <1>4 DEF Joining, Merge, Merging, CheckoutFails, Merged, MergeFails
<1>5. ASSUME NEW j \in Jobs, Clearing(c, j)
      PROVE  /\ Registered \subseteq Registered'
             /\ \A i \in Jobs : At(c, "register", i) => i \in Registered'
  BY <1>5 DEF Clearing, Cleanup, Cleaning, Unlink, Cleaned
<1> QED
  BY <1>1, <1>2, <1>3, <1>4, <1>5 DEF Acts

(***************************************************************************)
(* A caller about to register a worktree has made its branch.  Since no    *)
(* branch is ever removed, nobody else can make it once more.              *)
(***************************************************************************)
BranchMade == \A c \in Threads, j \in Jobs : At(c, "register", j) => j \in branches

TreesInv == TreesTyped /\ BranchMade /\ OneCreator /\ NoOrphan

LEMMA TreesInvStep ==
    ASSUME TreesInv, [Next]_treesVars
    PROVE  TreesInv'
<1> USE DEF TreesInv
<1>1. TreesTyped'
  BY TypedStep
<1>2. ASSUME NEW c \in Threads, Acts(c)
      PROVE  BranchMade' /\ OneCreator' /\ NoOrphan'
  <2>1. \A d \in Threads \ {c} : call'[d] = call[d]
    BY <1>2, OthersStay
  <2>2. /\ Registered \subseteq Registered'
        /\ \A j \in Jobs : At(c, "register", j) => j \in Registered'
    BY <1>2, KnownStays
  <2>3. CASE AddsNothing(c)
    BY <2>1, <2>2, <2>3 DEF AddsNothing, BranchMade, OneCreator, NoOrphan, At, TreesTyped
  <2>4. ASSUME NEW j \in Jobs, Add(c, j)
        PROVE  BranchMade' /\ OneCreator' /\ NoOrphan'
    <3>1. /\ j \notin branches
          /\ branches' = branches \cup {j} /\ trees' = trees \cup {j}
          /\ call'[c].step = "register" /\ call'[c].job = j
      BY <2>4 DEF Add, At, Step, TreesTyped, Calls
    <3>2. \A d \in Threads \ {c} : ~At(d, "register", j)'
      BY <2>1, <3>1 DEF BranchMade, At
    <3>3. BranchMade' /\ OneCreator'
      BY <2>1, <3>1, <3>2 DEF BranchMade, OneCreator, At
    <3>4. ASSUME NEW i \in trees'
          PROVE  i \in Registered' \/ \E d \in Threads : At(d, "register", i)'
      <4>1. CASE i = j
        BY <3>1, <4>1 DEF At
      <4>2. CASE i # j
        <5>1. i \in trees /\ i \in Jobs
          BY <3>1, <4>2 DEF TreesTyped
        <5> QED
          BY <2>1, <2>2, <5>1 DEF NoOrphan, At
      <4> QED
        BY <4>1, <4>2
    <3>5. NoOrphan'
      BY <3>4 DEF NoOrphan
    <3> QED
      BY <3>3, <3>5
  <2> QED
    BY <1>2, <2>3, <2>4, AddsOnly
<1>3. CASE UNCHANGED treesVars
  <2>1. UNCHANGED <<wt, trees, branches, call>>
    BY <1>3 DEF treesVars, disk
  <2>2. BranchMade' /\ OneCreator'
    BY <2>1 DEF BranchMade, OneCreator, At
  <2>3. Registered' = Registered
    BY <2>1 DEF Registered
  <2>4. NoOrphan'
    BY <2>1, <2>3 DEF NoOrphan, At
  <2> QED
    BY <1>1, <2>2, <2>4
<1> QED
  BY <1>1, <1>2, <1>3 DEF Next, Acts

LEMMA TreesInvFirst ==
    ASSUME Init
    PROVE  TreesInv
BY DEF Init, TreesInv, TreesTyped, Free, Calls, Ops, Steps, BranchMade, OneCreator, NoOrphan, At

(***************************************************************************)
(* create() and execute_task() from any number of threads: a directory on  *)
(* disk is always known to the manager or about to be, whatever git does.  *)
(***************************************************************************)
THEOREM NoOrphanAlways == Spec => []NoOrphan
<1>1. TreesInv => NoOrphan
  BY DEF TreesInv
<1> QED
  BY <1>1, TreesInvFirst, TreesInvStep, PTL DEF Spec

(***************************************************************************)
(* create(): two threads never both register a worktree they made for the  *)
(* same task, though the manager's lock is not held during git.            *)
(***************************************************************************)
THEOREM OneCreatorAlways == Spec => []OneCreator
<1>1. TreesInv => OneCreator
  BY DEF TreesInv
<1> QED
  BY <1>1, TreesInvFirst, TreesInvStep, PTL DEF Spec

-----------------------------------------------------------------------------
(***************************************************************************)
(* A state CLEANING is that of a cleanup under way, which will overwrite   *)
(* it, whoever else does before.                                           *)
(***************************************************************************)
CleaningOwned ==
    \A j \in Jobs : wt[j] = "cleaning" =>
        \E c \in Threads : At(c, "unlink", j) \/ At(c, "cleaned", j)

(* The cleanup of j by c goes on, or it leaves another state. *)
LEMMA CleanupGoesOn ==
    ASSUME TreesTyped, NEW c \in Threads, Acts(c), NEW j \in Jobs, wt'[j] = "cleaning",
           \/ At(c, "unlink", j) \/ At(c, "cleaned", j)
           \/ wt[j] # "cleaning"
    PROVE  (At(c, "unlink", j) \/ At(c, "cleaned", j))'
<1> USE DEF TreesTyped, Calls, At, Enter, Step, Return, Free, Mark, disk
<1>1. CASE CleanupAll(c)
  BY <1>1 DEF CleanupAll
<1>2. ASSUME NEW i \in Jobs, Creating(c, i)
      PROVE  FALSE
  BY <1>2 DEF Creating, Create, Execute, RemoveOld, Add, AddRaises, Register, RunOk, RunFails
<1>3. ASSUME NEW i \in Jobs, Checking(c, i)
      PROVE  FALSE
  BY <1>3 DEF Checking, Validate, Validating, SyncOk, SyncRaises, Rejected, Passed
<1>4. ASSUME NEW i \in Jobs, Joining(c, i)
      PROVE  FALSE
  BY <1>4 DEF Joining, Merge, Merging, CheckoutFails, Merged, MergeFails
<1>5. ASSUME NEW i \in Jobs, Clearing(c, i)
      PROVE  (At(c, "unlink", j) \/ At(c, "cleaned", j))'
  BY <1>5 DEF Clearing, Cleanup, Cleaning, Unlink, Cleaned
<1> QED
  BY <1>1, <1>2, <1>3, <1>4, <1>5 DEF Acts

LEMMA CleaningOwnedStep ==
    ASSUME TreesTyped, CleaningOwned, [Next]_treesVars
    PROVE  CleaningOwned'
<1>1. ASSUME NEW c \in Threads, Acts(c)
      PROVE  CleaningOwned'
  BY <1>1, OthersStay, CleanupGoesOn DEF CleaningOwned, At
<1>2. CASE UNCHANGED treesVars
  BY <1>2 DEF treesVars, CleaningOwned, At
<1> QED
  BY <1>1, <1>2 DEF Next, Acts

(***************************************************************************)
(* cleanup() and cleanup_all(): when every thread has returned, no task is *)
(* left CLEANING, in whatever order they overwrote each other's states.    *)
(***************************************************************************)
THEOREM QuiescentAlways == Spec => []Quiescent
<1>1. Init => TreesTyped /\ CleaningOwned
  BY DEF Init, TreesTyped, Free, Calls, Ops, Steps, CleaningOwned
<1>2. TreesTyped /\ CleaningOwned /\ [Next]_treesVars => TreesTyped' /\ CleaningOwned'
  BY TypedStep, CleaningOwnedStep
<1>3. CleaningOwned => Quiescent
  <2>1. \A c \in Threads : call[c] = Free => call[c].step = "none"
    BY DEF Free
  <2> QED
    BY <2>1 DEF CleaningOwned, Quiescent, At
<1> QED
  BY <1>1, <1>2, <1>3, PTL DEF Spec
=============================================================================
