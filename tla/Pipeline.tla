------------------------------- MODULE Pipeline -------------------------------
(***************************************************************************)
(* The validation pipeline of the tuneladora: PipelineRunner.run()         *)
(* (scripts/pro/tuneladora/pipeline/runner.py) and the snapshots it rolls  *)
(* back to (snapshot_manager.py).  Several processes may run one at the    *)
(* same repository: the scheduler, the watch daemon, a commit hook, the    *)
(* command line.  They exclude each other with the file pipeline.lock.     *)
(*                                                                         *)
(* The contents of a source are the set of the changes it holds: the edits *)
(* of its authors and the fixes of the runs.  Memories, reports, messages  *)
(* and the index are left out: no run reads them to decide.                *)
(***************************************************************************)
EXTENDS Integers

CONSTANTS
    Runs,        \* processes, each of which runs the pipeline once
    Files,       \* sources of the repository
    Mode,        \* of a run: "check", "fix" or "gate"
    Given,       \* of a run: the files it was started with, {} for none
    Edits,       \* changes the authors make
    AutoCommit,  \* URA_TUNELADORA_AUTO_COMMIT=1 with cfg.auto_commit
    Faults,      \* what happens besides: see PipelineAssumption
    Nobody,      \* whose the lock is when there is none
    Blank        \* whose it is when the file says no pid

ASSUME PipelineAssumption ==
    /\ Mode \in [Runs -> {"check", "fix", "gate"}]
    /\ Given \in [Runs -> SUBSET Files]
    /\ Runs \cap Edits = {} /\ {Nobody, Blank} \cap Runs = {} /\ Nobody # Blank
    /\ AutoCommit \in BOOLEAN
    /\ Faults \subseteq {"race",     \* two runs between exists() and write_text()
                         "slow",     \* a run takes longer than LOCK_TIMEOUT
                         "oserror",  \* the lock cannot be read, written or removed
                         "raise",    \* a phase raises
                         "crash"}    \* a process is killed

VARIABLES
    lock,       \* the file pipeline.lock: whose it is, and whether it is old
    at,         \* where each run is
    entry,      \* how it got past the lock: _lock_acquired and the two returns
    worst,      \* worst status of its phases
    snap,       \* _last_snapshot: contents of the files it copied
    telemetry,  \* its coverage_global: below the threshold, or unset, as which
                \* one above it counts
    result,     \* what run() returned
    tree, head, \* contents of every source on disk, and in the last commit
    calm,       \* history: edits made while no run was at work, by file
    unruly      \* history: two runs were between exists() and write_text() at
                \* once, or a run outlived its lock

vars == <<lock, at, entry, worst, snap, telemetry, result, tree, head, calm, unruly>>

NoLock    == [by |-> Nobody, old |-> FALSE]
EmptyLock == [by |-> Blank, old |-> FALSE]

(* A warning passes like an OK: nothing decides on which it was. *)
OK == 0  FAIL == 1
Worse(s, t) == IF s > t THEN s ELSE t

Body == {"preflight", "snapshot", "static", "checks", "commit", "verdict", "finish"}

(* Of an empty lock there is no process to be dead. *)
Dead(r)   == r \in Runs /\ at[r] = "gone"
AtWork(r) == r \in Runs /\ at[r] \in Body /\ entry[r] # "refused"
Fixes(r)  == Mode[r] \in {"fix", "gate"}

Init ==
    /\ lock = NoLock
    /\ at = [r \in Runs |-> "new"]
    /\ entry = [r \in Runs |-> "none"]
    /\ worst = [r \in Runs |-> OK]
    /\ snap = [r \in Runs |-> [f \in {} |-> {}]]
    /\ telemetry = [r \in Runs |-> "unset"]
    /\ result = [r \in Runs |-> "none"]
    /\ tree = [f \in Files |-> {}] /\ head = tree
    /\ calm = {}
    /\ unruly = FALSE

Go(r, place) == at' = [at EXCEPT ![r] = place]

(* Phase of r: it is at one point, goes to another, its status counts. *)
Phase(r, from, to, statuses) ==
    /\ at[r] = from /\ Go(r, to)
    /\ \E s \in statuses : worst' = [worst EXCEPT ![r] = Worse(@, s)]

-----------------------------------------------------------------------------
(* The lock.  Reading the file and writing it are two steps.               *)

(* Slips: the test of the process is inverted; no lock grows old. *)
BarredByDead == lock # NoLock /\ ~lock.old /\ Dead(lock.by)
BarredForEver == lock # NoLock /\ ~Dead(lock.by)

(* There is a lock, it is not old, and it is not of a dead process. *)
Barred == lock # NoLock /\ ~lock.old /\ ~Dead(lock.by)

Unreadable == "oserror" \in Faults /\ lock # NoLock /\ ~lock.old

(***************************************************************************)
(* No lock, one of a dead process or an old one: r will write its own.     *)
(* Otherwise, or if it cannot be read, run() reports that the lock is      *)
(* active and fails.                                                       *)
(***************************************************************************)
Look(r) ==
    LET window == \E s \in Runs : at[s] = "taking" IN
    /\ at[r] = "new"
    /\ "race" \in Faults \/ ~window
    /\ \/ /\ ~Barred
          /\ Go(r, "taking")
          /\ unruly' = (unruly \/ window)
          /\ UNCHANGED <<entry, worst>>
       \/ /\ Barred \/ Unreadable
          /\ Go(r, "finish")
          /\ entry' = [entry EXCEPT ![r] = "refused"]
          /\ worst' = [worst EXCEPT ![r] = FAIL]
          /\ UNCHANGED unruly
    /\ UNCHANGED <<lock, snap, telemetry, result, tree, head, calm>>

Take(r) ==
    /\ at[r] = "taking" /\ Go(r, "preflight")
    /\ lock' = [by |-> r, old |-> FALSE]
    /\ entry' = [entry EXCEPT ![r] = "locked"]
    /\ UNCHANGED <<worst, snap, telemetry, result, tree, head, calm, unruly>>

(* What a write that was not finished leaves: what was there, nothing after *)
(* unlink(), an empty file after open().                                    *)
Unfinished(r) == IF at[r] = "taking" THEN {lock, NoLock, EmptyLock} ELSE {lock}

(* OSError: the run goes on without the lock, and will release none. *)
Degrade(r) ==
    /\ "oserror" \in Faults
    /\ at[r] \in {"new", "taking"} /\ Go(r, "preflight")
    /\ lock' \in Unfinished(r)
    /\ entry' = [entry EXCEPT ![r] = "lockless"]
    /\ UNCHANGED <<worst, snap, telemetry, result, tree, head, calm, unruly>>

(***************************************************************************)
(* LOCK_TIMEOUT passes: over a lock of nobody at work, or a run that takes *)
(* that long.                                                              *)
(***************************************************************************)
Age ==
    /\ lock # NoLock /\ ~lock.old
    /\ AtWork(lock.by) => "slow" \in Faults
    /\ lock' = [lock EXCEPT !.old = TRUE]
    /\ unruly' = (unruly \/ AtWork(lock.by))
    /\ UNCHANGED <<at, entry, worst, snap, telemetry, result, tree, head, calm>>

(* The run removes the file, whoever wrote it; an OSError is suppressed. *)
Released(r) ==
    IF entry[r] # "locked" THEN {lock}
    ELSE IF "oserror" \in Faults THEN {lock, NoLock} ELSE {NoLock}

-----------------------------------------------------------------------------
(* The phases                                                              *)

(* preflight(): a tool that the mode requires is missing, and the run ends. *)
Preflight(r) ==
    /\ \/ Phase(r, "preflight", "snapshot", {OK})
       \/ Phase(r, "preflight", "finish", {FAIL})
    /\ UNCHANGED <<lock, entry, snap, telemetry, result, tree, head, calm, unruly>>

(* The files git sees changed. *)
Changed == {f \in Files : tree[f] # head[f]}

Covered(r) == IF Given[r] # {} THEN Given[r] ELSE Changed

(* phase_snapshot(): nothing to copy is a SKIP. *)
Snapshot(r) ==
    /\ Phase(r, "snapshot", "static", {OK})
    /\ snap' = [snap EXCEPT ![r] = [f \in Covered(r) |-> tree[f]]]
    /\ UNCHANGED <<lock, entry, telemetry, result, tree, head, calm, unruly>>

(* Without files the tools work on the whole tree. *)
Scope(r) == IF Given[r] # {} THEN Given[r] ELSE Files

(***************************************************************************)
(* phase_static(): py_compile, ruff, bandit, mypy.  ruff repairs what it   *)
(* can in the modes fix and gate, whether or not it then is content.       *)
(***************************************************************************)
Static(r) ==
    /\ Phase(r, "static", "checks", {OK, FAIL})
    /\ \E fixed \in SUBSET Scope(r) :
          /\ ~Fixes(r) => fixed = {}
          /\ tree' = [f \in Files |-> IF f \in fixed THEN tree[f] \cup {r}
                                      ELSE tree[f]]
    /\ UNCHANGED <<lock, entry, snap, telemetry, result, head, calm, unruly>>

(***************************************************************************)
(* Those that only judge: Sofia, whose findings, critical or not, are      *)
(* warnings, phase_dynamic(), phase_api_diff(), phase_index() and          *)
(* phase_integrity().                                                      *)
(***************************************************************************)
Checks(r) ==
    /\ Phase(r, "checks", "commit", {OK, FAIL})
    /\ UNCHANGED <<lock, entry, snap, telemetry, result, tree, head, calm, unruly>>

(* phase_commit(): git add -u and git commit, before there is a verdict. *)
Commit(r) ==
    /\ IF AutoCommit /\ Mode[r] = "gate"
       THEN \/ Phase(r, "commit", "verdict", {OK}) /\ head' = tree
            \/ Phase(r, "commit", "verdict", {OK, FAIL}) /\ UNCHANGED head
       ELSE Phase(r, "commit", "verdict", {OK}) /\ UNCHANGED head
    /\ UNCHANGED <<lock, entry, snap, telemetry, result, tree, calm, unruly>>

(***************************************************************************)
(* quality_gate.evaluar() on the telemetry the run has by then.  It may    *)
(* also fail, which is a warning in the log.                               *)
(***************************************************************************)
Rejected(r) == Mode[r] # "check" /\ telemetry[r] = "low"

(* Slip: the rollback takes the last snapshot there is, of any run. *)
RestoredLatest(r) ==
    [f \in Files |-> IF \E s \in Runs : f \in DOMAIN snap[s]
                     THEN snap[CHOOSE s \in Runs : f \in DOMAIN snap[s]][f]
                     ELSE tree[f]]

(* SnapshotManager.restore(): what the run copied, and nothing else. *)
Restored(r) == [f \in Files |-> IF f \in DOMAIN snap[r] THEN snap[r][f] ELSE tree[f]]

(* phase_verdict(), the quality gate, and the rollback if either fails. *)
Verdict(r) ==
    /\ Phase(r, "verdict", "finish", IF Rejected(r) THEN {FAIL} ELSE {OK})
    /\ tree' = IF worst'[r] = FAIL THEN Restored(r) ELSE tree
    /\ UNCHANGED <<lock, entry, snap, telemetry, result, head, calm, unruly>>

Named(status) == IF status = FAIL THEN "FAIL" ELSE "OK"

(***************************************************************************)
(* _finish(): coverage.xml is read now, the report is written, the verdict *)
(* is returned; the finally clause releases the lock.                      *)
(***************************************************************************)
Finish(r) ==
    /\ at[r] = "finish" /\ Go(r, "over")
    /\ \E c \in {"unset", "low"} : telemetry' = [telemetry EXCEPT ![r] = c]
    /\ result' = [result EXCEPT ![r] = Named(worst[r])]
    /\ lock' \in Released(r)
    /\ UNCHANGED <<entry, worst, snap, tree, head, calm, unruly>>

(* A phase raises: git took too long, a database is locked, the disk is full. *)
Raise(r) ==
    /\ "raise" \in Faults
    /\ at[r] \in Body /\ Go(r, "over")
    /\ result' = [result EXCEPT ![r] = "raised"]
    /\ lock' \in Released(r)
    /\ UNCHANGED <<entry, worst, snap, telemetry, tree, head, calm, unruly>>

Kill(r) ==
    /\ "crash" \in Faults
    /\ at[r] \in Body \cup {"taking"} /\ Go(r, "gone")
    /\ result' = [result EXCEPT ![r] = "killed"]
    /\ lock' \in Unfinished(r)
    /\ UNCHANGED <<entry, worst, snap, telemetry, tree, head, calm, unruly>>

(* The process of a run ends after it, at once or, of a daemon, much later; *)
(* it matters if it left its lock.                                          *)
Exit(r) ==
    /\ at[r] = "over" /\ lock.by = r /\ Go(r, "gone")
    /\ UNCHANGED <<lock, entry, worst, snap, telemetry, result, tree, head, calm, unruly>>

(* An author changes a source, whether a run is at work or not. *)
Edit(e, f) ==
    /\ \A g \in Files : e \notin tree[g] \cup head[g] /\ <<e, g>> \notin calm
    /\ tree' = [tree EXCEPT ![f] = @ \cup {e}]
    /\ calm' = IF \A r \in Runs : at[r] \notin Body THEN calm \cup {<<e, f>>} ELSE calm
    /\ UNCHANGED <<lock, at, entry, worst, snap, telemetry, result, head, unruly>>

Step(r) ==
    \/ Look(r) \/ Take(r)
    \/ Preflight(r) \/ Snapshot(r) \/ Static(r) \/ Checks(r)
    \/ Commit(r) \/ Verdict(r) \/ Finish(r)

Next ==
    \/ \E r \in Runs : Step(r) \/ Degrade(r) \/ Raise(r) \/ Kill(r) \/ Exit(r)
    \/ \E e \in Edits, f \in Files : Edit(e, f)
    \/ Age

Spec == Init /\ [][Next]_vars

(* A run that has started goes on, since every tool it calls has a time     *)
(* limit, and time passes.                                                  *)
Fairness ==
    /\ \A r \in Runs : WF_vars(at[r] # "new" /\ Step(r))
    /\ WF_vars(Age)

FairSpec == Spec /\ Fairness

-----------------------------------------------------------------------------

(* Contents of some of the sources. *)
Copies == UNION {[F -> SUBSET (Runs \cup Edits)] : F \in SUBSET Files}

PipelineTypeOK ==
    /\ lock \in [by : Runs \cup {Nobody, Blank}, old : BOOLEAN]
    /\ at \in [Runs -> Body \cup {"new", "taking", "over", "gone"}]
    /\ entry \in [Runs -> {"none", "locked", "lockless", "refused"}]
    /\ worst \in [Runs -> {OK, FAIL}]
    /\ snap \in [Runs -> Copies]
    /\ telemetry \in [Runs -> {"unset", "low"}]
    /\ result \in [Runs -> {"none", "OK", "FAIL", "raised", "killed"}]
    /\ tree \in [Files -> SUBSET (Runs \cup Edits)]
    /\ head \in [Files -> SUBSET (Runs \cup Edits)]
    /\ calm \subseteq Edits \X Files
    /\ unruly \in BOOLEAN

(* Two runs with the lock are at work at once. *)
Overlap ==
    \E r, s \in Runs : r # s /\ AtWork(r) /\ AtWork(s)
                       /\ entry[r] = "locked" /\ entry[s] = "locked"

(***************************************************************************)
(* Two runs with the lock are at work at once only after two have been     *)
(* between exists() and write_text() at once, or one has outlived its      *)
(* lock: no crash, exception, take-over, refusal, run without the lock,    *)
(* empty lock or lock left behind brings it about by itself.               *)
(***************************************************************************)
OneAtATime == Overlap => unruly

(***************************************************************************)
(* No lock keeps the others out for ever: neither that of a dead process,  *)
(* nor the empty one of a write that failed, nor one that could not be     *)
(* removed by a process that lives on.                                     *)
(***************************************************************************)
LockGivesWay == []<>~Barred

(***************************************************************************)
(* What a failed run repaired is gone from the files it copied, and does   *)
(* not come back with the rollback of a later run; as long as no run went  *)
(* on without the lock, and the lock kept the runs apart.                  *)
(***************************************************************************)
FailedFixesGone ==
    ~unruly /\ (\A s \in Runs : entry[s] # "lockless") =>
        \A r \in Runs : result[r] = "FAIL" => \A f \in DOMAIN snap[r] : r \notin tree[f]

(***************************************************************************)
(* What an author changed while no run was at work stays in the file,      *)
(* whatever runs fail, crash or roll back afterwards, at once or in turn.  *)
(***************************************************************************)
EditsKept == \A c \in calm : c[1] \in tree[c[2]]

(***************************************************************************)
(* A run that finds the coverage under the threshold fails.  Not so: the   *)
(* quality gate decides before coverage.xml is read.                       *)
(***************************************************************************)
GateHolds ==
    \A r \in Runs : Mode[r] # "check" /\ telemetry[r] = "low"
                    => result[r] # "OK"

(***************************************************************************)
(* Nothing of a failed run is left.  Not so: without files the tools work  *)
(* on the whole tree and the snapshot holds the changed files only.        *)
(***************************************************************************)
NothingLeft == \A r \in Runs : result[r] = "FAIL" => \A f \in Files : r \notin tree[f]

(***************************************************************************)
(* Only a run that passes commits.  Not so: the commit comes before the    *)
(* verdict, which may be FAIL for what the phases before it found.         *)
(***************************************************************************)
CommitsPassed == \A r \in Runs : result[r] = "FAIL" => \A f \in Files : r \notin head[f]

(***************************************************************************)
(* No edit is ever lost.  Not so: a rollback undoes what an author changed *)
(* in the same file since the snapshot.                                    *)
(***************************************************************************)
EditsNeverLost ==
    [][\A f \in Files, e \in Edits : e \in tree[f] => e \in tree'[f]]_vars

(***************************************************************************)
(* The lock excludes.  Not so: two runs read it before either writes its   *)
(* own, and one that ends removes the lock of the other.                   *)
(***************************************************************************)
NoOverlap == ~Overlap
=============================================================================
