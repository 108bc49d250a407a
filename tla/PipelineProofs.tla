---------------------------- MODULE PipelineProofs ----------------------------
(***************************************************************************)
(* The lock of the pipeline and its rollbacks, for any number of runs,     *)
(* sources and edits, and whatever faults there are.  The lock excludes    *)
(* until two runs meet between reading and writing it or one outlives it;  *)
(* calm edits survive every rollback, whatever the lock does.              *)
(***************************************************************************)
EXTENDS Pipeline, TLAPS

(* What a copy holds. *)
LEMMA CopyParts ==
    ASSUME NEW c \in Copies
    PROVE  /\ DOMAIN c \subseteq Files
           /\ \A f \in DOMAIN c : c[f] \in SUBSET (Runs \cup Edits)
<1>1. PICK F \in SUBSET Files : c \in [F -> SUBSET (Runs \cup Edits)]
  BY DEF Copies
<1> QED
  BY <1>1

LEMMA CopyMade ==
    ASSUME NEW F \in SUBSET Files, tree \in [Files -> SUBSET (Runs \cup Edits)]
    PROVE  [f \in F |-> tree[f]] \in Copies
<1>1. [f \in F |-> tree[f]] \in [F -> SUBSET (Runs \cup Edits)]
  OBVIOUS
<1> QED
  BY <1>1 DEF Copies

(* The files a run may copy or repair are files. *)
LEMMA Scopes ==
    ASSUME PipelineAssumption, NEW r \in Runs
    PROVE  Covered(r) \in SUBSET Files /\ Scope(r) \in SUBSET Files
BY DEF Covered, Changed, Scope, PipelineAssumption

-----------------------------------------------------------------------------
(* Type correctness, in parts that few steps touch.                        *)

Locks == [by : Runs \cup {Nobody, Blank}, old : BOOLEAN]

PlaceTyped ==
    /\ lock \in Locks
    /\ at \in [Runs -> Body \cup {"new", "taking", "over", "gone"}]
    /\ entry \in [Runs -> {"none", "locked", "lockless", "refused"}]
    /\ worst \in [Runs -> {OK, FAIL}]
    /\ telemetry \in [Runs -> {"unset", "low"}]
    /\ result \in [Runs -> {"none", "OK", "FAIL", "raised", "killed"}]

SourcesTyped ==
    /\ snap \in [Runs -> Copies]
    /\ tree \in [Files -> SUBSET (Runs \cup Edits)]
    /\ head \in [Files -> SUBSET (Runs \cup Edits)]
    /\ calm \subseteq Edits \X Files
    /\ unruly \in BOOLEAN

LEMMA TypeSplit == PipelineTypeOK <=> PlaceTyped /\ SourcesTyped
BY DEF PipelineTypeOK, PlaceTyped, SourcesTyped, Locks

LEMMA NoLockTyped == NoLock \in Locks /\ EmptyLock \in Locks
BY DEF NoLock, EmptyLock, Locks

(* What a write that failed leaves of the lock, and what an end leaves.    *)
LEMMA LockLeft ==
    ASSUME NEW r \in Runs, PlaceTyped
    PROVE  /\ Unfinished(r) \subseteq Locks /\ Released(r) \subseteq Locks
           /\ at[r] # "taking" => Unfinished(r) = {lock}
           /\ entry[r] # "locked" => Released(r) = {lock}
BY NoLockTyped DEF Unfinished, Released, PlaceTyped

LEMMA TypedAtFirst ==
    ASSUME PipelineAssumption, Init
    PROVE  PipelineTypeOK
<1>1. [f \in {} |-> {}] \in Copies
  <2>1. [f \in {} |-> {}] \in [{} -> SUBSET (Runs \cup Edits)]
    OBVIOUS
  <2> QED
    BY <2>1 DEF Copies
<1> QED
  BY <1>1 DEF Init, PipelineTypeOK, Locks, NoLock, OK, Body

(* A phase moves its run and counts its status, and both stay typed. *)
LEMMA PhaseTyped ==
    ASSUME PlaceTyped, NEW r \in Runs, NEW from,
           NEW to \in Body, NEW statuses \in SUBSET {OK, FAIL},
           Phase(r, from, to, statuses)
    PROVE  /\ at' \in [Runs -> Body \cup {"new", "taking", "over", "gone"}]
           /\ worst' \in [Runs -> {OK, FAIL}]
<1>1. PICK s \in statuses : worst' = [worst EXCEPT ![r] = Worse(@, s)]
  BY DEF Phase
<1>2. Worse(worst[r], s) \in {OK, FAIL}
  BY DEF Worse, PlaceTyped
<1> QED
  BY <1>1, <1>2 DEF Phase, Go, PlaceTyped

LEMMA StepTyped ==
    ASSUME PipelineAssumption, PipelineTypeOK, NEW r \in Runs, Step(r)
    PROVE  PipelineTypeOK'
<1> USE TypeSplit
<1>0. PlaceTyped /\ SourcesTyped
  OBVIOUS
<1>1. CASE Look(r)
  BY <1>0, <1>1 DEF Look, Go, PlaceTyped, SourcesTyped, PipelineTypeOK, Locks, Body
<1>2. CASE Take(r)
  BY <1>0, <1>2 DEF Take, Go, PlaceTyped, SourcesTyped, PipelineTypeOK, Locks, Body
<1>3. CASE Preflight(r)
  <2>1. /\ at' \in [Runs -> Body \cup {"new", "taking", "over", "gone"}]
        /\ worst' \in [Runs -> {OK, FAIL}]
    BY <1>0, <1>3, PhaseTyped DEF Preflight, Body
  <2> QED
    BY <1>0, <1>3, <2>1 DEF Preflight, PlaceTyped, SourcesTyped, PipelineTypeOK, Locks
<1>4. CASE Snapshot(r)
  <2>1. /\ at' \in [Runs -> Body \cup {"new", "taking", "over", "gone"}]
        /\ worst' \in [Runs -> {OK, FAIL}]
    BY <1>0, <1>4, PhaseTyped DEF Snapshot, Body
  <2>2. [f \in Covered(r) |-> tree[f]] \in Copies
    BY <1>0, Scopes, CopyMade DEF SourcesTyped
  <2>3. snap' \in [Runs -> Copies]
    BY <1>0, <1>4, <2>2 DEF Snapshot, SourcesTyped
  <2> QED
    BY <1>0, <1>4, <2>1, <2>3 DEF Snapshot, PlaceTyped, SourcesTyped, PipelineTypeOK, Locks
<1>5. CASE Static(r)
  <2>1. /\ at' \in [Runs -> Body \cup {"new", "taking", "over", "gone"}]
        /\ worst' \in [Runs -> {OK, FAIL}]
    BY <1>0, <1>5, PhaseTyped DEF Static, Body
  <2>2. PICK fixed \in SUBSET Scope(r) :
           tree' = [f \in Files |-> IF f \in fixed THEN tree[f] \cup {r} ELSE tree[f]]
    BY <1>5 DEF Static
  <2>3. tree' \in [Files -> SUBSET (Runs \cup Edits)]
    BY <1>0, <2>2 DEF SourcesTyped
  <2> QED
    BY <1>0, <1>5, <2>1, <2>3 DEF Static, PlaceTyped, SourcesTyped, PipelineTypeOK, Locks
<1>6. CASE Checks(r)
  <2>1. /\ at' \in [Runs -> Body \cup {"new", "taking", "over", "gone"}]
        /\ worst' \in [Runs -> {OK, FAIL}]
    BY <1>0, <1>6, PhaseTyped DEF Checks, Body
  <2> QED
    BY <1>0, <1>6, <2>1 DEF Checks, PlaceTyped, SourcesTyped, PipelineTypeOK, Locks
<1>7. CASE Commit(r)
  <2>1. /\ at' \in [Runs -> Body \cup {"new", "taking", "over", "gone"}]
        /\ worst' \in [Runs -> {OK, FAIL}]
    BY <1>0, <1>7, PhaseTyped DEF Commit, Body
  <2> QED
    BY <1>0, <1>7, <2>1 DEF Commit, PlaceTyped, SourcesTyped, PipelineTypeOK, Locks
<1>8. CASE Verdict(r)
  <2>1. /\ at' \in [Runs -> Body \cup {"new", "taking", "over", "gone"}]
        /\ worst' \in [Runs -> {OK, FAIL}]
    BY <1>0, <1>8, PhaseTyped DEF Verdict, Body
  <2>2. Restored(r) \in [Files -> SUBSET (Runs \cup Edits)]
    BY <1>0, CopyParts DEF Restored, SourcesTyped
  <2> QED
    BY <1>0, <1>8, <2>1, <2>2 DEF Verdict, PlaceTyped, SourcesTyped, PipelineTypeOK, Locks
<1>9. CASE Finish(r)
  <2>1. Named(worst[r]) \in {"OK", "FAIL"}
    BY <1>0 DEF Named, PlaceTyped, OK, FAIL
  <2>2. lock' \in Locks
    BY <1>0, <1>9, LockLeft DEF Finish
  <2> QED
    BY <1>0, <1>9, <2>1, <2>2 DEF Finish, Go, PlaceTyped, SourcesTyped, PipelineTypeOK, Locks
<1> QED
  BY <1>1, <1>2, <1>3, <1>4, <1>5, <1>6, <1>7, <1>8, <1>9 DEF Step

LEMMA NextTyped ==
    ASSUME PipelineAssumption, PipelineTypeOK, [Next]_vars
    PROVE  PipelineTypeOK'
<1>0. PlaceTyped /\ SourcesTyped
  BY TypeSplit
<1>1. ASSUME NEW r \in Runs, Degrade(r)
      PROVE  PipelineTypeOK'
  <2>1. lock' \in Locks
    BY <1>0, <1>1, LockLeft DEF Degrade
  <2> QED
    BY <1>0, <1>1, <2>1 DEF Degrade, Go, PlaceTyped, SourcesTyped, PipelineTypeOK, Locks, Body
<1>5. ASSUME NEW r \in Runs, Raise(r) \/ Kill(r) \/ Exit(r)
      PROVE  PipelineTypeOK'
  <2>1. lock' \in Locks
    BY <1>0, <1>5, LockLeft DEF Raise, Kill, Exit, PlaceTyped
  <2> QED
    BY <1>0, <1>5, <2>1 DEF Raise, Kill, Exit, Go, PlaceTyped, SourcesTyped, PipelineTypeOK, Locks, Body
<1>2. ASSUME NEW e \in Edits, NEW f \in Files, Edit(e, f)
      PROVE  PipelineTypeOK'
  BY <1>0, <1>2 DEF Edit, PlaceTyped, SourcesTyped, PipelineTypeOK, Locks
<1>3. CASE Age
  BY <1>0, <1>3 DEF Age, PlaceTyped, SourcesTyped, PipelineTypeOK, Locks
<1>4. CASE UNCHANGED vars
  BY <1>4 DEF vars, PipelineTypeOK, Locks
<1> QED
  BY <1>1, <1>2, <1>3, <1>4, <1>5, StepTyped DEF Next

(***************************************************************************)
(* Every variable of the pipeline stays in its domain, for any number of   *)
(* runs and sources, whatever raises or is killed.                         *)
(***************************************************************************)
THEOREM PipelineTyped == Spec => []PipelineTypeOK
<1>1. Init => PipelineTypeOK
  BY PipelineAssumption, TypedAtFirst
<1>2. PipelineTypeOK /\ [Next]_vars => PipelineTypeOK'
  BY PipelineAssumption, NextTyped
<1> QED
  BY <1>1, <1>2, PTL DEF Spec
-----------------------------------------------------------------------------
(* What the steps do to the lock.  A run moves from phase to phase, ends,  *)
(* or gets past the lock; the rest leaves lock and places alone.           *)

Works(r) ==
    /\ at[r] \in Body /\ at'[r] \in Body
    /\ at' = [at EXCEPT ![r] = at'[r]]
    /\ UNCHANGED <<lock, entry, result, calm, unruly>>

Ends(r) ==
    /\ at[r] \in Body /\ Go(r, "over")
    /\ result' = [result EXCEPT ![r] = result'[r]]
    /\ lock' \in Released(r)
    /\ UNCHANGED <<entry, worst, snap, tree, calm, unruly>>

Gone(r) ==
    /\ at[r] \in Body \cup {"taking", "over"} /\ Go(r, "gone")
    /\ result' = [result EXCEPT ![r] = result'[r]]
    /\ lock' \in Unfinished(r)
    /\ UNCHANGED <<entry, unruly>>

Enters(r) == Look(r) \/ Take(r) \/ Degrade(r)

Apart == UNCHANGED <<lock, at, entry, worst, snap, result, unruly>>

LEMMA PhasesWork ==
    ASSUME PipelineTypeOK, NEW r \in Runs,
           \/ Preflight(r) \/ Snapshot(r) \/ Static(r) \/ Checks(r)
            \/ Commit(r) \/ Verdict(r)
    PROVE  Works(r)
<1>1. \E to \in Body : at[r] \in Body /\ Go(r, to)
  BY DEF Preflight, Snapshot, Static, Checks, Commit, Verdict, Phase, Body
<1>2. UNCHANGED <<lock, entry, result, calm, unruly>>
  BY DEF Preflight, Snapshot, Static, Checks, Commit, Verdict
<1> QED
  BY <1>1, <1>2 DEF Works, Go, PipelineTypeOK

LEMMA Kinds ==
    ASSUME PipelineTypeOK, [Next]_vars
    PROVE  \/ \E r \in Runs : Enters(r) \/ Works(r) \/ Ends(r) \/ Gone(r)
           \/ Age \/ Apart
<1>1. ASSUME NEW r \in Runs, Step(r) \/ Degrade(r)
      PROVE  Enters(r) \/ Works(r) \/ Finish(r)
  BY <1>1, PhasesWork DEF Step, Enters
<1>2. ASSUME NEW r \in Runs, Finish(r) \/ Raise(r)
      PROVE  Ends(r)
  BY <1>2 DEF Finish, Raise, Ends, Body, PipelineTypeOK
<1>5. ASSUME NEW r \in Runs, Kill(r) \/ Exit(r)
      PROVE  Gone(r)
  BY <1>5 DEF Kill, Exit, Gone, Unfinished, PipelineTypeOK
<1>3. ASSUME NEW e \in Edits, NEW f \in Files, Edit(e, f)
      PROVE  Apart
  BY <1>3 DEF Edit, Apart
<1>4. CASE UNCHANGED vars
  BY <1>4 DEF vars, Apart
<1> QED
  BY <1>1, <1>2, <1>3, <1>4, <1>5 DEF Next

(* How a run got where it is. *)
Placed ==
    \A r \in Runs :
        /\ at[r] \in {"new", "taking"} => entry[r] = "none"
        /\ at[r] \notin {"over", "gone"} => result[r] = "none"

LEMMA PlacedStep ==
    ASSUME PipelineTypeOK, Placed, [Next]_vars
    PROVE  Placed'
<1>1. ASSUME NEW r \in Runs, Enters(r)
      PROVE  Placed'
  BY <1>1 DEF Enters, Look, Take, Degrade, Go, Placed, PipelineTypeOK
<1>2. ASSUME NEW r \in Runs, Works(r)
      PROVE  Placed'
  BY <1>2 DEF Works, Placed, PipelineTypeOK, Body
<1>3. ASSUME NEW r \in Runs, Ends(r)
      PROVE  Placed'
  BY <1>3 DEF Ends, Go, Placed, PipelineTypeOK
<1>6. ASSUME NEW r \in Runs, Gone(r)
      PROVE  Placed'
  BY <1>6 DEF Gone, Go, Placed, PipelineTypeOK
<1>4. CASE Age
  BY <1>4 DEF Age, Placed
<1>5. CASE Apart
  BY <1>5 DEF Apart, Placed
<1> QED
  BY <1>1, <1>2, <1>3, <1>4, <1>5, <1>6, Kinds

LockInv == PipelineTypeOK /\ Placed

LEMMA LockInvAtFirst ==
    ASSUME PipelineAssumption, Init
    PROVE  LockInv
BY TypedAtFirst DEF Init, LockInv, Placed

-----------------------------------------------------------------------------
(* The lock excludes until two runs are between reading and writing it at  *)
(* once, or one outlives it.                                               *)

Holds(r) == at[r] \in Body /\ entry[r] = "locked"

(* Who holds the lock is named by it; who is about to write it is alone.   *)
Exclusive ==
    /\ \A r \in Runs : Holds(r) => lock.by = r /\ lock # NoLock /\ ~lock.old
    /\ \A r \in Runs : at[r] = "taking" =>
          \A s \in Runs : ~Holds(s) /\ (at[s] = "taking" => s = r)

LEMMA HolderBars ==
    ASSUME Exclusive, NEW s \in Runs, Holds(s)
    PROVE  Barred
BY DEF Exclusive, Holds, Barred, Dead, Body

LEMMA EntersExclusive ==
    ASSUME PipelineTypeOK, Placed, Exclusive, ~unruly', NEW r \in Runs, Enters(r)
    PROVE  Exclusive'
<1>1. CASE Look(r) /\ ~Barred /\ at' = [at EXCEPT ![r] = "taking"]
  <2>1. \A s \in Runs : ~Holds(s)
    BY <1>1, HolderBars
  <2>2. \A s \in Runs : at[s] # "taking"
    BY <1>1 DEF Look, Go, PipelineTypeOK
  <2> QED
    BY <1>1, <2>1, <2>2 DEF Look, Exclusive, Holds, PipelineTypeOK, Body
<1>2. CASE Look(r) /\ entry' = [entry EXCEPT ![r] = "refused"]
                  /\ at' = [at EXCEPT ![r] = "finish"]
  BY <1>2 DEF Look, Exclusive, Holds, PipelineTypeOK
<1>3. CASE Take(r)
  <2>1. \A s \in Runs : ~Holds(s) /\ (at[s] = "taking" => s = r)
    BY <1>3 DEF Take, Exclusive
  <2>2. \A s \in Runs : at'[s] # "taking" /\ (Holds(s)' => s = r)
    BY <1>3, <2>1 DEF Take, Go, Holds, PipelineTypeOK
  <2>3. lock'.by = r /\ lock' # NoLock /\ ~lock'.old
    BY <1>3, PipelineAssumption DEF Take, NoLock, PipelineAssumption
  <2> QED
    BY <2>2, <2>3 DEF Exclusive, NoLock
<1>4. CASE Degrade(r) /\ at[r] = "new"
  <2>1. lock' = lock
    BY <1>4 DEF Degrade, Unfinished
  <2> QED
    BY <1>4, <2>1 DEF Degrade, Go, Exclusive, Holds, PipelineTypeOK, NoLock
<1>5. CASE Degrade(r) /\ at[r] = "taking"
  BY <1>5 DEF Degrade, Go, Exclusive, Holds, PipelineTypeOK
<1> QED
  BY <1>1, <1>2, <1>3, <1>4, <1>5 DEF Enters, Look, Go, Degrade

(* Nothing but the two causes makes the lock fail, and they are noted.     *)
LEMMA ExclusiveStep ==
    ASSUME LockInv, ~unruly => Exclusive, [Next]_vars, ~unruly'
    PROVE  Exclusive'
<1> USE DEF LockInv
<1>0. Exclusive
  <2>1. unruly => unruly'
    BY Kinds DEF Enters, Look, Take, Degrade, Works, Ends, Gone, Age, Apart
  <2> QED
    BY <2>1
<1>1. ASSUME NEW r \in Runs, Enters(r)
      PROVE  Exclusive'
  BY <1>0, <1>1, EntersExclusive
<1>2. ASSUME NEW r \in Runs, Works(r)
      PROVE  Exclusive'
  BY <1>0, <1>2 DEF Works, Exclusive, Holds, PipelineTypeOK, NoLock, Body
<1>3. ASSUME NEW r \in Runs, Ends(r)
      PROVE  Exclusive'
  <2>1. \A s \in Runs : Holds(s)' => Holds(s) /\ s # r
    BY <1>3 DEF Ends, Go, Holds, PipelineTypeOK, Body
  <2>2. \A s \in Runs : (at[s] = "taking")' => at[s] = "taking"
    BY <1>3 DEF Ends, Go, PipelineTypeOK
  <2>3. (\E s \in Runs : Holds(s)') => lock' = lock
    BY <1>0, <1>3, <2>1 DEF Ends, Released, Exclusive, Holds
  <2> QED
    BY <1>0, <2>1, <2>2, <2>3 DEF Exclusive, NoLock
<1>4. ASSUME NEW r \in Runs, Gone(r)
      PROVE  Exclusive'
  <2>1. \A s \in Runs : Holds(s)' => Holds(s) /\ s # r
    BY <1>4 DEF Gone, Go, Holds, PipelineTypeOK, Body
  <2>2. \A s \in Runs : (at[s] = "taking")' => at[s] = "taking"
    BY <1>4 DEF Gone, Go, PipelineTypeOK
  <2>3. (\E s \in Runs : Holds(s)') => lock' = lock
    BY <1>0, <1>4, <2>1 DEF Gone, Unfinished, Exclusive, Holds
  <2> QED
    BY <1>0, <2>1, <2>2, <2>3 DEF Exclusive, NoLock
<1>5. CASE Age
  <2>1. \A s \in Runs : ~Holds(s)
    BY <1>0, <1>5 DEF Age, AtWork, Exclusive, Holds
  <2> QED
    BY <1>0, <1>5, <2>1 DEF Age, Exclusive, Holds
<1>6. CASE Apart
  BY <1>0, <1>6 DEF Apart, Exclusive, Holds, NoLock
<1> QED
  BY <1>1, <1>2, <1>3, <1>4, <1>5, <1>6, Kinds

(***************************************************************************)
(* Runs overlap with the lock only after two have been in the window       *)
(* between exists() and write_text() at once or one has outlived its lock, *)
(* for any number of processes and whatever faults happen: exceptions,     *)
(* deaths, take-overs, runs without the lock and locks left behind do not  *)
(* do it.  The code prevents neither of the two causes.                    *)
(***************************************************************************)
THEOREM OneAtATimeAlways == Spec => []OneAtATime
<1> DEFINE Inv == LockInv /\ (~unruly => Exclusive)
<1>1. Init => Inv
  BY PipelineAssumption, LockInvAtFirst DEF Init, Exclusive, Holds, Body
<1>2. Inv /\ [Next]_vars => Inv'
  BY PipelineAssumption, NextTyped, PlacedStep, ExclusiveStep DEF LockInv
<1>3. Inv => OneAtATime
  BY DEF Exclusive, Holds, OneAtATime, Overlap, AtWork
<1> QED
  BY <1>1, <1>2, <1>3, PTL DEF Spec
-----------------------------------------------------------------------------
(* Calm edits.  A run at work copied its files after them.                 *)

Unsnapped == \A r \in Runs : at[r] \in {"new", "taking"} => DOMAIN snap[r] = {}

CalmCopied ==
    \A r \in Runs : at[r] \in Body =>
        \A c \in calm : c[2] \in DOMAIN snap[r] => c[1] \in snap[r][c[2]]

CalmInv == PipelineTypeOK /\ Unsnapped /\ CalmCopied /\ EditsKept

LEMMA CalmFiles ==
    ASSUME PipelineTypeOK, NEW c \in calm
    PROVE  c[2] \in Files /\ c[1] \in Edits
BY DEF PipelineTypeOK

(* The steps that touch neither sources nor copies. *)
LEMMA CalmElsewhere ==
    ASSUME PipelineTypeOK, Unsnapped, CalmCopied, EditsKept, NEW r \in Runs,
           UNCHANGED <<snap, tree, calm>>, at' = [at EXCEPT ![r] = at'[r]],
           at[r] \in Body \cup {"new", "taking"} \/ at'[r] = "gone",
           at[r] \in Body => at'[r] \notin {"new", "taking"}
    PROVE  Unsnapped' /\ CalmCopied' /\ EditsKept'
<1>1. Unsnapped'
  BY DEF Unsnapped, PipelineTypeOK
<1>2. CalmCopied'
  BY DEF Unsnapped, CalmCopied, PipelineTypeOK, Body
<1>3. EditsKept'
  BY DEF EditsKept
<1> QED
  BY <1>1, <1>2, <1>3

LEMMA CalmStep ==
    ASSUME PipelineAssumption, CalmInv, [Next]_vars
    PROVE  Unsnapped' /\ CalmCopied' /\ EditsKept'
<1> USE DEF CalmInv
<1>1. ASSUME NEW r \in Runs,
             \/ Look(r) \/ Take(r) \/ Degrade(r) \/ Raise(r) \/ Kill(r) \/ Exit(r) \/ Finish(r)
             \/ Preflight(r) \/ Checks(r) \/ Commit(r)
      PROVE  Unsnapped' /\ CalmCopied' /\ EditsKept'
  <2>1. UNCHANGED <<snap, tree, calm>>
    BY <1>1 DEF Look, Take, Degrade, Raise, Kill, Exit, Finish, Preflight, Checks, Commit
  <2>2. \E to \in Body \cup {"taking", "over", "gone"} :
           /\ Go(r, to)
           /\ at[r] \in Body \cup {"new", "taking"} \/ to = "gone"
           /\ at[r] \in Body => to # "taking"
    BY <1>1 DEF Look, Take, Degrade, Raise, Kill, Exit, Finish, Preflight, Checks,
                Commit, Phase, Body
  <2>3. /\ at' = [at EXCEPT ![r] = at'[r]]
        /\ at[r] \in Body \cup {"new", "taking"} \/ at'[r] = "gone"
        /\ at[r] \in Body => at'[r] \notin {"new", "taking"}
    BY <2>2 DEF Go, PipelineTypeOK, Body
  <2> QED
    BY <2>1, <2>2, <2>3, CalmElsewhere
<1>2. ASSUME NEW r \in Runs, Snapshot(r)
      PROVE  Unsnapped' /\ CalmCopied' /\ EditsKept'
  <2>1. /\ at[r] = "snapshot" /\ at' = [at EXCEPT ![r] = "static"]
        /\ snap' = [snap EXCEPT ![r] = [f \in Covered(r) |-> tree[f]]]
        /\ UNCHANGED <<tree, calm>>
    BY <1>2 DEF Snapshot, Phase, Go
  <2>2. Unsnapped'
    BY <2>1 DEF Unsnapped, PipelineTypeOK
  <2>3. CalmCopied'
    <3> SUFFICES ASSUME NEW s \in Runs, at'[s] \in Body, NEW c \in calm,
                        c[2] \in DOMAIN snap'[s]
                 PROVE  c[1] \in snap'[s][c[2]]
      BY <2>1 DEF CalmCopied
    <3>1. CASE s = r
      BY <3>1, <2>1 DEF EditsKept, PipelineTypeOK
    <3>2. CASE s # r
      BY <3>2, <2>1 DEF CalmCopied, PipelineTypeOK
    <3> QED
      BY <3>1, <3>2
  <2>4. EditsKept'
    BY <2>1 DEF EditsKept
  <2> QED
    BY <2>2, <2>3, <2>4
<1>3. ASSUME NEW r \in Runs, Static(r) \/ Verdict(r)
      PROVE  Unsnapped' /\ CalmCopied' /\ EditsKept'
  <2>1. Works(r) /\ snap' = snap
    BY <1>3, PhasesWork DEF Static, Verdict
  <2>2. Unsnapped' /\ CalmCopied'
    BY <2>1 DEF Works, Unsnapped, CalmCopied, PipelineTypeOK, Body
  <2>3. CASE Static(r)
    <3>1. \A f \in Files : tree[f] \subseteq tree'[f]
      BY <2>3 DEF Static
    <3> QED
      BY <3>1, <2>1, <2>2, CalmFiles DEF EditsKept, Works
  <2>4. CASE Verdict(r)
    <3>1. \A f \in Files : tree'[f] = tree[f] \/ (f \in DOMAIN snap[r] /\ tree'[f] = snap[r][f])
      BY <2>4 DEF Verdict, Restored
    <3>2. at[r] \in Body
      BY <2>1 DEF Works
    <3> QED
      BY <3>1, <3>2, <2>1, <2>2, CalmFiles DEF EditsKept, CalmCopied, Works
  <2> QED
    BY <1>3, <2>3, <2>4
<1>4. ASSUME NEW e \in Edits, NEW f \in Files, Edit(e, f)
      PROVE  Unsnapped' /\ CalmCopied' /\ EditsKept'
  <2>1. Unsnapped' /\ CalmCopied'
    BY <1>4 DEF Edit, Unsnapped, CalmCopied
  <2>2. \A g \in Files : tree[g] \subseteq tree'[g]
    BY <1>4 DEF Edit, PipelineTypeOK
  <2>3. e \in tree'[f]
    BY <1>4 DEF Edit, PipelineTypeOK
  <2>4. \A c \in calm' : c \in calm \/ c = <<e, f>>
    BY <1>4 DEF Edit
  <2> QED
    BY <2>1, <2>2, <2>3, <2>4, CalmFiles DEF EditsKept
<1>5. CASE Age \/ UNCHANGED vars
  BY <1>5 DEF Age, vars, Unsnapped, CalmCopied, EditsKept
<1> QED
  BY <1>1, <1>2, <1>3, <1>4, <1>5 DEF Next, Step

(***************************************************************************)
(* No rollback takes away what an author wrote while the pipeline rested,  *)
(* for any number of runs and edits, with or without the lock, whatever    *)
(* runs fail or die in the middle of their work.                           *)
(***************************************************************************)
THEOREM EditsKeptAlways == Spec => []EditsKept
<1>1. Init => CalmInv
  <2> SUFFICES ASSUME Init  PROVE CalmInv
    OBVIOUS
  <2>1. PipelineTypeOK
    BY PipelineAssumption, TypedAtFirst
  <2>2. Unsnapped
    BY DEF Init, Unsnapped
  <2>3. CalmCopied /\ EditsKept
    BY DEF Init, CalmCopied, EditsKept, Body
  <2> QED
    BY <2>1, <2>2, <2>3 DEF CalmInv
<1>2. CalmInv /\ [Next]_vars => CalmInv'
  BY PipelineAssumption, NextTyped, CalmStep DEF CalmInv
<1>3. CalmInv => EditsKept
  BY DEF CalmInv
<1> QED
  BY <1>1, <1>2, <1>3, PTL DEF Spec
-----------------------------------------------------------------------------
(* The fixes of failed runs.  Where nobody works without the lock, a run   *)
(* repairs nothing before its copy is made, and whoever is at work when it *)
(* has failed copied the files after its rollback.                         *)

NoneLockless == \A r \in Runs : entry[r] # "lockless"

Failed(r) == result[r] = "FAIL" \/ (at[r] = "finish" /\ worst[r] = FAIL)

(* What has not run its tools is in no file and no copy, *)
Unmixed ==
    \A r \in Runs : at[r] \in {"new", "taking", "preflight", "snapshot", "static"} =>
        /\ \A f \in Files : r \notin tree[f]
        /\ \A s \in Runs : \A f \in DOMAIN snap[s] : r \notin snap[s][f]

(* nobody copies his own fixes, and a copy is made by who holds the lock, *)
OwnCopies ==
    \A r \in Runs :
        /\ \A f \in DOMAIN snap[r] : r \notin snap[r][f]
        /\ at[r] \in {"new", "taking", "preflight", "snapshot"} => DOMAIN snap[r] = {}
        /\ entry[r] = "refused" => DOMAIN snap[r] = {} /\ at[r] \in {"finish", "over", "gone"}
        /\ at[r] \in Body => entry[r] # "none"

(* and what has failed is gone, from the files and from copies in use. *)
FailedGone ==
    \A r \in Runs : Failed(r) => \A f \in DOMAIN snap[r] :
        /\ r \notin tree[f]
        /\ \A s \in Runs : at[s] \in Body /\ f \in DOMAIN snap[s] => r \notin snap[s][f]

FixInv == Unmixed /\ OwnCopies /\ FailedGone

(* The steps that touch neither sources nor copies. *)
LEMMA FixElsewhere ==
    ASSUME PipelineTypeOK, Placed, FixInv, NEW r \in Runs,
           UNCHANGED <<snap, tree>>,
           at' = [at EXCEPT ![r] = at'[r]],
           at'[r] \in {"new", "taking", "preflight", "snapshot", "static"} =>
               at[r] \in {"new", "taking", "preflight", "snapshot", "static"},
           at'[r] \in {"new", "taking", "preflight", "snapshot"} =>
               at[r] \in {"new", "taking", "preflight", "snapshot"},
           \A s \in Runs \ {r} : entry'[s] = entry[s],
           entry'[r] = "refused" => DOMAIN snap[r] = {} /\ at'[r] \in {"finish", "over", "gone"},
           at'[r] \in Body => entry'[r] # "none",
           at'[r] \in Body => at[r] \in Body \/ DOMAIN snap[r] = {},
           \A s \in Runs : Failed(s)' => Failed(s) \/ DOMAIN snap[s] = {}
    PROVE  FixInv'
<1>1. \A s \in Runs \ {r} : at'[s] = at[s]
  BY DEF PipelineTypeOK
<1>2. Unmixed'
  BY <1>1 DEF FixInv, Unmixed, PipelineTypeOK
<1>3. OwnCopies'
  BY <1>1 DEF FixInv, OwnCopies, PipelineTypeOK
<1>4. FailedGone'
  <2> SUFFICES ASSUME NEW s \in Runs, Failed(s)', NEW f \in DOMAIN snap[s]
               PROVE  /\ s \notin tree[f]
                      /\ \A t \in Runs : at'[t] \in Body /\ f \in DOMAIN snap[t]
                                        => s \notin snap[t][f]
    BY DEF FailedGone, Failed
  <2>1. Failed(s)
    OBVIOUS
  <2>2. \A t \in Runs : at'[t] \in Body /\ f \in DOMAIN snap[t] => at[t] \in Body
    BY <1>1
  <2> QED
    BY <2>1, <2>2 DEF FixInv, FailedGone
<1> QED
  BY <1>2, <1>3, <1>4 DEF FixInv

LEMMA FixPhases ==
    ASSUME PipelineTypeOK, Placed, FixInv, NEW r \in Runs,
           Preflight(r) \/ Checks(r) \/ Commit(r)
    PROVE  FixInv'
<1>1. Works(r) /\ UNCHANGED <<snap, tree>>
  BY PhasesWork DEF Preflight, Checks, Commit
<1>2. /\ at'[r] \in {"snapshot", "finish"} /\ at[r] = "preflight"
      \/ /\ at[r] \in {"checks", "commit"}
         /\ at'[r] \in {"commit", "verdict"}
  BY DEF Preflight, Checks, Commit, Phase, Go, PipelineTypeOK, Body
<1>3. \A s \in Runs \ {r} : worst'[s] = worst[s]
  BY DEF Preflight, Checks, Commit, Phase, PipelineTypeOK
<1>4. \A s \in Runs : Failed(s)' => Failed(s) \/ DOMAIN snap[s] = {}
  <2>1. \A s \in Runs \ {r} : Failed(s)' => Failed(s)
    BY <1>1, <1>3 DEF Works, Failed, PipelineTypeOK
  <2>2. Failed(r)' => DOMAIN snap[r] = {}
    BY <1>1, <1>2 DEF Works, Failed, Placed, FixInv, OwnCopies
  <2> QED
    BY <2>1, <2>2
<1>5. entry[r] # "refused" /\ entry[r] # "none"
  BY <1>2 DEF FixInv, OwnCopies, Body
<1> QED
  BY <1>1, <1>2, <1>4, <1>5, FixElsewhere DEF Works

LEMMA FixEnters ==
    ASSUME PipelineTypeOK, Placed, FixInv, NEW r \in Runs, Look(r) \/ Take(r)
    PROVE  FixInv'
<1>1. UNCHANGED <<snap, tree, result>>
  BY DEF Look, Take
<1>2. /\ at[r] \in {"new", "taking"} /\ at' = [at EXCEPT ![r] = at'[r]]
      /\ at'[r] \in {"taking", "preflight", "finish"}
  BY DEF Look, Take, Go, PipelineTypeOK
<1>3. DOMAIN snap[r] = {}
  BY <1>2 DEF FixInv, OwnCopies
<1>4. /\ \A s \in Runs \ {r} : entry'[s] = entry[s] /\ worst'[s] = worst[s]
      /\ entry'[r] = "refused" => at'[r] = "finish"
      /\ at'[r] \in Body => entry'[r] # "none"
  BY DEF Look, Take, Go, Placed, PipelineTypeOK, Body
<1>5. \A s \in Runs : Failed(s)' => Failed(s) \/ DOMAIN snap[s] = {}
  BY <1>1, <1>2, <1>3, <1>4 DEF Failed, PipelineTypeOK
<1> QED
  BY <1>1, <1>2, <1>3, <1>4, <1>5, FixElsewhere

LEMMA FixLeaves ==
    ASSUME PipelineTypeOK, Placed, FixInv, NEW r \in Runs,
           Finish(r) \/ Raise(r) \/ Kill(r) \/ Exit(r)
    PROVE  FixInv'
<1>1. UNCHANGED <<snap, tree, entry, worst>>
  BY DEF Finish, Raise, Kill, Exit
<1>2. at' = [at EXCEPT ![r] = "over"] \/ at' = [at EXCEPT ![r] = "gone"]
  BY DEF Finish, Raise, Kill, Exit, Go
<1>3. \A s \in Runs \ {r} : result'[s] = result[s]
  BY DEF Finish, Raise, Kill, Exit, PipelineTypeOK
<1>4. result'[r] = "FAIL" => result[r] = "FAIL" \/ (at[r] = "finish" /\ worst[r] = FAIL)
  BY DEF Finish, Raise, Kill, Exit, Named, PipelineTypeOK, OK, FAIL
<1>5. \A s \in Runs : Failed(s)' => Failed(s)
  BY <1>1, <1>2, <1>3, <1>4 DEF Failed, PipelineTypeOK
<1>6. at'[r] \in {"over", "gone"} /\ at' = [at EXCEPT ![r] = at'[r]]
  BY <1>2 DEF PipelineTypeOK
<1>7. entry[r] = "refused" => DOMAIN snap[r] = {}
  BY DEF FixInv, OwnCopies
<1> QED
  BY <1>1, <1>2, <1>5, <1>6, <1>7, FixElsewhere DEF Body

LEMMA FixSnapshot ==
    ASSUME PipelineAssumption, PipelineTypeOK, Placed, FixInv, NEW r \in Runs, Snapshot(r)
    PROVE  FixInv'
<1>1. /\ at[r] = "snapshot" /\ at' = [at EXCEPT ![r] = "static"]
      /\ snap' = [snap EXCEPT ![r] = [f \in Covered(r) |-> tree[f]]]
      /\ \A s \in Runs \ {r} : worst'[s] = worst[s]
      /\ UNCHANGED <<tree, entry, result>>
  BY DEF Snapshot, Phase, Go, PipelineTypeOK
<1>2. /\ DOMAIN snap'[r] = Covered(r)
      /\ \A f \in Covered(r) : f \in Files /\ snap'[r][f] = tree[f]
      /\ \A s \in Runs \ {r} : snap'[s] = snap[s] /\ at'[s] = at[s]
      /\ at'[r] = "static"
  BY <1>1, Scopes DEF PipelineTypeOK
<1>3. Unmixed'
  BY <1>1, <1>2 DEF FixInv, Unmixed
<1>4. OwnCopies'
  BY <1>1, <1>2 DEF FixInv, OwnCopies, Unmixed, Body
<1>5. FailedGone'
  <2>1. \A s \in Runs : Failed(s)' => Failed(s) /\ s # r
    BY <1>1, <1>2 DEF Failed, Placed
  <2> QED
    BY <1>1, <1>2, <2>1 DEF FixInv, FailedGone, Body
<1> QED
  BY <1>3, <1>4, <1>5 DEF FixInv

LEMMA FixStatic ==
    ASSUME PipelineTypeOK, Placed, FixInv, NEW r \in Runs, Static(r)
    PROVE  FixInv'
<1>1. /\ at[r] = "static" /\ at'[r] = "checks"
      /\ \A s \in Runs \ {r} : worst'[s] = worst[s] /\ at'[s] = at[s]
      /\ UNCHANGED <<snap, entry, result>>
  BY DEF Static, Phase, Go, PipelineTypeOK
<1>2. \A f \in Files : tree'[f] \subseteq tree[f] \cup {r}
  BY DEF Static
<1>3. \A s \in Runs : Failed(s)' => Failed(s) /\ s # r
  BY <1>1 DEF Failed, Placed
<1>4. \A s \in Runs : DOMAIN snap[s] \subseteq Files
  BY CopyParts DEF PipelineTypeOK
<1>5. Unmixed'
  BY <1>1, <1>2 DEF FixInv, Unmixed
<1>6. OwnCopies'
  BY <1>1 DEF FixInv, OwnCopies, Body
<1>7. FailedGone'
  BY <1>1, <1>2, <1>3, <1>4 DEF FixInv, FailedGone, Body
<1> QED
  BY <1>5, <1>6, <1>7 DEF FixInv

(* Who rolls back is alone with its copy. *)
LEMMA AloneAtVerdict ==
    ASSUME PipelineTypeOK, Exclusive, NoneLockless, FixInv,
           NEW r \in Runs, at[r] = "verdict",
           NEW s \in Runs, at[s] \in Body, DOMAIN snap[s] # {}
    PROVE  s = r
<1>1. entry[r] = "locked" /\ entry[s] = "locked"
  BY DEF FixInv, OwnCopies, NoneLockless, PipelineTypeOK, Body
<1> QED
  BY <1>1 DEF Exclusive, Holds, Body

LEMMA FixVerdict ==
    ASSUME PipelineTypeOK, Placed, Exclusive, NoneLockless, FixInv, NEW r \in Runs, Verdict(r)
    PROVE  FixInv'
<1>1. /\ at[r] = "verdict" /\ at'[r] = "finish"
      /\ \A s \in Runs \ {r} : worst'[s] = worst[s] /\ at'[s] = at[s]
      /\ UNCHANGED <<snap, entry, result>>
  BY DEF Verdict, Phase, Go, PipelineTypeOK
<1>2. tree' = IF worst'[r] = FAIL THEN Restored(r) ELSE tree
  BY DEF Verdict
<1>3. \A f \in Files : tree'[f] = tree[f] \/ (f \in DOMAIN snap[r] /\ tree'[f] = snap[r][f])
  BY <1>2 DEF Restored
<1>4. worst'[r] = FAIL => \A f \in DOMAIN snap[r] : f \in Files => tree'[f] = snap[r][f]
  BY <1>2 DEF Restored
<1>5. \A s \in Runs : DOMAIN snap[s] \subseteq Files
  BY CopyParts DEF PipelineTypeOK
<1>6. Unmixed'
  BY <1>1, <1>3 DEF FixInv, Unmixed
<1>7. OwnCopies'
  BY <1>1 DEF FixInv, OwnCopies, Body
<1>8. FailedGone'
  <2> SUFFICES ASSUME NEW s \in Runs, Failed(s)', NEW f \in DOMAIN snap[s]
               PROVE  /\ s \notin tree'[f]
                      /\ \A t \in Runs : at'[t] \in Body /\ f \in DOMAIN snap[t]
                                        => s \notin snap[t][f]
    BY <1>1 DEF FailedGone
  <2>1. \A t \in Runs : at'[t] \in Body => at[t] \in Body
    BY <1>1 DEF Body
  <2>2. CASE s = r
    <3>1. worst'[r] = FAIL
      BY <1>1, <2>2 DEF Failed, Placed
    <3>2. r \notin snap[r][f]
      BY <2>2 DEF FixInv, OwnCopies
    <3>3. \A t \in Runs : at[t] \in Body /\ f \in DOMAIN snap[t] => t = r
      BY <1>1, AloneAtVerdict
    <3> QED
      BY <1>4, <1>5, <2>1, <2>2, <3>1, <3>2, <3>3
  <2>3. CASE s # r
    <3>1. Failed(s)
      BY <1>1, <2>3 DEF Failed
    <3>2. s \notin tree[f] /\ \A t \in Runs : at[t] \in Body /\ f \in DOMAIN snap[t]
                                               => s \notin snap[t][f]
      BY <3>1 DEF FixInv, FailedGone
    <3> QED
      BY <1>1, <1>3, <1>5, <2>1, <3>2 DEF Body
  <2> QED
    BY <2>2, <2>3
<1> QED
  BY <1>6, <1>7, <1>8 DEF FixInv

LEMMA FixStep ==
    ASSUME PipelineAssumption, LockInv, Exclusive, NoneLockless, NoneLockless', FixInv, [Next]_vars
    PROVE  FixInv'
<1> USE DEF LockInv
<1>1. ASSUME NEW r \in Runs, Step(r)
      PROVE  FixInv'
  BY <1>1, FixEnters, FixPhases, FixSnapshot, FixStatic, FixVerdict, FixLeaves DEF Step
<1>2. ASSUME NEW r \in Runs, Degrade(r)
      PROVE  FALSE
  BY <1>2 DEF Degrade, NoneLockless, PipelineTypeOK
<1>3. ASSUME NEW r \in Runs, Raise(r) \/ Kill(r) \/ Exit(r)
      PROVE  FixInv'
  BY <1>3, FixLeaves
<1>4. ASSUME NEW e \in Edits, NEW f \in Files, Edit(e, f)
      PROVE  FixInv'
  <2>1. \A g \in Files : tree'[g] \subseteq tree[g] \cup {e}
    BY <1>4 DEF Edit, PipelineTypeOK
  <2>2. UNCHANGED <<at, entry, worst, snap, result>> /\ e \notin Runs
    BY <1>4, PipelineAssumption DEF Edit, PipelineAssumption
  <2>3. \A s \in Runs : DOMAIN snap[s] \subseteq Files
    BY CopyParts DEF PipelineTypeOK
  <2> QED
    BY <2>1, <2>2, <2>3 DEF FixInv, Unmixed, OwnCopies, FailedGone, Failed
<1>5. CASE Age \/ UNCHANGED vars
  BY <1>5 DEF Age, vars, FixInv, Unmixed, OwnCopies, FailedGone, Failed
<1> QED
  BY <1>1, <1>2, <1>3, <1>4, <1>5 DEF Next

(* Who went on without the lock stays one who did. *)
LEMMA LocklessStays ==
    ASSUME PipelineTypeOK, Placed, [Next]_vars, NoneLockless'
    PROVE  NoneLockless
<1>1. ASSUME NEW r \in Runs, Enters(r)
      PROVE  NoneLockless
  BY <1>1 DEF Enters, Look, Take, Degrade, Placed, NoneLockless, PipelineTypeOK
<1>2. CASE UNCHANGED entry
  BY <1>2 DEF NoneLockless
<1> QED
  BY <1>1, <1>2, Kinds DEF Works, Ends, Gone, Age, Apart

(***************************************************************************)
(* Where nobody works without the lock and the lock keeps the runs apart,  *)
(* what a failed run repaired in the files it copied is gone for good: no  *)
(* rollback of another run, begun before or after, brings it back.         *)
(***************************************************************************)
THEOREM FailedFixesGoneAlways == Spec => []FailedFixesGone
<1> DEFINE Inv == /\ LockInv
                  /\ ~unruly => Exclusive
                  /\ ~unruly /\ NoneLockless => FixInv
<1>1. Init => Inv
  <2> SUFFICES ASSUME Init
               PROVE  Inv
    OBVIOUS
  <2>1. LockInv /\ Exclusive
    BY PipelineAssumption, LockInvAtFirst DEF Init, Exclusive, Holds, Body
  <2>2. FixInv
    BY DEF Init, FixInv, Unmixed, OwnCopies, FailedGone, Failed, Body
  <2> QED
    BY <2>1, <2>2
<1>2. Inv /\ [Next]_vars => Inv'
  <2> SUFFICES ASSUME Inv, [Next]_vars
               PROVE  Inv'
    OBVIOUS
  <2>1. LockInv' /\ (~unruly' => Exclusive')
    BY PipelineAssumption, NextTyped, PlacedStep, ExclusiveStep DEF LockInv
  <2>2. unruly => unruly'
    BY Kinds DEF LockInv, Enters, Look, Take, Degrade, Works, Ends, Gone, Age, Apart
  <2>3. ~unruly' /\ NoneLockless' => FixInv'
    BY <2>2, PipelineAssumption, LocklessStays, FixStep DEF LockInv
  <2> QED
    BY <2>1, <2>3
<1>3. Inv => FailedFixesGone
  BY DEF FixInv, FailedGone, Failed, FailedFixesGone, NoneLockless
<1> QED
  BY <1>1, <1>2, <1>3, PTL DEF Spec
=============================================================================
