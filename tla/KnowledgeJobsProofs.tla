-------------------------- MODULE KnowledgeJobsProofs --------------------------
(***************************************************************************)
(* What the table of jobs says was really done, and no two processes       *)
(* extract one file at once: for any number of jobs, processes and         *)
(* services, any times and any number of crashes.                          *)
(***************************************************************************)
EXTENDS KnowledgeJobs, TLAPS

(* Type correctness, in parts that few steps touch; whoever is not idle    *)
(* has a job of its kind.                                                  *)

TableTyped ==
    /\ status \in [Jobs -> {"none"} \cup Open \cup Terminal]
    /\ started \in [ArchiveJobs -> 0..(Stale + 1)]

RunnersTyped ==
    /\ runner \in [Runners -> [at : {"idle", "archiving", "completing", "failing",
                                     "next"},
                               job : ArchiveJobs \cup {0}, todo : SUBSET ArchiveJobs]]
    /\ \A r \in Runners : runner[r].at # "idle" => runner[r].job \in ArchiveJobs

WorkersTyped ==
    /\ worker \in [Workers -> [at : {"down", "idle", "claimed", "joining", "expired"},
                               job : ExtractJobs \cup {0}]]
    /\ \A w \in Workers : worker[w].at \notin {"down", "idle"} => worker[w].job \in ExtractJobs

DoneTyped ==
    /\ archived \subseteq ArchiveJobs
    /\ saved \subseteq ExtractJobs
    /\ published \subseteq ExtractJobs

JobsTyped ==
    /\ TableTyped /\ RunnersTyped /\ WorkersTyped
    /\ children \subseteq Children
    /\ DoneTyped
    /\ crashes \in 0..CrashBound

LEMMA TypedAtFirst ==
    ASSUME JobsAssumption, Init
    PROVE  JobsTyped
<1>1. TableTyped
  <2>1. 0 \in 0..(Stale + 1)
    BY DEF JobsAssumption
  <2> QED
    BY <2>1 DEF Init, TableTyped
<1>2. RunnersTyped /\ WorkersTyped
  BY DEF Init, RunnersTyped, WorkersTyped, Away, Down
<1> QED
  BY <1>1, <1>2 DEF Init, JobsTyped, DoneTyped, JobsAssumption

(* A row gets another status. *)
LEMMA WriteTyped ==
    ASSUME JobsAssumption, TableTyped, NEW j, NEW value \in Open \cup Terminal, Write(j, value),
           started' = started \/ started' = [started EXCEPT ![j] = 0]
    PROVE  TableTyped'
<1>1. 0 \in 0..(Stale + 1)
  BY DEF JobsAssumption
<1>2. status' \in [Jobs -> {"none"} \cup Open \cup Terminal]
  BY DEF TableTyped, Write
<1>3. started' \in [ArchiveJobs -> 0..(Stale + 1)]
  BY <1>1 DEF TableTyped
<1> QED
  BY <1>2, <1>3 DEF TableTyped

(* The steps of a runner. *)
LEMMA RunnerTyped ==
    ASSUME JobsAssumption, JobsTyped, NEW r \in Runners,
           RunnerStep(r) \/ Busy(r) \/ RunnerDies(r)
    PROVE  JobsTyped'
<1> USE DEF JobsTyped
<1>1. CASE Begin(r)
  <2>1. PICK first \in Listed :
          /\ status' = [j \in Jobs |-> IF j = first THEN "running"
                                      ELSE IF j \in Recovered THEN "pending"
                                      ELSE status[j]]
          /\ started' = [j \in ArchiveJobs |->
                            IF j \in Recovered \cup {first} THEN 0 ELSE started[j]]
          /\ runner' = [runner EXCEPT ![r] =
                [at |-> "archiving", job |-> first, todo |-> Listed \ {first}]]
    BY <1>1 DEF Begin
  <2>2. Listed \subseteq ArchiveJobs
    BY DEF Listed, Recovered
  <2>3. TableTyped'
    BY <2>1 DEF TableTyped, Open, JobsAssumption
  <2>4. RunnersTyped'
    BY <2>1, <2>2 DEF RunnersTyped
  <2> QED
    BY <1>1, <2>3, <2>4 DEF Begin, WorkersTyped, DoneTyped
<1>2. CASE Archive(r)
  <2>1. RunnersTyped' /\ DoneTyped'
    BY <1>2 DEF Archive, RunnersTyped, DoneTyped
  <2> QED
    BY <1>2, <2>1 DEF Archive, table, TableTyped, WorkersTyped
<1>3. CASE Finish(r)
  <2>1. TableTyped'
    BY <1>3, WriteTyped DEF Finish, Terminal
  <2>2. RunnersTyped'
    BY <1>3 DEF Finish, RunnersTyped
  <2> QED
    BY <1>3, <2>1, <2>2 DEF Finish, WorkersTyped, DoneTyped
<1>4. CASE MarkNext(r)
  <2>1. CASE \E j \in runner[r].todo :
             /\ KeyFree(j) /\ Write(j, "running")
             /\ started' = [started EXCEPT ![j] = 0]
             /\ runner' = [runner EXCEPT ![r] =
                   [at |-> "archiving", job |-> j, todo |-> @.todo \ {j}]]
    <3>1. PICK j \in runner[r].todo :
             /\ KeyFree(j) /\ Write(j, "running")
             /\ started' = [started EXCEPT ![j] = 0]
             /\ runner' = [runner EXCEPT ![r] =
                   [at |-> "archiving", job |-> j, todo |-> @.todo \ {j}]]
      BY <2>1
    <3>2. TableTyped'
      BY <3>1, WriteTyped DEF Open
    <3>3. RunnersTyped'
      BY <3>1 DEF RunnersTyped
    <3> QED
      BY <1>4, <3>2, <3>3 DEF MarkNext, WorkersTyped, DoneTyped
  <2>2. CASE runner' = [runner EXCEPT ![r] = Away] /\ UNCHANGED table
    <3>1. RunnersTyped'
      BY <2>2 DEF RunnersTyped, Away
    <3> QED
      BY <1>4, <2>2, <3>1 DEF MarkNext, table, TableTyped, WorkersTyped, DoneTyped
  <2> QED
    BY <1>4, <2>1, <2>2 DEF MarkNext
<1>5. CASE Busy(r) \/ RunnerDies(r)
  <2>1. RunnersTyped'
    BY <1>5 DEF Busy, RunnerDies, RunnersTyped, Away
  <2>2. crashes' \in 0..CrashBound
    BY <1>5 DEF Busy, RunnerDies, Fault, JobsAssumption
  <2> QED
    BY <1>5, <2>1, <2>2 DEF Busy, RunnerDies, table, TableTyped, WorkersTyped, DoneTyped
<1> QED
  BY <1>1, <1>2, <1>3, <1>4, <1>5 DEF RunnerStep

(* The steps of a service. *)
LEMMA WorkerTyped ==
    ASSUME JobsAssumption, JobsTyped, NEW w \in Workers,
           Start(w) \/ WorkerStep(w) \/ Raises(w) \/ Stop(w) \/ WorkerDies(w)
    PROVE  JobsTyped'
<1> USE DEF JobsTyped
<1>1. ASSUME NEW j \in ExtractJobs, Claim(w, j)
      PROVE  JobsTyped'
  <2>1. TableTyped'
    BY <1>1, WriteTyped DEF Claim, Open
  <2>2. WorkersTyped'
    BY <1>1 DEF Claim, WorkersTyped
  <2> QED
    BY <1>1, <2>1, <2>2 DEF Claim, RunnersTyped, DoneTyped
<1>2. CASE Refuse(w) \/ MarkExpired(w)
  <2>1. TableTyped'
    BY <1>2, WriteTyped DEF Refuse, MarkExpired, Terminal
  <2>2. WorkersTyped'
    BY <1>2 DEF Refuse, MarkExpired, WorkersTyped, Free
  <2> QED
    BY <1>2, <2>1, <2>2 DEF Refuse, MarkExpired, RunnersTyped, DoneTyped
<1>3. CASE Spawn(w)
  <2>1. worker[w].job \in ExtractJobs
    BY <1>3 DEF Spawn, WorkersTyped
  <2> DEFINE new == [by |-> w, job |-> worker[w].job, at |-> "extracting", age |-> 0,
                     orphan |-> FALSE]
  <2>a. 0 \in 0..ChildTime
    BY DEF JobsAssumption
  <2>b. new \in Children
    BY <2>1, <2>a DEF Children
  <2>2. children' \subseteq Children
    BY <1>3, <2>b DEF Spawn
  <2>3. WorkersTyped'
    BY <1>3 DEF Spawn, WorkersTyped
  <2> QED
    BY <1>3, <2>2, <2>3 DEF Spawn, table, TableTyped, RunnersTyped, DoneTyped
<1>4. CASE ReadResult(w)
  <2>1. worker[w].job \in ExtractJobs
    BY <1>4 DEF ReadResult, WorkersTyped
  <2>2. WorkersTyped' /\ DoneTyped'
    BY <1>4, <2>1 DEF ReadResult, WorkersTyped, DoneTyped, Free
  <2> QED
    BY <1>4, <2>2 DEF ReadResult, table, TableTyped, RunnersTyped
<1>5. CASE TimeOut(w)
  <2>1. WorkersTyped'
    BY <1>5 DEF TimeOut, WorkersTyped
  <2>2. children' \subseteq Children
    BY <1>5 DEF TimeOut
  <2> QED
    BY <1>5, <2>1, <2>2 DEF TimeOut, table, TableTyped, RunnersTyped, DoneTyped
<1>6. CASE Stop(w) \/ WorkerDies(w)
  <2>1. WorkersTyped'
    BY <1>6 DEF Stop, WorkerDies, WorkersTyped, Down
  <2>2. children' \subseteq Children
    <3>1. ASSUME NEW c \in children
          PROVE  [c EXCEPT !.orphan = TRUE] \in Children
      BY DEF Children
    <3>2. CASE Stop(w)
      BY <3>2 DEF Stop
    <3>3. CASE WorkerDies(w)
      BY <3>1, <3>3 DEF WorkerDies
    <3> QED
      BY <1>6, <3>2, <3>3
  <2>3. crashes' \in 0..CrashBound
    BY <1>6 DEF Stop, WorkerDies, Fault, JobsAssumption
  <2> QED
    BY <1>6, <2>1, <2>2, <2>3 DEF Stop, WorkerDies, table, TableTyped, RunnersTyped, DoneTyped
<1>7. CASE Start(w) \/ Raises(w)
  <2>1. WorkersTyped'
    BY <1>7 DEF Start, Raises, WorkersTyped, Free
  <2>2. crashes' \in 0..CrashBound
    BY <1>7 DEF Start, Raises, Fault, JobsAssumption
  <2> QED
    BY <1>7, <2>1, <2>2 DEF Start, Raises, table, TableTyped, RunnersTyped, DoneTyped
<1> QED
  BY <1>1, <1>2, <1>3, <1>4, <1>5, <1>6, <1>7 DEF WorkerStep

(* The steps of a child. *)
LEMMA ChildTyped ==
    ASSUME JobsAssumption, JobsTyped, NEW c \in children,
           Extract(c) \/ ChildWrites(c) \/ ChildExits(c)
    PROVE  JobsTyped'
<1> USE DEF JobsTyped
<1>1. c \in Children
  OBVIOUS
<1>2. ASSUME NEW at \in {"extracting", "saved", "failing", "exiting"}
      PROVE  Moved(c, at) \subseteq Children
  BY <1>1 DEF Moved, Children
<1>3. CASE Extract(c)
  <2>1. children' \subseteq Children
    BY <1>2, <1>3 DEF Extract
  <2>2. DoneTyped'
    BY <1>1, <1>3 DEF Extract, DoneTyped, Children
  <2> QED
    BY <1>3, <2>1, <2>2 DEF Extract, table, TableTyped, RunnersTyped, WorkersTyped
<1>4. CASE ChildWrites(c)
  <2>1. children' \subseteq Children
    BY <1>2, <1>4 DEF ChildWrites
  <2>2. TableTyped'
    BY <1>4, WriteTyped DEF ChildWrites, Terminal
  <2> QED
    BY <1>4, <2>1, <2>2 DEF ChildWrites, RunnersTyped, WorkersTyped, DoneTyped
<1>5. CASE ChildExits(c)
  <2>1. crashes' \in 0..CrashBound
    BY <1>5 DEF ChildExits, Fault, JobsAssumption
  <2> QED
    BY <1>5, <2>1 DEF ChildExits, table, TableTyped, RunnersTyped, WorkersTyped, DoneTyped
<1> QED
  BY <1>3, <1>4, <1>5

LEMMA TickTyped ==
    ASSUME JobsAssumption, JobsTyped, Tick
    PROVE  JobsTyped'
<1> USE DEF JobsTyped
<1>1. TableTyped'
  BY DEF Tick, TableTyped, Later, JobsAssumption
<1>2. children' \subseteq Children
  BY DEF Tick, Children, Later, JobsAssumption
<1> QED
  BY <1>1, <1>2 DEF Tick, RunnersTyped, WorkersTyped, DoneTyped

LEMMA EnqueueTyped ==
    ASSUME JobsAssumption, JobsTyped, NEW j \in Jobs, Enqueue(j)
    PROVE  JobsTyped'
<1>1. TableTyped'
  BY WriteTyped DEF Enqueue, Write, Open, JobsTyped
<1> QED
  BY <1>1 DEF Enqueue, JobsTyped, RunnersTyped, WorkersTyped, DoneTyped

LEMMA JobsTypedStep ==
    ASSUME JobsAssumption, JobsTyped, [Next]_vars
    PROVE  JobsTyped'
<1>1. CASE UNCHANGED vars
  BY <1>1 DEF vars, table, JobsTyped, TableTyped, RunnersTyped, WorkersTyped, DoneTyped
<1> QED
  BY <1>1, RunnerTyped, WorkerTyped, ChildTyped, TickTyped, EnqueueTyped DEF Next

(***************************************************************************)
(* The rows, processes, children and histories of KnowledgeJobs keep their *)
(* domains, whatever crashes or is taken again.                            *)
(***************************************************************************)
THEOREM JobsTypeCorrect == Spec => []JobsTypeOK
<1>1. Init => JobsTyped
  BY JobsAssumption, TypedAtFirst
<1>2. JobsTyped /\ [Next]_vars => JobsTyped'
  BY JobsAssumption, JobsTypedStep
<1>3. JobsTyped => JobsTypeOK
  BY DEF JobsTyped, JobsTypeOK, TableTyped, RunnersTyped, WorkersTyped, DoneTyped
<1> QED
  BY <1>1, <1>2, <1>3, PTL DEF Spec

-----------------------------------------------------------------------------
(* What was really done.  Who is about to say so has done it.              *)

AboutToSay ==
    /\ \A r \in Runners : runner[r].at = "completing" => runner[r].job \in archived
    /\ \A c \in children : c.at = "saved" => c.job \in saved

RealInv == JobsTyped /\ ResultsReal /\ AboutToSay

(* What a step may change, for this. *)
Honest ==
    /\ \A j \in ArchiveJobs : status'[j] = "completed" => status[j] = "completed" \/ j \in archived
    /\ \A j \in ExtractJobs : status'[j] = "done" => status[j] = "done" \/ j \in saved
    /\ archived \subseteq archived' /\ saved \subseteq saved'
    /\ published' \subseteq published \cup saved
    /\ \A r \in Runners : runner'[r].at = "completing" =>
          runner'[r].job \in archived' \/ runner'[r] = runner[r]
    /\ \A c \in children' : c.at = "saved" =>
          c.job \in saved' \/ \E d \in children : d.at = "saved" /\ d.job = c.job

LEMMA HonestKeeps ==
    ASSUME ResultsReal, AboutToSay, Honest
    PROVE  ResultsReal' /\ AboutToSay'
BY DEF ResultsReal, AboutToSay, Honest

LEMMA RunnerHonest ==
    ASSUME RealInv, NEW r \in Runners, RunnerStep(r) \/ Busy(r) \/ RunnerDies(r)
    PROVE  Honest
<1> USE DEF RealInv, JobsTyped, Honest, AboutToSay
<1>1. CASE Begin(r)
  BY <1>1 DEF Begin, RunnersTyped, TableTyped, Jobs
<1>2. CASE Archive(r)
  BY <1>2 DEF Archive, RunnersTyped, table
<1>3. CASE Finish(r)
  BY <1>3 DEF Finish, Write, RunnersTyped, TableTyped, Jobs
<1>4. CASE MarkNext(r)
  BY <1>4 DEF MarkNext, Write, Away, RunnersTyped, TableTyped, Jobs, table
<1>5. CASE Busy(r) \/ RunnerDies(r)
  BY <1>5 DEF Busy, RunnerDies, Away, RunnersTyped, table
<1> QED
  BY <1>1, <1>2, <1>3, <1>4, <1>5 DEF RunnerStep

LEMMA WorkerHonest ==
    ASSUME RealInv, NEW w \in Workers, Start(w) \/ WorkerStep(w) \/ Raises(w) \/ Stop(w) \/ WorkerDies(w)
    PROVE  Honest
<1> USE DEF RealInv, JobsTyped, Honest, AboutToSay
<1>1. ASSUME NEW j \in ExtractJobs, Claim(w, j)
      PROVE  Honest
  BY <1>1 DEF Claim, Write, TableTyped, Jobs
<1>2. CASE Refuse(w) \/ MarkExpired(w)
  BY <1>2 DEF Refuse, MarkExpired, Write, TableTyped, Jobs
<1>3. CASE Spawn(w)
  BY <1>3 DEF Spawn, table
<1>4. CASE ReadResult(w)
  <2>1. worker[w].job \in ExtractJobs
    BY <1>4 DEF ReadResult, WorkersTyped
  <2> QED
    BY <1>4, <2>1 DEF ReadResult, ResultsReal, table
<1>5. CASE TimeOut(w) \/ Start(w) \/ Raises(w) \/ Stop(w)
  BY <1>5 DEF TimeOut, Start, Raises, Stop, table
<1>6. CASE WorkerDies(w)
  <2>1. \A c \in children' : \E d \in children : d.at = c.at /\ d.job = c.job
    BY <1>6 DEF WorkerDies, Children
  <2> QED
    BY <1>6, <2>1 DEF WorkerDies, table
<1> QED
  BY <1>1, <1>2, <1>3, <1>4, <1>5, <1>6 DEF WorkerStep

LEMMA ChildHonest ==
    ASSUME RealInv, NEW c \in children, Extract(c) \/ ChildWrites(c) \/ ChildExits(c)
    PROVE  Honest
<1> USE DEF RealInv, JobsTyped, Honest, AboutToSay
<1>1. c \in Children
  OBVIOUS
<1>2. CASE Extract(c)
  BY <1>1, <1>2 DEF Extract, Moved, Children, table
<1>3. CASE ChildWrites(c)
  BY <1>1, <1>3 DEF ChildWrites, Moved, Write, Children, TableTyped, Jobs
<1>4. CASE ChildExits(c)
  BY <1>4 DEF ChildExits, table
<1> QED
  BY <1>2, <1>3, <1>4

LEMMA HonestStep ==
    ASSUME RealInv, [Next]_vars
    PROVE  Honest
<1> USE DEF RealInv, JobsTyped, Honest, AboutToSay
<1>1. ASSUME NEW j \in Jobs, Enqueue(j)
      PROVE  Honest
  BY <1>1 DEF Enqueue, TableTyped, Jobs
<1>2. CASE Tick
  <2>1. \A c \in children' : \E d \in children : d.at = c.at /\ d.job = c.job
    BY <1>2 DEF Tick, Children
  <2> QED
    BY <1>2, <2>1 DEF Tick
<1>3. CASE UNCHANGED vars
  BY <1>3 DEF vars, table
<1> QED
  BY <1>1, <1>2, <1>3, RunnerHonest, WorkerHonest, ChildHonest DEF Next

(***************************************************************************)
(* process_archive_jobs() and the extraction services: completed and done  *)
(* mean what they say, and events are published of stored assets only, for *)
(* any number of processes, whatever crashes, times out or is done twice.  *)
(***************************************************************************)
THEOREM ResultsAlwaysReal == Spec => []ResultsReal
<1>1. Init => RealInv
  BY JobsAssumption, TypedAtFirst DEF Init, RealInv, ResultsReal, AboutToSay, Away, Jobs
<1>2. RealInv /\ [Next]_vars => RealInv'
  BY JobsAssumption, JobsTypedStep, HonestStep, HonestKeeps DEF RealInv
<1>3. RealInv => ResultsReal
  BY DEF RealInv
<1> QED
  BY <1>1, <1>2, <1>3, PTL DEF Spec

-----------------------------------------------------------------------------
(* Who extracts.  Whoever has a job, or works for it, has it alone, and    *)
(* its row is neither new nor to claim again.                              *)

Has(w)   == worker[w].at \in {"claimed", "joining", "expired"}
Taken(j) == status[j] \notin {"none", "pending"}

KeysClosed ==
    \A i, j \in Jobs :
        status[i] \in Open /\ status[j] \in Open /\ KeyOf[i] = KeyOf[j] => i = j

JobsTaken ==
    /\ \A w \in Workers : Has(w) => Taken(worker[w].job)
    /\ \A c \in children : Taken(c.job)

HadAlone ==
    /\ \A v, w \in Workers : Has(v) /\ Has(w) /\ worker[v].job = worker[w].job => v = w
    /\ \A c, d \in children : c.job = d.job => c = d

Parented ==
    \A c \in children : ~c.orphan =>
        worker[c.by].at = "joining" /\ worker[c.by].job = c.job

Childless ==
    \A w \in Workers : worker[w].at \in {"claimed", "expired"} =>
        \A c \in children : c.job # worker[w].job

WorkRuns ==
    /\ \A w \in Workers : worker[w].at = "claimed" => status[worker[w].job] = "running"
    /\ \A c \in children : c.at # "exiting" => status[c.job] = "running"

HandsInv   == JobsTaken /\ HadAlone /\ Parented /\ Childless /\ WorkRuns
ExtractInv == KeysClosed /\ HandsInv

(* A row is opened only if its key is free. *)
LEMMA OpensFree ==
    ASSUME KeysClosed, NEW j \in Jobs,
           status'[j] \in Open => status[j] \in Open \/ KeyFree(j),
           \A i \in Jobs \ {j} : status'[i] \in Open => status[i] \in Open
    PROVE  KeysClosed'
BY DEF KeysClosed, KeyFree

LEMMA KeysStayClosed ==
    ASSUME JobsTyped, KeysClosed, [Next]_vars
    PROVE  KeysClosed'
<1> USE DEF JobsTyped, TableTyped
<1>1. ASSUME NEW j \in Jobs, Enqueue(j)
      PROVE  KeysClosed'
  BY <1>1, OpensFree DEF Enqueue
<1>2. ASSUME NEW j \in Jobs, NEW value, Write(j, value),
             value \in Open => status[j] \in Open \/ KeyFree(j)
      PROVE  KeysClosed'
  BY <1>2, OpensFree DEF Write
<1>3. ASSUME status' = status
      PROVE  KeysClosed'
  BY <1>3 DEF KeysClosed
<1>4. ASSUME NEW r \in Runners, RunnerStep(r) \/ Busy(r) \/ RunnerDies(r)
      PROVE  KeysClosed'
  <2>1. CASE Begin(r)
    <3>1. \A j \in Jobs : status'[j] \in Open => status[j] \in Open
      BY <2>1 DEF Begin, Listed, Recovered, Open
    <3> QED
      BY <3>1 DEF KeysClosed
  <2>2. CASE Finish(r)
    <3>1. runner[r].job \in Jobs
      BY <2>2 DEF Finish, RunnersTyped, Jobs
    <3> QED
      BY <1>2, <2>2, <3>1 DEF Finish, Open
  <2>3. CASE MarkNext(r)
    <3>1. runner[r].todo \subseteq Jobs
      BY DEF RunnersTyped, Jobs
    <3> QED
      BY <1>2, <1>3, <2>3, <3>1 DEF MarkNext, table
  <2>4. CASE Archive(r) \/ Busy(r) \/ RunnerDies(r)
    BY <1>3, <2>4 DEF Archive, Busy, RunnerDies, table
  <2> QED
    BY <1>4, <2>1, <2>2, <2>3, <2>4 DEF RunnerStep
<1>5. ASSUME NEW w \in Workers,
             Start(w) \/ WorkerStep(w) \/ Raises(w) \/ Stop(w) \/ WorkerDies(w)
      PROVE  KeysClosed'
  <2>1. ASSUME NEW j \in ExtractJobs, Claim(w, j)
        PROVE  KeysClosed'
    BY <1>2, <2>1 DEF Claim, Claimable, Open, Jobs
  <2>2. CASE Refuse(w) \/ MarkExpired(w)
    <3>1. worker[w].job \in Jobs
      BY <2>2 DEF Refuse, MarkExpired, WorkersTyped, Jobs
    <3> QED
      BY <1>2, <2>2, <3>1 DEF Refuse, MarkExpired, Open
  <2>3. CASE Start(w) \/ Spawn(w) \/ ReadResult(w) \/ TimeOut(w) \/ Raises(w) \/ Stop(w)
             \/ WorkerDies(w)
    BY <1>3, <2>3 DEF Start, Spawn, ReadResult, TimeOut, Raises, Stop, WorkerDies, table
  <2> QED
    BY <1>5, <2>1, <2>2, <2>3 DEF WorkerStep
<1>6. ASSUME NEW c \in children, Extract(c) \/ ChildWrites(c) \/ ChildExits(c)
      PROVE  KeysClosed'
  <2>1. CASE ChildWrites(c)
    <3>1. c.job \in Jobs
      BY DEF Children, Jobs
    <3> QED
      BY <1>2, <2>1, <3>1 DEF ChildWrites, Open
  <2> QED
    BY <1>3, <1>6, <2>1 DEF Extract, ChildExits, table
<1>7. CASE Tick \/ UNCHANGED vars
  BY <1>3, <1>7 DEF Tick, vars, table
<1> QED
  BY <1>1, <1>4, <1>5, <1>6, <1>7 DEF Next

(***************************************************************************)
(* Steps by which nobody gets a job: services let go, or expire when no    *)
(* child is left, children go, are orphaned or move on, rows end.          *)
(***************************************************************************)
LetsGo(w) ==
    \/ worker'[w] = worker[w]
    \/ worker'[w].at \in {"down", "idle"}
    \/ /\ worker'[w].at = "expired" /\ Has(w) /\ worker'[w].job = worker[w].job
       /\ \A c \in children' : c.job # worker[w].job

Follows(c, d) ==
    /\ d.by = c.by /\ d.job = c.job
    /\ ~d.orphan => ~c.orphan /\ worker'[c.by] = worker[c.by]
    /\ d.at # "exiting" => c.at # "exiting"

LEMMA NobodyGets ==
    ASSUME JobsTyped, HandsInv,
           \A w \in Workers : LetsGo(w),
           \A d \in children' : \E c \in children : Follows(c, d),
           \A d, e \in children' : d.job = e.job => d = e,
           \A j \in ExtractJobs : Taken(j) => Taken(j)',
           \A w \in Workers : worker'[w].at = "claimed" /\ status[worker[w].job] = "running"
                               => status'[worker[w].job] = "running",
           \A d \in children' : d.at # "exiting" /\ status[d.job] = "running"
                                  => status'[d.job] = "running"
    PROVE  HandsInv'
<1> USE DEF HandsInv
<1>1. \A w \in Workers : Has(w)' => /\ Has(w) /\ worker'[w].job = worker[w].job
                                    /\ worker[w].job \in ExtractJobs
  BY DEF LetsGo, Has, JobsTyped, WorkersTyped
<1>2. \A d \in children' : \E c \in children : Follows(c, d) /\ c.job \in ExtractJobs
  BY DEF JobsTyped, Children
<1>3. JobsTaken'
  <2>1. ASSUME NEW w \in Workers, Has(w)'
        PROVE  Taken(worker[w].job)'
    BY <1>1, <2>1 DEF JobsTaken, Taken
  <2>2. ASSUME NEW d \in children'
        PROVE  Taken(d.job)'
    BY <1>2, <2>2 DEF JobsTaken, Taken, Follows
  <2> QED
    BY <2>1, <2>2 DEF JobsTaken
<1>4. HadAlone'
  BY <1>1 DEF HadAlone
<1>5. Parented'
  BY <1>2 DEF Parented, Follows
<1>6. Childless'
  BY <1>2 DEF Childless, LetsGo, Follows
<1>7. WorkRuns'
  BY <1>2 DEF WorkRuns, Follows, LetsGo
<1> QED
  BY <1>3, <1>4, <1>5, <1>6, <1>7

(* The rows of extractions are no concern of the runners. *)
LEMMA RunnerHands ==
    ASSUME JobsAssumption, JobsTyped, HandsInv, NEW r \in Runners,
           RunnerStep(r) \/ Busy(r) \/ RunnerDies(r)
    PROVE  HandsInv'
<1> USE DEF JobsTyped
<1>1. UNCHANGED <<worker, children>>
  BY DEF RunnerStep, Begin, Archive, Finish, MarkNext, Busy, RunnerDies
<1>2. ASSUME NEW j \in ExtractJobs
      PROVE  status'[j] = status[j]
  <2>1. j \notin ArchiveJobs /\ j \in Jobs
    BY DEF JobsAssumption, Jobs
  <2>2. CASE Begin(r)
    BY <2>1, <2>2 DEF Begin, Listed, Recovered
  <2>3. CASE Finish(r)
    <3>1. runner[r].job \in ArchiveJobs
      BY <2>3 DEF Finish, RunnersTyped
    <3> QED
      BY <2>1, <2>3, <3>1 DEF Finish, Write, TableTyped
  <2>4. CASE MarkNext(r)
    BY <2>1, <2>4 DEF MarkNext, Write, TableTyped, RunnersTyped, table
  <2>5. CASE Archive(r) \/ Busy(r) \/ RunnerDies(r)
    BY <2>5 DEF Archive, Busy, RunnerDies, table
  <2> QED
    BY <2>2, <2>3, <2>4, <2>5 DEF RunnerStep
<1>3. /\ \A c \in children : c.job \in ExtractJobs
      /\ \A w \in Workers : worker[w].at = "claimed" => worker[w].job \in ExtractJobs
  BY DEF Children, WorkersTyped
<1>4. /\ \A w \in Workers : LetsGo(w)
      /\ \A d \in children' : \E c \in children : Follows(c, d)
  BY <1>1 DEF LetsGo, Follows
<1> QED
  BY <1>1, <1>2, <1>3, <1>4, NobodyGets DEF HandsInv, HadAlone, Taken

LEMMA ChildHands ==
    ASSUME JobsTyped, HandsInv, NEW c \in children,
           Extract(c) \/ ChildWrites(c) \/ ChildExits(c)
    PROVE  HandsInv'
<1>1. c \in Children /\ worker' = worker
  BY DEF JobsTyped, Extract, ChildWrites, ChildExits
<1>2. \A d, e \in children : d.job = e.job => d = e
  BY DEF HandsInv, HadAlone
<1>3. \A w \in Workers : LetsGo(w)
  BY <1>1 DEF LetsGo
<1>4. ASSUME NEW at, children' = Moved(c, at), at # "exiting" => c.at # "exiting"
      PROVE  /\ \A d \in children' : \E e \in children : Follows(e, d)
             /\ \A d, e \in children' : d.job = e.job => d = e
  <2> DEFINE moved == [c EXCEPT !.at = at]
  <2>1. Follows(c, moved) /\ moved.job = c.job
    BY <1>1, <1>4 DEF Follows, Children
  <2>2. \A d \in children : Follows(d, d)
    BY <1>1 DEF Follows
  <2> QED
    BY <1>2, <1>4, <2>1, <2>2 DEF Moved
<1>5. CASE Extract(c)
  BY <1>1, <1>3, <1>4, <1>5, NobodyGets DEF Extract, table, Taken
<1>6. CASE ChildWrites(c)
  <2>1. /\ children' = Moved(c, "exiting")
        /\ \A j \in ExtractJobs \ {c.job} : status'[j] = status[j]
        /\ status'[c.job] \in {"done", "failed"}
    BY <1>1, <1>6 DEF ChildWrites, Write, JobsTyped, TableTyped, Children, Jobs
  <2>2. \A j \in ExtractJobs : Taken(j) => Taken(j)'
    BY <2>1 DEF Taken
  <2>3. \A d \in children' : d.at # "exiting" => d.job # c.job /\ d.job \in ExtractJobs
    BY <1>1, <1>2, <2>1 DEF Moved, JobsTyped, Children
  <2>4. \A w \in Workers : worker[w].at = "claimed" =>
          worker[w].job # c.job /\ worker[w].job \in ExtractJobs
    BY DEF HandsInv, Childless, JobsTyped, WorkersTyped
  <2> QED
    BY <1>1, <1>3, <1>4, <2>1, <2>2, <2>3, <2>4, NobodyGets
<1>7. CASE ChildExits(c)
  <2>1. \A d \in children' : d \in children /\ Follows(d, d)
    BY <1>1, <1>7 DEF ChildExits, Follows
  <2> QED
    BY <1>2, <1>3, <1>7, <2>1, NobodyGets DEF ChildExits, table, Taken
<1> QED
  BY <1>5, <1>6, <1>7

LEMMA ClaimHands ==
    ASSUME JobsTyped, HandsInv, NEW w \in Workers, NEW j \in ExtractJobs, Claim(w, j)
    PROVE  HandsInv'
<1> USE DEF HandsInv
<1>1. /\ worker[w].at = "idle" /\ status[j] = "pending"
      /\ status' = [status EXCEPT ![j] = "running"]
      /\ worker' = [worker EXCEPT ![w] = [at |-> "claimed", job |-> j]]
      /\ children' = children
  BY DEF Claim, Claimable, Write
<1>2. \A v \in Workers \ {w} : worker'[v] = worker[v]
  BY <1>1 DEF JobsTyped, WorkersTyped
<1>3. worker'[w] = [at |-> "claimed", job |-> j]
  BY <1>1 DEF JobsTyped, WorkersTyped
<1>4. \A v \in Workers : Has(v) => worker[v].job # j
  BY <1>1 DEF JobsTaken, Taken
<1>5. \A c \in children : c.job # j
  BY <1>1 DEF JobsTaken, Taken
<1>6. \A i : status'[i] = status[i] \/ status'[i] = "running"
  BY <1>1 DEF JobsTyped, TableTyped
<1>7. status'[j] = "running"
  BY <1>1 DEF JobsTyped, TableTyped, Jobs
<1>8. JobsTaken'
  BY <1>1, <1>2, <1>3, <1>6, <1>7 DEF JobsTaken, Taken, Has
<1>9. HadAlone'
  BY <1>1, <1>2, <1>3, <1>4 DEF HadAlone, Has
<1>10. Parented'
  BY <1>1, <1>2 DEF Parented, JobsTyped, Children
<1>11. Childless'
  BY <1>1, <1>2, <1>3, <1>5 DEF Childless
<1>12. WorkRuns'
  BY <1>1, <1>2, <1>3, <1>6, <1>7 DEF WorkRuns
<1> QED
  BY <1>8, <1>9, <1>10, <1>11, <1>12

LEMMA SpawnHands ==
    ASSUME JobsTyped, HandsInv, NEW w \in Workers, Spawn(w)
    PROVE  HandsInv'
<1> USE DEF HandsInv
<1> DEFINE new == [by |-> w, job |-> worker[w].job, at |-> "extracting", age |-> 0,
                   orphan |-> FALSE]
<1>1. /\ worker[w].at = "claimed" /\ status' = status
      /\ children' = children \cup {new}
  BY DEF Spawn, table
<1>2. \A v \in Workers \ {w} : worker'[v] = worker[v]
  BY DEF Spawn, JobsTyped, WorkersTyped
<1>3. worker'[w].at = "joining" /\ worker'[w].job = worker[w].job
  BY DEF Spawn, JobsTyped, WorkersTyped
<1>4. \A c \in children : c.job # new.job
  BY <1>1 DEF Childless
<1>5. \A v \in Workers : Has(v)' => Has(v) /\ worker'[v].job = worker[v].job
  BY <1>1, <1>2, <1>3 DEF Has
<1>6. JobsTaken'
  BY <1>1, <1>5 DEF JobsTaken, Taken, Has
<1>7. HadAlone'
  BY <1>1, <1>4, <1>5 DEF HadAlone
<1>8. Parented'
  BY <1>1, <1>2, <1>3 DEF Parented, JobsTyped, Children
<1>9. Childless'
  BY <1>1, <1>2, <1>3 DEF Childless, HadAlone, Has
<1>10. WorkRuns'
  BY <1>1, <1>2, <1>3 DEF WorkRuns
<1> QED
  BY <1>6, <1>7, <1>8, <1>9, <1>10

(* The other steps of a service. *)
LEMMA WorkerHands ==
    ASSUME JobsTyped, HandsInv, NEW w \in Workers,
           Start(w) \/ WorkerStep(w) \/ Raises(w) \/ Stop(w) \/ WorkerDies(w)
    PROVE  HandsInv'
<1>1. \A c \in children : c \in Own(w) <=> c.by = w /\ ~c.orphan
  BY DEF Own
<1>2. /\ \A d, e \in children : d.job = e.job => d = e
      /\ \A c \in children : ~c.orphan =>
            worker[c.by].at = "joining" /\ worker[c.by].job = c.job
  BY DEF HandsInv, HadAlone, Parented
<1>3. ASSUME NEW place, worker' = [worker EXCEPT ![w] = place],
             place.at \in {"down", "idle"}
      PROVE  /\ \A v \in Workers : LetsGo(v)
             /\ \A v \in Workers : worker'[v].at = "claimed" => v # w /\ worker'[v] = worker[v]
             /\ \A v \in Workers \ {w} : worker'[v] = worker[v]
  BY <1>3 DEF LetsGo, JobsTyped, WorkersTyped
<1>4. CASE Refuse(w) \/ MarkExpired(w)
  <2>1. /\ worker' = [worker EXCEPT ![w] = Free] /\ children' = children
        /\ worker[w].at \in {"claimed", "expired"}
        /\ status' = [status EXCEPT ![worker[w].job] = "failed"]
    BY <1>4 DEF Refuse, MarkExpired, Write
  <2>2. \A j \in ExtractJobs : Taken(j) => Taken(j)'
    BY <2>1 DEF Taken, JobsTyped, TableTyped, Jobs
  <2>3. \A c \in children : c.job # worker[w].job /\ status'[c.job] = status[c.job]
    BY <2>1 DEF HandsInv, Childless, JobsTyped, TableTyped, Children, Jobs
  <2>4. \A v \in Workers \ {w} : worker[v].at = "claimed" =>
           worker[v].job # worker[w].job /\ status'[worker[v].job] = status[worker[v].job]
    BY <2>1 DEF HandsInv, HadAlone, Has, JobsTyped, TableTyped, WorkersTyped, Jobs
  <2>5. \A d \in children' : Follows(d, d)
    BY <1>2, <1>3, <2>1 DEF Follows, Free, JobsTyped, Children
  <2> QED
    BY <1>2, <1>3, <2>1, <2>2, <2>3, <2>4, <2>5, NobodyGets DEF Free
<1>5. CASE Start(w) \/ ReadResult(w) \/ Raises(w) \/ Stop(w)
  <2>1. /\ \/ worker' = [worker EXCEPT ![w] = Free]
           \/ worker' = [worker EXCEPT ![w] = Down]
        /\ status' = status
        /\ children' = children \ Own(w)
    <3>1. CASE Start(w)
      BY <1>1, <1>2, <3>1 DEF Start, table
    <3> QED
      BY <1>5, <3>1 DEF ReadResult, Raises, Stop, table
  <2>2. \A d \in children' : d \in children /\ Follows(d, d)
    BY <1>1, <1>3, <2>1 DEF Follows, Free, Down, JobsTyped, Children
  <2> QED
    BY <1>2, <1>3, <2>1, <2>2, NobodyGets DEF Free, Down, Taken
<1>6. CASE WorkerDies(w)
  <2> DEFINE left(d) == IF d \in Own(w) THEN [d EXCEPT !.orphan = TRUE] ELSE d
  <2>1. /\ worker' = [worker EXCEPT ![w] = Down] /\ status' = status
        /\ children' = {left(d) : d \in children}
    BY <1>6 DEF WorkerDies, table
  <2>2. \A d \in children : left(d).job = d.job /\ Follows(d, left(d))
    BY <1>1, <1>3, <2>1 DEF Follows, Down, JobsTyped, Children
  <2>3. \A d \in children' : \E c \in children : d = left(c)
    BY <2>1
  <2> HIDE DEF left
  <2>4. /\ \A d \in children' : \E c \in children : Follows(c, d)
        /\ \A d, e \in children' : d.job = e.job => d = e
    BY <1>2, <2>2, <2>3
  <2> QED
    BY <1>3, <2>1, <2>4, NobodyGets DEF Down, Taken
<1>7. CASE TimeOut(w)
  <2>1. PICK c \in Own(w) : children' = children \ {c}
    BY <1>7 DEF TimeOut
  <2>2. /\ worker[w].at = "joining" /\ status' = status
        /\ worker'[w].at = "expired" /\ worker'[w].job = worker[w].job
        /\ \A v \in Workers \ {w} : worker'[v] = worker[v]
    BY <1>7 DEF TimeOut, table, JobsTyped, WorkersTyped
  <2>3. c \in children /\ c.job = worker[w].job
    BY <1>1, <1>2, <2>1 DEF Own
  <2>4. \A d \in children' : d \in children /\ d.job # worker[w].job
    BY <1>2, <2>1, <2>3
  <2>5. \A d \in children' : Follows(d, d)
    BY <1>2, <2>2, <2>4 DEF Follows, JobsTyped, Children
  <2>6. \A v \in Workers : LetsGo(v)
    BY <2>2, <2>4 DEF LetsGo, Has
  <2> QED
    BY <1>2, <2>2, <2>4, <2>5, <2>6, NobodyGets DEF Taken
<1> QED
  BY <1>4, <1>5, <1>6, <1>7, ClaimHands, SpawnHands DEF WorkerStep

LEMMA TickHands ==
    ASSUME JobsTyped, HandsInv, Tick
    PROVE  HandsInv'
<1> DEFINE older(c) == [c EXCEPT !.age = Later(@, ChildTime)]
<1>1. /\ worker' = worker /\ status' = status
      /\ children' = {older(c) : c \in children}
  BY DEF Tick
<1>2. \A c \in children : older(c).job = c.job /\ Follows(c, older(c))
  BY <1>1 DEF Follows, JobsTyped, Children
<1>3. \A d \in children' : \E c \in children : d = older(c)
  BY <1>1
<1> HIDE DEF older
<1>4. /\ \A d \in children' : \E c \in children : Follows(c, d)
      /\ \A d, e \in children' : d.job = e.job => d = e
  BY <1>2, <1>3 DEF HandsInv, HadAlone
<1> QED
  BY <1>1, <1>4, NobodyGets DEF LetsGo, Taken

LEMMA EnqueueHands ==
    ASSUME JobsTyped, HandsInv, NEW j \in Jobs, Enqueue(j)
    PROVE  HandsInv'
<1>1. /\ UNCHANGED <<worker, children>>
      /\ \A i : i # j => status'[i] = status[i]
      /\ status[j] = "none"
  BY DEF Enqueue, JobsTyped, TableTyped
<1>2. /\ \A d \in children' : d \in children /\ Follows(d, d)
      /\ \A w \in Workers : LetsGo(w)
  BY <1>1 DEF Follows, LetsGo
<1> QED
  BY <1>1, <1>2, NobodyGets DEF HandsInv, HadAlone, Taken

(***************************************************************************)
(* The extraction services: no file is extracted by two processes at once, *)
(* for any number of services, stops and deaths, any times and any hanging *)
(* child.  The unique index on the key alone does not give it: a row must  *)
(* not end before its child, nor be claimed again.                         *)
(***************************************************************************)
THEOREM OneExtractionAlways == Spec => []OneExtraction
<1>1. Init => JobsTyped /\ ExtractInv
  <2> SUFFICES ASSUME Init
               PROVE  ExtractInv
    BY JobsAssumption, TypedAtFirst
  <2>1. \A w \in Workers : worker[w].at = "down"
    BY DEF Init, Down
  <2>2. KeysClosed
    BY DEF Init, KeysClosed, Open
  <2> QED
    BY <2>1, <2>2 DEF Init, ExtractInv, HandsInv, JobsTaken, HadAlone, Parented, Childless,
       WorkRuns, Has
<1>2. JobsTyped /\ ExtractInv /\ [Next]_vars => JobsTyped' /\ ExtractInv'
  <2> SUFFICES ASSUME JobsTyped, ExtractInv, [Next]_vars
               PROVE  HandsInv'
    BY JobsAssumption, JobsTypedStep, KeysStayClosed DEF ExtractInv
  <2>1. HandsInv
    BY DEF ExtractInv
  <2>2. CASE UNCHANGED vars
    BY <2>1, <2>2 DEF vars, table, HandsInv, JobsTaken, HadAlone, Parented, Childless,
       WorkRuns, Has, Taken
  <2> QED
    BY <2>1, <2>2, JobsAssumption, EnqueueHands, RunnerHands, WorkerHands, ChildHands,
       TickHands DEF Next
<1>3. JobsTyped /\ ExtractInv => OneExtraction
  BY DEF ExtractInv, HandsInv, OneExtraction, KeysClosed, HadAlone, WorkRuns, JobsTyped,
     Children, Jobs, Open
<1> QED
  BY <1>1, <1>2, <1>3, PTL DEF Spec
=============================================================================
