----------------------------- MODULE KnowledgeJobs -----------------------------
(***************************************************************************)
(* The table op_jobs of the knowledge engine and those who work on it:     *)
(*  - process_archive_jobs() (knowledge/engine/jobs.py), run by the timer  *)
(*    `ke job-process` and, under the compile lock, after every compile;   *)
(*  - the worker loop of knowledge/engine/extraction_service.py, which     *)
(*    gives every extraction a child process.                              *)
(*                                                                         *)
(* A transaction is one step, and so is a statement that commits by        *)
(* itself.  Time advances in ticks of five minutes, and started_at is kept *)
(* as its age, up to Stale + 1, where it decides anything: of an archive.  *)
(* Jobs of type 'compile' are left out: the code reads them and nothing    *)
(* inserts them.                                                           *)
(***************************************************************************)
EXTENDS Integers, FiniteSets

CONSTANTS
    ArchiveJobs,   \* rows of type 'archive_source'
    ExtractJobs,   \* rows of type 'extraction'
    KeyOf,         \* dedup_key of a row
    Runners,       \* processes that may be in process_archive_jobs()
    Workers,       \* extraction services
    Stale,         \* ticks after which an archive is taken again
    ChildTime,     \* _MAX_EXTRACTION_TIME
    CrashBound     \* bound of the model on crashes, failing steps and stops

Jobs == ArchiveJobs \cup ExtractJobs

ASSUME JobsAssumption ==
    /\ ArchiveJobs \subseteq Nat /\ ExtractJobs \subseteq Nat
    /\ ArchiveJobs \cap ExtractJobs = {}
    /\ DOMAIN KeyOf = Jobs
    /\ {Stale, ChildTime, CrashBound} \subseteq Nat

VARIABLES
    status,     \* the column of that name, "none" before the INSERT
    started,    \* age of started_at, per archive
    runner,     \* per runner: where it is, its job, the jobs it has yet to do
    worker,     \* per worker: where it is and its job
    children,   \* the child processes: worker, job, point, age, orphaned
    archived,   \* history: jobs whose archive was written
    saved,      \* assets in the store, by job
    published,  \* history: jobs whose MetadataExtracted was published
    crashes     \* how many processes died, were stopped or failed in a step

table == <<status, started>>
vars  == <<table, runner, worker, children, archived, saved, published, crashes>>

Open     == {"pending", "running"}
Terminal == {"completed", "done", "failed"}

(* Nothing else with the key is open: the unique index ux_jobs_dedup. *)
KeyFree(j) == \A i \in Jobs \ {j} : KeyOf[i] = KeyOf[j] => status[i] \notin Open

Away == [at |-> "idle", job |-> 0, todo |-> {}]
Free == [at |-> "idle", job |-> 0]
Down == [at |-> "down", job |-> 0]

Init ==
    /\ status = [j \in Jobs |-> "none"]
    /\ started = [j \in ArchiveJobs |-> 0]
    /\ runner = [r \in Runners |-> Away]
    /\ worker = [w \in Workers |-> Down]
    /\ children = {}
    /\ archived = {} /\ saved = {} /\ published = {}
    /\ crashes = 0

(* enqueue_archive_job() and queue_extract(); ignored if the key is open. *)
Enqueue(j) ==
    /\ status[j] = "none" /\ KeyFree(j)
    /\ status' = [status EXCEPT ![j] = "pending"]
    /\ UNCHANGED <<started, runner, worker, children, archived, saved, published,
                   crashes>>

-----------------------------------------------------------------------------
(* process_archive_jobs()                                                  *)

(* Slip: what was abandoned is never taken again. *)
RecoveredNever == {}

Recovered == {j \in ArchiveJobs : status[j] = "running" /\ started[j] > Stale}

Listed == {j \in ArchiveJobs : status[j] = "pending"} \cup Recovered

(***************************************************************************)
(* One transaction: recover the stale jobs, list the pending, mark one as  *)
(* running.  The query names no order.                                     *)
(***************************************************************************)
Begin(r) ==
    /\ runner[r].at = "idle"
    /\ \E first \in Listed :
          /\ status' = [j \in Jobs |-> IF j = first THEN "running"
                                      ELSE IF j \in Recovered THEN "pending"
                                      ELSE status[j]]
          /\ started' = [j \in ArchiveJobs |->
                            IF j \in Recovered \cup {first} THEN 0 ELSE started[j]]
          /\ runner' = [runner EXCEPT ![r] =
                [at |-> "archiving", job |-> first, todo |-> Listed \ {first}]]
    /\ UNCHANGED <<worker, children, archived, saved, published, crashes>>

(* archive_source() outside any transaction. *)
Archive(r) ==
    LET j == runner[r].job IN
    /\ runner[r].at = "archiving"
    /\ \/ /\ runner' = [runner EXCEPT ![r].at = "completing"]
          /\ archived' = archived \cup {j}
       \/ /\ runner' = [runner EXCEPT ![r].at = "failing"]
          /\ UNCHANGED archived
    /\ UNCHANGED <<table, worker, children, saved, published, crashes>>

Write(j, value) == status' = [status EXCEPT ![j] = value]

(* Slip: the end of an archive is written whatever it was. *)
FinishAlways(r) ==
    /\ \/ runner[r].at = "completing" /\ Write(runner[r].job, "completed")
       \/ runner[r].at = "failing" /\ Write(runner[r].job, "completed")
    /\ runner' = [runner EXCEPT ![r].at = "next"]
    /\ UNCHANGED <<started, worker, children, archived, saved, published, crashes>>

(* The outcome by id, whatever the row has become. *)
Finish(r) ==
    /\ \/ runner[r].at = "completing" /\ Write(runner[r].job, "completed")
       \/ runner[r].at = "failing" /\ Write(runner[r].job, "failed")
    /\ runner' = [runner EXCEPT ![r].at = "next"]
    /\ UNCHANGED <<started, worker, children, archived, saved, published, crashes>>

Fault == crashes < CrashBound /\ crashes' = crashes + 1

(***************************************************************************)
(* The database stays locked: a result that cannot be written counts as a  *)
(* failure, a failure that cannot be written ends the run.                 *)
(***************************************************************************)
Busy(r) ==
    /\ \/ /\ runner[r].at = "completing"
          /\ runner' = [runner EXCEPT ![r].at = "failing"]
       \/ /\ runner[r].at \in {"failing", "next"}
          /\ runner' = [runner EXCEPT ![r] = Away]
    /\ Fault
    /\ UNCHANGED <<table, worker, children, archived, saved, published>>

(***************************************************************************)
(* Another job of the list is marked as running by id; the index refuses   *)
(* that if another job of its key is open by now, and the run ends.        *)
(***************************************************************************)
MarkNext(r) ==
    /\ runner[r].at = "next"
    /\ \/ \E j \in runner[r].todo :
             /\ KeyFree(j) /\ Write(j, "running")
             /\ started' = [started EXCEPT ![j] = 0]
             /\ runner' = [runner EXCEPT ![r] =
                   [at |-> "archiving", job |-> j, todo |-> @.todo \ {j}]]
       \/ /\ runner[r].todo = {} \/ \E j \in runner[r].todo : ~KeyFree(j)
          /\ runner' = [runner EXCEPT ![r] = Away]
          /\ UNCHANGED table
    /\ UNCHANGED <<worker, children, archived, saved, published, crashes>>

RunnerDies(r) ==
    /\ runner[r].at # "idle"
    /\ Fault
    /\ runner' = [runner EXCEPT ![r] = Away]
    /\ UNCHANGED <<table, worker, children, archived, saved, published>>

-----------------------------------------------------------------------------
(* The worker loop of the extraction service.                              *)

(* start_worker() *)
Start(w) ==
    /\ worker[w].at = "down"
    /\ worker' = [worker EXCEPT ![w] = Free]
    /\ UNCHANGED <<table, runner, children, archived, saved, published, crashes>>

(***************************************************************************)
(* What a service may claim.  The query also names a running row with      *)
(* started_at < datetime('now', '-900'), which is never true: a modifier   *)
(* without a unit makes datetime() NULL.                                   *)
(***************************************************************************)
Claimable(j) == j \in ExtractJobs /\ status[j] = "pending"

(* UPDATE ... RETURNING: claiming is one statement. *)
Claim(w, j) ==
    /\ worker[w].at = "idle" /\ Claimable(j)
    /\ Write(j, "running")
    /\ worker' = [worker EXCEPT ![w] = [at |-> "claimed", job |-> j]]
    /\ UNCHANGED <<started, runner, children, archived, saved, published, crashes>>

(* No extractor for the file, or no semaphore within 30 s. *)
Refuse(w) ==
    /\ worker[w].at = "claimed"
    /\ Write(worker[w].job, "failed")
    /\ worker' = [worker EXCEPT ![w] = Free]
    /\ UNCHANGED <<started, runner, children, archived, saved, published, crashes>>

Spawn(w) ==
    /\ worker[w].at = "claimed"
    /\ children' = children \cup
          {[by |-> w, job |-> worker[w].job, at |-> "extracting", age |-> 0,
            orphan |-> FALSE]}
    /\ worker' = [worker EXCEPT ![w].at = "joining"]
    /\ UNCHANGED <<table, runner, archived, saved, published, crashes>>

(* What becomes of a child: moved to another point, or gone. *)
Moved(c, at) == (children \ {c}) \cup {[c EXCEPT !.at = at]}

(* save_asset(), in a transaction of its own, or an extraction that fails. *)
Extract(c) ==
    /\ c.at = "extracting"
    /\ \/ saved' = saved \cup {c.job} /\ children' = Moved(c, "saved")
       \/ UNCHANGED saved /\ children' = Moved(c, "failing")
    /\ UNCHANGED <<table, runner, worker, archived, published, crashes>>

(* _write_job_done() or _write_job_fail(), by id. *)
ChildWrites(c) ==
    /\ c.at \in {"saved", "failing"}
    /\ Write(c.job, IF c.at = "saved" THEN "done" ELSE "failed")
    /\ children' = Moved(c, "exiting")
    /\ UNCHANGED <<started, runner, worker, archived, saved, published, crashes>>

(* The child ends; before it wrote, it was killed or could not write. *)
ChildExits(c) ==
    /\ \/ c.at = "exiting" /\ UNCHANGED crashes
       \/ c.at # "exiting" /\ Fault
    /\ children' = children \ {c}
    /\ UNCHANGED <<table, runner, worker, archived, saved, published>>

Own(w) == {c \in children : c.by = w /\ ~c.orphan}

(* Slip: the parent trusts the exit of the child. *)
ReadResultBlind(w) ==
    /\ worker[w].at = "joining" /\ Own(w) = {}
    /\ published' = published \cup {worker[w].job}
    /\ worker' = [worker EXCEPT ![w] = Free]
    /\ UNCHANGED <<table, runner, children, archived, saved, crashes>>

(***************************************************************************)
(* The child ended: the event is published if the row says done.  A row    *)
(* that still says running has no result_data to publish.                  *)
(***************************************************************************)
ReadResult(w) ==
    LET j == worker[w].job IN
    /\ worker[w].at = "joining" /\ Own(w) = {}
    /\ published' = IF status[j] = "done" THEN published \cup {j} ELSE published
    /\ worker' = [worker EXCEPT ![w] = Free]
    /\ UNCHANGED <<table, runner, children, archived, saved, crashes>>

(* Slip: the parent gives its child up without killing it. *)
TimeOutSpares(w) ==
    /\ worker[w].at = "joining"
    /\ \E c \in Own(w) : c.age >= ChildTime
    /\ children' = {IF c \in Own(w) THEN [c EXCEPT !.orphan = TRUE] ELSE c : c \in children}
    /\ worker' = [worker EXCEPT ![w].at = "expired"]
    /\ UNCHANGED <<table, runner, archived, saved, published, crashes>>

(* join() timed out: terminate, then kill; the job fails in another step. *)
TimeOut(w) ==
    /\ worker[w].at = "joining"
    /\ \E c \in Own(w) : c.age >= ChildTime /\ children' = children \ {c}
    /\ worker' = [worker EXCEPT ![w].at = "expired"]
    /\ UNCHANGED <<table, runner, archived, saved, published, crashes>>

(* Slip: the row of a job that timed out is left as it is. *)
MarkExpiredNot(w) ==
    /\ worker[w].at = "expired"
    /\ worker' = [worker EXCEPT ![w] = Free]
    /\ UNCHANGED <<table, runner, children, archived, saved, published, crashes>>

MarkExpired(w) ==
    /\ worker[w].at = "expired"
    /\ Write(worker[w].job, "failed")
    /\ worker' = [worker EXCEPT ![w] = Free]
    /\ UNCHANGED <<started, runner, children, archived, saved, published, crashes>>

(* A step of the loop raises, for a payload, a fork or a busy database. *)
Raises(w) ==
    /\ worker[w].at \in {"claimed", "joining", "expired"} /\ Own(w) = {}
    /\ Fault
    /\ worker' = [worker EXCEPT ![w] = Free]
    /\ UNCHANGED <<table, runner, children, archived, saved, published>>

(* stop_worker(): the child is terminated, its row stays as it is. *)
Stop(w) ==
    /\ worker[w].at # "down"
    /\ Fault
    /\ children' = children \ Own(w)
    /\ worker' = [worker EXCEPT ![w] = Down]
    /\ UNCHANGED <<table, runner, archived, saved, published>>

(* The process of the worker dies; its child lives on. *)
WorkerDies(w) ==
    /\ worker[w].at # "down"
    /\ Fault
    /\ children' = {IF c \in Own(w) THEN [c EXCEPT !.orphan = TRUE] ELSE c :
                      c \in children}
    /\ worker' = [worker EXCEPT ![w] = Down]
    /\ UNCHANGED <<table, runner, archived, saved, published>>

-----------------------------------------------------------------------------

Later(n, m) == IF n < m THEN n + 1 ELSE n

(***************************************************************************)
(* Five minutes pass.  A worker that waits for a child is punctual, and so *)
(* is one between its claim and its child, which wait for 30 s at most.    *)
(***************************************************************************)
Tick ==
    /\ \A w \in Workers :
          /\ worker[w].at \in {"down", "idle", "joining"}
          /\ \A c \in Own(w) : c.age < ChildTime
    /\ started' = [j \in ArchiveJobs |->
                      IF status[j] = "running" THEN Later(started[j], Stale + 1) ELSE 0]
    /\ children' = {[c EXCEPT !.age = Later(@, ChildTime)] : c \in children}
    /\ UNCHANGED <<status, runner, worker, archived, saved, published, crashes>>

RunnerStep(r) == Begin(r) \/ Archive(r) \/ Finish(r) \/ MarkNext(r)

WorkerStep(w) ==
    \/ \E j \in ExtractJobs : Claim(w, j)
    \/ Refuse(w) \/ Spawn(w) \/ ReadResult(w) \/ TimeOut(w) \/ MarkExpired(w)

Next ==
    \/ \E j \in Jobs : Enqueue(j)
    \/ \E r \in Runners : RunnerStep(r) \/ Busy(r) \/ RunnerDies(r)
    \/ \E w \in Workers : Start(w) \/ WorkerStep(w) \/ Raises(w) \/ Stop(w) \/ WorkerDies(w)
    \/ \E c \in children : Extract(c) \/ ChildWrites(c) \/ ChildExits(c)
    \/ Tick

Spec == Init /\ [][Next]_vars

(* The timer fires for ever, a started service runs, time passes.  Nobody  *)
(* owes a start_worker(), and a child may hang.                            *)
Fairness ==
    /\ \A r \in Runners : WF_vars(RunnerStep(r))
    /\ \A w \in Workers : WF_vars(WorkerStep(w))
    /\ WF_vars(Tick)

FairSpec == Spec /\ Fairness

-----------------------------------------------------------------------------

Children == [by : Workers, job : ExtractJobs,
             at : {"extracting", "saved", "failing", "exiting"},
             age : 0..ChildTime, orphan : BOOLEAN]

JobsTypeOK ==
    /\ status \in [Jobs -> {"none"} \cup Open \cup Terminal]
    /\ started \in [ArchiveJobs -> 0..(Stale + 1)]
    /\ runner \in [Runners -> [at : {"idle", "archiving", "completing", "failing",
                                     "next"},
                               job : ArchiveJobs \cup {0}, todo : SUBSET ArchiveJobs]]
    /\ worker \in [Workers -> [at : {"down", "idle", "claimed", "joining", "expired"},
                               job : ExtractJobs \cup {0}]]
    /\ children \subseteq Children
    /\ archived \subseteq ArchiveJobs
    /\ saved \subseteq ExtractJobs
    /\ published \subseteq ExtractJobs
    /\ crashes \in 0..CrashBound

(***************************************************************************)
(* A row says that work was done only if it was: completed means archived, *)
(* done means the asset is stored, and so does a published event, whatever *)
(* crashed, timed out or was taken again.                                  *)
(***************************************************************************)
ResultsReal ==
    /\ \A j \in ArchiveJobs : status[j] = "completed" => j \in archived
    /\ \A j \in ExtractJobs : status[j] = "done" => j \in saved
    /\ published \subseteq saved

(***************************************************************************)
(* No file is extracted by two processes at once, orphans included: a row  *)
(* is claimed once, its key stays closed to others while it is open, and a *)
(* child that timed out is killed before its row fails.                    *)
(***************************************************************************)
OneExtraction ==
    \A c, d \in children :
        KeyOf[c.job] = KeyOf[d.job] /\ c.at # "exiting" /\ d.at # "exiting" => c = d

(***************************************************************************)
(* Every job settles: in the end none is pending or running.  The timer    *)
(* takes archives again that were abandoned.  Not so of extractions, whose *)
(* rows of a dead child or a stopped service stay running for ever.        *)
(***************************************************************************)
AllSettle == <>[](\A j \in Jobs : status[j] \notin Open)

(***************************************************************************)
(* A fault costs one extraction at most: in the end no more rows say       *)
(* running than there were deaths, stops and failing steps, whatever times *)
(* out or hangs, and none is pending while a service is up.                *)
(***************************************************************************)
OneJobPerCrash ==
    <>[](/\ Cardinality({j \in ExtractJobs : status[j] = "running"}) <= crashes
         /\ (\E w \in Workers : worker[w].at # "down")
               => \A j \in ExtractJobs : status[j] # "pending")

(***************************************************************************)
(* A job that ended stays as it is.  Not so: a run that listed it before   *)
(* another run processed it marks it running again, and a worker whose     *)
(* join() timed out fails what its child just finished.                    *)
(***************************************************************************)
EndsOnce ==
    [][\A j \in Jobs : status[j] \in Terminal => status'[j] = status[j]]_vars

(***************************************************************************)
(* One run archives a job at a time.  Not so: two runs list the same job.  *)
(***************************************************************************)
OneArchive ==
    \A r, s \in Runners :
        runner[r].at = "archiving" /\ runner[s].at = "archiving"
        /\ runner[r].job = runner[s].job => r = s
=============================================================================
