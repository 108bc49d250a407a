------------------------------ MODULE TaskQueue ------------------------------
(***************************************************************************)
(* The SQLite task queue of motor/orchestration/task_queue.py, used by     *)
(* threads of one process (one TaskQueue object, whose self._lock they     *)
(* share) and by several processes or objects (one lock each).             *)
(*                                                                         *)
(* An operation made of one UPDATE is one step: SQLite serialises writers. *)
(* An operation that SELECTs and then UPDATEs is two steps, because the    *)
(* SELECT runs outside a transaction: Python's sqlite3 opens one only at   *)
(* the first UPDATE.  Between the two the lock of the object is held, but  *)
(* the other objects go on.  What the SELECT returned is the caller's      *)
(* cursor.  resume() with an empty node_id reads assigned_to without the   *)
(* lock.                                                                   *)
(*                                                                         *)
(* last_heartbeat is kept as its age in ticks, capped one tick past the    *)
(* task's timeout: the code only asks whether it is older than that.       *)
(* created_at and last_heartbeat are read before the lock is taken; a task *)
(* may therefore enter the table after a task with a higher rank.  The     *)
(* task_events log, texts and timestamps nobody reads back are left out.   *)
(***************************************************************************)
EXTENDS TaskTypes, FiniteSets

CONSTANTS
    Callers,      \* threads that call the queue
    Instances,    \* TaskQueue objects
    InstanceOf,   \* the object each caller uses
    ResumeArgs,   \* what callers pass as node_id to resume()
    RetryBound    \* bound of the model on the column retries

ASSUME QueueAssumption ==
    /\ InstanceOf \in [Callers -> Instances]
    /\ ResumeArgs \subseteq Names \cup {NoOne}
    /\ RetryBound \in Nat

VARIABLES
    status, assigned_to, retries,
    last_heartbeat,   \* age in ticks, NoBeat for ''
    cursor            \* per caller: what its last SELECT returned

vars == <<status, assigned_to, retries, last_heartbeat, cursor>>

Pool == INSTANCE TaskPool WITH
            status <- status, assigned_to <- assigned_to, retries <- retries

NoBeat == -1

(* Operations that hold self._lock between their SELECT and their UPDATE. *)
Locking == {"claim_next", "fail", "release_pending", "park_in_progress",
            "release_all_paused", "recover_stale"}

Idle == [op |-> "idle", rows |-> {}, name |-> NoOne, node |-> NoOne,
         tries |-> 0, human |-> FALSE]

Cursor(op, rows, name) == [Idle EXCEPT !.op = op, !.rows = rows, !.name = name]

With(S) == {t \in Tasks : status[t] \in S}

(* Slip: ">=" for ">". *)
StaleEarly == {t \in With(Active) : last_heartbeat[t] >= Timeout[t]}

(* Age of last_heartbeat beyond the task's timeout_seconds. *)
Stale == {t \in With(Active) : last_heartbeat[t] > Timeout[t]}

(* Slip: the lock is released before the UPDATE. *)
Unlocked(c) == cursor[c] = Idle

(***************************************************************************)
(* c is between two calls and nobody is inside the lock of its object.     *)
(***************************************************************************)
CanCall(c) ==
    /\ cursor[c] = Idle
    /\ \A d \in Callers :
          InstanceOf[d] = InstanceOf[c] => cursor[d].op \notin Locking

Init ==
    /\ status = [t \in Tasks |-> "none"]
    /\ assigned_to = [t \in Tasks |-> NoOne]
    /\ retries = [t \in Tasks |-> 0]
    /\ last_heartbeat = [t \in Tasks |-> NoBeat]
    /\ cursor = [c \in Callers |-> Idle]

-----------------------------------------------------------------------------
(* Operations of one statement.                                            *)

Create(c, t) ==
    /\ CanCall(c)
    /\ t \in With({"none"})
    /\ status' = Put(status, {t}, "pending")
    /\ UNCHANGED <<assigned_to, retries, last_heartbeat, cursor>>

(* Slip: claim() without its condition on status. *)
ClaimAny(c, t, agent) ==
    /\ CanCall(c)
    /\ t \in With(Claimable \cup Active)
    /\ status' = Put(status, {t}, "assigned")
    /\ assigned_to' = Put(assigned_to, {t}, agent)
    /\ last_heartbeat' = Put(last_heartbeat, {t}, 0)
    /\ UNCHANGED <<retries, cursor>>

Claim(c, t, agent) ==
    /\ CanCall(c)
    /\ t \in With(Claimable)
    /\ status' = Put(status, {t}, "assigned")
    /\ assigned_to' = Put(assigned_to, {t}, agent)
    /\ last_heartbeat' = Put(last_heartbeat, {t}, 0)
    /\ UNCHANGED <<retries, cursor>>

Start(c, t) ==
    /\ CanCall(c)
    /\ t \in With({"assigned"})
    /\ status' = Put(status, {t}, "in_progress")
    /\ last_heartbeat' = Put(last_heartbeat, {t}, 0)
    /\ UNCHANGED <<assigned_to, retries, cursor>>

(* Slip: complete() accepts a task that was not started. *)
CompleteAssigned(c, t) ==
    /\ CanCall(c)
    /\ t \in With({"assigned", "in_progress", "review"})
    /\ status' = Put(status, {t}, "done")
    /\ UNCHANGED <<assigned_to, retries, last_heartbeat, cursor>>

Complete(c, t) ==
    /\ CanCall(c)
    /\ t \in With({"in_progress", "review"})
    /\ status' = Put(status, {t}, "done")
    /\ UNCHANGED <<assigned_to, retries, last_heartbeat, cursor>>

Review(c, t) ==
    /\ CanCall(c)
    /\ t \in With({"in_progress"})
    /\ status' = Put(status, {t}, "review")
    /\ UNCHANGED <<assigned_to, retries, last_heartbeat, cursor>>

(* Slip: heartbeat() without the lock. *)
HeartbeatUnlocked(c, t) ==
    /\ cursor[c] = Idle
    /\ t \in With(Active)
    /\ last_heartbeat' = Put(last_heartbeat, {t}, 0)
    /\ UNCHANGED <<status, assigned_to, retries, cursor>>

Heartbeat(c, t) ==
    /\ CanCall(c)
    /\ t \in With(Active)
    /\ last_heartbeat' = Put(last_heartbeat, {t}, 0)
    /\ UNCHANGED <<status, assigned_to, retries, cursor>>

Pause(c, t) ==
    /\ CanCall(c)
    /\ t \in With(Active)
    /\ status' = Put(status, {t}, "paused")
    /\ last_heartbeat' = Put(last_heartbeat, {t}, 0)
    /\ UNCHANGED <<assigned_to, retries, cursor>>

(***************************************************************************)
(* resume(): without node_id it first looks up the current owner, outside  *)
(* the lock and whatever the status; the UPDATE then asks for "paused".    *)
(***************************************************************************)
ResumeRead(c, t) ==
    /\ cursor[c] = Idle
    /\ NoOne \in ResumeArgs
    /\ status[t] # "none"
    /\ cursor' = [cursor EXCEPT ![c] = Cursor("resume", {t}, assigned_to[t])]
    /\ UNCHANGED <<status, assigned_to, retries, last_heartbeat>>

Resumed(t, name) ==
    /\ t \in With({"paused"})
    /\ status' = Put(status, {t}, "assigned")
    /\ assigned_to' = Put(assigned_to, {t}, name)
    /\ last_heartbeat' = Put(last_heartbeat, {t}, 0)
    /\ UNCHANGED retries

ResumeWrite(c) ==
    /\ cursor[c].op = "resume"
    /\ \A d \in Callers :
          InstanceOf[d] = InstanceOf[c] => cursor[d].op \notin Locking
    /\ \E t \in cursor[c].rows : Resumed(t, cursor[c].name)
    /\ cursor' = [cursor EXCEPT ![c] = Idle]

Resume(c, t, node) ==
    /\ CanCall(c)
    /\ node # NoOne
    /\ Resumed(t, node)
    /\ UNCHANGED cursor

-----------------------------------------------------------------------------
(* Operations of two statements: the SELECT ...                            *)

(* Own tasks of the node first; the whole queue when it has none. *)
Offered(node) ==
    LET prefs == {t \in With(Claimable) : NodeOf[t] = node}
    IN  IF node # NoOne /\ prefs # {} THEN prefs ELSE With(Claimable)

Select(c, row) ==
    /\ CanCall(c)
    /\ row.rows # {}
    /\ cursor' = [cursor EXCEPT ![c] = row]
    /\ UNCHANGED <<status, assigned_to, retries, last_heartbeat>>

ClaimNextSelect(c, agent, node) ==
    \E t \in Tasks :
       /\ First(t, Offered(node))
       /\ Select(c, [Cursor("claim_next", {t}, agent) EXCEPT !.node = node])

(* Slip: fail() without its check of status. *)
FailAny(c, t, require_human) ==
    /\ status[t] # "none"
    /\ retries[t] < RetryBound
    /\ Select(c, [Cursor("fail", {t}, NoOne)
                     EXCEPT !.tries = retries[t], !.human = require_human])

FailSelect(c, t, require_human) ==
    /\ t \in With(Active)
    /\ retries[t] < RetryBound
    /\ Select(c, [Cursor("fail", {t}, NoOne)
                     EXCEPT !.tries = retries[t], !.human = require_human])

HeldBy(node)   == {t \in With(Active) : assigned_to[t] = node}
PausedBy(node) == {t \in With({"paused"}) : assigned_to[t] = node}

ReleasePendingSelect(c, node) == Select(c, Cursor("release_pending", HeldBy(node), node))
ParkSelect(c, node)           == Select(c, Cursor("park_in_progress", HeldBy(node), node))
ReleasePausedSelect(c, node)  == Select(c, Cursor("release_all_paused", PausedBy(node), node))
RecoverSelect(c)              == Select(c, Cursor("recover_stale", Stale, NoOne))

-----------------------------------------------------------------------------
(* ... and the UPDATE, which only claim_next guards with a status.         *)

Return(c, op) ==
    /\ cursor[c].op = op
    /\ cursor' = [cursor EXCEPT ![c] = Idle]

ClaimNextWrite(c) ==
    /\ Return(c, "claim_next")
    /\ cursor[c].rows \subseteq With(Claimable)
    /\ status' = Put(status, cursor[c].rows, "assigned")
    /\ assigned_to' = Put(assigned_to, cursor[c].rows, cursor[c].name)
    /\ last_heartbeat' = Put(last_heartbeat, cursor[c].rows, 0)
    /\ UNCHANGED retries

(* Slip: retries counted down, as what is left. *)
FailCountsDown(c) ==
    /\ Return(c, "fail")
    /\ retries' = Put(retries, cursor[c].rows, cursor[c].tries - 1)
    /\ status' = Put(status, cursor[c].rows, "failed")
    /\ UNCHANGED <<assigned_to, last_heartbeat>>

(* Slip: the UPDATE of fail() forgets retries. *)
FailUncounted(c) ==
    /\ Return(c, "fail")
    /\ status' = Put(status, cursor[c].rows, "failed")
    /\ UNCHANGED <<assigned_to, retries, last_heartbeat>>

FailWrite(c) ==
    /\ Return(c, "fail")
    /\ LET new_retries == cursor[c].tries + 1
       IN  /\ retries' = Put(retries, cursor[c].rows, new_retries)
           /\ status' = [t \in Tasks |->
                 IF t \in cursor[c].rows
                 THEN FailedStatus(t, new_retries, cursor[c].human)
                 ELSE status[t]]
    /\ UNCHANGED <<assigned_to, last_heartbeat>>

ReleaseWrite(c) ==
    /\ \E op \in {"release_pending", "release_all_paused"} : Return(c, op)
    /\ status' = Put(status, cursor[c].rows, "pending")
    /\ assigned_to' = Put(assigned_to, cursor[c].rows, NoOne)
    /\ last_heartbeat' = Put(last_heartbeat, cursor[c].rows, NoBeat)
    /\ UNCHANGED retries

ParkWrite(c) ==
    /\ Return(c, "park_in_progress")
    /\ status' = Put(status, cursor[c].rows, "paused")
    /\ UNCHANGED <<assigned_to, retries, last_heartbeat>>

(* Slip: the recovered task keeps its owner. *)
RecoverOwned(c) ==
    /\ Return(c, "recover_stale")
    /\ status' = Put(status, cursor[c].rows, "pending")
    /\ UNCHANGED <<assigned_to, retries, last_heartbeat>>

RecoverWrite(c) ==
    /\ Return(c, "recover_stale")
    /\ status' = Put(status, cursor[c].rows, "pending")
    /\ assigned_to' = Put(assigned_to, cursor[c].rows, NoOne)
    /\ UNCHANGED <<retries, last_heartbeat>>

(***************************************************************************)
(* The call ends without a change: "database is locked", the UPDATE finds  *)
(* no row, or the process dies between its two statements.                 *)
(***************************************************************************)
Abort(c) ==
    /\ cursor[c] # Idle
    /\ cursor' = [cursor EXCEPT ![c] = Idle]
    /\ UNCHANGED <<status, assigned_to, retries, last_heartbeat>>

Tick ==
    /\ last_heartbeat' = [t \in Tasks |->
          IF last_heartbeat[t] \in 0 .. Timeout[t] THEN last_heartbeat[t] + 1
                                                   ELSE last_heartbeat[t]]
    /\ UNCHANGED <<status, assigned_to, retries, cursor>>

-----------------------------------------------------------------------------
OneStatement(c) ==
    \E t \in Tasks :
       \/ Create(c, t)
       \/ \E a \in Agents : Claim(c, t, a)
       \/ Start(c, t)
       \/ Complete(c, t)
       \/ Review(c, t)
       \/ Heartbeat(c, t)
       \/ Pause(c, t)
       \/ \E n \in ResumeArgs : Resume(c, t, n)

Read(c) ==
    \/ \E t \in Tasks : ResumeRead(c, t)
    \/ \E a \in Agents, n \in Nodes \cup {NoOne} : ClaimNextSelect(c, a, n)
    \/ \E t \in Tasks, h \in BOOLEAN : FailSelect(c, t, h)
    \/ \E n \in Nodes :
          \/ ReleasePendingSelect(c, n)
          \/ ParkSelect(c, n)
          \/ ReleasePausedSelect(c, n)
    \/ RecoverSelect(c)

Write(c) ==
    \/ ResumeWrite(c)
    \/ ClaimNextWrite(c)
    \/ FailWrite(c)
    \/ ReleaseWrite(c)
    \/ ParkWrite(c)
    \/ RecoverWrite(c)

Next ==
    \/ \E c \in Callers : OneStatement(c) \/ Read(c) \/ Write(c) \/ Abort(c)
    \/ Tick

Spec == Init /\ [][Next]_vars

-----------------------------------------------------------------------------
(* Properties.                                                             *)

Ops == Locking \cup {"idle", "resume"}

Age(t) == {NoBeat} \cup 0 .. (Timeout[t] + 1)

(* Every column holds a value of its domain, every cursor is a SELECT's result. *)
TypeOK ==
    /\ status \in [Tasks -> TaskStatus \cup {"none"}]
    /\ assigned_to \in [Tasks -> Names \cup {NoOne}]
    /\ retries \in [Tasks -> Nat]
    /\ last_heartbeat \in [Tasks -> Int]
    /\ \A t \in Tasks : last_heartbeat[t] \in Age(t)
    /\ cursor \in [Callers -> [op : Ops, rows : SUBSET Tasks,
                               name : Names \cup {NoOne},
                               node : Nodes \cup {NoOne},
                               tries : Nat, human : BOOLEAN]]

(***************************************************************************)
(* However many processes race: a task in the common queue belongs to no   *)
(* one, and a task somebody holds has a heartbeat, without which           *)
(* recover_stale would never consider it (last_heartbeat != '').           *)
(***************************************************************************)
QueueConsistent ==
    \A t \in Tasks :
       /\ status[t] \in {"none"} \cup Claimable => assigned_to[t] = NoOne
       /\ status[t] \in Active => last_heartbeat[t] # NoBeat

(***************************************************************************)
(* However many processes race: a task never passes directly from one      *)
(* holder to another; it goes through the common queue, or it was paused   *)
(* and somebody resumed it.                                                *)
(***************************************************************************)
HandOver ==
    [][\A t \in Tasks :
          (assigned_to[t] # NoOne /\ assigned_to'[t] \notin {assigned_to[t], NoOne})
             => status[t] = "paused"]_vars

(***************************************************************************)
(* A completed task stays completed.                                       *)
(***************************************************************************)
DoneIsFinal ==
    [][\A t \in Tasks : status[t] = "done" => status'[t] = "done"]_vars

(***************************************************************************)
(* fail() counts: the column retries is 1 for a failed task and 0 for      *)
(* every other.  It never reaches 2, because nothing takes a failed task   *)
(* back to the queue: max_retries above 1 are never used up.               *)
(***************************************************************************)
RetriesCountFailures ==
    \A t \in Tasks :
       retries[t] = IF status[t] \in {"failed", "failed_require_human"} THEN 1 ELSE 0

(***************************************************************************)
(* What a caller read inside the lock is still what it would read: one     *)
(* caller at a time is inside, and the best task on offer, the retry       *)
(* count, the node's tasks and the stale tasks have not changed since.     *)
(***************************************************************************)
CursorFresh(c) ==
    LET k == cursor[c] IN
    /\ k.op = "claim_next" =>
          k.name \in Agents /\ \E t \in Tasks : k.rows = {t} /\ First(t, Offered(k.node))
    /\ k.op = "fail" =>
          \E t \in With(Active) : k.rows = {t} /\ k.tries = retries[t]
    /\ k.op \in {"release_pending", "park_in_progress"} =>
          k.name \in Nodes /\ k.rows = HeldBy(k.name)
    /\ k.op = "release_all_paused" =>
          k.name \in Nodes /\ k.rows = PausedBy(k.name)
    /\ k.op = "recover_stale" => k.rows \subseteq Stale

LockProtects ==
    /\ \A c, d \in Callers : {cursor[c].op, cursor[d].op} \subseteq Locking => c = d
    /\ \A c \in Callers : CursorFresh(c)

(***************************************************************************)
(* recover_stale takes back only tasks whose heartbeat is too old when it  *)
(* takes them, not only when it looked.                                    *)
(***************************************************************************)
RecoverOnlyStale ==
    [][\A c \in Callers : RecoverWrite(c) => cursor[c].rows \subseteq Stale]_vars

(***************************************************************************)
(* Every two-statement operation changes exactly the rows the promised     *)
(* atomic operation would change at the moment of its UPDATE: the best     *)
(* task on offer, one more retry, all the node's tasks and no other.       *)
(***************************************************************************)
OperationsAtomic ==
    [][\A c \in Callers :
          LET k == cursor[c] IN
          /\ ClaimNextWrite(c) => Pool!ClaimNext(k.name, k.node)
          /\ FailWrite(c) => \E t \in k.rows : Pool!Fail(t, k.human)
          /\ ReleaseWrite(c) => \/ k.op = "release_pending" /\ Pool!ReleaseNode(k.name)
                                \/ k.op = "release_all_paused" /\ Pool!ReleasePaused(k.name)
          /\ ParkWrite(c) => Pool!ParkNode(k.name)
          /\ RecoverWrite(c) => Pool!Recover(k.rows)]_vars

(* The queue is an implementation of the atomic pool. *)
AtomicPool == Pool!Spec

(***************************************************************************)
(* A paused task that is resumed goes back to whoever had paused it.       *)
(***************************************************************************)
ReservedForOwner ==
    [][\A t \in Tasks :
          status[t] = "paused" /\ status'[t] = "assigned"
             => assigned_to'[t] = assigned_to[t]]_vars
=============================================================================
