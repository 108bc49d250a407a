-------------------------- MODULE WorkerPoolProofs ---------------------------
(***************************************************************************)
(* Proofs about the task queue and the workers that use it.  The queue     *)
(* comes first, for any tasks, callers, objects and names.  Then what the  *)
(* workers do to the queue is what TaskQueue allows, and a task is run by  *)
(* one worker, which holds it: for any number of workers, tasks and        *)
(* clients, whatever crashes, stops, interrupts and failing calls there    *)
(* are, as long as the pool is Careful.                                    *)
(***************************************************************************)
EXTENDS WorkerPool, TLAPS

Row == [op : Ops, rows : SUBSET Tasks, name : Names \cup {NoOne},
        node : Nodes \cup {NoOne}, tries : Nat, human : BOOLEAN]

USE DEF NoBeat

(* A column written by Put keeps its type. *)
LEMMA PutType ==
    ASSUME NEW V, NEW f \in [Tasks -> V], NEW S, NEW v \in V
    PROVE  Put(f, S, v) \in [Tasks -> V]
BY DEF Put

(* Put writes the rows of S and no other. *)
LEMMA PutAt ==
    ASSUME NEW f, NEW S, NEW v, NEW t \in Tasks
    PROVE  Put(f, S, v)[t] = IF t \in S THEN v ELSE f[t]
BY DEF Put

(* The idle cursor and the cursors of the operations are rows. *)
LEMMA CursorType ==
    /\ Idle \in Row
    /\ \A op \in Ops, S \in SUBSET Tasks, n \in Names \cup {NoOne} :
          Cursor(op, S, n) \in Row
BY DEF Idle, Row, Ops, Cursor, Names

(* Writing a fresh heartbeat, or none, keeps every age in its range. *)
LEMMA PutBeat ==
    ASSUME TypeOK, TaskAssumption, NEW S, NEW v \in {0, NoBeat},
           last_heartbeat' = Put(last_heartbeat, S, v)
    PROVE  /\ last_heartbeat' \in [Tasks -> Int]
           /\ \A t \in Tasks : last_heartbeat'[t] \in Age(t)
<1>1. last_heartbeat' \in [Tasks -> Int]
  <2>1. v \in Int /\ last_heartbeat \in [Tasks -> Int]
    BY DEF TypeOK
  <2> QED BY <2>1, PutType
<1>2. \A t \in Tasks : v \in Age(t)
  BY DEF Age, TaskAssumption
<1>3. ASSUME NEW t \in Tasks
      PROVE  last_heartbeat'[t] \in Age(t)
  BY <1>2, <1>3, PutAt DEF TypeOK
<1> QED BY <1>1, <1>3

(* The columns of the table that a step of one statement writes. *)
LEMMA OneStatementType ==
    ASSUME TypeOK, TaskAssumption, QueueAssumption,
           NEW c \in Callers, OneStatement(c)
    PROVE  TypeOK'
<1>1. PICK t \in Tasks :
         \/ Create(c, t)
         \/ \E a \in Agents : Claim(c, t, a)
         \/ Start(c, t)
         \/ Complete(c, t)
         \/ Review(c, t)
         \/ Heartbeat(c, t)
         \/ Pause(c, t)
         \/ \E n \in ResumeArgs : Resume(c, t, n)
  BY DEF OneStatement
<1> USE DEF TypeOK, TaskStatus
<1>2. CASE Create(c, t)
  <2>1. status' \in [Tasks -> TaskStatus \cup {"none"}]
    BY <1>2, PutType DEF Create
  <2> QED BY <1>2, <2>1 DEF Create
<1>3. CASE \E a \in Agents : Claim(c, t, a)
  <2>1. PICK a \in Agents : Claim(c, t, a)
    BY <1>3
  <2>2. status' \in [Tasks -> TaskStatus \cup {"none"}]
    BY <2>1, PutType DEF Claim
  <2>3. assigned_to' \in [Tasks -> Names \cup {NoOne}]
    BY <2>1, PutType DEF Claim, Names
  <2> QED BY <2>1, <2>2, <2>3, PutBeat DEF Claim
<1>4. CASE Start(c, t)
  <2>1. status' \in [Tasks -> TaskStatus \cup {"none"}]
    BY <1>4, PutType DEF Start
  <2> QED BY <1>4, <2>1, PutBeat DEF Start
<1>5. CASE Complete(c, t)
  <2>1. status' \in [Tasks -> TaskStatus \cup {"none"}]
    BY <1>5, PutType DEF Complete
  <2> QED BY <1>5, <2>1 DEF Complete
<1>6. CASE Review(c, t)
  <2>1. status' \in [Tasks -> TaskStatus \cup {"none"}]
    BY <1>6, PutType DEF Review
  <2> QED BY <1>6, <2>1 DEF Review
<1>7. CASE Heartbeat(c, t)
  BY <1>7, PutBeat DEF Heartbeat
<1>8. CASE Pause(c, t)
  <2>1. status' \in [Tasks -> TaskStatus \cup {"none"}]
    BY <1>8, PutType DEF Pause
  <2> QED BY <1>8, <2>1, PutBeat DEF Pause
<1>9. CASE \E n \in ResumeArgs : Resume(c, t, n)
  <2>1. PICK n \in ResumeArgs : Resume(c, t, n)
    BY <1>9
  <2>2. status' \in [Tasks -> TaskStatus \cup {"none"}]
    BY <2>1, PutType DEF Resume, Resumed
  <2>3. assigned_to' \in [Tasks -> Names \cup {NoOne}]
    BY <2>1, PutType DEF Resume, Resumed, QueueAssumption
  <2> QED BY <2>1, <2>2, <2>3, PutBeat DEF Resume, Resumed
<1> QED BY <1>1, <1>2, <1>3, <1>4, <1>5, <1>6, <1>7, <1>8, <1>9

(* A SELECT changes the caller's cursor only, to a row of the right type. *)
LEMMA ReadType ==
    ASSUME TypeOK, TaskAssumption, NEW c \in Callers, Read(c)
    PROVE  TypeOK'
<1>1. SUFFICES ASSUME NEW row \in Row,
                      cursor' = [cursor EXCEPT ![c] = row],
                      UNCHANGED <<status, assigned_to, retries, last_heartbeat>>
               PROVE  TypeOK'
  <2> USE CursorType DEF Select, Ops, Locking
  <2>1. CASE \E t \in Tasks : ResumeRead(c, t)
    <3>1. PICK t \in Tasks : ResumeRead(c, t)
      BY <2>1
    <3>2. Cursor("resume", {t}, assigned_to[t]) \in Row
      BY DEF TypeOK
    <3> QED BY <3>1, <3>2, <1>1 DEF ResumeRead
  <2>2. CASE \E a \in Agents, n \in Nodes \cup {NoOne} : ClaimNextSelect(c, a, n)
    <3>1. PICK a \in Agents, n \in Nodes \cup {NoOne}, t \in Tasks :
             Select(c, [Cursor("claim_next", {t}, a) EXCEPT !.node = n])
      BY <2>2 DEF ClaimNextSelect
    <3>2. Cursor("claim_next", {t}, a) \in Row
      BY DEF Names
    <3>3. [Cursor("claim_next", {t}, a) EXCEPT !.node = n] \in Row
      BY <3>2 DEF Row
    <3> QED BY <3>1, <3>3, <1>1
  <2>3. CASE \E t \in Tasks, h \in BOOLEAN : FailSelect(c, t, h)
    <3>1. PICK t \in Tasks, h \in BOOLEAN : FailSelect(c, t, h)
      BY <2>3
    <3>2. Cursor("fail", {t}, NoOne) \in Row
      OBVIOUS
    <3>3. [Cursor("fail", {t}, NoOne) EXCEPT !.tries = retries[t], !.human = h] \in Row
      BY <3>2 DEF Row, TypeOK
    <3> QED BY <3>1, <3>3, <1>1 DEF FailSelect
  <2>4. CASE \E n \in Nodes : \/ ReleasePendingSelect(c, n)
                             \/ ParkSelect(c, n)
                             \/ ReleasePausedSelect(c, n)
    <3>1. PICK n \in Nodes : \/ ReleasePendingSelect(c, n)
                             \/ ParkSelect(c, n)
                             \/ ReleasePausedSelect(c, n)
      BY <2>4
    <3>2. n \in Names \cup {NoOne} /\ HeldBy(n) \in SUBSET Tasks /\ PausedBy(n) \in SUBSET Tasks
      BY DEF Names, HeldBy, PausedBy, With
    <3>3. \A op \in {"release_pending", "park_in_progress"} : Cursor(op, HeldBy(n), n) \in Row
      BY <3>2
    <3>4. Cursor("release_all_paused", PausedBy(n), n) \in Row
      BY <3>2
    <3> QED BY <3>1, <3>3, <3>4, <1>1 DEF ReleasePendingSelect, ParkSelect, ReleasePausedSelect
  <2>5. CASE RecoverSelect(c)
    <3>1. Cursor("recover_stale", Stale, NoOne) \in Row
      BY DEF Stale, With
    <3> QED BY <2>5, <3>1, <1>1 DEF RecoverSelect
  <2> QED BY <2>1, <2>2, <2>3, <2>4, <2>5 DEF Read
<1>2. cursor' \in [Callers -> Row]
  BY <1>1 DEF TypeOK, Row
<1> QED BY <1>1, <1>2 DEF TypeOK, Row, Age

(* An UPDATE writes values of the columns' domains and ends the call. *)
LEMMA WriteType ==
    ASSUME TypeOK, TaskAssumption, NEW c \in Callers, Write(c)
    PROVE  TypeOK'
<1>1. cursor' \in [Callers -> Row]
  <2>1. cursor' = [cursor EXCEPT ![c] = Idle]
    BY DEF Write, ResumeWrite, ClaimNextWrite, FailWrite, ReleaseWrite, ParkWrite,
           RecoverWrite, Return
  <2> QED BY <2>1, CursorType DEF TypeOK, Row
<1>2. cursor[c] \in Row
  BY DEF TypeOK, Row
<1>3. \A S, v : v \in TaskStatus => Put(status, S, v) \in [Tasks -> TaskStatus \cup {"none"}]
  BY PutType DEF TypeOK
<1>4. \A S, n : n \in Names \cup {NoOne} => Put(assigned_to, S, n) \in [Tasks -> Names \cup {NoOne}]
  BY PutType DEF TypeOK
<1> USE DEF TaskStatus
<1>5. CASE ResumeWrite(c)
  <2>1. PICK t \in Tasks : Resumed(t, cursor[c].name)
    BY <1>5, <1>2 DEF ResumeWrite, Row
  <2>2. cursor[c].name \in Names \cup {NoOne}
    BY <1>2 DEF Row
  <2>3. status' \in [Tasks -> TaskStatus \cup {"none"}]
    BY <2>1, <1>3 DEF Resumed
  <2>4. assigned_to' \in [Tasks -> Names \cup {NoOne}]
    BY <2>1, <2>2, <1>4 DEF Resumed
  <2> QED BY <2>1, <2>3, <2>4, <1>1, PutBeat DEF Resumed, TypeOK, Row
<1>6. CASE ClaimNextWrite(c)
  <2>1. cursor[c].name \in Names \cup {NoOne}
    BY <1>2 DEF Row
  <2>2. status' \in [Tasks -> TaskStatus \cup {"none"}]
    BY <1>6, <1>3 DEF ClaimNextWrite
  <2>3. assigned_to' \in [Tasks -> Names \cup {NoOne}]
    BY <1>6, <2>1, <1>4 DEF ClaimNextWrite
  <2> QED BY <1>6, <2>2, <2>3, <1>1, PutBeat DEF ClaimNextWrite, TypeOK, Row
<1>7. CASE FailWrite(c)
  <2>1. cursor[c].tries + 1 \in Nat
    BY <1>2 DEF Row
  <2>2. retries' \in [Tasks -> Nat]
    BY <1>7, <2>1, PutType DEF FailWrite, TypeOK
  <2>3. status' \in [Tasks -> TaskStatus \cup {"none"}]
    BY <1>7 DEF FailWrite, FailedStatus, TypeOK
  <2> QED BY <1>7, <2>2, <2>3, <1>1 DEF FailWrite, TypeOK, Row, Age
<1>8. CASE ReleaseWrite(c)
  <2>1. status' \in [Tasks -> TaskStatus \cup {"none"}]
    BY <1>8, <1>3 DEF ReleaseWrite
  <2>2. assigned_to' \in [Tasks -> Names \cup {NoOne}]
    BY <1>8, <1>4 DEF ReleaseWrite
  <2> QED BY <1>8, <2>1, <2>2, <1>1, PutBeat DEF ReleaseWrite, TypeOK, Row
<1>9. CASE ParkWrite(c)
  <2>1. status' \in [Tasks -> TaskStatus \cup {"none"}]
    BY <1>9, <1>3 DEF ParkWrite
  <2> QED BY <1>9, <2>1, <1>1 DEF ParkWrite, TypeOK, Row, Age
<1>10. CASE RecoverWrite(c)
  <2>1. status' \in [Tasks -> TaskStatus \cup {"none"}]
    BY <1>10, <1>3 DEF RecoverWrite
  <2>2. assigned_to' \in [Tasks -> Names \cup {NoOne}]
    BY <1>10, <1>4 DEF RecoverWrite
  <2> QED BY <1>10, <2>1, <2>2, <1>1 DEF RecoverWrite, TypeOK, Row, Age
<1> QED BY <1>5, <1>6, <1>7, <1>8, <1>9, <1>10 DEF Write

(* A call that ends without a change, and the passing of time. *)
LEMMA AbortTickType ==
    ASSUME TypeOK, TaskAssumption, (\E c \in Callers : Abort(c)) \/ Tick
    PROVE  TypeOK'
<1>1. CASE \E c \in Callers : Abort(c)
  <2>1. cursor' \in [Callers -> Row]
    BY <1>1, CursorType DEF Abort, TypeOK, Row
  <2> QED BY <1>1, <2>1 DEF Abort, TypeOK, Row, Age
<1>2. CASE Tick
  <2>1. \A t \in Tasks : last_heartbeat'[t] \in Age(t) /\ last_heartbeat'[t] \in Int
    BY <1>2 DEF Tick, TypeOK, Age, TaskAssumption
  <2>2. last_heartbeat' \in [Tasks -> Int]
    BY <1>2, <2>1 DEF Tick
  <2> QED BY <1>2, <2>1, <2>2 DEF Tick, TypeOK
<1> QED BY <1>1, <1>2

LEMMA TypeInit == ASSUME TaskAssumption PROVE Init => TypeOK
BY CursorType DEF Init, TypeOK, Row, Age, TaskAssumption

LEMMA TypeStep ==
    ASSUME TypeOK, TaskAssumption, QueueAssumption, [Next]_vars
    PROVE  TypeOK'
<1>1. CASE UNCHANGED vars
  BY <1>1 DEF vars, TypeOK, Age
<1>2. CASE Next
  BY <1>2, OneStatementType, ReadType, WriteType, AbortTickType DEF Next
<1> QED BY <1>1, <1>2

(***************************************************************************)
(* Every column and every cursor keeps its type, whatever the number of    *)
(* tasks, callers and objects.                                             *)
(***************************************************************************)
THEOREM TypeCorrect == Spec => []TypeOK
<1>1. Init => TypeOK
  BY TypeInit, TaskAssumption
<1>2. TypeOK /\ [Next]_vars => TypeOK'
  BY TypeStep, TaskAssumption, QueueAssumption
<1> QED BY <1>1, <1>2, PTL DEF Spec

-----------------------------------------------------------------------------
(* Facts that hold however many processes share the database.              *)

(* A step that leaves the three columns alone keeps the table consistent. *)
LEMMA ConsistentSame ==
    ASSUME QueueConsistent, UNCHANGED <<status, assigned_to, last_heartbeat>>
    PROVE  QueueConsistent'
BY DEF QueueConsistent

LEMMA ConsistentStep ==
    ASSUME TypeOK, QueueConsistent, TaskAssumption, [Next]_vars
    PROVE  QueueConsistent'
<1> USE PutAt DEF TypeOK, QueueConsistent, Claimable, Active
<1>1. ASSUME NEW c \in Callers, OneStatement(c)
      PROVE  QueueConsistent'
  <2>1. ASSUME NEW t \in Tasks, Create(c, t) \/ Start(c, t) \/ Complete(c, t) \/ Review(c, t)
        PROVE  QueueConsistent'
    BY <2>1 DEF Create, Start, Complete, Review, With
  <2>2. ASSUME NEW t \in Tasks, Heartbeat(c, t) \/ Pause(c, t)
        PROVE  QueueConsistent'
    BY <2>2 DEF Heartbeat, Pause, With
  <2>3. ASSUME NEW t \in Tasks, NEW a \in Agents, Claim(c, t, a)
        PROVE  QueueConsistent'
    BY <2>3 DEF Claim
  <2>4. ASSUME NEW t \in Tasks, NEW n \in ResumeArgs, Resume(c, t, n)
        PROVE  QueueConsistent'
    BY <2>4 DEF Resume, Resumed
  <2> QED BY <1>1, <2>1, <2>2, <2>3, <2>4 DEF OneStatement
<1>2. ASSUME NEW c \in Callers, Read(c) \/ Abort(c)
      PROVE  QueueConsistent'
  <2>1. UNCHANGED <<status, assigned_to, last_heartbeat>>
    BY <1>2 DEF Read, ResumeRead, ClaimNextSelect, FailSelect, ReleasePendingSelect, ParkSelect,
                ReleasePausedSelect, RecoverSelect, Select, Abort
  <2> QED BY <2>1, ConsistentSame
<1>3. ASSUME NEW c \in Callers, Write(c)
      PROVE  QueueConsistent'
  <2>1. CASE ResumeWrite(c)
    <3>1. PICK t \in Tasks : Resumed(t, cursor[c].name)
      BY <2>1 DEF ResumeWrite, Resumed, With
    <3>2. ASSUME NEW u \in Tasks
          PROVE  /\ status'[u] = IF u = t THEN "assigned" ELSE status[u]
                 /\ u # t => assigned_to'[u] = assigned_to[u]
                 /\ last_heartbeat'[u] = IF u = t THEN 0 ELSE last_heartbeat[u]
      BY <3>1 DEF Resumed, Put
    <3> QED BY <3>2
  <2>2. CASE ClaimNextWrite(c)
    BY <2>2 DEF ClaimNextWrite, With
  <2>3. CASE FailWrite(c)
    BY <2>3 DEF FailWrite, FailedStatus
  <2>4. CASE ReleaseWrite(c)
    BY <2>4 DEF ReleaseWrite
  <2>5. CASE ParkWrite(c)
    BY <2>5 DEF ParkWrite
  <2>6. CASE RecoverWrite(c)
    BY <2>6 DEF RecoverWrite
  <2> QED BY <1>3, <2>1, <2>2, <2>3, <2>4, <2>5, <2>6 DEF Write
<1>4. CASE Tick
  BY <1>4, TaskAssumption DEF Tick
<1>5. CASE UNCHANGED vars
  BY <1>5, ConsistentSame DEF vars
<1> QED BY <1>1, <1>2, <1>3, <1>4, <1>5 DEF Next

(***************************************************************************)
(* Tasks in the common queue have no owner and tasks somebody holds have a *)
(* heartbeat, for any number of processes.                                 *)
(***************************************************************************)
THEOREM ConsistentAlways == Spec => []QueueConsistent
<1>1. Init => QueueConsistent
  BY DEF Init, QueueConsistent, Active
<1>2. TypeOK /\ QueueConsistent /\ [Next]_vars => QueueConsistent'
  BY ConsistentStep, TaskAssumption
<1> QED BY <1>1, <1>2, TypeCorrect, PTL DEF Spec

(* The only steps that name a new owner are claims and resumes. *)
LEMMA NewOwner ==
    ASSUME TypeOK, [Next]_vars, NEW t \in Tasks,
           assigned_to'[t] \notin {assigned_to[t], NoOne}
    PROVE  status[t] \in Claimable \cup {"paused"}
<1> USE PutAt DEF TypeOK
<1>1. ASSUME NEW c \in Callers, OneStatement(c)
      PROVE  status[t] \in Claimable \cup {"paused"}
  BY <1>1 DEF OneStatement, Create, Claim, Start, Complete, Review, Heartbeat, Pause,
              Resume, Resumed, With
<1>2. ASSUME NEW c \in Callers, Read(c) \/ Abort(c)
      PROVE  FALSE
  BY <1>2 DEF Read, ResumeRead, ClaimNextSelect, FailSelect, ReleasePendingSelect, ParkSelect,
              ReleasePausedSelect, RecoverSelect, Select, Abort
<1>3. ASSUME NEW c \in Callers, Write(c)
      PROVE  status[t] \in Claimable \cup {"paused"}
  <2>1. CASE ResumeWrite(c)
    BY <2>1 DEF ResumeWrite, Resumed, With
  <2>2. CASE ClaimNextWrite(c)
    BY <2>2 DEF ClaimNextWrite, With
  <2>3. CASE FailWrite(c) \/ ParkWrite(c)
    BY <2>3 DEF FailWrite, ParkWrite
  <2>4. CASE ReleaseWrite(c) \/ RecoverWrite(c)
    BY <2>4 DEF ReleaseWrite, RecoverWrite
  <2> QED BY <1>3, <2>1, <2>2, <2>3, <2>4 DEF Write
<1> QED BY <1>1, <1>2, <1>3 DEF Next, Tick, vars

(***************************************************************************)
(* No task passes from one holder to another except through the common     *)
(* queue or through a pause, for any number of processes.                  *)
(***************************************************************************)
THEOREM HandOverAlways == Spec => HandOver
<1>1. TypeOK /\ QueueConsistent /\ [Next]_vars =>
         [\A t \in Tasks :
            (assigned_to[t] # NoOne /\ assigned_to'[t] \notin {assigned_to[t], NoOne})
               => status[t] = "paused"]_vars
  BY NewOwner DEF QueueConsistent
<1> QED BY <1>1, TypeCorrect, ConsistentAlways, PTL DEF Spec, HandOver

-----------------------------------------------------------------------------
(* Facts that need the callers to share one TaskQueue object.              *)

SharedInstance == \A c, d \in Callers : InstanceOf[c] = InstanceOf[d]

Locked(c) == cursor[c].op \in Locking

(* With nobody inside the lock there is nothing to protect. *)
LEMMA NobodyInside ==
    ASSUME \A c \in Callers : ~ Locked(c)'
    PROVE  LockProtects'
BY DEF LockProtects, CursorFresh, Locked, Locking

(* A cursor stays fresh while its caller waits and the columns do not change. *)
LEMMA FreshSame ==
    ASSUME NEW c \in Callers, CursorFresh(c), cursor'[c] = cursor[c],
           UNCHANGED <<status, assigned_to, retries, last_heartbeat>>
    PROVE  CursorFresh(c)'
<1>1. \A S : With(S)' = With(S)
  BY DEF With
<1>2. \A n : Offered(n)' = Offered(n) /\ HeldBy(n)' = HeldBy(n) /\ PausedBy(n)' = PausedBy(n)
  BY <1>1 DEF Offered, HeldBy, PausedBy
<1>3. Stale' = Stale
  BY <1>1 DEF Stale
<1>4. \A t, S, T : S = T => (First(t, S) <=> First(t, T))
  OBVIOUS
<1> QED BY <1>1, <1>2, <1>3, <1>4 DEF CursorFresh

(* A call under the lock starts when no caller is inside. *)
LEMMA CanCallAlone ==
    ASSUME SharedInstance, NEW c \in Callers, CanCall(c), NEW d \in Callers
    PROVE  ~ Locked(d)
BY DEF SharedInstance, CanCall, Locked

(* A call of one statement leaves nobody inside. *)
LEMMA OneStatementAlone ==
    ASSUME SharedInstance, NEW c \in Callers, OneStatement(c)
    PROVE  /\ \A d \in Callers : ~ Locked(d)
           /\ cursor' = cursor
BY CanCallAlone DEF OneStatement, Create, Claim, Start, Complete, Review, Heartbeat, Pause,
                    Resume

(* An UPDATE takes its caller out of the lock, and it was the only one. *)
LEMMA WriteAlone ==
    ASSUME TypeOK, SharedInstance, LockProtects, NEW c \in Callers, Write(c)
    PROVE  \A d \in Callers : ~ Locked(d)'
<1>1. cursor' = [cursor EXCEPT ![c] = Idle]
  BY DEF Write, ResumeWrite, ClaimNextWrite, FailWrite, ReleaseWrite, ParkWrite, RecoverWrite,
         Return
<1>2. ~ Locked(c)'
  BY <1>1 DEF TypeOK, Locked, Idle, Locking
<1>3. ASSUME NEW d \in Callers, d # c
      PROVE  ~ Locked(d)
  <2>1. CASE ResumeWrite(c)
    BY <2>1 DEF ResumeWrite, SharedInstance, Locked
  <2>2. CASE Locked(c)
    BY <1>3, <2>2 DEF LockProtects, Locked
  <2>3. ResumeWrite(c) \/ Locked(c)
    BY DEF Write, ClaimNextWrite, FailWrite, ReleaseWrite, ParkWrite, RecoverWrite, Return,
           Locked, Locking
  <2> QED BY <2>1, <2>2, <2>3
<1>4. ASSUME NEW d \in Callers, d # c
      PROVE  ~ Locked(d)'
  BY <1>1, <1>3, <1>4 DEF TypeOK, Locked
<1> QED BY <1>2, <1>4

(* A SELECT under the lock: its caller is the only one inside, its cursor fresh. *)
LEMMA SelectFresh ==
    ASSUME TypeOK, SharedInstance, NEW c \in Callers, NEW row, Select(c, row),
           row.op \in Locking,
           CursorFresh(c)'
    PROVE  LockProtects'
<1>1. \A d \in Callers : ~ Locked(d)
  BY CanCallAlone DEF Select
<1>2. ASSUME NEW d \in Callers, d # c
      PROVE  cursor'[d] = cursor[d] /\ ~ Locked(d)'
  BY <1>1, <1>2 DEF Select, TypeOK, Locked
<1>3. \A d \in Callers : CursorFresh(d)'
  BY <1>2 DEF CursorFresh, Locked, Locking
<1> QED BY <1>2, <1>3 DEF LockProtects, Locked

LEMMA ReadFresh ==
    ASSUME TypeOK, SharedInstance, LockProtects, NEW c \in Callers, Read(c)
    PROVE  LockProtects'
<1>1. ASSUME NEW t \in Tasks, ResumeRead(c, t)
      PROVE  LockProtects'
  <2>1. cursor' = [cursor EXCEPT ![c] = Cursor("resume", {t}, assigned_to[t])]
    BY <1>1 DEF ResumeRead
  <2>2. cursor'[c].op = "resume"
    BY <2>1 DEF TypeOK, Cursor, Idle
  <2>3. ASSUME NEW d \in Callers, d # c
        PROVE  cursor'[d] = cursor[d]
    BY <2>1, <2>3 DEF TypeOK
  <2>4. UNCHANGED <<status, assigned_to, retries, last_heartbeat>>
    BY <1>1 DEF ResumeRead
  <2>5. ASSUME NEW d \in Callers
        PROVE  CursorFresh(d)'
    <3>1. CASE d = c
      BY <3>1, <2>2 DEF CursorFresh
    <3>2. CASE d # c
      BY <3>2, <2>3, <2>4, FreshSame DEF LockProtects
    <3> QED BY <3>1, <3>2
  <2> QED BY <2>2, <2>3, <2>5 DEF LockProtects, Locking
<1>2. ASSUME NEW a \in Agents, NEW n \in Nodes \cup {NoOne}, ClaimNextSelect(c, a, n)
      PROVE  LockProtects'
  <2>1. PICK t \in Tasks :
           First(t, Offered(n)) /\ Select(c, [Cursor("claim_next", {t}, a) EXCEPT !.node = n])
    BY <1>2 DEF ClaimNextSelect
  <2> DEFINE row == [Cursor("claim_next", {t}, a) EXCEPT !.node = n]
  <2>2. row.op = "claim_next" /\ row.rows = {t} /\ row.name = a /\ row.node = n
    BY DEF Cursor, Idle
  <2>3. cursor'[c] = row
    BY <2>1 DEF Select, TypeOK
  <2>4. Offered(n)' = Offered(n)
    BY <2>1 DEF Select, Offered, With
  <2>5. CursorFresh(c)'
    BY <2>1, <2>2, <2>3, <2>4 DEF CursorFresh, First, Precedes
  <2> QED BY <2>1, <2>2, <2>5, SelectFresh DEF Locking
<1>3. ASSUME NEW t \in Tasks, NEW h \in BOOLEAN, FailSelect(c, t, h)
      PROVE  LockProtects'
  <2> DEFINE row == [Cursor("fail", {t}, NoOne) EXCEPT !.tries = retries[t], !.human = h]
  <2>1. Select(c, row) /\ t \in With(Active)
    BY <1>3 DEF FailSelect
  <2>2. row.op = "fail" /\ row.rows = {t} /\ row.tries = retries[t]
    BY DEF Cursor, Idle
  <2>3. cursor'[c] = row
    BY <2>1 DEF Select, TypeOK
  <2>4. CursorFresh(c)'
    BY <2>1, <2>2, <2>3 DEF CursorFresh, Select, With
  <2> QED BY <2>1, <2>2, <2>4, SelectFresh DEF Locking
<1>4. ASSUME NEW n \in Nodes,
             NEW op \in {"release_pending", "park_in_progress"},
             Select(c, Cursor(op, HeldBy(n), n))
      PROVE  LockProtects'
  <2>1. /\ Cursor(op, HeldBy(n), n).op = op
        /\ Cursor(op, HeldBy(n), n).rows = HeldBy(n)
        /\ Cursor(op, HeldBy(n), n).name = n
    BY DEF Cursor, Idle
  <2>2. cursor'[c] = Cursor(op, HeldBy(n), n)
    BY <1>4 DEF Select, TypeOK
  <2>3. CursorFresh(c)'
    BY <1>4, <2>1, <2>2 DEF CursorFresh, Select, HeldBy, With
  <2> QED BY <1>4, <2>1, <2>3, SelectFresh DEF Locking
<1>5. ASSUME NEW n \in Nodes, ReleasePausedSelect(c, n)
      PROVE  LockProtects'
  <2> DEFINE row == Cursor("release_all_paused", PausedBy(n), n)
  <2>1. row.op = "release_all_paused" /\ row.rows = PausedBy(n) /\ row.name = n
    BY DEF Cursor, Idle
  <2>2. Select(c, row) /\ cursor'[c] = row
    BY <1>5 DEF ReleasePausedSelect, Select, TypeOK
  <2>3. PausedBy(n)' = PausedBy(n)
    BY <2>2 DEF Select, PausedBy, With
  <2>4. CursorFresh(c)'
    BY <2>1, <2>2, <2>3 DEF CursorFresh
  <2> QED BY <2>1, <2>2, <2>4, SelectFresh DEF Locking
<1>6. ASSUME RecoverSelect(c)
      PROVE  LockProtects'
  <2> DEFINE row == Cursor("recover_stale", Stale, NoOne)
  <2>1. row.op = "recover_stale" /\ row.rows = Stale
    BY DEF Cursor, Idle
  <2>2. Select(c, row) /\ cursor'[c] = row
    BY <1>6 DEF RecoverSelect, Select, TypeOK
  <2>3. Stale' = Stale
    BY <2>2 DEF Select, Stale, With
  <2>4. CursorFresh(c)'
    BY <2>1, <2>2, <2>3 DEF CursorFresh
  <2> QED BY <2>1, <2>2, <2>4, SelectFresh DEF Locking
<1> QED BY <1>1, <1>2, <1>3, <1>4, <1>5, <1>6
        DEF Read, ReleasePendingSelect, ParkSelect

LEMMA AbortTickFresh ==
    ASSUME TypeOK, LockProtects, TaskAssumption, (\E c \in Callers : Abort(c)) \/ Tick
    PROVE  LockProtects'
<1>1. ASSUME NEW c \in Callers, Abort(c)
      PROVE  LockProtects'
  <2>1. cursor'[c] = Idle /\ \A d \in Callers : d # c => cursor'[d] = cursor[d]
    BY <1>1 DEF Abort, TypeOK
  <2>2. CursorFresh(c)'
    BY <2>1 DEF CursorFresh, Idle
  <2>3. \A d \in Callers : d # c => CursorFresh(d)'
    BY <1>1, <2>1, FreshSame DEF Abort, LockProtects
  <2>4. \A d, e \in Callers : {cursor'[d].op, cursor'[e].op} \subseteq Locking => d = e
    BY <2>1 DEF LockProtects, Idle, Locking
  <2> QED BY <2>2, <2>3, <2>4 DEF LockProtects
<1>2. ASSUME Tick
      PROVE  LockProtects'
  <2>2. \A S : With(S)' = With(S)
    BY <1>2 DEF Tick, With
  <2>1. ASSUME NEW t \in Stale
        PROVE  t \in Stale'
    <3>1. t \in Tasks /\ last_heartbeat[t] \notin 0 .. Timeout[t]
      BY TaskAssumption DEF Stale, With, TypeOK
    <3>2. last_heartbeat'[t] = last_heartbeat[t]
      BY <1>2, <3>1 DEF Tick
    <3> QED BY <2>2, <3>2 DEF Stale
  <2>3. \A n : /\ Offered(n)' = Offered(n)
               /\ HeldBy(n)' = HeldBy(n)
               /\ PausedBy(n)' = PausedBy(n)
    BY <1>2, <2>2 DEF Tick, Offered, HeldBy, PausedBy
  <2>4. \A t, S, T : S = T => (First(t, S) <=> First(t, T))
    OBVIOUS
  <2>5. cursor' = cursor /\ retries' = retries
    BY <1>2 DEF Tick
  <2>6. ASSUME NEW c \in Callers
        PROVE  CursorFresh(c)'
    BY <2>1, <2>2, <2>3, <2>4, <2>5 DEF CursorFresh, LockProtects
  <2> QED BY <2>5, <2>6 DEF LockProtects
<1> QED BY <1>1, <1>2

LEMMA FreshStep ==
    ASSUME TypeOK, LockProtects, TaskAssumption, SharedInstance, [Next]_vars
    PROVE  LockProtects'
<1>1. ASSUME NEW c \in Callers, OneStatement(c)
      PROVE  LockProtects'
  BY <1>1, OneStatementAlone, NobodyInside DEF Locked
<1>2. ASSUME NEW c \in Callers, Write(c)
      PROVE  LockProtects'
  BY <1>2, WriteAlone, NobodyInside
<1>3. CASE UNCHANGED vars
  BY <1>3, FreshSame DEF vars, LockProtects
<1> QED BY <1>1, <1>2, <1>3, ReadFresh, AbortTickFresh DEF Next

(***************************************************************************)
(* Callers of one TaskQueue object: what a call read is still true when it *)
(* writes.                                                                 *)
(***************************************************************************)
THEOREM LockProtectsAlways == SharedInstance => (Spec => []LockProtects)
<1> SUFFICES ASSUME SharedInstance PROVE Spec => []LockProtects
  OBVIOUS
<1>1. Init => LockProtects
  BY DEF Init, LockProtects, CursorFresh, Idle, Locking
<1>2. TypeOK /\ LockProtects /\ [Next]_vars => LockProtects'
  BY FreshStep, TaskAssumption
<1> QED BY <1>1, <1>2, TypeCorrect, PTL DEF Spec

-----------------------------------------------------------------------------
(* The queue implements the atomic pool.                                   *)

(* The pool's vocabulary is the queue's. *)
LEMMA SameWords ==
    /\ \A f, S, v : Pool!Put(f, S, v) = Put(f, S, v)
    /\ \A S : Pool!With(S) = With(S)
    /\ \A n : /\ Pool!HeldBy(n) = HeldBy(n)
              /\ Pool!PausedBy(n) = PausedBy(n)
              /\ Pool!Offered(n) = Offered(n)
    /\ \A t, S : Pool!First(t, S) <=> First(t, S)
    /\ \A t, n, h : Pool!FailedStatus(t, n, h) = FailedStatus(t, n, h)
    /\ Pool!Claimable = Claimable
    /\ Pool!Active = Active
    /\ Pool!Names = Names
<1> USE DEF Pool!Put, Put, Pool!With, With, Pool!Claimable, Claimable, Pool!Active, Active,
            Pool!Names, Names
<1>1. \A n : /\ Pool!HeldBy(n) = HeldBy(n)
             /\ Pool!PausedBy(n) = PausedBy(n)
             /\ Pool!Offered(n) = Offered(n)
  BY DEF Pool!HeldBy, HeldBy, Pool!PausedBy, PausedBy, Pool!Offered, Offered
<1>2. \A t, S : Pool!First(t, S) <=> First(t, S)
  BY DEF Pool!First, First, Pool!Precedes, Precedes
<1>3. \A t, n, h : Pool!FailedStatus(t, n, h) = FailedStatus(t, n, h)
  BY DEF Pool!FailedStatus, FailedStatus
<1> QED BY <1>1, <1>2, <1>3

(* claim_next, at its UPDATE, takes the first of the tasks on offer. *)
LEMMA ClaimNextAtomic ==
    ASSUME TypeOK, LockProtects, NEW c \in Callers, ClaimNextWrite(c)
    PROVE  cursor[c].name \in Agents /\ Pool!ClaimNext(cursor[c].name, cursor[c].node)
<1>1. PICK t \in Tasks : cursor[c].rows = {t} /\ First(t, Offered(cursor[c].node))
  BY DEF ClaimNextWrite, Return, LockProtects, CursorFresh
<1>2. {t} \subseteq With(Claimable)
  BY <1>1 DEF ClaimNextWrite
<1>3. Pool!Take(t, cursor[c].name)
  BY <1>1, <1>2, SameWords DEF ClaimNextWrite, Pool!Take, Pool!Move
<1>4. Pool!First(t, Pool!Offered(cursor[c].node))
  BY <1>1, SameWords
<1> QED BY <1>3, <1>4 DEF Pool!ClaimNext, ClaimNextWrite, Return, LockProtects, CursorFresh

(* fail, at its UPDATE, adds one to the retries of an active task. *)
LEMMA FailAtomic ==
    ASSUME TypeOK, LockProtects, NEW c \in Callers, FailWrite(c)
    PROVE  \E t \in cursor[c].rows : t \in Tasks /\ Pool!Fail(t, cursor[c].human)
<1>1. PICK t \in With(Active) : cursor[c].rows = {t} /\ cursor[c].tries = retries[t]
  BY DEF FailWrite, Return, LockProtects, CursorFresh
<1> DEFINE h == cursor[c].human
<1>2. t \in Tasks
  BY DEF With
<1>3. retries' = Put(retries, {t}, retries[t] + 1)
  BY <1>1 DEF FailWrite
<1>4. status' = Put(status, {t}, FailedStatus(t, retries[t] + 1, h))
  BY <1>1 DEF FailWrite, Put
<1>5. Pool!Fail(t, h)
  BY <1>3, <1>4, SameWords DEF Pool!Fail, FailWrite
<1> QED BY <1>1, <1>2, <1>5

(* The releases, at their UPDATE, free all the tasks of the node and no other. *)
LEMMA ReleaseAtomic ==
    ASSUME TypeOK, LockProtects, NEW c \in Callers, ReleaseWrite(c)
    PROVE  /\ cursor[c].name \in Nodes
           /\ \/ cursor[c].op = "release_pending" /\ Pool!ReleaseNode(cursor[c].name)
              \/ cursor[c].op = "release_all_paused" /\ Pool!ReleasePaused(cursor[c].name)
<1> DEFINE n == cursor[c].name
<1>1. CASE cursor[c].op = "release_pending"
  <2>1. n \in Nodes /\ cursor[c].rows = HeldBy(n)
    BY <1>1 DEF LockProtects, CursorFresh
  <2>2. HeldBy(n) \subseteq With(Active)
    BY DEF HeldBy
  <2>3. Pool!Free(Pool!HeldBy(n), Active)
    BY <2>1, <2>2, SameWords DEF ReleaseWrite, Pool!Free, Pool!Move
  <2> QED BY <1>1, <2>1, <2>3, SameWords DEF Pool!ReleaseNode
<1>2. CASE cursor[c].op = "release_all_paused"
  <2>1. n \in Nodes /\ cursor[c].rows = PausedBy(n)
    BY <1>2 DEF LockProtects, CursorFresh
  <2>2. PausedBy(n) \subseteq With({"paused"})
    BY DEF PausedBy
  <2>3. Pool!Free(Pool!PausedBy(n), {"paused"})
    BY <2>1, <2>2, SameWords DEF ReleaseWrite, Pool!Free, Pool!Move
  <2> QED BY <1>2, <2>1, <2>3 DEF Pool!ReleasePaused
<1> QED BY <1>1, <1>2 DEF ReleaseWrite, Return

(* park_in_progress, at its UPDATE, pauses all the tasks of the node. *)
LEMMA ParkAtomic ==
    ASSUME TypeOK, LockProtects, NEW c \in Callers, ParkWrite(c)
    PROVE  cursor[c].name \in Nodes /\ Pool!ParkNode(cursor[c].name)
<1> DEFINE n == cursor[c].name
<1>1. n \in Nodes /\ cursor[c].rows = HeldBy(n)
  BY DEF ParkWrite, Return, LockProtects, CursorFresh
<1>2. HeldBy(n) \subseteq With(Active)
  BY DEF HeldBy
<1> QED BY <1>1, <1>2, SameWords DEF ParkWrite, Pool!ParkNode, Pool!Move

(* recover_stale, at its UPDATE, frees active tasks that are still stale. *)
LEMMA RecoverAtomic ==
    ASSUME TypeOK, LockProtects, NEW c \in Callers, RecoverWrite(c)
    PROVE  /\ cursor[c].rows \subseteq Stale
           /\ cursor[c].rows \in SUBSET Pool!With(Pool!Active)
           /\ Pool!Recover(cursor[c].rows)
<1>1. cursor[c].rows \subseteq Stale
  BY DEF RecoverWrite, Return, LockProtects, CursorFresh
<1>2. cursor[c].rows \subseteq With(Active)
  BY <1>1 DEF Stale
<1> QED BY <1>1, <1>2, SameWords DEF RecoverWrite, Pool!Recover, Pool!Free, Pool!Move

(* A call of one statement is a step of the pool, or a heartbeat. *)
LEMMA OneStatementAtomic ==
    ASSUME TypeOK, QueueAssumption, NEW c \in Callers, OneStatement(c)
    PROVE  Pool!Next \/ UNCHANGED <<status, assigned_to, retries>>
<1> USE SameWords
<1>1. ASSUME NEW t \in Tasks,
             \/ Create(c, t) \/ Start(c, t) \/ Complete(c, t) \/ Review(c, t) \/ Pause(c, t)
      PROVE  Pool!Next
  <2>1. Pool!Advance(t)
    BY <1>1 DEF Pool!Advance, Pool!Move, Create, Start, Complete, Review, Pause
  <2> QED BY <2>1 DEF Pool!Next
<1>2. ASSUME NEW t \in Tasks, NEW a \in Agents, Claim(c, t, a)
      PROVE  Pool!Next
  <2>1. Pool!Take(t, a)
    BY <1>2 DEF Pool!Take, Pool!Move, Claim
  <2> QED BY <2>1 DEF Pool!Next
<1>3. ASSUME NEW t \in Tasks, NEW n \in ResumeArgs, Resume(c, t, n)
      PROVE  Pool!Next
  <2>1. Pool!Resume(t, n) /\ n \in Pool!Names \cup {NoOne}
    BY <1>3, QueueAssumption DEF Pool!Resume, Pool!Move, Resume, Resumed
  <2> QED BY <2>1 DEF Pool!Next
<1>4. ASSUME NEW t \in Tasks, Heartbeat(c, t)
      PROVE  UNCHANGED <<status, assigned_to, retries>>
  BY <1>4 DEF Heartbeat
<1> QED BY <1>1, <1>2, <1>3, <1>4 DEF OneStatement

(* Every UPDATE is a step of the pool. *)
LEMMA WriteAtomic ==
    ASSUME TypeOK, LockProtects, NEW c \in Callers, Write(c)
    PROVE  Pool!Next
<1>1. CASE ResumeWrite(c)
  <2>1. PICK t \in Tasks : Resumed(t, cursor[c].name)
    BY <1>1 DEF ResumeWrite, Resumed, With
  <2>2. cursor[c].name \in Pool!Names \cup {NoOne}
    BY SameWords DEF TypeOK
  <2>3. Pool!Resume(t, cursor[c].name)
    BY <2>1, SameWords DEF Resumed, Pool!Resume, Pool!Move
  <2> QED BY <2>2, <2>3 DEF Pool!Next
<1>2. CASE ClaimNextWrite(c)
  <2>1. cursor[c].node \in Nodes \cup {NoOne}
    BY DEF TypeOK
  <2> QED BY <1>2, <2>1, ClaimNextAtomic DEF Pool!Next
<1>3. CASE FailWrite(c)
  <2>1. cursor[c].human \in BOOLEAN
    BY DEF TypeOK
  <2> QED BY <1>3, <2>1, FailAtomic DEF Pool!Next
<1>4. CASE ReleaseWrite(c)
  BY <1>4, ReleaseAtomic DEF Pool!Next
<1>5. CASE ParkWrite(c)
  BY <1>5, ParkAtomic DEF Pool!Next
<1>6. CASE RecoverWrite(c)
  BY <1>6, RecoverAtomic DEF Pool!Next
<1> QED BY <1>1, <1>2, <1>3, <1>4, <1>5, <1>6 DEF Write

LEMMA PoolStep ==
    ASSUME TypeOK, LockProtects, QueueAssumption, [Next]_vars
    PROVE  [Pool!Next]_(Pool!poolVars)
<1> USE DEF Pool!poolVars
<1>1. ASSUME NEW c \in Callers, Read(c) \/ Abort(c)
      PROVE  UNCHANGED <<status, assigned_to, retries>>
  BY <1>1 DEF Read, ResumeRead, ClaimNextSelect, FailSelect, ReleasePendingSelect, ParkSelect,
              ReleasePausedSelect, RecoverSelect, Select, Abort
<1>2. CASE Tick \/ UNCHANGED vars
  BY <1>2 DEF Tick, vars
<1> QED BY <1>1, <1>2, OneStatementAtomic, WriteAtomic DEF Next

(***************************************************************************)
(* Callers of one TaskQueue object: every two-statement operation has, at  *)
(* its UPDATE, the effect of the atomic operation.                         *)
(***************************************************************************)
THEOREM OperationsAtomicAlways == SharedInstance => (Spec => OperationsAtomic)
<1> SUFFICES ASSUME SharedInstance PROVE Spec => OperationsAtomic
  OBVIOUS
<1>1. TypeOK /\ LockProtects /\ [Next]_vars =>
        [\A c \in Callers :
          LET k == cursor[c] IN
          /\ ClaimNextWrite(c) => Pool!ClaimNext(k.name, k.node)
          /\ FailWrite(c) => \E t \in k.rows : Pool!Fail(t, k.human)
          /\ ReleaseWrite(c) => \/ k.op = "release_pending" /\ Pool!ReleaseNode(k.name)
                                \/ k.op = "release_all_paused" /\ Pool!ReleasePaused(k.name)
          /\ ParkWrite(c) => Pool!ParkNode(k.name)
          /\ RecoverWrite(c) => Pool!Recover(k.rows)]_vars
  BY ClaimNextAtomic, FailAtomic, ReleaseAtomic, ParkAtomic, RecoverAtomic
<1> QED BY <1>1, TypeCorrect, LockProtectsAlways, PTL DEF Spec, OperationsAtomic

(***************************************************************************)
(* Callers of one TaskQueue object see the atomic pool: the queue          *)
(* implements TaskPool.                                                    *)
(***************************************************************************)
THEOREM ImplementsPool == SharedInstance => (Spec => AtomicPool)
<1> SUFFICES ASSUME SharedInstance PROVE Spec => AtomicPool
  OBVIOUS
<1>1. Init => Pool!Init
  BY DEF Init, Pool!Init
<1>2. TypeOK /\ LockProtects /\ [Next]_vars => [Pool!Next]_(Pool!poolVars)
  BY PoolStep, QueueAssumption
<1> QED BY <1>1, <1>2, TypeCorrect, LockProtectsAlways, PTL DEF Spec, AtomicPool, Pool!Spec

-----------------------------------------------------------------------------
(* Consequences, read off the pool's steps.                                *)

Failed == {"failed", "failed_require_human"}

(***************************************************************************)
(* A step of the pool moves a task out of "done" never, into a failed      *)
(* status only by Fail, which adds one retry, and out of one never.        *)
(***************************************************************************)
LEMMA PoolTransitions ==
    ASSUME TypeOK, Pool!Next, NEW t \in Tasks
    PROVE  /\ status[t] = "done" => status'[t] = "done"
           /\ \/ status[t] \in Active /\ status'[t] \in Failed /\ retries'[t] = retries[t] + 1
              \/ /\ retries'[t] = retries[t]
                 /\ status'[t] = status[t] \/ {status[t], status'[t]} \cap Failed = {}
<1> DEFINE Kept == /\ retries'[t] = retries[t]
                   /\ status'[t] = status[t] \/ {status[t], status'[t]} \cap Failed = {}
                   /\ status[t] = "done" => status'[t] = "done"
<1> USE SameWords, PutAt DEF TypeOK
<1>1. ASSUME NEW S, NEW from, NEW to, Pool!Move(S, from, to),
             from \cap (Failed \cup {"done"}) = {}, to \notin Failed
      PROVE  Kept
  <2>1. status'[t] = IF t \in S THEN to ELSE status[t]
    BY <1>1 DEF Pool!Move
  <2>2. t \in S => status[t] \in from
    BY <1>1 DEF Pool!Move, With
  <2> QED BY <1>1, <2>1, <2>2 DEF Pool!Move
<1>2. ASSUME NEW u \in Tasks, NEW h, Pool!Fail(u, h)
      PROVE  \/ Kept
             \/ status[t] \in Active /\ status'[t] \in Failed /\ retries'[t] = retries[t] + 1
  BY <1>2 DEF Pool!Fail, With, FailedStatus, Failed
<1> USE DEF Claimable, Active, Failed
<1>3. ASSUME NEW u, Pool!Advance(u)
      PROVE  Kept
  BY <1>1, <1>3 DEF Pool!Advance
<1>4. ASSUME NEW u, NEW a, Pool!Take(u, a) \/ Pool!Resume(u, a)
      PROVE  Kept
  BY <1>1, <1>4 DEF Pool!Take, Pool!Resume
<1>5. ASSUME NEW S, NEW from, Pool!Free(S, from), from \in {Active, {"paused"}}
      PROVE  Kept
  BY <1>1, <1>5 DEF Pool!Free
<1>6. ASSUME NEW n, Pool!ParkNode(n)
      PROVE  Kept
  BY <1>1, <1>6 DEF Pool!ParkNode
<1>7. Kept \/ \E u \in Tasks, h \in BOOLEAN : Pool!Fail(u, h)
  BY <1>3, <1>4, <1>5, <1>6 DEF Pool!Next, Pool!ClaimNext, Pool!ReleaseNode, Pool!ReleasePaused,
                                Pool!Recover
<1> QED BY <1>2, <1>7

(* The same, for the steps of the queue. *)
LEMMA QueueTransitions ==
    ASSUME TypeOK, LockProtects, QueueAssumption, [Next]_vars, NEW t \in Tasks
    PROVE  /\ status[t] = "done" => status'[t] = "done"
           /\ \/ status[t] \in Active /\ status'[t] \in Failed /\ retries'[t] = retries[t] + 1
              \/ /\ retries'[t] = retries[t]
                 /\ status'[t] = status[t] \/ {status[t], status'[t]} \cap Failed = {}
BY PoolStep, PoolTransitions DEF Pool!poolVars

(***************************************************************************)
(* Callers of one TaskQueue object: a completed task stays completed.      *)
(***************************************************************************)
THEOREM DoneIsFinalAlways == SharedInstance => (Spec => DoneIsFinal)
<1> SUFFICES ASSUME SharedInstance PROVE Spec => DoneIsFinal
  OBVIOUS
<1>1. TypeOK /\ LockProtects /\ [Next]_vars =>
         [\A t \in Tasks : status[t] = "done" => status'[t] = "done"]_vars
  BY QueueTransitions, QueueAssumption
<1> QED BY <1>1, TypeCorrect, LockProtectsAlways, PTL DEF Spec, DoneIsFinal

(***************************************************************************)
(* Callers of one TaskQueue object: retries is 1 exactly for the failed    *)
(* tasks, so a budget above 1 is never used up.                            *)
(***************************************************************************)
THEOREM RetriesCounted == SharedInstance => (Spec => []RetriesCountFailures)
<1> SUFFICES ASSUME SharedInstance PROVE Spec => []RetriesCountFailures
  OBVIOUS
<1>1. Init => RetriesCountFailures
  BY DEF Init, RetriesCountFailures
<1>2. TypeOK /\ LockProtects /\ RetriesCountFailures /\ [Next]_vars => RetriesCountFailures'
  <2> SUFFICES ASSUME TypeOK, LockProtects, RetriesCountFailures, [Next]_vars, NEW t \in Tasks
               PROVE  retries'[t] = IF status'[t] \in Failed THEN 1 ELSE 0
    BY DEF RetriesCountFailures, Failed
  <2>1. retries[t] = IF status[t] \in Failed THEN 1 ELSE 0
    BY DEF RetriesCountFailures, Failed
  <2>2. Active \cap Failed = {}
    BY DEF Active, Failed
  <2> QED BY <2>1, <2>2, QueueTransitions, QueueAssumption
<1> QED BY <1>1, <1>2, TypeCorrect, LockProtectsAlways, PTL DEF Spec

(***************************************************************************)
(* Callers of one TaskQueue object: recover_stale frees only tasks whose   *)
(* heartbeat is too old at that moment.                                    *)
(***************************************************************************)
THEOREM RecoverOnlyStaleAlways == SharedInstance => (Spec => RecoverOnlyStale)
<1> SUFFICES ASSUME SharedInstance PROVE Spec => RecoverOnlyStale
  OBVIOUS
<1>1. TypeOK /\ LockProtects /\ [Next]_vars =>
         [\A c \in Callers : RecoverWrite(c) => cursor[c].rows \subseteq Stale]_vars
  BY RecoverAtomic
<1> QED BY <1>1, TypeCorrect, LockProtectsAlways, PTL DEF Spec, RecoverOnlyStale

-----------------------------------------------------------------------------
(* The workers.                                                            *)

LEMMA WorkerCallers ==
    ASSUME PoolAssumption, NEW w \in Workers
    PROVE  /\ Main(w) \in Callers /\ Beater(w) \in Callers /\ Stopper(w) \in Callers
           /\ AgentOf[w] \in Agents /\ w \in Nodes
BY DEF PoolAssumption, Main, Beater, Stopper

LEMMA OtherCallers ==
    ASSUME PoolAssumption, NEW p \in Clients \cup Recoverers
    PROVE  Main(p) \in Callers /\ \A w \in Workers : Main(p) # Main(w)
BY DEF PoolAssumption, Main

-----------------------------------------------------------------------------
(* Every step of the pool is one call of the queue, an interrupted call, a *)
(* tick, or no step of the queue.                                          *)
Calls(c) == OneStatement(c) \/ Read(c) \/ Write(c) \/ Abort(c) \/ UNCHANGED vars

LEMMA GivesUp ==
    ASSUME TypeOK, NEW c \in Callers, cursor' = [cursor EXCEPT ![c] = Idle],
           UNCHANGED <<status, assigned_to, retries, last_heartbeat>>
    PROVE  Calls(c)
<1>1. CASE cursor[c] = Idle
  <2>1. cursor' = cursor
    BY <1>1 DEF TypeOK
  <2> QED
    BY <2>1 DEF Calls, vars
<1>2. CASE cursor[c] # Idle
  BY <1>2 DEF Calls, Abort
<1> QED
  BY <1>1, <1>2

LEMMA RaisesCalls ==
    ASSUME TypeOK, NEW c \in Callers, NEW call, Raises(c, call)
    PROVE  Calls(c)
BY GivesUp DEF Raises

LEMMA PauseCalls ==
    ASSUME NEW c \in Callers, NEW t, PauseIfActive(c, t)
    PROVE  Calls(c)
<1>1. CASE t \in With(Active)
  BY <1>1 DEF PauseIfActive, Calls, OneStatement, With
<1>2. CASE t \notin With(Active)
  BY <1>2 DEF PauseIfActive, Calls, queue, vars
<1> QED
  BY <1>1, <1>2

LEMMA LoopCalls ==
    ASSUME PoolAssumption, TypeOK, NEW w \in Workers, Loop(w)
    PROVE  Calls(Main(w))
<1> USE WorkerCallers
<1> DEFINE c == Main(w)
<1>1. CASE Boot(w) \/ Leave(w) \/ Begin(w) \/ RunEnds(w) \/ CompleteNone(w) \/ Close(w)
  BY <1>1 DEF Boot, Leave, Begin, RunEnds, CompleteNone, Close, Calls, queue, vars
<1>2. CASE Restart(w)
  BY <1>2, GivesUp DEF Restart, Forget
<1>3. CASE PollSelect(w)
  BY <1>3 DEF PollSelect, Calls, Read
<1>4. CASE PollClaim(w) \/ FailDone(w)
  BY <1>4 DEF PollClaim, FailDone, Calls, Write
<1>5. CASE PollMiss(w)
  BY <1>5 DEF PollMiss, Calls
<1>6. CASE StartOk(w) \/ CompleteOk(w)
  BY <1>6 DEF StartOk, CompleteOk, Start, Complete, Calls, OneStatement, With
<1>7. CASE StartFails(w) \/ CompleteRaises(w) \/ FailRaises(w)
  <2>1. (\E call : Raises(c, call)) \/ UNCHANGED vars
    BY <1>7 DEF StartFails, CompleteRaises, FailRaises, queue, vars
  <2> QED
    BY <2>1, RaisesCalls DEF Calls
<1>8. CASE FailRead(w)
  BY <1>8 DEF FailRead, FailSelect, Calls, Read, With
<1>9. CASE Park(w) \/ Release(w)
  BY <1>9 DEF Park, Release, SweepNode, Calls, Read, Write, queue, vars
<1>10. CASE InterruptStop(w)
  BY <1>10, PauseCalls DEF InterruptStop
<1> QED
  BY <1>1, <1>2, <1>3, <1>4, <1>5, <1>6, <1>7, <1>8, <1>9, <1>10 DEF Loop

LEMMA PoolCalls ==
    ASSUME PoolAssumption, TypeOK, [PoolNext]_all
    PROVE  [Next]_vars
<1>1. ASSUME NEW c \in Callers, Calls(c)
      PROVE  [Next]_vars
  BY <1>1 DEF Calls, Next
<1>2. ASSUME NEW w \in Workers, Loop(w)
      PROVE  [Next]_vars
  BY <1>1, <1>2, WorkerCallers, LoopCalls
<1>3. ASSUME NEW w \in Workers, Beat(w)
      PROVE  [Next]_vars
  <2>1. Calls(Beater(w))
    BY <1>3 DEF Beat, Heartbeat, With, Calls, OneStatement
  <2> QED
    BY <1>1, <2>1, WorkerCallers
<1>4. ASSUME NEW w \in Workers, Stop(w)
      PROVE  [Next]_vars
  BY <1>4 DEF Stop, queue, vars
<1>5. ASSUME NEW w \in Workers, StopPause(w)
      PROVE  [Next]_vars
  <2>1. PauseIfActive(Stopper(w), halting[w]) \/ Raises(Stopper(w), "pause")
    BY <1>5 DEF StopPause
  <2> QED
    BY <1>1, <2>1, WorkerCallers, PauseCalls, RaisesCalls
<1>6. ASSUME NEW w \in Workers, Crash(w) \/ Interrupt(w)
      PROVE  [Next]_vars
  BY <1>1, <1>6, WorkerCallers, GivesUp DEF Crash, Interrupt, Forget
<1>7. ASSUME NEW c \in Clients, ClientCreate(c) \/ ClientResume(c)
      PROVE  [Next]_vars
  <2>1. Calls(Main(c))
    BY <1>7 DEF ClientCreate, ClientResume, Calls, OneStatement
  <2> QED
    BY <1>1, <2>1, OtherCallers
<1>8. ASSUME NEW r \in Recoverers, Recover(r)
      PROVE  [Next]_vars
  <2>1. Calls(Main(r))
    BY <1>8 DEF Recover, Calls, Read, Write
  <2> QED
    BY <1>1, <2>1, OtherCallers
<1>9. CASE PoolTick
  BY <1>9 DEF PoolTick, Next
<1>10. CASE OrphanEnds
  BY <1>10 DEF OrphanEnds, queue, vars
<1>11. CASE UNCHANGED all
  BY <1>11 DEF all, queue, vars
<1> QED
  BY <1>2, <1>3, <1>4, <1>5, <1>6, <1>7, <1>8, <1>9, <1>10, <1>11 DEF PoolNext

(***************************************************************************)
(* Workers, clients and recoverers use the queue as TaskQueue describes:   *)
(* what is proved of the queue holds in the pool.                          *)
(***************************************************************************)
THEOREM PoolUsesQueue == PoolSpec => Spec
<1>1. PoolInit => Init /\ TypeOK
  BY TypeInit, TaskAssumption DEF PoolInit
<1>2. TypeOK /\ [PoolNext]_all => [Next]_vars /\ TypeOK'
  BY PoolCalls, TypeStep, PoolAssumption, TaskAssumption, QueueAssumption
<1> QED
  BY <1>1, <1>2, PTL DEF PoolSpec, Spec

-----------------------------------------------------------------------------
(* Types of the workers' own variables. *)
WorkersTyped ==
    /\ pc \in [Workers -> Alive \cup {"down", "stopped", "interrupted"}]
    /\ task \in [Workers -> Tasks \cup {NoTask}]
    /\ current \in [Workers -> Tasks \cup {NoTask}]
    /\ beating \in [Workers -> Tasks \cup {NoTask}]
    /\ halting \in [Workers -> Tasks \cup {NoTask}]
    /\ stop \in [Workers -> BOOLEAN]
    /\ orphans \subseteq Workers \X (Tasks \cup {NoTask})
    /\ resumed \subseteq Tasks

(* What a thread of w may do. *)
Acts(w) == Loop(w) \/ Beat(w) \/ Stop(w) \/ StopPause(w) \/ Crash(w) \/ Interrupt(w)

LEMMA LoopTyped ==
    ASSUME PoolAssumption, TypeOK, WorkersTyped, NEW w \in Workers, Loop(w)
    PROVE  WorkersTyped'
<1> USE DEF WorkersTyped, Alive
<1>1. CASE Boot(w) \/ Leave(w) \/ Begin(w) \/ RunEnds(w) \/ CompleteNone(w) \/ Close(w)
  BY <1>1 DEF Boot, Leave, Begin, RunEnds, CompleteNone, Close, Goto
<1>2. CASE Restart(w)
  BY <1>2 DEF Restart, Forget
<1>3. CASE PollSelect(w) \/ PollMiss(w) \/ FailRead(w)
  BY <1>3 DEF PollSelect, PollMiss, FailRead, worker
<1>4. CASE PollClaim(w)
  <2>1. PICK t \in cursor[Main(w)].rows : task' = [task EXCEPT ![w] = t]
    BY <1>4 DEF PollClaim
  <2>2. t \in Tasks
    BY <2>1, WorkerCallers DEF TypeOK
  <2> QED
    BY <1>4, <2>1, <2>2 DEF PollClaim
<1>5. CASE StartOk(w) \/ CompleteOk(w) \/ FailDone(w)
  BY <1>5 DEF StartOk, CompleteOk, FailDone, Goto
<1>6. CASE StartFails(w) \/ CompleteRaises(w) \/ FailRaises(w)
  BY <1>6 DEF StartFails, CompleteRaises, FailRaises, Goto
<1>7. CASE Park(w) \/ Release(w)
  BY <1>7 DEF Park, Release, SweepNode, Goto, worker
<1>8. CASE InterruptStop(w)
  BY <1>8 DEF InterruptStop
<1> QED
  BY <1>1, <1>2, <1>3, <1>4, <1>5, <1>6, <1>7, <1>8 DEF Loop

LEMMA PoolTyped ==
    ASSUME PoolAssumption, TypeOK, WorkersTyped, [PoolNext]_all
    PROVE  WorkersTyped'
<1>1. ASSUME NEW w \in Workers, Loop(w)
      PROVE  WorkersTyped'
  BY <1>1, LoopTyped
<1>2. ASSUME NEW w \in Workers, Beat(w) \/ Stop(w) \/ StopPause(w)
      PROVE  WorkersTyped'
  <2>1. CASE Beat(w)
    BY <2>1 DEF Beat, worker, WorkersTyped
  <2>2. CASE Stop(w)
    BY <2>2 DEF Stop, WorkersTyped
  <2>3. CASE StopPause(w)
    BY <2>3 DEF StopPause, WorkersTyped
  <2> QED
    BY <1>2, <2>1, <2>2, <2>3
<1>3. ASSUME NEW w \in Workers, Crash(w) \/ Interrupt(w)
      PROVE  WorkersTyped'
  <2>1. CASE Crash(w)
    BY <2>1 DEF Crash, Forget, WorkersTyped
  <2>2. CASE Interrupt(w)
    <3>1. current' \in {current, [current EXCEPT ![w] = NoTask]}
      BY <2>2 DEF Interrupt
    <3>2. current' \in [Workers -> Tasks \cup {NoTask}]
      BY <3>1 DEF WorkersTyped
    <3> QED
      BY <2>2, <3>2 DEF Interrupt, Forget, WorkersTyped
  <2> QED
    BY <1>3, <2>1, <2>2
<1>4. CASE UNCHANGED worker /\ orphans' \subseteq orphans /\ resumed' \subseteq Tasks
  BY <1>4 DEF worker, WorkersTyped
<1>5. ASSUME NEW c \in Clients, ClientCreate(c) \/ ClientResume(c)
      PROVE  WorkersTyped'
  <2>1. UNCHANGED worker /\ orphans' \subseteq orphans /\ resumed' \subseteq Tasks
    BY <1>5 DEF ClientCreate, ClientResume, WorkersTyped
  <2> QED
    BY <1>4, <2>1
<1>6. ASSUME NEW r \in Recoverers, Recover(r)
      PROVE  WorkersTyped'
  <2>1. UNCHANGED <<worker, orphans, resumed>>
    BY <1>6 DEF Recover
  <2> QED
    BY <1>4, <2>1 DEF WorkersTyped
<1>7. CASE OrphanEnds
  <2>1. UNCHANGED <<worker, resumed>> /\ orphans' \subseteq orphans
    BY <1>7 DEF OrphanEnds
  <2> QED
    BY <1>4, <2>1 DEF WorkersTyped
<1>8. CASE PoolTick \/ UNCHANGED all
  BY <1>4, <1>8 DEF PoolTick, all, WorkersTyped
<1> QED
  BY <1>1, <1>2, <1>3, <1>4, <1>5, <1>6, <1>7, <1>8 DEF PoolNext

(***************************************************************************)
(* The columns of the queue and the variables of the workers stay in their *)
(* domains, in whatever order threads run, raise and die.                  *)
(***************************************************************************)
THEOREM PoolTypeCorrect == PoolSpec => []PoolTypeOK
<1>1. PoolInit => TypeOK /\ WorkersTyped
  BY TypeInit, TaskAssumption DEF PoolInit, WorkersTyped
<1>2. TypeOK /\ WorkersTyped /\ [PoolNext]_all => TypeOK' /\ WorkersTyped'
  BY PoolCalls, PoolTyped, TypeStep, PoolAssumption, TaskAssumption, QueueAssumption
<1>3. TypeOK /\ WorkersTyped => PoolTypeOK
  BY DEF PoolTypeOK, WorkersTyped
<1> QED
  BY <1>1, <1>2, <1>3, PTL DEF PoolSpec

-----------------------------------------------------------------------------
(***************************************************************************)
(* What the two properties rest on: nobody resumes a paused task, which    *)
(* opencode may still be working on; pause() does not raise in stop(),     *)
(* which would suppress it; a heartbeat comes before its task is stale;    *)
(* one process at most recovers stale tasks; no node has an agent's name.  *)
(***************************************************************************)
Careful ==
    /\ ResumeArgs = {}
    /\ "pause" \notin MayRaise
    /\ \A t \in Tasks : HbPeriod <= Timeout[t]
    /\ \A r, s \in Recoverers : r = s
    /\ \A v, w \in Workers : AgentOf[v] # w

(***************************************************************************)
(* A worker and its task, from the claim to the end of the run: it holds   *)
(* the row, which somebody keeps alive unless it was paused, and what its  *)
(* main loop has read of the queue is about that task.                     *)
(***************************************************************************)
Engaged == {"claimed", "starting", "running", "completing", "failing"}
AtWork  == {"running", "completing", "failing"}

(* What keeps w and its task together. *)
HoldsTask(w) ==
    pc[w] \in Engaged =>
        /\ task[w] \in Tasks
        /\ assigned_to[task[w]] = AgentOf[w]
        /\ status[task[w]] \in
              (IF pc[w] \in AtWork THEN {"in_progress", "paused"} ELSE {"assigned", "paused"})
        /\ status[task[w]] # "paused" => last_heartbeat[task[w]] <= HbPeriod

Watches(w) ==
    /\ pc[w] \in AtWork \cup {"starting"} => current[w] = task[w]
    /\ pc[w] \in AtWork =>
          \/ task[w] \in {beating[w], halting[w]}
          \/ status[task[w]] = "paused"

CursorOf(w) ==
    LET k == cursor[Main(w)] IN
    /\ k.op \in {"idle", "claim_next", "fail"}
    /\ k.op = "claim_next" =>
          pc[w] = "poll" /\ k.name = AgentOf[w] /\ \E t \in Tasks : k.rows = {t}
    /\ k.op = "fail" => pc[w] = "failing" /\ k.rows = {task[w]}

WorkerOk(w) == HoldsTask(w) /\ Watches(w) /\ CursorOf(w)

Exclusive ==
    \A v, w \in Workers :
        v # w /\ pc[v] \in Engaged /\ pc[w] \in Engaged => task[v] # task[w]

OnOffer == {"none"} \cup Claimable

RecoveryOk ==
    \A p \in Clients \cup Recoverers :
        LET k == cursor[Main(p)] IN
        /\ k.op \in {"idle", "recover_stale"}
        /\ k.op = "recover_stale" =>
              /\ p \in Recoverers
              /\ \A t \in k.rows : /\ status[t] \notin OnOffer
                                   /\ \A w \in Workers : pc[w] \in Engaged => task[w] # t

OwnersOk == \A t \in Tasks : assigned_to[t] \in {AgentOf[w] : w \in Workers} \cup {NoOne}

PoolInv ==
    (\A w \in Workers : WorkerOk(w)) /\ Exclusive /\ RecoveryOk /\ OwnersOk

-----------------------------------------------------------------------------
Typed == TypeOK /\ WorkersTyped /\ PoolAssumption /\ TaskAssumption /\ QueueAssumption

(* Steps of w leave the other workers, and everybody else's cursor, alone. *)
Apart(w) ==
    /\ \A v \in Workers \ {w} :
          /\ pc'[v] = pc[v] /\ task'[v] = task[v] /\ current'[v] = current[v]
          /\ beating'[v] = beating[v] /\ halting'[v] = halting[v]
    /\ \A c \in Callers \ {Main(w)} : cursor'[c] = cursor[c]

LEMMA PauseApart ==
    ASSUME NEW c \in Callers, NEW t, PauseIfActive(c, t)
    PROVE  cursor' = cursor
BY DEF PauseIfActive, Pause, queue

LEMMA LoopApart ==
    ASSUME Typed, NEW w \in Workers, Loop(w)
    PROVE  Apart(w)
<1> USE WorkerCallers DEF Typed, TypeOK, WorkersTyped, Apart
<1>1. CASE Boot(w) \/ Leave(w) \/ Begin(w) \/ RunEnds(w) \/ CompleteNone(w) \/ Close(w)
  BY <1>1 DEF Boot, Leave, Begin, RunEnds, CompleteNone, Close, Goto, queue
<1>2. CASE Restart(w)
  BY <1>2 DEF Restart, Forget
<1>3. CASE PollSelect(w) \/ PollMiss(w) \/ FailRead(w)
  BY <1>3 DEF PollSelect, PollMiss, FailRead, worker, ClaimNextSelect, FailSelect, Select, Abort
<1>4. CASE PollClaim(w)
  BY <1>4 DEF PollClaim, ClaimNextWrite, Return
<1>5. CASE StartOk(w) \/ CompleteOk(w) \/ FailDone(w)
  BY <1>5 DEF StartOk, CompleteOk, FailDone, Goto, Start, Complete, FailWrite, Return
<1>6. CASE StartFails(w) \/ CompleteRaises(w) \/ FailRaises(w)
  BY <1>6 DEF StartFails, CompleteRaises, FailRaises, Goto, Raises, queue
<1>7. CASE Park(w) \/ Release(w)
  BY <1>7 DEF Park, Release, SweepNode, Goto, worker, queue, ParkSelect, ReleasePendingSelect,
              Select, ParkWrite, ReleaseWrite, Return
<1>8. CASE InterruptStop(w)
  BY <1>8, PauseApart DEF InterruptStop
<1> QED
  BY <1>1, <1>2, <1>3, <1>4, <1>5, <1>6, <1>7, <1>8 DEF Loop

LEMMA ActsApart ==
    ASSUME Typed, Careful, NEW w \in Workers, Acts(w)
    PROVE  Apart(w)
<1> USE DEF Typed, TypeOK, WorkersTyped, Apart
<1>1. CASE Beat(w)
  BY <1>1 DEF Beat, Heartbeat, worker
<1>2. CASE Stop(w)
  BY <1>2 DEF Stop, queue
<1>3. CASE StopPause(w)
  BY <1>3, WorkerCallers, PauseApart DEF StopPause, Raises, Careful
<1>4. CASE Crash(w) \/ Interrupt(w)
  BY <1>4 DEF Crash, Interrupt, Forget
<1> QED
  BY <1>1, <1>2, <1>3, <1>4, LoopApart DEF Acts

-----------------------------------------------------------------------------
(* What a step may do to the row of a task that somebody runs: at most     *)
(* pause it, or prove that it is alive.                                    *)
Gentle(t) ==
    /\ assigned_to'[t] = assigned_to[t]
    /\ \/ status'[t] = status[t]
       \/ status[t] \in Active /\ status'[t] = "paused"
    /\ last_heartbeat'[t] \in {last_heartbeat[t], 0}

LEMMA GentleHolds ==
    ASSUME Typed, NEW v \in Workers, HoldsTask(v), pc'[v] = pc[v], task'[v] = task[v],
           pc[v] \in Engaged => Gentle(task[v])
    PROVE  HoldsTask(v)'
<1> SUFFICES ASSUME pc[v] \in Engaged PROVE HoldsTask(v)'
  BY DEF HoldsTask
<1>1. HbPeriod \in Nat /\ last_heartbeat[task[v]] \in Int
  BY DEF HoldsTask, Typed, PoolAssumption, TypeOK
<1> QED
  BY <1>1 DEF HoldsTask, Gentle

LEMMA GentleKeeps ==
    ASSUME Typed, NEW v \in Workers, WorkerOk(v),
           /\ pc'[v] = pc[v] /\ task'[v] = task[v] /\ current'[v] = current[v]
           /\ beating'[v] = beating[v] /\ halting'[v] = halting[v]
           /\ cursor'[Main(v)] = cursor[Main(v)],
           pc[v] \in Engaged => Gentle(task[v])
    PROVE  WorkerOk(v)'
<1> USE DEF WorkerOk
<1>1. CursorOf(v)'
  BY DEF CursorOf
<1>2. HoldsTask(v)'
  BY GentleHolds
<1>3. Watches(v)'
  BY DEF Watches, Gentle, Active, AtWork, Engaged, HoldsTask
<1> QED
  BY <1>1, <1>2, <1>3

(* No row changes its status, its owner or its age. *)
SameRows == UNCHANGED <<status, assigned_to, last_heartbeat>>

(* A row that is not on offer does not come back to it. *)
Returns(t) == status[t] \notin OnOffer /\ status'[t] \in OnOffer

(* The rows that others run are treated gently, none comes back on offer,  *)
(* and workers own what they claim.                                        *)
RowsKept(w) ==
    /\ \A t \in Tasks : \/ Gentle(t)
                        \/ \A v \in Workers \ {w} : pc[v] \in Engaged => task[v] # t
    /\ \A t \in Tasks : ~ Returns(t)
    /\ OwnersOk'

LEMMA AllGentle ==
    ASSUME OwnersOk, NEW w, \A t \in Tasks : Gentle(t)
    PROVE  RowsKept(w)
<1>1. \A t \in Tasks : ~ Returns(t)
  BY DEF Gentle, Returns, OnOffer, Claimable
<1>2. OwnersOk'
  BY DEF OwnersOk, Gentle
<1> QED
  BY <1>1, <1>2 DEF RowsKept

LEMMA SameGentle ==
    ASSUME SameRows
    PROVE  \A t \in Tasks : Gentle(t)
BY DEF SameRows, Gentle

LEMMA PauseGentle ==
    ASSUME Typed, NEW c, NEW t, PauseIfActive(c, t)
    PROVE  \A u \in Tasks : Gentle(u)
<1>1. CASE t \in With(Active)
  BY <1>1, PutAt DEF PauseIfActive, Pause, Gentle, With
<1>2. CASE t \notin With(Active)
  BY <1>2 DEF PauseIfActive, queue, Gentle
<1> QED
  BY <1>1, <1>2

LEMMA RaisesSame == ASSUME NEW c, NEW call, Raises(c, call) PROVE SameRows
BY DEF Raises, SameRows

(* A node holds no task under its own name, so it parks and frees none. *)
LEMMA NothingToPark ==
    ASSUME Typed, Careful, PoolInv, NEW w \in Workers, Park(w) \/ Release(w)
    PROVE  UNCHANGED queue
<1>1. HeldBy(w) = {}
  <2>1. \A t \in Tasks : assigned_to[t] # w
    <3>1. w # NoOne
      BY WorkerCallers DEF Typed, TaskAssumption, Names
    <3>2. \A v \in Workers : AgentOf[v] # w
      BY DEF Careful
    <3> QED
      BY <3>1, <3>2 DEF PoolInv, OwnersOk
  <2> QED
    BY <2>1 DEF HeldBy, With
<1>2. cursor[Main(w)].op \in {"idle", "claim_next", "fail"}
  BY DEF PoolInv, WorkerOk, CursorOf
<1>3. ~ ParkSelect(Main(w), w) /\ ~ ReleasePendingSelect(Main(w), w)
  BY <1>1 DEF ParkSelect, ReleasePendingSelect, Select, Cursor, Idle
<1>4. ~ ParkWrite(Main(w)) /\ ~ ReleaseWrite(Main(w))
  BY <1>2 DEF ParkWrite, ReleaseWrite, Return
<1> QED
  BY <1>3, <1>4 DEF Park, Release, SweepNode

LEMMA QuietSteps ==
    ASSUME Typed, Careful, PoolInv, NEW w \in Workers,
           \/ Boot(w) \/ Restart(w) \/ PollSelect(w) \/ PollMiss(w) \/ Leave(w) \/ Begin(w)
           \/ StartFails(w) \/ RunEnds(w) \/ CompleteNone(w) \/ CompleteRaises(w) \/ FailRead(w)
           \/ FailRaises(w) \/ Close(w) \/ Park(w) \/ Release(w) \/ Stop(w) \/ Crash(w)
           \/ Interrupt(w)
    PROVE  SameRows
<1>1. CASE Boot(w) \/ Leave(w) \/ Begin(w) \/ RunEnds(w) \/ CompleteNone(w) \/ Close(w) \/ Stop(w)
  BY <1>1 DEF Boot, Leave, Begin, RunEnds, CompleteNone, Close, Stop, queue, SameRows
<1>2. CASE Restart(w) \/ Crash(w) \/ Interrupt(w)
  BY <1>2 DEF Restart, Crash, Interrupt, Forget, SameRows
<1>3. CASE PollSelect(w) \/ PollMiss(w) \/ FailRead(w)
  BY <1>3 DEF PollSelect, PollMiss, FailRead, ClaimNextSelect, FailSelect, Select, Abort, SameRows
<1>4. CASE StartFails(w) \/ CompleteRaises(w) \/ FailRaises(w)
  BY <1>4, RaisesSame DEF StartFails, CompleteRaises, FailRaises, queue, SameRows
<1>5. CASE Park(w) \/ Release(w)
  BY <1>5, NothingToPark DEF queue, SameRows
<1> QED
  BY <1>1, <1>2, <1>3, <1>4, <1>5

(* A claim takes one row, which nobody runs. *)
LEMMA ClaimTakes ==
    ASSUME Typed, PoolInv, NEW w \in Workers, PollClaim(w)
    PROVE  \E t \in Tasks :
              /\ status[t] \in Claimable
              /\ task'[w] = t /\ pc'[w] = "claimed" /\ cursor'[Main(w)] = Idle
              /\ status'[t] = "assigned" /\ assigned_to'[t] = AgentOf[w]
              /\ last_heartbeat'[t] = 0
              /\ \A u \in Tasks \ {t} : Gentle(u)
<1>1. PICK t \in Tasks : cursor[Main(w)].rows = {t} /\ cursor[Main(w)].name = AgentOf[w]
  BY DEF PollClaim, ClaimNextWrite, Return, PoolInv, WorkerOk, CursorOf
<1>2. t \in With(Claimable)
  BY <1>1 DEF PollClaim, ClaimNextWrite
<1>3. task'[w] = t /\ pc'[w] = "claimed"
  BY <1>1 DEF PollClaim, Typed, WorkersTyped
<1>4. cursor'[Main(w)] = Idle
  BY WorkerCallers DEF PollClaim, ClaimNextWrite, Return, Typed, TypeOK
<1>5. /\ status' = Put(status, {t}, "assigned")
      /\ assigned_to' = Put(assigned_to, {t}, AgentOf[w])
      /\ last_heartbeat' = Put(last_heartbeat, {t}, 0)
  BY <1>1 DEF PollClaim, ClaimNextWrite
<1> QED
  BY <1>2, <1>3, <1>4, <1>5, PutAt DEF With, Gentle

(* start(), complete() and fail() of a task write its own row. *)
LEMMA OwnRow ==
    ASSUME Typed, PoolInv, NEW w \in Workers, StartOk(w) \/ CompleteOk(w) \/ FailDone(w)
    PROVE  /\ pc[w] \in Engaged /\ task[w] \in Tasks
           /\ \A u \in Tasks \ {task[w]} : Gentle(u)
           /\ assigned_to' = assigned_to /\ status'[task[w]] \notin OnOffer
<1>1. pc[w] \in Engaged
  BY DEF StartOk, CompleteOk, FailDone, Goto, Engaged
<1>2. task[w] \in Tasks
  BY <1>1 DEF PoolInv, WorkerOk, HoldsTask
<1>3. CASE StartOk(w)
  <2>1. /\ assigned_to' = assigned_to
        /\ status' = Put(status, {task[w]}, "in_progress")
        /\ last_heartbeat' = Put(last_heartbeat, {task[w]}, 0)
    BY <1>3 DEF StartOk, Start
  <2>2. status'[task[w]] = "in_progress"
    BY <1>2, <2>1 DEF Put
  <2>3. \A u \in Tasks \ {task[w]} : Gentle(u)
    BY <2>1, PutAt DEF Gentle
  <2> QED
    BY <1>1, <1>2, <2>1, <2>2, <2>3 DEF OnOffer, Claimable
<1>4. CASE CompleteOk(w)
  <2>1. /\ assigned_to' = assigned_to /\ last_heartbeat' = last_heartbeat
        /\ status' = Put(status, {task[w]}, "done")
    BY <1>4 DEF CompleteOk, Complete
  <2>2. status'[task[w]] = "done"
    BY <1>2, <2>1 DEF Put
  <2>3. \A u \in Tasks \ {task[w]} : Gentle(u)
    BY <2>1, PutAt DEF Gentle
  <2> QED
    BY <1>1, <1>2, <2>1, <2>2, <2>3 DEF OnOffer, Claimable
<1>5. CASE FailDone(w)
  <2>1. cursor[Main(w)].rows = {task[w]}
    BY <1>5 DEF FailDone, FailWrite, Return, PoolInv, WorkerOk, CursorOf
  <2> QED
    BY <1>1, <1>2, <1>5, <2>1
    DEF FailDone, FailWrite, FailedStatus, Gentle, OnOffer, Claimable
<1> QED
  BY <1>3, <1>4, <1>5

LEMMA ActsKeepRows ==
    ASSUME Typed, Careful, PoolInv, NEW w \in Workers, Acts(w)
    PROVE  RowsKept(w)
<1>1. OwnersOk
  BY DEF PoolInv
<1>2. CASE SameRows
  BY <1>1, <1>2, SameGentle, AllGentle
<1>3. CASE Beat(w)
  <2>1. \A t \in Tasks : Gentle(t)
    BY <1>3, PutAt DEF Beat, Heartbeat, Gentle
  <2> QED
    BY <1>1, <2>1, AllGentle
<1>4. CASE StopPause(w) \/ InterruptStop(w)
  BY <1>1, <1>2, <1>4, PauseGentle, RaisesSame, AllGentle DEF StopPause, InterruptStop
<1>5. CASE PollClaim(w)
  <2>1. PICK t \in Tasks :
           /\ status[t] \in Claimable
           /\ status'[t] = "assigned" /\ assigned_to'[t] = AgentOf[w]
           /\ \A u \in Tasks \ {t} : Gentle(u)
    BY <1>5, ClaimTakes
  <2>2. \A v \in Workers : pc[v] \in Engaged => task[v] # t
    BY <2>1 DEF PoolInv, WorkerOk, HoldsTask, Claimable
  <2>3. OwnersOk'
    BY <1>1, <2>1 DEF OwnersOk, Gentle
  <2>4. \A u \in Tasks : ~ Returns(u)
    BY <2>1 DEF Returns, Gentle, OnOffer, Claimable
  <2> QED
    BY <2>1, <2>2, <2>3, <2>4 DEF RowsKept
<1>6. CASE StartOk(w) \/ CompleteOk(w) \/ FailDone(w)
  <2>1. /\ pc[w] \in Engaged /\ task[w] \in Tasks
        /\ \A u \in Tasks \ {task[w]} : Gentle(u)
        /\ assigned_to' = assigned_to /\ status'[task[w]] \notin OnOffer
    BY <1>6, OwnRow
  <2>2. \A v \in Workers \ {w} : pc[v] \in Engaged => task[v] # task[w]
    BY <2>1 DEF PoolInv, Exclusive
  <2>3. \A u \in Tasks : ~ Returns(u)
    BY <2>1 DEF Returns, Gentle, OnOffer, Claimable
  <2> QED
    BY <1>1, <2>1, <2>2, <2>3 DEF RowsKept, OwnersOk
<1> QED
  BY <1>2, <1>3, <1>4, <1>5, <1>6, QuietSteps DEF Acts, Loop

-----------------------------------------------------------------------------
(* Outside "poll" and "failing" the main loop has nothing read.            *)
LEMMA NothingRead ==
    ASSUME NEW w, WorkerOk(w), pc[w] \notin {"poll", "failing"}
    PROVE  cursor[Main(w)].op = "idle"
BY DEF WorkerOk, CursorOf

(* A worker that has no task, and has read nothing, is in order. *)
LEMMA FreeOk ==
    ASSUME NEW w, pc'[w] \notin Engaged, cursor'[Main(w)].op = "idle"
    PROVE  WorkerOk(w)'
BY DEF WorkerOk, HoldsTask, Watches, CursorOf, Engaged, AtWork

LEMMA IdleOp == Idle.op = "idle"
BY DEF Idle

(* The ways out of a task: it is done, failed, given up, or the process    *)
(* ends.                                                                   *)
LEMMA LeavingOk ==
    ASSUME Typed, Careful, PoolInv, NEW w \in Workers,
           \/ Boot(w) \/ Restart(w) \/ PollMiss(w) \/ Leave(w) \/ StartFails(w) \/ CompleteOk(w)
           \/ CompleteNone(w) \/ FailDone(w) \/ FailRaises(w) \/ Close(w) \/ Park(w)
           \/ Release(w) \/ InterruptStop(w) \/ Crash(w) \/ Interrupt(w)
    PROVE  WorkerOk(w)'
<1> USE WorkerCallers DEF Typed, TypeOK, WorkersTyped
<1>1. WorkerOk(w)
  BY DEF PoolInv
<1>2. CASE Boot(w) \/ CompleteNone(w) \/ Close(w)
  <2>1. cursor'[Main(w)].op = "idle"
    BY <1>1, <1>2, NothingRead DEF Boot, CompleteNone, Close, Goto, queue
  <2>2. pc'[w] \notin Engaged
    BY <1>2 DEF Boot, CompleteNone, Close, Goto, Engaged
  <2> QED
    BY <2>1, <2>2, FreeOk
<1>3. CASE Restart(w) \/ Crash(w) \/ Interrupt(w)
  <2>1. cursor'[Main(w)].op = "idle"
    BY <1>3, IdleOp DEF Restart, Crash, Interrupt, Forget
  <2>2. pc'[w] \notin Engaged
    BY <1>3 DEF Restart, Crash, Interrupt, Engaged
  <2> QED
    BY <2>1, <2>2, FreeOk
<1>4. CASE PollMiss(w) \/ Leave(w)
  <2>1. cursor'[Main(w)].op = "idle"
    BY <1>4, IdleOp DEF PollMiss, Abort, Leave, queue
  <2>2. pc'[w] \notin Engaged
    BY <1>4 DEF PollMiss, Leave, Goto, Engaged, worker
  <2> QED
    BY <2>1, <2>2, FreeOk
<1>5. CASE StartFails(w) \/ FailRaises(w)
  <2>1. cursor'[Main(w)].op = "idle"
    BY <1>1, <1>5, NothingRead, IdleOp DEF StartFails, FailRaises, Goto, Raises, queue
  <2>2. pc'[w] \notin Engaged
    BY <1>5 DEF StartFails, FailRaises, Goto, Engaged
  <2> QED
    BY <2>1, <2>2, FreeOk
<1>6. CASE CompleteOk(w) \/ FailDone(w)
  <2>1. cursor'[Main(w)].op = "idle"
    BY <1>6, IdleOp DEF CompleteOk, Complete, CanCall, FailDone, FailWrite, Return
  <2>2. pc'[w] \notin Engaged
    BY <1>6 DEF CompleteOk, FailDone, Goto, Engaged
  <2> QED
    BY <2>1, <2>2, FreeOk
<1>7. CASE Park(w) \/ Release(w)
  <2>1. pc[w] \in {"parking", "releasing"} /\ pc'[w] \notin Engaged
    BY <1>7 DEF Park, Release, SweepNode, Goto, worker, Engaged
  <2>2. cursor'[Main(w)].op = "idle"
    BY <1>1, <1>7, <2>1, NothingRead, NothingToPark DEF queue
  <2> QED
    BY <2>1, <2>2, FreeOk
<1>8. CASE InterruptStop(w)
  <2>1. cursor'[Main(w)].op = "idle"
    BY <1>1, <1>8, NothingRead, PauseApart DEF InterruptStop
  <2>2. pc'[w] \notin Engaged
    BY <1>8 DEF InterruptStop, Engaged
  <2> QED
    BY <2>1, <2>2, FreeOk
<1> QED
  BY <1>2, <1>3, <1>4, <1>5, <1>6, <1>7, <1>8

(* The ways into a task: it is found, claimed and started. *)
LEMMA EnteringOk ==
    ASSUME Typed, PoolInv, NEW w \in Workers,
           PollSelect(w) \/ PollClaim(w) \/ Begin(w) \/ StartOk(w)
    PROVE  WorkerOk(w)'
<1> USE WorkerCallers DEF Typed, TypeOK, WorkersTyped
<1>1. WorkerOk(w)
  BY DEF PoolInv
<1>2. CASE PollSelect(w)
  <2>1. PICK t \in Tasks :
           cursor'[Main(w)] = [Cursor("claim_next", {t}, AgentOf[w]) EXCEPT !.node = w]
    BY <1>2 DEF PollSelect, ClaimNextSelect, Select
  <2>2. pc'[w] = "poll"
    BY <1>2 DEF PollSelect, worker
  <2>3. CursorOf(w)'
    BY <2>1, <2>2 DEF CursorOf, Cursor, Idle
  <2> QED
    BY <2>2, <2>3 DEF WorkerOk, HoldsTask, Watches, Engaged, AtWork
<1>3. CASE PollClaim(w)
  <2>1. PICK t \in Tasks :
           /\ task'[w] = t /\ pc'[w] = "claimed" /\ cursor'[Main(w)] = Idle
           /\ status'[t] = "assigned" /\ assigned_to'[t] = AgentOf[w]
           /\ last_heartbeat'[t] = 0
    BY <1>3, ClaimTakes
  <2>2. HoldsTask(w)'
    BY <2>1 DEF HoldsTask, AtWork, PoolAssumption
  <2> QED
    BY <2>1, <2>2, IdleOp DEF WorkerOk, Watches, CursorOf, AtWork
<1>4. CASE Begin(w)
  <2>1. /\ pc[w] = "claimed" /\ pc'[w] = "starting" /\ task'[w] = task[w]
        /\ current'[w] = task[w] /\ UNCHANGED queue
    BY <1>4 DEF Begin, Goto
  <2>2. HoldsTask(w)'
    BY <1>1, <2>1 DEF WorkerOk, HoldsTask, Engaged, AtWork, queue
  <2>3. CursorOf(w)'
    BY <1>1, <2>1 DEF WorkerOk, CursorOf, queue
  <2> QED
    BY <2>1, <2>2, <2>3 DEF WorkerOk, Watches, AtWork
<1>5. CASE StartOk(w)
  <2>1. /\ pc[w] = "starting" /\ pc'[w] = "running" /\ task'[w] = task[w]
        /\ current'[w] = current[w] /\ beating'[w] = task[w]
        /\ cursor' = cursor /\ assigned_to' = assigned_to
    BY <1>5 DEF StartOk, Goto, Start
  <2>2. task[w] \in Tasks /\ assigned_to[task[w]] = AgentOf[w] /\ current[w] = task[w]
    BY <1>1, <2>1 DEF WorkerOk, HoldsTask, Watches, Engaged
  <2>3. status' = Put(status, {task[w]}, "in_progress")
    BY <1>5 DEF StartOk, Start
  <2>4. last_heartbeat' = Put(last_heartbeat, {task[w]}, 0)
    BY <1>5 DEF StartOk, Start
  <2>5. status'[task[w]] = "in_progress"
    BY <2>2, <2>3 DEF Put
  <2>6. last_heartbeat'[task[w]] = 0
    BY <2>2, <2>4 DEF Put
  <2>7. HoldsTask(w)'
    BY <2>1, <2>2, <2>5, <2>6 DEF HoldsTask, AtWork, PoolAssumption
  <2>8. CursorOf(w)'
    BY <1>1, <2>1 DEF WorkerOk, CursorOf
  <2> QED
    BY <2>1, <2>2, <2>7, <2>8 DEF WorkerOk, Watches
<1> QED
  BY <1>2, <1>3, <1>4, <1>5

(* At work: the run ends, complete() raises, fail() reads the row. *)
LEMMA WorkingOk ==
    ASSUME Typed, PoolInv, NEW w \in Workers, RunEnds(w) \/ CompleteRaises(w) \/ FailRead(w)
    PROVE  WorkerOk(w)'
<1> USE WorkerCallers DEF Typed, TypeOK, WorkersTyped
<1>1. WorkerOk(w)
  BY DEF PoolInv
<1>2. /\ pc[w] \in AtWork /\ pc'[w] \in AtWork /\ task'[w] = task[w] /\ current'[w] = current[w]
      /\ beating'[w] = beating[w] /\ halting'[w] = halting[w] /\ SameRows
  <2>1. CASE RunEnds(w)
    BY <2>1 DEF RunEnds, Goto, queue, SameRows, AtWork
  <2>2. CASE CompleteRaises(w)
    BY <2>2 DEF CompleteRaises, Goto, Raises, SameRows, AtWork
  <2>3. CASE FailRead(w)
    BY <2>3 DEF FailRead, FailSelect, Select, worker, SameRows, AtWork
  <2> QED
    BY <2>1, <2>2, <2>3
<1>3. HoldsTask(w)' /\ Watches(w)'
  BY <1>1, <1>2 DEF WorkerOk, HoldsTask, Watches, AtWork, Engaged, SameRows
<1>4. CursorOf(w)'
  <2>1. CASE RunEnds(w)
    BY <1>1, <2>1, NothingRead DEF RunEnds, Goto, queue, CursorOf
  <2>2. CASE CompleteRaises(w)
    BY <2>2, IdleOp DEF CompleteRaises, Raises, CursorOf
  <2>3. CASE FailRead(w)
    <3>1. cursor'[Main(w)] = [Cursor("fail", {task[w]}, NoOne)
                                 EXCEPT !.tries = retries[task[w]], !.human = FALSE]
      BY <2>3 DEF FailRead, FailSelect, Select
    <3>2. pc'[w] = "failing" /\ task'[w] = task[w]
      BY <2>3 DEF FailRead, worker
    <3> QED
      BY <3>1, <3>2 DEF CursorOf, Cursor, Idle
  <2> QED
    BY <2>1, <2>2, <2>3
<1> QED
  BY <1>3, <1>4 DEF WorkerOk

(* A beat, a stop and the pause that follows it leave the main loop alone. *)
LEMMA StoppingOk ==
    ASSUME Typed, Careful, PoolInv, NEW w \in Workers, Beat(w) \/ Stop(w) \/ StopPause(w)
    PROVE  WorkerOk(w)'
<1> USE WorkerCallers DEF Typed, TypeOK, WorkersTyped
<1>1. WorkerOk(w)
  BY DEF PoolInv
<1>2. CASE Beat(w)
  <2>1. \A t \in Tasks : Gentle(t)
    BY <1>2, PutAt DEF Beat, Heartbeat, Gentle
  <2>2. pc[w] \in Engaged => task[w] \in Tasks
    BY <1>1 DEF WorkerOk, HoldsTask
  <2>3. cursor' = cursor
    BY <1>2 DEF Beat, Heartbeat
  <2> QED
    BY <1>1, <1>2, <2>1, <2>2, <2>3, GentleKeeps DEF Beat, worker
<1>3. CASE Stop(w)
  <2>1. /\ pc' = pc /\ task' = task /\ current' = current /\ halting'[w] = current[w]
        /\ UNCHANGED queue
    BY <1>3 DEF Stop
  <2>2. HoldsTask(w)' /\ CursorOf(w)'
    BY <1>1, <2>1 DEF WorkerOk, HoldsTask, CursorOf, queue
  <2>3. Watches(w)'
    BY <1>1, <2>1 DEF WorkerOk, Watches, queue
  <2> QED
    BY <2>2, <2>3 DEF WorkerOk
<1>4. CASE StopPause(w)
  <2>1. /\ pc' = pc /\ task' = task /\ current' = current /\ beating' = beating
        /\ PauseIfActive(Stopper(w), halting[w])
    BY <1>4 DEF StopPause, Raises, Careful
  <2>2. cursor' = cursor /\ \A t \in Tasks : Gentle(t)
    BY <2>1, PauseApart, PauseGentle
  <2>3. HoldsTask(w)'
    <3>1. HoldsTask(w) /\ (pc[w] \in Engaged => Gentle(task[w]))
      BY <1>1, <2>2 DEF WorkerOk, HoldsTask
    <3> QED
      BY <2>1, <3>1, GentleHolds
  <2>4. CursorOf(w)'
    BY <1>1, <2>1, <2>2 DEF WorkerOk, CursorOf
  <2>5. ASSUME pc[w] \in AtWork, task[w] = halting[w]
        PROVE  status'[task[w]] = "paused"
    <3>1. task[w] \in Tasks /\ status[task[w]] \in {"in_progress", "paused"}
      BY <1>1, <2>5 DEF WorkerOk, HoldsTask, AtWork, Engaged
    <3>2. CASE task[w] \in With(Active)
      <4>1. status' = Put(status, {task[w]}, "paused")
        BY <2>1, <2>5, <3>2 DEF PauseIfActive, Pause
      <4> QED
        BY <3>1, <4>1 DEF Put
    <3>3. CASE task[w] \notin With(Active)
      <4>1. status[task[w]] = "paused"
        BY <3>1, <3>3 DEF With, Active
      <4> QED
        BY <2>2, <3>1, <4>1 DEF Gentle
    <3> QED
      BY <3>2, <3>3
  <2>6. Watches(w)'
    <3>1. pc[w] \in AtWork => task[w] \in Tasks
      BY <1>1 DEF WorkerOk, HoldsTask, AtWork, Engaged
    <3>2. pc[w] \in AtWork /\ status[task[w]] = "paused" => status'[task[w]] = "paused"
      BY <2>2, <3>1 DEF Gentle, Active
    <3>3. ASSUME pc[w] \in AtWork
          PROVE  task[w] = beating[w] \/ status'[task[w]] = "paused"
      <4>1. task[w] \in {beating[w], halting[w]} \/ status[task[w]] = "paused"
        BY <1>1, <3>3 DEF WorkerOk, Watches
      <4> QED
        BY <2>5, <3>2, <3>3, <4>1
    <3> QED
      BY <1>1, <2>1, <3>3 DEF WorkerOk, Watches
  <2> QED
    BY <2>3, <2>4, <2>6 DEF WorkerOk
<1> QED
  BY <1>2, <1>3, <1>4

LEMMA OwnOk ==
    ASSUME Typed, Careful, PoolInv, NEW w \in Workers, Acts(w)
    PROVE  WorkerOk(w)'
BY LeavingOk, EnteringOk, WorkingOk, StoppingOk DEF Acts, Loop

-----------------------------------------------------------------------------
(* The only way to a task is a claim. *)
LEMMA Engages ==
    ASSUME Typed, PoolInv, NEW w \in Workers, Acts(w), pc'[w] \in Engaged
    PROVE  (pc[w] \in Engaged /\ task'[w] = task[w]) \/ PollClaim(w)
<1> USE DEF Typed, WorkersTyped, Engaged
<1>1. CASE Boot(w) \/ Restart(w) \/ Crash(w) \/ Interrupt(w) \/ InterruptStop(w)
  BY <1>1 DEF Boot, Restart, Crash, Interrupt, InterruptStop
<1>2. CASE PollSelect(w) \/ PollMiss(w) \/ FailRead(w) \/ Beat(w) \/ Stop(w) \/ StopPause(w)
  BY <1>2 DEF PollSelect, PollMiss, FailRead, Beat, Stop, StopPause, worker
<1>3. CASE Leave(w) \/ Begin(w) \/ StartOk(w) \/ StartFails(w) \/ RunEnds(w)
  BY <1>3 DEF Leave, Begin, StartOk, StartFails, RunEnds, Goto
<1>4. CASE \/ CompleteOk(w) \/ CompleteNone(w) \/ CompleteRaises(w)
           \/ FailDone(w) \/ FailRaises(w) \/ Close(w)
  BY <1>4 DEF CompleteOk, CompleteNone, CompleteRaises, FailDone, FailRaises, Close, Goto
<1>5. CASE Park(w) \/ Release(w)
  BY <1>5 DEF Park, Release, SweepNode, Goto, worker
<1> QED
  BY <1>1, <1>2, <1>3, <1>4, <1>5 DEF Acts, Loop

(* The task of a worker is a task and is not on offer. *)
LEMMA NotOnOffer ==
    ASSUME PoolInv, NEW v \in Workers, pc[v] \in Engaged
    PROVE  task[v] \in Tasks /\ status[task[v]] \notin OnOffer
BY DEF PoolInv, WorkerOk, HoldsTask, OnOffer, Claimable

(* Whatever a thread of a worker does, the pool stays in order. *)
LEMMA ActsInv ==
    ASSUME Typed, Careful, PoolInv, NEW w \in Workers, Acts(w)
    PROVE  PoolInv'
<1>1. Apart(w) /\ RowsKept(w)
  BY ActsApart, ActsKeepRows
<1>2. ASSUME NEW v \in Workers
      PROVE  WorkerOk(v)'
  <2>1. CASE v = w
    BY <2>1, OwnOk
  <2>2. CASE v # w
    <3>1. Main(v) \in Callers \ {Main(w)}
      BY <2>2, WorkerCallers DEF Main, Typed
    <3>2. pc[v] \in Engaged => Gentle(task[v])
      BY <1>1, <2>2, NotOnOffer DEF RowsKept
    <3>3. /\ pc'[v] = pc[v] /\ task'[v] = task[v] /\ current'[v] = current[v]
          /\ beating'[v] = beating[v] /\ halting'[v] = halting[v]
          /\ cursor'[Main(v)] = cursor[Main(v)]
      BY <1>1, <2>2, <3>1 DEF Apart
    <3>4. WorkerOk(v)
      BY DEF PoolInv
    <3> QED
      BY <3>2, <3>3, <3>4, GentleKeeps
  <2> QED
    BY <2>1, <2>2
<1>3. PollClaim(w) => \E t \in Tasks : status[t] \in Claimable /\ task'[w] = t
  BY ClaimTakes
<1>4. ASSUME NEW t \in Tasks, status[t] \notin OnOffer, pc'[w] \in Engaged, task'[w] = t
      PROVE  pc[w] \in Engaged /\ task[w] = t
  BY <1>3, <1>4, Engages DEF OnOffer
<1>5. Exclusive'
  <2>1. ASSUME NEW v \in Workers \ {w}, pc'[v] \in Engaged, pc'[w] \in Engaged
        PROVE  task'[v] # task'[w]
    <3>1. pc[v] \in Engaged /\ task'[v] = task[v]
      BY <1>1, <2>1 DEF Apart
    <3>2. task[v] \in Tasks /\ status[task[v]] \notin OnOffer
      BY <3>1, NotOnOffer
    <3> QED
      BY <1>4, <2>1, <3>1, <3>2 DEF PoolInv, Exclusive
  <2>2. ASSUME NEW u \in Workers \ {w}, NEW v \in Workers \ {w}, u # v,
               pc'[u] \in Engaged, pc'[v] \in Engaged
        PROVE  task'[u] # task'[v]
    BY <1>1, <2>2 DEF Apart, PoolInv, Exclusive
  <2> QED
    BY <2>1, <2>2 DEF Exclusive
<1>6. RecoveryOk'
  <2> SUFFICES ASSUME NEW p \in Clients \cup Recoverers
               PROVE  LET k == cursor'[Main(p)] IN
                      /\ k.op \in {"idle", "recover_stale"}
                      /\ k.op = "recover_stale" =>
                            /\ p \in Recoverers
                            /\ \A t \in k.rows :
                                  /\ status'[t] \notin OnOffer
                                  /\ \A v \in Workers : pc'[v] \in Engaged => task'[v] # t
    BY DEF RecoveryOk, OnOffer, Claimable, Engaged
  <2>1. Main(p) \in Callers /\ Main(p) # Main(w)
    BY OtherCallers DEF Typed
  <2>2. cursor'[Main(p)] = cursor[Main(p)] /\ cursor[Main(p)].rows \subseteq Tasks
    BY <1>1, <2>1 DEF Apart, Typed, TypeOK
  <2>3. ASSUME cursor[Main(p)].op = "recover_stale", NEW t \in cursor[Main(p)].rows
        PROVE  /\ status'[t] \notin OnOffer
               /\ \A v \in Workers : pc'[v] \in Engaged => task'[v] # t
    <3>1. /\ t \in Tasks /\ status[t] \notin OnOffer
          /\ \A v \in Workers : pc[v] \in Engaged => task[v] # t
      BY <2>2, <2>3 DEF PoolInv, RecoveryOk
    <3>2. status'[t] \notin OnOffer
      BY <1>1, <3>1 DEF RowsKept, Returns
    <3> QED
      BY <1>1, <1>4, <3>1, <3>2 DEF Apart
  <2> QED
    BY <2>2, <2>3 DEF PoolInv, RecoveryOk
<1> QED
  BY <1>1, <1>2, <1>5, <1>6 DEF PoolInv, RowsKept

(* Nor does a step of anybody else disturb the workers, if it treats their *)
(* rows gently.                                                            *)
LEMMA OutsideInv ==
    ASSUME Typed, PoolInv, UNCHANGED worker, NEW p \in Clients \cup Recoverers,
           \A c \in Callers \ {Main(p)} : cursor'[c] = cursor[c],
           \A t \in Tasks : \/ Gentle(t)
                            \/ \A v \in Workers : pc[v] \in Engaged => task[v] # t,
           OwnersOk', RecoveryOk'
    PROVE  PoolInv'
<1>1. ASSUME NEW v \in Workers
      PROVE  WorkerOk(v)'
  <2>1. cursor'[Main(v)] = cursor[Main(v)]
    BY WorkerCallers, OtherCallers DEF Typed
  <2>2. pc[v] \in Engaged => Gentle(task[v])
    BY NotOnOffer
  <2>3. WorkerOk(v)
    BY DEF PoolInv
  <2> QED
    BY <2>1, <2>2, <2>3, GentleKeeps DEF worker
<1>2. Exclusive'
  BY DEF PoolInv, Exclusive, worker
<1> QED
  BY <1>1, <1>2 DEF PoolInv

LEMMA CreateInv ==
    ASSUME Typed, PoolInv, NEW c \in Clients, ClientCreate(c)
    PROVE  PoolInv'
<1>1. PICK t \in Tasks : Create(Main(c), t)
  BY DEF ClientCreate
<1>2. /\ status[t] = "none" /\ status' = Put(status, {t}, "pending") /\ cursor' = cursor
      /\ assigned_to' = assigned_to /\ last_heartbeat' = last_heartbeat
  BY <1>1 DEF Create, With
<1>3. UNCHANGED worker
  BY DEF ClientCreate
<1>4. \A u \in Tasks \ {t} : status'[u] = status[u]
  BY <1>2 DEF Put
<1>5. \A u \in Tasks \ {t} : Gentle(u)
  BY <1>2, <1>4 DEF Gentle
<1>6. \A v \in Workers : pc[v] \in Engaged => task[v] # t
  BY <1>2, NotOnOffer DEF OnOffer
<1>7. OwnersOk'
  BY <1>2 DEF PoolInv, OwnersOk
<1>8. RecoveryOk'
  <2>1. ASSUME NEW p \in Clients \cup Recoverers
        PROVE  cursor[Main(p)].rows \subseteq Tasks
    BY OtherCallers DEF Typed, TypeOK
  <2> QED
    BY <1>2, <1>3, <1>4, <2>1 DEF PoolInv, RecoveryOk, OnOffer, worker
<1> QED
  BY <1>2, <1>3, <1>5, <1>6, <1>7, <1>8, OutsideInv

(* A task that a worker runs is not stale. *)
LEMMA NotStale ==
    ASSUME Typed, Careful, PoolInv, NEW v \in Workers, pc[v] \in Engaged
    PROVE  task[v] \notin Stale
<1>1. /\ task[v] \in Tasks
      /\ status[task[v]] # "paused" => last_heartbeat[task[v]] <= HbPeriod
  BY DEF PoolInv, WorkerOk, HoldsTask
<1>2. /\ HbPeriod \in Nat /\ Timeout[task[v]] \in Nat /\ last_heartbeat[task[v]] \in Int
      /\ HbPeriod <= Timeout[task[v]]
  BY <1>1 DEF Typed, PoolAssumption, TaskAssumption, TypeOK, Careful
<1> QED
  BY <1>1, <1>2 DEF Stale, With, Active

LEMMA RecoverInv ==
    ASSUME Typed, Careful, PoolInv, NEW r \in Recoverers, Recover(r)
    PROVE  PoolInv'
<1>1. UNCHANGED worker /\ Main(r) \in Callers
  BY OtherCallers DEF Recover, Typed
<1>2. ASSUME NEW p \in Clients \cup Recoverers, p # r
      PROVE  Main(p) \in Callers \ {Main(r)} /\ p \notin Recoverers
  BY <1>2, OtherCallers DEF Main, Typed, Careful
<1>3. CASE RecoverSelect(Main(r))
  <2>1. /\ cursor' = [cursor EXCEPT ![Main(r)] = Cursor("recover_stale", Stale, NoOne)]
        /\ status' = status /\ assigned_to' = assigned_to /\ last_heartbeat' = last_heartbeat
    BY <1>3 DEF RecoverSelect, Select
  <2>2. \A c \in Callers \ {Main(r)} : cursor'[c] = cursor[c]
    BY <2>1 DEF Typed, TypeOK
  <2>3. cursor'[Main(r)].op = "recover_stale" /\ cursor'[Main(r)].rows = Stale
    BY <1>1, <2>1 DEF Typed, TypeOK, Cursor, Idle
  <2>4. \A t \in Stale : /\ status[t] \notin OnOffer
                         /\ \A v \in Workers : pc[v] \in Engaged => task[v] # t
    BY NotStale DEF Stale, With, Active, OnOffer, Claimable
  <2>5. RecoveryOk'
    <3> SUFFICES ASSUME NEW p \in Clients \cup Recoverers
                 PROVE  LET k == cursor'[Main(p)] IN
                        /\ k.op \in {"idle", "recover_stale"}
                        /\ k.op = "recover_stale" =>
                              /\ p \in Recoverers
                              /\ \A t \in k.rows :
                                    /\ status[t] \notin OnOffer
                                    /\ \A v \in Workers : pc[v] \in Engaged => task[v] # t
      BY <1>1, <2>1 DEF RecoveryOk, OnOffer, Claimable, Engaged, worker
    <3>1. CASE p = r
      BY <2>3, <2>4, <3>1
    <3>2. CASE p # r
      BY <1>2, <2>2, <3>2 DEF PoolInv, RecoveryOk
    <3> QED
      BY <3>1, <3>2
  <2>6. \A t \in Tasks : Gentle(t)
    BY <2>1 DEF Gentle
  <2>7. OwnersOk'
    BY <2>1 DEF PoolInv, OwnersOk
  <2> QED
    BY <1>1, <2>2, <2>5, <2>6, <2>7, OutsideInv
<1>4. CASE RecoverWrite(Main(r))
  <2> DEFINE rows == cursor[Main(r)].rows
  <2>1. /\ cursor[Main(r)].op = "recover_stale" /\ cursor' = [cursor EXCEPT ![Main(r)] = Idle]
        /\ status' = Put(status, rows, "pending")
        /\ assigned_to' = Put(assigned_to, rows, NoOne) /\ last_heartbeat' = last_heartbeat
    BY <1>4 DEF RecoverWrite, Return
  <2>2. \A c \in Callers \ {Main(r)} : cursor'[c] = cursor[c]
    BY <2>1 DEF Typed, TypeOK
  <2>3. \A t \in rows : \A v \in Workers : pc[v] \in Engaged => task[v] # t
    BY <2>1 DEF PoolInv, RecoveryOk
  <2>4. \A t \in Tasks \ rows : Gentle(t)
    <3>1. \A t \in Tasks \ rows : status'[t] = status[t] /\ assigned_to'[t] = assigned_to[t]
      BY <2>1 DEF Put
    <3> QED
      BY <2>1, <3>1 DEF Gentle
  <2>5. OwnersOk'
    <3>1. \A t \in Tasks : assigned_to'[t] \in {assigned_to[t], NoOne}
      BY <2>1 DEF Put
    <3> QED
      BY <3>1 DEF PoolInv, OwnersOk
  <2>6. RecoveryOk'
    <3>1. ASSUME NEW p \in Clients \cup Recoverers
          PROVE  cursor'[Main(p)].op = "idle"
      <4>1. CASE p = r
        BY <1>1, <2>1, <4>1, IdleOp DEF Typed, TypeOK
      <4>2. CASE p # r
        BY <1>2, <2>2, <4>2 DEF PoolInv, RecoveryOk
      <4> QED
        BY <4>1, <4>2
    <3> QED
      BY <3>1 DEF RecoveryOk
  <2> QED
    BY <1>1, <2>2, <2>3, <2>4, <2>5, <2>6, OutsideInv
<1> QED
  BY <1>3, <1>4 DEF Recover

(* Time passes only while every worker keeps its task alive. *)
LEMMA TickInv ==
    ASSUME Typed, PoolInv, PoolTick
    PROVE  PoolInv'
<1>1. /\ status' = status /\ assigned_to' = assigned_to /\ cursor' = cursor /\ UNCHANGED worker
      /\ \A v \in Workers : Prompt(v)
  BY DEF PoolTick, Tick
<1>2. ASSUME NEW v \in Workers
      PROVE  HoldsTask(v)'
  <2> SUFFICES ASSUME pc[v] \in Engaged, status[task[v]] # "paused"
               PROVE  last_heartbeat'[task[v]] <= HbPeriod
    BY <1>1 DEF PoolInv, WorkerOk, HoldsTask, worker
  <2>1. task[v] \in Tasks /\ status[task[v]] \in Active
    BY DEF PoolInv, WorkerOk, HoldsTask, Active
  <2>2. HbPeriod \in Nat /\ last_heartbeat[task[v]] \in Int
    BY <2>1 DEF Typed, PoolAssumption, TypeOK
  <2>3. task[v] \in {beating[v], halting[v]} \/ pc[v] \in {"claimed", "starting"}
    BY DEF PoolInv, WorkerOk, Watches, Engaged, AtWork
  <2>4. last_heartbeat[task[v]] < HbPeriod
    BY <1>1, <2>1, <2>3 DEF Prompt, With
  <2>5. last_heartbeat'[task[v]] \in {last_heartbeat[task[v]], last_heartbeat[task[v]] + 1}
    BY <2>1 DEF PoolTick, Tick
  <2> QED
    BY <2>2, <2>4, <2>5
<1>3. ASSUME NEW v \in Workers
      PROVE  Watches(v)' /\ CursorOf(v)'
  BY <1>1 DEF PoolInv, WorkerOk, Watches, CursorOf, worker
<1>4. Exclusive' /\ RecoveryOk' /\ OwnersOk'
  BY <1>1 DEF PoolInv, Exclusive, RecoveryOk, OwnersOk, worker
<1> QED
  BY <1>2, <1>3, <1>4 DEF PoolInv, WorkerOk

LEMMA PoolInvInit ==
    ASSUME PoolInit, PoolAssumption
    PROVE  PoolInv
<1>1. ASSUME NEW w \in Workers
      PROVE  WorkerOk(w)
  BY WorkerCallers, IdleOp DEF PoolInit, Init, WorkerOk, HoldsTask, Watches, CursorOf, Engaged, AtWork
<1>2. Exclusive
  BY DEF PoolInit, Exclusive, Engaged
<1>3. RecoveryOk
  BY OtherCallers, IdleOp DEF PoolInit, Init, RecoveryOk
<1>4. OwnersOk
  BY DEF PoolInit, Init, OwnersOk
<1> QED
  BY <1>1, <1>2, <1>3, <1>4 DEF PoolInv

LEMMA PoolInvStep ==
    ASSUME Typed, Careful, PoolInv, [PoolNext]_all
    PROVE  PoolInv'
<1>1. ASSUME NEW w \in Workers, Acts(w)
      PROVE  PoolInv'
  BY <1>1, ActsInv
<1>2. ASSUME NEW c \in Clients, ClientCreate(c)
      PROVE  PoolInv'
  BY <1>2, CreateInv
<1>3. ASSUME NEW c \in Clients, ClientResume(c)
      PROVE  PoolInv'
  BY <1>3 DEF ClientResume, Careful
<1>4. ASSUME NEW r \in Recoverers, Recover(r)
      PROVE  PoolInv'
  BY <1>4, RecoverInv
<1>5. CASE PoolTick
  BY <1>5, TickInv
<1>6. CASE OrphanEnds \/ UNCHANGED all
  BY <1>6 DEF OrphanEnds, all, queue, worker, PoolInv, WorkerOk, HoldsTask, Watches, CursorOf,
              Exclusive, RecoveryOk, OwnersOk
<1> QED
  BY <1>1, <1>2, <1>3, <1>4, <1>5, <1>6 DEF PoolNext, Acts

LEMMA PoolStays ==
    ASSUME Careful
    PROVE  PoolSpec => [](Typed /\ PoolInv)
<1>1. PoolInit => Typed /\ PoolInv
  BY PoolInvInit, TypeInit, TaskAssumption, QueueAssumption, PoolAssumption
  DEF PoolInit, WorkersTyped, Typed
<1>2. Typed /\ PoolInv /\ [PoolNext]_all => Typed' /\ PoolInv'
  BY PoolCalls, PoolTyped, TypeStep, PoolInvStep DEF Typed
<1> QED
  BY <1>1, <1>2, PTL DEF PoolSpec

(***************************************************************************)
(* In a careful pool two workers never run the same task at the same time, *)
(* whoever of them crashes, is stopped or taken for dead.                  *)
(***************************************************************************)
THEOREM NoDoubleExecutionAlways ==
    ASSUME Careful
    PROVE  PoolSpec => []NoDoubleExecution
<1>1. PoolInv => NoDoubleExecution
  BY DEF PoolInv, Exclusive, NoDoubleExecution, Engaged
<1> QED
  BY <1>1, PoolStays, PTL

(***************************************************************************)
(* In a careful pool a worker that runs a task holds it in the queue:      *)
(* recover_stale never takes it back, and if it is not in progress any     *)
(* more, stop() paused it.                                                 *)
(***************************************************************************)
THEOREM RunningHeldAlways ==
    ASSUME Careful
    PROVE  PoolSpec => []RunningHeld
<1>1. PoolInv => RunningHeld
  BY DEF PoolInv, WorkerOk, HoldsTask, RunningHeld, Engaged, AtWork
<1> QED
  BY <1>1, PoolStays, PTL

(***************************************************************************)
(* In a careful pool a run that ended well ends in a task that is done:    *)
(* its result is lost only to a pause, to a complete() that raises, or to  *)
(* the death of the process before the call.                               *)
(***************************************************************************)
Kept(w) ==
    pc[w] = "completing" /\ pc'[w] # "completing" =>
       \/ status'[task[w]] = "done"
       \/ status[task[w]] = "paused"
       \/ CompleteRaises(w) \/ Crash(w) \/ Interrupt(w)

LEMMA KeptByActs ==
    ASSUME Typed, Careful, PoolInv, NEW w \in Workers, Acts(w)
    PROVE  \A v \in Workers : Kept(v)
<1>1. \A v \in Workers \ {w} : Kept(v)
  BY ActsApart DEF Apart, Kept
<1>2. Kept(w)
  <2> USE DEF Kept
  <2>1. CASE CompleteOk(w)
    <3>1. task[w] \in Tasks
      BY <2>1, OwnRow
    <3>2. status' = Put(status, {task[w]}, "done")
      BY <2>1 DEF CompleteOk, Complete
    <3> QED
      BY <3>1, <3>2 DEF Put
  <2>2. CASE CompleteNone(w)
    BY <2>2 DEF PoolInv, WorkerOk, HoldsTask, CompleteNone, Goto, Engaged, AtWork, With
  <2>3. CASE CompleteRaises(w) \/ Crash(w) \/ Interrupt(w)
    BY <2>3
  <2>4. CASE Beat(w) \/ Stop(w) \/ StopPause(w) \/ PollSelect(w) \/ PollMiss(w) \/ FailRead(w)
    BY <2>4 DEF Beat, Stop, StopPause, PollSelect, PollMiss, FailRead, worker
  <2>5. CASE Boot(w) \/ Restart(w) \/ PollClaim(w) \/ Leave(w) \/ Begin(w) \/ StartOk(w)
    BY <2>5 DEF Boot, Restart, PollClaim, Leave, Begin, StartOk, Goto
  <2>6. CASE StartFails(w) \/ RunEnds(w) \/ FailDone(w) \/ FailRaises(w) \/ Close(w)
    BY <2>6 DEF StartFails, RunEnds, FailDone, FailRaises, Close, Goto
  <2>7. CASE Park(w) \/ Release(w) \/ InterruptStop(w)
    BY <2>7 DEF Park, Release, SweepNode, InterruptStop, Goto, worker
  <2> QED
    BY <2>1, <2>2, <2>3, <2>4, <2>5, <2>6, <2>7 DEF Acts, Loop
<1> QED
  BY <1>1, <1>2

THEOREM WorkIsKeptAlways ==
    ASSUME Careful
    PROVE  PoolSpec => WorkIsKept
<1>1. ASSUME Typed, PoolInv, PoolNext
      PROVE  \A v \in Workers : Kept(v)
  <2>1. ASSUME NEW w \in Workers, Acts(w)
        PROVE  \A v \in Workers : Kept(v)
    BY <1>1, <2>1, KeptByActs
  <2>2. CASE UNCHANGED worker
    BY <2>2 DEF worker, Kept
  <2>3. ASSUME NEW c \in Clients, ClientCreate(c) \/ ClientResume(c)
        PROVE  UNCHANGED worker
    BY <2>3 DEF ClientCreate, ClientResume
  <2>4. ASSUME NEW r \in Recoverers, Recover(r)
        PROVE  UNCHANGED worker
    BY <2>4 DEF Recover
  <2>5. CASE OrphanEnds \/ PoolTick
    BY <2>2, <2>5 DEF OrphanEnds, PoolTick
  <2> QED
    BY <1>1, <2>1, <2>2, <2>3, <2>4, <2>5 DEF PoolNext, Acts
<1>2. Typed /\ PoolInv /\ [PoolNext]_all =>
         [\A w \in Workers :
             pc[w] = "completing" /\ pc'[w] # "completing" =>
                \/ status'[task[w]] = "done"
                \/ status[task[w]] = "paused"
                \/ CompleteRaises(w) \/ Crash(w) \/ Interrupt(w)]_all
  BY <1>1 DEF Kept
<1> QED
  BY <1>2, PoolStays, PTL DEF WorkIsKept, PoolSpec

-----------------------------------------------------------------------------
(***************************************************************************)
(* The task of an orphan is nobody's and does not come back on offer.      *)
(***************************************************************************)
OrphansOut ==
    \A o \in orphans :
        /\ o[2] \in Tasks /\ status[o[2]] \notin OnOffer
        /\ \A w \in Workers : pc[w] \in Engaged => task[w] # o[2]

LEMMA OrphansOutActs ==
    ASSUME Typed, Careful, PoolInv, OrphansOut, NEW w \in Workers, Acts(w)
    PROVE  OrphansOut'
<1>1. Apart(w) /\ RowsKept(w)
  BY ActsApart, ActsKeepRows
<1>2. ASSUME NEW o \in orphans
      PROVE  /\ o[2] \in Tasks /\ status'[o[2]] \notin OnOffer
             /\ \A v \in Workers : pc'[v] \in Engaged => task'[v] # o[2]
  <2>1. o[2] \in Tasks /\ status'[o[2]] \notin OnOffer
    BY <1>1, <1>2 DEF OrphansOut, RowsKept, Returns
  <2>2. \A v \in Workers \ {w} : pc'[v] \in Engaged => task'[v] # o[2]
    BY <1>1, <1>2 DEF OrphansOut, Apart
  <2>3. ASSUME pc'[w] \in Engaged
        PROVE  task'[w] # o[2]
    <3>1. CASE pc[w] \in Engaged /\ task'[w] = task[w]
      BY <1>2, <3>1 DEF OrphansOut
    <3>2. CASE PollClaim(w)
      BY <1>2, <3>2, ClaimTakes DEF OrphansOut, OnOffer
    <3> QED
      BY <2>3, <3>1, <3>2, Engages
  <2> QED
    BY <2>1, <2>2, <2>3
<1>3. CASE orphans' = orphans
  BY <1>2, <1>3 DEF OrphansOut, OnOffer, Claimable, Engaged
<1>4. CASE Crash(w) /\ pc[w] = "running" /\ orphans' = orphans \cup {<<w, task[w]>>}
  <2>1. task[w] \in Tasks /\ status[task[w]] \notin OnOffer
    BY <1>4, NotOnOffer DEF Engaged
  <2>2. status'[task[w]] \notin OnOffer
    BY <1>1, <2>1 DEF RowsKept, Returns
  <2>3. \A v \in Workers \ {w} : pc'[v] \in Engaged => task'[v] # task[w]
    BY <1>1, <1>4 DEF Apart, PoolInv, Exclusive, Engaged
  <2>4. pc'[w] \notin Engaged
    BY <1>4 DEF Crash, Typed, WorkersTyped, Engaged
  <2> QED
    BY <1>2, <1>4, <2>1, <2>2, <2>3, <2>4 DEF OrphansOut, OnOffer, Claimable, Engaged
<1>5. orphans' = orphans \/ Crash(w)
  <2>1. CASE Beat(w) \/ Stop(w) \/ StopPause(w) \/ Interrupt(w)
    BY <2>1 DEF Beat, Stop, StopPause, Interrupt
  <2>2. CASE Loop(w)
    <3>1. CASE Boot(w) \/ Restart(w) \/ PollSelect(w) \/ PollClaim(w) \/ PollMiss(w) \/ FailRead(w)
      BY <3>1 DEF Boot, Restart, PollSelect, PollClaim, PollMiss, FailRead
    <3>2. CASE Leave(w) \/ Begin(w) \/ StartOk(w) \/ StartFails(w) \/ RunEnds(w) \/ CompleteOk(w)
      BY <3>2 DEF Leave, Begin, StartOk, StartFails, RunEnds, CompleteOk, Goto
    <3>3. CASE \/ CompleteNone(w) \/ CompleteRaises(w) \/ FailDone(w) \/ FailRaises(w)
               \/ Close(w)
      BY <3>3 DEF CompleteNone, CompleteRaises, FailDone, FailRaises, Close, Goto
    <3>4. CASE Park(w) \/ Release(w) \/ InterruptStop(w)
      BY <3>4 DEF Park, Release, SweepNode, InterruptStop, Goto
    <3> QED
      BY <2>2, <3>1, <3>2, <3>3, <3>4 DEF Loop
  <2> QED
    BY <2>1, <2>2 DEF Acts
<1> QED
  BY <1>3, <1>4, <1>5 DEF Crash

(***************************************************************************)
(* In a careful pool where nobody calls recover_stale(), as in production, *)
(* no worker runs a task the opencode of a dead worker still works on, for *)
(* any number of workers, tasks and crashes.                               *)
(***************************************************************************)
THEOREM OrphansAloneAlways ==
    ASSUME Careful, Recoverers = {}
    PROVE  PoolSpec => []OrphansAlone
<1>1. PoolInit => OrphansOut
  BY DEF PoolInit, OrphansOut
<1>2. ASSUME Typed, PoolInv, OrphansOut, [PoolNext]_all
      PROVE  OrphansOut'
  <2> USE <1>2
  <2>1. ASSUME NEW w \in Workers, Acts(w)
        PROVE  OrphansOut'
    BY <2>1, OrphansOutActs
  <2>2. ASSUME NEW c \in Clients, ClientCreate(c)
        PROVE  OrphansOut'
    <3>1. PICK t \in Tasks : Create(Main(c), t)
      BY <2>2 DEF ClientCreate
    <3>2. \A u \in Tasks : status[u] \notin OnOffer => status'[u] = status[u]
      BY <3>1, PutAt DEF Create, OnOffer, With
    <3> QED
      BY <2>2, <3>2 DEF ClientCreate, OrphansOut, worker, OnOffer, Claimable, Engaged
  <2>3. ASSUME NEW c \in Clients, ClientResume(c)
        PROVE  OrphansOut'
    BY <2>3 DEF ClientResume, Careful
  <2>4. CASE OrphanEnds
    BY <2>4 DEF OrphanEnds, OrphansOut, queue, worker
  <2>5. CASE PoolTick \/ UNCHANGED all
    BY <2>5 DEF PoolTick, Tick, all, OrphansOut, queue, worker
  <2> QED
    BY <2>1, <2>2, <2>3, <2>4, <2>5 DEF PoolNext, Acts
<1>3. OrphansOut => OrphansAlone
  BY DEF OrphansOut, OrphansAlone, Engaged
<1> QED
  BY <1>1, <1>2, <1>3, PoolStays, PTL DEF PoolSpec
=============================================================================
