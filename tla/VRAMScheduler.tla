----------------------------- MODULE VRAMScheduler -----------------------------
(***************************************************************************)
(* VRAMAwareScheduler (core/mochila/vram_scheduler.py, and again in        *)
(* core/mochila/mochila_server.py, the copy the service runs) with the     *)
(* handlers that use it: proxy_gateway() and admin_acquire_boot_vram().    *)
(*                                                                         *)
(* Everything runs on one asyncio loop, and no section under the scheduler *)
(* lock awaits: each is one step.  A future of the queue is the field      *)
(* `live` of its entry, true until its waiter gives up or is granted.      *)
(*                                                                         *)
(* Time advances in ticks; ages stop at Old, when nothing more can happen  *)
(* to the one whose age it is.  Memory is counted in units.  _active holds *)
(* the callers, since each has one request at a time.                      *)
(***************************************************************************)
EXTENDS Subsequences

CONSTANTS
    Requests,      \* clients of proxy_gateway()
    Boots,         \* clients of admin_acquire_boot_vram()
    Need,          \* the memory each asks for
    MaxMB,         \* max_mb
    Readings,      \* what nvidia-smi may say is in use
    Flex,          \* deadline_flex; wait_for() has Flex + 1
    FlexFloor,     \* the least deadline of a request, 5 s
    BootPatience,  \* timeout of acquire_boot_vram()
    BootLife,      \* deadline of its entry
    Hangs,         \* whether nvidia-smi may start and never end
    LosesGrants,   \* whether a timeout may hit a caller already granted
    QueueBound     \* bound of the model on the length of the queue

ASSUME VRAMAssumption ==
    /\ Requests \cap Boots = {}
    /\ Need \in [Requests \cup Boots -> Nat \ {0}]
    /\ {MaxMB, Flex, FlexFloor, BootPatience, BootLife, QueueBound} \subseteq Nat \ {0}
    /\ Readings \subseteq 0..MaxMB
    /\ BootPatience < BootLife
    /\ {Hangs, LosesGrants} \subseteq BOOLEAN

Callers == Requests \cup Boots

VARIABLES
    queue,    \* _queue
    active,   \* _active
    current,  \* _current_mb
    errors,   \* _consecutive_smi_errors, up to 3
    loop,     \* where the scheduler loop is
    pc,       \* per caller, where its handler is
    wait      \* ticks a caller has waited

vars == <<queue, active, current, errors, loop, pc, wait>>

Longer(m, n) == IF m > n THEN m ELSE n

(* How long an entry may be granted, and how long its caller waits.  With  *)
(* a short deadline the entry outlives the wait.                           *)
Life(c)     == IF c \in Boots THEN BootLife ELSE Longer(Flex, FlexFloor)
Patience(c) == IF c \in Boots THEN BootPatience ELSE Flex + 1
Old         == Longer(BootLife, Longer(Flex + 1, FlexFloor))

(* available_mb() *)
Available == MaxMB - current

Entries == [who : Callers, age : 0..Old, live : BOOLEAN]

Init ==
    /\ queue = <<>>
    /\ active = {}
    /\ current = 0
    /\ errors = 0
    /\ loop = "sync"
    /\ pc = [c \in Callers |-> "idle"]
    /\ wait = [c \in Callers |-> 0]

-----------------------------------------------------------------------------
(* acquire() with enough memory.  With an active request it returns None   *)
(* and changes nothing.                                                    *)

(* Slip: the active request is not looked at. *)
AdmitSecond(c) ==
    /\ pc[c] = "idle"
    /\ Need[c] <= Available
    /\ active' = active \cup {c}
    /\ pc' = [pc EXCEPT ![c] = "holding"]
    /\ UNCHANGED <<queue, current, errors, loop, wait>>

Admit(c) ==
    /\ pc[c] = "idle"
    /\ active = {} /\ Need[c] <= Available
    /\ active' = {c}
    /\ pc' = [pc EXCEPT ![c] = "holding"]
    /\ UNCHANGED <<queue, current, errors, loop, wait>>

(* acquire() without enough, acquire_boot_vram() always: wait in the queue. *)
Enqueue(c) ==
    /\ pc[c] = "idle"
    /\ c \in Requests => active = {} /\ Need[c] > Available
    /\ Len(queue) < QueueBound
    /\ queue' = Append(queue, [who |-> c, age |-> 0, live |-> TRUE])
    /\ pc' = [pc EXCEPT ![c] = "waiting"]
    /\ wait' = [wait EXCEPT ![c] = 0]
    /\ UNCHANGED <<active, current, errors, loop>>

(* The caller runs again with the id of its request. *)
Resume(c) ==
    /\ pc[c] = "granted"
    /\ pc' = [pc EXCEPT ![c] = "holding"]
    /\ UNCHANGED <<queue, active, current, errors, loop, wait>>

(***************************************************************************)
(* wait_for() times out and cancels the future, whose entry stays in the   *)
(* queue.  If the future was granted in the same iteration of the event    *)
(* loop, the caller sees the timeout and the grant is nobody's.            *)
(***************************************************************************)
GiveUp(c) ==
    /\ wait[c] >= Patience(c)
    /\ \/ pc[c] = "waiting"
       \/ LosesGrants /\ pc[c] = "granted"
    /\ queue' = [i \in DOMAIN queue |->
                    IF queue[i].who = c THEN [queue[i] EXCEPT !.live = FALSE]
                                        ELSE queue[i]]
    /\ pc' = [pc EXCEPT ![c] = "idle"]
    /\ UNCHANGED <<active, current, errors, loop, wait>>

(* Slip: nobody releases a boot service. *)
ReleaseRequest(c) ==
    /\ pc[c] = "holding" /\ c \in Requests
    /\ active' = active \ {c}
    /\ pc' \in {[pc EXCEPT ![c] = "idle"], [pc EXCEPT ![c] = "streaming"]}
    /\ UNCHANGED <<queue, current, errors, loop, wait>>

(***************************************************************************)
(* A request is released when its handler returns: before the client has   *)
(* the answer, if that is a stream.  A boot service is, after a while.     *)
(***************************************************************************)
Release(c) ==
    /\ pc[c] = "holding"
    /\ active' = active \ {c}
    /\ \/ pc' = [pc EXCEPT ![c] = "idle"]
       \/ c \in Requests /\ pc' = [pc EXCEPT ![c] = "streaming"]
    /\ UNCHANGED <<queue, current, errors, loop, wait>>

StreamEnds(c) ==
    /\ pc[c] = "streaming"
    /\ pc' = [pc EXCEPT ![c] = "idle"]
    /\ UNCHANGED <<queue, active, current, errors, loop, wait>>

-----------------------------------------------------------------------------
(* The loop: sync_vram(), then the queue, then a pause.                    *)

Synced(used, failed) ==
    /\ loop = "sync"
    /\ current' = used
    /\ errors' = failed
    /\ loop' = "serve"
    /\ UNCHANGED <<queue, active, pc, wait>>

(* nvidia-smi answers, *)
SyncOk == \E r \in Readings : Synced(r, 0)

(* or times out or fails: at the third time, no memory is available, *)
SyncFails ==
    LET failed == IF errors < 3 THEN errors + 1 ELSE 3
    IN  Synced(IF failed = 3 THEN MaxMB ELSE current, failed)

(* or exits with an error: nothing is learnt. *)
SyncExits == Synced(IF errors = 3 THEN MaxMB ELSE current, errors)

(* The timeout covers its creation only, not communicate(). *)
SyncHangs ==
    /\ Hangs /\ loop = "sync"
    /\ loop' = "hung"
    /\ UNCHANGED <<queue, active, current, errors, pc, wait>>

(* Slip: an entry goes a tick before its deadline. *)
InTimeEarly == {i \in DOMAIN queue : queue[i].age + 1 < Life(queue[i].who)}

(* The places whose deadline has not come, and what is left of the queue   *)
(* when the others are pruned.                                             *)
InTime == {i \in DOMAIN queue : queue[i].age < Life(queue[i].who)}

Unexpired == Pick(queue, InTime)

(* Slip: the future of the head may be done. *)
MayGrantDone(q) == active = {} /\ Need[q.who] <= Available

(* The head is granted. *)
MayGrant(q) == active = {} /\ q.live /\ Need[q.who] <= Available

Serve ==
    /\ loop = "serve"
    /\ loop' = "sync"
    /\ IF Unexpired # <<>> /\ MayGrant(Head(Unexpired))
       THEN LET c == Head(Unexpired).who IN
            /\ queue' = Tail(Unexpired)
            /\ active' = active \cup {c}
            /\ pc' = [pc EXCEPT ![c] = "granted"]
       ELSE /\ queue' = Unexpired
            /\ UNCHANGED <<active, pc>>
    /\ UNCHANGED <<current, errors, wait>>

Later(n) == IF n < Old THEN n + 1 ELSE n

Tick ==
    /\ queue' = [i \in DOMAIN queue |-> [queue[i] EXCEPT !.age = Later(@)]]
    /\ wait' = [c \in Callers |->
                  IF pc[c] \in {"waiting", "granted"} THEN Later(wait[c]) ELSE 0]
    /\ UNCHANGED <<active, current, errors, loop, pc>>

Sync == SyncOk \/ SyncFails \/ SyncExits \/ SyncHangs

Next ==
    \/ \E c \in Requests : Admit(c) \/ StreamEnds(c)
    \/ \E c \in Callers : Enqueue(c) \/ Resume(c) \/ GiveUp(c) \/ Release(c)
    \/ Sync \/ Serve \/ Tick

Spec == Init /\ [][Next]_vars

(* The event loop runs what is ready; upstream requests end. *)
Fairness ==
    /\ WF_vars(Sync) /\ WF_vars(Serve) /\ WF_vars(Tick)
    /\ \A c \in Callers : WF_vars(Resume(c) \/ GiveUp(c)) /\ WF_vars(Release(c))

FairSpec == Spec /\ Fairness

-----------------------------------------------------------------------------

VramTypeOK ==
    /\ queue \in Seq(Entries)
    /\ active \subseteq Callers
    /\ current \in 0..MaxMB
    /\ errors \in 0..3
    /\ loop \in {"sync", "serve", "hung"}
    /\ pc \in [Callers -> {"idle", "waiting", "granted", "holding", "streaming"}]
    /\ wait \in [Callers -> 0..Old]

(***************************************************************************)
(* At most one request is admitted at a time, by acquire() at once or by   *)
(* the loop later; one that runs is admitted; and no one else is, unless   *)
(* its grant was lost to a timeout.                                        *)
(***************************************************************************)
OneActive ==
    /\ \A c, d \in active : c = d
    /\ \A c \in Callers : pc[c] \in {"granted", "holding"} => c \in active
    /\ ~LosesGrants => \A c \in active : pc[c] \in {"granted", "holding"}

(***************************************************************************)
(* A caller that waits keeps exactly one place in the queue until its      *)
(* deadline, and a place is live only while its caller waits.              *)
(***************************************************************************)
LivePlaces(c) == {i \in DOMAIN queue : queue[i].who = c /\ queue[i].live}

KeepsPlace ==
    \A c \in Callers :
        /\ Cardinality(LivePlaces(c)) <= 1
        /\ LivePlaces(c) # {} => pc[c] = "waiting"
        /\ pc[c] = "waiting" /\ wait[c] < Life(c) => LivePlaces(c) # {}

(***************************************************************************)
(* Only a caller that still waits is granted from the queue, before its    *)
(* deadline, and no live entry that is older is passed over.               *)
(***************************************************************************)
GrantsInOrder ==
    [][\A c \in Callers :
          pc[c] # "granted" /\ pc'[c] = "granted" =>
             /\ pc[c] = "waiting" /\ wait[c] < Life(c)
             /\ \A d \in Callers \ {c} : \A i \in LivePlaces(d), j \in LivePlaces(c) :
                   i < j => queue[i].age >= Life(d)]_vars

(***************************************************************************)
(* The scheduler is free again and again, unless a grant was lost.         *)
(***************************************************************************)
Lost == \E c \in active : pc[c] \notin {"granted", "holding"}

FreeAgain == []<>(active = {} \/ Lost)

(***************************************************************************)
(* Somebody who needs the memory can always hope: the scheduler is free    *)
(* again and again, without exceptions.  Not so: the request of a lost     *)
(* grant is released by nobody, and blocks every other for ever.           *)
(***************************************************************************)
AlwaysFreeAgain == []<>(active = {})

(***************************************************************************)
(* An entry whose deadline has passed leaves the queue.  Not so: the       *)
(* timeout of sync_vram() does not cover communicate(), and a hung         *)
(* nvidia-smi stops the loop that prunes.                                  *)
(***************************************************************************)
NoneExpired == \A i \in DOMAIN queue : queue[i].age < Life(queue[i].who)

AlwaysLeave == []<>NoneExpired

(***************************************************************************)
(* The head of the queue is somebody who waits, again and again.  Not so:  *)
(* acquire_boot_vram() gives up before its entry expires, so a boot client *)
(* that retries keeps an abandoned entry at the head.                      *)
(***************************************************************************)
HeadWaits == []<>(queue = <<>> \/ Head(queue).live)

(***************************************************************************)
(* One client at a time has the GPU.  Not so: a stream is served after its *)
(* request was released.                                                   *)
(***************************************************************************)
OneOnGpu ==
    \A c, d \in Callers :
        pc[c] \in {"holding", "streaming"} /\ pc[d] \in {"holding", "streaming"}
            => c = d
=============================================================================
