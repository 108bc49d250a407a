------------------------ MODULE VRAMSchedulerProofs -------------------------
(***************************************************************************)
(* The queue of the VRAM scheduler keeps its promises for any callers, any *)
(* memory and any deadlines.  The inductive invariant knows of a live      *)
(* place what KeepsPlace does not say: that it is as old as its caller's   *)
(* wait.  That is why a deadline seen in the queue is the caller's own.    *)
(***************************************************************************)
EXTENDS VRAMScheduler, SubsequencesProofs

-----------------------------------------------------------------------------
(* What the constants are. *)
LEMMA Constants ==
    ASSUME VRAMAssumption
    PROVE  /\ MaxMB \in Nat /\ Old \in Nat
           /\ \A c \in Callers : Life(c) \in Nat /\ Life(c) <= Old
           /\ Readings \subseteq 0 .. MaxMB
<1>1. {MaxMB, Flex, FlexFloor, BootPatience, BootLife, QueueBound} \subseteq Nat \ {0}
  BY DEF VRAMAssumption
<1>2. MaxMB \in Nat /\ Flex \in Nat /\ FlexFloor \in Nat /\ BootLife \in Nat
  BY <1>1
<1> QED
  BY <1>2 DEF Old, Life, Longer, VRAMAssumption

(***************************************************************************)
(* A turn of the loop: every place left is a place of before whose         *)
(* deadline has not come, they keep their order, and of the places in time *)
(* only the head may go, which is then granted.                            *)
(***************************************************************************)
Kept(place) ==
    /\ place \in [DOMAIN queue' -> InTime]
    /\ \A k \in DOMAIN queue' : queue'[k] = queue[place[k]]
    /\ \A k, l \in DOMAIN queue' : k # l => place[k] # place[l]

Granted(place, h) ==
    /\ h \in InTime /\ queue[h].live /\ active = {}
    /\ \A i \in InTime : h <= i
    /\ \A k \in DOMAIN queue' : place[k] # h
    /\ \A i \in InTime \ {h} : \E k \in DOMAIN queue' : place[k] = i
    /\ active' = {queue[h].who}
    /\ pc' = [pc EXCEPT ![queue[h].who] = "granted"]

NoneGranted(place) ==
    /\ \A i \in InTime : \E k \in DOMAIN queue' : place[k] = i
    /\ UNCHANGED <<active, pc>>

LEMMA ServeMoves ==
    ASSUME queue \in Seq(Entries), Serve
    PROVE  /\ queue' \in Seq(Entries)
           /\ \E place : /\ Kept(place)
                         /\ NoneGranted(place) \/ \E h \in InTime : Granted(place, h)
<1> DEFINE N == Cardinality(InTime)
           at(k) == Nth(InTime, k)
           Left == Unexpired
<1> HIDE DEF N, at, Left
<1>1. Len(queue) \in Nat /\ DOMAIN queue = 1 .. Len(queue) /\ InTime \in SUBSET DOMAIN queue
  BY DEF InTime
<1>2. /\ N \in Nat
      /\ Left \in Seq(Entries) /\ Len(Left) = N
      /\ \A k \in 1 .. N : at(k) \in InTime /\ Left[k] = queue[at(k)]
  BY <1>1, PickSeq DEF N, at, Left, Unexpired
<1>3. /\ \A k, l \in 1 .. N : k < l => at(k) < at(l)
      /\ \A i \in InTime : \E k \in 1 .. N : at(k) = i
  BY <1>1, NthOrder DEF N, at
<1>4. \A i \in InTime : i \in Int
  BY <1>1
<1>5. \A k, l \in 1 .. N : k # l => at(k) # at(l)
  <2> SUFFICES ASSUME NEW k \in 1 .. N, NEW l \in 1 .. N, k # l
               PROVE  at(k) # at(l)
    OBVIOUS
  <2>1. at(k) \in Int /\ at(l) \in Int
    BY <1>2, <1>4
  <2>2. k < l \/ l < k
    BY <1>2
  <2> QED
    BY <1>3, <2>1, <2>2
<1>6. CASE Left # <<>> /\ MayGrant(Head(Left))
  <2> DEFINE h == at(1)
             place == [k \in 1 .. N - 1 |-> at(k + 1)]
  <2>1. N \in Nat \ {0} /\ Head(Left) = queue[h] /\ h \in InTime
    BY <1>2, <1>6
  <2>2. /\ queue' = Tail(Left)
        /\ active = {} /\ queue[h].live
        /\ active' = {queue[h].who}
        /\ pc' = [pc EXCEPT ![queue[h].who] = "granted"]
    BY <1>6, <2>1 DEF Serve, MayGrant, Left
  <2>3. /\ queue' \in Seq(Entries) /\ DOMAIN queue' = 1 .. N - 1
        /\ \A k \in 1 .. N - 1 : queue'[k] = Left[k + 1]
    BY <1>2, <1>6, <2>1, <2>2
  <2>4. \A k \in 1 .. N - 1 : k + 1 \in 1 .. N /\ 1 \in 1 .. N /\ 1 # k + 1
    BY <1>2
  <2>5. /\ place \in [DOMAIN queue' -> InTime]
        /\ \A k \in DOMAIN queue' : queue'[k] = queue[place[k]] /\ place[k] # h
    BY <1>2, <1>5, <2>3, <2>4
  <2>6. \A k, l \in DOMAIN queue' : k # l => place[k] # place[l]
    <3> SUFFICES ASSUME NEW k \in 1 .. N - 1, NEW l \in 1 .. N - 1, k # l
                 PROVE  at(k + 1) # at(l + 1)
      BY <2>3
    <3>1. k + 1 # l + 1
      BY <1>2
    <3> QED
      BY <1>5, <2>4, <3>1
  <2>7. \A i \in InTime \ {h} : \E k \in DOMAIN queue' : place[k] = i
    <3> SUFFICES ASSUME NEW i \in InTime \ {h}
                 PROVE  \E k \in 1 .. N - 1 : at(k + 1) = i
      BY <2>3
    <3>1. PICK k \in 1 .. N : at(k) = i
      BY <1>3
    <3>2. k - 1 \in 1 .. N - 1 /\ (k - 1) + 1 = k
      BY <1>2, <3>1
    <3> QED
      BY <3>1, <3>2
  <2>8. \A i \in InTime : h <= i
    <3> SUFFICES ASSUME NEW i \in InTime
                 PROVE  h <= i
      OBVIOUS
    <3>1. PICK k \in 1 .. N : at(k) = i
      BY <1>3
    <3>2. k = 1 \/ (1 < k /\ 1 \in 1 .. N)
      BY <1>2
    <3> QED
      BY <1>3, <1>4, <2>1, <3>1, <3>2
  <2>9. Kept(place) /\ Granted(place, h)
    BY <2>1, <2>2, <2>5, <2>6, <2>7, <2>8 DEF Kept, Granted
  <2> QED
    BY <2>1, <2>3, <2>9
<1>7. CASE ~(Left # <<>> /\ MayGrant(Head(Left)))
  <2> DEFINE place == [k \in 1 .. N |-> at(k)]
  <2>1. queue' = Left /\ UNCHANGED <<active, pc>>
    BY <1>7 DEF Serve, Left
  <2>2. queue' \in Seq(Entries) /\ DOMAIN queue' = 1 .. N
    BY <1>2, <2>1
  <2>3. Kept(place)
    BY <1>2, <1>5, <2>1, <2>2 DEF Kept
  <2>4. NoneGranted(place)
    BY <1>3, <2>1, <2>2 DEF NoneGranted
  <2> QED
    BY <2>2, <2>3, <2>4
<1> QED
  BY <1>6, <1>7

-----------------------------------------------------------------------------
(* What a place of the queue holds. *)
LEMMA EntryOf ==
    ASSUME queue \in Seq(Entries)
    PROVE  /\ Len(queue) \in Nat /\ DOMAIN queue = 1 .. Len(queue)
           /\ \A i \in DOMAIN queue :
                 /\ queue[i] \in Entries
                 /\ queue[i] = [who |-> queue[i].who, age |-> queue[i].age, live |-> queue[i].live]
                 /\ queue[i].who \in Callers
                 /\ queue[i].age \in 0 .. Old
                 /\ queue[i].live \in BOOLEAN
<1>1. Len(queue) \in Nat /\ DOMAIN queue = 1 .. Len(queue)
  OBVIOUS
<1>2. \A i \in DOMAIN queue : queue[i] \in Entries
  OBVIOUS
<1>3. \A e \in Entries : /\ e = [who |-> e.who, age |-> e.age, live |-> e.live]
                         /\ e.who \in Callers /\ e.age \in 0 .. Old /\ e.live \in BOOLEAN
  BY DEF Entries
<1> QED
  BY <1>1, <1>2, <1>3

-----------------------------------------------------------------------------
LEMMA VramInit ==
    ASSUME VRAMAssumption, Init
    PROVE  VramTypeOK
<1>1. /\ 0 \in 0 .. MaxMB /\ 0 \in 0 .. 3 /\ 0 \in 0 .. Old
  BY Constants
<1> QED
  BY <1>1 DEF Init, VramTypeOK

LEMMA VramStep ==
    ASSUME VRAMAssumption, VramTypeOK, [Next]_vars
    PROVE  VramTypeOK'
<1> USE DEF VramTypeOK
<1>0. MaxMB \in Nat /\ Old \in Nat /\ Readings \subseteq 0 .. MaxMB
  BY Constants
<1>1. ASSUME NEW c \in Requests, Admit(c) \/ StreamEnds(c)
      PROVE  VramTypeOK'
  BY <1>1 DEF Admit, StreamEnds, Callers
<1>2. ASSUME NEW c \in Callers, Enqueue(c)
      PROVE  VramTypeOK'
  <2>1. [who |-> c, age |-> 0, live |-> TRUE] \in Entries
    BY <1>0 DEF Entries
  <2>2. queue' \in Seq(Entries)
    BY <1>2, <2>1 DEF Enqueue
  <2> QED
    BY <1>0, <1>2, <2>2 DEF Enqueue
<1>3. ASSUME NEW c \in Callers, Resume(c) \/ Release(c)
      PROVE  VramTypeOK'
  BY <1>3 DEF Resume, Release
<1>4. ASSUME NEW c \in Callers, GiveUp(c)
      PROVE  VramTypeOK'
  <2>1. \A i \in DOMAIN queue : [queue[i] EXCEPT !.live = FALSE] \in Entries
    <3>1. \A e \in Entries : [e EXCEPT !.live = FALSE] \in Entries
      BY DEF Entries
    <3> QED
      BY <3>1, EntryOf
  <2>2. Len(queue) \in Nat /\ DOMAIN queue = 1 .. Len(queue)
    BY EntryOf
  <2>3. queue' \in [1 .. Len(queue) -> Entries]
    BY <1>4, <2>1, <2>2 DEF GiveUp
  <2>4. queue' \in Seq(Entries)
    BY <2>2, <2>3, ListOf
  <2> QED
    BY <1>4, <2>4 DEF GiveUp
<1>5. CASE Sync
  <2>1. UNCHANGED <<queue, active, pc, wait>>
    BY <1>5 DEF Sync, SyncOk, SyncFails, SyncExits, SyncHangs, Synced
  <2>2. current' \in 0 .. MaxMB /\ errors' \in 0 .. 3 /\ loop' \in {"serve", "hung"}
    <3>1. CASE SyncOk \/ SyncHangs
      BY <1>0, <3>1 DEF SyncOk, SyncHangs, Synced
    <3>2. CASE SyncFails
      BY <1>0, <3>2 DEF SyncFails, Synced
    <3>3. CASE SyncExits
      BY <1>0, <3>3 DEF SyncExits, Synced
    <3> QED
      BY <1>5, <3>1, <3>2, <3>3 DEF Sync
  <2> QED
    BY <2>1, <2>2
<1>6. CASE Serve
  <2>1. queue' \in Seq(Entries)
    BY <1>6, ServeMoves
  <2>2. PICK place : NoneGranted(place) \/ \E h \in InTime : Granted(place, h)
    BY <1>6, ServeMoves
  <2>3. \A h \in InTime : queue[h].who \in Callers
    BY EntryOf DEF InTime
  <2>4. /\ active' \subseteq Callers
        /\ pc' \in [Callers -> {"idle", "waiting", "granted", "holding", "streaming"}]
    BY <2>2, <2>3 DEF NoneGranted, Granted
  <2> QED
    BY <1>6, <2>1, <2>4 DEF Serve
<1>7. CASE Tick
  <2>1. \A n \in 0 .. Old : Later(n) \in 0 .. Old
    BY <1>0 DEF Later
  <2>2. \A i \in DOMAIN queue : [queue[i] EXCEPT !.age = Later(@)] \in Entries
    <3>1. \A e \in Entries : [e EXCEPT !.age = Later(@)] \in Entries
      BY <2>1 DEF Entries
    <3> QED
      BY <3>1, EntryOf
  <2>3. queue' \in Seq(Entries)
    <3>1. queue' \in [1 .. Len(queue) -> Entries]
      BY <1>7, <2>2, EntryOf DEF Tick
    <3> QED
      BY <3>1, EntryOf, ListOf
  <2>4. wait' \in [Callers -> 0 .. Old]
    BY <1>0, <1>7, <2>1 DEF Tick
  <2>5. UNCHANGED <<active, current, errors, loop, pc>>
    BY <1>7 DEF Tick
  <2> QED
    BY <2>3, <2>4, <2>5
<1>8. CASE UNCHANGED vars
  BY <1>8 DEF vars
<1> QED
  BY <1>1, <1>2, <1>3, <1>4, <1>5, <1>6, <1>7, <1>8 DEF Next

(* The scheduler's types, for every value of the constants. *)
THEOREM VramTypeCorrect ==
    ASSUME VRAMAssumption
    PROVE  Spec => []VramTypeOK
<1>1. Init => VramTypeOK
  BY VramInit
<1>2. VramTypeOK /\ [Next]_vars => VramTypeOK'
  BY VramStep
<1> QED
  BY <1>1, <1>2, PTL DEF Spec

-----------------------------------------------------------------------------
LEMMA OneActiveStep ==
    ASSUME VRAMAssumption, VramTypeOK, OneActive, [Next]_vars
    PROVE  OneActive'
<1> USE DEF VramTypeOK, OneActive
<1>1. ASSUME NEW c \in Requests, Admit(c) \/ StreamEnds(c)
      PROVE  OneActive'
  BY <1>1 DEF Admit, StreamEnds, Callers
<1>2. ASSUME NEW c \in Callers, Enqueue(c) \/ Resume(c)
      PROVE  OneActive'
  BY <1>2 DEF Enqueue, Resume
<1>3. ASSUME NEW c \in Callers, GiveUp(c)
      PROVE  OneActive'
  BY <1>3 DEF GiveUp
<1>4. ASSUME NEW c \in Callers, Release(c)
      PROVE  OneActive'
  BY <1>4 DEF Release
<1>5. CASE Sync
  BY <1>5 DEF Sync, SyncOk, SyncFails, SyncExits, SyncHangs, Synced
<1>6. CASE Serve
  <2>1. PICK place : NoneGranted(place) \/ \E h \in InTime : Granted(place, h)
    BY <1>6, ServeMoves
  <2>2. CASE NoneGranted(place)
    BY <2>2 DEF NoneGranted
  <2>3. ASSUME NEW h \in InTime, Granted(place, h)
        PROVE  OneActive'
    <3>1. queue[h].who \in Callers
      BY EntryOf DEF InTime
    <3>2. /\ active = {} /\ active' = {queue[h].who}
          /\ pc'[queue[h].who] = "granted"
          /\ \A c \in Callers \ {queue[h].who} : pc'[c] = pc[c]
      BY <2>3, <3>1 DEF Granted
    <3> QED
      BY <3>1, <3>2
  <2> QED
    BY <2>1, <2>2, <2>3
<1>7. CASE Tick
  BY <1>7 DEF Tick
<1>8. CASE UNCHANGED vars
  BY <1>8 DEF vars
<1> QED
  BY <1>1, <1>2, <1>3, <1>4, <1>5, <1>6, <1>7, <1>8 DEF Next

(* One request at most is admitted at a time, whether acquire() admits it  *)
(* at once or the loop does, whatever nvidia-smi says, and no grant is     *)
(* forgotten unless a timeout may hit a caller already granted.            *)
THEOREM OneActiveAlways ==
    ASSUME VRAMAssumption
    PROVE  Spec => []OneActive
<1>1. Init => OneActive
  BY DEF Init, OneActive
<1>2. VramTypeOK /\ OneActive /\ [Next]_vars => OneActive'
  BY OneActiveStep
<1> QED
  BY <1>1, <1>2, VramTypeCorrect, PTL DEF Spec

-----------------------------------------------------------------------------
(***************************************************************************)
(* The places of the queue: a caller has one live place at most, it waits  *)
(* as long as its place is old, and has a place until its deadline.        *)
(***************************************************************************)
PlaceOk(c) ==
    /\ \A i, j \in LivePlaces(c) : i = j
    /\ \A i \in LivePlaces(c) : pc[c] = "waiting" /\ queue[i].age = wait[c]
    /\ pc[c] = "waiting" /\ wait[c] < Life(c) => \E i \in LivePlaces(c) : TRUE

Places == \A c \in Callers : PlaceOk(c)

(* Where the queue and the waits are as before, so are the places of the   *)
(* callers whose handler is where it was, or was not waiting and is not.   *)
LEMMA SamePlaces ==
    ASSUME VramTypeOK, Places, UNCHANGED queue, NEW d \in Callers,
           \/ pc'[d] = pc[d] /\ wait'[d] = wait[d]
           \/ pc[d] # "waiting" /\ pc'[d] # "waiting"
    PROVE  PlaceOk(d)'
<1>1. LivePlaces(d)' = LivePlaces(d)
  BY DEF LivePlaces
<1> QED
  BY <1>1 DEF Places, PlaceOk, LivePlaces

LEMMA PlacesEnqueue ==
    ASSUME VRAMAssumption, VramTypeOK, Places, NEW c \in Callers, Enqueue(c)
    PROVE  Places'
<1> USE DEF VramTypeOK
<1> SUFFICES ASSUME NEW d \in Callers
             PROVE  PlaceOk(d)'
  BY DEF Places
<1>1. /\ Len(queue) \in Nat /\ DOMAIN queue = 1 .. Len(queue)
      /\ DOMAIN queue' = 1 .. (Len(queue) + 1)
      /\ \A i \in DOMAIN queue : queue'[i] = queue[i]
      /\ queue'[Len(queue) + 1] = [who |-> c, age |-> 0, live |-> TRUE]
  BY DEF Enqueue
<1>2. /\ pc[c] = "idle" /\ pc'[c] = "waiting" /\ wait'[c] = 0
      /\ \A e \in Callers \ {c} : pc'[e] = pc[e] /\ wait'[e] = wait[e]
  BY DEF Enqueue
<1>3. CASE d = c
  <2>1. LivePlaces(c) = {}
    BY <1>2 DEF Places, PlaceOk
  <2>2. LivePlaces(c)' = {Len(queue) + 1}
    <3>1. \A i \in DOMAIN queue' : i \in DOMAIN queue \/ i = Len(queue) + 1
      BY <1>1
    <3>2. \A i \in DOMAIN queue : ~(queue'[i].who = c /\ queue'[i].live)
      BY <1>1, <2>1 DEF LivePlaces
    <3>3. Len(queue) + 1 \in DOMAIN queue'
      BY <1>1
    <3> QED
      BY <1>1, <3>1, <3>2, <3>3 DEF LivePlaces
  <2> QED
    BY <1>1, <1>2, <1>3, <2>2 DEF PlaceOk
<1>4. CASE d # c
  <2>1. LivePlaces(d)' = LivePlaces(d)
    BY <1>1, <1>4 DEF LivePlaces
  <2>2. \A i \in LivePlaces(d) : queue'[i] = queue[i]
    BY <1>1 DEF LivePlaces
  <2> QED
    BY <1>2, <1>4, <2>1, <2>2 DEF Places, PlaceOk
<1> QED
  BY <1>3, <1>4

LEMMA PlacesGiveUp ==
    ASSUME VRAMAssumption, VramTypeOK, Places, NEW c \in Callers, GiveUp(c)
    PROVE  Places'
<1> USE DEF VramTypeOK
<1> SUFFICES ASSUME NEW d \in Callers
             PROVE  PlaceOk(d)'
  BY DEF Places
<1>1. /\ DOMAIN queue' = DOMAIN queue
      /\ \A i \in DOMAIN queue :
            /\ queue[i].who = c => queue'[i] = [queue[i] EXCEPT !.live = FALSE]
            /\ queue[i].who # c => queue'[i] = queue[i]
  BY DEF GiveUp
<1>2. /\ pc'[c] = "idle" /\ UNCHANGED wait
      /\ \A e \in Callers \ {c} : pc'[e] = pc[e]
  BY DEF GiveUp
<1>3. \A i \in DOMAIN queue : queue[i].who = c => queue'[i].who = c /\ ~queue'[i].live
  BY <1>1, EntryOf
<1>4. CASE d = c
  <2>1. LivePlaces(c)' = {}
    BY <1>1, <1>3 DEF LivePlaces
  <2> QED
    BY <1>2, <1>4, <2>1 DEF PlaceOk
<1>5. CASE d # c
  <2>1. LivePlaces(d)' = LivePlaces(d)
    BY <1>1, <1>3, <1>5 DEF LivePlaces
  <2>2. \A i \in LivePlaces(d) : queue'[i] = queue[i]
    BY <1>1, <1>5 DEF LivePlaces
  <2> QED
    BY <1>2, <1>5, <2>1, <2>2 DEF Places, PlaceOk
<1> QED
  BY <1>4, <1>5

LEMMA PlacesServe ==
    ASSUME VRAMAssumption, VramTypeOK, Places, Serve
    PROVE  Places'
<1> USE DEF VramTypeOK
<1> SUFFICES ASSUME NEW d \in Callers
             PROVE  PlaceOk(d)'
  BY DEF Places
<1>1. PICK place : Kept(place) /\ (NoneGranted(place) \/ \E h \in InTime : Granted(place, h))
  BY ServeMoves
<1>2. UNCHANGED wait
  BY DEF Serve
<1>3. PlaceOk(d)
  BY DEF Places
(* A live place that is left was one before, *)
<1>4. \A k \in LivePlaces(d)' :
         k \in DOMAIN queue' /\ place[k] \in LivePlaces(d) /\ queue'[k] = queue[place[k]]
  BY <1>1 DEF LivePlaces, Kept, InTime
<1>5. \A k, l \in LivePlaces(d)' : k = l
  <2> SUFFICES ASSUME NEW k \in LivePlaces(d)', NEW l \in LivePlaces(d)', k # l
               PROVE  FALSE
    OBVIOUS
  <2>1. place[k] = place[l]
    BY <1>3, <1>4 DEF PlaceOk
  <2> QED
    BY <1>1, <1>4, <2>1 DEF Kept
(* and one in time is left, unless it is granted. *)
<1>6. \A k \in DOMAIN queue' : place[k] \in LivePlaces(d) => k \in LivePlaces(d)'
  BY <1>1 DEF LivePlaces, Kept
<1>7. wait[d] < Life(d) => LivePlaces(d) \subseteq InTime
  BY <1>3 DEF PlaceOk, InTime, LivePlaces
<1>8. CASE NoneGranted(place)
  <2>1. pc'[d] = pc[d]
    BY <1>8 DEF NoneGranted
  <2>2. \A k \in LivePlaces(d)' : pc'[d] = "waiting" /\ queue'[k].age = wait'[d]
    BY <1>2, <1>3, <1>4, <2>1 DEF PlaceOk
  <2>3. pc'[d] = "waiting" /\ wait'[d] < Life(d) => \E k \in LivePlaces(d)' : TRUE
    BY <1>2, <1>3, <1>6, <1>7, <1>8, <2>1 DEF PlaceOk, NoneGranted
  <2> QED
    BY <1>5, <2>2, <2>3 DEF PlaceOk
<1>9. ASSUME NEW h \in InTime, Granted(place, h)
      PROVE  PlaceOk(d)'
  <2>1. /\ queue[h].who \in Callers /\ h \in LivePlaces(queue[h].who)
        /\ pc'[queue[h].who] = "granted"
        /\ \A c \in Callers \ {queue[h].who} : pc'[c] = pc[c]
    BY <1>9, EntryOf DEF Granted, InTime, LivePlaces
  <2>2. CASE d = queue[h].who
    <3>1. \A k \in LivePlaces(d)' : FALSE
      BY <1>3, <1>4, <1>9, <2>1, <2>2 DEF PlaceOk, Granted
    <3> QED
      BY <2>1, <2>2, <3>1 DEF PlaceOk
  <2>3. CASE d # queue[h].who
    <3>1. pc'[d] = pc[d] /\ h \notin LivePlaces(d)
      BY <2>1, <2>3 DEF LivePlaces
    <3>2. \A k \in LivePlaces(d)' : pc'[d] = "waiting" /\ queue'[k].age = wait'[d]
      BY <1>2, <1>3, <1>4, <3>1 DEF PlaceOk
    <3>3. pc'[d] = "waiting" /\ wait'[d] < Life(d) => \E k \in LivePlaces(d)' : TRUE
      BY <1>2, <1>3, <1>6, <1>7, <1>9, <3>1 DEF PlaceOk, Granted
    <3> QED
      BY <1>5, <3>2, <3>3 DEF PlaceOk
  <2> QED
    BY <2>2, <2>3
<1> QED
  BY <1>1, <1>8, <1>9

LEMMA PlacesTick ==
    ASSUME VRAMAssumption, VramTypeOK, Places, Tick
    PROVE  Places'
<1> USE DEF VramTypeOK
<1> SUFFICES ASSUME NEW d \in Callers
             PROVE  PlaceOk(d)'
  BY DEF Places
<1>1. /\ DOMAIN queue' = DOMAIN queue
      /\ \A i \in DOMAIN queue : queue'[i] = [queue[i] EXCEPT !.age = Later(@)]
      /\ UNCHANGED pc
      /\ pc[d] = "waiting" => wait'[d] = Later(wait[d])
  BY DEF Tick
<1>2. \A i \in DOMAIN queue : /\ queue'[i].who = queue[i].who
                              /\ queue'[i].live = queue[i].live
                              /\ queue'[i].age = Later(queue[i].age)
  BY <1>1, EntryOf
<1>3. LivePlaces(d)' = LivePlaces(d)
  BY <1>1, <1>2 DEF LivePlaces
<1>4. wait[d] \in Nat /\ Life(d) \in Nat /\ wait[d] <= Later(wait[d])
  BY Constants DEF Later
<1>5. PlaceOk(d)
  BY DEF Places
<1>6. LivePlaces(d) \subseteq DOMAIN queue
  BY DEF LivePlaces
<1>7. pc[d] = "waiting" /\ Later(wait[d]) < Life(d) => wait[d] < Life(d)
  <2>1. Later(wait[d]) \in Nat
    BY <1>4 DEF Later
  <2> QED
    BY <1>4, <2>1
<1> QED
  BY <1>1, <1>2, <1>3, <1>5, <1>6, <1>7 DEF PlaceOk

LEMMA PlacesStep ==
    ASSUME VRAMAssumption, VramTypeOK, Places, [Next]_vars
    PROVE  Places'
<1>1. ASSUME NEW c \in Callers, Enqueue(c)
      PROVE  Places'
  BY <1>1, PlacesEnqueue
<1>2. ASSUME NEW c \in Callers, GiveUp(c)
      PROVE  Places'
  BY <1>2, PlacesGiveUp
<1>3. CASE Serve
  BY <1>3, PlacesServe
<1>4. CASE Tick
  BY <1>4, PlacesTick
<1>5. ASSUME NEW c \in Callers, Admit(c) \/ StreamEnds(c) \/ Resume(c) \/ Release(c)
      PROVE  Places'
  <2>1. UNCHANGED queue
    BY <1>5 DEF Admit, StreamEnds, Resume, Release
  <2>2. /\ pc[c] # "waiting" /\ pc'[c] # "waiting"
        /\ \A d \in Callers \ {c} : pc'[d] = pc[d] /\ wait'[d] = wait[d]
    BY <1>5 DEF Admit, StreamEnds, Resume, Release, VramTypeOK
  <2>3. \A d \in Callers : PlaceOk(d)'
    BY <2>1, <2>2, SamePlaces
  <2> QED
    BY <2>3 DEF Places
<1>6. CASE Sync \/ UNCHANGED vars
  <2>1. UNCHANGED <<queue, pc, wait>>
    BY <1>6 DEF Sync, SyncOk, SyncFails, SyncExits, SyncHangs, Synced, vars
  <2>2. \A d \in Callers : PlaceOk(d)'
    BY <2>1, SamePlaces
  <2> QED
    BY <2>2 DEF Places
<1> QED
  BY <1>1, <1>2, <1>3, <1>4, <1>5, <1>6 DEF Next, Callers

(***************************************************************************)
(* The inductive invariant, and what it says of every caller: it keeps its *)
(* one place until its deadline, whoever else gives up, expires or is      *)
(* granted meanwhile.                                                      *)
(***************************************************************************)
VramInv == VramTypeOK /\ Places

LEMMA PlacesKept ==
    ASSUME VramTypeOK, Places
    PROVE  KeepsPlace
<1> SUFFICES ASSUME NEW c \in Callers
             PROVE  /\ Cardinality(LivePlaces(c)) <= 1
                    /\ LivePlaces(c) # {} => pc[c] = "waiting"
                    /\ pc[c] = "waiting" /\ wait[c] < Life(c) => LivePlaces(c) # {}
  BY DEF KeepsPlace
<1>1. PlaceOk(c)
  BY DEF Places
<1>2. CASE LivePlaces(c) = {}
  <2>1. Cardinality(LivePlaces(c)) = 0
    BY <1>2, FS_EmptySet
  <2> QED
    BY <1>1, <1>2, <2>1 DEF PlaceOk
<1>3. ASSUME NEW i \in LivePlaces(c)
      PROVE  Cardinality(LivePlaces(c)) = 1
  <2>1. LivePlaces(c) = {i}
    BY <1>1 DEF PlaceOk
  <2> QED
    BY <2>1, FS_Singleton
<1> QED
  BY <1>1, <1>2, <1>3 DEF PlaceOk

LEMMA VramInvariant ==
    ASSUME VRAMAssumption
    PROVE  Spec => []VramInv
<1>1. Init => VramInv
  <2>1. Init => Places
    BY DEF Init, Places, PlaceOk, LivePlaces
  <2> QED
    BY <2>1, VramInit DEF VramInv
<1>2. VramInv /\ [Next]_vars => VramInv'
  BY VramStep, PlacesStep DEF VramInv
<1> QED
  BY <1>1, <1>2, PTL DEF Spec

(* KeepsPlace, for every value of the constants. *)
THEOREM KeepsPlaceAlways ==
    ASSUME VRAMAssumption
    PROVE  Spec => []KeepsPlace
<1>1. VramInv => KeepsPlace
  BY PlacesKept DEF VramInv
<1> QED
  BY <1>1, VramInvariant, PTL

-----------------------------------------------------------------------------
(* What GrantsInOrder asks of one caller's grant. *)
GrantOf(c) ==
    /\ pc[c] = "waiting" /\ wait[c] < Life(c)
    /\ \A d \in Callers \ {c} : \A i \in LivePlaces(d), j \in LivePlaces(c) :
          i < j => queue[i].age >= Life(d)

(* Only the loop grants, and it grants its head. *)
LEMMA GrantsStep ==
    ASSUME VRAMAssumption, VramInv, [Next]_vars,
           NEW c \in Callers, pc[c] # "granted", pc'[c] = "granted"
    PROVE  GrantOf(c)
<1> USE DEF VramInv
<1>1. Serve
  <2>1. \A d \in Callers : (Admit(d) \/ StreamEnds(d) \/ Enqueue(d) \/ Resume(d)
                              \/ GiveUp(d) \/ Release(d)) => pc'[c] # "granted"
    BY DEF Admit, StreamEnds, Enqueue, Resume, GiveUp, Release, VramTypeOK
  <2>2. Sync \/ Tick \/ UNCHANGED vars => pc' = pc
    BY DEF Sync, SyncOk, SyncFails, SyncExits, SyncHangs, Synced, Tick, vars
  <2> QED
    BY <2>1, <2>2 DEF Next, Callers
<1>2. PICK place : NoneGranted(place) \/ \E h \in InTime : Granted(place, h)
  BY <1>1, ServeMoves DEF VramTypeOK
<1>3. PICK h \in InTime : Granted(place, h)
  BY <1>2 DEF NoneGranted
<1>4. c = queue[h].who /\ h \in LivePlaces(c)
  BY <1>3, EntryOf DEF Granted, InTime, LivePlaces, VramTypeOK
<1>5. PlaceOk(c)
  BY DEF Places
<1>6. pc[c] = "waiting" /\ wait[c] < Life(c)
  BY <1>3, <1>4, <1>5 DEF PlaceOk, InTime
<1>7. ASSUME NEW d \in Callers \ {c}, NEW i \in LivePlaces(d), NEW j \in LivePlaces(c), i < j
      PROVE  queue[i].age >= Life(d)
  <2>1. j = h
    BY <1>4, <1>5 DEF PlaceOk
  <2>2. i \in Int /\ h \in Int /\ i \in DOMAIN queue /\ queue[i].who = d
    BY EntryOf DEF LivePlaces, InTime, VramTypeOK
  <2>3. i \notin InTime
    BY <1>3, <1>7, <2>1, <2>2 DEF Granted
  <2>4. queue[i].age \in Int /\ Life(d) \in Int
    <3>1. queue[i].age \in 0 .. Old
      BY <2>2, EntryOf DEF VramTypeOK
    <3>2. Life(d) \in Nat
      BY Constants
    <3> QED
      BY <3>1, <3>2
  <2>5. ~(queue[i].age < Life(d))
    BY <2>2, <2>3 DEF InTime
  <2> QED
    BY <2>4, <2>5
<1> QED
  BY <1>6, <1>7 DEF GrantOf

(* GrantsInOrder, for every value of the constants. *)
THEOREM GrantsInOrderAlways ==
    ASSUME VRAMAssumption
    PROVE  Spec => GrantsInOrder
<1> DEFINE InOrder == \A c \in Callers : pc[c] # "granted" /\ pc'[c] = "granted" => GrantOf(c)
<1>1. VramInv /\ [Next]_vars => InOrder
  BY GrantsStep
<1>2. Spec => [][InOrder]_vars
  BY <1>1, VramInvariant, PTL DEF Spec
<1> QED
  BY <1>2 DEF GrantsInOrder, GrantOf
=============================================================================
