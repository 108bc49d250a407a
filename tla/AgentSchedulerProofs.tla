------------------------- MODULE AgentSchedulerProofs -------------------------
(***************************************************************************)
(* That the scheduler forgets nobody, respects its limit, implements the   *)
(* pool of executions and starts fresh ones in order, for any number of    *)
(* executions, agents, submitting threads and callers of shutdown(),       *)
(* whatever is cancelled and however executions age.                       *)
(***************************************************************************)
EXTENDS AgentScheduler, SubsequencesProofs

(* What the proofs use of the types. *)
Typed ==
    /\ running \in [Agents -> Executions \cup {None}]
    /\ pc \in [Threads -> {"none", "ready", "executing", "check", "dispatch",
                           "loop", "done"}]
    /\ closer \in [Closers -> {"ready", "joining", "done"}]
    /\ shutdown \in BOOLEAN

(* An entry of _running is of an execution of the agent, whose thread has  *)
(* not reported; and who waits for the threads has closed the scheduler.   *)
EntriesRun ==
    \A a \in Agents : running[a] # None =>
        AgentOf[running[a]] = a /\ pc[<<"run", running[a]>>] = "executing"

Closing == \A k \in Closers : closer[k] # "ready" => shutdown

SchedInv == Typed /\ EntriesRun /\ Closing

Idle == UNCHANGED <<running, closer, shutdown>>

LEMMA SchedInvAtFirst ==
    ASSUME SchedulerAssumption, Init
    PROVE  SchedInv
BY DEF Init, SchedInv, Typed, EntriesRun, Closing, Threads

(* A thread that does not execute moves on. *)
LEMMA ThreadMoves ==
    ASSUME SchedInv, NEW t \in Threads, pc[t] # "executing", Idle,
           NEW c \in {"check", "dispatch", "done"}, pc' = [pc EXCEPT ![t] = c]
    PROVE  SchedInv'
<1>1. Typed'
  BY DEF Idle, SchedInv, Typed
<1>2. EntriesRun'
  <2> SUFFICES ASSUME NEW a \in Agents, running[a] # None
               PROVE  AgentOf[running[a]] = a /\ pc'[<<"run", running[a]>>] = "executing"
    BY DEF EntriesRun, Idle
  <2>1. running[a] \in Executions /\ AgentOf[running[a]] = a
        /\ pc[<<"run", running[a]>>] = "executing"
    BY DEF SchedInv, Typed, EntriesRun
  <2>2. <<"run", running[a]>> \in Threads /\ <<"run", running[a]>> # t
    BY <2>1 DEF Threads
  <2> QED
    BY <2>1, <2>2 DEF SchedInv, Typed
<1> QED
  BY <1>1, <1>2 DEF Idle, SchedInv, Closing

(* One iteration of the loop: the agent's entry is the started execution. *)
LEMMA Dispatched ==
    ASSUME SchedulerAssumption, SchedInv, NEW t \in Threads, DispatchNext(t)
    PROVE  \E e \in Executions :
              /\ running' = [running EXCEPT ![AgentOf[e]] = e]
              /\ pc' = [pc EXCEPT ![t] = "loop", ![<<"run", e>>] = "executing"]
              /\ AgentOf[e] \in Agents
              /\ <<"run", e>> \in Threads
              /\ UNCHANGED <<closer, shutdown>>
BY DEF DispatchNext, SchedulerAssumption, Threads

LEMMA DispatchInv ==
    ASSUME SchedulerAssumption, SchedInv, NEW t \in Threads, DispatchNext(t)
    PROVE  SchedInv'
<1>1. PICK e \in Executions :
         /\ running' = [running EXCEPT ![AgentOf[e]] = e]
         /\ pc' = [pc EXCEPT ![t] = "loop", ![<<"run", e>>] = "executing"]
         /\ AgentOf[e] \in Agents
         /\ <<"run", e>> \in Threads
         /\ UNCHANGED <<closer, shutdown>>
  BY Dispatched
<1>2. pc[t] # "executing"
  BY DEF DispatchNext
<1>3. Typed'
  BY <1>1 DEF SchedInv, Typed
<1>4. EntriesRun'
  <2> SUFFICES ASSUME NEW a \in Agents, running'[a] # None
               PROVE  AgentOf[running'[a]] = a /\ pc'[<<"run", running'[a]>>] = "executing"
    BY DEF EntriesRun
  <2>1. CASE a = AgentOf[e]
    BY <1>1, <2>1 DEF SchedInv, Typed
  <2>2. CASE a # AgentOf[e]
    <3>1. running'[a] = running[a] /\ running[a] \in Executions
      BY <1>1, <2>2 DEF SchedInv, Typed
    <3>2. AgentOf[running[a]] = a /\ pc[<<"run", running[a]>>] = "executing"
      BY <3>1 DEF SchedInv, EntriesRun
    <3>3. <<"run", running[a]>> # t /\ <<"run", running[a]>> \in Threads
      BY <1>2, <3>1, <3>2 DEF Threads
    <3> QED
      BY <1>1, <3>1, <3>2, <3>3 DEF SchedInv, Typed
  <2> QED
    BY <2>1, <2>2
<1> QED
  BY <1>1, <1>3, <1>4 DEF SchedInv, Closing

LEMMA ReportInv ==
    ASSUME SchedulerAssumption, SchedInv, NEW e \in Executions, Report(e)
    PROVE  SchedInv'
<1>1. /\ running' = [running EXCEPT ![AgentOf[e]] = None]
      /\ pc' = [pc EXCEPT ![<<"run", e>>] = "check"]
      /\ UNCHANGED <<closer, shutdown>>
  BY DEF Report
<1>2. Typed'
  BY <1>1 DEF SchedInv, Typed
<1>3. EntriesRun'
  <2> SUFFICES ASSUME NEW a \in Agents, running'[a] # None
               PROVE  AgentOf[running'[a]] = a /\ pc'[<<"run", running'[a]>>] = "executing"
    BY DEF EntriesRun
  <2>1. a # AgentOf[e] /\ running'[a] = running[a] /\ running[a] \in Executions
    BY <1>1 DEF SchedInv, Typed
  <2>2. AgentOf[running[a]] = a /\ pc[<<"run", running[a]>>] = "executing"
    BY <2>1 DEF SchedInv, EntriesRun
  <2>3. <<"run", running[a]>> # <<"run", e>> /\ <<"run", running[a]>> \in Threads
    BY <2>1, <2>2 DEF Threads
  <2> QED
    BY <1>1, <2>1, <2>2, <2>3 DEF SchedInv, Typed
<1> QED
  BY <1>1, <1>2, <1>3 DEF SchedInv, Closing

LEMMA SchedStep ==
    ASSUME SchedulerAssumption, SchedInv, [Next]_vars
    PROVE  SchedInv'
<1>1. ASSUME NEW e \in Executions, Submit(e)
      PROVE  SchedInv'
  <2>1. <<"submit", e>> \in Threads
    BY DEF Threads
  <2>2. pc[<<"submit", e>>] # "executing" /\ pc' = [pc EXCEPT ![<<"submit", e>>] = "check"] /\ Idle
    BY <1>1 DEF Submit, Idle, dicts
  <2> QED
    BY <2>1, <2>2, ThreadMoves
<1>2. ASSUME NEW t \in Threads, Check(t) \/ DispatchEnd(t)
      PROVE  SchedInv'
  <2>1. /\ pc[t] # "executing" /\ Idle
        /\ pc' = [pc EXCEPT ![t] = "done"] \/ pc' = [pc EXCEPT ![t] = "dispatch"]
    BY <1>2 DEF Check, DispatchEnd, Idle, dicts
  <2> QED
    BY <2>1, ThreadMoves
<1>3. ASSUME NEW a \in Agents, Cancel(a)
      PROVE  SchedInv'
  BY <1>3 DEF Cancel, SchedInv, Typed, EntriesRun, Closing
<1>4. ASSUME NEW k \in Closers, Close(k)
      PROVE  SchedInv'
  BY <1>4 DEF Close, dicts, SchedInv, Typed, EntriesRun, Closing
<1>6. ASSUME NEW k \in Closers, Collect(k)
      PROVE  SchedInv'
  <2>1. /\ closer[k] = "joining" /\ closer' = [closer EXCEPT ![k] = "done"]
        /\ running' = [a \in Agents |-> None]
        /\ UNCHANGED <<pc, shutdown>>
    BY <1>6 DEF Collect
  <2>2. Typed' /\ EntriesRun'
    BY <2>1 DEF SchedInv, Typed, EntriesRun
  <2>3. Closing'
    BY <2>1 DEF SchedInv, Typed, Closing
  <2> QED
    BY <2>2, <2>3 DEF SchedInv
<1>5. CASE Clock \/ UNCHANGED vars
  BY <1>5 DEF Clock, vars, dicts, SchedInv, Typed, EntriesRun, Closing
<1> QED
  BY <1>1, <1>2, <1>3, <1>4, <1>5, <1>6, DispatchInv, ReportInv DEF Next, Step
-----------------------------------------------------------------------------
(* Wakeups.                                                                *)

(* Somebody has an entry, so his thread has yet to report and dispatch. *)
LEMMA EntryWillDispatch ==
    ASSUME SchedInv, NEW a \in Agents, running[a] # None
    PROVE  \E t \in Threads : pc[t] = "executing"
<1>1. running[a] \in Executions /\ pc[<<"run", running[a]>>] = "executing"
  BY DEF SchedInv, Typed, EntriesRun
<1> QED
  BY <1>1 DEF Threads

(* No room means that somebody has an entry. *)
LEMMA FullIsBusy ==
    ASSUME SchedulerAssumption, MaxConcurrent > 0, Cardinality(Busy) >= MaxConcurrent
    PROVE  \E a \in Agents : running[a] # None
<1>1. Busy # {}
  BY FS_EmptySet DEF SchedulerAssumption
<1> QED
  BY <1>1 DEF Busy

LEMMA WakeupStep ==
    ASSUME SchedulerAssumption, SchedInv, NoLostWakeup, [Next]_vars
    PROVE  NoLostWakeup'
<1> SUFFICES ASSUME MaxConcurrent > 0, ~shutdown', \E l \in Levels : queues'[l] # <<>>
             PROVE  WillDispatch'
  BY DEF NoLostWakeup
<1>1. ASSUME NEW e \in Executions, Submit(e)
      PROVE  WillDispatch'
  <2>1. <<"submit", e>> \in Threads
    BY DEF Threads
  <2>2. pc'[<<"submit", e>>] = "check"
    BY <1>1, <2>1 DEF Submit, SchedInv, Typed
  <2> QED
    BY <2>1, <2>2 DEF WillDispatch
<1>2. ASSUME NEW e \in Executions, Report(e)
      PROVE  WillDispatch'
  <2>1. <<"run", e>> \in Threads
    BY DEF Threads
  <2>2. pc'[<<"run", e>>] = "check"
    BY <1>2, <2>1 DEF Report, SchedInv, Typed
  <2> QED
    BY <2>1, <2>2 DEF WillDispatch
<1>3. ASSUME NEW t \in Threads, Check(t)
      PROVE  WillDispatch'
  BY <1>3 DEF Check, SchedInv, Typed, WillDispatch
<1>4. ASSUME NEW t \in Threads, DispatchNext(t)
      PROVE  WillDispatch'
  <2>1. PICK e \in Executions :
           /\ pc' = [pc EXCEPT ![t] = "loop", ![<<"run", e>>] = "executing"]
           /\ <<"run", e>> \in Threads
    BY <1>4, Dispatched
  <2>2. pc'[<<"run", e>>] = "executing"
    BY <2>1 DEF SchedInv, Typed
  <2> QED
    BY <2>1, <2>2 DEF WillDispatch
<1>5. ASSUME NEW t \in Threads, DispatchEnd(t)
      PROVE  WillDispatch'
  <2>1. /\ queues' = queues /\ pc' = [pc EXCEPT ![t] = "done"]
        /\ pc[t] # "executing"
    BY <1>5 DEF DispatchEnd
  <2>2. Cardinality(Busy) >= MaxConcurrent
    BY <1>5, <2>1 DEF DispatchEnd
  <2>3. PICK u \in Threads : pc[u] = "executing"
    BY <2>2, FullIsBusy, EntryWillDispatch
  <2>4. pc'[u] = "executing"
    BY <2>1, <2>3 DEF SchedInv, Typed
  <2> QED
    BY <2>4 DEF WillDispatch
<1>6. ASSUME NEW a \in Agents, Cancel(a)
      PROVE  WillDispatch'
  <2>1. UNCHANGED <<pc, shutdown>>
    BY <1>6 DEF Cancel
  <2>2. CASE running[a] # None
    BY <2>1, <2>2, EntryWillDispatch DEF WillDispatch
  <2>3. CASE \E l \in Levels : Has(queues[l], a)
    <3>1. \E l \in Levels : queues[l] # <<>>
      BY <2>3 DEF Has
    <3> QED
      BY <2>1, <3>1 DEF NoLostWakeup, WillDispatch
  <2> QED
    BY <1>6, <2>2, <2>3 DEF Cancel
<1>7. ASSUME NEW k \in Closers, Close(k) \/ Collect(k)
      PROVE  WillDispatch'
  <2>1. CASE Close(k)
    BY <2>1 DEF Close
  <2>2. CASE Collect(k)
    BY <2>2 DEF Collect, SchedInv, Closing
  <2> QED
    BY <1>7, <2>1, <2>2
<1>8. CASE Clock \/ UNCHANGED vars
  BY <1>8 DEF Clock, vars, NoLostWakeup, WillDispatch
<1> QED
  BY <1>1, <1>2, <1>3, <1>4, <1>5, <1>6, <1>7, <1>8 DEF Next, Step

(***************************************************************************)
(* While an execution waits and the scheduler is open, some thread will    *)
(* look at the queue again, for any number of agents, submitters and       *)
(* cancellations; so a full scheduler forgets nobody.                      *)
(***************************************************************************)
THEOREM NoWakeupLost == Spec => []NoLostWakeup
<1>1. Init => SchedInv /\ NoLostWakeup
  BY SchedulerAssumption, SchedInvAtFirst DEF Init, NoLostWakeup
<1>2. SchedInv /\ NoLostWakeup /\ [Next]_vars => SchedInv' /\ NoLostWakeup'
  BY SchedulerAssumption, SchedStep, WakeupStep
<1> QED
  BY <1>1, <1>2, PTL DEF Spec

-----------------------------------------------------------------------------
(* The limit.  _running holds at most max_concurrent entries, and a thread *)
(* of an agent with one execution, never cancelled, has one.               *)

Room == IsFiniteSet(Busy) /\ Cardinality(Busy) <= MaxConcurrent

Counted(e) == pc[<<"run", e>>] = "executing" /\ Single(e) /\ AgentOf[e] \notin Cancelled

CountedHaveEntries ==
    ~shutdown => \A e \in Executions : Counted(e) => running[AgentOf[e]] = e

LEMMA BusyShrinks ==
    ASSUME SchedInv, Room, Busy' \subseteq Busy
    PROVE  Room'
<1>1. IsFiniteSet(Busy') /\ Cardinality(Busy') <= Cardinality(Busy)
  BY FS_Subset DEF Room
<1>2. Cardinality(Busy) \in Nat /\ Cardinality(Busy') \in Nat
  BY <1>1, FS_CardinalityType DEF Room
<1> QED
  BY <1>1, <1>2, SchedulerAssumption DEF Room, SchedulerAssumption

LEMMA RoomStep ==
    ASSUME SchedulerAssumption, SchedInv, Room, [Next]_vars
    PROVE  Room'
<1>1. ASSUME NEW t \in Threads, DispatchNext(t)
      PROVE  Room'
  <2>1. PICK e \in Executions : running' = [running EXCEPT ![AgentOf[e]] = e]
    BY <1>1, Dispatched
  <2>2. Busy' \subseteq Busy \cup {AgentOf[e]}
    BY <2>1 DEF Busy, SchedInv, Typed
  <2>3. /\ IsFiniteSet(Busy \cup {AgentOf[e]})
        /\ Cardinality(Busy \cup {AgentOf[e]}) <= Cardinality(Busy) + 1
    <3>1. IsFiniteSet(Busy) /\ Cardinality(Busy) \in Nat
      BY FS_CardinalityType DEF Room
    <3>2. /\ IsFiniteSet(Busy \cup {AgentOf[e]})
          /\ Cardinality(Busy \cup {AgentOf[e]}) =
               IF AgentOf[e] \in Busy THEN Cardinality(Busy) ELSE Cardinality(Busy) + 1
      BY <3>1, FS_AddElement
    <3> QED
      BY <3>1, <3>2
  <2>4. IsFiniteSet(Busy') /\ Cardinality(Busy') <= Cardinality(Busy \cup {AgentOf[e]})
    BY <2>2, <2>3, FS_Subset
  <2>5. Cardinality(Busy) \in Nat /\ Cardinality(Busy) < MaxConcurrent
    BY <1>1, FS_CardinalityType DEF Room, DispatchNext
  <2>6. Cardinality(Busy') \in Nat /\ Cardinality(Busy \cup {AgentOf[e]}) \in Nat
    BY <2>3, <2>4, FS_CardinalityType
  <2> QED
    BY <2>3, <2>4, <2>5, <2>6 DEF Room, SchedulerAssumption
<1>2. ASSUME NEW e \in Executions, Report(e)
      PROVE  Room'
  <2>1. Busy' \subseteq Busy
    BY <1>2 DEF Report, Busy, SchedInv, Typed
  <2> QED
    BY <2>1, BusyShrinks
<1>3. ASSUME NEW a \in Agents, Cancel(a)
      PROVE  Room'
  <2>1. Busy' \subseteq Busy
    BY <1>3 DEF Cancel, Busy, SchedInv, Typed
  <2> QED
    BY <2>1, BusyShrinks
<1>4. ASSUME NEW k \in Closers, Collect(k)
      PROVE  Room'
  <2>1. Busy' \subseteq Busy
    BY <1>4 DEF Collect, Busy
  <2> QED
    BY <2>1, BusyShrinks
<1>5. CASE UNCHANGED running
  <2>1. Busy' = Busy
    BY <1>5 DEF Busy
  <2> QED
    BY <2>1 DEF Room
<1>6. ASSUME NEW e \in Executions, Submit(e)
      PROVE  UNCHANGED running
  BY <1>6 DEF Submit, dicts
<1>7. ASSUME NEW t \in Threads, Check(t) \/ DispatchEnd(t)
      PROVE  UNCHANGED running
  BY <1>7 DEF Check, DispatchEnd, dicts
<1>8. ASSUME NEW k \in Closers, Close(k)
      PROVE  UNCHANGED running
  BY <1>8 DEF Close, dicts
<1>9. CASE Clock \/ UNCHANGED vars
  BY <1>9, <1>5 DEF Clock, vars, dicts
<1> QED
  BY <1>1, <1>2, <1>3, <1>4, <1>5, <1>6, <1>7, <1>8, <1>9 DEF Next, Step

LEMMA CountedStep ==
    ASSUME SchedulerAssumption, SchedInv, CountedHaveEntries, [Next]_vars
    PROVE  CountedHaveEntries'
<1>1. ASSUME NEW t \in Threads, DispatchNext(t)
      PROVE  CountedHaveEntries'
  <2>1. PICK e \in Executions :
           /\ running' = [running EXCEPT ![AgentOf[e]] = e]
           /\ pc' = [pc EXCEPT ![t] = "loop", ![<<"run", e>>] = "executing"]
           /\ AgentOf[e] \in Agents
           /\ <<"run", e>> \in Threads
           /\ UNCHANGED <<closer, shutdown>>
    BY <1>1, Dispatched
  <2> SUFFICES ASSUME ~shutdown', NEW f \in Executions, Counted(f)'
               PROVE  running'[AgentOf[f]] = f
    BY DEF CountedHaveEntries
  <2>2. CASE f = e
    BY <2>1, <2>2 DEF SchedInv, Typed
  <2>3. CASE f # e
    <3>1. AgentOf[f] # AgentOf[e]
      BY <2>3 DEF Counted, Single
    <3>2. <<"run", f>> # <<"run", e>>
      BY <2>3
    <3>3. pc[<<"run", f>>] = "executing"
      BY <2>1, <3>2 DEF Counted, SchedInv, Typed, Threads
    <3>4. running[AgentOf[f]] = f
      BY <2>1, <3>3 DEF Counted, CountedHaveEntries, Single
    <3> QED
      BY <2>1, <3>1, <3>4 DEF SchedInv, Typed, SchedulerAssumption
  <2> QED
    BY <2>2, <2>3
<1>2. ASSUME NEW e \in Executions, Report(e)
      PROVE  CountedHaveEntries'
  <2>1. /\ running' = [running EXCEPT ![AgentOf[e]] = None]
        /\ pc' = [pc EXCEPT ![<<"run", e>>] = "check"]
        /\ UNCHANGED shutdown
    BY <1>2 DEF Report
  <2> SUFFICES ASSUME ~shutdown', NEW f \in Executions, Counted(f)'
               PROVE  running'[AgentOf[f]] = f
    BY DEF CountedHaveEntries
  <2>2. f # e
    BY <2>1 DEF Counted, SchedInv, Typed, Threads
  <2>3. AgentOf[f] # AgentOf[e] /\ <<"run", f>> # <<"run", e>>
    BY <2>2 DEF Counted, Single
  <2>4. pc[<<"run", f>>] = "executing"
    BY <2>1, <2>3 DEF Counted, SchedInv, Typed, Threads
  <2>5. running[AgentOf[f]] = f
    BY <2>1, <2>4 DEF Counted, CountedHaveEntries, Single
  <2> QED
    BY <2>1, <2>3, <2>5 DEF SchedInv, Typed, SchedulerAssumption
<1>3. ASSUME NEW a \in Agents, Cancel(a)
      PROVE  CountedHaveEntries'
  BY <1>3 DEF Cancel, CountedHaveEntries, Counted, Single, SchedInv, Typed, SchedulerAssumption
<1>4. ASSUME NEW k \in Closers, Close(k)
      PROVE  shutdown'
  BY <1>4 DEF Close
<1>5. ASSUME NEW k \in Closers, Collect(k)
      PROVE  shutdown'
  BY <1>5 DEF Collect, SchedInv, Closing
<1>6. ASSUME NEW t \in Threads, NEW c, c # "executing", pc' = [pc EXCEPT ![t] = c],
             UNCHANGED <<running, shutdown>>
      PROVE  CountedHaveEntries'
  <2> SUFFICES ASSUME ~shutdown', NEW f \in Executions, Counted(f)'
               PROVE  running'[AgentOf[f]] = f
    BY DEF CountedHaveEntries
  <2>1. Counted(f)
    BY <1>6 DEF Counted, Single, SchedInv, Typed, Threads
  <2> QED
    BY <1>6, <2>1 DEF CountedHaveEntries
<1>7. ASSUME NEW e \in Executions, Submit(e)
      PROVE  CountedHaveEntries'
  <2>1. <<"submit", e>> \in Threads
    BY DEF Threads
  <2> QED
    BY <1>6, <1>7, <2>1 DEF Submit, dicts
<1>8. ASSUME NEW t \in Threads, Check(t) \/ DispatchEnd(t)
      PROVE  CountedHaveEntries'
  <2>1. /\ pc' = [pc EXCEPT ![t] = "done"] \/ pc' = [pc EXCEPT ![t] = "dispatch"]
        /\ UNCHANGED <<running, shutdown>>
    BY <1>8 DEF Check, DispatchEnd, dicts
  <2> QED
    BY <1>6, <2>1
<1>9. CASE Clock \/ UNCHANGED vars
  BY <1>9 DEF Clock, vars, dicts, CountedHaveEntries, Counted, Single
<1>10. shutdown' => CountedHaveEntries'
  BY DEF CountedHaveEntries
<1> QED
  BY <1>1, <1>2, <1>3, <1>4, <1>5, <1>7, <1>8, <1>9, <1>10 DEF Next, Step

(* Different executions that count have entries of different agents. *)
LEMMA CountedFit ==
    ASSUME SchedulerAssumption, SchedInv, Room, CountedHaveEntries
    PROVE  Capacity
<1> SUFFICES ASSUME ~shutdown
             PROVE  Cardinality({e \in Executions : Counted(e)}) <= MaxConcurrent
  BY DEF Capacity, Counted
<1> DEFINE X == {e \in Executions : Counted(e)}
           f == [e \in X |-> AgentOf[e]]
<1>1. f \in Injection(X, Busy)
  <2>1. \A e \in X : AgentOf[e] \in Busy
    BY DEF CountedHaveEntries, Busy, SchedulerAssumption
  <2>2. \A d, e \in X : AgentOf[d] = AgentOf[e] => d = e
    BY DEF CountedHaveEntries
  <2> QED
    BY <2>1, <2>2 DEF Injection, IsInjective
<1>2. IsFiniteSet(X) /\ Cardinality(X) <= Cardinality(Busy)
  BY <1>1, FS_Injection DEF Room
<1>3. Cardinality(X) \in Nat /\ Cardinality(Busy) \in Nat
  BY <1>2, FS_CardinalityType DEF Room
<1> QED
  BY <1>2, <1>3 DEF Room, SchedulerAssumption

(***************************************************************************)
(* Until a shutdown no more threads execute than max_concurrent allows,    *)
(* those of cancelled agents and of agents with several executions aside,  *)
(* for any number of executions and agents.                                *)
(***************************************************************************)
THEOREM CapacityKept == Spec => []Capacity
<1> DEFINE Inv == SchedInv /\ Room /\ CountedHaveEntries
<1>1. Init => Inv
  <2> SUFFICES ASSUME Init
               PROVE  Inv
    OBVIOUS
  <2>1. Busy = {}
    BY DEF Init, Busy
  <2>2. Room
    BY <2>1, FS_EmptySet, SchedulerAssumption DEF Room, SchedulerAssumption
  <2>3. CountedHaveEntries
    BY DEF Init, CountedHaveEntries, Counted, Threads
  <2> QED
    BY <2>2, <2>3, SchedulerAssumption, SchedInvAtFirst
<1>2. Inv /\ [Next]_vars => Inv'
  BY SchedulerAssumption, SchedStep, RoomStep, CountedStep
<1>3. Inv => Capacity
  BY SchedulerAssumption, CountedFit
<1> QED
  BY <1>1, <1>2, <1>3, PTL DEF Spec

-----------------------------------------------------------------------------
(***************************************************************************)
(* The refinement needs the books: an execution is in one queue, once, and *)
(* only between its push and its start; it starts after it was pushed; and *)
(* a result is of an execution of the agent whose thread has reported.     *)
(***************************************************************************)
Reported(e) == pc[<<"run", e>>] \in {"check", "dispatch", "loop", "done"}

Apart(qs) ==
    /\ \A l \in Levels : IsInjective(qs[l])
    /\ \A k, l \in Levels : k # l => Range(qs[k]) \cap Range(qs[l]) = {}

PushedOnce ==
    /\ IsInjective(pushed)
    /\ \A e \in Executions : e \in Range(pushed) <=> pc[<<"submit", e>>] # "ready"

QueuedWait ==
    \A e \in Executions : Queued(e) => e \in Range(pushed) /\ pc[<<"run", e>>] = "none"

ThreadKinds ==
    \A e \in Executions :
        /\ pc[<<"submit", e>>] \notin {"none", "executing"}
        /\ pc[<<"run", e>>] # "ready"
        /\ pc[<<"run", e>>] # "none" => e \in Range(pushed)

ResultsOf ==
    /\ \A a \in Agents : results[a] # None => AgentOf[results[a]] = a /\ Reported(results[a])
    /\ \A e \in returned : Reported(e)

Books == Apart(queues) /\ PushedOnce /\ QueuedWait /\ ThreadKinds /\ ResultsOf

-----------------------------------------------------------------------------
(* What happens to the queues.                                             *)

(* What is left of qs without those in gone, nobody moved past another. *)
Shrunk(qs, new, gone) ==
    \A l \in Levels :
        /\ new[l] \in Seq(Executions) /\ IsInjective(new[l])
        /\ Range(new[l]) = Range(qs[l]) \ gone
        /\ \A e, f : Before(new[l], e, f) => Before(qs[l], e, f)

(* Where an execution is after age(). *)
AgedRange(l) ==
    IF l = 2 THEN Range(queues[2]) \cup {e \in Range(queues[0]) \cup Range(queues[1]) : Overdue(e)}
    ELSE IF l = 3 THEN Range(queues[3])
    ELSE {e \in Range(queues[l]) : ~Overdue(e)}

LEMMA StayLeave ==
    ASSUME NEW s \in Seq(Executions), IsInjective(s)
    PROVE  /\ Stay(s) \in Seq(Executions) /\ Leave(s) \in Seq(Executions)
           /\ IsInjective(Stay(s)) /\ IsInjective(Leave(s))
           /\ Range(Stay(s)) = {e \in Range(s) : ~Overdue(e)}
           /\ Range(Leave(s)) = {e \in Range(s) : Overdue(e)}
           /\ \A e, f : Before(Stay(s), e, f) => Before(s, e, f)
<1> DEFINE I == {i \in DOMAIN s : ~Overdue(s[i])}
           J == {i \in DOMAIN s : Overdue(s[i])}
<1>1. I \in SUBSET DOMAIN s /\ J \in SUBSET DOMAIN s
  OBVIOUS
<1>2. /\ Stay(s) \in Seq(Executions) /\ IsInjective(Stay(s))
      /\ Range(Stay(s)) = {s[i] : i \in I}
      /\ \A e, f : Before(Stay(s), e, f) => Before(s, e, f)
  BY <1>1, PickKeeps DEF Stay
<1>3. /\ Leave(s) \in Seq(Executions) /\ IsInjective(Leave(s))
      /\ Range(Leave(s)) = {s[i] : i \in J}
  BY <1>1, PickKeeps DEF Leave
<1>4. /\ {s[i] : i \in I} = {e \in Range(s) : ~Overdue(e)}
      /\ {s[i] : i \in J} = {e \in Range(s) : Overdue(e)}
  BY DEF Range
<1> QED
  BY <1>2, <1>3, <1>4

LEMMA AgedQueues ==
    ASSUME queues \in [Levels -> Seq(Executions)], Apart(queues)
    PROVE  /\ Aged \in [Levels -> Seq(Executions)]
           /\ Apart(Aged)
           /\ \A l \in Levels : Range(Aged[l]) = AgedRange(l)
           /\ \A e : (\E l \in Levels : e \in Range(Aged[l])) <=> Queued(e)
           /\ \A l \in Levels : \A e, f :
                 Before(Aged[l], e, f) => Before(queues[l], e, f) \/ Overdue(f)
<1> DEFINE q0 == queues[0]
           q1 == queues[1]
           q2 == queues[2]
<1>1. /\ 0 \in Levels /\ 1 \in Levels /\ 2 \in Levels /\ 3 \in Levels
      /\ \A l \in Levels : l = 0 \/ l = 1 \/ l = 2 \/ l = 3
  BY DEF Levels
<1>2. /\ \A l \in Levels : queues[l] \in Seq(Executions) /\ IsInjective(queues[l])
      /\ \A k, l \in Levels : k # l => Range(queues[k]) \cap Range(queues[l]) = {}
  BY DEF Apart
<1>3. /\ Aged[0] = Stay(q0) /\ Aged[1] = Stay(q1) /\ Aged[3] = queues[3]
      /\ Aged[2] = (q2 \o Leave(q1)) \o Leave(q0)
      /\ DOMAIN Aged = Levels
  BY <1>1 DEF Aged
<1>4. /\ Stay(q0) \in Seq(Executions) /\ IsInjective(Stay(q0))
      /\ Range(Stay(q0)) = {e \in Range(q0) : ~Overdue(e)}
      /\ \A e, f : Before(Stay(q0), e, f) => Before(q0, e, f)
      /\ Leave(q0) \in Seq(Executions) /\ IsInjective(Leave(q0))
      /\ Range(Leave(q0)) = {e \in Range(q0) : Overdue(e)}
  BY <1>1, <1>2, StayLeave
<1>5. /\ Stay(q1) \in Seq(Executions) /\ IsInjective(Stay(q1))
      /\ Range(Stay(q1)) = {e \in Range(q1) : ~Overdue(e)}
      /\ \A e, f : Before(Stay(q1), e, f) => Before(q1, e, f)
      /\ Leave(q1) \in Seq(Executions) /\ IsInjective(Leave(q1))
      /\ Range(Leave(q1)) = {e \in Range(q1) : Overdue(e)}
  BY <1>1, <1>2, StayLeave
<1>6. /\ q2 \in Seq(Executions) /\ IsInjective(q2)
      /\ Range(q2) \cap Range(q1) = {} /\ Range(q2) \cap Range(q0) = {}
      /\ Range(q1) \cap Range(q0) = {}
  BY <1>1, <1>2
<1> HIDE DEF q0, q1, q2
<1>7. /\ q2 \o Leave(q1) \in Seq(Executions)
      /\ Range(q2 \o Leave(q1)) = Range(q2) \cup Range(Leave(q1))
      /\ IsInjective(q2 \o Leave(q1))
      /\ \A e, f : Before(q2 \o Leave(q1), e, f) => Before(q2, e, f) \/ f \in Range(Leave(q1))
  <2>1. Range(q2) \cap Range(Leave(q1)) = {}
    BY <1>5, <1>6
  <2> QED
    BY <1>5, <1>6, <2>1, ConcatKeeps
<1>8. /\ Aged[2] \in Seq(Executions)
      /\ Range(Aged[2]) = Range(q2) \cup Range(Leave(q1)) \cup Range(Leave(q0))
      /\ IsInjective(Aged[2])
      /\ \A e, f : Before(Aged[2], e, f) => Before(q2, e, f) \/ f \in Range(Leave(q1)) \cup Range(Leave(q0))
  <2>1. Range(q2 \o Leave(q1)) \cap Range(Leave(q0)) = {}
    BY <1>4, <1>5, <1>6, <1>7
  <2> DEFINE u == q2 \o Leave(q1)
  <2> HIDE DEF u
  <2>2. /\ u \o Leave(q0) \in Seq(Executions)
        /\ Range(u \o Leave(q0)) = Range(u) \cup Range(Leave(q0))
        /\ IsInjective(u \o Leave(q0))
        /\ \A e, f : Before(u \o Leave(q0), e, f) => Before(u, e, f) \/ f \in Range(Leave(q0))
    BY <1>4, <1>7, <2>1, ConcatKeeps DEF u
  <2> QED
    BY <1>3, <1>7, <2>2 DEF u
<1>9. /\ \A l \in Levels : Aged[l] \in Seq(Executions) /\ IsInjective(Aged[l])
      /\ \A l \in Levels : Range(Aged[l]) = AgedRange(l)
  <2>1. Aged[0] \in Seq(Executions) /\ IsInjective(Aged[0]) /\ Range(Aged[0]) = AgedRange(0)
    BY <1>3, <1>4 DEF AgedRange, q0
  <2>2. Aged[1] \in Seq(Executions) /\ IsInjective(Aged[1]) /\ Range(Aged[1]) = AgedRange(1)
    BY <1>3, <1>5 DEF AgedRange, q1
  <2>3. Range(Aged[2]) = AgedRange(2)
    <3>1. AgedRange(2) = Range(q2) \cup {e \in Range(q0) \cup Range(q1) : Overdue(e)}
      BY DEF AgedRange, q0, q1, q2
    <3> QED
      BY <1>4, <1>5, <1>8, <3>1
  <2>4. Aged[3] \in Seq(Executions) /\ IsInjective(Aged[3]) /\ Range(Aged[3]) = AgedRange(3)
    BY <1>1, <1>2, <1>3 DEF AgedRange
  <2> QED
    BY <1>1, <1>8, <2>1, <2>2, <2>3, <2>4
<1>10. Aged \in [Levels -> Seq(Executions)]
  BY <1>3, <1>9 DEF Aged
<1>11. \A k, l \in Levels : k # l => AgedRange(k) \cap AgedRange(l) = {}
  BY <1>1, <1>2 DEF AgedRange
<1>12. \A e : (\E l \in Levels : e \in AgedRange(l)) <=> Queued(e)
  BY <1>1 DEF AgedRange, Queued
<1>13. \A l \in Levels : \A e, f :
          Before(Aged[l], e, f) => Before(queues[l], e, f) \/ Overdue(f)
  BY <1>1, <1>3, <1>4, <1>5, <1>8 DEF q0, q1, q2
<1> QED
  BY <1>9, <1>10, <1>11, <1>12, <1>13 DEF Apart

(* One iteration of the dispatching loop takes the head of the first level *)
(* that is not empty, after age().                                         *)
LEMMA DispatchQueues ==
    ASSUME queues \in [Levels -> Seq(Executions)], Apart(queues), NEW t, DispatchNext(t)
    PROVE  \E l \in Levels, e \in Executions :
              /\ e \in Range(Aged[l])
              /\ \A k \in Levels : k < l => Range(Aged[k]) = {}
              /\ \A f \in Range(Aged[l]) : f # e => Before(Aged[l], e, f)
              /\ queues' \in [Levels -> Seq(Executions)]
              /\ Shrunk(Aged, queues', {e})
              /\ running' = [running EXCEPT ![AgentOf[e]] = e]
              /\ pc' = [pc EXCEPT ![t] = "loop", ![<<"run", e>>] = "executing"]
<1>1. PICK l \in Levels, e \in Executions :
         /\ Aged[l] # <<>> /\ e = Head(Aged[l])
         /\ \A k \in Levels : k < l => Aged[k] = <<>>
         /\ queues' = [Aged EXCEPT ![l] = Tail(@)]
         /\ running' = [running EXCEPT ![AgentOf[e]] = e]
         /\ pc' = [pc EXCEPT ![t] = "loop", ![<<"run", e>>] = "executing"]
  BY DEF DispatchNext
<1>2. Aged \in [Levels -> Seq(Executions)] /\ Apart(Aged)
  BY AgedQueues
<1> HIDE DEF Aged
<1>3. /\ Tail(Aged[l]) \in Seq(Executions)
      /\ e \in Range(Aged[l])
      /\ Range(Tail(Aged[l])) = Range(Aged[l]) \ {e} /\ IsInjective(Tail(Aged[l]))
      /\ \A f, g : Before(Tail(Aged[l]), f, g) => Before(Aged[l], f, g)
      /\ \A f \in Range(Aged[l]) : f # e => Before(Aged[l], e, f)
  BY <1>1, <1>2, TailKeeps DEF Apart
<1>4. /\ queues' \in [Levels -> Seq(Executions)]
      /\ queues'[l] = Tail(Aged[l])
      /\ \A k \in Levels : k # l => queues'[k] = Aged[k]
  BY <1>1, <1>2, <1>3
<1>5. Shrunk(Aged, queues', {e})
  <2> SUFFICES ASSUME NEW k \in Levels
               PROVE  /\ queues'[k] \in Seq(Executions) /\ IsInjective(queues'[k])
                      /\ Range(queues'[k]) = Range(Aged[k]) \ {e}
                      /\ \A f, g : Before(queues'[k], f, g) => Before(Aged[k], f, g)
    BY DEF Shrunk
  <2>1. CASE k = l
    BY <1>3, <1>4, <2>1
  <2>2. CASE k # l
    <3>1. e \notin Range(Aged[k])
      BY <1>2, <1>3, <2>2 DEF Apart
    <3> QED
      BY <1>2, <1>4, <2>2, <3>1 DEF Apart
  <2> QED
    BY <2>1, <2>2
<1>6. \A k \in Levels : k < l => Range(Aged[k]) = {}
  BY <1>1 DEF Range
<1> QED
  BY <1>1, <1>3, <1>4, <1>5, <1>6

(* cancel() takes one execution of the agent out, or none. *)
LEMMA WithoutFirst ==
    ASSUME NEW s \in Seq(Executions), IsInjective(s), NEW a, Has(s, a)
    PROVE  \E e \in Range(s) :
              /\ AgentOf[e] = a
              /\ Without(s, a) \in Seq(Executions) /\ IsInjective(Without(s, a))
              /\ Range(Without(s, a)) = Range(s) \ {e}
              /\ \A f, g : Before(Without(s, a), f, g) => Before(s, f, g)
<1> DEFINE M == {i \in DOMAIN s : AgentOf[s[i]] = a}
           first == Nth(M, 1)
           I == {i \in DOMAIN s : AgentOf[s[i]] = a => \E j \in 1..(i - 1) : AgentOf[s[j]] = a}
<1>1. Len(s) \in Nat /\ DOMAIN s = 1 .. Len(s) /\ \A i \in DOMAIN s : s[i] \in Range(s)
  BY DomainOf
<1>2. M \in SUBSET (1 .. Len(s)) /\ M # {}
  BY <1>1 DEF Has
<1>3. /\ Cardinality(M) \in Nat
      /\ \A k \in 1 .. Cardinality(M) : Nth(M, k) \in M
      /\ \A k, l \in 1 .. Cardinality(M) : k < l => Nth(M, k) < Nth(M, l)
      /\ \A i \in M : \E k \in 1 .. Cardinality(M) : Nth(M, k) = i
  BY <1>1, <1>2, NthOrder
<1>4. first \in M /\ \A i \in M : first = i \/ first < i
  <2>1. 1 \in 1 .. Cardinality(M)
    BY <1>2, <1>3
  <2>2. ASSUME NEW i \in M
        PROVE  first = i \/ first < i
    <3>1. PICK k \in 1 .. Cardinality(M) : Nth(M, k) = i
      BY <1>3
    <3>2. k = 1 \/ 1 < k
      BY <1>3
    <3> QED
      BY <1>3, <2>1, <3>1, <3>2
  <2> QED
    BY <1>3, <2>1, <2>2
<1> HIDE DEF first
<1>5. first \in DOMAIN s /\ AgentOf[s[first]] = a
  BY <1>4
<1>6. I = DOMAIN s \ {first}
  <2>1. first \notin I
    <3> SUFFICES ASSUME NEW j \in 1 .. (first - 1), AgentOf[s[j]] = a
                 PROVE  FALSE
      BY <1>5
    <3>1. j \in DOMAIN s /\ j < first /\ first \in Int /\ j \in Int
      BY <1>1, <1>5
    <3> QED
      BY <1>4, <3>1
  <2>2. ASSUME NEW i \in DOMAIN s, i # first, AgentOf[s[i]] = a
        PROVE  first \in 1 .. (i - 1)
    <3>1. first < i
      BY <1>4, <2>2
    <3> QED
      BY <1>1, <1>5, <3>1
  <2> QED
    BY <1>5, <2>1, <2>2
<1>7. I \in SUBSET DOMAIN s
  OBVIOUS
<1>8. /\ Without(s, a) \in Seq(Executions) /\ IsInjective(Without(s, a))
      /\ Range(Without(s, a)) = {s[i] : i \in I}
      /\ \A f, g : Before(Without(s, a), f, g) => Before(s, f, g)
  BY <1>7, PickKeeps DEF Without
<1>9. {s[i] : i \in I} = Range(s) \ {s[first]}
  BY <1>5, <1>6 DEF Range, IsInjective
<1> QED
  BY <1>1, <1>5, <1>8, <1>9

LEMMA CancelQueues ==
    ASSUME queues \in [Levels -> Seq(Executions)], Apart(queues), NEW a \in Agents, Cancel(a)
    PROVE  /\ queues' \in [Levels -> Seq(Executions)]
           /\ \E gone \in SUBSET Executions :
                 /\ Shrunk(queues, queues', gone)
                 /\ gone = {} \/ \E e \in Executions : gone = {e} /\ Queued(e) /\ AgentOf[e] = a
<1>1. \A l \in Levels : queues[l] \in Seq(Executions) /\ IsInjective(queues[l])
  BY DEF Apart
<1>2. queues' = [l \in Levels |->
          IF Has(queues[l], a) /\ \A k \in Levels : k < l => ~Has(queues[k], a)
          THEN Without(queues[l], a) ELSE queues[l]]
  BY DEF Cancel
<1>3. CASE \A l \in Levels : ~Has(queues[l], a)
  <2>1. queues' = queues
    BY <1>2, <1>3
  <2>2. Shrunk(queues, queues', {})
    BY <1>1, <2>1 DEF Shrunk
  <2> QED
    BY <2>1, <2>2
<1>4. CASE \E l \in Levels : Has(queues[l], a)
  <2>1. PICK l \in Levels : Has(queues[l], a) /\ \A k \in Levels : k < l => ~Has(queues[k], a)
    BY <1>4 DEF Levels
  <2>2. /\ queues'[l] = Without(queues[l], a)
        /\ \A k \in Levels : k # l => queues'[k] = queues[k]
    <3> SUFFICES ASSUME NEW k \in Levels, k # l
                 PROVE  ~(Has(queues[k], a) /\ \A m \in Levels : m < k => ~Has(queues[m], a))
      BY <1>2, <2>1
    <3>1. k < l \/ l < k
      BY DEF Levels
    <3> QED
      BY <2>1, <3>1
  <2>3. PICK e \in Range(queues[l]) :
           /\ AgentOf[e] = a
           /\ Without(queues[l], a) \in Seq(Executions) /\ IsInjective(Without(queues[l], a))
           /\ Range(Without(queues[l], a)) = Range(queues[l]) \ {e}
           /\ \A f, g : Before(Without(queues[l], a), f, g) => Before(queues[l], f, g)
    BY <1>1, <2>1, WithoutFirst
  <2>4. e \in Executions /\ Queued(e)
    BY <1>1, DomainOf DEF Queued
  <2>5. \A k \in Levels : k # l => e \notin Range(queues[k])
    BY DEF Apart
  <2>6. Shrunk(queues, queues', {e})
    <3> SUFFICES ASSUME NEW k \in Levels
                 PROVE  /\ queues'[k] \in Seq(Executions) /\ IsInjective(queues'[k])
                        /\ Range(queues'[k]) = Range(queues[k]) \ {e}
                        /\ \A f, g : Before(queues'[k], f, g) => Before(queues[k], f, g)
      BY DEF Shrunk
    <3>1. CASE k = l
      BY <2>2, <2>3, <3>1
    <3>2. CASE k # l
      BY <1>1, <2>2, <2>5, <3>2
    <3> QED
      BY <3>1, <3>2
  <2>7. queues' \in [Levels -> Seq(Executions)]
    BY <1>1, <1>2, <2>2, <2>3
  <2> QED
    BY <2>3, <2>4, <2>6, <2>7
<1> QED
  BY <1>3, <1>4

-----------------------------------------------------------------------------
(* The books are kept.                                                     *)

LEMMA ShrunkApart ==
    ASSUME NEW qs, Apart(qs), NEW new, NEW gone, Shrunk(qs, new, gone)
    PROVE  Apart(new)
BY DEF Apart, Shrunk

LEMMA BooksAtFirst ==
    ASSUME SchedulerAssumption, Init
    PROVE  SchedTypeOK /\ Books
<1>1. Range(<<>>) = {} /\ IsInjective(<<>>) /\ <<>> \in Seq(Executions) /\ Len(<<>>) = 0
  BY DEF Range, IsInjective
<1>2. /\ queues = [l \in Levels |-> <<>>] /\ pushed = <<>>
      /\ \A l \in Levels : Range(queues[l]) = {} /\ IsInjective(queues[l])
      /\ Range(pushed) = {} /\ IsInjective(pushed)
  BY <1>1 DEF Init
<1>3. SchedTypeOK
  <2>1. /\ queues \in [Levels -> Seq(Executions)]
        /\ pushed \in Seq(Executions) /\ overdue \in 0 .. Len(pushed)
    BY <1>1, <1>2 DEF Init
  <2>2. pc \in [Threads -> {"none", "ready", "executing", "check", "dispatch", "loop", "done"}]
    BY DEF Init
  <2> QED
    BY <2>1, <2>2 DEF Init, SchedTypeOK
<1>4. \A e \in Executions : pc[<<"submit", e>>] = "ready" /\ pc[<<"run", e>>] = "none"
  BY DEF Init, Threads
<1>5. Apart(queues) /\ PushedOnce /\ QueuedWait
  BY <1>2, <1>4 DEF Apart, PushedOnce, QueuedWait, Queued
<1>6. ThreadKinds /\ ResultsOf
  BY <1>4 DEF ThreadKinds, ResultsOf, Init
<1> QED
  BY <1>3, <1>5, <1>6 DEF Books

LEMMA SubmitBooks ==
    ASSUME SchedulerAssumption, SchedTypeOK, Books, NEW e \in Executions, Submit(e)
    PROVE  /\ SchedTypeOK' /\ Books'
           /\ \A f \in Executions : Queued(f)' <=> Queued(f) \/ f = e
           /\ Range(pushed)' = Range(pushed) \cup {e}
           /\ e \notin Range(pushed)
<1> DEFINE t == <<"submit", e>>
           p == PriorityOf[e]
<1>1. /\ p \in Levels /\ t \in Threads
      /\ \A f \in Executions : <<"run", f>> \in Threads /\ <<"run", f>> # t
      /\ \A f \in Executions : <<"submit", f>> \in Threads /\ (<<"submit", f>> = t <=> f = e)
  BY DEF SchedulerAssumption, Levels, Threads
<1>2. /\ pc[t] = "ready" /\ pc' = [pc EXCEPT ![t] = "check"]
      /\ queues' = [queues EXCEPT ![p] = Append(queues[p], e)]
      /\ pushed' = Append(pushed, e)
      /\ UNCHANGED <<running, results, shutdown, closer, overdue, returned>>
  BY DEF Submit, dicts
<1>3. e \notin Range(pushed) /\ \A l \in Levels : e \notin Range(queues[l])
  BY <1>2 DEF Books, PushedOnce, QueuedWait, Queued
<1>4. /\ pushed' \in Seq(Executions) /\ Len(pushed') = Len(pushed) + 1
      /\ Range(pushed') = Range(pushed) \cup {e} /\ IsInjective(pushed')
  BY <1>2, <1>3, AppendKeeps DEF SchedTypeOK, Books, PushedOnce
<1>5. /\ queues[p] \in Seq(Executions)
      /\ Append(queues[p], e) \in Seq(Executions) /\ IsInjective(Append(queues[p], e))
      /\ Range(Append(queues[p], e)) = Range(queues[p]) \cup {e}
  <2>1. queues[p] \in Seq(Executions) /\ IsInjective(queues[p])
    BY <1>1 DEF SchedTypeOK, Books, Apart
  <2> QED
    BY <1>1, <1>3, <2>1, AppendKeeps
<1>6. /\ queues' \in [Levels -> Seq(Executions)]
      /\ \A l \in Levels : queues'[l] = IF l = p THEN Append(queues[p], e) ELSE queues[l]
  BY <1>1, <1>2, <1>5 DEF SchedTypeOK
<1>7. pc' \in [Threads -> {"none", "ready", "executing", "check", "dispatch", "loop", "done"}]
  BY <1>2 DEF SchedTypeOK
<1>8. SchedTypeOK'
  <2>1. Len(pushed) \in Nat /\ overdue \in 0 .. Len(pushed)
    BY DomainOf DEF SchedTypeOK
  <2>2. overdue' \in 0 .. Len(pushed')
    BY <1>2, <1>4, <2>1
  <2> QED
    BY <1>2, <1>4, <1>6, <1>7, <2>2 DEF SchedTypeOK
<1>9. /\ \A f \in Executions : pc'[<<"run", f>>] = pc[<<"run", f>>]
      /\ \A f \in Executions : pc'[<<"submit", f>>] = IF f = e THEN "check" ELSE pc[<<"submit", f>>]
  BY <1>1, <1>2 DEF SchedTypeOK
<1>10. \A f \in Executions : Queued(f)' <=> Queued(f) \/ f = e
  BY <1>1, <1>5, <1>6 DEF Queued
<1>11. Apart(queues)'
  <2>1. \A l \in Levels : IsInjective(queues'[l])
    BY <1>5, <1>6 DEF Books, Apart
  <2>2. \A l \in Levels : Range(queues'[l]) = Range(queues[l]) \cup (IF l = p THEN {e} ELSE {})
    BY <1>5, <1>6
  <2>3. \A k, l \in Levels : k # l => Range(queues[k]) \cap Range(queues[l]) = {}
    BY DEF Books, Apart
  <2>4. \A k, l \in Levels : k # l => Range(queues'[k]) \cap Range(queues'[l]) = {}
    BY <1>3, <2>2, <2>3
  <2> QED
    BY <2>1, <2>4 DEF Apart
<1>12. PushedOnce'
  BY <1>4, <1>9 DEF Books, PushedOnce
<1>13. QueuedWait' /\ ThreadKinds'
  <2>1. pc[<<"run", e>>] = "none"
    BY <1>3 DEF Books, ThreadKinds
  <2>2. QueuedWait'
    BY <1>4, <1>9, <1>10, <2>1 DEF Books, QueuedWait
  <2>3. ThreadKinds'
    BY <1>4, <1>9 DEF Books, ThreadKinds
  <2> QED
    BY <2>2, <2>3
<1>14. ResultsOf'
  <2>1. returned \subseteq Executions /\ \A a \in Agents : results[a] # None => results[a] \in Executions
    BY DEF SchedTypeOK
  <2> QED
    BY <1>2, <1>9, <2>1 DEF Books, ResultsOf, Reported
<1> QED
  BY <1>3, <1>4, <1>8, <1>10, <1>11, <1>12, <1>13, <1>14 DEF Books

(* A thread that reported, or a submitter, moves on and changes no queue.  *)
LEMMA MoveBooks ==
    ASSUME SchedulerAssumption, SchedTypeOK, Books, NEW t \in Threads,
           pc[t] \in {"check", "dispatch", "loop"},
           NEW c \in {"dispatch", "loop", "done"}, pc' = [pc EXCEPT ![t] = c],
           UNCHANGED <<queues, dicts, shutdown, closer, pushed, overdue, returned>>
    PROVE  SchedTypeOK' /\ Books'
<1>1. \A u \in Threads : pc'[u] = IF u = t THEN c ELSE pc[u]
  BY DEF SchedTypeOK
<1>2. \A e \in Executions : <<"run", e>> \in Threads /\ <<"submit", e>> \in Threads
  BY DEF Threads
<1>3. SchedTypeOK'
  BY DEF SchedTypeOK, dicts
<1>4. Apart(queues)' /\ PushedOnce'
  BY <1>1, <1>2 DEF Books, Apart, PushedOnce
<1>5. QueuedWait' /\ ThreadKinds'
  BY <1>1, <1>2 DEF Books, QueuedWait, Queued, ThreadKinds
<1>6. ResultsOf'
  <2>1. returned \subseteq Executions /\ \A a \in Agents : results[a] # None => results[a] \in Executions
    BY DEF SchedTypeOK
  <2> QED
    BY <1>1, <1>2, <2>1 DEF Books, ResultsOf, Reported, dicts
<1> QED
  BY <1>3, <1>4, <1>5, <1>6 DEF Books

LEMMA DispatchBooks ==
    ASSUME SchedulerAssumption, SchedTypeOK, Books, NEW t \in Threads, DispatchNext(t)
    PROVE  /\ SchedTypeOK' /\ Books'
           /\ \E e \in Executions :
                 /\ Queued(e)
                 /\ \A f \in Executions : Queued(f)' <=> Queued(f) /\ f # e
                 /\ pc' = [pc EXCEPT ![t] = "loop", ![<<"run", e>>] = "executing"]
<1>1. PICK l \in Levels, e \in Executions :
              /\ e \in Range(Aged[l])
              /\ queues' \in [Levels -> Seq(Executions)]
              /\ Shrunk(Aged, queues', {e})
              /\ running' = [running EXCEPT ![AgentOf[e]] = e]
              /\ pc' = [pc EXCEPT ![t] = "loop", ![<<"run", e>>] = "executing"]
  BY DispatchQueues DEF SchedTypeOK, Books
<1>2. /\ Apart(Aged)
      /\ \A f : (\E k \in Levels : f \in Range(Aged[k])) <=> Queued(f)
  BY AgedQueues DEF SchedTypeOK, Books
<1>3. /\ pc[t] \in {"dispatch", "loop"}
      /\ UNCHANGED <<results, shutdown, closer, pushed, overdue, returned>>
  BY DEF DispatchNext
<1>4. Queued(e) /\ \A f \in Executions : Queued(f)' <=> Queued(f) /\ f # e
  <2>1. \A f : Queued(f)' <=> \E k \in Levels : f \in Range(Aged[k]) /\ f # e
    BY <1>1 DEF Queued, Shrunk
  <2> QED
    BY <1>1, <1>2, <2>1
<1>5. pc[<<"run", e>>] = "none" /\ e \in Range(pushed)
  BY <1>4 DEF Books, QueuedWait
<1>6. /\ \A f \in Executions : <<"run", f>> \in Threads /\ <<"submit", f>> \in Threads
      /\ \A f \in Executions : <<"submit", f>> # <<"run", e>> /\ (<<"run", f>> = <<"run", e>> <=> f = e)
      /\ t # <<"run", e>>
  BY <1>3, <1>5 DEF Threads
<1>7. \A u \in Threads : pc'[u] = IF u = <<"run", e>> THEN "executing"
                                  ELSE IF u = t THEN "loop" ELSE pc[u]
  BY <1>1, <1>6 DEF SchedTypeOK
<1>8. SchedTypeOK'
  <2>1. pc' \in [Threads -> {"none", "ready", "executing", "check", "dispatch", "loop", "done"}]
    BY <1>1 DEF SchedTypeOK
  <2>2. running' \in [Agents -> Executions \cup {None}]
    BY <1>1 DEF SchedTypeOK
  <2> QED
    BY <1>1, <1>3, <2>1, <2>2 DEF SchedTypeOK
<1>9. Apart(queues)'
  <2>1. Apart(queues')
    BY <1>1, <1>2, ShrunkApart
  <2> QED
    BY <2>1 DEF Apart
<1>10. PushedOnce'
  BY <1>3, <1>6, <1>7 DEF Books, PushedOnce
<1>11. QueuedWait'
  BY <1>3, <1>4, <1>6, <1>7 DEF Books, QueuedWait
<1>12. ThreadKinds'
  BY <1>3, <1>5, <1>6, <1>7 DEF Books, ThreadKinds
<1>13. ResultsOf'
  <2>1. returned \subseteq Executions /\ \A a \in Agents : results[a] # None => results[a] \in Executions
    BY DEF SchedTypeOK
  <2>2. \A f \in Executions : Reported(f) => Reported(f)'
    BY <1>3, <1>5, <1>6, <1>7 DEF Reported
  <2> QED
    BY <1>3, <2>1, <2>2 DEF Books, ResultsOf
<1> QED
  BY <1>1, <1>4, <1>8, <1>9, <1>10, <1>11, <1>12, <1>13 DEF Books

LEMMA ReportBooks ==
    ASSUME SchedulerAssumption, SchedTypeOK, Books, NEW e \in Executions, Report(e)
    PROVE  SchedTypeOK' /\ Books'
<1> DEFINE t == <<"run", e>>
<1>1. /\ pc[t] = "executing" /\ pc' = [pc EXCEPT ![t] = "check"]
      /\ results' = [results EXCEPT ![AgentOf[e]] = e]
      /\ running' = [running EXCEPT ![AgentOf[e]] = None]
      /\ UNCHANGED <<queues, shutdown, closer, pushed, overdue, returned>>
      /\ AgentOf[e] \in Agents
  BY DEF Report, SchedulerAssumption
<1>2. /\ \A f \in Executions : <<"run", f>> \in Threads /\ <<"submit", f>> \in Threads
      /\ \A f \in Executions : <<"submit", f>> # t /\ (<<"run", f>> = t <=> f = e)
  BY DEF Threads
<1>3. \A u \in Threads : pc'[u] = IF u = t THEN "check" ELSE pc[u]
  BY <1>1 DEF SchedTypeOK
<1>4. SchedTypeOK'
  BY <1>1 DEF SchedTypeOK
<1>5. Apart(queues)' /\ PushedOnce'
  BY <1>1, <1>2, <1>3 DEF Books, Apart, PushedOnce
<1>6. QueuedWait' /\ ThreadKinds'
  BY <1>1, <1>2, <1>3 DEF Books, QueuedWait, Queued, ThreadKinds
<1>7. ResultsOf'
  <2>1. returned \subseteq Executions /\ \A a \in Agents : results[a] # None => results[a] \in Executions
    BY DEF SchedTypeOK
  <2>2. \A f \in Executions : Reported(f)' <=> Reported(f) \/ f = e
    BY <1>2, <1>3 DEF Reported
  <2>3. \A a \in Agents : results'[a] = IF a = AgentOf[e] THEN e ELSE results[a]
    BY <1>1 DEF SchedTypeOK
  <2> QED
    BY <1>1, <2>1, <2>2, <2>3 DEF Books, ResultsOf
<1> QED
  BY <1>4, <1>5, <1>6, <1>7 DEF Books

LEMMA CancelBooks ==
    ASSUME SchedulerAssumption, SchedTypeOK, Books, NEW a \in Agents, Cancel(a)
    PROVE  SchedTypeOK' /\ Books'
<1>1. PICK gone \in SUBSET Executions : Shrunk(queues, queues', gone)
  BY CancelQueues DEF SchedTypeOK, Books
<1>2. /\ queues' \in [Levels -> Seq(Executions)]
      /\ running' = [running EXCEPT ![a] = None]
      /\ UNCHANGED <<results, shutdown, pc, closer, pushed, overdue, returned>>
  BY CancelQueues DEF Cancel, SchedTypeOK, Books
<1>3. SchedTypeOK'
  BY <1>2 DEF SchedTypeOK
<1>4. Apart(queues)'
  <2>1. Apart(queues')
    BY <1>1, ShrunkApart DEF Books
  <2> QED
    BY <2>1 DEF Apart
<1>5. \A e : Queued(e)' => Queued(e)
  BY <1>1 DEF Queued, Shrunk
<1>6. PushedOnce' /\ QueuedWait' /\ ThreadKinds' /\ ResultsOf'
  BY <1>2, <1>5 DEF Books, PushedOnce, QueuedWait, ThreadKinds, ResultsOf, Reported
<1> QED
  BY <1>3, <1>4, <1>6 DEF Books

LEMMA CollectBooks ==
    ASSUME SchedulerAssumption, SchedTypeOK, Books, NEW k \in Closers, Collect(k)
    PROVE  /\ SchedTypeOK' /\ Books'
           /\ \A e \in Executions : e \in returned' <=> e \in returned \/ results[AgentOf[e]] = e
<1>1. /\ returned' = returned \cup (Range(results) \ {None})
      /\ results' = [a \in Agents |-> None] /\ running' = [a \in Agents |-> None]
      /\ closer' = [closer EXCEPT ![k] = "done"]
      /\ UNCHANGED <<queues, shutdown, pc, pushed, overdue>>
  BY DEF Collect
<1>2. /\ Range(results) = {results[a] : a \in Agents}
      /\ Range(results) \ {None} \subseteq Executions
  BY DEF SchedTypeOK, Range
<1>3. \A e \in Executions : e \in Range(results) <=> results[AgentOf[e]] = e
  BY <1>2 DEF Books, ResultsOf, SchedulerAssumption
<1>4. \A e \in Executions : e \in returned' <=> e \in returned \/ results[AgentOf[e]] = e
  BY <1>1, <1>3 DEF SchedulerAssumption
<1>5. SchedTypeOK'
  BY <1>1, <1>2 DEF SchedTypeOK
<1>6. ResultsOf'
  BY <1>1, <1>2, SchedulerAssumption DEF Books, ResultsOf, Reported, SchedulerAssumption
<1>7. Apart(queues)' /\ PushedOnce' /\ QueuedWait' /\ ThreadKinds'
  BY <1>1 DEF Books, Apart, PushedOnce, QueuedWait, Queued, ThreadKinds
<1> QED
  BY <1>4, <1>5, <1>6, <1>7 DEF Books

LEMMA QuietBooks ==
    ASSUME SchedTypeOK, Books, (\E k \in Closers : Close(k)) \/ Clock \/ UNCHANGED vars
    PROVE  SchedTypeOK' /\ Books'
<1>1. UNCHANGED <<queues, running, results, pc, pushed, returned>>
  BY DEF Close, Clock, vars, dicts
<1>2. SchedTypeOK'
  <2>1. Len(pushed) \in Nat /\ overdue \in 0 .. Len(pushed)
    BY DomainOf DEF SchedTypeOK
  <2>2. shutdown' \in BOOLEAN /\ closer' \in [Closers -> {"ready", "joining", "done"}]
    BY DEF Close, Clock, vars, SchedTypeOK
  <2>3. overdue' \in 0 .. Len(pushed)
    BY <2>1 DEF Close, Clock, vars
  <2> QED
    BY <1>1, <2>2, <2>3 DEF SchedTypeOK
<1> QED
  BY <1>1, <1>2 DEF Books, Apart, PushedOnce, QueuedWait, Queued, ThreadKinds, ResultsOf, Reported

LEMMA BooksStep ==
    ASSUME SchedulerAssumption, SchedTypeOK, Books, [Next]_vars
    PROVE  SchedTypeOK' /\ Books'
<1>1. ASSUME NEW t \in Threads, Check(t) \/ DispatchEnd(t)
      PROVE  SchedTypeOK' /\ Books'
  <2>1. PICK c \in {"dispatch", "loop", "done"} : pc' = [pc EXCEPT ![t] = c]
    BY <1>1 DEF Check, DispatchEnd
  <2>2. /\ pc[t] \in {"check", "dispatch", "loop"}
        /\ UNCHANGED <<queues, dicts, shutdown, closer, pushed, overdue, returned>>
    BY <1>1 DEF Check, DispatchEnd
  <2> QED
    BY <2>1, <2>2, MoveBooks
<1>2. CASE (\E k \in Closers : Close(k)) \/ Clock \/ UNCHANGED vars
  BY <1>2, QuietBooks
<1> QED
  BY <1>1, <1>2, SubmitBooks, DispatchBooks, ReportBooks, CancelBooks, CollectBooks DEF Next, Step

LEMMA BooksKept == Spec => [](SchedTypeOK /\ Books)
<1>1. Init => SchedTypeOK /\ Books
  BY SchedulerAssumption, BooksAtFirst
<1>2. SchedTypeOK /\ Books /\ [Next]_vars => (SchedTypeOK /\ Books)'
  BY SchedulerAssumption, BooksStep
<1> QED
  BY <1>1, <1>2, PTL DEF Spec

(* The scheduler's types, for every value of the constants. *)
THEOREM SchedTyped == Spec => []SchedTypeOK
BY BooksKept, PTL

-----------------------------------------------------------------------------
(* The refinement, step by step.                                           *)

Phases == [e \in Executions |-> PhaseOf(e)]

(* The phase of an execution, read off the books. *)
PhaseIs(e) ==
    IF e \in returned THEN "returned"
    ELSE IF pc[<<"run", e>>] = "executing" THEN "running"
    ELSE IF pc[<<"run", e>>] = "none"
         THEN IF Queued(e) THEN "waiting" ELSE IF e \in Range(pushed) THEN "cancelled" ELSE "new"
    ELSE IF results[AgentOf[e]] = e THEN "reported" ELSE "replaced"

LEMMA PhaseRead == (\A e : PhaseOf(e) = PhaseIs(e)) /\ (\A e : PhaseOf(e)' = PhaseIs(e)')
BY DEF PhaseOf, PhaseIs

LEMMA SubmitMaps ==
    ASSUME SchedulerAssumption, SchedTypeOK, Books, NEW e \in Executions, Submit(e)
    PROVE  Pool!Submit(e)
<1>1. /\ \A f \in Executions : Queued(f)' <=> Queued(f) \/ f = e
      /\ Range(pushed)' = Range(pushed) \cup {e} /\ e \notin Range(pushed)
  BY SubmitBooks
<1>2. /\ UNCHANGED <<results, returned>>
      /\ \A f \in Executions : pc'[<<"run", f>>] = pc[<<"run", f>>]
  BY DEF Submit, dicts, SchedTypeOK, Threads
<1>3. pc[<<"run", e>>] = "none" /\ ~Queued(e) /\ e \notin returned
  BY <1>1 DEF Books, ThreadKinds, QueuedWait, ResultsOf, Reported
<1>4. PhaseOf(e) = "new" /\ PhaseOf(e)' = "waiting"
  BY <1>1, <1>2, <1>3, PhaseRead DEF PhaseIs
<1>5. \A f \in Executions \ {e} : PhaseOf(f)' = PhaseOf(f)
  BY <1>1, <1>2, PhaseRead DEF PhaseIs
<1> QED
  BY <1>4, <1>5 DEF Pool!Submit, Pool!Becomes

LEMMA DispatchMaps ==
    ASSUME SchedulerAssumption, SchedTypeOK, Books, NEW t \in Threads, DispatchNext(t)
    PROVE  \E e \in Executions : Pool!Start(e)
<1>1. PICK e \in Executions :
         /\ Queued(e)
         /\ \A f \in Executions : Queued(f)' <=> Queued(f) /\ f # e
         /\ pc' = [pc EXCEPT ![t] = "loop", ![<<"run", e>>] = "executing"]
  BY DispatchBooks
<1>2. pc[t] \in {"dispatch", "loop"} /\ UNCHANGED <<results, pushed, returned>>
  BY DEF DispatchNext
<1>3. pc[<<"run", e>>] = "none" /\ e \notin returned
  BY <1>1 DEF Books, QueuedWait, ResultsOf, Reported
<1>4. /\ pc'[<<"run", e>>] = "executing"
      /\ \A f \in Executions \ {e} :
            \/ pc'[<<"run", f>>] = pc[<<"run", f>>]
            \/ pc[<<"run", f>>] \in {"dispatch", "loop"} /\ pc'[<<"run", f>>] = "loop"
  BY <1>1, <1>2 DEF SchedTypeOK, Threads
<1>5. PhaseOf(e) = "waiting" /\ PhaseOf(e)' = "running"
  BY <1>1, <1>2, <1>3, <1>4, PhaseRead DEF PhaseIs
<1>6. \A f \in Executions \ {e} : PhaseOf(f)' = PhaseOf(f)
  BY <1>1, <1>2, <1>4, PhaseRead DEF PhaseIs
<1> QED
  BY <1>5, <1>6 DEF Pool!Start, Pool!Becomes

LEMMA ReportMaps ==
    ASSUME SchedulerAssumption, SchedTypeOK, Books, NEW e \in Executions, Report(e)
    PROVE  Pool!Report(e)
<1>1. /\ pc[<<"run", e>>] = "executing" /\ pc' = [pc EXCEPT ![<<"run", e>>] = "check"]
      /\ results' = [results EXCEPT ![AgentOf[e]] = e]
      /\ UNCHANGED <<queues, pushed, returned>>
      /\ \A f \in Executions : AgentOf[f] \in Agents
  BY DEF Report, SchedulerAssumption
<1>2. /\ pc'[<<"run", e>>] = "check"
      /\ \A f \in Executions \ {e} : pc'[<<"run", f>>] = pc[<<"run", f>>]
      /\ \A f \in Executions : results'[AgentOf[f]] = IF AgentOf[f] = AgentOf[e] THEN e
                                                      ELSE results[AgentOf[f]]
  BY <1>1 DEF SchedTypeOK, Threads
<1>3. e \notin returned /\ results[AgentOf[e]] # e
  <2>1. ~Reported(e)
    BY <1>1 DEF Reported
  <2>2. e # None
    BY DEF SchedulerAssumption
  <2> QED
    BY <1>1, <2>1, <2>2 DEF Books, ResultsOf
<1>4. \A f \in Executions : Queued(f)' <=> Queued(f)
  BY <1>1 DEF Queued
<1>5. PhaseOf(e) = "running" /\ PhaseOf(e)' = "reported"
  BY <1>1, <1>2, <1>3, PhaseRead DEF PhaseIs
<1>6. \A f \in Executions \ {e} :
         PhaseOf(f)' = IF f \in Rivals(e) /\ PhaseOf(f) = "reported" THEN "replaced" ELSE PhaseOf(f)
  <2> SUFFICES ASSUME NEW f \in Executions \ {e}
               PROVE  PhaseIs(f)' = IF AgentOf[f] = AgentOf[e] /\ PhaseIs(f) = "reported"
                                    THEN "replaced" ELSE PhaseIs(f)
    BY PhaseRead DEF Rivals
  <2> QED
    BY <1>1, <1>2, <1>4 DEF PhaseIs
<1> QED
  BY <1>5, <1>6 DEF Pool!Report

LEMMA CancelMaps ==
    ASSUME SchedulerAssumption, SchedTypeOK, Books, NEW a \in Agents, Cancel(a)
    PROVE  (\E e \in Executions : Pool!Cancel(e)) \/ UNCHANGED Phases
<1>1. PICK gone \in SUBSET Executions :
         /\ Shrunk(queues, queues', gone)
         /\ gone = {} \/ \E e \in Executions : gone = {e} /\ Queued(e) /\ AgentOf[e] = a
  BY CancelQueues DEF SchedTypeOK, Books
<1>2. a \in Cancelled /\ UNCHANGED <<results, pc, pushed, returned>>
  BY DEF Cancel
<1>3. \A f : Queued(f)' <=> Queued(f) /\ f \notin gone
  BY <1>1 DEF Queued, Shrunk
<1>4. CASE gone = {}
  <2>1. \A f \in Executions : PhaseOf(f)' = PhaseOf(f)
    BY <1>2, <1>3, <1>4, PhaseRead DEF PhaseIs
  <2> QED
    BY <2>1 DEF Phases
<1>5. ASSUME NEW e \in Executions, gone = {e}, Queued(e), AgentOf[e] = a
      PROVE  Pool!Cancel(e)
  <2>1. pc[<<"run", e>>] = "none" /\ e \notin returned /\ e \in Range(pushed)
    BY <1>5 DEF Books, QueuedWait, ResultsOf, Reported
  <2>2. PhaseOf(e) = "waiting" /\ PhaseOf(e)' = "cancelled"
    BY <1>2, <1>3, <1>5, <2>1, PhaseRead DEF PhaseIs
  <2>3. \A f \in Executions \ {e} : PhaseOf(f)' = PhaseOf(f)
    BY <1>2, <1>3, <1>5, PhaseRead DEF PhaseIs
  <2> QED
    BY <1>2, <1>5, <2>2, <2>3 DEF Pool!Cancel, Pool!Becomes
<1> QED
  BY <1>1, <1>4, <1>5

LEMMA CollectMaps ==
    ASSUME SchedulerAssumption, SchedTypeOK, Books, NEW k \in Closers, Collect(k)
    PROVE  Pool!Return
<1>1. \A e \in Executions : e \in returned' <=> e \in returned \/ results[AgentOf[e]] = e
  BY CollectBooks
<1>2. /\ results' = [a \in Agents |-> None]
      /\ UNCHANGED <<queues, pc, pushed>>
      /\ \A e \in Executions : AgentOf[e] \in Agents /\ e # None
  BY DEF Collect, SchedulerAssumption
<1>3. \A e \in Executions :
         /\ Queued(e)' <=> Queued(e)
         /\ results'[AgentOf[e]] # e
         /\ results[AgentOf[e]] = e => Reported(e)
  BY <1>2 DEF Queued, Books, ResultsOf
<1>4. \A e \in Executions :
         PhaseOf(e)' = IF PhaseOf(e) = "reported" THEN "returned" ELSE PhaseOf(e)
  <2> SUFFICES ASSUME NEW e \in Executions
               PROVE  PhaseIs(e)' = IF PhaseIs(e) = "reported" THEN "returned" ELSE PhaseIs(e)
    BY PhaseRead
  <2> QED
    BY <1>1, <1>2, <1>3 DEF PhaseIs, Reported
<1> QED
  BY <1>4 DEF Pool!Return

LEMMA StepMaps ==
    ASSUME SchedulerAssumption, SchedTypeOK, Books, [Next]_vars
    PROVE  Pool!Next \/ UNCHANGED Phases
<1>1. ASSUME NEW t \in Threads, Check(t) \/ DispatchEnd(t)
      PROVE  UNCHANGED Phases
  <2>1. /\ pc[t] \in {"check", "dispatch", "loop"}
        /\ \E c \in {"dispatch", "done"} : pc' = [pc EXCEPT ![t] = c]
        /\ UNCHANGED <<queues, results, pushed, returned>>
    BY <1>1 DEF Check, DispatchEnd, dicts
  <2>2. \A f \in Executions :
           \/ pc'[<<"run", f>>] = pc[<<"run", f>>]
           \/ pc[<<"run", f>>] \notin {"none", "executing"} /\ pc'[<<"run", f>>] \notin {"none", "executing"}
    BY <2>1 DEF SchedTypeOK, Threads
  <2>3. \A f \in Executions : PhaseOf(f)' = PhaseOf(f)
    BY <2>1, <2>2, PhaseRead DEF PhaseIs, Queued
  <2> QED
    BY <2>3 DEF Phases
<1>2. CASE (\E k \in Closers : Close(k)) \/ Clock \/ UNCHANGED vars
  <2>1. UNCHANGED <<queues, results, pc, pushed, returned>>
    BY <1>2 DEF Close, Clock, vars, dicts
  <2>2. \A f \in Executions : PhaseOf(f)' = PhaseOf(f)
    BY <2>1, PhaseRead DEF PhaseIs, Queued
  <2> QED
    BY <2>2 DEF Phases
<1> QED
  BY <1>1, <1>2, SubmitMaps, DispatchMaps, ReportMaps, CancelMaps, CollectMaps DEF Next, Step, Pool!Next

(***************************************************************************)
(* The scheduler implements the pool, for any executions and agents, any   *)
(* limit, and however executions age, are cancelled and shut down.         *)
(***************************************************************************)
THEOREM PoolImplemented == Spec => ImplementsPool
<1>1. Init => Pool!Init
  <2> SUFFICES ASSUME Init
               PROVE  \A e \in Executions : PhaseOf(e) = "new"
    BY DEF Pool!Init
  <2>1. \A e \in Executions : ~Queued(e) /\ e \notin Range(pushed)
    BY DEF Init, Queued, Range
  <2>2. \A e \in Executions : pc[<<"run", e>>] = "none" /\ e \notin returned
    BY DEF Init, Threads
  <2> QED
    BY <2>1, <2>2, PhaseRead DEF PhaseIs
<1>2. SchedTypeOK /\ Books /\ [Next]_vars => [Pool!Next]_Phases
  BY SchedulerAssumption, StepMaps
<1>3. SchedTypeOK /\ Books /\ [Next]_vars => [Pool!Next]_[e \in Executions |-> PhaseOf(e)]
  BY <1>2 DEF Phases
<1> QED
  BY <1>1, <1>3, BooksKept, PTL DEF Spec, ImplementsPool, Pool!Spec

-----------------------------------------------------------------------------
(***************************************************************************)
(* The order of starts.  A queued execution is at its own level until it   *)
(* is overdue, and fresh ones of a level are in the order of their pushes. *)
(***************************************************************************)
LevelOf ==
    \A l \in Levels : \A e \in Range(queues[l]) : l = PriorityOf[e] \/ (l = 2 /\ Overdue(e))

FreshOrder ==
    \A l \in Levels : \A e, f \in Executions :
        Before(queues[l], e, f) /\ ~Overdue(e) /\ ~Overdue(f) => Earlier(e, f)

Order == LevelOf /\ FreshOrder

(* Of two executions one was pushed earlier, and gets overdue earlier. *)
LEMMA PushOrder ==
    ASSUME SchedTypeOK, Books, NEW e, NEW f, Earlier(e, f)
    PROVE  ~Earlier(f, e) /\ (Overdue(f) => Overdue(e))
<1>1. Len(pushed) \in Nat /\ DOMAIN pushed = 1 .. Len(pushed) /\ overdue \in 0 .. Len(pushed)
  BY DomainOf DEF SchedTypeOK
<1>2. \A i, j \in DOMAIN pushed : pushed[i] = pushed[j] => i = j
  BY DEF Books, PushedOnce, IsInjective
<1>3. PICK i, j \in DOMAIN pushed : i < j /\ pushed[i] = e /\ pushed[j] = f
  BY DEF Earlier, Before
<1>4. ~Earlier(f, e)
  <2> SUFFICES ASSUME NEW k \in DOMAIN pushed, NEW m \in DOMAIN pushed,
                      k < m, pushed[k] = f, pushed[m] = e
               PROVE  FALSE
    BY DEF Earlier, Before
  <2>1. k = j /\ m = i
    BY <1>2, <1>3
  <2> QED
    BY <1>1, <1>3, <2>1
<1>5. ASSUME NEW k \in 1 .. overdue, pushed[k] = f
      PROVE  Overdue(e)
  <2>1. k = j
    BY <1>1, <1>2, <1>3, <1>5
  <2>2. i \in 1 .. overdue
    BY <1>1, <1>3, <2>1
  <2> QED
    BY <1>3, <2>2 DEF Overdue
<1> QED
  BY <1>4, <1>5 DEF Overdue

LEMMA SubmitOrder ==
    ASSUME SchedulerAssumption, SchedTypeOK, Books, Order, NEW e \in Executions, Submit(e)
    PROVE  Order'
<1> DEFINE p == PriorityOf[e]
<1>1. /\ p \in Levels /\ pushed' = Append(pushed, e) /\ overdue' = overdue
      /\ queues' = [queues EXCEPT ![p] = Append(queues[p], e)]
      /\ pc[<<"submit", e>>] = "ready"
  BY DEF Submit, SchedulerAssumption, Levels
<1>2. /\ Len(pushed) \in Nat /\ DOMAIN pushed = 1 .. Len(pushed) /\ overdue \in 0 .. Len(pushed)
      /\ pushed \in Seq(Executions) /\ queues[p] \in Seq(Executions)
  BY <1>1, DomainOf DEF SchedTypeOK
<1>3. /\ \A i \in DOMAIN pushed : pushed'[i] = pushed[i]
      /\ \A f, g : Earlier(f, g) => Earlier(f, g)'
      /\ \A f \in Range(pushed) : Earlier(f, e)'
  BY <1>1, <1>2, AppendKeeps DEF Earlier
<1>4. \A f : Overdue(f)' <=> Overdue(f)
  <2>1. \A i \in 1 .. overdue : pushed'[i] = pushed[i]
    BY <1>2, <1>3
  <2> QED
    BY <1>1, <2>1 DEF Overdue
<1>5. /\ \A l \in Levels : l # p => queues'[l] = queues[l]
      /\ queues'[p] = Append(queues[p], e)
  BY <1>1 DEF SchedTypeOK
<1>6. /\ Range(queues'[p]) = Range(queues[p]) \cup {e}
      /\ \A f, g : Before(queues'[p], f, g) => Before(queues[p], f, g) \/ (f \in Range(queues[p]) /\ g = e)
  BY <1>2, <1>5, AppendKeeps
<1>7. LevelOf'
  <2> SUFFICES ASSUME NEW l \in Levels, NEW f \in Range(queues'[l])
               PROVE  l = PriorityOf[f] \/ (l = 2 /\ Overdue(f))
    BY <1>4 DEF LevelOf
  <2>1. CASE f \in Range(queues[l])
    BY <2>1 DEF Order, LevelOf
  <2>2. CASE f \notin Range(queues[l])
    <3>1. l = p
      <4>1. l # p => Range(queues'[l]) = Range(queues[l])
        BY <1>5
      <4> QED
        BY <2>2, <4>1
    <3>2. f = e
      BY <1>6, <2>2, <3>1
    <3> QED
      BY <3>1, <3>2
  <2> QED
    BY <2>1, <2>2
<1>8. FreshOrder'
  <2> SUFFICES ASSUME NEW l \in Levels, NEW f \in Executions, NEW g \in Executions,
                      Before(queues'[l], f, g), ~Overdue(f), ~Overdue(g)
               PROVE  Earlier(f, g)'
    BY <1>4 DEF FreshOrder
  <2>1. CASE Before(queues[l], f, g)
    BY <1>3, <2>1 DEF Order, FreshOrder
  <2>2. CASE ~Before(queues[l], f, g)
    <3>1. l = p /\ f \in Range(queues[p]) /\ g = e
      BY <1>5, <1>6, <2>2
    <3>2. f \in Range(pushed)
      BY <1>1, <3>1 DEF Books, QueuedWait, Queued
    <3> QED
      BY <1>3, <3>1, <3>2
  <2> QED
    BY <2>1, <2>2
<1> QED
  BY <1>7, <1>8 DEF Order

LEMMA DispatchOrder ==
    ASSUME SchedulerAssumption, SchedTypeOK, Books, Order, NEW t \in Threads, DispatchNext(t)
    PROVE  Order'
<1>1. PICK l \in Levels, e \in Executions : Shrunk(Aged, queues', {e})
  BY DispatchQueues DEF SchedTypeOK, Books
<1>2. /\ \A k \in Levels : Range(Aged[k]) = AgedRange(k)
      /\ \A k \in Levels : \A f, g : Before(Aged[k], f, g) => Before(queues[k], f, g) \/ Overdue(g)
  BY AgedQueues DEF SchedTypeOK, Books
<1>3. \A f, g : (Overdue(f)' <=> Overdue(f)) /\ (Earlier(f, g)' <=> Earlier(f, g))
  BY DEF DispatchNext, Overdue, Earlier
<1>4. LevelOf'
  <2> SUFFICES ASSUME NEW k \in Levels, NEW f \in Range(queues'[k])
               PROVE  k = PriorityOf[f] \/ (k = 2 /\ Overdue(f))
    BY <1>3 DEF LevelOf
  <2>1. f \in AgedRange(k)
    <3>1. Range(queues'[k]) = Range(Aged[k]) \ {e}
      BY <1>1 DEF Shrunk
    <3> QED
      BY <1>2, <3>1
  <2>2. f \in Range(queues[k]) \/ (k = 2 /\ Overdue(f))
    BY <2>1 DEF AgedRange
  <2> QED
    BY <2>2 DEF Order, LevelOf
<1>5. FreshOrder'
  BY <1>1, <1>2, <1>3 DEF Order, FreshOrder, Shrunk
<1> QED
  BY <1>4, <1>5 DEF Order

LEMMA OrderStep ==
    ASSUME SchedulerAssumption, SchedTypeOK, Books, Order, [Next]_vars
    PROVE  Order'
<1>1. ASSUME NEW a \in Agents, Cancel(a)
      PROVE  Order'
  <2>1. \A l \in Levels : /\ Range(queues'[l]) \subseteq Range(queues[l])
                          /\ \A f, g : Before(queues'[l], f, g) => Before(queues[l], f, g)
    <3>1. PICK gone \in SUBSET Executions : Shrunk(queues, queues', gone)
      BY <1>1, CancelQueues DEF SchedTypeOK, Books
    <3> QED
      BY <3>1 DEF Shrunk
  <2>2. \A f, g : (Overdue(f)' <=> Overdue(f)) /\ (Earlier(f, g)' <=> Earlier(f, g))
    BY <1>1 DEF Cancel, Overdue, Earlier
  <2>3. LevelOf'
    BY <2>1, <2>2 DEF Order, LevelOf
  <2>4. FreshOrder'
    BY <2>1, <2>2 DEF Order, FreshOrder
  <2> QED
    BY <2>3, <2>4 DEF Order
<1>2. ASSUME UNCHANGED <<queues, pushed>>, \A f : Overdue(f) => Overdue(f)'
      PROVE  Order'
  BY <1>2 DEF Order, LevelOf, FreshOrder, Earlier
<1>3. ASSUME UNCHANGED <<queues, pushed, overdue>>
      PROVE  Order'
  BY <1>2, <1>3 DEF Overdue
<1>4. CASE Clock
  <2>1. overdue \in Nat /\ overdue' = overdue + 1 /\ UNCHANGED <<queues, pushed>>
    BY <1>4, DomainOf DEF Clock, SchedTypeOK
  <2>2. \A f : Overdue(f) => Overdue(f)'
    BY <2>1 DEF Overdue
  <2> QED
    BY <1>2, <2>1, <2>2
<1>5. ASSUME NEW t \in Threads, Check(t) \/ DispatchEnd(t)
      PROVE  UNCHANGED <<queues, pushed, overdue>>
  BY <1>5 DEF Check, DispatchEnd
<1>6. ASSUME NEW e \in Executions, Report(e)
      PROVE  UNCHANGED <<queues, pushed, overdue>>
  BY <1>6 DEF Report
<1>7. ASSUME NEW k \in Closers, Close(k) \/ Collect(k)
      PROVE  UNCHANGED <<queues, pushed, overdue>>
  BY <1>7 DEF Close, Collect
<1>8. CASE UNCHANGED vars
  BY <1>3, <1>8 DEF vars
<1> QED
  BY <1>1, <1>3, <1>4, <1>5, <1>6, <1>7, <1>8, SubmitOrder, DispatchOrder DEF Next, Step

(* What FreshInOrder asks of one start while e is queued. *)
StartInOrder(e, f) ==
    /\ PriorityOf[f] <= PriorityOf[e]
    /\ PriorityOf[f] = PriorityOf[e] => ~Earlier(e, f)

LEMMA StartStep ==
    ASSUME SchedulerAssumption, SchedTypeOK, Books, Order, [Next]_vars,
           NEW e \in Executions, NEW f \in Executions,
           Started(f), Queued(e), Queued(e)', ~Overdue(e)
    PROVE  StartInOrder(e, f)
<1>1. PICK t \in Threads : DispatchNext(t)
  <2>1. <<"run", f>> \in Threads /\ \A g \in Executions : <<"submit", g>> # <<"run", f>>
    BY DEF Threads
  <2>2. ASSUME NEW u \in Threads, pc[u] # "none", NEW c, pc' = [pc EXCEPT ![u] = c]
        PROVE  FALSE
    BY <2>1, <2>2 DEF Started, SchedTypeOK
  <2>3. ~UNCHANGED pc
    BY DEF Started
  <2>4. ASSUME NEW g \in Executions, Submit(g)
        PROVE  FALSE
    <3>1. <<"submit", g>> \in Threads
      BY DEF Threads
    <3> QED
      BY <2>2, <2>4, <3>1 DEF Submit
  <2>5. ASSUME NEW g \in Executions, Report(g)
        PROVE  FALSE
    <3>1. <<"run", g>> \in Threads
      BY DEF Threads
    <3> QED
      BY <2>2, <2>5, <3>1 DEF Report
  <2>6. ASSUME NEW u \in Threads, Check(u) \/ DispatchEnd(u)
        PROVE  FALSE
    BY <2>2, <2>6 DEF Check, DispatchEnd
  <2>7. (\A a \in Agents : ~Cancel(a)) /\ (\A k \in Closers : ~Close(k) /\ ~Collect(k))
    BY <2>3 DEF Cancel, Close, Collect
  <2>8. ~Clock /\ ~UNCHANGED vars
    BY <2>3 DEF Clock, vars
  <2> QED
    BY <2>4, <2>5, <2>6, <2>7, <2>8 DEF Next, Step
<1>2. PICK l \in Levels, g \in Executions :
              /\ g \in Range(Aged[l])
              /\ \A k \in Levels : k < l => Range(Aged[k]) = {}
              /\ \A h \in Range(Aged[l]) : h # g => Before(Aged[l], g, h)
              /\ pc' = [pc EXCEPT ![t] = "loop", ![<<"run", g>>] = "executing"]
  BY <1>1, DispatchQueues DEF SchedTypeOK, Books
<1>3. f = g
  <2>1. pc[t] # "none"
    BY <1>1 DEF DispatchNext
  <2> QED
    BY <1>2, <2>1 DEF Started, SchedTypeOK, Threads
<1>4. /\ \A k \in Levels : Range(Aged[k]) = AgedRange(k)
      /\ \A k \in Levels : \A x, y : Before(Aged[k], x, y) => Before(queues[k], x, y) \/ Overdue(y)
  BY AgedQueues DEF SchedTypeOK, Books
<1> DEFINE m == PriorityOf[e]
<1>5. m \in 0 .. 2 /\ PriorityOf[f] \in 0 .. 2 /\ m \in Levels
  BY DEF SchedulerAssumption, Levels
<1>6. e \in Range(queues[m])
  BY DEF Queued, Order, LevelOf
<1>7. e \in AgedRange(m)
  BY <1>5, <1>6 DEF AgedRange
<1>8. l <= m /\ l \in 0 .. 2
  BY <1>2, <1>4, <1>5, <1>7 DEF Levels
<1>9. f \in AgedRange(l)
  BY <1>2, <1>3, <1>4
<1>10. f \in Range(queues[l]) \/ (l = 2 /\ Overdue(f))
  BY <1>8, <1>9 DEF AgedRange
<1>11. l = PriorityOf[f] \/ (l = 2 /\ Overdue(f))
  BY <1>10 DEF Order, LevelOf
<1>12. PriorityOf[f] <= m
  BY <1>5, <1>8, <1>11
<1>13. ASSUME PriorityOf[f] = m, Earlier(e, f)
       PROVE  FALSE
  <2>1. ~Overdue(f) /\ ~Earlier(f, e) /\ f # e
    BY <1>13, PushOrder
  <2>2. l = m
    BY <1>11, <1>13, <2>1
  <2>3. Before(Aged[l], f, e)
    BY <1>2, <1>3, <1>4, <1>7, <2>1, <2>2
  <2>4. Before(queues[l], f, e)
    BY <1>4, <2>3
  <2> QED
    BY <2>1, <2>4 DEF Order, FreshOrder
<1> QED
  BY <1>12, <1>13 DEF StartInOrder

(* FreshInOrder, for every value of the constants. *)
THEOREM FreshInOrderAlways == Spec => FreshInOrder
<1> DEFINE InOrder == \A e, f \in Executions :
              Started(f) /\ Queued(e) /\ Queued(e)' /\ ~Overdue(e) => StartInOrder(e, f)
<1>1. Init => Order
  BY DEF Init, Order, LevelOf, FreshOrder, Range, Before
<1>2. SchedTypeOK /\ Books /\ Order /\ [Next]_vars => Order'
  BY SchedulerAssumption, OrderStep
<1>3. SchedTypeOK /\ Books /\ Order /\ [Next]_vars => InOrder
  BY SchedulerAssumption, StartStep
<1>4. Spec => [][InOrder]_vars
  BY <1>1, <1>2, <1>3, BooksKept, PTL DEF Spec
<1> QED
  BY <1>4 DEF FreshInOrder, StartInOrder
=============================================================================
