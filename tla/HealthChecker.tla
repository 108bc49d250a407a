---------------------------- MODULE HealthChecker ----------------------------
(***************************************************************************)
(* OrchestratorHealthChecker of motor/orchestration/failover.py: a loop    *)
(* thread probes the orchestrator every interval_s, other threads may call *)
(* check_now(), an owner calls start() and stop().  A probe runs without   *)
(* the lock; its result is applied later, under the lock.                  *)
(*                                                                         *)
(* Time advances in ticks.  _failure_timestamps is kept as the ages of the *)
(* last Threshold failures, newest first; an age of Window stands for a    *)
(* failure that was pruned, cleared or never happened, so that             *)
(*     len(_failure_timestamps) >= failure_threshold                       *)
(* reads failures[Threshold] < Window.  _consecutive_recoveries stops      *)
(* counting at Recovery.  _consecutive_failures is left out: where the     *)
(* code tests it, it is always at least 1.                                 *)
(***************************************************************************)
EXTENDS Integers

CONSTANTS
    Askers,      \* threads that call check_now()
    Outages,     \* how the orchestrator may be down: "refusing", "silent"
    Threshold,   \* failure_threshold
    Recovery,    \* recovery_threshold
    Window,      \* failure_window_s
    Interval,    \* interval_s
    ProbeTime,   \* timeout_s of a probe
    JoinTime,    \* timeout of join() in stop()
    Garbled,     \* whether an answer may raise what _probe() does not catch
    Stops,       \* whether the owner calls stop()
    Punctual     \* whether threads that can go on do so before the next tick

ASSUME HealthAssumption ==
    /\ "loop" \notin Askers /\ "owner" \notin Askers
    /\ Outages \subseteq {"refusing", "silent"}
    /\ {Threshold, Recovery, Window, Interval, ProbeTime, JoinTime} \subseteq Nat \ {0}
    /\ {Garbled, Stops, Punctual} \subseteq BOOLEAN

Probers == Askers \cup {"loop"}
Timed   == Probers \cup {"owner"}

VARIABLES
    orchestrator,  \* "up" or the kind of outage
    health,        \* _state
    recoveries,    \* _consecutive_recoveries
    failures,      \* _failure_timestamps
    probe,         \* per thread: its probe, or the result it has not applied
    loop,          \* whether the loop thread is alive
    stopping,      \* the _stop event
    joining,       \* whether the owner is in join()
    started,       \* the owner's last call was start()
    timer,         \* ticks since a probe was sent, an update made, a join begun
    quiet,         \* history: ticks since a probe was last answered
    streak         \* history: probes answered since one last failed

counters == <<health, recoveries, failures>>
history  == <<quiet, streak>>
owner    == <<stopping, joining, started>>
vars     == <<orchestrator, counters, probe, loop, owner, timer, history>>

Least(m, n)    == IF m < n THEN m ELSE n
Greatest(m, n) == IF m < n THEN n ELSE m

(* Clocks and history variables stop counting where nobody looks any more. *)
Longest == Greatest(Interval, Greatest(ProbeTime, JoinTime))
Silence == Least((Threshold - 1) * Interval, Window)

NoFailure == [k \in 1 .. Threshold |-> Window]

Init ==
    /\ orchestrator = "up"
    /\ health = "healthy"
    /\ recoveries = 0
    /\ failures = NoFailure
    /\ probe = [p \in Probers |-> "none"]
    /\ loop = FALSE
    /\ stopping = FALSE
    /\ joining = FALSE
    /\ started = FALSE
    /\ timer = [p \in Timed |-> Interval]
    /\ quiet = 0
    /\ streak = 0

-----------------------------------------------------------------------------
(* start() and stop().                                                     *)

(* The first probe of a new loop thread waits for nothing. *)
Start ==
    /\ ~ joining
    /\ started' = TRUE
    /\ IF loop THEN UNCHANGED <<loop, stopping, timer>>
       ELSE /\ loop' = TRUE
            /\ stopping' = FALSE
            /\ timer' = [timer EXCEPT !["loop"] = Interval]
    /\ UNCHANGED <<orchestrator, counters, probe, joining, history>>

Stop ==
    /\ Stops
    /\ ~ joining
    /\ stopping' = TRUE
    /\ started' = FALSE
    /\ joining' = TRUE
    /\ timer' = [timer EXCEPT !["owner"] = 0]
    /\ UNCHANGED <<orchestrator, counters, probe, loop, history>>

(* join() returns when the thread is dead or when its timeout has passed. *)
JoinReturns ==
    /\ joining
    /\ loop => timer["owner"] >= JoinTime
    /\ joining' = FALSE
    /\ UNCHANGED <<orchestrator, counters, probe, loop, stopping, started, timer, history>>

-----------------------------------------------------------------------------
(* _loop(), check_now(), _probe().                                         *)

(* p may send a probe: the loop has waited, the event is not set. *)
Ready(p) ==
    /\ probe[p] = "none"
    /\ p = "loop" => loop /\ ~ stopping /\ timer["loop"] >= Interval

Send(p) ==
    /\ Ready(p)
    /\ probe' = [probe EXCEPT ![p] = "sent"]
    /\ timer' = [timer EXCEPT ![p] = 0]
    /\ UNCHANGED <<orchestrator, counters, loop, owner, history>>

Answered(p) ==
    /\ probe[p] = "sent" /\ orchestrator = "up"
    /\ probe' = [probe EXCEPT ![p] = "ok"]
    /\ quiet' = 0
    /\ streak' = Least(streak + 1, Recovery)
    /\ UNCHANGED <<orchestrator, counters, loop, owner, timer>>

(* Connection refused, or nothing until the timeout. *)
Unanswered(p) ==
    /\ probe[p] = "sent"
    /\ \/ orchestrator = "refusing"
       \/ orchestrator = "silent" /\ timer[p] >= ProbeTime
    /\ probe' = [probe EXCEPT ![p] = "bad"]
    /\ streak' = 0
    /\ UNCHANGED <<orchestrator, counters, loop, owner, timer, quiet>>

(***************************************************************************)
(* The answer is not valid HTTP or not text: http.client.HTTPException and *)
(* UnicodeDecodeError pass through _probe() and end the thread.            *)
(***************************************************************************)
Breaks(p) ==
    /\ Garbled
    /\ probe[p] = "sent" /\ orchestrator = "up"
    /\ probe' = [probe EXCEPT ![p] = "none"]
    /\ loop' = IF p = "loop" THEN FALSE ELSE loop
    /\ UNCHANGED <<orchestrator, counters, owner, timer, history>>

LoopExits ==
    /\ loop /\ probe["loop"] = "none" /\ stopping
    /\ loop' = FALSE
    /\ UNCHANGED <<orchestrator, counters, probe, owner, timer, history>>

-----------------------------------------------------------------------------
(* _update_state()                                                         *)

(* Slip: a failure leaves the recoveries alone. *)
OnFailureNoReset ==
    /\ failures' = [k \in 1 .. Threshold |-> IF k = 1 THEN 0 ELSE failures[k - 1]]
    /\ health' = IF failures'[Threshold] < Window THEN "down" ELSE "degraded"
    /\ UNCHANGED recoveries

(* Slip: DOWN is considered only from HEALTHY. *)
OnFailureFirst ==
    /\ recoveries' = 0
    /\ failures' = [k \in 1 .. Threshold |-> IF k = 1 THEN 0 ELSE failures[k - 1]]
    /\ health' = IF health = "healthy" /\ failures'[Threshold] < Window
                 THEN "down" ELSE "degraded"

OnFailure ==
    /\ recoveries' = 0
    /\ failures' = [k \in 1 .. Threshold |-> IF k = 1 THEN 0 ELSE failures[k - 1]]
    /\ health' = IF failures'[Threshold] < Window THEN "down" ELSE "degraded"

(* Slip: a success does not clear the failures. *)
OnSuccessKeeps ==
    /\ recoveries' = Least(recoveries + 1, Recovery)
    /\ health' = IF health = "down" /\ recoveries + 1 < Recovery THEN "down" ELSE "healthy"
    /\ UNCHANGED failures

(* Slip: the branch for DEGRADED is missing. *)
OnSuccessDown ==
    /\ recoveries' = Least(recoveries + 1, Recovery)
    /\ failures' = NoFailure
    /\ health' = IF health = "down" /\ recoveries + 1 >= Recovery THEN "healthy" ELSE health

OnSuccess ==
    /\ recoveries' = Least(recoveries + 1, Recovery)
    /\ failures' = NoFailure
    /\ health' = IF health = "down" /\ recoveries + 1 < Recovery THEN "down" ELSE "healthy"

Update(p) ==
    /\ \/ probe[p] = "bad" /\ OnFailure
       \/ probe[p] = "ok" /\ OnSuccess
    /\ probe' = [probe EXCEPT ![p] = "none"]
    /\ timer' = [timer EXCEPT ![p] = 0]
    /\ UNCHANGED <<orchestrator, loop, owner, history>>

-----------------------------------------------------------------------------
(* The orchestrator and time.                                              *)

Turn(o) ==
    /\ o # orchestrator
    /\ orchestrator' = o
    /\ UNCHANGED <<counters, probe, loop, owner, timer, history>>

(* p can go on without waiting for time to pass. *)
Due(p) ==
    \/ probe[p] \in {"ok", "bad"}
    \/ probe[p] = "sent" /\ (orchestrator = "silent" => timer[p] >= ProbeTime)
    \/ p = "loop" /\ (Ready(p) \/ (loop /\ stopping /\ probe[p] = "none"))

Tick ==
    /\ Punctual => \A p \in Probers : ~ Due(p)
    /\ failures' = [k \in 1 .. Threshold |-> Least(failures[k] + 1, Window)]
    /\ timer' = [p \in Timed |-> Least(timer[p] + 1, Longest)]
    /\ quiet' = Least(quiet + 1, Silence)
    /\ UNCHANGED <<orchestrator, health, recoveries, probe, loop, owner, streak>>

Probing(p) == Send(p) \/ Answered(p) \/ Unanswered(p) \/ Breaks(p)

Next ==
    \/ Start \/ Stop \/ JoinReturns \/ LoopExits
    \/ \E p \in Probers : Probing(p) \/ Update(p)
    \/ \E o \in Outages \cup {"up"} : Turn(o)
    \/ Tick

Spec == Init /\ [][Next]_vars

(* The owner starts the checker; its threads are scheduled; time passes. *)
Fairness ==
    /\ WF_vars(Start /\ ~ started)
    /\ WF_vars(Probing("loop")) /\ WF_vars(Update("loop")) /\ WF_vars(LoopExits)
    /\ WF_vars(Tick)

FairSpec == Spec /\ Fairness

-----------------------------------------------------------------------------
(* Properties.                                                             *)

(* Counters and clocks stay within their bounds. *)
HealthTypeOK ==
    /\ orchestrator \in Outages \cup {"up"}
    /\ health \in {"healthy", "degraded", "down"}
    /\ recoveries \in 0 .. Recovery
    /\ failures \in [1 .. Threshold -> 0 .. Window]
    /\ probe \in [Probers -> {"none", "sent", "ok", "bad"}]
    /\ {loop, stopping, joining, started} \subseteq BOOLEAN
    /\ timer \in [Timed -> 0 .. Longest]
    /\ quiet \in 0 .. Silence
    /\ streak \in 0 .. Recovery

(***************************************************************************)
(* However many threads probe: a healthy orchestrator and one that has     *)
(* begun to recover have no failure on record, DEGRADED and DOWN are left  *)
(* before the recoveries reach the threshold, and the failures are in the  *)
(* order of their times, so that pruning drops the oldest.                 *)
(***************************************************************************)
CountersAgree ==
    /\ health = "healthy" \/ recoveries > 0 => failures = NoFailure
    /\ health = "degraded" => recoveries = 0
    /\ health = "down" => recoveries < Recovery
    /\ \A j, k \in 1 .. Threshold : j < k => failures[j] <= failures[k]

(***************************************************************************)
(* Anti-flapping: the loop declares the orchestrator DOWN only when it has *)
(* not answered for Threshold - 1 intervals.                               *)
(***************************************************************************)
SlowToDown ==
    [][health # "down" /\ health' = "down"
         => quiet >= Silence]_vars

(***************************************************************************)
(* Anti-flapping: the loop goes from DOWN to HEALTHY only when the last    *)
(* Recovery probes were all answered.                                      *)
(***************************************************************************)
EarnedRecovery ==
    [][health = "down" /\ health' = "healthy" => streak >= Recovery]_vars

(***************************************************************************)
(* An orchestrator that is gone for good is declared DOWN for good, and    *)
(* one that is back for good HEALTHY for good.                             *)
(***************************************************************************)
StaysDown  == <>[](orchestrator # "up") => <>[](health = "down")
ComesBack  == <>[](orchestrator = "up") => <>[](health = "healthy")

(***************************************************************************)
(* After start(), a loop thread is running that nobody has told to stop.   *)
(***************************************************************************)
StartedRuns == started => loop /\ ~ stopping
=============================================================================
