--------------------------- MODULE FailoverProofs ----------------------------
(***************************************************************************)
(* The health checker and the failover that extends it, for any number of  *)
(* threads, tasks and worktrees, any thresholds and any timing, whatever   *)
(* commands and writes fail.                                               *)
(*                                                                         *)
(* The checker comes first.  HealthTypeOK /\ CountersAgree is inductive:   *)
(* the order of the failures needs their bounds, and a recovery must not   *)
(* overrun its threshold.  Then: what the failover adds does not disturb   *)
(* the checker, its mode follows the checker into an outage, what it does  *)
(* with worktrees is what Worktrees allows, and no cleanup reaches into    *)
(* the next outage.                                                        *)
(***************************************************************************)
EXTENDS Failover, TLAPS

(* The caps of the clocks are numbers, and the greatest of the three. *)
LEMMA Caps ==
    ASSUME HealthAssumption
    PROVE  /\ Threshold \in Nat \ {0} /\ Recovery \in Nat \ {0} /\ Window \in Nat \ {0}
           /\ Interval \in Nat \ {0} /\ Longest \in Nat \ {0} /\ Silence \in Nat
           /\ Interval <= Longest
<1>1. {Threshold, Recovery, Window, Interval, ProbeTime, JoinTime} \subseteq Nat \ {0}
  BY DEF HealthAssumption
<1>2. (Threshold - 1) * Interval \in Nat
  BY <1>1
<1> QED
  BY <1>1, <1>2 DEF Longest, Silence, Greatest, Least

LEMMA HealthInit ==
    ASSUME HealthAssumption, Init
    PROVE  HealthTypeOK /\ CountersAgree
<1>1. HealthTypeOK
  <2>1. {loop, stopping, joining, started} \subseteq BOOLEAN
    BY DEF Init
  <2>2. failures \in [1 .. Threshold -> 0 .. Window]
    BY Caps DEF Init, NoFailure
  <2>3. timer \in [Timed -> 0 .. Longest]
    BY Caps DEF Init
  <2>4. /\ orchestrator \in Outages \cup {"up"}
        /\ health \in {"healthy", "degraded", "down"}
        /\ recoveries \in 0 .. Recovery
        /\ probe \in [Probers -> {"none", "sent", "ok", "bad"}]
        /\ quiet \in 0 .. Silence
        /\ streak \in 0 .. Recovery
    BY Caps DEF Init
  <2> QED
    BY <2>1, <2>2, <2>3, <2>4 DEF HealthTypeOK
<1>2. CountersAgree
  BY Caps DEF Init, CountersAgree, NoFailure
<1> QED
  BY <1>1, <1>2

-----------------------------------------------------------------------------
(* What the two branches of _update_state() and the clock do to the        *)
(* counters.                                                               *)

LEMMA FailureAgrees ==
    ASSUME HealthAssumption, HealthTypeOK, CountersAgree, OnFailure
    PROVE  /\ CountersAgree'
           /\ health' \in {"healthy", "degraded", "down"}
           /\ recoveries' \in 0 .. Recovery
           /\ failures' \in [1 .. Threshold -> 0 .. Window]
<1>1. failures' \in [1 .. Threshold -> 0 .. Window]
  BY Caps DEF OnFailure, HealthTypeOK
<1>2. health' \in {"degraded", "down"} /\ recoveries' = 0
  BY DEF OnFailure
<1>3. ASSUME NEW j \in 1 .. Threshold, NEW k \in 1 .. Threshold, j < k
      PROVE  failures'[j] <= failures'[k]
  <2>1. failures'[j] = IF j = 1 THEN 0 ELSE failures[j - 1]
    BY DEF OnFailure
  <2>2. failures'[k] = failures[k - 1] /\ k - 1 \in 1 .. Threshold
    BY Caps, <1>3 DEF OnFailure
  <2>3. CASE j = 1
    BY <1>1, <2>1, <2>3
  <2>4. CASE j # 1
    <3>1. j - 1 \in 1 .. Threshold /\ j - 1 < k - 1
      BY <1>3, <2>4, Caps
    <3> QED
      BY <2>1, <2>2, <2>4, <3>1 DEF CountersAgree
  <2> QED
    BY <2>3, <2>4
<1>4. CountersAgree'
  BY <1>2, <1>3, Caps DEF CountersAgree
<1> QED
  BY <1>1, <1>2, <1>4, Caps

LEMMA SuccessAgrees ==
    ASSUME HealthAssumption, HealthTypeOK, CountersAgree, OnSuccess
    PROVE  /\ CountersAgree'
           /\ health' \in {"healthy", "degraded", "down"}
           /\ recoveries' \in 0 .. Recovery
           /\ failures' \in [1 .. Threshold -> 0 .. Window]
<1>1. failures' = NoFailure /\ NoFailure \in [1 .. Threshold -> 0 .. Window]
  BY Caps DEF OnSuccess, NoFailure
<1>2. /\ health' = IF health = "down" /\ recoveries + 1 < Recovery THEN "down" ELSE "healthy"
      /\ recoveries' = IF recoveries + 1 < Recovery THEN recoveries + 1 ELSE Recovery
  BY DEF OnSuccess, Least
<1>3. recoveries \in 0 .. Recovery
  BY DEF HealthTypeOK
<1>4. \A j, k \in 1 .. Threshold : j < k => failures'[j] <= failures'[k]
  BY <1>1, Caps DEF NoFailure
<1>5. CountersAgree'
  BY <1>1, <1>2, <1>3, <1>4, Caps DEF CountersAgree, NoFailure
<1> QED
  BY <1>1, <1>2, <1>3, <1>5, Caps

LEMMA TickAgrees ==
    ASSUME HealthAssumption, HealthTypeOK, CountersAgree, Tick
    PROVE  CountersAgree' /\ failures' \in [1 .. Threshold -> 0 .. Window]
<1>1. \A k \in 1 .. Threshold : failures[k] \in 0 .. Window
  BY DEF HealthTypeOK
<1>2. failures' = [k \in 1 .. Threshold |->
                     IF failures[k] + 1 < Window THEN failures[k] + 1 ELSE Window]
  BY DEF Tick, Least
<1>3. failures' \in [1 .. Threshold -> 0 .. Window]
  BY <1>1, <1>2, Caps
<1>4. \A j, k \in 1 .. Threshold : j < k => failures'[j] <= failures'[k]
  <2> SUFFICES ASSUME NEW j \in 1 .. Threshold, NEW k \in 1 .. Threshold, j < k
               PROVE  failures'[j] <= failures'[k]
    OBVIOUS
  <2>1. failures[j] <= failures[k]
    BY DEF CountersAgree
  <2>2. failures[j] \in Int /\ failures[k] \in Int /\ Window \in Int
    BY <1>1, Caps
  <2>3. /\ failures'[j] = IF failures[j] + 1 < Window THEN failures[j] + 1 ELSE Window
        /\ failures'[k] = IF failures[k] + 1 < Window THEN failures[k] + 1 ELSE Window
    BY <1>2
  <2> QED
    BY <2>1, <2>2, <2>3
<1>5. failures = NoFailure => failures' = NoFailure
  BY <1>2, Caps DEF NoFailure
<1>6. health' = health /\ recoveries' = recoveries
  BY DEF Tick
<1>7. CountersAgree'
  BY <1>4, <1>5, <1>6, Caps DEF CountersAgree, NoFailure
<1> QED
  BY <1>3, <1>7

-----------------------------------------------------------------------------
(* The invariant.                                                          *)

(* Threads, clocks and history variables keep their types. *)
ControlTypeOK ==
    /\ probe \in [Probers -> {"none", "sent", "ok", "bad"}]
    /\ loop \in BOOLEAN /\ stopping \in BOOLEAN /\ joining \in BOOLEAN /\ started \in BOOLEAN
    /\ timer \in [Timed -> 0 .. Longest]
    /\ quiet \in 0 .. Silence
    /\ streak \in 0 .. Recovery

(* What _update_state() keeps under the lock. *)
CountersTypeOK ==
    /\ health \in {"healthy", "degraded", "down"}
    /\ recoveries \in 0 .. Recovery
    /\ failures \in [1 .. Threshold -> 0 .. Window]

LEMMA TypeParts ==
    HealthTypeOK <=> orchestrator \in Outages \cup {"up"} /\ ControlTypeOK /\ CountersTypeOK
BY DEF HealthTypeOK, ControlTypeOK, CountersTypeOK

LEMMA ControlStep ==
    ASSUME HealthAssumption, HealthTypeOK, [Next]_vars
    PROVE  ControlTypeOK'
<1>0. ControlTypeOK /\ "loop" \in Probers /\ Probers \subseteq Timed /\ "owner" \in Timed
  BY TypeParts DEF Probers, Timed
<1>1. CASE Start
  <2>1. loop' \in BOOLEAN /\ stopping' \in BOOLEAN /\ joining' \in BOOLEAN /\ started' \in BOOLEAN
    BY <1>0, <1>1, Zenon DEF Start, ControlTypeOK
  <2>2. timer' \in [Timed -> 0 .. Longest]
    <3>1. timer' = timer \/ timer' = [timer EXCEPT !["loop"] = Interval]
      BY <1>1 DEF Start
    <3> QED
      BY <1>0, <3>1, Caps DEF ControlTypeOK
  <2>3. UNCHANGED <<probe, quiet, streak>>
    BY <1>1 DEF Start, history
  <2> QED
    BY <1>0, <2>1, <2>2, <2>3 DEF ControlTypeOK
<1>2. CASE Stop
  <2>1. loop' \in BOOLEAN /\ stopping' \in BOOLEAN /\ joining' \in BOOLEAN /\ started' \in BOOLEAN
    BY <1>0, <1>2, Zenon DEF Stop, ControlTypeOK
  <2>2. timer' \in [Timed -> 0 .. Longest]
    BY <1>0, <1>2, Caps DEF Stop, ControlTypeOK
  <2>3. UNCHANGED <<probe, quiet, streak>>
    BY <1>2 DEF Stop, history
  <2> QED
    BY <1>0, <2>1, <2>2, <2>3 DEF ControlTypeOK
<1>3. CASE JoinReturns
  BY <1>0, <1>3 DEF JoinReturns, history, ControlTypeOK
<1>4. CASE LoopExits
  BY <1>0, <1>4 DEF LoopExits, owner, history, ControlTypeOK
<1>5. ASSUME NEW p \in Probers, Send(p)
      PROVE  ControlTypeOK'
  BY <1>0, <1>5, Caps DEF Send, owner, history, ControlTypeOK
<1>6. ASSUME NEW p \in Probers, Answered(p)
      PROVE  ControlTypeOK'
  BY <1>0, <1>6, Caps DEF Answered, owner, Least, ControlTypeOK
<1>7. ASSUME NEW p \in Probers, Unanswered(p)
      PROVE  ControlTypeOK'
  BY <1>0, <1>7, Caps DEF Unanswered, owner, ControlTypeOK
<1>8. ASSUME NEW p \in Probers, Breaks(p)
      PROVE  ControlTypeOK'
  BY <1>0, <1>8 DEF Breaks, owner, history, ControlTypeOK
<1>9. ASSUME NEW p \in Probers, Update(p)
      PROVE  ControlTypeOK'
  BY <1>0, <1>9, Caps DEF Update, owner, history, ControlTypeOK
<1>10. ASSUME NEW o \in Outages \cup {"up"}, Turn(o)
       PROVE  ControlTypeOK'
  BY <1>0, <1>10 DEF Turn, owner, history, ControlTypeOK
<1>11. CASE Tick
  <2>1. timer' \in [Timed -> 0 .. Longest]
    <3>1. \A p \in Timed : timer[p] \in 0 .. Longest
      BY <1>0 DEF ControlTypeOK
    <3>2. timer' = [p \in Timed |-> IF timer[p] + 1 < Longest THEN timer[p] + 1 ELSE Longest]
      BY <1>11 DEF Tick, Least
    <3> QED
      BY <3>1, <3>2, Caps
  <2>2. quiet' \in 0 .. Silence
    BY <1>0, <1>11, Caps DEF Tick, Least, ControlTypeOK
  <2>3. UNCHANGED <<probe, loop, stopping, joining, started, streak>>
    BY <1>11 DEF Tick, owner
  <2> QED
    BY <1>0, <2>1, <2>2, <2>3 DEF ControlTypeOK
<1>12. CASE UNCHANGED vars
  BY <1>0, <1>12 DEF vars, owner, history, ControlTypeOK
<1> QED
  BY <1>1, <1>2, <1>3, <1>4, <1>5, <1>6, <1>7, <1>8, <1>9, <1>10, <1>11, <1>12
     DEF Next, Probing

(* Only Update and Tick touch the counters. *)
LEMMA CountersStep ==
    ASSUME HealthAssumption, HealthTypeOK, CountersAgree, [Next]_vars
    PROVE  CountersTypeOK' /\ CountersAgree'
<1>1. ASSUME NEW p \in Probers, Update(p)
      PROVE  CountersTypeOK' /\ CountersAgree'
  <2>1. OnFailure \/ OnSuccess
    BY <1>1 DEF Update
  <2> QED
    BY <2>1, FailureAgrees, SuccessAgrees DEF CountersTypeOK
<1>2. CASE Tick
  <2>1. health' = health /\ recoveries' = recoveries
    BY <1>2 DEF Tick
  <2> QED
    BY <1>2, <2>1, TickAgrees, TypeParts DEF CountersTypeOK
<1>3. CASE UNCHANGED counters
  BY <1>3, TypeParts DEF counters, CountersTypeOK, CountersAgree
<1>4. \/ UNCHANGED counters
      \/ Tick
      \/ \E p \in Probers : Update(p)
  BY DEF Next, vars, counters, Probing, Start, Stop, JoinReturns, LoopExits,
         Send, Answered, Unanswered, Breaks, Turn
<1> QED
  BY <1>1, <1>2, <1>3, <1>4

LEMMA HealthStep ==
    ASSUME HealthAssumption, HealthTypeOK, CountersAgree, [Next]_vars
    PROVE  HealthTypeOK' /\ CountersAgree'
<1>1. (orchestrator \in Outages \cup {"up"})'
  BY DEF HealthTypeOK, Next, vars, Probing, Start, Stop, JoinReturns, LoopExits, Send,
         Answered, Unanswered, Breaks, Update, Turn, Tick
<1> QED
  BY <1>1, ControlStep, CountersStep DEF HealthTypeOK, ControlTypeOK, CountersTypeOK

(* Every variable stays in its domain, for any number of probing threads. *)
THEOREM HealthTyped == Spec => []HealthTypeOK
<1>1. Init => HealthTypeOK /\ CountersAgree
  BY HealthAssumption, HealthInit
<1>2. HealthTypeOK /\ CountersAgree /\ [Next]_vars => HealthTypeOK' /\ CountersAgree'
  BY HealthAssumption, HealthStep
<1> QED
  BY <1>1, <1>2, PTL DEF Spec

(***************************************************************************)
(* The counters of _update_state() agree with its state, however many      *)
(* threads probe and in whatever order their results are applied.          *)
(***************************************************************************)
THEOREM CountersAlwaysAgree == Spec => []CountersAgree
<1>1. Init => HealthTypeOK /\ CountersAgree
  BY HealthAssumption, HealthInit
<1>2. HealthTypeOK /\ CountersAgree /\ [Next]_vars => HealthTypeOK' /\ CountersAgree'
  BY HealthAssumption, HealthStep
<1> QED
  BY <1>1, <1>2, PTL DEF Spec

-----------------------------------------------------------------------------
(* Recoveries are earned when the loop is the only thread that probes.     *)

(***************************************************************************)
(* Every recovery counted since the last failure is a probe answered since *)
(* the last one that failed; an answer not yet applied is one more.  While *)
(* a failure is not yet applied nothing can be said.                       *)
(***************************************************************************)
RecoveriesEarned ==
    /\ probe["loop"] \in {"none", "sent"} => recoveries <= streak
    /\ probe["loop"] = "ok" => recoveries <= streak /\ (recoveries < Recovery => recoveries < streak)

LEMMA EarnedStep ==
    ASSUME HealthAssumption, Askers = {}, HealthTypeOK, RecoveriesEarned, [Next]_vars
    PROVE  RecoveriesEarned'
<1>0. /\ Probers = {"loop"}
      /\ recoveries \in 0 .. Recovery /\ streak \in 0 .. Recovery
      /\ probe \in [Probers -> {"none", "sent", "ok", "bad"}]
  BY DEF HealthTypeOK, Probers
<1>1. CASE Send("loop")
  BY <1>0, <1>1, Caps DEF Send, Ready, counters, history, RecoveriesEarned
<1>2. CASE Answered("loop")
  BY <1>0, <1>2, Caps DEF Answered, counters, Least, RecoveriesEarned
<1>3. CASE Unanswered("loop")
  BY <1>0, <1>3 DEF Unanswered, RecoveriesEarned
<1>4. CASE Breaks("loop")
  BY <1>0, <1>4 DEF Breaks, counters, history, RecoveriesEarned
<1>5. CASE Update("loop")
  <2>1. UNCHANGED streak /\ probe'["loop"] = "none"
    BY <1>0, <1>5 DEF Update, history
  <2>2. CASE OnFailure /\ probe["loop"] = "bad"
    BY <1>0, <2>1, <2>2 DEF OnFailure, RecoveriesEarned
  <2>3. CASE OnSuccess /\ probe["loop"] = "ok"
    <3>1. recoveries' = IF recoveries + 1 < Recovery THEN recoveries + 1 ELSE Recovery
      BY <2>3 DEF OnSuccess, Least
    <3>2. recoveries' <= streak
      BY <1>0, <2>3, <3>1, Caps DEF RecoveriesEarned
    <3> QED
      BY <2>1, <3>2 DEF RecoveriesEarned
  <2> QED
    BY <1>5, <2>2, <2>3 DEF Update
<1>6. CASE UNCHANGED <<probe, recoveries, streak>>
  BY <1>6 DEF RecoveriesEarned
<1> QED
  BY <1>0, <1>1, <1>2, <1>3, <1>4, <1>5, <1>6
     DEF Next, vars, counters, history, Probing, Start, Stop, JoinReturns, LoopExits, Turn, Tick

LEMMA EarnedNow ==
    ASSUME HealthAssumption, Askers = {}, HealthTypeOK, CountersAgree, RecoveriesEarned,
           [Next]_vars, health = "down", health' = "healthy"
    PROVE  streak >= Recovery
<1>1. Probers = {"loop"}
  BY DEF Probers
<1>2. Update("loop")
  BY <1>1 DEF Next, vars, counters, Probing, Start, Stop, JoinReturns, LoopExits,
              Send, Answered, Unanswered, Breaks, Turn, Tick
<1>3. OnSuccess /\ probe["loop"] = "ok"
  BY <1>2 DEF Update, OnFailure
<1>4. recoveries + 1 >= Recovery /\ recoveries < Recovery
  BY <1>3, Caps DEF OnSuccess, CountersAgree, HealthTypeOK
<1> QED
  BY <1>3, <1>4, Caps DEF RecoveriesEarned, HealthTypeOK

(***************************************************************************)
(* With the loop as the only prober, DOWN turns into HEALTHY only after    *)
(* Recovery answered probes in a row, whatever is stopped, started again   *)
(* or broken off meanwhile.                                                *)
(***************************************************************************)
THEOREM RecoveryIsEarned == Askers = {} => (Spec => EarnedRecovery)
<1> SUFFICES ASSUME Askers = {} PROVE Spec => EarnedRecovery
  OBVIOUS
<1>1. Init => HealthTypeOK /\ CountersAgree /\ RecoveriesEarned
  <2>1. Init => RecoveriesEarned
    BY DEF Init, RecoveriesEarned, Probers
  <2> QED
    BY <2>1, HealthAssumption, HealthInit
<1>2. HealthTypeOK /\ CountersAgree /\ RecoveriesEarned /\ [Next]_vars
        => HealthTypeOK' /\ CountersAgree' /\ RecoveriesEarned'
  BY HealthAssumption, HealthStep, EarnedStep
<1>3. HealthTypeOK /\ CountersAgree /\ RecoveriesEarned /\ [Next]_vars
        => [health = "down" /\ health' = "healthy" => streak >= Recovery]_vars
  BY HealthAssumption, EarnedNow
<1> QED
  BY <1>1, <1>2, <1>3, PTL DEF Spec, EarnedRecovery

-----------------------------------------------------------------------------
(***************************************************************************)
(* Why the loop is slow to say DOWN.  While nobody else probes and nobody  *)
(* stops the loop, a failure on record is an interval older than the next  *)
(* probe, so the k-th is k - 1 intervals older than the first; and unless  *)
(* an answer waits to be applied, none came since the oldest on record.    *)
(***************************************************************************)
OneLoop ==
    /\ ~ stopping
    /\ ~ loop => probe["loop"] = "none"

Spaced ==
    /\ \A k \in 1 .. Threshold :
          failures[k] < Window => failures[k] >= failures[1] + (k - 1) * Interval
    /\ \/ failures[1] >= Window \/ failures[1] >= Interval
       \/ loop /\ probe["loop"] = "none" /\ failures[1] >= timer["loop"]

SilentSince ==
    probe["loop"] # "ok" =>
        \A k \in 1 .. Threshold :
            failures[k] < Window => quiet >= Silence \/ quiet >= failures[k]

SlowInv == OneLoop /\ Spaced /\ SilentSince

LEMMA SlowInit ==
    ASSUME HealthAssumption, Init
    PROVE  SlowInv
<1>1. /\ \A k \in 1 .. Threshold : failures[k] = Window
      /\ 1 \in 1 .. Threshold /\ Window \in Nat
  BY Caps DEF Init, NoFailure
<1> QED
  BY <1>1 DEF Init, SlowInv, OneLoop, Spaced, SilentSince, Probers

(* The ages are numbers. *)
LEMMA Ages ==
    ASSUME HealthAssumption, HealthTypeOK
    PROVE  /\ Threshold \in Nat \ {0} /\ Window \in Nat \ {0} /\ Interval \in Nat \ {0}
           /\ Silence \in Nat /\ Longest \in Nat \ {0} /\ Interval <= Longest
           /\ \A k \in 1 .. Threshold : failures[k] \in 0 .. Window
           /\ 1 \in 1 .. Threshold
           /\ timer["loop"] \in 0 .. Longest /\ quiet \in 0 .. Silence
           /\ "loop" \in Probers /\ "loop" \in Timed /\ "owner" \in Timed
<1>1. "loop" \in Probers /\ "loop" \in Timed /\ "owner" \in Timed
  BY DEF Probers, Timed
<1>2. /\ Threshold \in Nat \ {0} /\ Window \in Nat \ {0} /\ Interval \in Nat \ {0}
      /\ Silence \in Nat /\ Longest \in Nat \ {0} /\ Interval <= Longest
  BY Caps
<1>3. \A k \in 1 .. Threshold : failures[k] \in 0 .. Window
  BY DEF HealthTypeOK
<1>4. timer["loop"] \in 0 .. Longest /\ quiet \in 0 .. Silence
  BY <1>1 DEF HealthTypeOK
<1>5. 1 \in 1 .. Threshold
  BY <1>2
<1> QED
  BY <1>1, <1>2, <1>3, <1>4, <1>5

LEMMA SlowFailure ==
    ASSUME HealthAssumption, HealthTypeOK, CountersAgree, SlowInv, Update("loop"),
           probe["loop"] = "bad", OnFailure
    PROVE  /\ SlowInv'
           /\ health' = "down" => quiet >= Silence
<1>1. /\ failures' = [k \in 1 .. Threshold |-> IF k = 1 THEN 0 ELSE failures[k - 1]]
      /\ health' = "down" => failures'[Threshold] < Window
      /\ probe' = [probe EXCEPT !["loop"] = "none"] /\ timer' = [timer EXCEPT !["loop"] = 0]
      /\ UNCHANGED <<loop, stopping, quiet>>
  BY DEF Update, OnFailure, owner, history
<1>2. probe'["loop"] = "none" /\ timer'["loop"] = 0
  BY <1>1, Ages DEF HealthTypeOK
<1>3. loop /\ (failures[1] >= Window \/ failures[1] >= Interval)
  BY DEF SlowInv, OneLoop, Spaced
<1>4. /\ failures'[1] = 0
      /\ \A k \in 1 .. Threshold : k # 1 => k - 1 \in 1 .. Threshold /\ failures'[k] = failures[k - 1]
  BY <1>1, Ages
<1>5. \A k \in 1 .. Threshold : failures[1] <= failures[k]
  <2>1. \A k \in 1 .. Threshold : k = 1 \/ 1 < k
    BY Ages
  <2> QED
    BY <2>1, Ages DEF CountersAgree
(* A failure on record is as many intervals old as the one now is newer. *)
<1>6. ASSUME NEW k \in 1 .. Threshold, k # 1, failures'[k] < Window
      PROVE  failures'[k] >= (k - 1) * Interval
  <2> DEFINE j == k - 1
  <2>1. j \in 1 .. Threshold /\ failures'[k] = failures[j] /\ failures[j] < Window
    BY <1>4, <1>6
  <2>2. failures[1] >= Interval
    BY <1>3, <1>5, <2>1, Ages
  <2>3. failures[j] >= failures[1] + (j - 1) * Interval
    BY <2>1 DEF SlowInv, Spaced
  <2>4. (j - 1) * Interval \in Int /\ Interval + (j - 1) * Interval = j * Interval /\ j * Interval \in Int
    BY <2>1, Ages
  <2>5. failures[j] >= j * Interval
    <3>1. failures[1] \in Int /\ failures[j] \in Int /\ Interval \in Int
      BY <2>1, Ages
    <3> HIDE DEF j
    <3> QED
      BY <2>2, <2>3, <2>4, <3>1
  <2> QED
    BY <2>1, <2>5
<1>7. Spaced'
  <2>1. ASSUME NEW k \in 1 .. Threshold, failures'[k] < Window
        PROVE  failures'[k] >= failures'[1] + (k - 1) * Interval
    <3>1. (k - 1) * Interval \in Int
      BY Ages
    <3>2. CASE k = 1
      <4>1. (k - 1) * Interval = 0
        BY <3>2, Ages
      <4>2. failures'[k] = 0 /\ failures'[1] = 0
        BY <1>4, <3>2
      <4> QED
        BY <4>1, <4>2
    <3>3. CASE k # 1
      BY <1>4, <1>6, <2>1, <3>1, <3>3
    <3> QED
      BY <3>2, <3>3
  <2>2. loop' /\ probe'["loop"] = "none" /\ failures'[1] >= timer'["loop"]
    BY <1>1, <1>2, <1>3, <1>4
  <2> QED
    BY <2>1, <2>2 DEF Spaced
<1>8. SilentSince'
  <2>1. \A k \in 1 .. Threshold : failures[k] < Window => quiet >= Silence \/ quiet >= failures[k]
    BY DEF SlowInv, SilentSince
  <2>2. quiet >= 0
    BY Ages
  <2> QED
    BY <1>1, <1>4, <2>1, <2>2 DEF SilentSince
<1>9. OneLoop'
  BY <1>1, <1>3, <1>2 DEF SlowInv, OneLoop
<1>10. ASSUME health' = "down"
       PROVE  quiet >= Silence
  <2>1. Threshold \in 1 .. Threshold /\ failures'[Threshold] < Window
    BY <1>1, <1>10, Ages
  <2>2. Silence <= (Threshold - 1) * Interval /\ (Threshold = 1 => Silence <= 0)
    BY Ages DEF Silence, Least
  <2>3. CASE Threshold = 1
    BY <2>2, <2>3, Ages
  <2>4. CASE Threshold # 1
    <3>1. failures'[Threshold] >= Silence
      <4>1. failures'[Threshold] >= (Threshold - 1) * Interval
        BY <1>6, <2>1, <2>4
      <4>2. (Threshold - 1) * Interval \in Int /\ failures'[Threshold] \in Int
        BY <1>4, <2>1, <2>4, Ages
      <4> QED
        BY <2>2, <4>1, <4>2, Ages
    <3>2. quiet >= Silence \/ quiet >= failures'[Threshold]
      BY <1>4, <2>1, <2>4 DEF SlowInv, SilentSince
    <3>3. failures'[Threshold] \in Int
      BY <1>4, <2>1, <2>4, Ages
    <3> QED
      BY <3>1, <3>2, <3>3, Ages
  <2> QED
    BY <2>3, <2>4
<1> QED
  BY <1>7, <1>8, <1>9, <1>10 DEF SlowInv

LEMMA SlowSuccess ==
    ASSUME HealthAssumption, HealthTypeOK, SlowInv, Update("loop"),
           probe["loop"] = "ok", OnSuccess
    PROVE  SlowInv'
<1>1. \A k \in 1 .. Threshold : failures'[k] = Window
  BY DEF OnSuccess, NoFailure
<1>2. UNCHANGED <<loop, stopping>> /\ probe'["loop"] = "none"
  BY Ages DEF Update, owner, HealthTypeOK
<1> QED
  BY <1>1, <1>2, Ages DEF SlowInv, OneLoop, Spaced, SilentSince

LEMMA SlowTick ==
    ASSUME HealthAssumption, HealthTypeOK, SlowInv, Tick
    PROVE  SlowInv'
<1>1. /\ \A k \in 1 .. Threshold : failures'[k] = Least(failures[k] + 1, Window)
      /\ timer'["loop"] = Least(timer["loop"] + 1, Longest)
      /\ quiet' = Least(quiet + 1, Silence)
      /\ UNCHANGED <<probe, loop, stopping>>
  BY Ages DEF Tick, owner
<1>2. \A k \in 1 .. Threshold :
         /\ failures'[k] < Window => failures'[k] = failures[k] + 1 /\ failures[k] < Window
         /\ failures'[k] <= failures[k] + 1
         /\ failures'[k] \in Int
  BY <1>1, Ages DEF Least
<1>3. ASSUME NEW k \in 1 .. Threshold, failures'[k] < Window
      PROVE  failures'[k] >= failures'[1] + (k - 1) * Interval
  <2>1. failures[k] >= failures[1] + (k - 1) * Interval
    BY <1>2, <1>3 DEF SlowInv, Spaced
  <2>2. (k - 1) * Interval \in Int
    BY Ages
  <2> QED
    BY <1>2, <1>3, <2>1, <2>2, Ages
<1>4. \/ failures'[1] >= Window \/ failures'[1] >= Interval
      \/ loop /\ probe["loop"] = "none" /\ failures'[1] >= timer'["loop"]
  BY <1>1, Ages DEF SlowInv, Spaced, Least
<1>5. SilentSince'
  BY <1>1, <1>2, Ages DEF SlowInv, SilentSince, Least
<1> QED
  BY <1>1, <1>3, <1>4, <1>5 DEF SlowInv, OneLoop, Spaced

LEMMA SlowStep ==
    ASSUME HealthAssumption, Askers = {}, ~ Stops, HealthTypeOK, CountersAgree, SlowInv, [Next]_vars
    PROVE  /\ SlowInv'
           /\ health # "down" /\ health' = "down" => quiet >= Silence
<1>0. Probers = {"loop"}
  BY DEF Probers
<1>1. CASE Update("loop")
  <2>1. \/ probe["loop"] = "bad" /\ OnFailure
        \/ probe["loop"] = "ok" /\ OnSuccess
    BY <1>1 DEF Update
  <2>2. OnSuccess => (health' = "down" => health = "down")
    BY DEF OnSuccess
  <2> QED
    BY <1>1, <2>1, <2>2, SlowFailure, SlowSuccess
<1>2. CASE Tick
  BY <1>2, SlowTick DEF Tick
<1>3. CASE Start
  <2>1. /\ UNCHANGED <<health, failures, probe, quiet>>
        /\ loop' /\ ~ stopping'
        /\ loop => timer' = timer
    BY <1>3 DEF Start, counters, history, SlowInv, OneLoop
  <2>2. OneLoop' /\ SilentSince'
    BY <2>1 DEF SlowInv, OneLoop, SilentSince
  <2>3. Spaced'
    BY <2>1 DEF SlowInv, OneLoop, Spaced
  <2> QED
    BY <2>1, <2>2, <2>3 DEF SlowInv
<1>4. CASE Send("loop")
  <2>1. /\ UNCHANGED <<health, failures, loop, stopping, quiet>>
        /\ probe'["loop"] = "sent" /\ probe["loop"] = "none" /\ loop
        /\ timer["loop"] >= Interval
    BY <1>4, Ages DEF Send, Ready, counters, history, owner, HealthTypeOK
  <2>2. failures[1] >= Window \/ failures[1] >= Interval
    BY <2>1, Ages DEF SlowInv, Spaced
  <2> QED
    BY <2>1, <2>2 DEF SlowInv, OneLoop, Spaced, SilentSince
<1>5. CASE Answered("loop") \/ Unanswered("loop")
  <2>1. /\ UNCHANGED <<health, failures, loop, stopping, timer>>
        /\ probe["loop"] = "sent" /\ probe'["loop"] \in {"ok", "bad"}
        /\ probe'["loop"] = "bad" => quiet' = quiet
    BY <1>5, Ages DEF Answered, Unanswered, counters, owner, HealthTypeOK
  <2> QED
    BY <2>1 DEF SlowInv, OneLoop, Spaced, SilentSince
<1>6. CASE Breaks("loop")
  <2>1. /\ UNCHANGED <<health, failures, stopping, timer, quiet>>
        /\ probe["loop"] = "sent" /\ probe'["loop"] = "none" /\ ~ loop'
    BY <1>6, Ages DEF Breaks, counters, owner, history, HealthTypeOK
  <2> QED
    BY <2>1 DEF SlowInv, OneLoop, Spaced, SilentSince
<1>7. CASE JoinReturns \/ (\E o \in Outages \cup {"up"} : Turn(o)) \/ UNCHANGED vars
  <2>1. UNCHANGED <<health, failures, probe, loop, stopping, timer, quiet>>
    BY <1>7 DEF JoinReturns, Turn, vars, counters, owner, history
  <2> QED
    BY <2>1 DEF SlowInv, OneLoop, Spaced, SilentSince
<1>8. ~ Stop /\ ~ LoopExits
  BY DEF Stop, LoopExits, SlowInv, OneLoop
<1> QED
  BY <1>0, <1>1, <1>2, <1>3, <1>4, <1>5, <1>6, <1>7, <1>8 DEF Next, Probing

(***************************************************************************)
(* SlowToDown, for every threshold, window and interval, however late the  *)
(* thread runs: when only the loop probes and nobody stops it.  Somebody   *)
(* who stops and starts it again makes it probe at once.                   *)
(***************************************************************************)
THEOREM LoopIsSlowToDown == Askers = {} /\ ~ Stops => (Spec => SlowToDown)
<1> SUFFICES ASSUME Askers = {}, ~ Stops PROVE Spec => SlowToDown
  OBVIOUS
<1> DEFINE Inv == HealthTypeOK /\ CountersAgree /\ SlowInv
           Slow == health # "down" /\ health' = "down" => quiet >= Silence
<1>1. Init => Inv
  BY HealthAssumption, HealthInit, SlowInit
<1>2. Inv /\ [Next]_vars => Inv'
  BY HealthAssumption, HealthStep, SlowStep
<1>3. Inv /\ [Next]_vars => Slow
  BY HealthAssumption, SlowStep
<1>4. Spec => [][Slow]_vars
  BY <1>1, <1>2, <1>3, PTL DEF Spec
<1> QED
  BY <1>4 DEF SlowToDown

-----------------------------------------------------------------------------
(* The failover takes steps of the checker, holds back its timers, or works *)
(* on worktrees only.                                                      *)
LEMMA StepsOfTheChecker ==
    ASSUME [FailoverNext]_allVars
    PROVE  \/ [Next]_vars
           \/ \E c \in Timed : Sweeping(c)
<1>1. CASE Health
  BY <1>1 DEF Health, Starts, LoopEnds, TimePasses, Watching, Next
<1>2. CASE StopSweeps
  BY <1>2 DEF StopSweeps, Next
<1>3. ASSUME NEW p \in Probers, Report(p)
      PROVE  Next
  BY <1>3 DEF Report, Next
<1>4. ASSUME NEW r \in Runners, Running(r)
      PROVE  UNCHANGED vars
  BY <1>4 DEF Running
<1>5. CASE UNCHANGED allVars
  BY <1>5 DEF allVars
<1> QED
  BY <1>1, <1>2, <1>3, <1>4, <1>5 DEF FailoverNext

(* A sweep sets the timer of its thread back and leaves the rest alone. *)
LEMMA SweepKeeps ==
    ASSUME HealthAssumption, HealthTypeOK, CountersAgree, NEW c \in Timed, Sweeping(c)
    PROVE  HealthTypeOK' /\ CountersAgree' /\ UNCHANGED <<counters, probe, streak>>
<1>1. UNCHANGED <<orchestrator, counters, probe, loop, owner, history>>
  BY DEF Sweeping
<1>2. timer' = [timer EXCEPT ![c] = 0]
  BY DEF Sweeping
<1>3. timer' \in [Timed -> 0 .. Longest]
  BY <1>2, Caps DEF HealthTypeOK
<1>4. ControlTypeOK' /\ CountersTypeOK'
  BY <1>1, <1>3, TypeParts DEF ControlTypeOK, CountersTypeOK, counters, owner, history
<1>5. (orchestrator \in Outages \cup {"up"})'
  BY <1>1 DEF HealthTypeOK
<1>6. HealthTypeOK'
  BY <1>4, <1>5 DEF HealthTypeOK, ControlTypeOK, CountersTypeOK
<1>7. CountersAgree'
  BY <1>1 DEF counters, CountersAgree
<1> QED
  BY <1>1, <1>6, <1>7 DEF history

LEMMA FailoverKeepsHealth ==
    ASSUME HealthAssumption, HealthTypeOK, CountersAgree, [FailoverNext]_allVars
    PROVE  HealthTypeOK' /\ CountersAgree'
BY StepsOfTheChecker, HealthStep, SweepKeeps

(* The mode is one of the two. *)
ModeTyped == mode \in {"normal", "autonomous"}

(* The callback of a checker that is DOWN after it leaves the mode         *)
(* autonomous; every other step leaves health and mode alone.              *)
LEMMA CallbackFollows ==
    ASSUME NEW p \in Probers, Report(p), ModeTyped, DownIsAutonomous
    PROVE  DownIsAutonomous' /\ ModeTyped'
<1>1. CASE health # "down" /\ health' = "down" /\ mode = "normal"
  BY <1>1 DEF Report, OnHealthChange, EnterAutonomous, ModeTyped, DownIsAutonomous
<1>2. CASE health = "down" /\ health' = "healthy" /\ mode = "autonomous"
  BY <1>2 DEF Report, OnHealthChange, BackToNormal, ModeTyped, DownIsAutonomous
<1>3. CASE /\ ~ (health # "down" /\ health' = "down" /\ mode = "normal")
           /\ ~ (health = "down" /\ health' = "healthy" /\ mode = "autonomous")
  <2>1. mode' = mode
    BY <1>3 DEF Report, OnHealthChange, failoverVars
  <2> QED
    BY <1>3, <2>1 DEF ModeTyped, DownIsAutonomous
<1> QED
  BY <1>1, <1>2, <1>3

LEMMA ModeFollows ==
    ASSUME ModeTyped, DownIsAutonomous, [FailoverNext]_allVars
    PROVE  DownIsAutonomous' /\ ModeTyped'
<1>1. ASSUME NEW p \in Probers, Report(p)
      PROVE  DownIsAutonomous' /\ ModeTyped'
  BY <1>1, CallbackFollows
<1>2. CASE UNCHANGED <<health, mode>>
  BY <1>2 DEF ModeTyped, DownIsAutonomous
<1>3. CASE Health
  BY <1>2, <1>3 DEF Health, Starts, LoopEnds, TimePasses, Watching, Apart, failoverVars, Probing,
                   Start, Stop, LoopExits, Send, Answered, Unanswered, Breaks, Turn, Tick,
                   counters
<1>4. CASE StopSweeps
  BY <1>2, <1>4 DEF StopSweeps, JoinReturns, counters, failoverVars
<1>5. ASSUME NEW c \in Timed, Sweeping(c)
      PROVE  UNCHANGED <<health, mode>>
  BY <1>5 DEF Sweeping, counters, failoverVars
<1>6. ASSUME NEW r \in Runners, Running(r)
      PROVE  UNCHANGED <<health, mode>>
  BY <1>6 DEF Running, vars, counters, failoverVars
<1>7. CASE UNCHANGED allVars
  BY <1>2, <1>7 DEF allVars, vars, counters, failoverVars
<1> QED
  BY <1>1, <1>2, <1>3, <1>4, <1>5, <1>6, <1>7 DEF FailoverNext

-----------------------------------------------------------------------------
(***************************************************************************)
(* The checker's counters agree with its state inside the failover too,    *)
(* where callbacks and cleanups delay the loop.                            *)
(***************************************************************************)
THEOREM FailoverCountersAgree == FailoverSpec => []CountersAgree
<1>1. FailoverInit => HealthTypeOK /\ CountersAgree
  BY HealthAssumption, HealthInit DEF FailoverInit
<1>2. HealthTypeOK /\ CountersAgree /\ [FailoverNext]_allVars => HealthTypeOK' /\ CountersAgree'
  BY HealthAssumption, FailoverKeepsHealth
<1> QED
  BY <1>1, <1>2, PTL DEF FailoverSpec

(***************************************************************************)
(* Whoever probes and whatever fails, while the orchestrator is DOWN the   *)
(* mode is autonomous: a failed write of the state file, an outage that    *)
(* returns during a cleanup or a stop() do not lose it.                    *)
(***************************************************************************)
THEOREM DownIsAutonomousAlways == FailoverSpec => []DownIsAutonomous
<1>1. FailoverInit => ModeTyped /\ DownIsAutonomous
  BY DEF FailoverInit, Init, ModeTyped, DownIsAutonomous
<1>2. ModeTyped /\ DownIsAutonomous /\ [FailoverNext]_allVars
        => ModeTyped' /\ DownIsAutonomous'
  BY ModeFollows
<1> QED
  BY <1>1, <1>2, PTL DEF FailoverSpec

(***************************************************************************)
(* Recoveries are earned inside the failover too, when only the loop       *)
(* probes.                                                                 *)
(***************************************************************************)
THEOREM FailoverRecoveryIsEarned == Askers = {} => (FailoverSpec => EarnedRecovery)
<1> SUFFICES ASSUME Askers = {} PROVE FailoverSpec => EarnedRecovery
  OBVIOUS
<1>1. FailoverInit => HealthTypeOK /\ CountersAgree /\ RecoveriesEarned
  <2>1. FailoverInit => RecoveriesEarned
    BY DEF FailoverInit, Init, RecoveriesEarned, Probers
  <2> QED
    BY <2>1, HealthAssumption, HealthInit DEF FailoverInit
<1>2. HealthTypeOK /\ CountersAgree /\ RecoveriesEarned /\ [FailoverNext]_allVars
        => /\ HealthTypeOK' /\ CountersAgree' /\ RecoveriesEarned'
           /\ [health = "down" /\ health' = "healthy" => streak >= Recovery]_vars
  <2> SUFFICES ASSUME HealthTypeOK, CountersAgree, RecoveriesEarned, [FailoverNext]_allVars
               PROVE  /\ HealthTypeOK' /\ CountersAgree' /\ RecoveriesEarned'
                      /\ health = "down" /\ health' = "healthy" => streak >= Recovery
    OBVIOUS
  <2>1. CASE [Next]_vars
    BY <2>1, HealthAssumption, HealthStep, EarnedStep, EarnedNow
  <2>2. ASSUME NEW c \in Timed, Sweeping(c)
        PROVE  /\ RecoveriesEarned'
               /\ health = "down" /\ health' = "healthy" => streak >= Recovery
    BY <2>2, HealthAssumption, SweepKeeps DEF counters, RecoveriesEarned
  <2> QED
    BY <2>1, <2>2, HealthAssumption, StepsOfTheChecker, FailoverKeepsHealth
<1> QED
  BY <1>1, <1>2, PTL DEF FailoverSpec, EarnedRecovery
(***************************************************************************)
(* The loop is slow to say DOWN inside the failover too: a callback that   *)
(* sweeps only makes it probe later.                                       *)
(***************************************************************************)
THEOREM FailoverIsSlowToDown == Askers = {} /\ ~ Stops => (FailoverSpec => SlowToDown)
<1> SUFFICES ASSUME Askers = {}, ~ Stops PROVE FailoverSpec => SlowToDown
  OBVIOUS
<1> DEFINE Inv == HealthTypeOK /\ CountersAgree /\ SlowInv
           Slow == health # "down" /\ health' = "down" => quiet >= Silence
<1>1. FailoverInit => Inv
  BY HealthAssumption, HealthInit, SlowInit DEF FailoverInit
<1>2. Inv /\ [FailoverNext]_allVars => Inv' /\ Slow
  <2> SUFFICES ASSUME HealthTypeOK, CountersAgree, SlowInv, [FailoverNext]_allVars
               PROVE  Inv' /\ Slow
    OBVIOUS
  <2>1. CASE [Next]_vars
    BY <2>1, HealthAssumption, HealthStep, SlowStep
  <2>2. ASSUME NEW c \in Timed, Sweeping(c)
        PROVE  Inv' /\ Slow
    <3>1. UNCHANGED <<health, failures, probe, loop, stopping, quiet>>
      BY <2>2 DEF Sweeping, counters, owner, history
    <3>2. timer'["loop"] = timer["loop"] \/ timer'["loop"] = 0
      BY <2>2, HealthAssumption, Ages DEF Sweeping, HealthTypeOK
    <3>3. failures[1] >= timer["loop"] => failures'[1] >= timer'["loop"]
      BY <3>1, <3>2, HealthAssumption, Ages
    <3>4. SlowInv'
      BY <3>1, <3>3 DEF SlowInv, OneLoop, Spaced, SilentSince
    <3> QED
      BY <2>2, <3>1, <3>4, HealthAssumption, SweepKeeps
  <2> QED
    BY <2>1, <2>2, StepsOfTheChecker
<1>3. FailoverSpec => [][Slow]_vars
  BY <1>1, <1>2, PTL DEF FailoverSpec
<1> QED
  BY <1>3 DEF SlowToDown
-----------------------------------------------------------------------------
(* The failover and the worktrees: what a failover does to the worktrees   *)
(* is what their manager does.                                             *)
LEMMA SweepIsCleanup ==
    ASSUME NEW c, Sweep(c)
    PROVE  UNCHANGED treeVars \/ Trees!CleanupAll(c)
BY DEF Sweep

LEMMA TreeSteps ==
    ASSUME [FailoverNext]_allVars
    PROVE  [Trees!Next]_treeVars
<1>1. CASE Health
  BY <1>1 DEF Health, Starts, LoopEnds, TimePasses, Watching, Apart
<1>2. CASE StopSweeps
  <2>1. "owner" \in Threads
    BY DEF Threads, Timed
  <2> QED
    BY <1>2, <2>1, SweepIsCleanup DEF StopSweeps, Trees!Next
<1>3. ASSUME NEW p \in Probers, Report(p)
      PROVE  [Trees!Next]_treeVars
  <2>1. p \in Threads
    BY DEF Threads, Timed
  <2>2. UNCHANGED treeVars \/ Sweep(p)
    BY <1>3 DEF Report, OnHealthChange, EnterAutonomous, BackToNormal
  <2> QED
    BY <2>1, <2>2, SweepIsCleanup DEF Trees!Next
<1>4. ASSUME NEW c \in Timed, Sweeping(c)
      PROVE  Trees!Next
  BY <1>4 DEF Sweeping, Threads, Trees!Next, Trees!Clearing
<1>5. ASSUME NEW r \in Runners, Running(r)
      PROVE  Trees!Next
  <2>1. PICK j \in Jobs : ExecuteTask(r, j) \/ Runs(r, j)
    BY <1>5 DEF Running
  <2>2. Trees!Creating(r, j) \/ Trees!Checking(r, j)
    BY <2>1 DEF ExecuteTask, Runs, Trees!Creating, Trees!Checking
  <2> QED
    BY <2>2 DEF Threads, Trees!Next
<1>6. CASE UNCHANGED allVars
  BY <1>6 DEF allVars
<1> QED
  BY <1>1, <1>2, <1>3, <1>4, <1>5, <1>6 DEF FailoverNext

(***************************************************************************)
(* Inside the failover, with its callbacks, runners and cleanups, the      *)
(* manager of the worktrees behaves as Worktrees says.                     *)
(***************************************************************************)
THEOREM FailoverUsesWorktrees == FailoverSpec => Trees!Spec
<1>1. FailoverInit => Trees!Init
  BY DEF FailoverInit
<1>2. [FailoverNext]_allVars => [Trees!Next]_(Trees!treesVars)
  <2>1. UNCHANGED treeVars => UNCHANGED Trees!treesVars
    BY DEF treeVars, Trees!treesVars, Trees!disk
  <2> QED
    BY <2>1, TreeSteps
<1> QED
  BY <1>1, <1>2, PTL DEF FailoverSpec, Trees!Spec

-----------------------------------------------------------------------------
(* While the orchestrator is DOWN no prober cleans up: a report waits for  *)
(* the locks, which the callback holds until its cleanup is over.          *)
NoSweep == health = "down" => \A p \in Probers : Idle(p)

LEMMA NoSweepStep ==
    ASSUME HealthAssumption, FailoverAssumption, NoSweep, DOMAIN call = Threads,
           [FailoverNext]_allVars
    PROVE  NoSweep'
<1> USE DEF NoSweep, Idle
<1>1. CASE UNCHANGED <<health, call>>
  BY <1>1 DEF Trees!Free
<1>2. CASE Health
  BY <1>1, <1>2 DEF Health, Starts, LoopEnds, TimePasses, Watching, Apart, treeVars, Probing,
                    Start, Stop, LoopExits, Send, Answered, Unanswered, Breaks, Turn, Tick, counters
<1>3. ASSUME NEW c \in Threads \ Probers, health' = health,
             \E v : call' = [call EXCEPT ![c] = v]
      PROVE  NoSweep'
  BY <1>3 DEF Trees!Free
<1>4. CASE StopSweeps
  <2>1. "owner" \in Threads \ Probers /\ health' = health
    BY <1>4 DEF StopSweeps, JoinReturns, counters, HealthAssumption, Threads, Timed, Probers
  <2>2. CASE UNCHANGED treeVars
    BY <1>1, <2>1, <2>2 DEF treeVars
  <2>3. CASE Trees!CleanupAll("owner")
    <3>1. \E v : call' = [call EXCEPT !["owner"] = v]
      BY <2>3 DEF Trees!CleanupAll, Trees!Enter
    <3> QED
      BY <1>3, <2>1, <3>1
  <2> QED
    BY <1>4, <2>2, <2>3, SweepIsCleanup DEF StopSweeps
<1>5. ASSUME NEW p \in Probers, Report(p), health' = "down"
      PROVE  NoSweep'
  <2>1. \A q \in Probers : Idle(q)
    BY <1>5 DEF Report, LocksFree
  <2>2. call' = call
    BY <1>5 DEF Report, OnHealthChange, EnterAutonomous, treeVars
  <2> QED
    BY <2>1, <2>2 DEF Trees!Free
<1>6. ASSUME NEW c \in Timed, Sweeping(c)
      PROVE  NoSweep'
  <2>1. PICK j \in Jobs : Trees!Cleaning(c, j) \/ Trees!Unlink(c, j) \/ Trees!Cleaned(c, j)
    BY <1>6 DEF Sweeping
  <2>2. call[c] # Trees!Free /\ \E v : call' = [call EXCEPT ![c] = v]
    BY <2>1 DEF Trees!Cleaning, Trees!Unlink, Trees!Cleaned, Trees!At, Trees!Step, Trees!Free
  <2>3. health' = health /\ c \in Threads
    BY <1>6 DEF Sweeping, counters, Threads
  <2> QED
    BY <1>3, <2>2, <2>3
<1>7. ASSUME NEW r \in Runners, Running(r)
      PROVE  NoSweep'
  <2>1. PICK j \in Jobs : ExecuteTask(r, j) \/ Runs(r, j)
    BY <1>7 DEF Running
  <2>2. \E v : call' = [call EXCEPT ![r] = v]
    BY <2>1 DEF ExecuteTask, Runs, Trees!Execute, Trees!Enter, Trees!RemoveOld, Trees!Add,
                Trees!AddRaises, Trees!Register, Trees!RunOk, Trees!RunFails, Trees!Validating,
                Trees!SyncOk, Trees!SyncRaises, Trees!Rejected, Trees!Passed, Trees!Step,
                Trees!Return
  <2>3. r \in Threads \ Probers /\ health' = health
    BY <1>7 DEF Running, vars, counters, FailoverAssumption, Threads, Timed
  <2> QED
    BY <1>3, <2>2, <2>3
<1>8. CASE UNCHANGED allVars
  BY <1>1, <1>8 DEF allVars, vars, counters, treeVars
<1> QED
  BY <1>2, <1>4, <1>5, <1>6, <1>7, <1>8 DEF FailoverNext

(* Only git worktree remove takes a worktree away. *)
LEMMA TakenAway ==
    ASSUME NoSweep, health = "down", [FailoverNext]_allVars, NEW j \in trees \ trees'
    PROVE  call["owner"].job = j \/ \E r \in Runners : Trees!At(r, "remove", j)
<1>1. CASE UNCHANGED treeVars
  BY <1>1 DEF treeVars
<1>2. CASE Health \/ UNCHANGED allVars
  BY <1>1, <1>2 DEF Health, Starts, LoopEnds, TimePasses, Watching, Apart, allVars
<1>3. ASSUME NEW c, Sweep(c)
      PROVE  trees' = trees
  BY <1>3, SweepIsCleanup DEF Trees!CleanupAll, Trees!Enter, Trees!disk, treeVars
<1>4. ~ StopSweeps
  BY <1>3 DEF StopSweeps
<1>5. ASSUME NEW p \in Probers, Report(p)
      PROVE  FALSE
  <2>1. UNCHANGED treeVars \/ Sweep(p)
    BY <1>5 DEF Report, OnHealthChange, EnterAutonomous, BackToNormal
  <2> QED
    BY <1>3, <2>1 DEF treeVars
<1>6. ASSUME NEW c \in Timed, Sweeping(c)
      PROVE  call["owner"].job = j
  <2>1. PICK k \in Jobs : Trees!Cleaning(c, k) \/ Trees!Unlink(c, k) \/ Trees!Cleaned(c, k)
    BY <1>6 DEF Sweeping
  <2>2. Trees!Unlink(c, k) /\ k = j
    BY <2>1 DEF Trees!Cleaning, Trees!Unlink, Trees!Cleaned, Trees!disk
  <2>3. call[c].step = "unlink" /\ call[c].job = j
    BY <2>2 DEF Trees!Unlink, Trees!At
  <2>4. ~ Idle(c)
    BY <2>3 DEF Idle, Trees!Free
  <2> QED
    BY <2>3, <2>4 DEF NoSweep, Timed
<1>7. ASSUME NEW r \in Runners, Running(r)
      PROVE  Trees!At(r, "remove", j)
  <2>1. PICK k \in Jobs : ExecuteTask(r, k) \/ Runs(r, k)
    BY <1>7 DEF Running
  <2>2. Trees!RemoveOld(r, k) /\ k = j
    BY <2>1 DEF ExecuteTask, Runs, Trees!Execute, Trees!Enter, Trees!RemoveOld, Trees!Add,
                Trees!AddRaises, Trees!Register, Trees!RunOk, Trees!RunFails, Trees!Validating,
                Trees!SyncOk, Trees!SyncRaises, Trees!Rejected, Trees!Passed, Trees!disk
  <2> QED
    BY <2>2 DEF Trees!RemoveOld
<1> QED
  BY <1>2, <1>4, <1>5, <1>6, <1>7 DEF FailoverNext

(* call keeps its domain. *)
LEMMA CallersStay ==
    ASSUME DOMAIN call = Threads, [FailoverNext]_allVars
    PROVE  DOMAIN call' = Threads
<1>1. CASE UNCHANGED treeVars
  BY <1>1 DEF treeVars
<1>2. ASSUME NEW c, NEW op, NEW step, NEW j, NEW todo, Trees!Enter(c, op, step, j, todo)
      PROVE  DOMAIN call' = Threads
  BY <1>2 DEF Trees!Enter
<1>3. ASSUME NEW c \in Threads, NEW j \in Jobs, Trees!Creating(c, j)
      PROVE  DOMAIN call' = Threads
  BY <1>2, <1>3 DEF Trees!Creating, Trees!Create, Trees!Execute, Trees!RemoveOld, Trees!Add,
     Trees!AddRaises, Trees!Register, Trees!RunOk, Trees!RunFails, Trees!Step, Trees!Return
<1>4. ASSUME NEW c \in Threads, NEW j \in Jobs, Trees!Checking(c, j)
      PROVE  DOMAIN call' = Threads
  BY <1>2, <1>4 DEF Trees!Checking, Trees!Validate, Trees!Validating, Trees!SyncOk,
     Trees!SyncRaises, Trees!Rejected, Trees!Passed, Trees!Step, Trees!Return
<1>5. ASSUME NEW c \in Threads, NEW j \in Jobs, Trees!Joining(c, j)
      PROVE  DOMAIN call' = Threads
  BY <1>2, <1>5 DEF Trees!Joining, Trees!Merge, Trees!Merging, Trees!CheckoutFails,
     Trees!Merged, Trees!MergeFails, Trees!Step, Trees!Return
<1>6. ASSUME NEW c \in Threads, NEW j \in Jobs, Trees!Clearing(c, j)
      PROVE  DOMAIN call' = Threads
  BY <1>2, <1>6 DEF Trees!Clearing, Trees!Cleanup, Trees!Cleaning, Trees!Unlink,
     Trees!Cleaned, Trees!Step
<1>7. ASSUME NEW c \in Threads, Trees!CleanupAll(c)
      PROVE  DOMAIN call' = Threads
  BY <1>2, <1>7 DEF Trees!CleanupAll
<1> QED
  BY <1>1, <1>3, <1>4, <1>5, <1>6, <1>7, TreeSteps DEF Trees!Next

(***************************************************************************)
(* While the orchestrator is DOWN a worktree disappears only by stop() or  *)
(* by executing its task again, for any number of probers, runners and     *)
(* tasks: a cleanup never reaches into the next outage.                    *)
(***************************************************************************)
THEOREM OutageKeepsTreesAlways == FailoverSpec => OutageKeepsTrees
<1> DEFINE Inv == NoSweep /\ DOMAIN call = Threads
<1>1. FailoverInit => Inv
  BY DEF FailoverInit, Init, Trees!Init, NoSweep
<1>2. Inv /\ [FailoverNext]_allVars => Inv'
  BY NoSweepStep, CallersStay, HealthAssumption, FailoverAssumption
<1>3. Inv /\ [FailoverNext]_allVars =>
         [health = "down" =>
            \A j \in trees \ trees' :
               call["owner"].job = j \/ \E r \in Runners : Trees!At(r, "remove", j)]_allVars
  BY TakenAway
<1> QED
  BY <1>1, <1>2, <1>3, PTL DEF FailoverSpec, OutageKeepsTrees
=============================================================================
