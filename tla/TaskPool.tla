------------------------------ MODULE TaskPool -------------------------------
(***************************************************************************)
(* What TaskQueue promises to its callers: every operation is one atomic   *)
(* step on the columns status, assigned_to and retries, and the rows it    *)
(* changes are the ones its SELECT describes at the moment of the change.  *)
(* The implementation (TaskQueue) reads and writes in separate statements. *)
(***************************************************************************)
EXTENDS TaskTypes

VARIABLES status, assigned_to, retries

poolVars == <<status, assigned_to, retries>>

With(S)     == {t \in Tasks : status[t] \in S}
HeldBy(n)   == {t \in With(Active) : assigned_to[t] = n}
PausedBy(n) == {t \in With({"paused"}) : assigned_to[t] = n}

(* Own tasks of the node first; the whole pool when it has none. *)
Offered(node) ==
    LET own == {t \in With(Claimable) : NodeOf[t] = node}
    IN  IF node # NoOne /\ own # {} THEN own ELSE With(Claimable)

Init ==
    /\ status = [t \in Tasks |-> "none"]
    /\ assigned_to = [t \in Tasks |-> NoOne]
    /\ retries = [t \in Tasks |-> 0]

Move(S, from, to) ==
    /\ S \subseteq With(from)
    /\ status' = Put(status, S, to)
    /\ UNCHANGED retries

Free(S, from) ==
    /\ Move(S, from, "pending")
    /\ assigned_to' = Put(assigned_to, S, NoOne)

Take(t, agent) ==
    /\ Move({t}, Claimable, "assigned")
    /\ assigned_to' = Put(assigned_to, {t}, agent)

Fail(t, require_human) ==
    /\ t \in With(Active)
    /\ retries' = Put(retries, {t}, retries[t] + 1)
    /\ status' = Put(status, {t}, FailedStatus(t, retries[t] + 1, require_human))
    /\ UNCHANGED assigned_to

(* Steps of one task that leave its owner alone. *)
Advance(t) ==
    /\ \/ Move({t}, {"none"}, "pending")
       \/ Move({t}, {"assigned"}, "in_progress")
       \/ Move({t}, {"in_progress", "review"}, "done")
       \/ Move({t}, {"in_progress"}, "review")
       \/ Move({t}, Active, "paused")
    /\ UNCHANGED assigned_to

Resume(t, name) ==
    /\ Move({t}, {"paused"}, "assigned")
    /\ assigned_to' = Put(assigned_to, {t}, name)

ClaimNext(agent, node) == \E t \in Tasks : First(t, Offered(node)) /\ Take(t, agent)
ReleaseNode(node)      == Free(HeldBy(node), Active)
ReleasePaused(node)    == Free(PausedBy(node), {"paused"})
ParkNode(node)         == Move(HeldBy(node), Active, "paused") /\ UNCHANGED assigned_to

(* recover_stale: the pool has no clock, so any set of active tasks. *)
Recover(S) == Free(S, Active)

Next ==
    \/ \E t \in Tasks :
          \/ Advance(t)
          \/ \E a \in Agents : Take(t, a)
          \/ \E h \in BOOLEAN : Fail(t, h)
          \/ \E n \in Names \cup {NoOne} : Resume(t, n)
    \/ \E a \in Agents, n \in Nodes \cup {NoOne} : ClaimNext(a, n)
    \/ \E n \in Nodes : ReleaseNode(n) \/ ReleasePaused(n) \/ ParkNode(n)
    \/ \E S \in SUBSET With(Active) : Recover(S)

Spec == Init /\ [][Next]_poolVars
=============================================================================
