--------------------------- MODULE MCAgentScheduler ---------------------------
(***************************************************************************)
(* Small instances of AgentScheduler: e1 and e2 are critical, e3 and e4    *)
(* normal; e3 and e4 belong to one agent.  One thread submits e3, e1 and   *)
(* e2, another e4.                                                         *)
(***************************************************************************)
EXTENDS AgentScheduler

CONSTANTS e1, e2, e3, e4

MCAgentOf == e1 :> "a1" @@ e2 :> "a2" @@ e3 :> "a3" @@ e4 :> "a3"
MCPriorityOf == e1 :> 0 @@ e2 :> 0 @@ e3 :> 2 @@ e4 :> 2
MCAfter == e3 :> None @@ e1 :> e3 @@ e2 :> e1 @@ e4 :> None
MCAgents == {"a1", "a2", "a3"}
=============================================================================
