----------------------------- MODULE MCPipeline -----------------------------
(***************************************************************************)
(* Small instances of Pipeline: a gate for one file and a fix without      *)
(* files; in some of them both for one file.                               *)
(***************************************************************************)
EXTENDS Pipeline

CONSTANTS r1, r2, f1, f2

MCMode  == [r \in Runs |-> IF r = r1 THEN "gate" ELSE "fix"]
MCGiven == [r \in Runs |-> IF r = r1 THEN {f1} ELSE {}]
MCSame  == [r \in Runs |-> {f1}]
=============================================================================
