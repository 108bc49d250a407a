--------------------------- MODULE MCKnowledgeJobs ---------------------------
(***************************************************************************)
(* Small instances of KnowledgeJobs: jobs 1 and 2 archive one directory, 3 *)
(* another; 4 and 5 extract one file, 6 another.                           *)
(***************************************************************************)
EXTENDS KnowledgeJobs

Keys == <<"x", "x", "y", "z", "z", "w">>
MCKeyOf == [j \in Jobs |-> Keys[j]]
=============================================================================
