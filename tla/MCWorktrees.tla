---------------------------- MODULE MCWorktrees -----------------------------
(***************************************************************************)
(* Small instances of Worktrees: one or two callers on one or two tasks,   *)
(* which are interchangeable.                                              *)
(***************************************************************************)
EXTENDS Worktrees, TLC

Symmetry == Permutations(Jobs) \cup Permutations(Threads)
=============================================================================
