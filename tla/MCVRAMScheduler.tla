--------------------------- MODULE MCVRAMScheduler ---------------------------
(***************************************************************************)
(* Small instances of VRAMScheduler: two requests, one of which needs all  *)
(* the memory, and a boot service.                                         *)
(***************************************************************************)
EXTENDS VRAMScheduler, TLC

CONSTANTS r1, r2, b1

MCNeed == r1 :> 1 @@ r2 :> 2 @@ b1 :> 1

(* Pick() is SelectSeq(), on short lists. *)
ASSUME PickIsSelectSeq ==
    \A n \in 0..4 : \A s \in [1..n -> 1..3], keep \in SUBSET (1..3) :
        Pick(s, {i \in 1..n : s[i] \in keep}) = SelectSeq(s, LAMBDA e : e \in keep)
=============================================================================
