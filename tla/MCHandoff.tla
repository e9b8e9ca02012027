----------------------------- MODULE MCHandoff ------------------------------
(* Two keys that are alike; a queue that the third move overflows; a read   *)
(* that returns one frame and half of the next.                             *)
EXTENDS Handoff, TLC

KeySymmetry == Permutations(Key)
=============================================================================
