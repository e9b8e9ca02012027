------------------------------- MODULE Lists -------------------------------
(* A loop that keeps some elements of a slice, in their order.  SelectSeq   *)
(* would do for TLC; this form is one that the provers can reason about.    *)
EXTENDS SequencesExt

(* The elements of s that are in P.                                        *)
Kept(s, P) == FlattenSeq([i \in DOMAIN s |-> IF s[i] \in P THEN <<s[i]>> ELSE <<>>])
=============================================================================
