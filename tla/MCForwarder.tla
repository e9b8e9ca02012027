----------------------------- MODULE MCForwarder -----------------------------
(* Two keyboards, the tap owner and one held remap share three keys.        *)
EXTENDS Forwarder, TLC

CONSTANTS k1, k2, tap, h1, none, shift, x, y, SHIFT, act

MCCanonical == shift :> SHIFT @@ x :> x @@ y :> y
MCSources == <<[keys |-> {SHIFT, x}, mode |-> "tap", target |-> y, bindings |-> <<>>]>>
MCSymmetry == Permutations({k1, k2})
=============================================================================
