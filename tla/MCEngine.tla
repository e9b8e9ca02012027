------------------------------ MODULE MCEngine ------------------------------
(* The engine with a caller that takes its results, on the small         *)
(* configurations of Scenarios.                                             *)
EXTENDS Engine, Scenarios
=============================================================================
