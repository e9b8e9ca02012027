------------------------------ MODULE MCBroker ------------------------------
(* The main loop, engine and forwarder together, on the small         *)
(* configurations of Scenarios.                                             *)
EXTENDS Broker, Scenarios
=============================================================================
