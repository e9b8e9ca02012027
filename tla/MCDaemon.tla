------------------------------ MODULE MCDaemon ------------------------------
(* The kernel numbers input devices afresh, so no DEVPATH comes back.       *)
EXTENDS Daemon

MCDevPathOf == [i \in Incarnation |-> i]
=============================================================================
