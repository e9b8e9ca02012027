--------------------------- MODULE MCActionClient ---------------------------
(* Two workers, two configured actions and an unknown one, a queue of one.  *)
EXTENDS ActionClient

MCWorker == {"w1", "w2"}
MCAction == {"a", "b", "unknown"}
MCConfigured == {"a", "b"}
=============================================================================
