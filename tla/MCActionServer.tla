--------------------------- MODULE MCActionServer ---------------------------
(* Two connections of one user, and a queue that the second action finds    *)
(* full if the writer has not taken the first.                              *)
EXTENDS ActionServer

MCConn == {"c1", "c2"}
MCPeerUid == [c \in MCConn |-> 1000]
=============================================================================
