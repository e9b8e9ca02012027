---------------------------- MODULE ActionServer ----------------------------
(***************************************************************************)
(* action.Server: the socket that broadcasts action IDs to the clients of  *)
(* the allowed users, at most one connection per user.                     *)
(*                                                                         *)
(* The accept loop, one writer and one watcher goroutine per client, the   *)
(* main loop's Publish and shutdown interleave.  Sections under s.mu are   *)
(* one step; a step of a goroutine ends where it may block or be           *)
(* overtaken.  The peer is external: it connects, leaves, sends data that  *)
(* the protocol does not allow, and reads or does not read.                *)
(***************************************************************************)
EXTENDS Naturals, SequencesExt

CONSTANTS
    Conn,           \* connections, one *client object each
    Uid,
    PeerUid,        \* SO_PEERCRED of each connection
    Allowed,        \* s.allowed
    Action,
    NoConn,
    QueueSize,      \* capacity of client.queue
    MaxPublished    \* bound on the number of actions published

ASSUME ConnAssumption ==
    /\ PeerUid \in [Conn -> Uid]
    /\ Allowed \subseteq Uid
    /\ NoConn \notin Conn

ASSUME QueueAssumption == QueueSize \in Nat \ {0} /\ MaxPublished \in Nat

VARIABLES
    serve,      \* Serve: "starting", "accept", "add", "spawn", "returned"
    current,    \* the connection the accept loop is handling
    cancelled,  \* ctx is done
    clients,    \* s.clients
    conn,       \* "new", "dialed", "accepted", "open", "closed"
    queue,      \* client.queue, its buffered actions
    closes,     \* how often client.queue was closed
    writer,     \* writeClient: "none", "range", "write", "remove", "done"
    writing,    \* the action writeClient took from the queue
    watcher,    \* watchClient: "none", "read", "remove", "done"
    peer,       \* external: "up", "sent" (unexpected data), "gone"
    got,        \* external: what the peer has received
    log,        \* history: the actions published while registered
    published   \* number of actions published

serveVars == <<serve, current>>
goVars == <<writer, writing, watcher>>
peerVars == <<peer, got>>
serverVars == <<serveVars, cancelled, clients, conn, queue, closes, goVars, peerVars,
                log, published>>

ServerInit ==
    /\ serve = "starting" /\ current = NoConn /\ cancelled = FALSE
    /\ clients = [u \in Uid |-> NoConn]
    /\ conn = [c \in Conn |-> "new"]
    /\ queue = [c \in Conn |-> <<>>]
    /\ closes = [c \in Conn |-> 0]
    /\ writer = [c \in Conn |-> "none"]
    /\ writing = [c \in Conn |-> <<>>]
    /\ watcher = [c \in Conn |-> "none"]
    /\ peer = [c \in Conn |-> "up"]
    /\ got = [c \in Conn |-> <<>>]
    /\ log = [c \in Conn |-> <<>>]
    /\ published = 0

Registered(c) == clients[PeerUid[c]] = c

(* delete(s.clients, uid); close(c.queue); c.connection.Close(), for the    *)
(* clients in S.                                                           *)
Drop(S) ==
    /\ clients' = [u \in Uid |-> IF clients[u] \in S THEN NoConn ELSE clients[u]]
    /\ closes' = [c \in Conn |-> IF c \in S THEN closes[c] + 1 ELSE closes[c]]
    /\ conn' = [c \in Conn |-> IF c \in S THEN "closed" ELSE conn[c]]

-----------------------------------------------------------------------------
(* Serve                                                                   *)

(* removeSocket, listen and chmod succeed: Ready is closed.                *)
Listen ==
    /\ serve = "starting" /\ serve' = "accept"
    /\ UNCHANGED <<current, cancelled, clients, conn, queue, closes, goVars, peerVars,
                   log, published>>

(* AcceptUnix, peerUID and the check of the UID: a connection is rejected   *)
(* when its user is not allowed or the credentials cannot be read.          *)
Accept(c) ==
    /\ serve = "accept" /\ conn[c] = "dialed"
    /\ \/ /\ PeerUid[c] \in Allowed
          /\ serve' = "add" /\ current' = c
          /\ conn' = [conn EXCEPT ![c] = "accepted"]
       \/ /\ conn' = [conn EXCEPT ![c] = "closed"]
          /\ UNCHANGED serveVars
    /\ UNCHANGED <<cancelled, clients, queue, closes, goVars, peerVars, log, published>>

(* Mutant: the user's slot is taken over from an earlier connection.       *)
AddClientUnchecked ==
    /\ serve = "add"
    /\ clients' = [clients EXCEPT ![PeerUid[current]] = current]
    /\ conn' = [conn EXCEPT ![current] = "open"]
    /\ serve' = "spawn"
    /\ UNCHANGED <<current, cancelled, queue, closes, goVars, peerVars, log, published>>

(* addClient, and the rejection of a second connection of a user.          *)
AddClient ==
    /\ serve = "add"
    /\ IF clients[PeerUid[current]] # NoConn
         THEN /\ conn' = [conn EXCEPT ![current] = "closed"]
              /\ serve' = "accept" /\ current' = NoConn
              /\ UNCHANGED clients
         ELSE /\ clients' = [clients EXCEPT ![PeerUid[current]] = current]
              /\ conn' = [conn EXCEPT ![current] = "open"]
              /\ serve' = "spawn"
              /\ UNCHANGED current
    /\ UNCHANGED <<cancelled, queue, closes, goVars, peerVars, log, published>>

(* go s.writeClient(c); go s.watchClient(c).  A Publish may come first.    *)
Spawn ==
    /\ serve = "spawn"
    /\ writer' = [writer EXCEPT ![current] = "range"]
    /\ watcher' = [watcher EXCEPT ![current] = "read"]
    /\ serve' = "accept" /\ current' = NoConn
    /\ UNCHANGED <<cancelled, clients, conn, queue, closes, writing, peerVars, log, published>>

(* Mutant: the clients are left alone.                                     *)
CloseListenerOnly ==
    /\ conn' = [c \in Conn |-> IF conn[c] = "dialed" THEN "closed" ELSE conn[c]]
    /\ UNCHANGED <<clients, closes>>

(* AcceptUnix fails, because ctx closed the listener or by itself, or the   *)
(* start failed.  The deferred calls end the connections not yet accepted   *)
(* with the listener, and closeClients the others.                          *)
CloseClients ==
    /\ clients' = [u \in Uid |-> NoConn]
    /\ closes' = [c \in Conn |-> IF Registered(c) THEN closes[c] + 1 ELSE closes[c]]
    /\ conn' = [c \in Conn |->
                  IF Registered(c) \/ conn[c] = "dialed" THEN "closed" ELSE conn[c]]

ServeReturns ==
    /\ serve \in {"starting", "accept"} /\ serve' = "returned"
    /\ CloseClients
    /\ UNCHANGED <<current, cancelled, queue, goVars, peerVars, log, published>>

-----------------------------------------------------------------------------
(* Mutant: a full queue is appended to.                                    *)
PublishUnbounded(a) ==
    /\ published < MaxPublished
    /\ published' = published + 1
    /\ queue' = [c \in Conn |-> IF Registered(c) THEN Append(queue[c], a) ELSE queue[c]]
    /\ log' = [c \in Conn |-> IF Registered(c) THEN Append(log[c], a) ELSE log[c]]
    /\ UNCHANGED <<serveVars, cancelled, clients, conn, closes, goVars, peerVars>>

(* Mutant: a client with a full queue misses the action and stays.         *)
PublishSkips(a) ==
    /\ published < MaxPublished
    /\ published' = published + 1
    /\ queue' = [c \in Conn |-> IF Registered(c) /\ Len(queue[c]) < QueueSize
                                   THEN Append(queue[c], a) ELSE queue[c]]
    /\ log' = [c \in Conn |-> IF Registered(c) THEN Append(log[c], a) ELSE log[c]]
    /\ UNCHANGED <<serveVars, cancelled, clients, conn, closes, goVars, peerVars>>

(* Publish, called by the main loop: a client whose queue is full is        *)
(* dropped, nobody is waited for.                                          *)
Publish(a) ==
    /\ published < MaxPublished
    /\ published' = published + 1
    /\ LET full == {c \in Conn : Registered(c) /\ Len(queue[c]) = QueueSize}
           fits(c) == Registered(c) /\ c \notin full
       IN /\ queue' = [c \in Conn |-> IF fits(c) THEN Append(queue[c], a) ELSE queue[c]]
          /\ log' = [c \in Conn |-> IF Registered(c) THEN Append(log[c], a) ELSE log[c]]
          /\ Drop(full)
    /\ UNCHANGED <<serveVars, cancelled, goVars, peerVars>>

(* The context of the daemon is cancelled.                                 *)
Cancel ==
    /\ ~cancelled /\ cancelled' = TRUE
    /\ UNCHANGED <<serveVars, clients, conn, queue, closes, goVars, peerVars, log, published>>

-----------------------------------------------------------------------------
(* writeClient and watchClient                                             *)

(* range c.queue: the next buffered action, or the end of a closed queue.  *)
NextAction(c) ==
    /\ writer[c] = "range"
    /\ IF queue[c] # <<>>
         THEN /\ writing' = [writing EXCEPT ![c] = <<Head(queue[c])>>]
              /\ queue' = [queue EXCEPT ![c] = Tail(@)]
              /\ writer' = [writer EXCEPT ![c] = "write"]
         ELSE /\ closes[c] > 0
              /\ writer' = [writer EXCEPT ![c] = "remove"]
              /\ UNCHANGED <<queue, writing>>
    /\ UNCHANGED <<serveVars, cancelled, clients, conn, closes, watcher, peerVars, log,
                   published>>

(* connection.Write succeeds once the peer has room for the action; it     *)
(* fails when either end is closed.                                        *)
Write(c) ==
    /\ writer[c] = "write" /\ conn[c] = "open" /\ peer[c] # "gone"
    /\ got' = [got EXCEPT ![c] = @ \o writing[c]]
    /\ writing' = [writing EXCEPT ![c] = <<>>]
    /\ writer' = [writer EXCEPT ![c] = "range"]
    /\ UNCHANGED <<serveVars, cancelled, clients, conn, queue, closes, watcher, peer, log,
                   published>>

WriteFails(c) ==
    /\ writer[c] = "write" /\ (conn[c] = "closed" \/ peer[c] = "gone")
    /\ writer' = [writer EXCEPT ![c] = "remove"]
    /\ UNCHANGED <<serveVars, cancelled, clients, conn, queue, closes, writing, watcher,
                   peerVars, log, published>>

(* connection.Read returns: data, the end of the peer, or a closed socket. *)
ReadReturns(c) ==
    /\ watcher[c] = "read" /\ (conn[c] = "closed" \/ peer[c] # "up")
    /\ watcher' = [watcher EXCEPT ![c] = "remove"]
    /\ UNCHANGED <<serveVars, cancelled, clients, conn, queue, closes, writer, writing,
                   peerVars, log, published>>

(* Mutant: the client is dropped whoever holds the slot.                   *)
RemoveUnchecked(c) == Drop({c})

(* removeClient: only the client that holds the slot is dropped.           *)
RemoveClient(c) == Drop(IF Registered(c) THEN {c} ELSE {})

WriterRemoves(c) ==
    /\ writer[c] = "remove" /\ RemoveClient(c)
    /\ writer' = [writer EXCEPT ![c] = "done"]
    /\ UNCHANGED <<serveVars, cancelled, queue, writing, watcher, peerVars, log, published>>

(* Mutant: the watcher ends without removing its client.                   *)
WatcherLeaves(c) ==
    /\ watcher[c] = "remove"
    /\ watcher' = [watcher EXCEPT ![c] = "done"]
    /\ UNCHANGED <<serveVars, cancelled, clients, conn, closes, queue, writer, writing,
                   peerVars, log, published>>

WatcherRemoves(c) ==
    /\ watcher[c] = "remove" /\ RemoveClient(c)
    /\ watcher' = [watcher EXCEPT ![c] = "done"]
    /\ UNCHANGED <<serveVars, cancelled, queue, writer, writing, peerVars, log, published>>

-----------------------------------------------------------------------------
(* The peers                                                               *)
Dial(c) ==
    /\ conn[c] = "new" /\ serve \notin {"starting", "returned"}
    /\ conn' = [conn EXCEPT ![c] = "dialed"]
    /\ UNCHANGED <<serveVars, cancelled, clients, queue, closes, goVars, peerVars, log,
                   published>>

(* What the peer does once the server has closed its end makes no difference. *)
PeerEnds(c) ==
    /\ conn[c] \in {"dialed", "accepted", "open"} /\ peer[c] = "up"
    /\ \E s \in {"sent", "gone"} : peer' = [peer EXCEPT ![c] = s]
    /\ UNCHANGED <<serveVars, cancelled, clients, conn, queue, closes, goVars, got, log,
                   published>>

Goroutines(c) ==
    NextAction(c) \/ WriteFails(c) \/ ReadReturns(c) \/ WriterRemoves(c) \/ WatcherRemoves(c)

ServerNext ==
    \/ Listen
    \/ AddClient
    \/ Spawn
    \/ ServeReturns
    \/ Cancel
    \/ \E a \in Action : Publish(a)
    \/ \E c \in Conn : Accept(c) \/ Write(c) \/ Goroutines(c) \/ Dial(c) \/ PeerEnds(c)

ServerSpec == ServerInit /\ [][ServerNext]_serverVars

(* Runnable goroutines run.  A peer need not read, so Write may never       *)
(* succeed; the accept loop ends once the listener is closed.               *)
ServerFairness ==
    /\ WF_serverVars(AddClient)
    /\ WF_serverVars(Spawn)
    /\ WF_serverVars(cancelled /\ ServeReturns)
    /\ \A c \in Conn : WF_serverVars(Goroutines(c))

FairServerSpec == ServerSpec /\ ServerFairness

-----------------------------------------------------------------------------
(* Types of the server's state, and the capacity of the queues.             *)
ServerTypeOK ==
    /\ serve \in {"starting", "accept", "add", "spawn", "returned"}
    /\ current \in Conn \cup {NoConn}
    /\ cancelled \in BOOLEAN
    /\ clients \in [Uid -> Conn \cup {NoConn}]
    /\ conn \in [Conn -> {"new", "dialed", "accepted", "open", "closed"}]
    /\ queue \in [Conn -> Seq(Action)] /\ \A c \in Conn : Len(queue[c]) <= QueueSize
    /\ closes \in [Conn -> Nat]
    /\ writer \in [Conn -> {"none", "range", "write", "remove", "done"}]
    /\ writing \in [Conn -> Seq(Action)]
    /\ watcher \in [Conn -> {"none", "read", "remove", "done"}]
    /\ peer \in [Conn -> {"up", "sent", "gone"}]
    /\ got \in [Conn -> Seq(Action)]
    /\ log \in [Conn -> Seq(Action)]
    /\ published \in Nat

(* The writer, the watcher, a full queue and shutdown may all end a client:  *)
(* its queue is closed at most once, and Publish never sends on a closed    *)
(* one (both would panic).                                                  *)
NoChannelPanic ==
    \A c \in Conn : closes[c] <= 1 /\ (Registered(c) => closes[c] = 0)

(* "at most one active connection per authorized UID": an open connection   *)
(* is the one in its user's slot, and the slot holds only open connections  *)
(* of allowed users.                                                        *)
OneConnectionPerUid ==
    \A c \in Conn :
        /\ conn[c] = "open" <=> Registered(c)
        /\ conn[c] = "open" => PeerUid[c] \in Allowed

(* A client receives what was published while it was registered, in order   *)
(* and without gaps; what it misses it misses at the end, after it was      *)
(* dropped.                                                                 *)
InOrderNoGaps ==
    \A c \in Conn :
        /\ IsPrefix(got[c], log[c])
        /\ Registered(c) /\ writer[c] # "remove" =>
              got[c] \o writing[c] \o queue[c] = log[c]

(* A client that leaves or breaks the protocol gives up its user's slot.    *)
SlotFreed == \A c \in Conn : (Registered(c) /\ peer[c] # "up") ~> ~Registered(c)

(* Shutdown ends every connection and every goroutine of a client, even one *)
(* blocked in Write to a peer that does not read.                           *)
ShutdownEndsClients ==
    cancelled ~> \A c \in Conn :
        /\ conn[c] \in {"new", "closed"}
        /\ writer[c] \in {"none", "done"} /\ watcher[c] \in {"none", "done"}
=============================================================================
