------------------------- MODULE ActionServerProofs -------------------------
(***************************************************************************)
(* Proofs about the action server, for any number of connections, users    *)
(* and actions and any capacity of the queues.                             *)
(*                                                                         *)
(* Neither property is inductive.  That a queue is closed at most once     *)
(* needs that a slot only holds an open connection of its own user, and    *)
(* that an open connection's queue was never closed; that the slot a new   *)
(* connection takes is free is known at the step that takes it only if the *)
(* connection being added is one that was accepted and is in no slot.      *)
(***************************************************************************)
EXTENDS ActionServer, SequenceLemmas

(* A slot belongs to the user of the connection in it.                     *)
SlotsOwned == \A u \in Uid : clients[u] # NoConn => PeerUid[clients[u]] = u

(* The queue of a connection is closed with the connection, once.          *)
ClosedOnce == \A c \in Conn : closes[c] <= 1 /\ (conn[c] # "closed" => closes[c] = 0)

(* What the accept loop knows of the connection it is handling.            *)
HandledAccepted ==
    /\ serve \in {"add", "spawn"} => current \in Conn
    /\ serve = "add" => conn[current] = "accepted" /\ PeerUid[current] \in Allowed

ServerInv ==
    /\ ServerTypeOK
    /\ SlotsOwned
    /\ OneConnectionPerUid
    /\ ClosedOnce
    /\ HandledAccepted

-----------------------------------------------------------------------------
(* The server starts without connections.                                  *)
LEMMA ServerInvInit == ServerInit => ServerInv
<1> SUFFICES ASSUME ServerInit PROVE ServerInv
  OBVIOUS
<1> USE ConnAssumption, QueueAssumption DEF ServerInit
<1>a. <<>> \in Seq(Action) /\ Len(<<>>) <= QueueSize
  OBVIOUS
<1>b. queue \in [Conn -> Seq(Action)] /\ \A c \in Conn : Len(queue[c]) <= QueueSize
  BY <1>a
<1>c. /\ writing \in [Conn -> Seq(Action)] /\ got \in [Conn -> Seq(Action)]
      /\ log \in [Conn -> Seq(Action)]
  BY <1>a
<1>1. ServerTypeOK
  BY <1>b, <1>c DEF ServerTypeOK
<1>2. SlotsOwned /\ OneConnectionPerUid
  BY DEF SlotsOwned, OneConnectionPerUid, Registered
<1>3. ClosedOnce /\ HandledAccepted
  BY DEF ClosedOnce, HandledAccepted
<1> QED
  BY <1>1, <1>2, <1>3 DEF ServerInv

(* Dropping clients that hold their slots keeps slots, connections and      *)
(* queues in agreement: the step removeClient and a full queue share.       *)
LEMMA DropInv ==
    ASSUME ServerInv, NEW S \in SUBSET Conn, \A c \in S : Registered(c), Drop(S)
    PROVE  /\ clients' \in [Uid -> Conn \cup {NoConn}]
           /\ conn' \in [Conn -> {"new", "dialed", "accepted", "open", "closed"}]
           /\ closes' \in [Conn -> Nat]
           /\ SlotsOwned' /\ OneConnectionPerUid' /\ ClosedOnce'
           /\ \A c \in Conn : conn[c] = "accepted" => conn'[c] = "accepted"
<1> USE ConnAssumption DEF ServerInv, ServerTypeOK, Drop, Registered
<1>1. /\ clients' \in [Uid -> Conn \cup {NoConn}]
      /\ conn' \in [Conn -> {"new", "dialed", "accepted", "open", "closed"}]
      /\ closes' \in [Conn -> Nat]
  OBVIOUS
<1>2. \A c \in S : conn[c] = "open" /\ closes[c] = 0
  BY DEF OneConnectionPerUid, ClosedOnce
<1>3. SlotsOwned'
  BY DEF SlotsOwned
<1>4. OneConnectionPerUid'
  BY <1>2 DEF OneConnectionPerUid, SlotsOwned
<1>5. ClosedOnce'
  BY <1>2 DEF ClosedOnce
<1>6. \A c \in Conn : conn[c] = "accepted" => conn'[c] = "accepted"
  BY <1>2
<1> QED
  BY <1>1, <1>3, <1>4, <1>5, <1>6

(* The rest of the invariant does not depend on clients and queues closed.  *)
LEMMA ServerInvStep == ServerInv /\ [ServerNext]_serverVars => ServerInv'
<1> SUFFICES ASSUME ServerInv, [ServerNext]_serverVars PROVE ServerInv'
  OBVIOUS
<1> USE ConnAssumption, QueueAssumption
<1>1. CASE Listen
  BY <1>1 DEF Listen, ServerInv, ServerTypeOK, SlotsOwned, OneConnectionPerUid,
              ClosedOnce, HandledAccepted, Registered, goVars, peerVars
<1>2. ASSUME NEW c \in Conn, Accept(c) PROVE ServerInv'
  <2> USE <1>2 DEF Accept, ServerInv, serveVars, goVars, peerVars
  <2>1. ServerTypeOK'
    BY DEF ServerTypeOK
  <2>2. SlotsOwned' /\ OneConnectionPerUid'
    BY DEF SlotsOwned, OneConnectionPerUid, Registered, ServerTypeOK
  <2>3. ClosedOnce' /\ HandledAccepted'
    BY DEF ClosedOnce, HandledAccepted, ServerTypeOK
  <2> QED
    BY <2>1, <2>2, <2>3
<1>3. CASE AddClient
  <2> USE <1>3 DEF AddClient, ServerInv, HandledAccepted, goVars, peerVars
  <2>1. ServerTypeOK'
    BY DEF ServerTypeOK
  <2>2. SlotsOwned'
    <3> SUFFICES ASSUME NEW u \in Uid, clients'[u] # NoConn PROVE PeerUid'[clients'[u]] = u
      BY DEF SlotsOwned
    <3>1. CASE clients[PeerUid[current]] # NoConn
      BY <3>1 DEF SlotsOwned
    <3>2. CASE clients[PeerUid[current]] = NoConn /\ u = PeerUid[current]
      BY <3>2 DEF ServerTypeOK
    <3>3. CASE clients[PeerUid[current]] = NoConn /\ u # PeerUid[current]
      BY <3>3 DEF SlotsOwned, ServerTypeOK
    <3> QED
      BY <3>1, <3>2, <3>3
  <2>3. OneConnectionPerUid'
    BY DEF SlotsOwned, OneConnectionPerUid, Registered, ServerTypeOK
  <2>4. ClosedOnce' /\ HandledAccepted'
    BY DEF ClosedOnce, ServerTypeOK
  <2> QED
    BY <2>1, <2>2, <2>3, <2>4
<1>4. CASE Spawn
  <2> USE <1>4 DEF Spawn, ServerInv, HandledAccepted, peerVars
  <2>1. ServerTypeOK'
    BY DEF ServerTypeOK
  <2>2. SlotsOwned' /\ OneConnectionPerUid' /\ ClosedOnce'
    BY DEF SlotsOwned, OneConnectionPerUid, ClosedOnce, Registered
  <2> QED
    BY <2>1, <2>2
<1>5. CASE ServeReturns
  <2> USE <1>5 DEF ServeReturns, CloseClients, ServerInv, goVars, peerVars
  <2>1. ServerTypeOK'
    BY DEF ServerTypeOK
  <2>2. SlotsOwned' /\ OneConnectionPerUid'
    BY DEF SlotsOwned, OneConnectionPerUid, Registered, ServerTypeOK
  <2>3. ClosedOnce' /\ HandledAccepted'
    BY DEF ClosedOnce, OneConnectionPerUid, HandledAccepted, ServerTypeOK
  <2> QED
    BY <2>1, <2>2, <2>3
<1>6. CASE Cancel
  BY <1>6 DEF Cancel, ServerInv, ServerTypeOK, SlotsOwned, OneConnectionPerUid,
              ClosedOnce, HandledAccepted, Registered, serveVars, goVars, peerVars
<1>7. ASSUME NEW a \in Action, Publish(a) PROVE ServerInv'
  <2> DEFINE full == {c \in Conn : Registered(c) /\ Len(queue[c]) = QueueSize}
  <2>1. Drop(full) /\ UNCHANGED <<serveVars, cancelled, goVars, peerVars>>
    BY <1>7 DEF Publish
  <2>2. /\ clients' \in [Uid -> Conn \cup {NoConn}]
        /\ conn' \in [Conn -> {"new", "dialed", "accepted", "open", "closed"}]
        /\ closes' \in [Conn -> Nat]
        /\ SlotsOwned' /\ OneConnectionPerUid' /\ ClosedOnce'
        /\ \A c \in Conn : conn[c] = "accepted" => conn'[c] = "accepted"
    BY <2>1, DropInv
  <2>3. queue' \in [Conn -> Seq(Action)] /\ \A c \in Conn : Len(queue'[c]) <= QueueSize
    BY <1>7 DEF Publish, ServerInv, ServerTypeOK
  <2>4. log' \in [Conn -> Seq(Action)] /\ published' \in Nat
    BY <1>7 DEF Publish, ServerInv, ServerTypeOK
  <2>5. ServerTypeOK'
    BY <2>1, <2>2, <2>3, <2>4 DEF ServerInv, ServerTypeOK, serveVars, goVars, peerVars
  <2>6. HandledAccepted'
    BY <2>1, <2>2 DEF ServerInv, HandledAccepted, serveVars
  <2> QED
    BY <2>2, <2>5, <2>6 DEF ServerInv
<1>8. ASSUME NEW c \in Conn, NextAction(c) PROVE ServerInv'
  <2>1. ServerTypeOK'
    <3> USE DEF NextAction, ServerInv, ServerTypeOK, serveVars, peerVars
    <3>1. CASE queue[c] # <<>>
      <4>1. Head(queue[c]) \in Action /\ Tail(queue[c]) \in Seq(Action)
            /\ Len(Tail(queue[c])) <= QueueSize
        BY <3>1
      <4>2. <<Head(queue[c])>> \in Seq(Action)
        BY <4>1
      <4>3. queue' \in [Conn -> Seq(Action)] /\ \A d \in Conn : Len(queue'[d]) <= QueueSize
        BY <1>8, <3>1, <4>1
      <4>4. writing' \in [Conn -> Seq(Action)]
        BY <1>8, <3>1, <4>2
      <4> QED
        BY <1>8, <3>1, <4>3, <4>4
    <3>2. CASE queue[c] = <<>>
      BY <1>8, <3>2
    <3> QED
      BY <3>1, <3>2
  <2>2. SlotsOwned' /\ OneConnectionPerUid' /\ ClosedOnce' /\ HandledAccepted'
    BY <1>8 DEF NextAction, ServerInv, SlotsOwned, OneConnectionPerUid, ClosedOnce,
                HandledAccepted, Registered, serveVars
  <2> QED
    BY <2>1, <2>2 DEF ServerInv
<1>9. ASSUME NEW c \in Conn, Write(c) \/ WriteFails(c) \/ ReadReturns(c) PROVE ServerInv'
  <2> USE <1>9 DEF Write, WriteFails, ReadReturns, serveVars, peerVars
  <2>1. ServerTypeOK'
    <3> USE DEF ServerInv, ServerTypeOK
    <3>1. CASE Write(c)
      <4>1. got[c] \o writing[c] \in Seq(Action) /\ <<>> \in Seq(Action)
        OBVIOUS
      <4>2. got' \in [Conn -> Seq(Action)]
        BY <3>1, <4>1
      <4>3. writing' \in [Conn -> Seq(Action)]
        BY <3>1, <4>1
      <4> QED
        BY <3>1, <4>2, <4>3
    <3>2. CASE WriteFails(c)
      BY <3>2
    <3>3. CASE ReadReturns(c)
      BY <3>3
    <3> QED
      BY <3>1, <3>2, <3>3
  <2>2. SlotsOwned' /\ OneConnectionPerUid' /\ ClosedOnce' /\ HandledAccepted'
    BY DEF ServerInv, SlotsOwned, OneConnectionPerUid, ClosedOnce, HandledAccepted, Registered
  <2> QED
    BY <2>1, <2>2 DEF ServerInv
<1>10. ASSUME NEW c \in Conn, WriterRemoves(c) \/ WatcherRemoves(c) PROVE ServerInv'
  <2> DEFINE S == IF Registered(c) THEN {c} ELSE {}
  <2>1. Drop(S)
    BY <1>10 DEF WriterRemoves, WatcherRemoves, RemoveClient
  <2>2. /\ clients' \in [Uid -> Conn \cup {NoConn}]
        /\ conn' \in [Conn -> {"new", "dialed", "accepted", "open", "closed"}]
        /\ closes' \in [Conn -> Nat]
        /\ SlotsOwned' /\ OneConnectionPerUid' /\ ClosedOnce'
        /\ \A d \in Conn : conn[d] = "accepted" => conn'[d] = "accepted"
    BY <2>1, DropInv
  <2>3. ServerTypeOK'
    BY <1>10, <2>2 DEF WriterRemoves, WatcherRemoves, ServerInv, ServerTypeOK, serveVars,
                       peerVars
  <2>4. HandledAccepted'
    BY <1>10, <2>2 DEF WriterRemoves, WatcherRemoves, ServerInv, HandledAccepted, serveVars
  <2> QED
    BY <2>2, <2>3, <2>4 DEF ServerInv
<1>11. ASSUME NEW c \in Conn, Dial(c) \/ PeerEnds(c) PROVE ServerInv'
  <2> USE <1>11 DEF Dial, PeerEnds, serveVars, goVars, peerVars
  <2>1. ServerTypeOK'
    BY DEF ServerInv, ServerTypeOK
  <2>2. SlotsOwned' /\ OneConnectionPerUid'
    BY DEF ServerInv, ServerTypeOK, SlotsOwned, OneConnectionPerUid, Registered
  <2>3. ClosedOnce' /\ HandledAccepted'
    BY DEF ServerInv, ServerTypeOK, ClosedOnce, HandledAccepted
  <2> QED
    BY <2>1, <2>2, <2>3 DEF ServerInv
<1>12. CASE UNCHANGED serverVars
  BY <1>12 DEF serverVars, serveVars, goVars, peerVars, ServerInv, ServerTypeOK, SlotsOwned,
               OneConnectionPerUid, ClosedOnce, HandledAccepted, Registered
<1> QED
  BY <1>1, <1>2, <1>3, <1>4, <1>5, <1>6, <1>7, <1>8, <1>9, <1>10, <1>11, <1>12
  DEF ServerNext, Goroutines

(* The invariant holds in every reachable state.                           *)
LEMMA ServerInvariant == ServerSpec => []ServerInv
<1> QED
  BY ServerInvInit, ServerInvStep, PTL DEF ServerSpec

-----------------------------------------------------------------------------
(* The server's state is well typed, and no queue exceeds its capacity.     *)
THEOREM ServerTypes == ServerSpec => []ServerTypeOK
<1>1. ServerInv => ServerTypeOK
  BY DEF ServerInv
<1> QED
  BY <1>1, ServerInvariant, PTL

(* addClient never admits a second connection of a user, nor one of a user *)
(* who is not allowed, however removals interleave with it.                *)
THEOREM ServerOneConnection == ServerSpec => []OneConnectionPerUid
<1>1. ServerInv => OneConnectionPerUid
  BY DEF ServerInv
<1> QED
  BY <1>1, ServerInvariant, PTL

(* Writer, watcher, Publish and closeClients never close a queue twice and *)
(* Publish never sends on a closed one: neither panic can be reached.       *)
THEOREM ServerNoPanic == ServerSpec => []NoChannelPanic
<1>1. ServerInv => NoChannelPanic
  BY DEF ServerInv, ClosedOnce, OneConnectionPerUid, NoChannelPanic
<1> QED
  BY <1>1, ServerInvariant, PTL

-----------------------------------------------------------------------------
(* What reaches a peer.  The actions of a connection are on their way: what  *)
(* the peer has, what the writer holds, what is queued.  They are the whole *)
(* log while the connection is registered and a prefix of it afterwards;    *)
(* a connection that was never registered has none.                         *)
OnTheWay(c) == got[c] \o (writing[c] \o queue[c])

FlowOf(c) ==
    /\ \E u \in Seq(Action) : log[c] = OnTheWay(c) \o u
    /\ Registered(c) => log[c] = OnTheWay(c)
    /\ writer[c] \in {"none", "range"} => writing[c] = <<>>
    /\ conn[c] \in {"new", "dialed", "accepted"} => log[c] = <<>>

Flow == \A c \in Conn : FlowOf(c)

(* The goroutines of a connection start once, after it was registered.      *)
NotYetStarted ==
    /\ \A c \in Conn : conn[c] \in {"new", "dialed", "accepted"} => writer[c] = "none"
    /\ serve = "spawn" => writer[current] = "none" /\ conn[current] \in {"open", "closed"}

LEMMA NotYetStartedInit == ServerInit => NotYetStarted
  BY DEF ServerInit, NotYetStarted

LEMMA NotYetStartedStep == ServerInv /\ NotYetStarted /\ [ServerNext]_serverVars => NotYetStarted'
<1> SUFFICES ASSUME ServerInv, NotYetStarted, [ServerNext]_serverVars PROVE NotYetStarted'
  OBVIOUS
<1> USE ConnAssumption DEF ServerInv, ServerTypeOK, NotYetStarted, HandledAccepted,
                           serveVars, goVars, peerVars
<1>1. ASSUME Listen \/ Cancel \/ UNCHANGED serverVars PROVE NotYetStarted'
  BY <1>1 DEF Listen, Cancel, serverVars
<1>2. ASSUME NEW c \in Conn, Accept(c) PROVE NotYetStarted'
  BY <1>2 DEF Accept
<1>3. CASE AddClient
  BY <1>3 DEF AddClient
<1>4. CASE Spawn
  BY <1>4 DEF Spawn
<1>5. CASE ServeReturns
  BY <1>5 DEF ServeReturns, CloseClients
<1>6. ASSUME NEW a \in Action, Publish(a) PROVE NotYetStarted'
  BY <1>6 DEF Publish, Drop
<1>7. ASSUME NEW c \in Conn, Write(c) \/ NextAction(c) \/ WriteFails(c) \/ ReadReturns(c)
      PROVE  NotYetStarted'
  BY <1>7 DEF Write, NextAction, WriteFails, ReadReturns
<1>8. ASSUME NEW c \in Conn, WriterRemoves(c) \/ WatcherRemoves(c) PROVE NotYetStarted'
  <2>1. \A d \in Conn : conn'[d] = conn[d] \/ conn'[d] = "closed"
    BY <1>8 DEF WriterRemoves, WatcherRemoves, RemoveClient, Drop
  <2>2. serve' = serve /\ current' = current
    BY <1>8 DEF WriterRemoves, WatcherRemoves
  <2>3. writer[c] = "remove" \/ writer' = writer
    BY <1>8 DEF WriterRemoves, WatcherRemoves
  <2>4. \A d \in Conn : writer'[d] = writer[d] \/ writer[d] = "remove"
    BY <1>8, <2>3 DEF WriterRemoves, WatcherRemoves
  <2> QED
    BY <2>1, <2>2, <2>4
<1>9. ASSUME NEW c \in Conn, Dial(c) \/ PeerEnds(c) PROVE NotYetStarted'
  BY <1>9 DEF Dial, PeerEnds
<1> QED
  BY <1>1, <1>2, <1>3, <1>4, <1>5, <1>6, <1>7, <1>8, <1>9 DEF ServerNext, Goroutines

(* The facts about concatenation for sequences of actions.                 *)
LEMMA Associative ==
    \A s, t, u \in Seq(Action) : (s \o t) \o u = s \o (t \o u)
  OBVIOUS

LEMMA Concatenated == \A s, t \in Seq(Action) : s \o t \in Seq(Action)
  OBVIOUS

(* Nothing is on the way to a connection whose log is empty.               *)
LEMMA NothingOnTheWay ==
    ASSUME ServerTypeOK, NEW c \in Conn, FlowOf(c), log[c] = <<>>
    PROVE  OnTheWay(c) = <<>>
<1> USE DEF ServerTypeOK
<1>1. PICK u \in Seq(Action) : log[c] = OnTheWay(c) \o u
  BY DEF FlowOf
<1>2. OnTheWay(c) \in Seq(Action)
  BY DEF OnTheWay
<1> HIDE DEF OnTheWay
<1> QED
  BY <1>1, <1>2, \A s, t \in Seq(Action) : s \o t = <<>> => s = <<>>

(* A step that leaves what is on the way alone, and registers only a        *)
(* connection that was just accepted.                                       *)
LEMMA FlowKept ==
    ASSUME ServerTypeOK, Flow, UNCHANGED <<log, got, writing, queue>>,
           \A c \in Conn : Registered(c)' => Registered(c) \/ conn[c] = "accepted",
           \A c \in Conn : conn'[c] \in {"new", "dialed", "accepted"} =>
                              conn[c] \in {"new", "dialed", "accepted"},
           \A c \in Conn : writer'[c] \in {"none", "range"} =>
                              writer[c] \in {"none", "range"}
    PROVE  Flow'
<1> SUFFICES ASSUME NEW c \in Conn PROVE FlowOf(c)'
  BY DEF Flow
<1>1. FlowOf(c) /\ OnTheWay(c)' = OnTheWay(c) /\ log'[c] = log[c]
  BY DEF Flow, OnTheWay
<1>2. Registered(c)' => log[c] = OnTheWay(c)
  BY <1>1, NothingOnTheWay DEF FlowOf
<1> QED
  BY <1>1, <1>2 DEF FlowOf

LEMMA FlowInit == ServerInit => Flow
<1> SUFFICES ASSUME ServerInit, NEW c \in Conn PROVE FlowOf(c)
  BY DEF Flow
<1>1. <<>> \in Seq(Action) /\ <<>> = <<>> \o (<<>> \o <<>>) /\ <<>> = <<>> \o <<>>
  OBVIOUS
<1>2. log[c] = <<>> /\ OnTheWay(c) = <<>> /\ writing[c] = <<>>
  BY <1>1 DEF ServerInit, OnTheWay
<1> QED
  BY <1>1, <1>2 DEF FlowOf

LEMMA FlowPublish ==
    ASSUME ServerInv, Flow, NEW a \in Action, Publish(a)
    PROVE  Flow'
<1> SUFFICES ASSUME NEW c \in Conn PROVE FlowOf(c)'
  BY DEF Flow
<1> DEFINE full == {d \in Conn : Registered(d) /\ Len(queue[d]) = QueueSize}
<1>1. /\ queue'[c] = IF Registered(c) /\ c \notin full THEN Append(queue[c], a) ELSE queue[c]
      /\ log'[c] = IF Registered(c) THEN Append(log[c], a) ELSE log[c]
      /\ Drop(full) /\ got' = got /\ writing' = writing /\ writer' = writer
  BY DEF Publish, ServerInv, ServerTypeOK, peerVars, goVars
<1>2. /\ got[c] \in Seq(Action) /\ writing[c] \in Seq(Action) /\ queue[c] \in Seq(Action)
      /\ log[c] \in Seq(Action) /\ <<a>> \in Seq(Action)
  BY DEF ServerInv, ServerTypeOK
<1>3. Registered(c)' => Registered(c) /\ c \notin full
  BY <1>1, ConnAssumption DEF Drop, Registered
<1>4. conn'[c] \in {"new", "dialed", "accepted"} => conn'[c] = conn[c] /\ ~Registered(c)
  BY <1>1 DEF Drop, ServerInv, ServerTypeOK, OneConnectionPerUid
<1>5. FlowOf(c)
  BY DEF Flow
<1>6. CASE Registered(c) /\ c \notin full
  <2>1. OnTheWay(c)' = got[c] \o (writing[c] \o (queue[c] \o <<a>>))
    BY <1>1, <1>2, <1>6, AppendIsConcat DEF OnTheWay
  <2>2. OnTheWay(c)' = OnTheWay(c) \o <<a>>
    <3>1. got[c] \in Seq(Action) /\ writing[c] \in Seq(Action) /\ queue[c] \in Seq(Action)
      BY <1>2
    <3>2. <<a>> \in Seq(Action)
      BY <1>2
    <3>3. writing[c] \o queue[c] \in Seq(Action)
      BY <3>1, Concatenated
    <3>4. (got[c] \o (writing[c] \o queue[c])) \o <<a>>
             = got[c] \o ((writing[c] \o queue[c]) \o <<a>>)
      BY <3>1, <3>2, <3>3, Associative, Zenon
    <3>5. (writing[c] \o queue[c]) \o <<a>> = writing[c] \o (queue[c] \o <<a>>)
      BY <3>1, <3>2, Associative, Zenon
    <3> QED
      BY <2>1, <3>4, <3>5, Zenon DEF OnTheWay
  <2>3. log'[c] = log[c] \o <<a>>
    BY <1>1, <1>2, <1>6, AppendIsConcat
  <2>4. log'[c] = OnTheWay(c)'
    BY <2>2, <2>3, <1>5, <1>6 DEF FlowOf
  <2>5. log'[c] = OnTheWay(c)' \o <<>> /\ <<>> \in Seq(Action)
    BY <2>3, <2>4, <1>2, ConcatType, ConcatEmpty
  <2> QED
    BY <2>4, <2>5, <1>1, <1>4, <1>5, <1>6 DEF FlowOf
<1>7. CASE Registered(c) /\ c \in full
  <2>1. OnTheWay(c)' = OnTheWay(c)
    BY <1>1, <1>7 DEF OnTheWay
  <2>2. log'[c] = OnTheWay(c)' \o <<a>>
    BY <2>1, <1>1, <1>2, <1>5, <1>7, AppendIsConcat DEF FlowOf
  <2> QED
    BY <2>2, <1>1, <1>2, <1>3, <1>4, <1>5, <1>7 DEF FlowOf
<1>8. CASE ~Registered(c)
  <2>1. OnTheWay(c)' = OnTheWay(c) /\ log'[c] = log[c]
    BY <1>1, <1>8 DEF OnTheWay
  <2> QED
    BY <2>1, <1>1, <1>3, <1>4, <1>5, <1>8 DEF FlowOf
<1> QED
  BY <1>6, <1>7, <1>8

LEMMA FlowNextAction ==
    ASSUME ServerInv, Flow, NEW d \in Conn, NextAction(d)
    PROVE  Flow'
<1> USE DEF ServerInv, ServerTypeOK
<1>1. CASE queue[d] = <<>>
  <2>1. /\ UNCHANGED <<log, got, writing, queue, conn, clients>>
        /\ writer' = [writer EXCEPT ![d] = "remove"]
    BY <1>1 DEF NextAction, peerVars
  <2> QED
    BY <2>1, FlowKept DEF Registered
<1>2. CASE queue[d] # <<>>
  <2> SUFFICES ASSUME NEW c \in Conn PROVE FlowOf(c)'
    BY DEF Flow
  <2>1. UNCHANGED <<log, got, conn, clients>>
    BY <1>2 DEF NextAction, peerVars
  <2>2. FlowOf(c)
    BY DEF Flow
  <2>3. OnTheWay(c)' = OnTheWay(c)
    <3>1. CASE c = d
      <4>1. writing[d] = <<>>
        BY <3>1, <2>2 DEF NextAction, FlowOf
      <4>2. writing'[d] = <<Head(queue[d])>> /\ queue'[d] = Tail(queue[d])
        BY <1>2 DEF NextAction
      <4>3. writing'[d] \o queue'[d] = queue[d] /\ writing[d] \o queue[d] = queue[d]
        BY <4>1, <4>2, <1>2, HeadTail, ConcatEmpty
      <4> QED
        BY <4>3, <3>1, <2>1 DEF OnTheWay
    <3>2. CASE c # d
      BY <3>2, <1>2 DEF NextAction, OnTheWay, peerVars
    <3> QED
      BY <3>1, <3>2
  <2>4. writer'[c] \in {"none", "range"} => writer'[c] = writer[c] /\ writing'[c] = writing[c]
    BY <1>2 DEF NextAction
  <2> QED
    BY <2>1, <2>2, <2>3, <2>4 DEF FlowOf, Registered
<1> QED
  BY <1>1, <1>2

LEMMA FlowWrite ==
    ASSUME ServerInv, Flow, NEW d \in Conn, Write(d)
    PROVE  Flow'
<1> USE DEF ServerInv, ServerTypeOK
<1> SUFFICES ASSUME NEW c \in Conn PROVE FlowOf(c)'
  BY DEF Flow
<1>1. UNCHANGED <<log, queue, conn, clients>>
  BY DEF Write
<1>2. FlowOf(c)
  BY DEF Flow
<1>3. OnTheWay(c)' = OnTheWay(c)
  <2>1. CASE c = d
    <3>1. got'[d] = got[d] \o writing[d] /\ writing'[d] = <<>> /\ queue'[d] = queue[d]
      BY DEF Write
    <3>2. writing'[d] \o queue'[d] = queue[d]
      BY <3>1, ConcatEmpty
    <3>3. got[d] \in Seq(Action) /\ writing[d] \in Seq(Action) /\ queue[d] \in Seq(Action)
      OBVIOUS
    <3>4. (got[d] \o writing[d]) \o queue[d] = got[d] \o (writing[d] \o queue[d])
      BY <3>3, Associative
    <3> QED
      BY <3>1, <3>2, <3>4, <2>1 DEF OnTheWay
  <2>2. CASE c # d
    BY <2>2 DEF Write, OnTheWay
  <2> QED
    BY <2>1, <2>2
<1>4. writer'[c] \in {"none", "range"} => c = d \/ writer'[c] = writer[c]
  BY DEF Write
<1>5. writer'[c] \in {"none", "range"} => writing'[c] = <<>>
  BY <1>2, <1>4 DEF Write, FlowOf
<1> QED
  BY <1>1, <1>2, <1>3, <1>5 DEF FlowOf, Registered

LEMMA FlowStep == ServerInv /\ NotYetStarted /\ Flow /\ [ServerNext]_serverVars => Flow'
<1> SUFFICES ASSUME ServerInv, NotYetStarted, Flow, [ServerNext]_serverVars PROVE Flow'
  OBVIOUS
<1>0. ServerTypeOK
  BY DEF ServerInv
<1> USE <1>0, ConnAssumption DEF serveVars, goVars, peerVars
<1>1. CASE Listen
  BY <1>1, FlowKept DEF Listen, Registered
<1>2. ASSUME NEW c \in Conn, Accept(c) PROVE Flow'
  BY <1>2, FlowKept DEF Accept, Registered, ServerTypeOK
<1>3. CASE AddClient
  <2>1. current \in Conn /\ conn[current] = "accepted"
    BY <1>3 DEF AddClient, ServerInv, HandledAccepted
  <2>2. UNCHANGED <<log, got, writing, queue, writer>>
    BY <1>3 DEF AddClient
  <2>3. \A c \in Conn : Registered(c)' => Registered(c) \/ conn[c] = "accepted"
    BY <1>3, <2>1 DEF AddClient, Registered, ServerTypeOK
  <2>4. \A c \in Conn : conn'[c] \in {"new", "dialed", "accepted"} =>
                           conn[c] \in {"new", "dialed", "accepted"}
    BY <1>3, <2>1 DEF AddClient, ServerTypeOK
  <2> QED
    BY <2>2, <2>3, <2>4, FlowKept
<1>4. CASE Spawn
  <2>1. current \in Conn
    BY <1>4 DEF Spawn, ServerInv, HandledAccepted
  <2>2. writer[current] = "none"
    BY <1>4 DEF Spawn, NotYetStarted
  <2> QED
    BY <1>4, <2>1, <2>2, FlowKept DEF Spawn, Registered, ServerTypeOK
<1>5. CASE ServeReturns
  BY <1>5, FlowKept DEF ServeReturns, CloseClients, Registered, ServerTypeOK
<1>6. CASE Cancel
  BY <1>6, FlowKept DEF Cancel, Registered
<1>7. ASSUME NEW a \in Action, Publish(a) PROVE Flow'
  BY <1>7, FlowPublish
<1>8. ASSUME NEW c \in Conn, NextAction(c) PROVE Flow'
  BY <1>8, FlowNextAction
<1>9. ASSUME NEW c \in Conn, Write(c) PROVE Flow'
  BY <1>9, FlowWrite
<1>10. ASSUME NEW c \in Conn, WriteFails(c) \/ ReadReturns(c) PROVE Flow'
  BY <1>10, FlowKept DEF WriteFails, ReadReturns, Registered, ServerTypeOK
<1>11. ASSUME NEW c \in Conn, WriterRemoves(c) \/ WatcherRemoves(c) PROVE Flow'
  BY <1>11, FlowKept
  DEF WriterRemoves, WatcherRemoves, RemoveClient, Drop, Registered, ServerTypeOK
<1>12. ASSUME NEW c \in Conn, Dial(c) \/ PeerEnds(c) PROVE Flow'
  BY <1>12, FlowKept DEF Dial, PeerEnds, Registered, ServerTypeOK
<1>13. CASE UNCHANGED serverVars
  BY <1>13, FlowKept DEF serverVars, Registered
<1> QED
  BY <1>1, <1>2, <1>3, <1>4, <1>5, <1>6, <1>7, <1>8, <1>9, <1>10, <1>11, <1>12, <1>13
  DEF ServerNext, Goroutines

LEMMA FlowGivesOrder == ServerTypeOK /\ Flow => InOrderNoGaps
<1> SUFFICES ASSUME ServerTypeOK, Flow, NEW c \in Conn
    PROVE  /\ IsPrefix(got[c], log[c])
           /\ Registered(c) => got[c] \o writing[c] \o queue[c] = log[c]
  BY DEF InOrderNoGaps
<1>1. got[c] \in Seq(Action) /\ writing[c] \in Seq(Action) /\ queue[c] \in Seq(Action)
  BY DEF ServerTypeOK
<1>2. PICK u \in Seq(Action) : log[c] = OnTheWay(c) \o u
  BY DEF Flow, FlowOf
<1>3. writing[c] \o queue[c] \in Seq(Action)
  BY <1>1, Concatenated
<1>4. log[c] = got[c] \o ((writing[c] \o queue[c]) \o u)
  <2>1. (got[c] \o (writing[c] \o queue[c])) \o u = got[c] \o ((writing[c] \o queue[c]) \o u)
    BY <1>1, <1>3, Associative, Zenon
  <2>2. OnTheWay(c) = got[c] \o (writing[c] \o queue[c])
    BY DEF OnTheWay
  <2> QED
    BY <1>2, <2>1, <2>2
<1>5. (writing[c] \o queue[c]) \o u \in Seq(Action)
  BY <1>2, <1>3, ConcatType
<1>6. IsPrefix(got[c], log[c])
  BY <1>1, <1>4, <1>5, PrefixOfConcat
<1>7. (got[c] \o writing[c]) \o queue[c] = OnTheWay(c)
  BY <1>1, Associative DEF OnTheWay
<1>8. Registered(c) => log[c] = OnTheWay(c)
  BY DEF Flow, FlowOf
<1> QED
  BY <1>6, <1>7, <1>8

(* Whatever the order of Publish, the writers, removals and reconnections:  *)
(* a peer gets what was published since its registration in that order and  *)
(* without gaps, and as long as it is registered nothing is lost.           *)
THEOREM ServerInOrder == ServerSpec => []InOrderNoGaps
<1>1. ServerInv => ServerTypeOK
  BY DEF ServerInv
<1>2. ServerSpec => []Flow
  <2>1. ServerSpec => []NotYetStarted
    BY NotYetStartedInit, NotYetStartedStep, ServerInvariant, PTL DEF ServerSpec
  <2> QED
    BY <2>1, FlowInit, FlowStep, ServerInvariant, PTL DEF ServerSpec
<1> QED
  BY <1>1, <1>2, FlowGivesOrder, ServerInvariant, PTL
=============================================================================
