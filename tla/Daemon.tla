------------------------------- MODULE Daemon -------------------------------
(***************************************************************************)
(* cmd/eakd run: the main loop, the manager's goroutine, the channel       *)
(* between them and the order in which the daemon takes leave.  What the   *)
(* main loop does with input is module Broker; here it only keeps track of *)
(* the keyboards it has been told of.                                      *)
(***************************************************************************)
EXTENDS Manager

VARIABLES
    main,       \* "running", "returning" (the deferred calls), "ended"
    known,      \* the keyboards the main loop takes for connected
    virtual     \* the virtual keyboard exists

daemonVars == <<managerVars, main, known, virtual>>

DaemonInit == ManagerInit /\ main = "running" /\ known = {} /\ virtual = TRUE

-----------------------------------------------------------------------------
Others == UNCHANGED <<kernelVars, m, stepVars, op, ledVars>>

(* The view of the main loop after one more message.                       *)
Told(view, message) ==
    CASE message.kind = "resync" -> view \cup {message.path}
      [] message.kind = "removed" -> view \ {message.path}
      [] OTHER -> view

(* The loop returns, and the deferred cancel follows.                      *)
Leaves == main' = "returning" /\ Cancels /\ known' = {}

(* One message.  An error, of the manager or of uinput, ends the loop.     *)
TakeMessage ==
    /\ main = "running" /\ messages # <<>>
    /\ messages' = Tail(messages)
    /\ LET message == Head(messages) IN
       \/ /\ message.kind # "err" /\ Works
          /\ known' = Told(known, message) /\ UNCHANGED <<main, cancelled, wake>>
       \/ message.kind # "err" /\ Fails /\ Leaves
       \/ message.kind = "err" /\ Works /\ Leaves
    /\ Others /\ UNCHANGED virtual

(* The channel is closed, the context done, or the action server ends.     *)
LeaveLoop ==
    /\ main = "running"
    /\ \/ Works /\ (cancelled \/ (phase = "closed" /\ messages = <<>>))
       \/ Fails
    /\ Leaves
    /\ Others /\ UNCHANGED <<messages, virtual>>

(* SIGTERM.                                                                *)
Signal ==
    /\ ~cancelled /\ Cancels
    /\ Others /\ UNCHANGED <<messages, faults, main, known, virtual>>

(* Mutant: the manager is not waited for.                                  *)
ReturnAtOnce ==
    /\ main = "returning"
    /\ virtual' = FALSE /\ main' = "ended"
    /\ Others /\ UNCHANGED <<messages, cancelled, wake, faults, known>>

(* The deferred wait for the manager, then virtual.Close.                  *)
Return ==
    /\ main = "returning" /\ phase = "closed"
    /\ virtual' = FALSE /\ main' = "ended"
    /\ Others /\ UNCHANGED <<messages, cancelled, wake, faults, known>>

MainStep == TakeMessage \/ LeaveLoop \/ Return

Concurrent ==
    /\ ManagerStep \/ WakeWrites \/ Compositor \/ KernelStep \/ UdevdStep
    /\ UNCHANGED <<main, known, virtual>>

DaemonNext == Concurrent \/ MainStep \/ Signal

DaemonSpec == DaemonInit /\ [][DaemonNext]_daemonVars

(* Goroutines and udevd run.  Deadlines pass: again and again both kinds   *)
(* of maintenance are due.  A keyboard is idle again and again when it is  *)
(* looked at, so that acquisition succeeds in the end.                     *)
Quietly(A) == A /\ UNCHANGED <<main, known, virtual>>

DaemonFairness ==
    /\ WF_daemonVars(Quietly(ManagerStep))
    /\ WF_daemonVars(Quietly(WakeWrites))
    /\ WF_daemonVars(Quietly(UdevdStep))
    /\ WF_daemonVars(MainStep /\ Works)
    /\ SF_daemonVars(Quietly(LoopTop(TRUE)))
    /\ SF_daemonVars(Quietly(Checked(Path)))
    /\ SF_daemonVars(Quietly(Acquire))

FairDaemonSpec == DaemonSpec /\ DaemonFairness

-----------------------------------------------------------------------------
(* Types of the manager's and the main loop's state.                       *)
Generation ==
    [devPath : {0} \cup {DevPathOf[i] : i \in Incarnation}, sequenceFloor : Nat,
     observedAdd : BOOLEAN]
Device == [generation : Generation, fd : Fd \cup {0}]

DaemonTypeOK ==
    /\ m.byPath \in [Path -> Device] /\ m.candidates \in [Path -> Device]
    /\ m.retries \in [Path -> [generation : Generation, attempts : 0 .. MaxTries,
                               scheduled : BOOLEAN]]
    /\ m.file \in [Fd -> Incarnation \cup {0}] /\ m.grabs \subseteq Fd
    /\ Len(messages) <= MaxMessages
    /\ known \subseteq Path /\ main \in {"running", "returning", "ended"}

(* The descriptors that the maps hold for a path, and that of the call of  *)
(* consider or openEnumeratedCandidate in progress.                        *)
Owned(p) == {m.byPath[p].fd, m.candidates[p].fd} \ {0}
BeingOpened ==
    IF op.step \in {"identify", "floor", "validate", "probe"} THEN {op.fd} \ {0} ELSE {}

(* No descriptor is lost and none is held twice: until shutdown, the open  *)
(* ones are exactly those of the keyboards, of the candidates and of the   *)
(* call in progress, each held once, and only keyboards are grabbed.       *)
DescriptorsOwned ==
    ~cancelled =>
        /\ {f \in Fd : m.file[f] # 0} = (UNION {Owned(p) : p \in Path}) \cup BeingOpened
        /\ Active(m) \cap Pending(m) = {}
        /\ \A p \in Path :
              /\ Owned(p) \cap BeingOpened = {}
              /\ \A q \in Path \ {p} : Owned(p) \cap Owned(q) = {}
        /\ m.grabs = ActiveFd(m)

(* Whether the main loop, having view, will take p for connected once it   *)
(* has had the messages in queue.                                          *)
WillKnow(view, queue, p) ==
    LET about(kind) == {i \in DOMAIN queue : queue[i] = [kind |-> kind, path |-> p]}
    IN \/ p \in view /\ about("removed") = {}
       \/ \E i \in about("resync") : \A j \in about("removed") : j < i

(* Until shutdown the main loop has been told, or will be by the messages  *)
(* on their way, exactly which keyboards are grabbed: the keys of no other *)
(* keyboard stay held.                                                     *)
AnnouncedAgrees ==
    ~cancelled /\ phase # "closed" =>
        \A p \in Path : WillKnow(known, messages, p) <=> p \in Active(m)

(* Cleanup in order.  "No virtual device is destroyed until every physical *)
(* EVIOCGRAB is released"; and "a late cancellation write cannot target a  *)
(* recycled descriptor": once the manager is done, its callback is as well. *)
CleanupOrder ==
    /\ ~virtual => m.grabs = {} /\ \A f \in Fd : m.file[f] = 0
    /\ phase = "closed" => wake \notin {"armed", "running"}

(* Until shutdown a keyboard shows the lock state that the compositor last *)
(* told, unless a write failed.  After it the entry of a keyboard may be   *)
(* stale (Acquire), and its descriptor be that of another device.          *)
LedsFollow ==
    faults = 0 /\ ~cancelled => \A p \in Active(m) :
        LET i == m.file[m.byPath[p].fd] IN
        Alive(i) => (m.locks = "on" => i \in lit) /\ (m.locks = "off" => i \notin lit)

(* However keyboards came and went: once no more do (their number is        *)
(* bounded), the manager ends up with the keyboard that is there, and with *)
(* none where there is none, and the main loop knows it.                   *)
Settled ==
    \A p \in Path :
        IF node[p] \in Keyboards
          THEN /\ p \in Active(m) \cap known
               /\ \E f \in Fd : f = m.byPath[p].fd /\ m.file[f] = node[p]
          ELSE p \notin Active(m) \cup Pending(m) \cup known

KeyboardsSettle == <>[](main = "running" => Settled)

(* Shutdown completes, with the channel full and wherever the manager is.  *)
DaemonEnds == cancelled ~> main = "ended"
=============================================================================
