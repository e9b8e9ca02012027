------------------------------- MODULE Broker -------------------------------
(***************************************************************************)
(* The daemon's main loop (cmd/eakd, run): one goroutine that serves the   *)
(* device manager's messages, the deadline timer and shutdown, passes each *)
(* to the engine and applies the operations it returns, in order, to the   *)
(* forwarder.  The next case of the select is served only when the result  *)
(* of the previous one has been applied.                                   *)
(*                                                                         *)
(* apply ends by arming the timer for the engine's deadline, so between    *)
(* two cases the timer is armed exactly when e.deadline is, and Timeout is *)
(* the timer's case.                                                       *)
(***************************************************************************)
EXTENDS Engine, Forwarder

VARIABLE status     \* "running", "closing" (Close is being applied), "stopped"

brokerVars == <<e, frame, out, down, entries, counts, virtual, status>>

BrokerInit == EngineInit /\ ForwarderInit /\ status = "running"

(* A case of the select that hands a message or the timer to the engine.   *)
Serving == status = "running" /\ UNCHANGED <<forwarderVars, status>>

ServeFrame ==
    /\ Serving
    /\ \/ \E d \in Device, late \in BOOLEAN : BeginFrame(d, late)
       \/ \E event \in InputEvent : HandleEvent(event)
       \/ AdvanceStep
       \/ EndFrame

ServeTimer == Serving /\ Timeout

(* message.Resync and, with no key pressed, message.Removed.               *)
ServeSnapshot ==
    /\ Serving
    /\ \E d \in Device, pressed \in SUBSET InputCode : Reconcile(d, pressed)

(* ctx.Done, or the manager or the server stopped because of it.           *)
Shutdown ==
    /\ status = "running" /\ Close
    /\ status' = "closing"
    /\ UNCHANGED forwarderVars

(* apply: one operation.  Publish never blocks and cannot fail.            *)
ApplyOutput ==
    /\ status # "stopped" /\ Apply
    /\ LET o == Head(out) IN
       \/ o.kind = "key" /\ ForwardKey(o.owner, o.code, o.value)
       \/ o.kind \in {"msc", "led"} /\ ForwardOther(o.owner)
       \/ o.kind = "reconcile" /\ Resync(o.owner, o.pressed)
       \/ o.kind = "action" /\ UNCHANGED forwarderVars
    /\ UNCHANGED status

(* run returns: the deferred calls release every grab, then destroy the    *)
(* virtual keyboard.  The engine dies with the process; the next one       *)
(* starts afresh.                                                          *)
Return ==
    /\ status' = "stopped"
    /\ DestroyVirtual
    /\ e' = InitialEngine /\ frame' = NoFrame /\ out' = <<>>

(* The case of the select after Close has been applied.                    *)
Exit == status = "closing" /\ out = <<>> /\ Return

(* A failed uinput write is fatal: the rest of the result is abandoned.    *)
WriteError ==
    /\ status # "stopped" /\ ~frame.open
    /\ out # <<>> /\ Head(out).kind \in {"key", "msc", "reconcile"}
    /\ Return

(* message.Err, an error of the action server or of the readiness          *)
(* notification, or the manager stopping by itself: no Close.              *)
FatalError == status = "running" /\ Ready /\ Return

(* systemd starts a new process.                                           *)
Restart ==
    /\ status = "stopped" /\ status' = "running"
    /\ UNCHANGED <<engineVars, forwarderVars>>

BrokerNext ==
    \/ ServeFrame
    \/ ServeTimer
    \/ ServeSnapshot
    \/ Shutdown
    \/ ApplyOutput
    \/ Exit
    \/ WriteError
    \/ FatalError
    \/ Restart

BrokerSpec == BrokerInit /\ [][BrokerNext]_brokerVars

(* The handlers run to completion and their results are applied.  A        *)
(* deadline that has passed is seen by the timer's case or by the next     *)
(* frame, whichever the select serves first: Go's select picks among the   *)
(* ready cases at random, so neither is passed over for ever, and a        *)
(* deadline is never moved while the engine waits for it.                  *)
Expire == Serving /\ (Timeout \/ \E d \in Device : BeginFrame(d, TRUE))

BrokerFairness ==
    /\ WF_brokerVars(Serving /\ (AdvanceStep \/ EndFrame))
    /\ WF_brokerVars(ApplyOutput)
    /\ SF_brokerVars(Expire)

FairBrokerSpec == BrokerSpec /\ BrokerFairness

-----------------------------------------------------------------------------
(* Between two cases of the select.                                        *)
Settled == status = "running" /\ Ready

Journalled(d, c) ==
    \E i \in DOMAIN e.journal : e.journal[i].device = d /\
        \E r \in ToSet(e.journal[i].events) : r.type = "key" /\ r.event.code = c

(* A key that no journalled event is about is held by its keyboard in the  *)
(* forwarder exactly when it is physically down and its press forwarded.   *)
OwnershipAgrees ==
    Settled => \A d \in Device, c \in Code :
        ~Journalled(d, c) =>
            (c \in down[d] <=> \E p \in e.physical :
                device(p) = d /\ code(p) = c /\ e.route[p] = "forwarded")

(* The owner of a remap holds its target while the remap is live and has   *)
(* otherwise left the forwarder without a trace, even when chords ended    *)
(* behind a candidate; the tap owner holds nothing.                        *)
RemapOwnersAgree ==
    Settled => \A h \in HoldDevice \cup {TapDevice} :
        h \notin JournalOwners(e) =>
            /\ down[h] = {x.target : x \in {q \in ToSet(e.active) : q.owner = h}}
            /\ h \in entries \cap HoldDevice => Live(e, h)

(* When every key of every keyboard is up, nothing is withheld and no key  *)
(* of the virtual keyboard is down.                                        *)
AllUpAllReleased ==
    Settled /\ e.physical = {} => e.journal = <<>> /\ virtual = {}

(* Close releases every key of the virtual keyboard by itself, before the  *)
(* device is destroyed.                                                    *)
CloseReleasesAll == status = "closing" /\ out = <<>> => virtual = {}

(* No press stays withheld: it is decided, unless the user keeps a reserved *)
(* modifier waiting.                                                       *)
Withheld(p) == p \in Referenced(e) /\ e.route[p] = "undecided" /\ e.mode # "reserved"

EveryPressDecided == \A p \in Press : Withheld(p) ~> ~Withheld(p)
=============================================================================
