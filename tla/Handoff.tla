------------------------------- MODULE Handoff ------------------------------
(***************************************************************************)
(* One keyboard between the display server and the daemon: how the manager *)
(* takes it over while it is idle (acquireIdleDevice), how it reads frames *)
(* and recovers from SYN_DROPPED (readReady), and what the engine takes to *)
(* be pressed.  Keys move between any two system calls.                    *)
(*                                                                         *)
(* pressed, queue, grabbed and direct are external.  Events go to the      *)
(* clients of the event node, or only to the one that grabbed it.  A full  *)
(* queue is replaced by SYN_DROPPED and the latest event, and EVIOCGKEY    *)
(* takes the key events it makes obsolete out of the queue of its caller.  *)
(***************************************************************************)
EXTENDS Naturals, SequencesExt

CONSTANTS
    Key,
    QueueSize,      \* of the client's queue, in events
    ReadSize,       \* events that one read returns at most (eventBufferSize)
    MaxMessages,    \* capacity of the channel of messages
    MaxMoves,       \* bound on the number of presses and releases
    MaxFaults,      \* bound on the number of calls that fail
    Prompt          \* a key that is down at EVIOCGRAB stays down up to the
                    \* query that follows

ASSUME HandoffAssumption ==
    /\ QueueSize \in Nat \ {0, 1} /\ ReadSize \in Nat \ {0, 1, 2}
    /\ MaxMessages \in Nat \ {0}
    /\ Prompt \in BOOLEAN

VARIABLES
    pressed,    \* keys that are down
    direct,     \* keys that the display server took from the keyboard itself
    queue,      \* events queued for the daemon
    grabbed,    \* EVIOCGRAB
    step,       \* "closed"; "idle?", "drain", "still?", "grab", "after?" (a
                \* candidate, at these calls); "read" and "state?" (active)
    buffer,     \* events that were read and not looked at
    frame,      \* device.frame
    dropping,   \* device.dropping
    outgoing,   \* the message being sent
    messages,   \* output
    believed,   \* keys of this keyboard that the engine takes to be down
    overtaken,  \* history: keys of which EVIOCGKEY, after SYN_DROPPED, took the
                \* latest movement from the queue while an earlier one had been
                \* read and not looked at; until the key moves again
    moves, faults

kernelVars == <<pressed, direct, queue, grabbed>>
deviceVars == <<step, buffer, frame, dropping, outgoing>>
handoffVars == <<kernelVars, deviceVars, messages, believed, overtaken, moves, faults>>

-----------------------------------------------------------------------------
KeyEvent(k, down) == [kind |-> "key", key |-> k, down |-> down, seen |-> ~grabbed]
Report == [kind |-> "report"]
Dropped == [kind |-> "dropped"]

About(event, k) == event.kind = "key" /\ event.key = k
Mentions(events, k) == \E i \in DOMAIN events : About(events[i], k)

Queued(q, event) ==
    IF Len(q) < QueueSize THEN Append(q, event) ELSE <<Dropped, event>>

(* What EVIOCGKEY leaves of the queue: SYN_DROPPED, which is the first if  *)
(* it is there, and one report, the others having become empty.            *)
Flushed ==
    IF queue = <<>> THEN <<>>
    ELSE IF Head(queue).kind = "dropped" THEN <<Dropped, Report>> ELSE <<Report>>

NoDevice ==
    /\ step' = "closed" /\ buffer' = <<>> /\ frame' = <<>> /\ dropping' = FALSE
    /\ grabbed' = FALSE /\ queue' = <<>> /\ overtaken' = {}

HandoffInit ==
    /\ pressed \in SUBSET Key /\ direct = pressed
    /\ queue = <<>> /\ grabbed = FALSE
    /\ step = "closed" /\ buffer = <<>> /\ frame = <<>> /\ dropping = FALSE
    /\ outgoing = <<>> /\ messages = <<>> /\ believed = {}
    /\ overtaken = {} /\ moves = 0 /\ faults = 0

-----------------------------------------------------------------------------
(* A key goes down or up, at any time; but see Prompt.                      *)
Move(k) ==
    /\ moves < MaxMoves /\ moves' = moves + 1
    /\ Prompt => ~(step = "after?" /\ k \in pressed)
    /\ LET down == k \notin pressed
           others(S) == IF down THEN S \cup {k} ELSE S \ {k}
       IN /\ pressed' = others(pressed)
          /\ direct' = IF grabbed THEN direct ELSE others(direct)
          /\ queue' = IF step = "closed" THEN queue
                      ELSE Queued(Queued(queue, KeyEvent(k, down)), Report)
    /\ overtaken' = overtaken \ {k}
    /\ UNCHANGED <<grabbed, deviceVars, messages, believed, faults>>

-----------------------------------------------------------------------------
Manager(at) ==
    /\ step = at /\ outgoing = <<>>
    /\ UNCHANGED <<pressed, direct, messages, believed, moves>>

Open ==
    /\ Manager("closed")
    /\ step' = "idle?"
    /\ UNCHANGED <<queue, grabbed, buffer, frame, dropping, outgoing, overtaken, faults>>

(* currentKeys, and the step that follows if no key is held.               *)
Query(next) ==
    /\ queue' = Flushed
    /\ step' = IF pressed = {} THEN next ELSE "idle?"
    /\ UNCHANGED <<grabbed, buffer, frame, dropping, outgoing, overtaken, faults>>

QueryIdle == Manager("idle?") /\ Query("drain")
QueryStillIdle == Manager("still?") /\ Query("grab")

(* discardQueuedEvents.                                                    *)
Drain ==
    /\ Manager("drain")
    /\ queue' = <<>> /\ step' = "still?"
    /\ UNCHANGED <<grabbed, buffer, frame, dropping, outgoing, overtaken, faults>>

Grab ==
    /\ Manager("grab")
    /\ grabbed' = TRUE /\ step' = "after?"
    /\ UNCHANGED <<queue, buffer, frame, dropping, outgoing, overtaken, faults>>

Resync == [kind |-> "resync", keys |-> pressed]

(* Mutant: what is held after the grab is taken over.                      *)
GrabHeld ==
    /\ Manager("after?")
    /\ queue' = Flushed /\ step' = "read" /\ outgoing' = <<Resync>>
    /\ UNCHANGED <<grabbed, buffer, frame, dropping, overtaken, faults>>

(* The query after EVIOCGRAB, and activate; or the grab is released.       *)
AfterGrab ==
    /\ Manager("after?")
    /\ queue' = Flushed
    /\ IF pressed = {}
         THEN step' = "read" /\ outgoing' = <<Resync>> /\ UNCHANGED grabbed
         ELSE step' = "idle?" /\ grabbed' = FALSE /\ UNCHANGED outgoing
    /\ UNCHANGED <<buffer, frame, dropping, overtaken, faults>>

Fails == faults < MaxFaults /\ faults' = faults + 1

(* A call for a candidate fails; it is closed and opened again later.      *)
AcquisitionFails ==
    /\ \E at \in {"idle?", "drain", "still?", "grab", "after?"} : Manager(at)
    /\ Fails /\ NoDevice
    /\ UNCHANGED outgoing

-----------------------------------------------------------------------------
(* readReady, event by event.                                              *)
Read ==
    /\ Manager("read") /\ buffer = <<>> /\ queue # <<>>
    /\ LET count == IF Len(queue) < ReadSize THEN Len(queue) ELSE ReadSize IN
       /\ buffer' = SubSeq(queue, 1, count)
       /\ queue' = SubSeq(queue, count + 1, Len(queue))
    /\ UNCHANGED <<step, grabbed, frame, dropping, outgoing, overtaken, faults>>

Handles(kind) ==
    /\ Manager("read") /\ buffer # <<>> /\ Head(buffer).kind = kind
    /\ buffer' = Tail(buffer)
    /\ UNCHANGED <<queue, grabbed, overtaken, faults>>

(* Mutant: SYN_DROPPED only discards the frame.                            *)
HandleDroppedOnly ==
    /\ Handles("dropped")
    /\ frame' = <<>>
    /\ UNCHANGED <<step, dropping, outgoing>>

HandleDropped ==
    /\ Handles("dropped")
    /\ dropping' = TRUE /\ frame' = IF dropping THEN frame ELSE <<>>
    /\ UNCHANGED <<step, outgoing>>

HandleKey ==
    /\ Handles("key")
    /\ frame' = IF dropping THEN frame ELSE Append(frame, Head(buffer))
    /\ UNCHANGED <<step, dropping, outgoing>>

HandleReport ==
    /\ Handles("report")
    /\ IF dropping THEN step' = "state?" /\ UNCHANGED <<frame, outgoing>>
       ELSE /\ outgoing' = <<[kind |-> "frame", events |-> frame]>>
            /\ frame' = <<>> /\ UNCHANGED step
    /\ UNCHANGED dropping

(* The query after SYN_DROPPED.  The rest of the buffer is older than its  *)
(* answer, and is handled after it.                                        *)
QueryState ==
    /\ Manager("state?")
    /\ queue' = Flushed
    /\ overtaken' = {k \in Key : Mentions(buffer, k) /\ Mentions(queue, k)}
    /\ outgoing' = <<Resync>> /\ dropping' = FALSE /\ step' = "read"
    /\ UNCHANGED <<grabbed, buffer, frame, faults>>

(* handleDeviceReady: reading or the query fails, or the keyboard is gone. *)
DeviceFails ==
    /\ (Manager("read") /\ buffer = <<>>) \/ Manager("state?")
    /\ Fails /\ NoDevice
    /\ outgoing' = <<[kind |-> "removed"]>>

(* sendMessage.                                                            *)
Send ==
    /\ outgoing # <<>> /\ Len(messages) < MaxMessages
    /\ messages' = messages \o outgoing /\ outgoing' = <<>>
    /\ UNCHANGED <<kernelVars, step, buffer, frame, dropping, believed, overtaken, moves, faults>>

-----------------------------------------------------------------------------
(* The main loop, with the engine's record of the keys of this keyboard.   *)
(* The last event of a key tells whether it is down.                       *)
Ingested(keys, events) ==
    {k \in Key :
        \/ \E i \in DOMAIN events :
              /\ About(events[i], k) /\ events[i].down
              /\ \A j \in DOMAIN events : About(events[j], k) => j <= i
        \/ k \in keys /\ ~Mentions(events, k)}

Told(keys, message) ==
    CASE message.kind = "frame" -> Ingested(keys, message.events)
      [] message.kind = "resync" -> message.keys
      [] message.kind = "removed" -> {}

Receive ==
    /\ messages # <<>> /\ messages' = Tail(messages)
    /\ believed' = Told(believed, Head(messages))
    /\ UNCHANGED <<kernelVars, deviceVars, overtaken, moves, faults>>

HandoffNext ==
    \/ \E k \in Key : Move(k)
    \/ Open
    \/ QueryIdle
    \/ Drain
    \/ QueryStillIdle
    \/ Grab
    \/ AfterGrab
    \/ AcquisitionFails
    \/ Read
    \/ HandleDropped
    \/ HandleKey
    \/ HandleReport
    \/ QueryState
    \/ DeviceFails
    \/ Send
    \/ Receive

HandoffSpec == HandoffInit /\ [][HandoffNext]_handoffVars

-----------------------------------------------------------------------------
(* "Prevents a lost release from leaving a virtual modifier permanently    *)
(* held": when all that was queued anywhere has been handled, the engine   *)
(* knows exactly the keys that are down, through overflows, reads that cut *)
(* frames apart, errors and reopening, and it is not still dropping.  The  *)
(* only keys it can be wrong about are the overtaken ones: an event that   *)
(* was read with SYN_DROPPED, older than the answer of EVIOCGKEY, is       *)
(* handled after it and undoes it, and no other event follows.             *)
Handled ==
    step = "read" /\ queue = <<>> /\ buffer = <<>> /\ outgoing = <<>> /\ messages = <<>>

BelievedAgrees ==
    Handled =>
        /\ frame = <<>> /\ ~dropping
        /\ \A k \in Key \ overtaken : k \in believed <=> k \in pressed

(* No event of a list was seen by the display server.                      *)
Unseen(events) == \A i \in DOMAIN events : events[i].kind = "key" => ~events[i].seen

(* Once a keyboard is taken over the display server holds no key of it,    *)
(* whose release it would never see, and no event that it has seen is      *)
(* replayed by the virtual keyboard.                                       *)
CleanHandoff ==
    step \in {"read", "state?"} =>
        direct = {} /\ Unseen(queue) /\ Unseen(buffer) /\ Unseen(frame)
=============================================================================
