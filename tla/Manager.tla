------------------------------- MODULE Manager ------------------------------
(***************************************************************************)
(* linuxinput.Manager: enumeration, the epoll loop with its handlers, and  *)
(* the cleanup.  One epoll wait returns every source that is ready, in any *)
(* order; what it returned is handled even if a handler before it has      *)
(* closed a descriptor, or opened another one with the same number.        *)
(***************************************************************************)
EXTENDS Acquisition

LoopIdle == op.step = "none"

(* newManagerState: the monitor is subscribed before nodes are enumerated; *)
(* a node that appears between the two is one whose event is still to come. *)
(* When the last call fails the callback is there, and close joins it.     *)
Subscribe ==
    /\ phase = "starting"
    /\ \/ /\ Works /\ wake' = IF cancelled THEN "running" ELSE "armed"
          /\ phase' = "enumerate" /\ todo' = {p \in Path : node[p] # 0}
       \/ /\ Fails /\ wake' \in {"none", IF cancelled THEN "written" ELSE "stopped"}
          /\ phase' = "fatal" /\ UNCHANGED todo
    /\ UNCHANGED <<kernelVars, m, ready, batch, op, messages, cancelled, ledVars>>

(* A step of the loop that makes no call.                                  *)
Turns == UNCHANGED <<kernelVars, messages, cancelled, wake, faults, ledVars>>

Call(p, generation, startup) ==
    [NoOp EXCEPT !.step = "open", !.path = p, !.generation = generation,
                 !.startup = startup]

EnumerateNode(p) ==
    /\ phase = "enumerate" /\ LoopIdle /\ p \in todo
    /\ todo' = todo \ {p}
    /\ op' = Call(p, NoGeneration, TRUE)
    /\ Turns /\ UNCHANGED <<m, phase, ready, batch>>

(* Enumeration is over, or what the last epoll wait returned is handled.   *)
TurnOver ==
    /\ LoopIdle /\ batch = <<>> /\ ready = <<>> /\ todo = {}
    /\ phase \in {"enumerate", "dispatch"}

-----------------------------------------------------------------------------
(* The top of the loop; nextCandidateCheck has passed or has not.          *)
LoopTop(due) ==
    /\ TurnOver /\ ~cancelled
    /\ phase' = "check" /\ todo' = IF due THEN Pending(m) ELSE {}
    /\ Turns /\ UNCHANGED <<m, ready, batch, op>>

LoopDone ==
    /\ TurnOver /\ cancelled
    /\ Leave
    /\ Turns /\ UNCHANGED m

(* checkCandidates, one candidate.  A keyboard that is gone is forgotten:  *)
(* the monitor will tell of its successor.                                 *)
CheckCandidate(p) ==
    /\ phase = "check" /\ LoopIdle /\ p \in todo
    /\ todo' = todo \ {p}
    /\ LET device == m.candidates[p]
           i == m.file[device.fd]
           closed == RemoveCandidate(m, p, device.fd)
       IN \/ /\ Alive(i) /\ Works
             /\ m' = m
             /\ op' = [NoOp EXCEPT !.step = "acquire", !.path = p,
                          !.generation = device.generation, !.fd = device.fd]
          \/ ~Alive(i) /\ Works /\ m' = closed /\ UNCHANGED op
    /\ UNCHANGED <<kernelVars, phase, ready, batch, messages, cancelled, wake, ledVars>>

(* processRetries looks at the scheduled retries; some of them are due.    *)
Checked(due) ==
    /\ phase = "check" /\ LoopIdle /\ todo = {}
    /\ phase' = "retry" /\ todo' = {p \in due : m.retries[p].scheduled}
    /\ Turns /\ UNCHANGED <<m, ready, batch, op>>

(* consider: a path that is tracked already is left alone.                 *)
Consider(s, p, generation) ==
    /\ m' = s
    /\ op' = IF p \in Active(s) \cup Pending(s) THEN NoOp ELSE Call(p, generation, FALSE)

Retry(p) ==
    /\ phase = "retry" /\ LoopIdle /\ p \in todo
    /\ todo' = todo \ {p}
    /\ LET generation == m.retries[p].generation IN
       IF MayBegin(m, p, generation)
         THEN Consider(BeginRetry(m, p, generation), p, generation)
         ELSE UNCHANGED <<m, op>>
    /\ Turns /\ UNCHANGED <<phase, ready, batch>>

Waiting == phase = "retry" /\ LoopIdle /\ todo = {}

-----------------------------------------------------------------------------
(* The descriptors of active keyboards, and those that report a hangup.    *)
ActiveFd(s) == {s.byPath[p].fd : p \in Active(s)}
Hung == {f \in ActiveFd(m) : m.file[f] # 0 /\ ~Alive(m.file[f])}

Source(kind, fd) == [kind |-> kind, fd |-> fd]

ReadySources ==
    {Source("monitor", 0) : x \in {1 : y \in DOMAIN monitor}}
      \cup {Source("feedback", 0) : x \in {1 : y \in DOMAIN feedback}}
      \cup (IF wake = "written" THEN {Source("wake", 0)} ELSE {})
      \cup {Source("device", f) : f \in Hung}

(* epollTimeout is not negative.                                           *)
MaintenancePending == Pending(m) # {} \/ \E p \in Path : m.retries[p].scheduled

(* epoll_wait.  A keyboard that is present may report an error, too.       *)
Wait ==
    /\ Waiting
    /\ LET failing == {Source("device", f) : f \in ActiveFd(m)} \ ReadySources IN
       \E bad \in {{}} \cup {{f} : f \in failing} :
          /\ IF bad = {} THEN Works ELSE Fails
          /\ ReadySources \cup bad # {} \/ MaintenancePending
          /\ ready' \in SetToSeqs(ReadySources \cup bad)
    /\ phase' = "dispatch"
    /\ UNCHANGED <<kernelVars, m, todo, batch, op, messages, cancelled, wake, ledVars>>

Handles(kind) ==
    phase = "dispatch" /\ LoopIdle /\ batch = <<>> /\ ready # <<>> /\ Head(ready).kind = kind

(* handleUdevReady: the socket is drained, then the events are applied.    *)
ReadMonitor ==
    /\ Handles("monitor")
    /\ batch' = monitor /\ monitor' = <<>> /\ ready' = Tail(ready)
    /\ UNCHANGED <<node, plugs, seqnum, udevd, m, phase, todo, op, messages, cancelled,
                   wake, faults, ledVars>>

(* handleDeviceReady for an event with EPOLLHUP or EPOLLERR: reading shows *)
(* whether the device is gone; one that is still there is retried.         *)
HandleDevice ==
    /\ Handles("device")
    /\ LET hung == {p \in Active(m) : m.byPath[p].fd = Head(ready).fd} IN
       IF hung = {} THEN UNCHANGED <<m, messages, phase, todo, batch, op>> /\ ready' = Tail(ready)
       ELSE \E p \in hung :
         LET device == m.byPath[p]
             closed == RemoveActive(m, p)
         IN \/ /\ Sends("removed", p)
               /\ m' = IF Alive(m.file[device.fd])
                         THEN ScheduleRetry(closed, p, device.generation) ELSE closed
               /\ ready' = Tail(ready)
               /\ UNCHANGED <<phase, todo, batch, op>>
            \/ Aborted /\ m' = closed /\ Leave
    /\ UNCHANGED <<kernelVars, cancelled, wake, faults, ledVars>>

(* SetLED: whether the value is news.                                      *)
SetLED(value) == m.locks # value

(* handleFeedbackReady: the queue is drained and the last value adopted.   *)
HandleFeedback ==
    /\ Handles("feedback")
    /\ feedback' = <<>> /\ ready' = Tail(ready)
    /\ LET value == IF feedback = <<>> THEN m.locks ELSE Last(feedback) IN
       /\ m' = [m EXCEPT !.locks = value]
       /\ IF ~SetLED(value) THEN Works /\ UNCHANGED lit
          ELSE SyncLEDs(value, {i \in Keyboards : Alive(i) /\ \E f \in ActiveFd(m) : m.file[f] = i})
    /\ UNCHANGED <<kernelVars, fed, phase, todo, batch, op, messages, cancelled, wake>>

(* handleWakeReady: the pipe is written when the context is done.          *)
HandleWake ==
    /\ Handles("wake")
    /\ Leave
    /\ Turns /\ UNCHANGED m

(* epoll_wait, the monitor or the virtual keyboard fails.                  *)
LoopFails ==
    /\ Waiting \/ Handles("monitor") \/ Handles("feedback")
    /\ Fails
    /\ phase' = "fatal" /\ todo' = {} /\ ready' = <<>>
    /\ UNCHANGED <<kernelVars, m, batch, op, messages, cancelled, wake, ledVars>>

-----------------------------------------------------------------------------
(* One deviceEvent of the batch; its number is the latest one of the path. *)
Applies(action) ==
    /\ phase = "dispatch" /\ LoopIdle /\ batch # <<>>
    /\ AcceptEventSequence(m.latestSequence, Head(batch))
    /\ Head(batch).action = action
    /\ UNCHANGED <<kernelVars, cancelled, wake, faults, ledVars>>

Noted == [m EXCEPT !.latestSequence[Head(batch).path] = Head(batch).seqNum]

EventDone == batch' = Tail(batch) /\ UNCHANGED <<phase, todo, ready>>

IgnoreEvent ==
    /\ phase = "dispatch" /\ LoopIdle /\ batch # <<>>
    /\ ~AcceptEventSequence(m.latestSequence, Head(batch))
    /\ EventDone
    /\ Turns /\ UNCHANGED <<m, op>>

HandleRemove ==
    /\ Applies("remove")
    /\ LET event == Head(batch)
           p == event.path
           matches(entry) == Exists(entry)
                               /\ GenerationMatchesRemoval(entry.generation, event)
           s1 == IF matches(m.retries[p]) THEN ForgetRetry(Noted, p) ELSE Noted
           s2 == IF matches(m.candidates[p])
                   THEN RemoveCandidate(s1, p, m.candidates[p].fd) ELSE s1
       IN IF matches(m.byPath[p])
            THEN \/ /\ Sends("removed", p) /\ EventDone
                    /\ m' = RemoveActive(s2, p) /\ UNCHANGED op
                 \/ Aborted /\ m' = RemoveActive(s2, p) /\ Leave
            ELSE m' = s2 /\ EventDone /\ UNCHANGED <<messages, op>>

(* handleAdd.  An add of the generation that enumeration found is adopted; *)
(* any other one replaces what is tracked at the path.                     *)
HandleAdd ==
    /\ Applies("add")
    /\ LET p == Head(batch).path
           seen == GenerationFromEvent(Head(batch))
           same(entry) == /\ Exists(entry)
                          /\ entry.generation.devPath = seen.devPath
                          /\ ~entry.generation.observedAdd
           g == IF same(m.retries[p]) THEN AdoptObservedAdd(m.retries[p].generation, seen)
                                      ELSE seen
           s == IF same(m.retries[p]) THEN [Noted EXCEPT !.retries[p].generation = g]
                                      ELSE Noted
           adopted(entry) == AdoptObservedAdd(entry.generation, g)
       IN CASE same(m.byPath[p]) ->
                 /\ m' = [s EXCEPT !.byPath[p].generation = adopted(m.byPath[p])]
                 /\ EventDone /\ UNCHANGED <<messages, op>>
            [] ~same(m.byPath[p]) /\ same(m.candidates[p]) ->
                 /\ LET new == adopted(m.candidates[p]) IN
                    m' = [s EXCEPT !.candidates[p].generation = new,
                                   !.retries[p].generation =
                                      IF Exists(s.retries[p]) THEN new ELSE @]
                 /\ EventDone /\ UNCHANGED <<messages, op>>
            [] OTHER ->
                 LET s1 == IF p \in Active(m) THEN RemoveActive(s, p) ELSE s
                     s2 == IF p \in Pending(m)
                             THEN RemoveCandidate(s1, p, m.candidates[p].fd) ELSE s1
                     opens == IF MayBegin(s2, p, g)
                                THEN Consider(BeginRetry(s2, p, g), p, g)
                                ELSE m' = s2 /\ UNCHANGED op
                 IN IF p \in Active(m)
                      THEN \/ Sends("removed", p) /\ EventDone /\ opens
                           \/ Aborted /\ m' = s1 /\ Leave
                      ELSE UNCHANGED messages /\ EventDone /\ opens

-----------------------------------------------------------------------------
(* Run reports the error that ended enumeration or the loop.               *)
ReportError ==
    /\ phase = "fatal"
    /\ Sends("err", NoOp.path) \/ Aborted
    /\ phase' = "close"
    /\ UNCHANGED <<kernelVars, m, todo, ready, batch, op, cancelled, wake, faults, ledVars>>

(* The context is done, which starts the callback of initWake.             *)
Cancels ==
    /\ cancelled' = TRUE
    /\ wake' = IF wake = "armed" THEN "running" ELSE wake

WakeWrites ==
    /\ wake = "running" /\ wake' = "written"
    /\ UNCHANGED <<kernelVars, m, stepVars, op, messages, cancelled, faults, ledVars>>

(* Everything that is tracked is closed.                                   *)
AllClosed ==
    LET none == [p \in Path |-> NoDevice]
        fds == {m.byPath[p].fd : p \in Path} \cup {m.candidates[p].fd : p \in Path}
    IN [CloseFds(m, fds) EXCEPT !.byPath = none, !.candidates = none]

(* close, and the end of Run, which closes the channel.  The callback is   *)
(* stopped, or close waits until it has written.                           *)
Close ==
    /\ phase = "close" /\ wake # "running"
    /\ wake' = IF wake = "armed" THEN "stopped" ELSE wake
    /\ m' = AllClosed /\ phase' = "closed"
    /\ UNCHANGED <<kernelVars, todo, ready, batch, op, messages, cancelled, faults, ledVars>>

LoopStep ==
    \/ Subscribe \/ LoopTop(TRUE) \/ LoopTop(FALSE) \/ LoopDone \/ Wait
    \/ \E p \in Path : EnumerateNode(p) \/ CheckCandidate(p) \/ Retry(p)
    \/ \E due \in SUBSET Path : Checked(due)

HandlerStep ==
    \/ ReadMonitor \/ HandleDevice \/ HandleFeedback \/ HandleWake \/ LoopFails
    \/ IgnoreEvent \/ HandleRemove \/ HandleAdd
    \/ ReportError \/ Close

(* The manager's goroutine.                                                *)
ManagerStep == AcquisitionStep \/ LoopStep \/ HandlerStep

(* What arrives on a descriptor is seen by epoll_wait and by the read that *)
(* follows; it is modelled as arriving just before one of them, and before *)
(* the manager subscribes.                                                 *)
Notices(kind) == Waiting \/ Handles(kind)

(* The compositor switches the LED of the virtual keyboard.                *)
Compositor ==
    /\ fed < MaxFeedback /\ Notices("feedback") /\ ~cancelled
    /\ fed' = fed + 1
    /\ \E value \in {"on", "off"} : feedback' = Append(feedback, value)
    /\ UNCHANGED <<kernelVars, m, stepVars, op, messages, cancelled, wake, faults, lit>>

(* Keyboards come and go at any time, until the manager has closed all.    *)
KernelStep ==
    /\ phase # "closed"
    /\ \E p \in Path : Plug(p) \/ Unplug(p)
    /\ UNCHANGED <<m, stepVars, op, messages, cancelled, wake, faults, ledVars>>

(* udevd passes the news on.                                               *)
UdevdStep ==
    /\ phase = "starting" \/ Notices("monitor")
    /\ SendOn(phase # "starting")
    /\ UNCHANGED <<m, stepVars, op, messages, cancelled, wake, faults, ledVars>>
=============================================================================
