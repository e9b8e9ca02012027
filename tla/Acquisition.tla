----------------------------- MODULE Acquisition ----------------------------
(***************************************************************************)
(* linuxinput.Manager: its state, and how it opens and grabs a keyboard.   *)
(* Between any two of its system calls keyboards come and go, and a call   *)
(* may fail (at most MaxFaults times).  m is the managerState; its methods *)
(* are functions from state to state, and the variables below it are where *)
(* the goroutine stands.  byFD mirrors byPath and is derived from it.      *)
(*                                                                         *)
(* How a keyboard is found idle, and what is read from it, is module       *)
(* Handoff: here a query finds keys held or not, and only the end of a     *)
(* keyboard or an error is read.  Deadlines pass by choice.  The three     *)
(* LEDs are alike; one is modelled.                                        *)
(***************************************************************************)
EXTENDS Uevents, FiniteSets

CONSTANTS
    Fd,             \* file descriptors, positive numbers, more than paths
    Keyboards,      \* the incarnations that probeCandidate accepts
    MaxTries,       \* maxReacquisitionTries
    MaxMessages,    \* capacity of the channel of messages
    MaxFaults,      \* bound on the number of calls that fail
    MaxFeedback     \* bound on the number of LED events of the compositor

ASSUME ManagerAssumption ==
    /\ Fd \subseteq Nat \ {0} /\ IsFiniteSet(Fd)
    /\ Keyboards \subseteq Incarnation
    /\ MaxTries \in Nat \ {0} /\ MaxMessages \in Nat \ {0}

VARIABLES
    m,          \* managerState
    phase,      \* "starting", "enumerate", "check" and "retry" (the candidates
                \* and retries that are due), "dispatch", "fatal" (reporting an
                \* error), "close", "closed"
    todo,       \* the paths that the loop of this phase has yet to visit
    ready,      \* epoll events not yet handled
    batch,      \* deviceEvents not yet handled
    op,         \* the call of consider or openEnumeratedCandidate in progress
    messages,   \* s.output
    cancelled,  \* s.ctx is done
    wake,       \* the context's callback: "none", "armed", "running",
                \* "written", "stopped"
    faults,     \* number of calls that failed
    feedback,   \* external: LED events the virtual keyboard has queued
    fed,        \* number of LED events of the compositor
    lit         \* external: the incarnations whose LED is on

stepVars == <<phase, todo, ready, batch>>
ledVars == <<feedback, fed, lit>>
managerVars == <<kernelVars, m, stepVars, op, messages, cancelled, wake, faults, ledVars>>

-----------------------------------------------------------------------------
(* physicalDevice and acquisitionRetry; the path is the index of the map.  *)
NoDevice == [generation |-> NoGeneration, fd |-> 0]
NoRetry == [generation |-> NoGeneration, attempts |-> 0, scheduled |-> FALSE]

Exists(entry) == entry.generation # NoGeneration

Active(s) == {p \in Path : Exists(s.byPath[p])}
Pending(s) == {p \in Path : Exists(s.candidates[p])}

NewState ==
    [byPath |-> [p \in Path |-> NoDevice],
     candidates |-> [p \in Path |-> NoDevice],
     retries |-> [p \in Path |-> NoRetry],
     latestSequence |-> [p \in Path |-> 0],
     file |-> [f \in Fd |-> 0],     \* external: the incarnation behind a descriptor
     grabs |-> {},                  \* external: the descriptors with EVIOCGRAB
     locks |-> "unknown"]           \* LockState

(* open(2) returns the lowest descriptor that is free.                     *)
FreeFd(s, fd) == s.file[fd] = 0 /\ \A f \in Fd : s.file[f] = 0 => fd <= f

(* EVIOCGRAB(0) and close(2) of the descriptors in S; 0 is no descriptor.  *)
CloseFds(s, S) ==
    [s EXCEPT !.file = [f \in Fd |-> IF f \in S THEN 0 ELSE s.file[f]], !.grabs = @ \ S]

CloseFd(s, fd) == CloseFds(s, {fd})

(* Mutant: the descriptor of the keyboard stays open.                      *)
ForgetActive(s, p) == [s EXCEPT !.byPath[p] = NoDevice]

RemoveActive(s, p) == [CloseFd(s, s.byPath[p].fd) EXCEPT !.byPath[p] = NoDevice]

RemoveCandidate(s, p, fd) == [CloseFd(s, fd) EXCEPT !.candidates[p] = NoDevice]

(* Mutant: the attempts of the previous generation are counted.            *)
RetryOfAny(s, p, generation) == [s.retries[p] EXCEPT !.generation = generation]

RetryOf(s, p, generation) ==
    IF s.retries[p].generation = generation
      THEN s.retries[p] ELSE [NoRetry EXCEPT !.generation = generation]

ScheduleRetry(s, p, generation) ==
    LET r == RetryOf(s, p, generation)
    IN [s EXCEPT !.retries[p] = [r EXCEPT !.scheduled = r.attempts < MaxTries]]

(* Mutant: no limit.                                                       *)
MayAlways(s, p, generation) == TRUE

(* beginRetry: whether it may, and the attempt it records.                 *)
MayBegin(s, p, generation) == RetryOf(s, p, generation).attempts < MaxTries

BeginRetry(s, p, generation) ==
    LET r == RetryOf(s, p, generation)
    IN IF ~Exists(s.retries[p]) THEN s
       ELSE [s EXCEPT !.retries[p] =
                [r EXCEPT !.attempts = @ + 1, !.scheduled = FALSE]]

ForgetRetry(s, p) == [s EXCEPT !.retries[p] = NoRetry]

(* The parts of activate that change the maps.                             *)
Activated(s, p) ==
    LET device == s.candidates[p] IN
    [ForgetRetry(s, p) EXCEPT !.candidates[p] = NoDevice, !.byPath[p] = device,
                              !.grabs = @ \cup {device.fd}]

-----------------------------------------------------------------------------
NoOp == [step |-> "none", path |-> CHOOSE p \in Path : TRUE,
         generation |-> NoGeneration, fd |-> 0, startup |-> FALSE]

ManagerInit ==
    /\ KernelInit
    /\ m = NewState
    /\ phase = "starting" /\ todo = {} /\ ready = <<>> /\ batch = <<>> /\ op = NoOp
    /\ messages = <<>> /\ cancelled = FALSE /\ wake = "none"
    /\ faults = 0 /\ feedback = <<>> /\ fed = 0 /\ lit = {}

Works == UNCHANGED faults
Fails == faults < MaxFaults /\ faults' = faults + 1

(* A call on incarnation i: it fails by itself once the device is gone.    *)
CallFails(i) == IF Alive(i) THEN Fails ELSE Works

(* sendMessage: there is room, or the context is done.                     *)
Sends(kind, p) ==
    /\ Len(messages) < MaxMessages
    /\ messages' = Append(messages, [kind |-> kind, path |-> p])

(* Mutant: shutdown does not break off a send.                             *)
NeverAborted == FALSE

Aborted == cancelled /\ UNCHANGED messages

(* The LEDs of the incarnations in S are written, when the compositor has  *)
(* told their state.                                                       *)
Written(locks, S) ==
    CASE locks = "on" -> lit \cup S [] locks = "off" -> lit \ S [] OTHER -> lit

(* syncDeviceLEDs for each of S; a failure of one is only logged.          *)
SyncLEDs(locks, S) ==
    \/ Works /\ lit' = Written(locks, S)
    \/ \E i \in S : locks # "unknown" /\ Fails /\ lit' = Written(locks, S \ {i})

(* The loop ends without reporting an error.                               *)
Leave ==
    /\ phase' = "close" /\ todo' = {} /\ ready' = <<>> /\ batch' = <<>> /\ op' = NoOp

-----------------------------------------------------------------------------
(* openCandidate and openEnumeratedCandidate, call by call, up to          *)
(* acceptCandidate and activate.                                           *)
Opening(step) ==
    /\ op.step = step
    /\ UNCHANGED <<kernelVars, stepVars, cancelled, wake, feedback, fed>>

Quiet == UNCHANGED <<messages, lit>>

Goes(step) == m' = m /\ op' = [op EXCEPT !.step = step]
Ends(s) == m' = s /\ op' = NoOp

Closed == CloseFd(m, op.fd)
ClosedForRetry == ScheduleRetry(Closed, op.path, op.generation)

(* errEventNodeChanged, or a node to be ignored.                           *)
Ignored == IF op.startup THEN Closed ELSE ForgetRetry(Closed, op.path)

(* open(2).  At startup a node that cannot be opened is still identified.  *)
OpenNode ==
    /\ Opening("open") /\ Quiet
    /\ LET i == node[op.path] IN
       \/ /\ Alive(i) /\ Works
          /\ \E fd \in Fd :
                /\ FreeFd(m, fd)
                /\ m' = [m EXCEPT !.file[fd] = i]
                /\ op' = [op EXCEPT !.step = "identify", !.fd = fd]
       \/ /\ CallFails(i)
          /\ IF op.startup THEN Goes("identify") ELSE Ends(ClosedForRetry)

(* sysfsDeviceGeneration.  The link exists as long as the device does.     *)
Identify ==
    /\ Opening("identify") /\ Quiet
    /\ LET i == node[op.path]
           found == DevPathOf[i]
       IN \/ ~Alive(i) /\ Works /\ Ends(IF op.startup THEN Closed ELSE ClosedForRetry)
          \/ /\ Alive(i) /\ op.startup /\ Works
             /\ m' = m
             /\ op' = [op EXCEPT !.step = "floor", !.generation.devPath = found]
          \/ /\ Alive(i) /\ ~op.startup /\ Works
             /\ IF found = op.generation.devPath THEN Goes("validate") ELSE Ends(Ignored)

(* kernelUeventSequence, after the descriptor and its DEVPATH were obtained; *)
(* without it startup is given up.                                         *)
SampleFloor ==
    /\ op.step = "floor" /\ Quiet
    /\ LET generation == [op.generation EXCEPT !.sequenceFloor = seqnum] IN
       \/ /\ Works /\ UNCHANGED stepVars
          /\ IF op.fd = 0 THEN Ends(ScheduleRetry(m, op.path, generation))
             ELSE m' = m /\ op' = [op EXCEPT !.step = "validate", !.generation = generation]
       \/ /\ Fails /\ Ends(Closed)
          /\ phase' = "fatal" /\ todo' = {} /\ UNCHANGED <<ready, batch>>
    /\ UNCHANGED <<kernelVars, cancelled, wake, feedback, fed>>

(* validateNodeIdentity: stat(2) the path and compare with the descriptor. *)
Validate ==
    /\ Opening("validate") /\ Quiet /\ Works
    /\ LET i == node[op.path] IN
       \/ i = m.file[op.fd] /\ Goes("probe")
       \/ i = 0 /\ Ends(ClosedForRetry)
       \/ i \notin {0, m.file[op.fd]} /\ Ends(Ignored)

(* probeCandidate.  What acceptCandidate asks before it activates, activate *)
(* asks again, to the same effect.                                         *)
Probe ==
    /\ Opening("probe") /\ Quiet
    /\ LET i == m.file[op.fd] IN
       \/ /\ Alive(i) /\ i \in Keyboards /\ Works
          /\ m' = [m EXCEPT !.candidates[op.path] =
                      [generation |-> op.generation, fd |-> op.fd]]
          /\ op' = [op EXCEPT !.step = "acquire"]
       \/ Alive(i) /\ i \notin Keyboards /\ Works /\ Ends(Ignored)
       \/ CallFails(i) /\ Ends(ClosedForRetry)

CandidateFails(s) ==
    ScheduleRetry(RemoveCandidate(s, op.path, op.fd), op.path, op.generation)

(* Mutant: the keyboard is grabbed and not announced.                      *)
AcquireSilently ==
    /\ Opening("acquire") /\ Quiet /\ Works
    /\ Alive(m.file[op.fd])
    /\ Ends(Activated(m, op.path))

(* Mutant: the LEDs of a new keyboard are left alone.                      *)
AcquireUnlit ==
    /\ Opening("acquire") /\ Works /\ UNCHANGED lit
    /\ Alive(m.file[op.fd])
    /\ Sends("resync", op.path)
    /\ Ends(Activated(m, op.path))

(* activate: acquireIdleDevice, the LEDs and the first snapshot.  When the *)
(* context is done, the caller takes the aborted send for a failed         *)
(* acquisition, closes the descriptor and leaves the keyboard in byPath.   *)
Acquire ==
    /\ Opening("acquire")
    /\ Alive(m.file[op.fd])
    /\ SyncLEDs(m.locks, {m.file[op.fd]})
    /\ LET s == Activated(m, op.path) IN
       \/ Sends("resync", op.path) /\ Ends(s)
       \/ Aborted /\ Ends(CandidateFails(s))

(* Keys are held, or a call failed.                                        *)
NotAcquired ==
    /\ Opening("acquire") /\ Quiet
    /\ \/ Alive(m.file[op.fd]) /\ Works /\ Ends(m)
       \/ CallFails(m.file[op.fd]) /\ Ends(CandidateFails(m))

AcquisitionStep ==
    \/ OpenNode
    \/ Identify
    \/ SampleFloor
    \/ Validate
    \/ Probe
    \/ Acquire
    \/ NotAcquired
=============================================================================
