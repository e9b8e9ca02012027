------------------------------- MODULE Uevents ------------------------------
(***************************************************************************)
(* The event nodes of the kernel, the uevents about them and what          *)
(* linuxinput/udev_linux.go makes of these.                                *)
(*                                                                         *)
(* node, seqnum, udevd and monitor are external.  A node (event4) is used  *)
(* by one incarnation after another, numbered as they are plugged in; the  *)
(* number stands for the inode.  The kernel numbers its uevents, udevd     *)
(* applies its rules and sends each event on.  It keeps the order of the   *)
(* events of one DEVPATH; systemd's keeps also that of the events of one   *)
(* device number, and so of one node (OrderedByNode).                      *)
(***************************************************************************)
EXTENDS Naturals, SequencesExt

CONSTANTS
    Path,           \* /dev/input/event<n>
    MaxPlugs,       \* bound on the number of incarnations
    DevPathOf,      \* the DEVPATH of each incarnation
    OrderedByNode   \* whether udevd keeps the order of the events of a node

Incarnation == 1 .. MaxPlugs

ASSUME DevPathAssumption ==
    /\ Path # {} /\ MaxPlugs \in Nat /\ OrderedByNode \in BOOLEAN
    /\ DevPathOf \in [Incarnation -> Nat \ {0}]

VARIABLES
    node,       \* the incarnation at each path, or 0
    plugs,      \* number of incarnations so far
    seqnum,     \* /sys/kernel/uevent_seqnum
    udevd,      \* uevents that udevd has not sent on
    monitor     \* deviceEvents queued on the manager's netlink socket

kernelVars == <<node, plugs, seqnum, udevd, monitor>>

-----------------------------------------------------------------------------
(* deviceEvent and deviceGeneration; NoGeneration is the zero value.       *)
DeviceEvent(action, p, i, seq) ==
    [action |-> action, path |-> p, devPath |-> DevPathOf[i], seqNum |-> seq]

NoGeneration == [devPath |-> 0, sequenceFloor |-> 0, observedAdd |-> FALSE]

GenerationFromEvent(event) ==
    [devPath |-> event.devPath, sequenceFloor |-> event.seqNum, observedAdd |-> TRUE]

AdoptObservedAdd(current, observed) ==
    [current EXCEPT !.sequenceFloor = IF observed.sequenceFloor > @
                                        THEN observed.sequenceFloor ELSE @,
                    !.observedAdd = TRUE]

GenerationMatchesRemoval(generation, event) ==
    generation.devPath = event.devPath /\ generation.sequenceFloor < event.seqNum

(* The test of acceptEventSequence; the caller records the number.         *)
AcceptEventSequence(latest, event) == event.seqNum > latest[event.path]

-----------------------------------------------------------------------------
KernelInit ==
    /\ node = [p \in Path |-> 0]
    /\ plugs = 0 /\ seqnum = 0
    /\ udevd = <<>> /\ monitor = <<>>

Emit(action, p, i) ==
    /\ seqnum' = seqnum + 1
    /\ udevd' = Append(udevd, DeviceEvent(action, p, i, seqnum + 1))

Plug(p) ==
    /\ node[p] = 0 /\ plugs < MaxPlugs
    /\ plugs' = plugs + 1
    /\ node' = [node EXCEPT ![p] = plugs + 1]
    /\ Emit("add", p, plugs + 1)
    /\ UNCHANGED monitor

Unplug(p) ==
    /\ node[p] # 0
    /\ node' = [node EXCEPT ![p] = 0]
    /\ Emit("remove", p, node[p])
    /\ UNCHANGED <<plugs, monitor>>

(* udevd has applied its rules to the event; it is lost on those who have  *)
(* not subscribed yet.                                                     *)
SendOn(subscribed) ==
    /\ \E i \in DOMAIN udevd :
          /\ \A j \in 1 .. i - 1 : /\ udevd[j].devPath # udevd[i].devPath
                                  /\ OrderedByNode => udevd[j].path # udevd[i].path
          /\ udevd' = RemoveAt(udevd, i)
          /\ monitor' = IF subscribed THEN Append(monitor, udevd[i]) ELSE monitor
    /\ UNCHANGED <<node, plugs, seqnum>>

(* The incarnation has not been unplugged.                                 *)
Alive(i) == i # 0 /\ \E p \in Path : node[p] = i
=============================================================================
