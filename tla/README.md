# A verification development for eakd and eakc

`eakd` grabs the keyboards of a machine, recognizes chords, forwards everything
else to a virtual uinput keyboard and broadcasts the actions of recognized
chords on a socket; `eakc` runs the commands that a user attached to them.
What can go wrong is rarely a single line: a key that stays down because its
press was forwarded and its release consumed, input that waits for a decision
nobody will take, a client that ends in three goroutines at once. This
directory models the two programs in TLA+, checks the models with TLC and
proves what TLAPS can prove. It is written from the Go source.

## Inventory

| Part (source) | State | Operations | Interacts with | Hard behaviour |
|---|---|---|---|---|
| Chord engine (`internal/engine`) | physical keys, logical counts, dispositions, mode, candidate, journal, live remaps | `HandleFrame`, `HandleTimeout`, `Reconcile`, `Close` | called by the main loop, returns ordered operations | disposition of a press across frames, release and repress in one frame, reservation without deadline, snapshot or shutdown in the middle of a chord |
| Forwarder (`linuxinput/forwarder_linux.go`) | keys per owner, counts per key | `Frame`, `Resync` | writes to uinput | keys shared by keyboards and remaps |
| Main loop (`cmd/eakd`, `run`) | timer | the cases of the select, `apply` | manager, engine, forwarder, server | errors between two operations, shutdown, stale ticks |
| Configuration, key names (`internal/config`, `internal/keycode`) | none | `compile`, `Canonical` | input of the engine | ambiguous chords |
| Action server (`action/server_linux.go`) | slots per user, queue per client | `Serve`, `addClient`, `Publish`, writers, watchers, shutdown | main loop, clients | four ways to end one client |
| Action client (`action/client_linux.go`) | connection, delay | `Run`, `readNotifications`, `waitForRetry` | server, executor | reconnection, shutdown while blocked |
| Executor, `cmd/eakc` | queue, worker pool | `Runner.Run`, `execute`, `run` | client | full queue and busy pool at shutdown |
| Device manager (`linuxinput/manager_linux.go`) | devices, candidates, retries, generations | enumeration, epoll loop, acquisition, `readReady`, cleanup | kernel, udevd, main loop | idle handoff before `EVIOCGRAB`, `SYN_DROPPED`, nodes that change hands between two calls, descriptors that are reused, full channel at shutdown |
| udev monitor (`linuxinput/udev_linux.go`) | latest sequence per path | event ordering, generations | manager | enumeration racing with events |
| Lock LEDs (`linuxinput/locks_linux.go`) | last known LEDs | `SetLED`, copies to keyboards | manager, compositor | keyboards that come while LEDs change |
| uinput, system calls, configuration files, systemd, user configuration | descriptors | I/O | all | none that a model reaches |

What makes them correct: every press is forwarded or consumed exactly once and
for its whole lifetime; the virtual keyboard shows the union of what keyboards
and remaps hold, and nothing when they hold nothing; no input waits for ever
except behind a reserved modifier the user holds; a user has one connection,
which gets every action in order until it is dropped; every open descriptor
belongs to one device that is tracked, and the main loop is told which; a keyboard
changes hands between display server and daemon with no key down; shutdown always ends.

## Modules

| Module | Models | |
|---|---|---|
| `Keymap` | what `compile` accepts, key names, owners of virtual keys | constants and assumptions |
| `Engine` | the engine and its calls | extends `Keymap` |
| `Forwarder` | reference counts; `virtual` is the kernel's device | extends `Keymap` |
| `VirtualKeyboard` | what the forwarder promises the display server | abstract specification |
| `Broker` | main loop, engine and forwarder together | extends `Engine`, `Forwarder` |
| `ActionServer` | the accept loop and client goroutines | |
| `ActionClient` | `eakc`: client, dispatcher, workers, main | |
| `Uevents` | event nodes, uevents, udevd; generations and sequence numbers | mostly external |
| `Acquisition` | the manager's state, and how it opens and grabs one keyboard, call by call | extends `Uevents` |
| `Manager` | enumeration, the epoll loop and its handlers, cleanup | extends `Acquisition` |
| `Daemon` | the manager's goroutine, its context callback, the channel and the main loop's shutdown | extends `Manager` |
| `Handoff` | one keyboard: idle handoff, reading and `SYN_DROPPED` recovery with the kernel's event queue | |
| `Lists` | what `Kept` leaves of a sequence | used by `Engine` and others |
| `SequenceLemmas` | facts about `Kept`, `FlattenSeq`, mapped lists, prefixes, and what a list of operations does to one key | lemmas |
| `EngineLemmas` | what each operator of `Engine` keeps | lemmas |
| `EngineProofs`, `ActionServerProofs`, `ActionClientProofs`, `HandoffProofs`, `DaemonProofs` | theorems | extend the component |
| `BrokerProofs` | theorems about `Forwarder` and `Broker` | extends `Broker`, `EngineProofs` |
| `Scenarios`, `MC*` | small instances for TLC | |

Definitions keep the source's names. A definition whose comment begins with
"Mutant" is a plausible mistake in the definition that follows it; replacing the one by the
other must violate a property, which shows that the property can fail at all.

### From the engine to `Engine`

* `e` is the Go struct. A `*press` is a triple of keyboard, code and lifetime;
  the field `route` lives in the function `e.route`. A lifetime number is free
  when nothing references the press any more (`Referenced`), so `MaxLives`
  bounds how many lifetimes of one key are alive at once, not how often it is
  pressed. Maps keyed by logical key (`members`, `carry`) are sets of presses.
  `seq = nil` is `~Matching`.
* `Resolve`, `Idle`, `Fail`, `Drain`, `Advance`, `CompleteFrame` and so on are
  functions from engine to engine, one per method or per part of a long one.
  `Drain` and `Drained` are the two results of `drain`.
* `HandleFrame` is `BeginFrame`, one `HandleEvent` per input event,
  `AdvanceStep` for each call of `advance` and `EndFrame`. While a frame is
  open nothing else is enabled, as the engine is used by one goroutine.
  Taking events one by one makes all frames of up to `MaxFrameEvents` events
  reachable without enumerating sequences.
* The deadline is a Boolean, armed or not. Time passes by choice: `Timeout` and
  the argument `late` of `BeginFrame` are any moment after the deadline.
* A journalled frame keeps its events and outputs in order, `dropScan`, and the
  route of its candidate (`"none"`, `"undecided"`, or as resolved).
* `SYN_REPORT` events are left out: a frame's key events, scan codes and LED
  events reach the forwarder one operation each. Key values other than 0, 1, 2
  are ignored by the code and left out.
* Owners `eakd-remap:<n>` are numbered without end in the code and drawn here from
  the pool `HoldDevice`; an owner is reused only when no activation, journal
  entry or pending operation names it.
* `Close` may be followed by further input in `MCEngine`, which the daemon never
  does; it only makes the checks stronger. In `Broker` the daemon stops.

### `Forwarder`, `Broker`

`KeyEmitted` is the result of `keyEvent`, `KeyEvents` its effect; `Resync` applies it to
the keys that left and the keys that came. `Broker` has one action per case of
the select and `ApplyOutput` for one operation of a result; a case is served
only when `out` is empty. `WriteError` and `FatalError` end the process between two operations, `Shutdown`
and `Exit` end it through `Close`, `Restart` begins a new one with a new virtual
keyboard. `apply` ends with `resetTimer`, so the timer is armed exactly when
`e.deadline` is. What the device manager sends is arbitrary: any frame or snapshot at any time.

### `ActionServer`, `ActionClient`

Sections under the server's mutex are one step, and a goroutine's step ends
where it may block. `addClient` and the two `go` statements are separate steps.
Peers connect, leave, send forbidden data and read or do not read as they like.
In `ActionClient` a dial fails or succeeds, lines arrive and connections end at any time, and
commands run as long as they like until the context kills them; a `select` with
two ready cases takes either.

### `Uevents`, `Acquisition`, `Manager`, `Daemon`

* `m` is `managerState`: `byPath`, `candidates` and `retries` are functions on all
  paths, where an entry without a generation is one the map does not have. `byFD`
  always mirrors `byPath` and is derived (`ActiveFd`). `m.file` and `m.grabs` are
  the kernel's side of the manager's descriptors: which device is behind a number and
  whether it is grabbed. Numbers are reused as open(2) does, lowest first.
* A node is used by one *incarnation* of a device after another, numbered as they
  are plugged in; the number stands for what stat(2) and fstat(2) compare. `DevPathOf` says
  which DEVPATH each has.
* `phase` says where the loop of `Run` stands, `todo` which paths a loop over a map has
  yet to visit, `ready` and `batch` what the last epoll wait and the last read of
  the monitor returned. `op` is the call of `consider`, `acceptCandidate` or
  `openEnumeratedCandidate` in progress; its steps end where a system call may
  see a different world: open, sysfs link, `uevent_seqnum`, stat, probe, grab.
* A call on a device that is gone fails by itself; any other call may fail
  while `faults` is below its bound. `activate` grabs, sets the LEDs and sends the first
  snapshot as one action; its inner sequence of queries is `Handoff`.
* `sendMessage` changes the channel in the step that changes the maps: between
  the two the goroutine only waits for room, with nothing shared but the channel.
  When the context is done the send is aborted instead, also with room (a Go
  select takes either).
* `acceptEventSequence` is used as in the code: the number is recorded by the
  action that handles the event. An event that `handleAdd` or `handleRemove` has in hand when
  the send is aborted is lost with the rest of the batch, as the loop returns.
* The wake-up callback of the context is `wake`: armed by `Subscribe`, running
  when the context is cancelled, written when it has written to the pipe. `Close` waits for it
  unless it can be stopped before it starts.
* `Daemon` adds the main loop as far as the manager can tell it apart: it takes
  messages, leaves the loop for any of the code's reasons, and runs the deferred calls:
  cancel, wait for the manager, destroy the virtual keyboard. What it does
  with frames is `Broker`; `known` is the set of keyboards it has been told of.
* Keyboards that appear, uevents and LED events can come at any time. Uevents and LED
  events are modelled as arriving just before the manager looks (`Notices`),
  since nothing can tell their arrival apart before; keyboards come and go between any two calls.

### `Handoff`

The kernel's side of one evdev client is written out: the queue that is
replaced by `SYN_DROPPED` and the newest event when full, and the effect of
`EVIOCGKEY`, which removes the key events that its answer makes obsolete. `step` is the
next call of `acquireIdleDevice` or `readReady`, `frame` and `dropping` are the
fields of `physicalDevice`. `direct` is what the display server
holds, `believed` what the engine takes to be down. Keys move between any two steps, with one
restriction, the assumption `Prompt` in the guard of `Move`: a key that is down at `EVIOCGRAB`
is not let go before the query that follows. The code cannot do without it, which is the second finding below.
`overtaken` is a history variable that no guard reads. `QueryState` puts into it the keys of which
`EVIOCGKEY` takes the latest event out of the kernel's queue while an earlier one is still in the reader's buffer;
a key leaves it when it moves again, or with the device. `BelievedAgrees` speaks of all
other keys; see the limit described with the findings.

## Runs

| Run | Question | Instance |
|---|---|---|
| `forwarder` | Are the counts exact, and is the virtual keyboard the union of its owners? | two keyboards, tap owner, one remap, three keys: complete state space |
| `chords` | Are dispositions committed once, does the journal wait only for the candidate, does a deadline cover every wait? | a prefix with two bindings and a held remap, one keyboard, three keys, two lifetimes, frames of two events, journal of size 5 |
| `reservation` | What may a reservation without deadline hide, and what bounds its journal? | reserved modifier with two keys, held remap, repeats, scan codes, LEDs, journal of size 8 |
| `broker` | Do the keys that the display server sees agree with keyboards and remaps, through snapshots, errors and shutdown? | two keyboards, held and tapped remap, one event per frame, journal of size 3 |
| `withheld_input` | Is every press decided? | a prefix that is one modifier, fair timer |
| `overlapping_bindings` | Is a published action's chord the one that was pressed? **No**, see below | bindings `{one}` and `{one, two, three}` |
| `action_server` | One connection per user, no panic on a channel, delivery in order; is a slot always given up, does shutdown end every goroutine? | two connections of one user, two actions, queue of 1, fair goroutines |
| `action_client` | Started in order, nothing lost before shutdown, free workers used, no hanging shutdown? | two workers, queue of 1, four notifications |
| `daemon` | Is every descriptor held once and closed once, the main loop told, cleanup in order, do LEDs follow? | one node, two incarnations of which the second is a keyboard, two descriptors, one failing call, one LED event, a channel of 1, udevd reordering |
| `daemon_live` | Does the manager end up with the keyboard that is there? Does shutdown end with a full channel? | one node, two keyboards one after the other, one failing call, a channel of 1, fair goroutines |
| `handoff` | Does the engine know the keys that are down, and the display server none of a keyboard taken over? | two keys, seven movements, queue of 4, reads of 3, one failure |
| `grab_race` | The same without the assumption `Prompt`. **No**, see below | as `handoff`, three movements |

Bounds. `MaxJournal` bounds the number of journalled frames and records from which on
no *new* frame arrives; everything else still happens, so a full journal is
resolved by a timeout, a snapshot, or shutdown. Size 5 holds three one-event
frames or two two-event frames, enough for a modifier, a second key and a
third event that decides; larger sizes repeat these. Two lifetimes per key are what a release and repress
in one frame or one candidate needs. In `chords` and `reservation` frames have
two events because `advance` replays the history of a frame when a modifier
follows another key, and because a chord that completes and breaks in one frame
is a special case of `activate`. `broker` has one event per frame, but adds the second keyboard,
whose events share logical keys. Two actions against a queue of one make a queue overflow.

In `daemon` the first incarnation is no keyboard, so that a node changes from one
that is ignored to one that is grabbed while a call is in progress; `daemon_live` has two
keyboards. Each incarnation has a DEVPATH of its own (`MCDevPathOf`), as the kernel numbers input
devices afresh. Two descriptors are one more than one node
needs, so that a leak shows as a leak and not as a call that waits; a second node adds no
interaction but the order of `ready` and of the loops over maps. One failing call is
allowed anywhere, with two attempts (`MaxTries`) where the code has 5 (`maxReacquisitionTries`), and so a retry that succeeds or
is given up. A channel of 1 is full after any message. In `handoff` a queue of 4
holds two key events with their reports, so that a third overflows it, and a read of 3 events
cuts a frame in two; seven movements are enough to overflow it while the keyboard is opened, and again
once it is read, with a key moving before the query that recovers.
Each passing run visits its complete bounded state space.

What these instances leave to the theorems: `action_server` has no user who is not allowed, so
that half of `OneConnectionPerUid` rests on `ServerOneConnection`. `daemon` has one LED event
and one keyboard among the incarnations, so `LedsFollow` when a lock is set and cleared again rests on `DaemonLeds`,
and two keyboards that replace each other are covered by `daemon_live` for `KeyboardsSettle` and `DaemonEnds` and by `DaemonDescriptors` and
`DaemonAnnounced` for the rest. `Close` of the manager is one step: that it stops or
waits for the callback before it closes the pipe is read off the code, and `CleanupOrder`
checks that the callback is over when the manager is, from wherever its loop ends.

Deadlock is checked except in the action server, the client and the daemon, which really stop, and in
`Handoff`, where the number of movements is bounded. In
the engine and the main loop a state without a successor would be an error.

Fairness. `withheld_input` assumes that a frame in progress is finished,
that results are applied (weak fairness: one goroutine, no waiting), and that a
passed deadline is seen by the timer's case or by the next frame: strong fairness of
`Expire`, since it is disabled while a result is applied. This is what Go's select
gives, which picks among ready cases at random, with deadlines that are not moved while the
engine waits for them. The action server assumes that runnable goroutines run and
that a cancelled context ends the accept loop; a peer is never assumed to read
or to leave. The client assumes the same; no command is assumed to end before
its context does. In `daemon_live` the manager's goroutine, the callback, udevd and the main loop
run (weak fairness); deadlines pass, so that maintenance is due again and again
(strong fairness of `LoopTop(TRUE)` and of `Checked(Path)`), and a keyboard is found idle
again and again (strong fairness of `Acquire`): a user who never lets go of a key keeps
it from being grabbed for ever, which is what the code wants. Nobody is assumed to
unplug anything, to cancel, or to make a call fail.

`OrderedByNode`. `KeyboardsSettle` assumes that udevd keeps the order of the
uevents of one event node, as systemd-udevd does for one device number. The code needs it:
`acceptEventSequence` compares a number with the latest number *seen* for the path, not with the
floor of the generation that enumeration found; an add of an earlier device of the node that
udevd sends on late would replace a keyboard that is there by one that is not, and
the keyboard is lost if its own add had been sent before the manager subscribed. The safety properties
(`daemon`) hold without this assumption.

### The findings

`PublishedChordExact` says of a published action that the keys pressed for it are
those of its chord (`docs/eakd-design.md:211-215`: "complete configured chord
pressed and released", "impossible chord or timeout -> replay"). In a
continuation `advance` removes the bindings that do not contain a newly pressed
key from `possible`, but keeps `matched`; with bindings `{one}` and
`{one, two, three}` pressing `one`, then `two`, and releasing both publishes the
action of `{one}` and swallows `two`.

`CleanHandoff`, without `Prompt`: `acquireIdleDevice` queries the keys, drains the queue, queries again,
grabs and queries once more; the comment at `manager_linux.go:860` calls the last query a "post-grab state check to detect a
keypress that raced with EVIOCGRAB". A key that goes down after the second query, and up after the grab
and before the third query, is in none of them: the display server has seen its press and
never sees its release.

A limit of the recovery, which is no run of its own. After `SYN_DROPPED`, `readReady` asks for the keys at the
report that ends dropping (`manager_linux.go:905-919`) and then goes on with the rest of the events it had read
before it asked. If one of them says that a key goes down and its release comes
between the read and `EVIOCGKEY`, the answer says up, the kernel takes the release out of the queue, and the older press is
forwarded after the snapshot: the key stays down for the engine until it moves again. `docs/eakd-design.md:150-153` says
that the snapshot "prevents a lost release from leaving a virtual modifier permanently
held", which this narrow window does not keep. `BelievedAgrees` excepts these keys and no others, as
`overtaken`; without the exception TLC finds the behaviour in the instance of the run `handoff`.

## Proofs

TLAPS checks, for all keyboards, keys, remaps, users, connections and capacities that
meet the assumptions of `Keymap`, `ActionServer`, `Handoff`, `Uevents` and `Acquisition`:

* **Chord engine** (`EngineProofs`, on `EngineLemmas`): `EngineTypes`, `EngineNoPanic`, `EngineDeadline`,
  `EngineWaits`, `EngineStable`, `EngineTracks`, `EngineLeftovers`, `EngineActivations`,
  `EngineReservation`, `EngineJournalBound`, for any keys, chords, keyboards, frames and journals. None of
  them is inductive. The inductive invariant `EngineInv` has three parts. `Sound` is about
  the engine alone: types; `logicalCount` is the number of held keys (`Counted`), so it never
  drops below zero; what a candidate may become is configured in its mode, and there
  is a candidate in no other (`Configured`); what it owns is undecided; deadlines; frames without
  a device hold outputs only. `Decided` says who decides: a press that is referenced and
  undecided is owned by the candidate, or began in the frame in progress; at the end of the frame
  `ForwardFresh` forwards the latter, and so a frame at which `drain` stops waits for the
  candidate (`DrainedWaits`). `FrameInProgress` ties the locals of `HandleFrame` to
  the journal: its last frame is the one in progress, and a press that `advance` is called
  with is in it. What the proof carries from call to call is `Evolves(x, y, N)`: apart
  from the new presses `N` nothing is referenced anew, nothing decided changes, and what leaves
  the candidate is decided. It is transitive, every method has a lemma that states it
  (`FailKeeps`, `AdvanceKeeps`, `DrainKeeps`, `SnapshotKeeps`, ...), and
  `DispositionStable` is its second conjunct. `OwnerLeft` shows that a hold that completes finds an owner, since
  one frame takes one at most. Finitely many codes and owners are assumed (`KeyAssumption`,
  `OwnerAssumption`): a key code has 16 bits.
  `EngineTracks`, `EngineLeftovers` and `EngineActivations` need a second invariant, `HeldInv`, inductive relative to `EngineInv`. Its difficulty
  is that a candidate which begins in the middle of a frame is advanced with all the frame's transitions,
  those before it included, so that it lags behind `physical`: `Trail` says that the transitions
  lead from some sets of held keys to the present one, with the leftovers of earlier chords down in all
  of them, and `Tracks(e, A)` that the candidate agrees with the first of these sets, `A`. `Tracks` needs in
  turn that a candidate has one member per logical key and that a hold chord that is unbroken has its members
  and its driver down, since `complete` moves them to `active` and to `reuse`. Of these `Leftovers` and
  `Remaps` say what the theorems do, and `LeftoversKeep` and `RemapsKeep` that whatever
  decides nothing anew keeps them.
  The two theorems about a reservation need a third one, `ReservedInv`, inductive relative to both. The frame in
  progress may hold what a reservation must not hide until it ends, when `Trapped` and `DropChatter` decide about
  it, so the invariant is about the frames before it (`WithheldFrames`). An event that does not end the
  reservation is chatter, a scan code, a press that begins or the release of a key that is down (`CoveredKey`). The
  first of these leaves no record; a press that begins is of a lifetime that no record names, and a release
  that is recorded ends its lifetime (`OnceEach`), so no record comes twice. The rest is about `ForwardFresh`, which must
  show no press of a journal that goes on being withheld: a candidate begins only in the first frame of a
  journal, whose earlier presses are then offered to it from `history`, and one that survives a press
  owns it (`AdvanceGoesOn`). A chord that takes effect leaves no reservation (`CompleteFrameMode`).
* **Forwarder** (`BrokerProofs`, first part): `ForwarderTypes`, `ForwarderCounts`, `ForwarderUnion`,
  `ForwarderWrites`, `ForwarderRefinement`. `VirtualIsUnion` is not inductive by itself: whether
  a release is written depends on the count. The inductive invariant is
  `ForwarderTypeOK /\ CountsExact /\ VirtualIsUnion /\ EntriesCoverDown`. The argument is about one
  key at a time: `HoldersStep` says how `KeyEvents` changes its holders,
  `CountStep` that the count moves with their cardinality (this needs finitely
  many owners, `OwnerAssumption`), and a count of one or zero tells whether the
  owner is the only or the first one. The refinement maps each operation to `Hold` or `Destroy` of
  `VirtualKeyboard`, or to a stutter.
* **Main loop** (`BrokerProofs`, on the second half of `EngineProofs`): `BrokerOwnership`, `BrokerRemapOwners`,
  `BrokerAllUp`, `BrokerClose`, for any keys, chords, keyboards, remaps, frames and journals. What the
  forwarder holds lags behind what the engine decided by two lists, the operations in `out` and those that the
  journal will become, and which these are depends on presses nobody has decided. So the invariant `FlowInv` is
  about all their fates: for every `fate` that agrees with the dispositions taken (`Agrees`),
  the forwarder's maps with `out` applied (`AppliedKeys`, `AppliedNames`) and then with the operations of the
  journal under `fate` (`Ops`) give every owner exactly what it is to have (`Wanted`): a keyboard its
  keys whose press is forwarded, a remap its target, the tap owner nothing. Quantifying over fates makes it
  inductive: a decision leaves fewer fates (`FlowStands`), `drain` moves operations from one list to the other
  (`DrainOps`, `FlowDrain`), and `apply` from the second into the maps (`ApplyFlow`). What is left are the steps
  that want something else than before, and each of them appends the operations that say so:
  an owner either follows them (`Follows`) or is reset by them (`Resets`), which `FlowStep` turns into the invariant.
  An event is recorded for its keyboard while the remaps it ends record theirs
  (`HandledFlow`); a chord that completes records its press, or its tap (`CompleteFrameFlow`). `Reconcile` and `Close`
  are the hard ones, because they drop journalled input that was never shown: the owners
  concerned are reset by the snapshot or by the stops and releases that follow, and for all others nothing that was
  dropped spoke of them (`CancelledFlow`, `StopEndedFlow`, `SnapshotFlow`, `ResyncFlow`, `ClosingFlow`).
  How a list of operations acts on one key is `After` in `SequenceLemmas`: the last operation
  that presses or releases it decides, or else what was before.
  `FlowInv` needs that a physical key has one press at a time (`OneLife`), that only keys and no outputs are journalled
  on a keyboard's behalf (`GoodRecords`), and that a frame of mere chatter which `DropChatter` drops holds scan codes only
  (`Chat`). `BrokerAllUp` needs besides that no candidate waits for nothing: one that has matched has a member
  that is down, or it would have been completed, and one that has not has all its members down (`Cand`, with `Tracks`).
  All of these, with `EngineInv`, `HeldInv`, the forwarder's invariant and what `Close` empties (`Shut`), are `BrokerInv`,
  which `BrokerInvariant` proves for `BrokerSpec`. From it the four
  properties follow by reading it for owners of which the journal is silent (`QuietJournal`), under the fate in which
  every undecided press is consumed (`Decisions`).
* **Handoff** (`HandoffProofs`): for any keys, queue, read and channel sizes. `HandoffSeenOnce` and `HandoffClean`
  speak of a keyboard that is read, so the inductive invariant `HandoffInv` says
  what leads there: the keyboard is grabbed from the grab on (`GrabbedInStep`), so nothing queued later is seen by
  the display server, and what was queued before is removed by the query; buffer and frame are empty until then
  (`NothingRead`). This gives `HandoffSeenOnce` whenever keys move. The other part of `CleanHandoff`, that the display server holds no key,
  needs `Prompt`, which `HandoffClean` assumes: what the display server took is then among what is down
  (`DirectDown`), so a query that finds nothing down shows that it holds nothing (`NothingHeld`).
  `HandoffBelieved` proves `BelievedAgrees` without any assumption on when keys move. Its inductive
  invariant `BelieveInv` names the keys `K` that the engine will believe when it has handled the
  messages on their way (`Leads`); `K` and then frame, buffer and queue, one after the other, give what is down
  (`Agrees`; `IngestedConcat` and `IngestedMove` say how a list is cut and how it grows) for all keys but the
  overtaken ones (`AgreeBut`). An overflow breaks this. From there up to the query, what the invariant says is that the last event
  of each key that is left, in buffer and queue together, tells whether it is down. The
  query then splits the two: a key of which the queue holds no event has its last one in the buffer, which agrees with the
  snapshot and changes nothing when it comes after it (`IngestedFollows`, `IngestedBefore`); a key of which only the queue speaks is given by the
  snapshot; and a key of which both do is overtaken.
  That no frame is left behind needs that the rest of a frame is always on its way (`Whole`, `QueueShape`, `BufferShape`).
* **Manager and main loop** (`DaemonProofs`): `DaemonTypes`, `DaemonDescriptors`, `DaemonCleanup`,
  `DaemonAnnounced`, `DaemonLeds`, for any
  paths, descriptors, devices, order of uevents, capacity, retries and failures. What the
  proof is about is that every entry which a step overwrites holds no descriptor, and every descriptor
  which a step closes is held by nothing else. This depends on where the goroutine stands, so the inductive
  invariant `DaemonInv` says it: paths yet to be enumerated are untracked, those to be checked are
  candidates, those to be retried have a retry (`TodoStands`), and the path of a call in progress is
  untracked until it is a candidate (`OpStands`). Of the maps, `Kept` says that an entry has a
  descriptor and a path at most one of them (`Entries`), that all that is open is tracked (`Covered`), and, until
  shutdown, that all that is tracked is open and held once, and grabbed if it is active (`Exact`).
  `Exact` must end with shutdown: the aborted send of `activate` leaves a closed keyboard in `byPath`.
  `Covered` does not, and it is what `close` needs to close everything (`AllIsClosed`), whence `EndStands` and
  `CleanupOrder`. Each method of `managerState` has a lemma that it keeps `Kept` (`RemovesActive`,
  `Activates`, ...), each handler one that it keeps `DaemonInv`. The other two theorems rest on it. Most
  steps only shed descriptors (`Sheds`); until shutdown those that take a keyboard away send its message in the same step
  (`Loses`), and `Acquire` alone adds one. `WillKnow` says what the messages on their way tell by the
  last one about a path, so that no fold over the channel is needed, and
  `KnowsTail` and `KnowsSent` say that taking a message does not change it and sending one changes it as it should.
  For the LEDs `LedInv` adds that what is tracked was accepted by `probeCandidate`, so that a change is written
  to every keyboard, and that numbers of incarnations grow, so that a keyboard that is gone stays gone.
  `LedsFollow` is stated until shutdown: the proof showed that it fails after it. The entry that
  `activate` leaves in `byPath` may then name a descriptor that was opened anew, of another device.
* **Action server** (`ActionServerProofs`): `ServerTypes`, `ServerOneConnection`, `ServerNoPanic`.
  The inductive invariant `ServerInv` adds that a slot belongs to the user of
  the connection in it (`SlotsOwned`), that the queue of a connection that is not
  closed was never closed (`ClosedOnce`), and that the connection being added was
  accepted and so is in no slot (`HandledAccepted`). `DropInv` is the step that all ways of
  ending a client share. `ServerInOrder` is about data: what a client has
  got, what is in the connection and what is queued, put together, is the end of what was published since
  it was added. Each step moves actions from one of these lists to the next,
  and the proof is that their concatenation does not change.
* **Action client** (`ActionClientProofs`): `ClientTypes`, `ClientEndsLast`, `ClientStartsInOrder`, for any
  workers and channel size, by the same argument about what is started, held by the dispatcher, queued and received.

`Kept` (`Lists`) stands for loops that keep some elements of a slice: `SelectSeq` is recursive,
which no prover here can unfold. The lemmas on `Kept` and `FlattenSeq` (`SequenceLemmas`) need induction
over a sequence; it is done there for a set of sequences, since the library's theorems
with an operator parameter cannot be used.

Every safety property that a passing run checks is stated by a theorem. Only model-checked: liveness
(`EveryPressDecided` and what `action_server`, `action_client` and `daemon_live` ask of the future), since
fairness is about `ENABLED`, which no installed prover handles.

## Not modelled

Parsing of names, durations, JSON and netlink messages, and the checks of a
message's sender and path, which reject input without changing state; creation of the uinput device and
ioctl encoding, and what makes a device a keyboard (the constant `Keyboards`); `EINTR`, after which calls
are repeated at once; sockets in the file system (`removeSocket` only fails or succeeds); file checks of
the configurations; readiness notification (`Ready`, one datagram). `udevadm trigger`, which repeats the
add event of a device that is there, is not among the uevents of `Uevents`: an add of a generation that is
already observed replaces the device by itself. Failing writes and crashes are in `Broker`; the
loss of a write that reports success is not. The main loop's calls of `Publish` and the server's are not
composed: `Publish` never blocks and never fails, so the broker treats it as a no-op. When the context ends
while `activate` sends, the code closes the descriptor of a keyboard and leaves it in `byPath`, so that
`close` closes the number again; this is in the model, and `DescriptorsOwned` is stated until shutdown.

## Plan

1. `Keymap`, `Engine`, `Forwarder`, `VirtualKeyboard`, `Broker` (done): the path of
   a key, the most important behaviour of the system.
2. `ActionServer`, `ActionClient` (done): the path of an action.
3. `Uevents`, `Acquisition`, `Manager`, `Daemon`, `Handoff` (done): the path of a keyboard.
4. `DaemonProofs` (done): types, `DescriptorsOwned`, `CleanupOrder`, `AnnouncedAgrees` and `LedsFollow`.
5. `EngineProofs`: types, `NoResolvePanic`, `DispositionStable`, `DeadlineCoversWait`,
   `JournalWaitsForCandidate`, `CandidateTracksPhysical`, `BorrowedModifiersHeld`, `ActivationHeld` and the two
   properties of a reservation;
   `InOrderNoGaps` for the server; types, `StartedInOrder` and
   `NothingOutlivesMain` for the client; `BelievedAgrees` (done).
6. `BrokerProofs` (done): that the forwarder holds for each owner what the engine decided, and with it the
   four properties of `Broker`.
7. An abstract routing specification (each press forwarded or consumed once, in
   the order of arrival), which `Broker` implements: not begun. `FlowInv` says which keys are held, not in which order
   they were pressed.
