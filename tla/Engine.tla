------------------------------- MODULE Engine -------------------------------
(***************************************************************************)
(* The chord engine of eakd (internal/engine).  It decides, for every press *)
(* of a key of a grabbed keyboard, whether the press is forwarded to the    *)
(* virtual keyboard or consumed by a chord, and journals the input that     *)
(* cannot be decided yet.                                                   *)
(*                                                                         *)
(* The variable e is the Go struct Engine; each operator from Resolve to    *)
(* Close is the method of that name, a function from engine to engine.      *)
(* HandleFrame is taken in steps: BeginFrame, one HandleEvent per input     *)
(* event, each followed by the calls of advance that it makes, EndFrame.    *)
(* Nothing else happens while a frame is open: the engine is called only    *)
(* from the main loop's goroutine.                                          *)
(*                                                                         *)
(* A press is a *press: one lifetime of a held key.  Its device, code and   *)
(* lifetime are its identity, so the logical key is a function of it.       *)
(***************************************************************************)
EXTENDS Keymap, Lists

CONSTANTS
    InputEvent,         \* the events that keyboards send
    MaxLives,           \* lifetimes of one key that may be referenced at once
    MaxFrameEvents,     \* events of one input frame, SYN_REPORT not counted
    MaxJournal          \* size of the journal from which on no frame arrives

(* Input events: a key, a scan code (EV_MSC), or any other type (EV_LED).   *)
KeyEvent == [type : {"key"}, code : Code, value : {0, 1, 2}]
OtherEvent == [type : {"msc", "led"}]

(* The keys that the grabbed keyboards have.                               *)
InputCode == {event.code : event \in InputEvent \cap KeyEvent}

ASSUME InputAssumption == InputEvent \subseteq KeyEvent \cup OtherEvent

ASSUME BoundAssumption ==
    /\ MaxLives \in Nat \ {0}
    /\ MaxFrameEvents \in Nat
    /\ MaxJournal \in Nat

VARIABLES
    e,          \* the Engine struct
    frame,      \* locals of the HandleFrame call in progress
    out         \* Result.Output of the last call, not applied yet

engineVars == <<e, frame, out>>

-----------------------------------------------------------------------------
Press == Device \X Code \X (1 .. MaxLives)
NoPress == <<>>
Route == {"undecided", "forwarded", "consumed"}
Mode == {"idle", "reserved", "prefix", "await", "binding"}

device(p) == p[1]
code(p) == p[2]
logical(p) == Canonical[p[2]]
IsModifierPress(p) == IsLogicalModifier(logical(p))

(* Operations for the forwarder.  The events of a ForwardFrame are listed   *)
(* one by one; the SYN_REPORT that closes it is left out.                   *)
KeyOutput(owner, c, value) ==
    [kind |-> "key", owner |-> owner, code |-> c, value |-> value]
EventOutput(owner, type) == [kind |-> type, owner |-> owner]
ReconcileDevice(owner, pressed) ==
    [kind |-> "reconcile", owner |-> owner, pressed |-> pressed]
EmitAction(action) == [kind |-> "action", action |-> action]

(* recordedEvent: an event with its press, or an output of the engine.      *)
RecordEvent(event, p) == [type |-> event.type, event |-> event, press |-> p]
RecordOutput(output, repeat) ==
    [type |-> "output", output |-> output, repeat |-> repeat, press |-> NoPress]

NoCandidate ==
    [possible |-> {}, matched |-> 0, members |-> {}, held |-> {}, owned |-> {},
     matchMembers |-> {}, driver |-> NoPress, broken |-> FALSE]

(* e.seq is nil exactly in modeIdle and modeAwaitBinding.                   *)
Matching(x) == x.mode \in {"reserved", "prefix", "binding"}

-----------------------------------------------------------------------------
(* Which press objects are still referenced, so that a new lifetime is told *)
(* apart from them and the dispositions of the others can be forgotten.     *)
JournalPresses(x) ==
    UNION {{r.press : r \in ToSet(x.journal[i].events)} : i \in DOMAIN x.journal}

(* Frames and records, the measure that MaxJournal bounds.                  *)
JournalSize(x) ==
    Len(x.journal) + Len(FlattenSeq([i \in DOMAIN x.journal |-> x.journal[i].events]))

Referenced(x) ==
    x.physical \cup x.carry \cup x.reuse \cup JournalPresses(x)
      \cup x.seq.owned \cup x.seq.members \cup x.seq.matchMembers
      \cup {x.seq.driver}
      \cup UNION {a.members \cup {a.driver} : a \in ToSet(x.active)}

(* Owners "eakd-remap:<n>" that some activation, journalled or pending      *)
(* operation still names.  The code numbers them and never reuses a number. *)
OutputOwners(outputs) ==
    {o.owner : o \in {q \in ToSet(outputs) : q.kind # "action"}}

JournalOwners(x) ==
    UNION {OutputOwners([k \in DOMAIN x.journal[i].events |->
                IF x.journal[i].events[k].type = "output"
                  THEN x.journal[i].events[k].output
                  ELSE EmitAction(NoDevice)]) : i \in DOMAIN x.journal}

FreeOwners(x, outputs) ==
    HoldDevice \ ({a.owner : a \in ToSet(x.active)}
                    \cup JournalOwners(x) \cup OutputOwners(outputs))

-----------------------------------------------------------------------------
(* physical.go                                                             *)

PressAt(x, d, c) ==
    IF \E p \in x.physical : device(p) = d /\ code(p) = c
      THEN CHOOSE p \in x.physical : device(p) = d /\ code(p) = c
      ELSE NoPress

CountOf(S, key) == Cardinality({p \in S : logical(p) = key})

(* The part of ingest that starts the lifetimes in S.                       *)
Down(x, S) ==
    [x EXCEPT
       !.physical = @ \cup S,
       !.logicalCount = [key \in Logical |-> @[key] + CountOf(S, key)],
       !.route = [p \in Press |-> IF p \in S THEN "undecided" ELSE @[p]]]

(* Mutant: the logical count is decremented twice.                         *)
ReleaseCountsTwice(x, S) ==
    [x EXCEPT
       !.physical = @ \ S,
       !.logicalCount = [key \in Logical |-> @[key] - 2 * CountOf(S, key)],
       !.reuse = @ \ S,
       !.carry = @ \ S]

(* Mutant: a released modifier stays in reuse.                             *)
ReleaseKeepsReuse(x, S) ==
    [x EXCEPT
       !.physical = @ \ S,
       !.logicalCount = [key \in Logical |-> @[key] - CountOf(S, key)],
       !.carry = @ \ S]

Release(x, S) ==
    [x EXCEPT
       !.physical = @ \ S,
       !.logicalCount = [key \in Logical |-> @[key] - CountOf(S, key)],
       !.reuse = @ \ S,
       !.carry = @ \ S]

(* A press is valid when the key is up, a release or repeat when it is down.*)
Valid(x, d, event) ==
    event.type = "key" /\ (event.value = 1 <=> PressAt(x, d, event.code) = NoPress)

FreeLives(x, d, c) ==
    {n \in 1 .. MaxLives : <<d, c, n>> \notin Referenced(x)}

(* The press that an event is about.                                       *)
EventPress(x, d, event) ==
    IF event.type # "key" THEN NoPress
    ELSE IF Valid(x, d, event) /\ event.value = 1
      THEN <<d, event.code, CHOOSE n \in FreeLives(x, d, event.code) : TRUE>>
      ELSE PressAt(x, d, event.code)

Ingest(x, p, event, valid) ==
    CASE valid /\ event.value = 1 -> Down(x, {p})
      [] valid /\ event.value = 0 -> Release(x, {p})
      [] OTHER                    -> x

Transition(x, p, event) ==
    [press |-> p, value |-> event.value, count |-> x.logicalCount[logical(p)]]

-----------------------------------------------------------------------------
(* engine.go: resolution and the journal                                   *)

(* Mutant: the borrowed members are resolved with the owned ones.          *)
ResolveMembers(x, route) ==
    IF ~Matching(x) THEN x
    ELSE [x EXCEPT
            !.route = [p \in Press |->
                         IF p \in x.seq.owned \cup x.seq.members THEN route ELSE @[p]],
            !.journal = [i \in DOMAIN @ |->
                           IF @[i].candidate = "undecided"
                             THEN [@[i] EXCEPT !.candidate = route] ELSE @[i]]]

(* resolve: the only operation that commits a candidate's dispositions.     *)
(* Its panic is an invariant below.  The frames of the candidate learn its  *)
(* route, which decides the fate of their scan codes.                       *)
Resolve(x, route) ==
    IF ~Matching(x) THEN x
    ELSE [x EXCEPT
            !.route = [p \in Press |-> IF p \in x.seq.owned THEN route ELSE @[p]],
            !.journal = [i \in DOMAIN @ |->
                           IF @[i].candidate = "undecided"
                             THEN [@[i] EXCEPT !.candidate = route] ELSE @[i]]]

(* Mutant: the deadline is not cleared.                                    *)
IdleKeepsDeadline(x) ==
    [x EXCEPT !.mode = "idle", !.seq = NoCandidate, !.activePrefix = 0, !.carry = {}]

Idle(x) ==
    [x EXCEPT !.mode = "idle", !.seq = NoCandidate, !.activePrefix = 0,
              !.carry = {}, !.deadline = FALSE]

Fail(x) == Idle(Resolve(x, "forwarded"))

JournalFrame(d, events, dropScan, candidate) ==
    [device |-> d, events |-> events, dropScan |-> dropScan, candidate |-> candidate]

OutputFrame(output) ==
    JournalFrame(NoDevice, <<RecordOutput(output, NoDevice)>>, FALSE, "none")

QueueOutputs(x, outputs) ==
    [x EXCEPT !.journal = @ \o [k \in DOMAIN outputs |-> OutputFrame(outputs[k])]]

QueueOutput(x, output) == QueueOutputs(x, <<output>>)

Pending(x, f) ==
    \E k \in DOMAIN f.events :
        f.events[k].press # NoPress /\ x.route[f.events[k].press] = "undecided"

Visible(x, p) == p = NoPress \/ x.route[p] = "forwarded"

Live(x, owner) == \E k \in DOMAIN x.active : x.active[k].owner = owner

(* What drain writes for one record of a journal frame: nothing, or one     *)
(* operation.                                                              *)
Emit(x, f, r) ==
    LET keys == {k \in DOMAIN f.events : f.events[k].type = "key"}
        visibleKey == \E k \in keys : Visible(x, f.events[k].press)
        hideScan == \/ f.dropScan
                    \/ keys # {} /\ ~visibleKey
                    \/ keys = {} /\ f.candidate = "consumed"
    IN CASE r.type = "output" ->
              IF r.repeat = NoDevice \/ Live(x, r.repeat) THEN <<r.output>> ELSE <<>>
         [] r.type = "key" ->
              IF r.press # NoPress /\ x.route[r.press] = "consumed" THEN <<>>
              ELSE <<KeyOutput(f.device, r.event.code, r.event.value)>>
         [] r.type = "msc" ->
              IF hideScan THEN <<>> ELSE <<EventOutput(f.device, "msc")>>
         [] r.type = "led" -> <<EventOutput(f.device, "led")>>

EmitFrame(x, f) == FlattenSeq([k \in DOMAIN f.events |-> Emit(x, f, f.events[k])])

(* drain: the frames up to the first pending one leave the journal.         *)
DrainCount(x) ==
    Max({n \in 0 .. Len(x.journal) : \A i \in 1 .. n : ~Pending(x, x.journal[i])})

Drained(x) ==
    FlattenSeq([i \in 1 .. DrainCount(x) |-> EmitFrame(x, x.journal[i])])

(* Dropping the frames drops the last references to some presses, whose     *)
(* disposition no longer exists.                                            *)
Drain(x) ==
    LET y == [x EXCEPT !.journal = SubSeq(@, DrainCount(x) + 1, Len(@))]
    IN [y EXCEPT !.route = [p \in Press |-> IF p \in Referenced(y) THEN @[p] ELSE "undecided"]]

(* Mutant: a passed deadline is ignored.                                   *)
TimeoutIgnored(x, late) == x

HandleTimeout(x, late) == IF x.deadline /\ late THEN Fail(x) ELSE x

-----------------------------------------------------------------------------
(* engine.go: held remaps                                                  *)

(* Mutant: the owner of the ended remap is not cleaned up.                 *)
StopWithoutCleanup(a) == <<KeyOutput(a.owner, a.target, 0)>>

StopOutputs(a) ==
    <<KeyOutput(a.owner, a.target, 0), ReconcileDevice(a.owner, {})>>

StopActivation(x, a) == QueueOutputs(x, StopOutputs(a))

(* Mutant: a chord that was broken before its frame ended stays active.    *)
ActivateBroken(x, c, target, owner) ==
    LET a == [owner |-> owner, target |-> target,
              members |-> c.matchMembers, driver |-> c.driver]
    IN [QueueOutput(x, KeyOutput(owner, target, 1)) EXCEPT !.active = Append(@, a)]

Activate(x, c, target, owner) ==
    LET a == [owner |-> owner, target |-> target,
              members |-> c.matchMembers, driver |-> c.driver]
        y == QueueOutput(x, KeyOutput(owner, target, 1))
    IN IF c.broken THEN StopActivation(y, a) ELSE [y EXCEPT !.active = Append(@, a)]

Ends(a, tr) == tr.value = 0 /\ tr.press \in a.members

ActivationEvents(x, tr) ==
    FlattenSeq([k \in DOMAIN x.active |->
        LET a == x.active[k] IN
        CASE Ends(a, tr) ->
               <<RecordOutput(KeyOutput(a.owner, a.target, 0), NoDevice),
                 RecordOutput(ReconcileDevice(a.owner, {}), NoDevice)>>
          [] ~Ends(a, tr) /\ tr.value = 2 /\ tr.press = a.driver ->
               <<RecordOutput(KeyOutput(a.owner, a.target, 2), a.owner)>>
          [] OTHER -> <<>>])

EndActivations(x, tr) ==
    [x EXCEPT !.active = Kept(@, {a \in ToSet(@) : ~Ends(a, tr)})]

-----------------------------------------------------------------------------
(* matcher.go                                                              *)

NewCandidate(x, possible, borrowed) ==
    [NoCandidate EXCEPT !.possible = possible,
                        !.members = borrowed \cap x.physical,
                        !.held = borrowed \cap x.physical]

(* startSource: the held modifiers of a completed remap are borrowed when a *)
(* non-modifier is pressed; otherwise only a modifier starts a candidate.   *)
Borrowed(x, p) == IF IsModifierPress(p) THEN {} ELSE x.reuse

HeldLogical(x) == {key \in Logical : x.logicalCount[key] > 0}

PossibleSources(x, p) ==
    LET borrowed == {logical(q) : q \in Borrowed(x, p)} IN
    {i \in DOMAIN Sources :
        /\ logical(p) \in Keys(i)
        /\ IsModifierPress(p) \/ borrowed # {}
        /\ Sources[i].mode = "action" =>
              /\ HeldLogical(x) \cap Modifier \subseteq Keys(i)
              /\ borrowed = {}
        /\ borrowed # {} => Keys(i) \cap Modifier \subseteq borrowed /\ borrowed \subseteq Keys(i)}

StartSource(x, p) ==
    LET reserve == Borrowed(x, p) = {} /\ logical(p) \in ReservedModifiers IN
    [x EXCEPT !.seq = NewCandidate(x, PossibleSources(x, p), Borrowed(x, p)),
              !.mode = IF reserve THEN "reserved" ELSE "prefix",
              !.deadline = ~reserve]

StartBinding(x) ==
    LET bindings == Sources[x.activePrefix].bindings IN
    [x EXCEPT !.seq = NewCandidate(x,
                  {b \in DOMAIN bindings :
                      \A q \in x.carry : logical(q) \in bindings[b].keys},
                  x.carry),
              !.mode = "binding"]

Chord(x, i) ==
    IF x.mode = "binding" THEN Sources[x.activePrefix].bindings[i].keys ELSE Keys(i)

(* advance, value 1: the candidate takes ownership of the press.            *)
Own(x, p) ==
    [x EXCEPT
       !.seq.owned = @ \cup {p},
       !.seq.members = {q \in @ : logical(q) # logical(p)} \cup {p},
       !.seq.held = @ \cup {p},
       !.seq.driver = IF IsModifierPress(p) THEN @ ELSE p,
       !.seq.possible = {i \in @ : logical(p) \in Chord(x, i)}]

LeaveReservation(x, p) ==
    IF x.mode = "reserved" /\ logical(p) \notin ReservedModifiers
      THEN [x EXCEPT !.mode = "prefix", !.deadline = TRUE] ELSE x

HeldKeys(c) == {logical(q) : q \in c.members \cap c.held}

Complete(x, i) == Chord(x, i) \subseteq HeldKeys(x.seq)

Match(x) ==
    LET c == x.seq
        open == \/ c.matched = 0
                \/ x.mode = "binding"
                \/ Sources[c.matched].mode = "hold"
        complete == {i \in c.possible : Complete(x, i)}
    IN IF ~open \/ complete = {} THEN x
       ELSE [x EXCEPT
               !.seq.matched = Min(complete),
               !.seq.broken = FALSE,
               !.seq.matchMembers = {q \in c.members : logical(q) \in Chord(x, Min(complete))}]

AdvancePress(x, tr) ==
    IF x.route[tr.press] # "undecided" \/ tr.count # 1 THEN Fail(x)
    ELSE LET y == Own(x, tr.press)
         IN IF y.seq.possible = {} THEN Fail(y)
            ELSE Match(LeaveReservation(y, tr.press))

(* Mutant: a released member stays in held.                                *)
ReleaseStaysHeld(x, tr) ==
    LET member == tr.press \in x.seq.members
        y == [x EXCEPT !.seq.broken = @ \/ tr.press \in x.seq.matchMembers]
        fails == (member \/ tr.count = 0) /\ (x.seq.matched = 0 \/ ~member)
    IN IF fails THEN Fail(y) ELSE y

AdvanceRelease(x, tr) ==
    LET member == tr.press \in x.seq.members
        y == IF member
               THEN [x EXCEPT !.seq.held = @ \ {tr.press},
                              !.seq.broken = @ \/ tr.press \in x.seq.matchMembers]
               ELSE x
        fails == (member \/ tr.count = 0) /\ (x.seq.matched = 0 \/ ~member)
    IN IF fails THEN Fail(y) ELSE y

(* advance returns false exactly when it left the engine idle.              *)
Advance(x, tr) ==
    LET route == x.route[tr.press]
        foreign == route = "consumed" /\ tr.press \notin x.seq.members
        breaks == x.mode = "reserved" /\ \/ tr.value = 0 /\ x.seq.matched = 0
                                         \/ route = "forwarded"
    IN CASE foreign                             -> x
         [] ~foreign /\ breaks                  -> Fail(x)
         [] ~foreign /\ ~breaks /\ tr.value = 1 -> AdvancePress(x, tr)
         [] ~foreign /\ ~breaks /\ tr.value = 0 -> AdvanceRelease(x, tr)
         [] OTHER                               -> x

(* complete: at the end of a frame a matched chord whose keys are up (all   *)
(* of them for a binding, the non-modifiers for a prefix or a tap) or which *)
(* is a hold is consumed and takes effect.                                  *)
Finished(x) ==
    LET c == x.seq
        stillHeld == {q \in c.members \cap c.held : x.mode # "binding" => ~IsModifierPress(q)}
    IN /\ Matching(x)
       /\ c.matched # 0
       /\ \/ stillHeld = {}
          \/ x.mode # "binding" /\ Sources[c.matched].mode = "hold"

HeldModifiers(x, c) == {q \in c.members \cap x.physical : IsModifierPress(q)}

CompleteBinding(x) ==
    QueueOutput(Idle(Resolve(x, "consumed")),
                EmitAction(Sources[x.activePrefix].bindings[x.seq.matched].action))

CompleteSource(x, owner) ==
    LET c == x.seq
        source == Sources[c.matched]
        y == Resolve(x, "consumed")
        z == Idle([y EXCEPT !.reuse = @ \cup HeldModifiers(x, c)])
    IN CASE source.mode = "action" ->
              [y EXCEPT !.mode = "await", !.activePrefix = c.matched, !.seq = NoCandidate,
                        !.carry = HeldModifiers(x, c), !.deadline = TRUE]
         [] source.mode = "hold" -> Activate(z, c, source.target, owner)
         [] source.mode = "tap" ->
              QueueOutput(QueueOutput(z, KeyOutput(TapDevice, source.target, 1)),
                          KeyOutput(TapDevice, source.target, 0))

CompleteFrame(x, owner) ==
    IF ~Finished(x) THEN x
    ELSE IF x.mode = "binding" THEN CompleteBinding(x)
    ELSE CompleteSource(x, owner)

-----------------------------------------------------------------------------
(* physical.go: recovery and shutdown                                      *)

StopAll(x, activations) ==
    QueueOutputs(x, FlattenSeq([k \in DOMAIN activations |-> StopOutputs(activations[k])]))

(* The engine after a snapshot of device d, and the operations it returns.  *)
(* Cancelling the candidate and dropping d's events empties the journal.    *)
Cancelled(x, d) ==
    LET y == Fail(x)
        kept == [i \in DOMAIN y.journal |->
                   IF y.journal[i].device # d THEN y.journal[i]
                   ELSE [y.journal[i] EXCEPT
                           !.events = Kept(@, {r \in ToSet(@) : r.type = "output"})]]
    IN [y EXCEPT !.active = Kept(@, {a \in ToSet(@) : \A p \in a.members : device(p) # d}),
                 !.journal = kept]

(* Mutant: a snapshot leaves the remaps of its keyboard as they are.       *)
NothingEnded(x, d) == <<>>

EndedBy(x, d) ==
    Kept(x.active, {a \in ToSet(x.active) : \E p \in a.members : device(p) = d})

(* The snapshot replaces d's held keys; a key first seen in it, or not yet  *)
(* decided, is forwarded.  Lifetimes are new with respect to old.           *)
Snapshot(x, old, d, pressed) ==
    LET gone == {p \in x.physical : device(p) = d /\ code(p) \notin pressed}
        y == Release(x, gone)
        known == {code(p) : p \in {q \in y.physical : device(q) = d}}
        new == {<<d, c, CHOOSE n \in FreeLives(old, d, c) : TRUE>> : c \in pressed \ known}
        z == Down(y, new)
    IN [z EXCEPT !.route = [p \in Press |->
            IF p \in z.physical /\ device(p) = d /\ @[p] = "undecided"
              THEN "forwarded" ELSE @[p]]]

(* Mutant: consumed keys of a snapshot are shown.                          *)
AllHeldCodes(x, d) == {code(p) : p \in {q \in x.physical : device(q) = d}}

VisibleCodes(x, d) ==
    {code(p) : p \in {q \in x.physical : device(q) = d /\ x.route[q] = "forwarded"}}

Releases(x, devices) == QueueOutputs(x, [k \in DOMAIN devices |-> ReconcileDevice(devices[k], {})])

(* Mutant: the journal is discarded, with the releases waiting in it.      *)
ClosingDiscardsJournal(x) ==
    LET y == Fail(x)
        z == [StopAll([y EXCEPT !.journal = <<>>], y.active) EXCEPT !.active = <<>>]
    IN Releases(Release(z, z.physical), SetToSeq({device(p) : p \in y.physical}))

(* What Close keeps: journalled releases and generated operations.          *)
KeptByClose(r) == r.type = "output" \/ (r.type = "key" /\ r.event.value = 0)

Closing(x) ==
    LET y == Fail(x)
        kept == [i \in DOMAIN y.journal |->
                   [y.journal[i] EXCEPT !.events = Kept(@, {r \in ToSet(@) : KeptByClose(r)})]]
        z == [StopAll([y EXCEPT !.journal = kept], y.active) EXCEPT !.active = <<>>]
    IN Releases(Release(z, z.physical), SetToSeq({device(p) : p \in y.physical}))

-----------------------------------------------------------------------------
(* The calls the main loop makes.                                          *)

NoFrame ==
    [open |-> FALSE, device |-> NoDevice, history |-> <<>>, fresh |-> {},
     failed |-> FALSE, meaningful |-> FALSE, todo |-> <<>>, n |-> 0]

InitialEngine ==
    [physical |-> {}, logicalCount |-> [key \in Logical |-> 0],
     route |-> [p \in Press |-> "undecided"], mode |-> "idle",
     seq |-> NoCandidate, activePrefix |-> 0, carry |-> {}, reuse |-> {},
     deadline |-> FALSE, journal |-> <<>>, active |-> <<>>]

EngineInit == e = InitialEngine /\ frame = NoFrame /\ out = <<>>

(* Between two calls, with the previous result applied.                     *)
Ready == ~frame.open /\ out = <<>>

BeginFrame(d, late) ==
    /\ Ready
    /\ late => e.deadline
    /\ JournalSize(e) < MaxJournal
    /\ FreeOwners(e, out) # {}
    /\ LET x == HandleTimeout(e, late)
           y == Drain(x)
           dropScan == \E p \in y.physical : device(p) = d /\ y.route[p] = "consumed"
           candidate == IF Matching(y) THEN "undecided" ELSE "none"
       IN /\ out' = Drained(x)
          /\ e' = [y EXCEPT !.journal = Append(@, JournalFrame(d, <<>>, dropScan, candidate))]
    /\ frame' = [NoFrame EXCEPT !.open = TRUE, !.device = d]

(* Repeats and duplicate presses of keys that a reservation hides.          *)
Chatter(x, p, event, valid) ==
    /\ x.mode = "reserved" /\ p # NoPress /\ x.route[p] # "forwarded"
    /\ event.value = 2 \/ (event.value = 1 /\ ~valid)

(* An event that must reach the virtual keyboard and so ends a reservation. *)
Uncovered(x, p, event, valid) ==
    /\ event.type # "msc" /\ ~Chatter(x, p, event, valid)
    /\ ~valid \/ x.route[p] = "forwarded"

Starts(x, p) ==
    \/ x.mode = "idle" /\ PossibleSources(x, p) # {}
    \/ x.mode = "await"

Start(x, p) == IF x.mode = "idle" THEN StartSource(x, p) ELSE StartBinding(x)

HandleEvent(event) ==
    /\ frame.open /\ frame.todo = <<>> /\ frame.n < MaxFrameEvents
    /\ LET d == frame.device
           valid == Valid(e, d, event)
           fresh == valid /\ event.value = 1
           p == EventPress(e, d, event)
           x == Ingest(e, p, event, valid)
           tr == Transition(x, p, event)
           chatter == Chatter(x, p, event, valid)
           outputs == IF valid THEN ActivationEvents(x, tr) ELSE <<>>
           records == (IF chatter THEN <<>> ELSE <<RecordEvent(event, p)>>) \o outputs
           y == [(IF valid THEN EndActivations(x, tr) ELSE x)
                   EXCEPT !.journal[Len(x.journal)].events = @ \o records]
           fails == x.mode = "reserved" /\ (outputs # <<>> \/ Uncovered(x, p, event, valid))
           proceeds == valid /\ ~frame.failed /\ ~fails
           starts == proceeds /\ event.value = 1 /\ Starts(y, p)
       IN /\ fresh => FreeLives(e, d, event.code) # {}
          /\ e' = IF fails THEN Fail(y)
                  ELSE IF starts
                    THEN [Start(y, p) EXCEPT !.journal[Len(x.journal)].candidate = "undecided"]
                    ELSE y
          /\ frame' =
               [frame EXCEPT
                  !.n = @ + 1,
                  !.fresh = IF fresh THEN @ \cup {p} ELSE @,
                  !.meaningful = @ \/ (event.type # "msc" /\ ~chatter),
                  !.failed = @ \/ fails,
                  !.todo = IF starts THEN Append(frame.history, tr)
                           ELSE IF proceeds /\ Matching(y) THEN <<tr>> ELSE <<>>,
                  !.history = IF proceeds THEN Append(@, tr) ELSE @]
    /\ UNCHANGED out

AdvanceStep ==
    /\ frame.open /\ frame.todo # <<>>
    /\ LET x == Advance(e, Head(frame.todo)) IN
       /\ e' = x
       /\ frame' = [frame EXCEPT !.failed = ~Matching(x),
                                 !.todo = IF Matching(x) THEN Tail(@) ELSE <<>>]
    /\ UNCHANGED out

(* Mutant: output that precedes the reservation in its frame is not noticed. *)
NeverTrapped(x) == FALSE

(* Output recorded before a reservation began in the same frame.            *)
Trapped(x) ==
    /\ x.mode = "reserved"
    /\ \E r \in ToSet(Last(x.journal).events) : r.type # "msc" /\ Visible(x, r.press)

(* Mutant: presses that the candidate owns are forwarded too.              *)
ForwardOwned(x, fresh) ==
    [x EXCEPT !.route = [p \in Press |->
        IF p \in fresh /\ @[p] = "undecided" THEN "forwarded" ELSE @[p]]]

(* Mutant: ordinary presses stay undecided.                                *)
ForwardNone(x, fresh) == x

(* An ordinary press cannot become a candidate in a later frame.            *)
ForwardFresh(x, fresh) ==
    [x EXCEPT !.route = [p \in Press |->
        IF p \in fresh \ x.seq.owned /\ @[p] = "undecided" THEN "forwarded" ELSE @[p]]]

(* Mutant: frames of mere chatter are kept.                                *)
KeepChatter(x, meaningful) == x

(* A frame of mere chatter leaves no trace in a reservation's journal.      *)
DropChatter(x, meaningful) ==
    IF x.mode = "reserved" /\ ~meaningful THEN [x EXCEPT !.journal = Front(@)] ELSE x

EndFrame ==
    /\ frame.open /\ frame.todo = <<>>
    /\ LET w == IF Trapped(e) THEN Fail(e) ELSE e
           x == IF frame.failed \/ Trapped(e) THEN w
                ELSE CompleteFrame(w, CHOOSE o \in FreeOwners(w, out) : TRUE)
           y == DropChatter(ForwardFresh(x, frame.fresh), frame.meaningful)
       IN /\ e' = Drain(y)
          /\ out' = out \o Drained(y)
    /\ frame' = NoFrame

Timeout ==
    /\ Ready /\ e.deadline
    /\ e' = Drain(HandleTimeout(e, TRUE))
    /\ out' = Drained(HandleTimeout(e, TRUE))
    /\ UNCHANGED frame

(* A snapshot after SYN_DROPPED or at acquisition; {} when d is removed.    *)
Reconcile(d, pressed) ==
    /\ Ready
    /\ \A c \in pressed : PressAt(e, d, c) = NoPress => FreeLives(e, d, c) # {}
    /\ LET w == Cancelled(e, d)
           x == Snapshot(StopAll(Drain(w), EndedBy(e, d)), e, d, pressed)
           y == QueueOutput(x, ReconcileDevice(d, VisibleCodes(x, d)))
       IN /\ e' = Drain(y)
          /\ out' = Drained(w) \o Drained(y)
    /\ UNCHANGED frame

Close ==
    /\ Ready
    /\ e' = Drain(Closing(e))
    /\ out' = Drained(Closing(e))
    /\ UNCHANGED frame

(* The caller takes the first operation of the result.                     *)
Apply ==
    /\ ~frame.open /\ out # <<>>
    /\ out' = Tail(out)
    /\ UNCHANGED <<e, frame>>

-----------------------------------------------------------------------------
Input ==
    \/ \E d \in Device, late \in BOOLEAN : BeginFrame(d, late)
    \/ \E event \in InputEvent : HandleEvent(event)

EngineNext ==
    \/ Input
    \/ AdvanceStep
    \/ EndFrame
    \/ Timeout
    \/ \E d \in Device, pressed \in SUBSET InputCode : Reconcile(d, pressed)
    \/ Close
    \/ Apply

EngineSpec == EngineInit /\ [][EngineNext]_engineVars

-----------------------------------------------------------------------------
(* Properties                                                              *)

Output ==
    [kind : {"key"}, owner : Owner, code : Code, value : {0, 1, 2}]
      \cup [kind : {"msc", "led"}, owner : Owner]
      \cup [kind : {"reconcile"}, owner : Owner, pressed : SUBSET Code]
      \cup [kind : {"action"}, action : Action]

Record ==
    [type : {"key"}, event : KeyEvent, press : Press \cup {NoPress}]
      \cup [type : {"msc", "led"}, event : OtherEvent, press : {NoPress}]
      \cup [type : {"output"}, output : Output, repeat : HoldDevice \cup {NoDevice},
            press : {NoPress}]

Candidate ==
    [possible : SUBSET Nat, matched : Nat, members : SUBSET Press, held : SUBSET Press,
     owned : SUBSET Press, matchMembers : SUBSET Press, driver : Press \cup {NoPress},
     broken : BOOLEAN]

Activation ==
    [owner : HoldDevice, target : Code, members : SUBSET Press,
     driver : Press \cup {NoPress}]

Transitions == [press : Press, value : {0, 1, 2}, count : Nat]

(* Types of the engine's fields and of the locals of HandleFrame.          *)
EngineTypeOK ==
    /\ e \in [physical : SUBSET Press, logicalCount : [Logical -> Nat],
              route : [Press -> Route], mode : Mode, seq : Candidate,
              activePrefix : Nat, carry : SUBSET Press, reuse : SUBSET Press,
              deadline : BOOLEAN,
              journal : Seq([device : Device \cup {NoDevice}, events : Seq(Record),
                             dropScan : BOOLEAN, candidate : Route \cup {"none"}]),
              active : Seq(Activation)]
    /\ frame \in [open : BOOLEAN, device : Device \cup {NoDevice},
                  history : Seq(Transitions), fresh : SUBSET Press, failed : BOOLEAN,
                  meaningful : BOOLEAN, todo : Seq(Transitions), n : Nat]
    /\ out \in Seq(Output)

(* A candidate owns only undecided presses, whatever happened to them since *)
(* they joined it: the panic in resolve cannot be reached.                  *)
NoResolvePanic == \A p \in e.seq.owned : e.route[p] = "undecided"

(* Once a press is forwarded or consumed it stays so for its lifetime: no   *)
(* release of a forwarded press is consumed, no consumed press leaks out    *)
(* half-way ("a remap never consumes the release of an already-forwarded    *)
(* press").                                                                *)
DispositionStable ==
    [][\A p \in Press :
          p \in Referenced(e) \cap Referenced(e') /\ e.route[p] # "undecided"
            => e'.route[p] = e.route[p]]_engineVars

(* Between calls the journal is empty, or its first frame waits for the     *)
(* candidate in progress: no input is stranded behind nobody's decision.    *)
JournalWaitsForCandidate ==
    ~frame.open /\ e.journal # <<>> =>
        Matching(e) /\ Pending(e, Head(e.journal))

(* The modifiers a finished remap or prefix leaves behind for the next      *)
(* chord are held, consumed, and at most one per logical key, so building   *)
(* borrowed from the map reuse does not depend on Go's iteration order.     *)
BorrowedModifiersHeld ==
    \A p \in e.reuse \cup e.carry :
        /\ p \in e.physical /\ e.route[p] = "consumed" /\ IsModifierPress(p)
        /\ \A q \in e.physical : q \in e.reuse /\ logical(q) = logical(p) => q = p

(* Between two transitions the candidate's idea of which members are held   *)
(* agrees with the physical state, and none of them is already forwarded.   *)
CandidateTracksPhysical ==
    frame.todo = <<>> /\ Matching(e) =>
        /\ e.seq.members \cap e.seq.held = e.seq.members \cap e.physical
        /\ \A p \in e.seq.members : e.route[p] # "forwarded"

(* A live held remap has all its source keys down and consumed, its own     *)
(* owner, and a driver among them: the first release of any ends it.        *)
ActivationHeld ==
    \A k \in DOMAIN e.active :
        LET a == e.active[k] IN
        /\ a.members \subseteq e.physical
        /\ \A p \in a.members : e.route[p] = "consumed"
        /\ a.driver \in a.members
        /\ \A j \in DOMAIN e.active : e.active[j].owner = a.owner => j = k

(* A deadline is armed in every state that hides input, but for the         *)
(* reservation, which waits for the user, and only in those.                *)
DeadlineCoversWait == e.deadline <=> e.mode \in {"prefix", "await", "binding"}

(* A reservation, which has no deadline, withholds nothing but presses it   *)
(* may still consume and releases of consumed ones: "ordinary typing cannot *)
(* be blocked indefinitely".                                                *)
ReservationHidesNothingElse ==
    ~frame.open /\ e.mode = "reserved" =>
        \A f \in ToSet(e.journal) : \A r \in ToSet(f.events) :
            r.type = "msc" \/ (r.press # NoPress /\ e.route[r.press] # "forwarded")

(* "Hidden chatter must not grow an indefinite reservation": every frame    *)
(* kept after the one that began it holds a press or a release, no repeat,  *)
(* and nothing twice, so the keys of the keyboards bound the journal.       *)
ReservationJournalBounded ==
    ~frame.open /\ e.mode = "reserved" =>
        \A i \in 2 .. Len(e.journal) :
            LET keys(j) == {r \in ToSet(e.journal[j].events) : r.type = "key"} IN
            /\ keys(i) # {}
            /\ \A r \in keys(i) :
                  r.event.value # 2 /\ \A j \in 2 .. Len(e.journal) : r \in keys(j) => j = i

(* "complete configured chord pressed and released -> publish action;       *)
(* impossible chord -> replay": when an action is published, the keys       *)
(* pressed for it are those of its chord.                                   *)
PublishedChordExact ==
    [][frame.open /\ ~frame'.open /\ ~frame.failed /\ e.mode = "binding" /\ e'.mode = "idle"
         => {logical(p) : p \in e.seq.members} = Chord(e, e.seq.matched)]_engineVars
=============================================================================
