---------------------------- MODULE EngineProofs ----------------------------
(***************************************************************************)
(* What every behaviour of the engine keeps, whatever its configuration,   *)
(* the keyboards and the bounds are.                                       *)
(*                                                                         *)
(* EngineInv is inductive.  Its part about routes is Decided: a press that  *)
(* something still refers to is decided, or owned by the candidate, or it   *)
(* began in the frame in progress.  From call to call this is carried by    *)
(* Evolves, which is also the reason why no disposition is ever changed.    *)
(* HeldInv, inductive relative to EngineInv, compares what the engine keeps *)
(* with the keys that are down.  ReservedInv, inductive relative to both,   *)
(* says what is in the journal of a reservation.                           *)
(*                                                                         *)
(* The second half is about what the engine returns.  A list of operations  *)
(* is told by its effect on one key of one owner: After(b, s, P, Q), of     *)
(* SequenceLemmas, is whether the key is held after s if b is whether it    *)
(* was held before, P being the operations that press the key and Q those   *)
(* that release it.  Flow says that the forwarder's keys, once it has       *)
(* applied what the journal stands for, are those that the engine wants,    *)
(* whatever the fate of the presses that are still undecided.  BrokerProofs *)
(* builds on it.                                                           *)
(***************************************************************************)
EXTENDS EngineLemmas, TLAPS

Frames ==
    [open : BOOLEAN, device : Device \cup {NoDevice},
     history : Seq(Transitions), fresh : SUBSET Press, failed : BOOLEAN,
     meaningful : BOOLEAN, todo : Seq(Transitions), n : Nat]

(* The referenced presses that are not decided are owned, or in F.          *)
Decided(x, F) ==
    \A p \in Press :
        p \in Referenced(x) /\ x.route[p] = "undecided" => p \in x.seq.owned \cup F

(* Some held remap of this frame could have an owner of its own.           *)
OwnerLeft(x, outputs) ==
    \E h \in HoldDevice : OwnerFree(x, h) /\ outputs \in Seq(Unused(h))

(* While a frame is handled, its events are the last of the journal, and a  *)
(* press among its transitions is one of the journal.                      *)
FrameInProgress ==
    /\ frame.device \in Device
    /\ e.journal # <<>> /\ Last(e.journal).device = frame.device
    /\ OwnerLeft(e, out)
    /\ \A tr \in ToSet(frame.history) \cup ToSet(frame.todo) :
          tr.value = 1 => tr.press \in JournalPresses(e)
    /\ frame.todo # <<>> => Matching(e)

EngineInv ==
    /\ Sound(e)
    /\ frame \in Frames
    /\ out \in Seq(Output)
    /\ Decided(e, frame.fresh)
    /\ frame.open => FrameInProgress
    /\ ~frame.open => frame = NoFrame
    /\ JournalWaitsForCandidate

(* What a step does to the presses.                                        *)
Evolution ==
    \E N \in SUBSET Press : N \cap Referenced(e) = {} /\ Evolves(e, e', N)

-----------------------------------------------------------------------------
LEMMA EvolvesDecided ==
    ASSUME NEW x, NEW y, NEW F, NEW N, Decided(x, F), Evolves(x, y, N)
    PROVE  Decided(y, F \cup N)
  <1>1. SUFFICES ASSUME NEW p \in Press, p \in Referenced(y), y.route[p] = "undecided", p \notin N
                 PROVE  p \in y.seq.owned \cup F
    BY DEF Decided
  <1>2. p \in Referenced(x)
    BY <1>1, PressFinite DEF Evolves
  <1>3. x.route[p] = "undecided"
    BY <1>1 DEF Evolves
  <1>4. p \in x.seq.owned \/ p \in F
    BY <1>2, <1>3 DEF Decided
  <1>5. QED
    BY <1>1, <1>4 DEF Evolves

(* A journal that drain leaves waits for the candidate.                    *)
LEMMA DrainedWaits ==
    ASSUME NEW x, Sound(x), Sound(Drain(x)), Decided(Drain(x), {}), Drain(x).journal # <<>>
    PROVE  Matching(Drain(x)) /\ Pending(Drain(x), Head(Drain(x).journal))
  <1>. DEFINE y == Drain(x)
  <1>1. /\ Pending(y, Head(y.journal))
        /\ \E p \in Press : p \in JournalPresses(y) /\ y.route[p] = "undecided"
    BY DrainWaits DEF Sound
  <1>. HIDE DEF y
  <1>2. PICK p \in Press : p \in JournalPresses(y) /\ y.route[p] = "undecided"
    BY <1>1
  <1>3. p \in y.seq.owned
    <2>1. Decided(y, {}) /\ p \in Referenced(y)
      BY <1>2, ReferencedParts DEF y
    <2>2. QED
      BY <1>2, <2>1 DEF Decided
  <1>4. Matching(y)
    <2>1. Configured(y)
      BY DEF Sound, y
    <2>2. y.seq # NoCandidate
      BY <1>3 DEF NoCandidate
    <2>3. QED
      BY <2>1, <2>2 DEF Configured
  <1>5. QED
    BY <1>1, <1>4 DEF y

LEMMA UnusedPassesInput ==
    ASSUME NEW h \in HoldDevice
    PROVE  PassesInput(Unused(h))
  <1>1. h \notin Device
    BY OwnerAssumption
  <1>2. PassesInput(Output)
    BY OutputPassesInput
  <1>3. \A d, c, v : KeyOutput(d, c, v).owner = d /\ KeyOutput(d, c, v).kind = "key"
    BY DEF KeyOutput
  <1>4. \A d, t : EventOutput(d, t).owner = d
    BY DEF EventOutput
  <1>5. QED
    BY <1>1, <1>2, <1>3, <1>4 DEF PassesInput, Unused

LEMMA JournalOwnersAre ==
    ASSUME NEW x, NEW h
    PROVE  h \in JournalOwners(x) <=>
             \E i \in DOMAIN x.journal : \E k \in DOMAIN x.journal[i].events :
                LET r == x.journal[i].events[k] IN
                r.type = "output" /\ r.output.kind # "action" /\ r.output.owner = h
  <1>. DEFINE s(i) == [k \in DOMAIN x.journal[i].events |->
                         IF x.journal[i].events[k].type = "output"
                           THEN x.journal[i].events[k].output ELSE EmitAction(NoDevice)]
  <1>1. EmitAction(NoDevice).kind = "action"
    BY DEF EmitAction
  <1>2. ASSUME NEW i \in DOMAIN x.journal
        PROVE  h \in OutputOwners(s(i)) <=>
                 \E k \in DOMAIN x.journal[i].events :
                    LET r == x.journal[i].events[k] IN
                    r.type = "output" /\ r.output.kind # "action" /\ r.output.owner = h
    <2>1. \A o : o \in ToSet(s(i)) <=> \E k \in DOMAIN x.journal[i].events : o = s(i)[k]
      BY DEF ToSet
    <2>2. h \in OutputOwners(s(i)) <=>
            \E k \in DOMAIN x.journal[i].events : s(i)[k].kind # "action" /\ s(i)[k].owner = h
      <3>. HIDE DEF s
      <3>1. QED
        BY <2>1 DEF OutputOwners
    <2>3. QED
      BY <1>1, <2>2
  <1>3. JournalOwners(x) = UNION {OutputOwners(s(i)) : i \in DOMAIN x.journal}
    BY DEF JournalOwners
  <1>. HIDE DEF s
  <1>4. QED
    BY <1>2, <1>3

LEMMA OwnersLeft ==
    ASSUME NEW x \in Engines, NEW outputs \in Seq(Output)
    PROVE  /\ FreeOwners(x, outputs) # {} => OwnerLeft(x, outputs)
           /\ OwnerLeft(x, outputs) => FreeOwners(x, outputs) # {}
  <1>1. ASSUME NEW h
        PROVE  h \notin JournalOwners(x) <=> JournalOutputsIn(x, Unused(h))
    <2>1. ASSUME NEW i \in DOMAIN x.journal, NEW k \in DOMAIN x.journal[i].events,
                 x.journal[i].events[k].type = "output"
          PROVE  x.journal[i].events[k].output \in Output
      <3>1. x.journal[i] \in JournalFrames
        BY DEF Engines
      <3>2. x.journal[i].events[k] \in Record
        BY <3>1 DEF JournalFrames
      <3>3. QED
        BY <2>1, <3>2, RecordParts
    <2>2. QED
      BY <2>1, JournalOwnersAre DEF JournalOutputsIn, Unused
  <1>2. ASSUME NEW h
        PROVE  h \notin OutputOwners(outputs) <=> outputs \in Seq(Unused(h))
    <2>1. \A k \in DOMAIN outputs : outputs[k] \in Output
      OBVIOUS
    <2>2. h \notin OutputOwners(outputs) <=>
             \A k \in DOMAIN outputs : outputs[k].kind = "action" \/ outputs[k].owner # h
      BY DEF OutputOwners, ToSet
    <2>3. (\A k \in DOMAIN outputs : outputs[k] \in Unused(h)) <=> outputs \in Seq(Unused(h))
      OBVIOUS
    <2>4. QED
      BY <2>1, <2>2, <2>3 DEF Unused
  <1>3. ASSUME NEW h \in HoldDevice
        PROVE  h \in FreeOwners(x, outputs) <=> OwnerFree(x, h) /\ outputs \in Seq(Unused(h))
    BY <1>1, <1>2 DEF FreeOwners, OwnerFree
  <1>4. FreeOwners(x, outputs) \subseteq HoldDevice
    BY DEF FreeOwners
  <1>5. QED
    BY <1>3, <1>4 DEF OwnerLeft

LEMMA DrainOwnerFree ==
    ASSUME NEW x \in Engines, NEW h, OwnerFree(x, h)
    PROVE  OwnerFree(Drain(x), h)
  <1>. DEFINE y == Drain(x)
  <1>1. /\ y.active = x.active
        /\ \A i \in DOMAIN y.journal :
              /\ DrainCount(x) + i \in DOMAIN x.journal
              /\ y.journal[i] = x.journal[DrainCount(x) + i]
    BY DrainFields
  <1>. HIDE DEF y
  <1>2. QED
    BY <1>1 DEF OwnerFree, JournalOutputsIn, y

LEMMA TimeoutStep ==
    ASSUME NEW x, Sound(x), NEW late
    PROVE  MatcherStep(x, HandleTimeout(x, late))
  BY FailStep, MatcherStepReflexive DEF HandleTimeout

(* Evolves, over several calls of which one at most has new presses.        *)
LEMMA EvolvesThen ==
    ASSUME NEW x, NEW y, NEW z, NEW N, Evolves(x, y, N), Evolves(y, z, {}),
           Sound(x), Sound(y), Sound(z)
    PROVE  Evolves(x, z, N)
  <1>1. Evolves(x, z, N \cup {})
    BY EvolvesTransitive DEF Sound
  <1>2. QED
    BY <1>1

LEMMA DecidedThen ==
    ASSUME NEW x, NEW y, NEW F, Decided(x, F), Evolves(x, y, {})
    PROVE  Decided(y, F)
  <1>1. Decided(y, F \cup {})
    BY EvolvesDecided
  <1>2. QED
    BY <1>1

-----------------------------------------------------------------------------
(* The actions                                                             *)

LEMMA BeginFrameStep ==
    ASSUME NEW d \in Device, NEW late \in BOOLEAN, EngineInv, BeginFrame(d, late)
    PROVE  EngineInv' /\ Evolution
  <1>. DEFINE x == HandleTimeout(e, late)
              y == Drain(x)
              dropScan == \E p \in y.physical : device(p) = d /\ y.route[p] = "consumed"
              candidate == IF Matching(y) THEN "undecided" ELSE "none"
              f == JournalFrame(d, <<>>, dropScan, candidate)
              z == [y EXCEPT !.journal = Append(y.journal, f)]
  <1>1. Sound(e) /\ out = <<>> /\ out \in Seq(Output) /\ Decided(e, {})
    <2>1. /\ Sound(e) /\ out = <<>> /\ out \in Seq(Output) /\ frame = NoFrame
          /\ Decided(e, frame.fresh)
      BY DEF EngineInv, BeginFrame, Ready
    <2>2. frame.fresh = {}
      BY <2>1 DEF NoFrame
    <2>3. QED
      BY <2>1, <2>2
  <1>2. MatcherStep(e, x)
    BY <1>1, TimeoutStep
  <1>3. Sound(x) /\ Evolves(e, x, {}) /\ x \in Engines
    BY <1>2 DEF MatcherStep, Sound
  <1>4. e' = z /\ out' = Drained(x) /\ frame' = [NoFrame EXCEPT !.open = TRUE, !.device = d]
    BY DEF BeginFrame
  <1>5. Sound(y) /\ Evolves(x, y, {})
    BY <1>3, DrainKeeps
  <1>6. f \in JournalFrames /\ f.events = <<>> /\ f.device = d
    BY DEF JournalFrame, JournalFrames, Route
  <1>. HIDE DEF f
  <1>7. PICK h \in HoldDevice : OwnerFree(e, h)
    <2>1. FreeOwners(e, out) # {}
      BY DEF BeginFrame
    <2>2. OwnerLeft(e, out)
      <3>1. e \in Engines
        BY <1>1 DEF Sound
      <3>2. QED
        BY <1>1, <2>1, <3>1, OwnersLeft
    <2>3. QED
      BY <2>2 DEF OwnerLeft
  <1>8. OwnerFree(x, h)
    BY <1>1, <1>2, <1>3, <1>7, SameOwnerFree DEF MatcherStep, Sound
  <1>9. OwnerFree(y, h)
    BY <1>3, <1>8, DrainOwnerFree
  <1>10. out' \in Seq(Unused(h)) /\ out' \in Seq(Output)
    <2>1. x \in Engines /\ DeviceOrOutputs(x)
      BY <1>3 DEF Sound
    <2>2. PassesInput(Unused(h)) /\ JournalOutputsIn(x, Unused(h))
      BY <1>8, UnusedPassesInput DEF OwnerFree
    <2>3. Drained(x) \in Seq(Unused(h))
      BY <2>1, <2>2, DrainedType
    <2>4. Unused(h) \subseteq Output
      BY DEF Unused
    <2>5. QED
      BY <1>4, <2>3, <2>4
  <1>. HIDE DEF x, y
  <1>11. /\ Sound(z) /\ Evolves(y, z, {})
         /\ z.journal # <<>> /\ Last(z.journal) = f /\ OwnerFree(z, h)
    BY <1>5, <1>6, <1>9, AppendFrameKeeps
  <1>. HIDE DEF z
  <1>12. Evolves(e, z, {})
    BY <1>1, <1>3, <1>5, <1>11, EvolvesThen
  <1>13. /\ frame' \in Frames /\ frame'.open /\ frame'.device = d /\ frame'.fresh = {}
         /\ frame'.history = <<>> /\ frame'.todo = <<>>
    <2>1. <<>> \in Seq(Transitions)
      OBVIOUS
    <2>2. frame' = [open |-> TRUE, device |-> d, history |-> <<>>, fresh |-> {},
                    failed |-> FALSE, meaningful |-> FALSE, todo |-> <<>>, n |-> 0]
      BY <1>4 DEF NoFrame
    <2>3. QED
      BY <2>1, <2>2 DEF Frames
  <1>14. Decided(z, frame'.fresh)
    BY <1>1, <1>12, <1>13, DecidedThen
  <1>15. FrameInProgress'
    <2>1. ToSet(frame'.history) \cup ToSet(frame'.todo) = {}
      BY <1>13 DEF ToSet
    <2>2. OwnerLeft(z, out')
      BY <1>10, <1>11 DEF OwnerLeft
    <2>3. QED
      BY <1>4, <1>6, <1>11, <1>13, <2>1, <2>2 DEF FrameInProgress
  <1>16. JournalWaitsForCandidate'
    BY <1>13 DEF JournalWaitsForCandidate
  <1>17. Evolution
    BY <1>4, <1>12 DEF Evolution
  <1>18. QED
    BY <1>4, <1>10, <1>11, <1>13, <1>14, <1>15, <1>16, <1>17 DEF EngineInv

LEMMA AdvanceStepStep ==
    ASSUME EngineInv, AdvanceStep
    PROVE  EngineInv' /\ Evolution
  <1>. DEFINE tr == Head(frame.todo)
              x == Advance(e, tr)
  <1>1. /\ Sound(e) /\ frame \in Frames /\ FrameInProgress /\ Decided(e, frame.fresh)
        /\ frame.open /\ frame.todo # <<>> /\ Matching(e) /\ out \in Seq(Output)
    BY DEF EngineInv, AdvanceStep, FrameInProgress
  <1>2. /\ e' = x /\ out' = out
        /\ frame' = [frame EXCEPT !.failed = ~Matching(x),
                                  !.todo = IF Matching(x) THEN Tail(frame.todo) ELSE <<>>]
    BY DEF AdvanceStep
  <1>3. frame.todo \in Seq(Transitions) /\ frame.history \in Seq(Transitions)
    BY <1>1 DEF Frames
  <1>4. tr \in Transitions /\ tr \in ToSet(frame.todo) /\ Tail(frame.todo) \in Seq(Transitions)
        /\ ToSet(Tail(frame.todo)) \subseteq ToSet(frame.todo)
    BY <1>1, <1>3 DEF ToSet
  <1>5. MatcherStep(e, x)
    <2>1. tr.press \in Press
      BY <1>4 DEF Transitions
    <2>2. tr.value = 1 => tr.press \in Referenced(e)
      BY <1>1, <1>4, ReferencedParts DEF FrameInProgress
    <2>. HIDE DEF tr
    <2>3. QED
      BY <1>1, <2>1, <2>2, AdvanceKeeps
  <1>. HIDE DEF x, tr
  <1>6. /\ Sound(x) /\ Evolves(e, x, {}) /\ SameEvents(e, x) /\ x.active = e.active
        /\ e \in Engines /\ x \in Engines
    BY <1>1, <1>5 DEF MatcherStep, Sound
  <1>7. Decided(x, frame.fresh)
    BY <1>1, <1>6, DecidedThen
  <1>8. /\ frame' \in Frames /\ frame'.open /\ frame'.fresh = frame.fresh
        /\ frame'.device = frame.device /\ frame'.history = frame.history
        /\ frame'.todo # <<>> => Matching(x)
        /\ ToSet(frame'.todo) \subseteq ToSet(frame.todo)
    <2>1. ToSet(<<>>) = {} /\ <<>> \in Seq(Transitions)
      BY DEF ToSet
    <2>2. CASE Matching(x)
      BY <1>1, <1>2, <1>4, <2>2 DEF Frames
    <2>3. CASE ~Matching(x)
      BY <1>1, <1>2, <1>4, <2>1, <2>3 DEF Frames
    <2>4. QED
      BY <2>2, <2>3
  <1>9. JournalPresses(x) = JournalPresses(e)
    BY <1>6, SameJournalPresses
  <1>10. x.journal # <<>> /\ Last(x.journal).device = Last(e.journal).device
    <2>1. e.journal \in Seq(JournalFrames) /\ x.journal \in Seq(JournalFrames)
      BY <1>6 DEF Engines
    <2>2. Len(x.journal) = Len(e.journal) /\ Len(e.journal) \in DOMAIN e.journal
      BY <1>1, <1>6, <2>1 DEF SameEvents, FrameInProgress
    <2>3. QED
      BY <1>6, <2>1, <2>2 DEF SameEvents, Last
  <1>11. OwnerLeft(x, out)
    BY <1>1, <1>6, SameOwnerFree DEF OwnerLeft, FrameInProgress
  <1>12. FrameInProgress'
    BY <1>1, <1>2, <1>8, <1>9, <1>10, <1>11 DEF FrameInProgress
  <1>13. JournalWaitsForCandidate'
    BY <1>8 DEF JournalWaitsForCandidate
  <1>14. Evolution
    BY <1>2, <1>6 DEF Evolution
  <1>15. QED
    BY <1>1, <1>2, <1>6, <1>7, <1>8, <1>12, <1>13, <1>14 DEF EngineInv

(* Every call ends with drain.                                             *)
LEMMA DrainedStep ==
    ASSUME Sound(e), NEW y, Sound(y), NEW N \in SUBSET Press, N \cap Referenced(e) = {},
           Evolves(e, y, N), Decided(y, {}),
           e' = Drain(y), out' \in Seq(Output), frame' = NoFrame
    PROVE  EngineInv' /\ Evolution
  <1>. DEFINE z == Drain(y)
  <1>1. Sound(z) /\ Evolves(y, z, {})
    BY DrainKeeps
  <1>2. Decided(z, {})
    BY <1>1, DecidedThen
  <1>3. Evolves(e, z, N)
    BY <1>1, EvolvesThen
  <1>4. z.journal # <<>> => Matching(z) /\ Pending(z, Head(z.journal))
    BY <1>1, <1>2, DrainedWaits
  <1>. HIDE DEF z
  <1>5. e' = z
    BY DEF z
  <1>6. frame' \in Frames /\ ~frame'.open /\ frame'.fresh = {}
    <2>1. <<>> \in Seq(Transitions)
      OBVIOUS
    <2>2. QED
      BY <2>1 DEF Frames, NoFrame
  <1>7. JournalWaitsForCandidate'
    BY <1>4, <1>5 DEF JournalWaitsForCandidate
  <1>8. Decided(e, frame.fresh)'
    BY <1>2, <1>5, <1>6
  <1>9. Evolution
    BY <1>3, <1>5 DEF Evolution
  <1>10. QED
    BY <1>1, <1>5, <1>6, <1>7, <1>8, <1>9 DEF EngineInv

LEMMA DrainedOutput ==
    ASSUME NEW x, Sound(x)
    PROVE  Drained(x) \in Seq(Output)
  <1>1. x \in Engines /\ DeviceOrOutputs(x)
    BY DEF Sound
  <1>2. JournalOutputsIn(x, Output)
    <2>1. ASSUME NEW i \in DOMAIN x.journal, NEW k \in DOMAIN x.journal[i].events,
                 x.journal[i].events[k].type = "output"
          PROVE  x.journal[i].events[k].output \in Output
      <3>1. x.journal[i] \in JournalFrames
        BY <1>1 DEF Engines
      <3>2. x.journal[i].events[k] \in Record
        BY <3>1 DEF JournalFrames
      <3>3. QED
        BY <2>1, <3>2, RecordParts
    <2>2. QED
      BY <2>1 DEF JournalOutputsIn
  <1>3. QED
    BY <1>1, <1>2, OutputPassesInput, DrainedType

LEMMA ClosedFacts ==
    ASSUME EngineInv, ~frame.open
    PROVE  /\ Sound(e) /\ e \in Engines /\ Decided(e, {}) /\ frame = NoFrame
           /\ out \in Seq(Output)
  <1>1. /\ Sound(e) /\ Decided(e, frame.fresh) /\ frame = NoFrame /\ out \in Seq(Output)
    BY DEF EngineInv
  <1>2. frame.fresh = {} /\ e \in Engines
    BY <1>1 DEF NoFrame, Sound
  <1>3. QED
    BY <1>1, <1>2

LEMMA TimeoutStepKeeps ==
    ASSUME EngineInv, Timeout
    PROVE  EngineInv' /\ Evolution
  <1>. DEFINE y == HandleTimeout(e, TRUE)
  <1>1. Sound(e) /\ Decided(e, {}) /\ frame = NoFrame
    BY ClosedFacts DEF Timeout, Ready
  <1>2. e' = Drain(y) /\ out' = Drained(y) /\ frame' = NoFrame
    BY <1>1 DEF Timeout
  <1>3. Sound(y) /\ Evolves(e, y, {})
    BY <1>1, TimeoutStep DEF MatcherStep
  <1>. HIDE DEF y
  <1>4. Decided(y, {})
    BY <1>1, <1>3, DecidedThen
  <1>5. out' \in Seq(Output)
    BY <1>2, <1>3, DrainedOutput
  <1>6. {} \in SUBSET Press /\ {} \cap Referenced(e) = {}
    OBVIOUS
  <1>7. QED
    BY <1>1, <1>2, <1>3, <1>4, <1>5, <1>6, DrainedStep

LEMMA CloseStep ==
    ASSUME EngineInv, Close
    PROVE  EngineInv' /\ Evolution
  <1>. DEFINE y == Closing(e)
  <1>1. Sound(e) /\ Decided(e, {}) /\ frame = NoFrame
    BY ClosedFacts DEF Close, Ready
  <1>2. e' = Drain(y) /\ out' = Drained(y) /\ frame' = NoFrame
    BY <1>1 DEF Close
  <1>3. Sound(y) /\ Evolves(e, y, {})
    BY <1>1, ClosingKeeps
  <1>. HIDE DEF y
  <1>4. Decided(y, {})
    BY <1>1, <1>3, DecidedThen
  <1>5. out' \in Seq(Output)
    BY <1>2, <1>3, DrainedOutput
  <1>6. {} \in SUBSET Press /\ {} \cap Referenced(e) = {}
    OBVIOUS
  <1>7. QED
    BY <1>1, <1>2, <1>3, <1>4, <1>5, <1>6, DrainedStep

LEMMA EvolutionReflexive == ASSUME Sound(e), e' = e PROVE Evolution
  <1>1. Evolves(e, e, {})
    BY DEF Evolves
  <1>2. QED
    BY <1>1 DEF Evolution

LEMMA ApplyStep ==
    ASSUME EngineInv, Apply
    PROVE  EngineInv' /\ Evolution
  <1>1. /\ ~frame.open /\ out # <<>> /\ out' = Tail(out) /\ e' = e /\ frame' = frame
    BY DEF Apply
  <1>2. out' \in Seq(Output)
    BY <1>1 DEF EngineInv
  <1>3. JournalWaitsForCandidate'
    BY <1>1 DEF EngineInv, JournalWaitsForCandidate
  <1>4. Sound(e)' /\ (frame \in Frames)' /\ Decided(e, frame.fresh)' /\ (~frame.open => frame = NoFrame)'
    BY <1>1 DEF EngineInv
  <1>5. QED
    BY <1>1, <1>2, <1>3, <1>4, EvolutionReflexive DEF EngineInv

LEMMA EndFrameStep ==
    ASSUME EngineInv, EndFrame
    PROVE  EngineInv' /\ Evolution
  <1>. DEFINE w == IF Trapped(e) THEN Fail(e) ELSE e
              o == CHOOSE h \in FreeOwners(w, out) : TRUE
              x == IF frame.failed \/ Trapped(e) THEN w ELSE CompleteFrame(w, o)
              v == ForwardFresh(x, frame.fresh)
              y == DropChatter(v, frame.meaningful)
  <1>1. /\ Sound(e) /\ frame \in Frames /\ FrameInProgress /\ Decided(e, frame.fresh)
        /\ frame.open /\ out \in Seq(Output)
    BY DEF EngineInv, EndFrame
  <1>2. e' = Drain(y) /\ out' = out \o Drained(y) /\ frame' = NoFrame
    BY DEF EndFrame
  <1>3. Sound(w) /\ Evolves(e, w, {})
    BY <1>1, FailStep, MatcherStepReflexive DEF MatcherStep
  <1>4. ~Trapped(e) => o \in HoldDevice
    <2>1. SUFFICES ASSUME ~Trapped(e) PROVE FreeOwners(w, out) # {}
      BY DEF FreeOwners
    <2>2. w = e /\ e \in Engines
      BY <1>1, <2>1 DEF Sound
    <2>3. OwnerLeft(e, out)
      BY <1>1 DEF FrameInProgress
    <2>4. QED
      BY <1>1, <2>2, <2>3, OwnersLeft
  <1>. HIDE DEF w, o
  <1>5. Sound(x) /\ Evolves(w, x, {})
    <2>1. CASE frame.failed \/ Trapped(e)
      BY <1>3, <2>1, MatcherStepReflexive DEF MatcherStep
    <2>2. CASE ~(frame.failed \/ Trapped(e))
      BY <1>3, <1>4, <2>2, CompleteFrameKeeps
    <2>3. QED
      BY <2>1, <2>2
  <1>. HIDE DEF x
  <1>6. /\ Sound(v) /\ Evolves(x, v, {}) /\ v.journal = x.journal /\ v.seq = x.seq
        /\ \A p \in Press : p \in frame.fresh /\ v.route[p] = "undecided" => p \in v.seq.owned
    BY <1>5, ForwardFreshKeeps
  <1>. HIDE DEF v
  <1>7. Evolves(e, v, {}) /\ Decided(v, {})
    <2>1. Evolves(e, v, {})
      BY <1>1, <1>3, <1>5, <1>6, EvolvesThen
    <2>2. Decided(v, frame.fresh)
      BY <1>1, <2>1, DecidedThen
    <2>3. QED
      BY <1>6, <2>1, <2>2 DEF Decided
  <1>8. Sound(y) /\ Evolves(v, y, {})
    BY <1>6, DropChatterKeeps
  <1>. HIDE DEF y
  <1>9. Evolves(e, y, {}) /\ Decided(y, {})
    BY <1>1, <1>6, <1>7, <1>8, EvolvesThen, DecidedThen
  <1>10. out' \in Seq(Output)
    BY <1>1, <1>2, <1>8, DrainedOutput, ConcatType
  <1>11. {} \in SUBSET Press /\ {} \cap Referenced(e) = {}
    OBVIOUS
  <1>12. QED
    BY <1>1, <1>2, <1>8, <1>9, <1>10, <1>11, DrainedStep

LEMMA ReconcileStep ==
    ASSUME NEW d \in Device, NEW pressed \in SUBSET InputCode, EngineInv, Reconcile(d, pressed)
    PROVE  EngineInv' /\ Evolution
  <1>. DEFINE w == Cancelled(e, d)
              u == Drain(w)
              v == StopAll(u, EndedBy(e, d))
              x == Snapshot(v, e, d, pressed)
              y == QueueOutput(x, ReconcileDevice(d, VisibleCodes(x, d)))
  <1>1. Sound(e) /\ e \in Engines /\ Decided(e, {}) /\ frame = NoFrame
    BY ClosedFacts DEF Reconcile, Ready
  <1>2. /\ e' = Drain(y) /\ out' = Drained(w) \o Drained(y) /\ frame' = NoFrame
        /\ \A c \in pressed : PressAt(e, d, c) = NoPress => FreeLives(e, d, c) # {}
    BY <1>1 DEF Reconcile
  <1>3. pressed \in SUBSET Code
    BY DEF InputCode, KeyEvent
  <1>4. Sound(w) /\ Evolves(e, w, {}) /\ w.seq = NoCandidate /\ w.physical = e.physical
    BY <1>1, CancelledKeeps
  <1>5. /\ Sound(u) /\ Evolves(w, u, {})
        /\ u.seq = NoCandidate /\ u.physical = e.physical
    BY <1>4, DrainKeeps, DrainFields DEF Sound, SameMatching
  <1>. HIDE DEF u, w
  <1>6. /\ Sound(v) /\ Evolves(u, v, {})
        /\ v.seq = NoCandidate /\ v.physical = e.physical
    BY <1>1, <1>5, EndedByType, StopAllKeeps DEF SameMatching
  <1>. HIDE DEF v
  <1>7. Evolves(e, v, {})
    BY <1>1, <1>4, <1>5, <1>6, EvolvesThen
  <1>8. Referenced(v) \subseteq Referenced(e) \cup {NoPress}
    BY <1>7 DEF Evolves
  <1>9. Sound(x)
    BY <1>2, <1>3, <1>6, <1>8, SnapshotKeeps
  <1>10. PICK N \in SUBSET Press : /\ N \cap Referenced(e) = {}
                                   /\ Evolves(v, x, N)
                                   /\ \A p \in N : x.route[p] # "undecided"
    BY <1>2, <1>3, <1>6, <1>8, SnapshotKeeps
  <1>. HIDE DEF x
  <1>11. Evolves(e, x, N)
    <2>1. Evolves(e, x, {} \cup N)
      BY <1>1, <1>6, <1>7, <1>9, <1>10, EvolvesTransitive DEF Sound
    <2>2. QED
      BY <2>1
  <1>12. Decided(x, {})
    <2>1. Decided(x, {} \cup N)
      BY <1>1, <1>11, EvolvesDecided
    <2>2. QED
      BY <1>10, <2>1 DEF Decided
  <1>13. Sound(y) /\ Evolves(x, y, {})
    <2>1. ReconcileDevice(d, VisibleCodes(x, d)) \in Output
      BY <1>9, VisibleCodesType DEF Sound, Output, ReconcileDevice, Owner
    <2>2. <<ReconcileDevice(d, VisibleCodes(x, d))>> \in Seq(Output)
      BY <2>1
    <2>3. QED
      BY <1>9, <2>2, QueueOutputsKeeps DEF QueueOutput
  <1>. HIDE DEF y
  <1>14. Evolves(e, y, N) /\ Decided(y, {})
    BY <1>1, <1>9, <1>11, <1>12, <1>13, EvolvesThen, DecidedThen
  <1>15. out' \in Seq(Output)
    BY <1>2, <1>4, <1>13, DrainedOutput, ConcatType
  <1>16. QED
    BY <1>1, <1>2, <1>10, <1>13, <1>14, <1>15, DrainedStep

(* HandleEvent, in terms of the operators of EngineLemmas.                 *)
EventFails(d, event) ==
    LET v == Ingested(e, d, event)
        p == EventPress(e, d, event)
        valid == Valid(e, d, event)
    IN v.mode = "reserved" /\ (Outputs(v, TransitionOf(e, d, event), valid) # <<>>
                                 \/ Uncovered(v, p, event, valid))

EventProceeds(d, event) ==
    Valid(e, d, event) /\ ~frame.failed /\ ~EventFails(d, event)

EventStarts(d, event, chatter) ==
    /\ EventProceeds(d, event) /\ event.value = 1
    /\ Starts(Handled(e, d, event, chatter), EventPress(e, d, event))

Started(y, p, n) == [Start(y, p) EXCEPT !.journal[n].candidate = "undecided"]

(* Repeats and duplicate presses that a reservation leaves out.             *)
ChatterOf(x, d, event) ==
    Chatter(Ingested(x, d, event), EventPress(x, d, event), event, Valid(x, d, event))

LEMMA HandleEventIs ==
    ASSUME NEW event \in InputEvent, EngineInv, HandleEvent(event)
    PROVE  \E chatter \in BOOLEAN :
             LET d == frame.device
                 p == EventPress(e, d, event)
                 y == Handled(e, d, event, chatter)
                 tr == TransitionOf(e, d, event)
                 starts == EventStarts(d, event, chatter)
                 proceeds == EventProceeds(d, event)
             IN /\ chatter = ChatterOf(e, d, event)
                /\ Fresh(e, d, event) => FreeLives(e, d, event.code) # {} /\ ~chatter
                /\ e' = IF EventFails(d, event) THEN Fail(y)
                        ELSE IF starts THEN Started(y, p, Len(e.journal)) ELSE y
                /\ frame' =
                     [frame EXCEPT
                        !.n = @ + 1,
                        !.fresh = IF Fresh(e, d, event) THEN @ \cup {p} ELSE @,
                        !.meaningful = @ \/ (event.type # "msc" /\ ~chatter),
                        !.failed = @ \/ EventFails(d, event),
                        !.todo = IF starts THEN Append(frame.history, tr)
                                 ELSE IF proceeds /\ Matching(y) THEN <<tr>> ELSE <<>>,
                        !.history = IF proceeds THEN Append(@, tr) ELSE @]
                /\ out' = out
  <1>. DEFINE d == frame.device
              p == EventPress(e, d, event)
              valid == Valid(e, d, event)
              fresh == valid /\ event.value = 1
              v == Ingest(e, p, event, valid)
              tr == Transition(v, p, event)
              chatter == Chatter(v, p, event, valid)
              outputs == IF valid THEN ActivationEvents(v, tr) ELSE <<>>
              records == (IF chatter THEN <<>> ELSE <<RecordEvent(event, p)>>) \o outputs
              z == IF valid THEN EndActivations(v, tr) ELSE v
              y == [z EXCEPT !.journal[Len(v.journal)].events = @ \o records]
              fails == v.mode = "reserved" /\ (outputs # <<>> \/ Uncovered(v, p, event, valid))
              proceeds == valid /\ ~frame.failed /\ ~fails
              starts == proceeds /\ event.value = 1 /\ Starts(y, p)
  <1>1. Sound(e) /\ e \in Engines /\ d \in Device
    BY DEF EngineInv, Sound, HandleEvent, FrameInProgress
  <1>2. /\ fresh => FreeLives(e, d, event.code) # {}
        /\ e' = IF fails THEN Fail(y)
                ELSE IF starts
                  THEN [Start(y, p) EXCEPT !.journal[Len(v.journal)].candidate = "undecided"]
                  ELSE y
        /\ frame' =
             [frame EXCEPT
                !.n = @ + 1,
                !.fresh = IF fresh THEN @ \cup {p} ELSE @,
                !.meaningful = @ \/ (event.type # "msc" /\ ~chatter),
                !.failed = @ \/ fails,
                !.todo = IF starts THEN Append(frame.history, tr)
                         ELSE IF proceeds /\ Matching(y) THEN <<tr>> ELSE <<>>,
                !.history = IF proceeds THEN Append(@, tr) ELSE @]
        /\ out' = out
    BY Zenon DEF HandleEvent
  <1>3. fresh => ~chatter
    BY DEF Chatter
  <1>4. fresh = Fresh(e, d, event) /\ v = Ingested(e, d, event)
        /\ tr = TransitionOf(e, d, event) /\ z = Ended(e, d, event)
    BY DEF Fresh, Ingested, TransitionOf, Ended
  <1>5. outputs = Outputs(v, tr, valid) /\ records = Records(v, tr, valid, chatter, event, p)
    BY DEF Outputs, Records
  <1>6. chatter \in BOOLEAN
    BY DEF Chatter
  <1>. HIDE DEF fresh, v, tr, chatter, z, outputs, records
  <1>7. v.journal = e.journal /\ z.journal = e.journal
    BY <1>1, <1>2, <1>3, <1>4, EndedFields
  <1>8. y = Handled(e, d, event, chatter)
    BY <1>4, <1>5, <1>7, Zenon DEF Handled, Recorded
  <1>9. fails = EventFails(d, event) /\ proceeds = EventProceeds(d, event)
        /\ starts = EventStarts(d, event, chatter)
    <2>1. fails = EventFails(d, event)
      BY <1>4, <1>5, Zenon DEF EventFails
    <2>. HIDE DEF fails
    <2>2. proceeds = EventProceeds(d, event)
      BY <2>1, Zenon DEF EventProceeds
    <2>. HIDE DEF proceeds, y
    <2>3. starts = EventStarts(d, event, chatter)
      BY <1>8, <2>2, Zenon DEF EventStarts
    <2>4. QED
      BY <2>1, <2>2, <2>3
  <1>. HIDE DEF y, fails, proceeds, starts, p, d
  <1>10. [Start(y, p) EXCEPT !.journal[Len(v.journal)].candidate = "undecided"]
           = Started(y, p, Len(e.journal))
    BY <1>7, Zenon DEF Started
  <1>11. /\ Fresh(e, d, event) => FreeLives(e, d, event.code) # {} /\ ~chatter
         /\ e' = IF EventFails(d, event) THEN Fail(Handled(e, d, event, chatter))
                 ELSE IF EventStarts(d, event, chatter)
                   THEN Started(Handled(e, d, event, chatter), p, Len(e.journal))
                   ELSE Handled(e, d, event, chatter)
    BY <1>2, <1>3, <1>4, <1>8, <1>9, <1>10, Zenon
  <1>12. frame' =
             [frame EXCEPT
                !.n = @ + 1,
                !.fresh = IF Fresh(e, d, event) THEN @ \cup {p} ELSE @,
                !.meaningful = @ \/ (event.type # "msc" /\ ~chatter),
                !.failed = @ \/ EventFails(d, event),
                !.todo = IF EventStarts(d, event, chatter)
                           THEN Append(frame.history, TransitionOf(e, d, event))
                         ELSE IF EventProceeds(d, event) /\ Matching(Handled(e, d, event, chatter))
                           THEN <<TransitionOf(e, d, event)>> ELSE <<>>,
                !.history = IF EventProceeds(d, event)
                              THEN Append(@, TransitionOf(e, d, event)) ELSE @]
    BY <1>2, <1>4, <1>8, <1>9, Zenon
  <1>13. chatter = ChatterOf(e, d, event)
    BY <1>4, Zenon DEF chatter, ChatterOf, p
  <1>14. QED
    BY <1>2, <1>6, <1>11, <1>12, <1>13, Zenon DEF p, d

(* What the engine decides about an event that is recorded.                *)
LEMMA StartedKeeps ==
    ASSUME NEW y, Sound(y), y.journal # <<>>, NEW p, Starts(y, p), NEW n, n = Len(y.journal)
    PROVE  LET z == Started(y, p, n) IN
           /\ Sound(z) /\ Evolves(y, z, {}) /\ SameEvents(y, z) /\ z.active = y.active
           /\ Matching(z)
  <1>. DEFINE s == Start(y, p)
              z == Started(y, p, n)
  <1>1. /\ Sound(s) /\ Evolves(y, s, {}) /\ s.journal = y.journal /\ s.active = y.active
        /\ Matching(s)
    <2>1. CASE y.mode = "idle"
      BY <2>1, StartSourceKeeps DEF Start
    <2>2. CASE y.mode # "idle"
      <3>1. y.mode = "await"
        BY <2>2 DEF Starts
      <3>2. QED
        BY <2>2, <3>1, StartBindingKeeps DEF Start
    <2>3. QED
      BY <2>1, <2>2
  <1>. HIDE DEF s
  <1>2. s.journal # <<>> /\ n = Len(s.journal)
    BY <1>1
  <1>3. z = [s EXCEPT !.journal[n].candidate = "undecided"]
    BY DEF Started, s
  <1>. HIDE DEF z
  <1>4. /\ Sound(z) /\ Evolves(s, z, {}) /\ SameMatching(s, z) /\ SameEvents(s, z)
        /\ z.active = s.active
    BY <1>1, <1>2, <1>3, MarkedKeeps
  <1>5. SameEvents(y, z)
    BY <1>1, <1>4 DEF SameEvents
  <1>6. Evolves(y, z, {})
    BY <1>1, <1>4, EvolvesThen
  <1>7. Matching(z)
    BY <1>1, <1>4 DEF SameMatching, Matching
  <1>8. QED
    BY <1>1, <1>4, <1>5, <1>6, <1>7 DEF z

LEMMA HandleEventStep ==
    ASSUME NEW event \in InputEvent, EngineInv, HandleEvent(event)
    PROVE  EngineInv' /\ Evolution
  <1>. DEFINE d == frame.device
              p == EventPress(e, d, event)
              tr == TransitionOf(e, d, event)
              fresh == Fresh(e, d, event)
              fails == EventFails(d, event)
              proceeds == EventProceeds(d, event)
              N == IF fresh THEN {p} ELSE {}
  <1>1. PICK chatter \in BOOLEAN :
             LET y == Handled(e, d, event, chatter)
                 starts == EventStarts(d, event, chatter)
             IN /\ chatter = ChatterOf(e, d, event)
                /\ fresh => FreeLives(e, d, event.code) # {} /\ ~chatter
                /\ e' = IF fails THEN Fail(y)
                        ELSE IF starts THEN Started(y, p, Len(e.journal)) ELSE y
                /\ frame' =
                     [frame EXCEPT
                        !.n = @ + 1,
                        !.fresh = IF fresh THEN @ \cup {p} ELSE @,
                        !.meaningful = @ \/ (event.type # "msc" /\ ~chatter),
                        !.failed = @ \/ fails,
                        !.todo = IF starts THEN Append(frame.history, tr)
                                 ELSE IF proceeds /\ Matching(y) THEN <<tr>> ELSE <<>>,
                        !.history = IF proceeds THEN Append(@, tr) ELSE @]
                /\ out' = out
    BY HandleEventIs
  <1>. DEFINE y == Handled(e, d, event, chatter)
              starts == EventStarts(d, event, chatter)
              ne == [frame EXCEPT
                        !.n = @ + 1,
                        !.fresh = IF fresh THEN @ \cup {p} ELSE @,
                        !.meaningful = @ \/ (event.type # "msc" /\ ~chatter),
                        !.failed = @ \/ fails,
                        !.todo = IF starts THEN Append(frame.history, tr)
                                 ELSE IF proceeds /\ Matching(y) THEN <<tr>> ELSE <<>>,
                        !.history = IF proceeds THEN Append(@, tr) ELSE @]
  <1>2. /\ Sound(e) /\ e \in Engines /\ frame \in Frames /\ FrameInProgress
        /\ Decided(e, frame.fresh) /\ frame.open /\ out \in Seq(Output) /\ d \in Device
        /\ e.journal # <<>> /\ Last(e.journal).device = d
    BY DEF EngineInv, HandleEvent, FrameInProgress, Sound
  <1>3. /\ Sound(y) /\ N \in SUBSET Press /\ N \cap Referenced(e) = {}
        /\ Evolves(e, y, N) /\ SameMatching(e, y)
        /\ y.journal # <<>> /\ Last(y.journal).device = d /\ Len(y.journal) = Len(e.journal)
        /\ JournalPresses(e) \subseteq JournalPresses(y)
        /\ N \subseteq JournalPresses(y)
        /\ \A h : OwnerFree(e, h) => OwnerFree(y, h)
    <2>1. fresh => FreeLives(e, d, event.code) # {} /\ chatter = FALSE
      BY <1>1
    <2>. HIDE DEF d
    <2>2. QED
      <3>1. Sound(e) /\ e.journal # <<>> /\ Last(e.journal).device = d /\ d \in Device
        BY <1>2
      <3>2. HandledFacts(e, d, event, chatter)
        BY <2>1, <3>1, HandledKeeps
      <3>3. QED
        BY <3>2 DEF HandledFacts
  <1>4. Valid(e, d, event) => tr \in Transitions
    BY <1>1, <1>2, TransitionType
  <1>5. tr.press = p /\ tr.value = event.value
    BY DEF TransitionOf, Transition
  <1>6. proceeds => Valid(e, d, event) /\ ~fails
    BY DEF EventProceeds
  <1>7. starts => proceeds /\ Starts(y, p)
    BY DEF EventStarts
  <1>8. Valid(e, d, event) /\ event.value = 1 => fresh
    BY DEF Fresh
  <1>9. e' = IF fails THEN Fail(y) ELSE IF starts THEN Started(y, p, Len(e.journal)) ELSE y
    BY <1>1
  <1>10. frame' = ne /\ out' = out
    BY <1>1
  <1>. HIDE DEF y, starts, proceeds, fails, tr, fresh, p
  <1>11. /\ Sound(e') /\ Evolves(y, e', {}) /\ SameEvents(y, e') /\ e'.active = y.active
         /\ starts => Matching(e')
         /\ proceeds /\ ~starts => e' = y
    <2>1. CASE fails
      BY <1>3, <1>6, <1>7, <1>9, <2>1, FailStep DEF MatcherStep
    <2>2. CASE ~fails /\ starts
      BY <1>3, <1>7, <1>9, <2>2, StartedKeeps
    <2>3. CASE ~fails /\ ~starts
      BY <1>3, <1>9, <2>3, MatcherStepReflexive DEF MatcherStep
    <2>4. QED
      BY <2>1, <2>2, <2>3
  <1>12. y \in Engines /\ e' \in Engines
    BY <1>3, <1>11 DEF Sound
  <1>13. Evolves(e, e', N)
    BY <1>2, <1>3, <1>11, EvolvesThen
  <1>14. JournalPresses(e') = JournalPresses(y)
    BY <1>11, <1>12, SameJournalPresses
  <1>15. /\ frame'.open /\ frame'.device = d /\ frame'.fresh = frame.fresh \cup N
         /\ frame'.history = IF proceeds THEN Append(frame.history, tr) ELSE frame.history
         /\ frame'.todo = IF starts THEN Append(frame.history, tr)
                          ELSE IF proceeds /\ Matching(y) THEN <<tr>> ELSE <<>>
         /\ frame'.n = frame.n + 1
         /\ frame'.failed = (frame.failed \/ fails)
         /\ frame'.meaningful = (frame.meaningful \/ (event.type # "msc" /\ ~chatter))
         /\ frame' = ne
    BY <1>2, <1>10 DEF Frames
  <1>16. Decided(e', frame'.fresh)
    BY <1>2, <1>13, <1>15, EvolvesDecided
  <1>17. /\ frame'.history \in Seq(Transitions) /\ frame'.todo \in Seq(Transitions)
         /\ ToSet(frame'.history) \cup ToSet(frame'.todo) \subseteq
              ToSet(frame.history) \cup (IF proceeds THEN {tr} ELSE {})
    <2>1. frame.history \in Seq(Transitions)
      BY <1>2 DEF Frames
    <2>2. <<>> \in Seq(Transitions) /\ ToSet(<<>>) = {}
      BY DEF ToSet
    <2>3. ASSUME proceeds
          PROVE  /\ Append(frame.history, tr) \in Seq(Transitions) /\ <<tr>> \in Seq(Transitions)
                 /\ ToSet(Append(frame.history, tr)) \subseteq ToSet(frame.history) \cup {tr}
                 /\ ToSet(<<tr>>) = {tr}
      <3>1. tr \in Transitions
        BY <1>4, <1>6, <2>3
      <3>2. QED
        BY <2>1, <3>1 DEF ToSet
    <2>4. QED
      BY <1>7, <1>15, <2>1, <2>2, <2>3
  <1>18. \A t \in ToSet(frame'.history) \cup ToSet(frame'.todo) :
            t.value = 1 => t.press \in JournalPresses(e')
    <2>1. proceeds /\ tr.value = 1 => tr.press \in JournalPresses(y)
      BY <1>3, <1>5, <1>6, <1>8
    <2>2. \A t \in ToSet(frame.history) : t.value = 1 => t.press \in JournalPresses(e)
      BY <1>2 DEF FrameInProgress
    <2>3. QED
      BY <1>3, <1>14, <1>17, <2>1, <2>2
  <1>19. frame' \in Frames
    <2>1. frame.fresh \cup N \in SUBSET Press
      BY <1>2, <1>3 DEF Frames
    <2>2. frame.n + 1 \in Nat
      BY <1>2 DEF Frames
    <2>3. frame'.failed \in BOOLEAN /\ frame'.meaningful \in BOOLEAN
      BY <1>15
    <2>4. frame' = [open |-> frame'.open, device |-> d, history |-> frame'.history,
                    fresh |-> frame'.fresh, failed |-> frame'.failed,
                    meaningful |-> frame'.meaningful, todo |-> frame'.todo, n |-> frame'.n]
      BY <1>2, <1>15 DEF Frames
    <2>. HIDE DEF ne
    <2>5. QED
      BY <1>2, <1>15, <1>17, <2>1, <2>2, <2>3, <2>4 DEF Frames
  <1>20. frame'.todo # <<>> => Matching(e')
    BY <1>11, <1>15
  <1>21. e'.journal # <<>> /\ Last(e'.journal).device = d
    <2>1. y.journal \in Seq(JournalFrames) /\ e'.journal \in Seq(JournalFrames)
      BY <1>12 DEF Engines
    <2>2. Len(e'.journal) = Len(y.journal) /\ Len(y.journal) \in DOMAIN y.journal
      BY <1>3, <1>11, <2>1 DEF SameEvents
    <2>3. QED
      BY <1>3, <1>11, <2>1, <2>2 DEF SameEvents, Last
  <1>22. OwnerLeft(e', out')
    <2>1. PICK h \in HoldDevice : OwnerFree(e, h) /\ out \in Seq(Unused(h))
      BY <1>2 DEF FrameInProgress, OwnerLeft
    <2>2. OwnerFree(e', h)
      BY <1>3, <1>11, <1>12, <2>1, SameOwnerFree
    <2>3. QED
      BY <1>10, <2>1, <2>2 DEF OwnerLeft
  <1>23. FrameInProgress'
    BY <1>2, <1>15, <1>18, <1>20, <1>21, <1>22 DEF FrameInProgress
  <1>24. JournalWaitsForCandidate'
    BY <1>15 DEF JournalWaitsForCandidate
  <1>25. Evolution
    BY <1>3, <1>13 DEF Evolution
  <1>26. QED
    BY <1>2, <1>10, <1>11, <1>15, <1>16, <1>19, <1>23, <1>24, <1>25 DEF EngineInv

-----------------------------------------------------------------------------
(* EngineInv is inductive.                                                 *)

LEMMA InitialSound == Sound(InitialEngine)
  <1>. DEFINE x == InitialEngine
  <1>1. \A key : CountOf({}, key) = 0
    <2>1. \A key : {p \in {} : logical(p) = key} = {}
      OBVIOUS
    <2>2. QED
      BY <2>1, FS_EmptySet DEF CountOf
  <1>2. NoCandidate \in Candidate
    BY DEF NoCandidate, Candidate
  <1>3. <<>> \in Seq(JournalFrames) /\ <<>> \in Seq(Activation)
    OBVIOUS
  <1>4. x \in Engines
    BY <1>2, <1>3 DEF InitialEngine, Engines, Mode, Route
  <1>5. Counted(x)
    BY <1>1 DEF InitialEngine, Counted
  <1>6. Configured(x) /\ DeadlineFits(x)
    BY DEF InitialEngine, Configured, DeadlineFits, Matching
  <1>7. OwnedUndecided(x) /\ DeviceOrOutputs(x)
    BY DEF InitialEngine, OwnedUndecided, DeviceOrOutputs, NoCandidate
  <1>8. QED
    BY <1>4, <1>5, <1>6, <1>7 DEF Sound

LEMMA InitialReferenced == Referenced(InitialEngine) \subseteq {NoPress}
  BY DEF InitialEngine, Referenced, JournalPresses, NoCandidate, ToSet

LEMMA InvInit == EngineInit => EngineInv
  <1>. SUFFICES ASSUME EngineInit PROVE EngineInv
    OBVIOUS
  <1>1. e = InitialEngine /\ frame = NoFrame /\ out = <<>>
    BY DEF EngineInit
  <1>2. <<>> \in Seq(Output) /\ <<>> \in Seq(Transitions)
    OBVIOUS
  <1>3. NoFrame \in Frames /\ ~NoFrame.open
    BY <1>2 DEF Frames, NoFrame
  <1>4. Decided(e, frame.fresh)
    BY <1>1, InitialReferenced, PressFinite DEF Decided
  <1>5. e.journal = <<>>
    BY <1>1 DEF InitialEngine
  <1>6. QED
    BY <1>1, <1>2, <1>3, <1>4, <1>5, InitialSound DEF EngineInv, JournalWaitsForCandidate

LEMMA InvNext == EngineInv /\ [EngineNext]_engineVars => EngineInv' /\ Evolution
  <1>. SUFFICES ASSUME EngineInv, [EngineNext]_engineVars PROVE EngineInv' /\ Evolution
    OBVIOUS
  <1>1. ASSUME NEW d \in Device, NEW late \in BOOLEAN, BeginFrame(d, late)
        PROVE  EngineInv' /\ Evolution
    BY <1>1, BeginFrameStep
  <1>2. ASSUME NEW event \in InputEvent, HandleEvent(event)
        PROVE  EngineInv' /\ Evolution
    BY <1>2, HandleEventStep
  <1>3. ASSUME NEW d \in Device, NEW pressed \in SUBSET InputCode, Reconcile(d, pressed)
        PROVE  EngineInv' /\ Evolution
    BY <1>3, ReconcileStep
  <1>4. ASSUME UNCHANGED engineVars PROVE EngineInv' /\ Evolution
    <2>1. e' = e /\ frame' = frame /\ out' = out
      BY <1>4 DEF engineVars
    <2>2. EngineInv'
      BY <2>1 DEF EngineInv, FrameInProgress, JournalWaitsForCandidate
    <2>3. Evolution
      BY <2>1, EvolutionReflexive DEF EngineInv
    <2>4. QED
      BY <2>2, <2>3
  <1>5. QED
    BY <1>1, <1>2, <1>3, <1>4, AdvanceStepStep, EndFrameStep, TimeoutStepKeeps, CloseStep,
       ApplyStep DEF EngineNext, Input

(* Whatever keys are pressed, released and repeated, in frames of any size, *)
(* and whatever snapshots, timeouts and shutdowns come between: the engine  *)
(* stays what EngineInv says (the type of its fields, the counts of logical *)
(* keys, the candidate of each mode, and who decides what is journalled).   *)
THEOREM EngineInvariant == EngineSpec => []EngineInv
  BY InvInit, InvNext, PTL DEF EngineSpec

(* The engine's fields and the locals of HandleFrame have their types: the  *)
(* counts of logical keys stay natural numbers (ingest never decrements one *)
(* below zero) and every operation returned to the forwarder is well formed.*)
THEOREM EngineTypes == EngineSpec => []EngineTypeOK
  <1>1. EngineInv => EngineTypeOK
    BY DEF EngineInv, EngineTypeOK, Sound, Engines, JournalFrames, Frames
  <1>2. QED
    BY <1>1, EngineInvariant, PTL

(* The panic in resolve cannot be reached: a press that a candidate owns is *)
(* undecided when the candidate is resolved, however many frames, releases, *)
(* snapshots and timeouts came after the candidate took it.                 *)
THEOREM EngineNoPanic == EngineSpec => []NoResolvePanic
  <1>1. EngineInv => NoResolvePanic
    BY DEF EngineInv, Sound, OwnedUndecided, NoResolvePanic
  <1>2. QED
    BY <1>1, EngineInvariant, PTL

(* A deadline is armed exactly in the modes that hide input and are not a   *)
(* reservation, so every wait that should end by itself does.               *)
THEOREM EngineDeadline == EngineSpec => []DeadlineCoversWait
  <1>1. EngineInv => DeadlineCoversWait
    BY DEF EngineInv, Sound, DeadlineFits, DeadlineCoversWait
  <1>2. QED
    BY <1>1, EngineInvariant, PTL

(* Between two calls the journal is empty, or its first frame waits for a   *)
(* press that the candidate in progress will decide: drain strands nothing. *)
THEOREM EngineWaits == EngineSpec => []JournalWaitsForCandidate
  <1>1. EngineInv => JournalWaitsForCandidate
    BY DEF EngineInv
  <1>2. QED
    BY <1>1, EngineInvariant, PTL

(* No call changes what was decided about a press that is still referenced: *)
(* a key whose press was forwarded has its release forwarded too, and a     *)
(* consumed press is never seen later.                                      *)
THEOREM EngineStable == EngineSpec => DispositionStable
  <1>. DEFINE Stable ==
         \A p \in Press :
            p \in Referenced(e) \cap Referenced(e') /\ e.route[p] # "undecided"
              => e'.route[p] = e.route[p]
  <1>1. EngineInv /\ [EngineNext]_engineVars => Stable
    <2>. SUFFICES ASSUME EngineInv, [EngineNext]_engineVars PROVE Stable
      OBVIOUS
    <2>1. PICK N \in SUBSET Press : N \cap Referenced(e) = {} /\ Evolves(e, e', N)
      BY InvNext DEF Evolution
    <2>2. QED
      BY <2>1 DEF Evolves
  <1>2. EngineInv /\ [EngineNext]_engineVars => [Stable]_engineVars
    BY <1>1
  <1>. HIDE DEF Stable
  <1>3. EngineSpec => [][Stable]_engineVars
    BY <1>2, EngineInvariant, PTL DEF EngineSpec
  <1>4. QED
    BY <1>3 DEF Stable, DispositionStable

-----------------------------------------------------------------------------
(* Together with EngineInv this is inductive: the transitions of the frame  *)
(* lead to the keys that are held now, and the candidate has followed them  *)
(* as far as it was advanced.                                              *)
HeldInv ==
    /\ Held(e)
    /\ frame.failed => ~Matching(e)
    /\ frame.open /\ ~frame.failed =>
          \E P : Trail(frame.history, P, e.reuse \cup e.carry, e.physical)
    /\ \E P : Trail(frame.todo, P, e.reuse \cup e.carry, e.physical) /\ Tracks(e, P[1])

(* Between calls.                                                          *)
LEMMA ClosedHeldInv ==
    ASSUME e' \in Engines, Consistent(e'), frame' = NoFrame
    PROVE  HeldInv'
  <1>1. ~frame'.open /\ ~frame'.failed /\ frame'.todo = <<>>
    BY DEF NoFrame
  <1>2. e'.physical \in SUBSET Press /\ e'.reuse \cup e'.carry \subseteq e'.physical
    BY DEF Engines, Consistent, Held, Leftovers
  <1>3. \E P : Trail(<<>>, P, e'.reuse \cup e'.carry, e'.physical) /\ P[1] = e'.physical
    BY <1>2, TrailNone
  <1>4. QED
    BY <1>1, <1>3 DEF HeldInv, Consistent

LEMMA HeldConsistent ==
    ASSUME HeldInv, frame.todo = <<>>
    PROVE  Consistent(e)
  <1>1. PICK P : Trail(<<>>, P, e.reuse \cup e.carry, e.physical) /\ Tracks(e, P[1])
    BY DEF HeldInv
  <1>2. P[1] = e.physical
    BY <1>1, TrailEnds
  <1>3. QED
    BY <1>1, <1>2 DEF HeldInv, Consistent

(* A frame that is open and has no transitions yet.                        *)
LEMMA OpenHeldInv ==
    ASSUME e' \in Engines, Consistent(e'), frame'.todo = <<>>, frame'.failed => ~Matching(e'),
           ~frame'.failed =>
             \E P : Trail(frame'.history, P, e'.reuse \cup e'.carry, e'.physical)
    PROVE  HeldInv'
  <1>1. e'.physical \in SUBSET Press /\ e'.reuse \cup e'.carry \subseteq e'.physical
    BY DEF Engines, Consistent, Held, Leftovers
  <1>2. \E P : Trail(<<>>, P, e'.reuse \cup e'.carry, e'.physical) /\ P[1] = e'.physical
    BY <1>1, TrailNone
  <1>3. QED
    BY <1>2 DEF HeldInv, Consistent

LEMMA BeginFrameHeld ==
    ASSUME NEW d \in Device, NEW late \in BOOLEAN, EngineInv, HeldInv, BeginFrame(d, late)
    PROVE  HeldInv'
  <1>. DEFINE x == HandleTimeout(e, late)
              y == Drain(x)
              dropScan == \E p \in y.physical : device(p) = d /\ y.route[p] = "consumed"
              candidate == IF Matching(y) THEN "undecided" ELSE "none"
              f == JournalFrame(d, <<>>, dropScan, candidate)
              z == [y EXCEPT !.journal = Append(y.journal, f)]
  <1>1. Sound(e) /\ frame = NoFrame
    BY DEF EngineInv, BeginFrame, Ready
  <1>2. frame.todo = <<>>
    BY <1>1 DEF NoFrame
  <1>3. Consistent(e)
    BY <1>2, HeldConsistent
  <1>4. e' = z /\ frame' = [NoFrame EXCEPT !.open = TRUE, !.device = d]
    BY DEF BeginFrame
  <1>5. Sound(x) /\ Consistent(x)
    <2>1. CASE x = e
      BY <1>1, <1>3, <2>1
    <2>2. CASE x = Fail(e)
      BY <1>1, <1>3, <2>2, FailKeeps, FailConsistent DEF Consistent
    <2>3. QED
      BY <2>1, <2>2 DEF HandleTimeout
  <1>. HIDE DEF x
  <1>6. Sound(y) /\ Consistent(y) /\ y \in Engines
    BY <1>5, DrainKeeps, DrainConsistent DEF Sound
  <1>7. f \in JournalFrames /\ f.events = <<>> /\ f.device = d
    BY DEF JournalFrame, JournalFrames, Route
  <1>. HIDE DEF f, y
  <1>8. Sound(z) /\ Evolves(y, z, {})
    BY <1>6, <1>7, AppendFrameKeeps
  <1>9. Retains(y, z) /\ SameMatching(y, z)
    BY <1>6 DEF Engines, Retains, Fewer, SameMatching
  <1>. HIDE DEF z
  <1>10. Consistent(z) /\ z \in Engines
    BY <1>6, <1>8, <1>9, ConsistentKeeps DEF Sound
  <1>11. frame'.todo = <<>> /\ frame'.history = <<>> /\ ~frame'.failed
    BY <1>4 DEF NoFrame
  <1>12. \E P : Trail(<<>>, P, z.reuse \cup z.carry, z.physical) /\ P[1] = z.physical
    <2>1. z.physical \in SUBSET Press /\ z.reuse \cup z.carry \subseteq z.physical
      BY <1>10 DEF Engines, Consistent, Held, Leftovers
    <2>2. QED
      BY <2>1, TrailNone
  <1>13. QED
    BY <1>4, <1>10, <1>11, <1>12, OpenHeldInv

LEMMA AdvanceStepHeld ==
    ASSUME EngineInv, HeldInv, AdvanceStep
    PROVE  HeldInv'
  <1>. DEFINE tr == Head(frame.todo)
              x == Advance(e, tr)
              S == e.reuse \cup e.carry
              T == x.reuse \cup x.carry
  <1>1. /\ Sound(e) /\ e \in Engines /\ frame \in Frames /\ FrameInProgress
        /\ frame.open /\ frame.todo # <<>> /\ Matching(e) /\ ~frame.failed
    BY DEF EngineInv, HeldInv, AdvanceStep, FrameInProgress, Sound
  <1>2. /\ e' = x
        /\ frame' = [frame EXCEPT !.failed = ~Matching(x),
                                  !.todo = IF Matching(x) THEN Tail(frame.todo) ELSE <<>>]
    BY DEF AdvanceStep
  <1>3. frame.todo \in Seq(Transitions) /\ frame.history \in Seq(Transitions)
    BY <1>1 DEF Frames
  <1>4. tr \in Transitions /\ tr \in ToSet(frame.todo)
    BY <1>1, <1>3 DEF ToSet
  <1>5. tr.press \in Press /\ (tr.value = 1 => tr.press \in Referenced(e))
    BY <1>1, <1>4, ReferencedParts DEF FrameInProgress, Transitions
  <1>6. PICK P : Trail(frame.todo, P, S, e.physical) /\ Tracks(e, P[1])
    BY DEF HeldInv
  <1>7. /\ Moves(P[1], tr, P[2]) /\ S \subseteq P[1]
        /\ P[1] \in SUBSET Press /\ P[2] \in SUBSET Press
    <2>. HIDE DEF S
    <2>1. QED
      BY <1>1, <1>3, <1>6, TrailTail
  <1>. HIDE DEF tr
  <1>8. MatcherStep(e, x)
    BY <1>1, <1>5, AdvanceKeeps
  <1>9. Advanced(e, x, P[2])
    BY <1>1, <1>5, <1>6, <1>7, AdvanceTracks
  <1>. HIDE DEF x
  <1>10. /\ Tracks(x, P[2]) /\ x.reuse = e.reuse /\ x.carry \subseteq e.carry
         /\ x \in Engines /\ Evolves(e, x, {}) /\ Retains(e, x)
    BY <1>8, <1>9 DEF Advanced, MatcherStep, Retains, Fewer, Sound
  <1>11. Held(x) /\ x.physical = e.physical /\ T \subseteq S
    BY <1>1, <1>10, HeldKeeps DEF HeldInv, Retains
  <1>. HIDE DEF S, T
  <1>12. /\ frame'.open /\ frame'.history = frame.history /\ frame'.failed = ~Matching(x)
         /\ frame'.todo = IF Matching(x) THEN Tail(frame.todo) ELSE <<>>
    BY <1>1, <1>2 DEF Frames
  <1>13. \E Q : Trail(frame.history, Q, T, x.physical)
    BY <1>1, <1>11, TrailLess DEF HeldInv, S
  <1>14. CASE Matching(x)
    <2>1. Trail(Tail(frame.todo), Tail(P), T, x.physical) /\ Tail(P)[1] = P[2]
      BY <1>1, <1>3, <1>6, <1>11, TrailTail
    <2>2. \E Q : Trail(frame'.todo, Q, T, x.physical) /\ Tracks(x, Q[1])
      BY <1>10, <1>12, <1>14, <2>1
    <2>3. QED
      BY <1>2, <1>11, <1>12, <1>13, <1>14, <2>2 DEF HeldInv, T
  <1>15. CASE ~Matching(x)
    BY <1>2, <1>10, <1>11, <1>12, <1>15, OpenHeldInv, IdleConsistent
  <1>16. QED
    BY <1>14, <1>15

LEMMA EndFrameHeld ==
    ASSUME EngineInv, HeldInv, EndFrame
    PROVE  HeldInv'
  <1>. DEFINE w == IF Trapped(e) THEN Fail(e) ELSE e
              o == CHOOSE h \in FreeOwners(w, out) : TRUE
              x == IF frame.failed \/ Trapped(e) THEN w ELSE CompleteFrame(w, o)
              v == ForwardFresh(x, frame.fresh)
              y == DropChatter(v, frame.meaningful)
  <1>1. /\ Sound(e) /\ FrameInProgress /\ frame.todo = <<>> /\ frame.open
        /\ out \in Seq(Output)
    BY DEF EngineInv, EndFrame
  <1>2. e' = Drain(y) /\ frame' = NoFrame
    BY DEF EndFrame
  <1>3. Consistent(e)
    BY <1>1, HeldConsistent
  <1>4. Sound(w) /\ Consistent(w)
    BY <1>1, <1>3, FailKeeps, FailConsistent DEF Consistent
  <1>5. ~Trapped(e) => o \in HoldDevice /\ \A b \in ToSet(w.active) : b.owner # o
    <2>1. SUFFICES ASSUME ~Trapped(e) PROVE FreeOwners(w, out) # {}
      BY DEF FreeOwners
    <2>2. w = e /\ e \in Engines
      BY <1>1, <2>1 DEF Sound
    <2>3. OwnerLeft(e, out)
      BY <1>1 DEF FrameInProgress
    <2>4. QED
      BY <1>1, <2>2, <2>3, OwnersLeft
  <1>. HIDE DEF w, o
  <1>6. Sound(x) /\ Consistent(x)
    <2>1. CASE frame.failed \/ Trapped(e)
      BY <1>4, <2>1
    <2>2. CASE ~(frame.failed \/ Trapped(e))
      BY <1>4, <1>5, <2>2, CompleteFrameKeeps, CompleteFrameConsistent
    <2>3. QED
      BY <2>1, <2>2
  <1>. HIDE DEF x
  <1>7. Sound(v) /\ Evolves(x, v, {}) /\ Retains(x, v) /\ SameMatching(x, v)
    BY <1>6, ForwardFreshKeeps, ForwardFreshRetains DEF Sound
  <1>. HIDE DEF v
  <1>8. Consistent(v)
    BY <1>6, <1>7, ConsistentKeeps DEF Sound
  <1>9. Sound(y) /\ Evolves(v, y, {}) /\ Retains(v, y) /\ SameMatching(v, y)
    BY <1>7, DropChatterKeeps, DropChatterRetains DEF Sound
  <1>. HIDE DEF y
  <1>10. Consistent(y)
    BY <1>7, <1>8, <1>9, ConsistentKeeps DEF Sound
  <1>11. Consistent(Drain(y)) /\ Drain(y) \in Engines
    BY <1>9, <1>10, DrainConsistent, DrainKeeps DEF Sound
  <1>12. QED
    BY <1>2, <1>11, ClosedHeldInv

LEMMA TimeoutHeld ==
    ASSUME EngineInv, HeldInv, Timeout
    PROVE  HeldInv'
  <1>. DEFINE x == HandleTimeout(e, TRUE)
  <1>1. Sound(e) /\ frame = NoFrame /\ e' = Drain(x) /\ frame' = NoFrame /\ x = Fail(e)
    BY DEF EngineInv, Timeout, Ready, HandleTimeout
  <1>2. Held(e)
    BY DEF HeldInv
  <1>3. Sound(x) /\ Consistent(x)
    BY <1>1, <1>2, FailKeeps, FailConsistent
  <1>. HIDE DEF x
  <1>4. Consistent(Drain(x)) /\ Drain(x) \in Engines
    BY <1>3, DrainConsistent, DrainKeeps DEF Sound
  <1>5. QED
    BY <1>1, <1>4, ClosedHeldInv

(* Close ends every lifetime and every remap.                              *)
LEMMA ClosingFields ==
    ASSUME NEW x \in Engines
    PROVE  LET y == Closing(x) IN
           y.reuse = x.reuse \ x.physical /\ y.carry = {} /\ y.active = <<>>
  <1>. DEFINE f == Fail(x)
              P(i) == {r \in ToSet(f.journal[i].events) : KeptByClose(r)}
              j == [i \in DOMAIN f.journal |->
                      [f.journal[i] EXCEPT !.events = Kept(f.journal[i].events, P(i))]]
              v == [f EXCEPT !.journal = j]
              s == FlattenSeq([k \in DOMAIN f.active |-> StopOutputs(f.active[k])])
              J == v.journal \o [k \in DOMAIN s |-> OutputFrame(s[k])]
              u == [v EXCEPT !.journal = J]
              w == [u EXCEPT !.active = <<>>]
              z == Release(w, w.physical)
              D == SetToSeq({device(p) : p \in f.physical})
              y == Releases(z, D)
  <1>1. Closing(x) = y
    BY DEF Closing, StopAll, QueueOutputs
  <1>2. f \in Engines /\ f.physical = x.physical /\ f.reuse = x.reuse /\ f.carry = {}
    BY FailFields
  <1>. HIDE DEF f, j, D
  <1>3. v = [f EXCEPT !.journal = v.journal] /\ v.physical = f.physical
    BY <1>2 DEF Engines
  <1>. HIDE DEF v, J
  <1>4. u = [f EXCEPT !.journal = u.journal] /\ u.physical = f.physical
    BY <1>2, <1>3 DEF Engines
  <1>. HIDE DEF u
  <1>5. /\ w = [f EXCEPT !.journal = w.journal, !.active = <<>>]
        /\ w.physical = f.physical /\ w.reuse = f.reuse /\ w.carry = f.carry
        /\ w.active = <<>>
    BY <1>2, <1>4 DEF Engines
  <1>. HIDE DEF w
  <1>6. z.reuse = f.reuse \ f.physical /\ z.carry = f.carry \ f.physical /\ z.active = <<>>
    <2>. DEFINE S == w.physical
                count == [key \in Logical |-> w.logicalCount[key] - CountOf(S, key)]
    <2>1. z = [w EXCEPT !.physical = w.physical \ S, !.logicalCount = count,
                        !.reuse = w.reuse \ S, !.carry = w.carry \ S]
      BY DEF Release
    <2>. HIDE DEF z, count
    <2>2. QED
      BY <1>2, <1>5, <2>1 DEF Engines
  <1>7. y.reuse = z.reuse /\ y.carry = z.carry /\ y.active = z.active
    <2>. DEFINE os == [k \in DOMAIN D |-> ReconcileDevice(D[k], {})]
                K == z.journal \o [k \in DOMAIN os |-> OutputFrame(os[k])]
    <2>1. y = [z EXCEPT !.journal = K]
      BY DEF Releases, QueueOutputs
    <2>2. z = [w EXCEPT !.physical = z.physical, !.logicalCount = z.logicalCount,
                        !.reuse = z.reuse, !.carry = z.carry]
      <3>. DEFINE count == [key \in Logical |-> w.logicalCount[key] - CountOf(w.physical, key)]
      <3>1. z = [w EXCEPT !.physical = w.physical \ w.physical, !.logicalCount = count,
                          !.reuse = w.reuse \ w.physical, !.carry = w.carry \ w.physical]
        BY DEF Release
      <3>. HIDE DEF z, count
      <3>2. QED
        BY <1>2, <1>5, <3>1 DEF Engines
    <2>. HIDE DEF K, z, y
    <2>3. QED
      BY <1>2, <1>5, <2>1, <2>2 DEF Engines
  <1>. HIDE DEF y, z
  <1>8. QED
    BY <1>1, <1>2, <1>6, <1>7

LEMMA CloseHeld ==
    ASSUME EngineInv, HeldInv, Close
    PROVE  HeldInv'
  <1>. DEFINE y == Closing(e)
  <1>1. Sound(e) /\ e \in Engines /\ frame = NoFrame /\ e' = Drain(y) /\ frame' = NoFrame
    BY DEF EngineInv, Close, Ready, Sound
  <1>2. Sound(y) /\ y.seq = NoCandidate
    BY <1>1, ClosingKeeps
  <1>3. y.reuse = {} /\ y.carry = {} /\ y.active = <<>>
    <2>1. e.reuse \subseteq e.physical
      BY DEF HeldInv, Held, Leftovers
    <2>2. QED
      BY <1>1, <2>1, ClosingFields
  <1>. HIDE DEF y
  <1>4. Held(y)
    <2>1. Leftovers(y)
      BY <1>3 DEF Leftovers, OnePerKey
    <2>2. ToSet(<<>>) = {} /\ DOMAIN <<>> = {}
      BY DEF ToSet
    <2>3. Remaps(y)
      BY <1>3, <2>2, Zenon DEF Remaps, OneOwner
    <2>4. QED
      BY <2>1, <2>3 DEF Held
  <1>5. Tracks(y, y.physical)
    BY <1>2, <1>3 DEF Tracks, SourceTracks, NoCandidate, OnePerKey
  <1>6. Consistent(Drain(y)) /\ Drain(y) \in Engines
    BY <1>2, <1>4, <1>5, DrainConsistent, DrainKeeps DEF Consistent, Sound
  <1>7. QED
    BY <1>1, <1>6, ClosedHeldInv

LEMMA ApplyHeld ==
    ASSUME HeldInv, e' = e, frame' = frame
    PROVE  HeldInv'
  BY DEF HeldInv

(* A snapshot of d ends the remaps that have a key of d among theirs.       *)
LEMMA CancelledFields ==
    ASSUME NEW x \in Engines, NEW d
    PROVE  LET y == Cancelled(x, d) IN
           /\ Retains(x, y)
           /\ \A a \in ToSet(y.active) : \A p \in a.members : device(p) # d
  <1>. DEFINE f == Fail(x)
              A == {a \in ToSet(f.active) : \A p \in a.members : device(p) # d}
              K == Kept(f.active, A)
              j == [i \in DOMAIN f.journal |->
                      IF f.journal[i].device # d THEN f.journal[i]
                      ELSE [f.journal[i] EXCEPT
                              !.events = Kept(@, {r \in ToSet(@) : r.type = "output"})]]
              y == [f EXCEPT !.active = K, !.journal = j]
  <1>1. Cancelled(x, d) = y
    BY DEF Cancelled
  <1>2. /\ f \in Engines /\ f.physical = x.physical /\ f.reuse = x.reuse /\ f.carry = {}
        /\ f.active = x.active
    BY FailFields
  <1>. HIDE DEF f, j
  <1>3. f.active \in Seq(Activation)
    BY <1>2 DEF Engines
  <1>4. /\ ToSet(K) \subseteq A /\ ToSet(K) \subseteq ToSet(f.active)
        /\ OneOwner(f.active) => OneOwner(K)
    <2>. DEFINE s == f.active
    <2>. HIDE DEF A
    <2>1. /\ K \in Seq(Activation)
          /\ \A m \in DOMAIN K : K[m] \in A /\ \E n \in DOMAIN f.active : K[m] = f.active[n]
      BY <1>3, KeptFrom
    <2>2. OneOwner(f.active) => OneOwner(K)
      BY <1>3, KeptOwners
    <2>. HIDE DEF K
    <2>3. QED
      BY <2>1, <2>2 DEF ToSet
  <1>. HIDE DEF K
  <1>5. /\ y.physical = f.physical /\ y.reuse = f.reuse /\ y.carry = f.carry /\ y.active = K
    BY <1>2 DEF Engines
  <1>. HIDE DEF y
  <1>6. QED
    BY <1>1, <1>2, <1>4, <1>5 DEF Retains, Fewer

LEMMA SnapshotFields ==
    ASSUME NEW x \in Engines, NEW old, NEW d, NEW pressed
    PROVE  LET y == Snapshot(x, old, d, pressed)
               gone == {p \in x.physical : device(p) = d /\ code(p) \notin pressed}
           IN /\ x.physical \ gone \subseteq y.physical
              /\ y.reuse = x.reuse \ gone /\ y.carry = x.carry \ gone /\ y.active = x.active
              /\ y.mode = x.mode /\ y.seq = x.seq
  <1>. DEFINE gone == {p \in x.physical : device(p) = d /\ code(p) \notin pressed}
              y == Release(x, gone)
              known == {code(p) : p \in {q \in y.physical : device(q) = d}}
              new == {<<d, c, CHOOSE n \in FreeLives(old, d, c) : TRUE>> : c \in pressed \ known}
              z == Down(y, new)
              r == [p \in Press |->
                      IF p \in z.physical /\ device(p) = d /\ z.route[p] = "undecided"
                        THEN "forwarded" ELSE z.route[p]]
              w == [z EXCEPT !.route = r]
  <1>1. Snapshot(x, old, d, pressed) = w
    BY DEF Snapshot
  <1>. DEFINE fewer == [key \in Logical |-> x.logicalCount[key] - CountOf(gone, key)]
  <1>2. y = [x EXCEPT !.physical = x.physical \ gone, !.logicalCount = fewer,
                      !.reuse = x.reuse \ gone, !.carry = x.carry \ gone]
    BY DEF Release
  <1>. HIDE DEF gone, fewer, y
  <1>3. /\ y.physical = x.physical \ gone /\ y.reuse = x.reuse \ gone
        /\ y.carry = x.carry \ gone /\ y.active = x.active
        /\ y.mode = x.mode /\ y.seq = x.seq
    BY <1>2 DEF Engines
  <1>. HIDE DEF new
  <1>. DEFINE more == [key \in Logical |-> y.logicalCount[key] + CountOf(new, key)]
              begun == [p \in Press |-> IF p \in new THEN "undecided" ELSE y.route[p]]
  <1>4. z = [y EXCEPT !.physical = y.physical \cup new, !.logicalCount = more, !.route = begun]
    BY DEF Down
  <1>. HIDE DEF z, r, more, begun
  <1>5. /\ w.physical = y.physical \cup new /\ w.reuse = y.reuse /\ w.carry = y.carry
        /\ w.active = y.active /\ w.mode = y.mode /\ w.seq = y.seq
    BY <1>2, <1>4 DEF Engines
  <1>. HIDE DEF w
  <1>6. QED
    BY <1>1, <1>3, <1>5 DEF gone

LEMMA ReconcileHeld ==
    ASSUME NEW d \in Device, NEW pressed \in SUBSET InputCode, EngineInv, HeldInv,
           Reconcile(d, pressed)
    PROVE  HeldInv'
  <1>. DEFINE w == Cancelled(e, d)
              u == Drain(w)
              v == StopAll(u, EndedBy(e, d))
              x == Snapshot(v, e, d, pressed)
              y == QueueOutput(x, ReconcileDevice(d, VisibleCodes(x, d)))
              gone == {p \in v.physical : device(p) = d /\ code(p) \notin pressed}
  <1>1. Sound(e) /\ e \in Engines /\ frame = NoFrame
    BY ClosedFacts DEF Reconcile, Ready
  <1>2. /\ e' = Drain(y) /\ frame' = NoFrame
        /\ \A c \in pressed : PressAt(e, d, c) = NoPress => FreeLives(e, d, c) # {}
    BY <1>1 DEF Reconcile
  <1>3. pressed \in SUBSET Code /\ Held(e)
    BY DEF InputCode, KeyEvent, HeldInv
  <1>4. /\ Sound(w) /\ Evolves(e, w, {}) /\ w.seq = NoCandidate /\ w.physical = e.physical
        /\ Retains(e, w) /\ \A a \in ToSet(w.active) : \A p \in a.members : device(p) # d
    BY <1>1, CancelledKeeps, CancelledFields
  <1>. HIDE DEF w
  <1>5. /\ Sound(u) /\ Evolves(w, u, {}) /\ Retains(w, u)
        /\ u.seq = NoCandidate /\ u.physical = e.physical /\ u.active = w.active
    BY <1>4, DrainKeeps, DrainFields, DrainRetains DEF Sound, SameMatching
  <1>. HIDE DEF u
  <1>6. /\ Sound(v) /\ Evolves(u, v, {}) /\ Retains(u, v)
        /\ v.seq = NoCandidate /\ v.physical = e.physical /\ v.active = u.active
    <2>1. /\ Sound(v) /\ Evolves(u, v, {}) /\ SameMatching(u, v)
      BY <1>1, <1>5, EndedByType, StopAllKeeps
    <2>2. /\ v.physical = u.physical /\ v.reuse = u.reuse /\ v.carry = u.carry
          /\ v.active = u.active
      BY <1>5, QueueRetains DEF StopAll, Sound
    <2>3. QED
      BY <1>5, <2>1, <2>2 DEF SameMatching, Retains, Fewer
  <1>. HIDE DEF v
  <1>7. /\ Evolves(e, v, {}) /\ v \in Engines /\ Held(v)
        /\ \A a \in ToSet(v.active) : \A p \in a.members : device(p) # d
    <2>1. Evolves(e, v, {})
      BY <1>1, <1>4, <1>5, <1>6, EvolvesThen
    <2>2. Retains(e, v)
      BY <1>4, <1>5, <1>6, RetainsTransitive
    <2>3. Held(v)
      BY <1>1, <1>3, <2>1, <2>2, HeldKeeps
    <2>4. QED
      BY <1>4, <1>5, <1>6, <2>1, <2>3 DEF Sound
  <1>8. Referenced(v) \subseteq Referenced(e) \cup {NoPress}
    BY <1>7 DEF Evolves
  <1>9. Sound(x)
    BY <1>2, <1>3, <1>6, <1>8, SnapshotKeeps
  <1>10. PICK N \in SUBSET Press : N \cap Referenced(e) = {} /\ Evolves(v, x, N)
    BY <1>2, <1>3, <1>6, <1>8, SnapshotKeeps
  <1>11. N \cap Referenced(v) = {}
    BY <1>8, <1>10, PressFinite
  <1>12. /\ v.physical \ gone \subseteq x.physical
         /\ x.reuse = v.reuse \ gone /\ x.carry = v.carry \ gone /\ x.active = v.active
         /\ x.seq = NoCandidate
    BY <1>6, <1>7, SnapshotFields
  <1>13. \A p \in gone : device(p) = d
    OBVIOUS
  <1>. HIDE DEF x, gone
  <1>14. Held(x)
    <2>1. x.reuse \subseteq v.reuse /\ x.carry \subseteq v.carry
          /\ x.reuse \cup x.carry \subseteq x.physical
      BY <1>7, <1>12 DEF Held, Leftovers
    <2>2. Leftovers(x)
      BY <1>7, <1>10, <1>11, <2>1, LeftoversKeep DEF Held
    <2>3. \A a \in ToSet(x.active) : a.members \subseteq x.physical
      BY <1>7, <1>12, <1>13 DEF Held, Remaps
    <2>4. Fewer(v, x)
      BY <1>12 DEF Fewer
    <2>5. Remaps(x)
      BY <1>7, <1>10, <1>11, <2>3, <2>4, RemapsKeep DEF Held
    <2>6. QED
      BY <2>2, <2>5 DEF Held
  <1>15. Tracks(x, x.physical)
    BY <1>12 DEF Tracks, SourceTracks, NoCandidate, OnePerKey
  <1>16. Consistent(x)
    BY <1>14, <1>15 DEF Consistent
  <1>17. Sound(y) /\ Evolves(x, y, {})
    <2>1. ReconcileDevice(d, VisibleCodes(x, d)) \in Output
      BY <1>9, VisibleCodesType DEF Sound, Output, ReconcileDevice, Owner
    <2>2. <<ReconcileDevice(d, VisibleCodes(x, d))>> \in Seq(Output)
      BY <2>1
    <2>3. QED
      BY <1>9, <2>2, QueueOutputsKeeps DEF QueueOutput
  <1>18. Retains(x, y) /\ SameMatching(x, y)
    BY <1>9, QueueRetains DEF QueueOutput, Sound, Retains, Fewer
  <1>. HIDE DEF y
  <1>19. Consistent(Drain(y)) /\ Drain(y) \in Engines
    BY <1>9, <1>16, <1>17, <1>18, ConsistentKeeps, DrainConsistent, DrainKeeps DEF Sound
  <1>20. QED
    BY <1>2, <1>19, ClosedHeldInv

-----------------------------------------------------------------------------
(* One event of the frame.                                                 *)
LEMMA StartedTracks ==
    ASSUME NEW x, Sound(x), x.journal # <<>>, Leftovers(x), NEW p, Starts(x, p), NEW n,
           n = Len(x.journal), NEW A \in SUBSET Press, x.reuse \cup x.carry \subseteq A
    PROVE  LET y == Started(x, p, n) IN
           Sound(y) /\ Evolves(x, y, {}) /\ Matching(y) /\ Retains(x, y) /\ Tracks(y, A)
  <1>. DEFINE s == Start(x, p)
              y == Started(x, p, n)
  <1>1. Sound(y) /\ Evolves(x, y, {}) /\ Matching(y)
    BY StartedKeeps
  <1>2. s \in Engines
    <2>1. CASE x.mode = "idle"
      BY <2>1, StartSourceKeeps DEF Start, Sound
    <2>2. CASE x.mode # "idle"
      <3>1. x.mode = "await"
        BY <2>2 DEF Starts
      <3>2. QED
        BY <2>2, <3>1, StartBindingKeeps DEF Start, Sound
    <2>3. QED
      BY <2>1, <2>2
  <1>3. /\ Tracks(s, A) /\ s.reuse = x.reuse /\ s.carry = x.carry /\ s.physical = x.physical
        /\ s.active = x.active /\ Matching(s)
    BY StartTracks
  <1>. HIDE DEF s
  <1>4. y = [s EXCEPT !.journal[n].candidate = "undecided"]
    BY DEF Started, s
  <1>. HIDE DEF y
  <1>5. /\ y.reuse = s.reuse /\ y.carry = s.carry /\ y.physical = s.physical
        /\ y.active = s.active /\ y.seq = s.seq /\ y.mode = s.mode /\ y.route = s.route
    BY <1>2, <1>4 DEF Engines
  <1>6. Tracks(y, A)
    BY <1>3, <1>5, TracksSame
  <1>7. Retains(x, y)
    BY <1>3, <1>5, RetainsAll
  <1>8. QED
    BY <1>1, <1>6, <1>7 DEF y

LEMMA HandleEventHeld ==
    ASSUME NEW event \in InputEvent, EngineInv, HeldInv, HandleEvent(event)
    PROVE  HeldInv'
  <1>. DEFINE d == frame.device
              p == EventPress(e, d, event)
              tr == TransitionOf(e, d, event)
              valid == Valid(e, d, event)
              fresh == Fresh(e, d, event)
              fails == EventFails(d, event)
              proceeds == EventProceeds(d, event)
              N == IF fresh THEN {p} ELSE {}
  <1>1. PICK chatter \in BOOLEAN :
             LET y == Handled(e, d, event, chatter)
                 starts == EventStarts(d, event, chatter)
             IN /\ chatter = ChatterOf(e, d, event)
                /\ fresh => FreeLives(e, d, event.code) # {} /\ ~chatter
                /\ e' = IF fails THEN Fail(y)
                        ELSE IF starts THEN Started(y, p, Len(e.journal)) ELSE y
                /\ frame' =
                     [frame EXCEPT
                        !.n = @ + 1,
                        !.fresh = IF fresh THEN @ \cup {p} ELSE @,
                        !.meaningful = @ \/ (event.type # "msc" /\ ~chatter),
                        !.failed = @ \/ fails,
                        !.todo = IF starts THEN Append(frame.history, tr)
                                 ELSE IF proceeds /\ Matching(y) THEN <<tr>> ELSE <<>>,
                        !.history = IF proceeds THEN Append(@, tr) ELSE @]
                /\ out' = out
    BY HandleEventIs
  <1>. DEFINE y == Handled(e, d, event, chatter)
              starts == EventStarts(d, event, chatter)
              A == e.physical
              B == y.physical
              S == e.reuse \cup e.carry
              T == y.reuse \cup y.carry
  <1>2. /\ Sound(e) /\ e \in Engines /\ frame \in Frames /\ frame.open /\ frame.todo = <<>>
        /\ d \in Device /\ e.journal # <<>> /\ Last(e.journal).device = d /\ Held(e)
    BY DEF EngineInv, HandleEvent, FrameInProgress, Sound, HeldInv
  <1>3. fresh => FreeLives(e, d, event.code) # {} /\ chatter = FALSE
    BY <1>1
  <1>4. /\ Sound(y) /\ N \cap Referenced(e) = {} /\ Evolves(e, y, N) /\ SameMatching(e, y)
        /\ y.journal # <<>> /\ Len(y.journal) = Len(e.journal)
    <2>. HIDE DEF d
    <2>1. HandledFacts(e, d, event, chatter)
      BY <1>2, <1>3, HandledKeeps
    <2>2. QED
      BY <2>1 DEF HandledFacts
  <1>5. /\ valid => Moves(A, tr, B) /\ tr \in Transitions
        /\ ~valid => B = A
        /\ y.reuse \subseteq e.reuse /\ y.carry \subseteq e.carry
        /\ Held(y)
    <2>. HIDE DEF d
    <2>1. /\ Valid(e, d, event) => Moves(e.physical, TransitionOf(e, d, event), y.physical)
          /\ ~Valid(e, d, event) => y.physical = e.physical
          /\ y.reuse \subseteq e.reuse /\ y.carry \subseteq e.carry
          /\ Held(y)
      BY <1>2, <1>3, HandledMoves
    <2>2. valid => tr \in Transitions
      BY <1>2, <1>3, TransitionType
    <2>3. QED
      BY <2>1, <2>2
  <1>6. /\ proceeds => valid /\ ~frame.failed /\ ~fails
        /\ starts => proceeds /\ Starts(y, p)
    BY DEF EventProceeds, EventStarts
  <1>7. valid /\ ~frame.failed /\ ~fails => proceeds
    BY DEF EventProceeds
  <1>8. e' = IF fails THEN Fail(y) ELSE IF starts THEN Started(y, p, Len(e.journal)) ELSE y
    BY <1>1
  <1>9. /\ frame'.open /\ frame'.failed = (frame.failed \/ fails)
        /\ frame'.todo = IF starts THEN Append(frame.history, tr)
                         ELSE IF proceeds /\ Matching(y) THEN <<tr>> ELSE <<>>
        /\ frame'.history = IF proceeds THEN Append(frame.history, tr) ELSE frame.history
    BY <1>1, <1>2 DEF Frames
  <1>. HIDE DEF y, starts, proceeds, fails, tr, fresh, valid, p
  <1>10. /\ y \in Engines /\ T \subseteq S /\ T \subseteq B
         /\ A \in SUBSET Press /\ B \in SUBSET Press /\ S \subseteq A
         /\ frame.history \in Seq(Transitions)
    BY <1>2, <1>4, <1>5 DEF Sound, Engines, Frames, Held, Leftovers
  <1>11. Consistent(e)
    BY <1>2, HeldConsistent
  <1>12. Tracks(y, A)
    BY <1>2, <1>4, <1>5, <1>11, TracksKeep DEF Consistent
  <1>13. (frame.failed => ~Matching(e)) /\ (Matching(y) <=> Matching(e))
    BY <1>4 DEF HeldInv, SameMatching, Matching
  <1>14. Fail(y) \in Engines /\ Consistent(Fail(y)) /\ ~Matching(Fail(y))
    <2>1. Fail(y) \in Engines /\ Fail(y).mode = "idle"
      BY <1>10, FailFields
    <2>2. Consistent(Fail(y))
      BY <1>4, <1>5, FailConsistent
    <2>3. QED
      BY <2>1, <2>2 DEF Matching
  <1>15. CASE frame.failed
    <2>1. ~Matching(y) /\ ~starts /\ ~proceeds
      BY <1>6, <1>13, <1>15
    <2>2. e' \in Engines /\ Consistent(e') /\ ~Matching(e')
      <3>1. CASE fails
        BY <1>8, <1>14, <3>1
      <3>2. CASE ~fails
        BY <1>5, <1>8, <1>10, <2>1, <3>2, IdleConsistent
      <3>3. QED
        BY <3>1, <3>2
    <2>3. frame'.failed /\ frame'.todo = <<>>
      BY <1>9, <1>15, <2>1
    <2>4. QED
      BY <2>2, <2>3, OpenHeldInv
  <1>16. CASE ~frame.failed /\ fails
    <2>1. ~starts /\ ~proceeds /\ e' = Fail(y)
      BY <1>6, <1>8, <1>16
    <2>2. e' \in Engines /\ Consistent(e') /\ ~Matching(e')
      BY <1>14, <2>1
    <2>3. frame'.failed /\ frame'.todo = <<>>
      BY <1>9, <1>16, <2>1
    <2>4. QED
      BY <2>2, <2>3, OpenHeldInv
  <1>17. ASSUME ~frame.failed PROVE \E P : Trail(frame.history, P, S, A)
    BY <1>2, <1>17 DEF HeldInv
  <1>18. CASE ~frame.failed /\ ~fails /\ ~valid
    <2>1. ~starts /\ ~proceeds /\ e' = y /\ frame'.todo = <<>> /\ ~frame'.failed
          /\ frame'.history = frame.history
      BY <1>6, <1>8, <1>9, <1>18
    <2>2. Consistent(y)
      BY <1>5, <1>12, <1>18 DEF Consistent
    <2>3. \E P : Trail(frame.history, P, T, B)
      <3>1. PICK P : Trail(frame.history, P, S, A)
        BY <1>17, <1>18
      <3>2. Trail(frame.history, P, T, A)
        BY <1>10, <3>1, TrailLess
      <3>3. QED
        BY <1>5, <1>18, <3>2
    <2>4. QED
      BY <1>10, <2>1, <2>2, <2>3, OpenHeldInv
  <1>19. ASSUME ~frame.failed, proceeds
         PROVE  \E P : /\ Trail(Append(frame.history, tr), P, T, B)
                       /\ P[1] \in SUBSET Press /\ T \subseteq P[1]
    <2>1. PICK P : Trail(frame.history, P, S, A)
      BY <1>17, <1>19
    <2>2. PICK Q : Trail(Append(frame.history, tr), Q, T, B)
      BY <1>5, <1>6, <1>10, <1>19, <2>1, TrailAppend
    <2>3. Q[1] \in SUBSET Press /\ T \subseteq Q[1]
      <3>1. Append(frame.history, tr) \in Seq(Transitions)
        BY <1>5, <1>6, <1>10, <1>19
      <3>2. Q \in Seq(SUBSET Press) /\ Len(Q) = Len(Append(frame.history, tr)) + 1
            /\ \A k \in DOMAIN Q : T \subseteq Q[k]
        BY <2>2 DEF Trail
      <3>3. 1 \in DOMAIN Q
        BY <3>1, <3>2
      <3>4. QED
        BY <3>2, <3>3
    <2>4. QED
      BY <2>2, <2>3
  <1>20. CASE ~frame.failed /\ ~fails /\ starts
    <2>1. /\ proceeds /\ e' = Started(y, p, Len(e.journal)) /\ ~frame'.failed
          /\ frame'.todo = Append(frame.history, tr)
          /\ frame'.history = Append(frame.history, tr)
      BY <1>6, <1>8, <1>9, <1>20
    <2>2. PICK P : /\ Trail(Append(frame.history, tr), P, T, B)
                   /\ P[1] \in SUBSET Press /\ T \subseteq P[1]
      BY <1>19, <1>20, <2>1
    <2>3. Sound(e') /\ Evolves(y, e', {}) /\ Matching(e') /\ Retains(y, e') /\ Tracks(e', P[1])
      BY <1>4, <1>5, <1>6, <1>20, <2>1, <2>2, StartedTracks DEF Held
    <2>4. Held(e')
      BY <1>5, <1>10, <2>3, HeldKeeps
    <2>5. e'.reuse \cup e'.carry \subseteq T /\ e'.physical = B
      BY <2>3 DEF Retains
    <2>6. Trail(Append(frame.history, tr), P, e'.reuse \cup e'.carry, e'.physical)
      BY <2>2, <2>5, TrailLess
    <2>7. QED
      BY <2>1, <2>3, <2>4, <2>6 DEF HeldInv
  <1>21. CASE ~frame.failed /\ ~fails /\ valid /\ ~starts
    <2>1. /\ proceeds /\ e' = y /\ ~frame'.failed
          /\ frame'.todo = (IF Matching(y) THEN <<tr>> ELSE <<>>)
          /\ frame'.history = Append(frame.history, tr)
      BY <1>7, <1>8, <1>9, <1>21
    <2>2. \E P : Trail(Append(frame.history, tr), P, T, B)
      BY <1>19, <1>21, <2>1
    <2>3. CASE Matching(y)
      <3>1. T \subseteq A /\ Moves(A, tr, B)
        BY <1>5, <1>10, <1>21
      <3>2. \E P : Trail(<<tr>>, P, T, B) /\ P[1] = A
        <4>. HIDE DEF T, A, B
        <4>1. QED
          BY <1>10, <3>1, TrailOne
      <3>3. QED
        BY <1>5, <1>12, <2>1, <2>2, <2>3, <3>2 DEF HeldInv
    <2>4. CASE ~Matching(y)
      BY <1>5, <1>10, <2>1, <2>2, <2>4, IdleConsistent, OpenHeldInv
    <2>5. QED
      BY <2>3, <2>4
  <1>22. QED
    BY <1>6, <1>15, <1>16, <1>18, <1>20, <1>21

-----------------------------------------------------------------------------
LEMMA HeldInit == EngineInit => HeldInv
  <1>. SUFFICES ASSUME EngineInit PROVE HeldInv
    OBVIOUS
  <1>1. e = InitialEngine /\ frame = NoFrame
    BY DEF EngineInit
  <1>2. /\ e.seq = NoCandidate /\ e.reuse = {} /\ e.carry = {} /\ e.physical = {}
        /\ e.active = <<>> /\ e.mode = "idle"
        /\ ~frame.open /\ ~frame.failed /\ frame.todo = <<>>
    BY <1>1 DEF InitialEngine, NoFrame
  <1>3. Leftovers(e)
    BY <1>2 DEF Leftovers, OnePerKey
  <1>4. ToSet(<<>>) = {} /\ DOMAIN <<>> = {}
    BY DEF ToSet
  <1>5. Remaps(e)
    BY <1>2, <1>4, Zenon DEF Remaps, OneOwner
  <1>6. Tracks(e, {})
    BY <1>2 DEF Tracks, Matching
  <1>7. \E P : Trail(<<>>, P, {}, {}) /\ P[1] = {}
    BY TrailNone
  <1>8. QED
    BY <1>2, <1>3, <1>5, <1>6, <1>7 DEF HeldInv, Held

LEMMA HeldNext == EngineInv /\ HeldInv /\ [EngineNext]_engineVars => HeldInv'
  <1>. SUFFICES ASSUME EngineInv, HeldInv, [EngineNext]_engineVars PROVE HeldInv'
    OBVIOUS
  <1>1. ASSUME NEW d \in Device, NEW late \in BOOLEAN, BeginFrame(d, late) PROVE HeldInv'
    BY <1>1, BeginFrameHeld
  <1>2. ASSUME NEW event \in InputEvent, HandleEvent(event) PROVE HeldInv'
    BY <1>2, HandleEventHeld
  <1>3. ASSUME NEW d \in Device, NEW pressed \in SUBSET InputCode, Reconcile(d, pressed)
        PROVE  HeldInv'
    BY <1>3, ReconcileHeld
  <1>4. ASSUME Apply PROVE HeldInv'
    BY <1>4, ApplyHeld DEF Apply
  <1>5. ASSUME UNCHANGED engineVars PROVE HeldInv'
    BY <1>5, ApplyHeld DEF engineVars
  <1>6. QED
    BY <1>1, <1>2, <1>3, <1>4, <1>5, AdvanceStepHeld, EndFrameHeld, TimeoutHeld, CloseHeld
       DEF EngineNext, Input

(* The transitions of the frame in progress always lead to the keys that are*)
(* down, the candidate has followed the ones behind it, and what chords and *)
(* remaps have kept is down and consumed.                                  *)
THEOREM HeldInvariant == EngineSpec => []HeldInv
  BY HeldInit, HeldNext, EngineInvariant, PTL DEF EngineSpec

(* The modifiers a finished chord leaves behind for the next are held,      *)
(* consumed and one per logical key: dropping reuse at the release, and     *)
(* taking the map's values in any order, both rest on that.                *)
THEOREM EngineLeftovers == EngineSpec => []BorrowedModifiersHeld
  <1>1. HeldInv => BorrowedModifiersHeld
    BY DEF HeldInv, Held, Leftovers, OnePerKey, BorrowedModifiersHeld
  <1>2. QED
    BY <1>1, HeldInvariant, PTL

(* Whatever part of a frame is re-run against a candidate that began in it, *)
(* the candidate ends with the members that are really held, and with no    *)
(* press that was shown.                                                   *)
THEOREM EngineTracks == EngineSpec => []CandidateTracksPhysical
  <1>1. EngineInv /\ HeldInv => CandidateTracksPhysical
    <2>. SUFFICES ASSUME EngineInv, HeldInv, frame.todo = <<>>, Matching(e)
                  PROVE  /\ e.seq.members \cap e.seq.held = e.seq.members \cap e.physical
                         /\ \A p \in e.seq.members : e.route[p] # "forwarded"
      BY DEF CandidateTracksPhysical
    <2>1. /\ e.seq.members \cap e.seq.held = e.seq.members \cap e.physical
          /\ \A p \in e.seq.members : p \in e.seq.owned \/ e.route[p] = "consumed"
      BY HeldConsistent DEF Consistent, Tracks
    <2>2. \A p \in e.seq.owned : e.route[p] = "undecided"
      BY DEF EngineInv, Sound, OwnedUndecided
    <2>3. QED
      BY <2>1, <2>2
  <1>2. QED
    BY <1>1, EngineInvariant, HeldInvariant, PTL

(* A remap that is held has all its source keys down and consumed, its      *)
(* driver among them and an owner of its own: the first release of any of   *)
(* them ends it and no other.                                              *)
THEOREM EngineActivations == EngineSpec => []ActivationHeld
  <1>1. EngineInv /\ HeldInv => ActivationHeld
    <2>. SUFFICES ASSUME EngineInv, HeldInv, NEW k \in DOMAIN e.active
                  PROVE  LET a == e.active[k] IN
                         /\ a.members \subseteq e.physical
                         /\ \A p \in a.members : e.route[p] = "consumed"
                         /\ a.driver \in a.members
                         /\ \A j \in DOMAIN e.active : e.active[j].owner = a.owner => j = k
      BY DEF ActivationHeld
    <2>1. e.active[k] \in ToSet(e.active)
      BY DEF ToSet
    <2>2. Remaps(e)
      BY DEF HeldInv, Held
    <2>3. QED
      BY <2>1, <2>2 DEF Remaps, OneOwner
  <1>2. QED
    BY <1>1, EngineInvariant, HeldInvariant, PTL

-----------------------------------------------------------------------------
(* Reservations: which steps of the matcher leave one, and what its journal *)
(* may have in it.                                                         *)

(* What advance leaves of a candidate that goes on.                         *)
GoesOn(x, y) ==
    /\ y.route = x.route /\ x.seq.owned \subseteq y.seq.owned
    /\ y.mode = "reserved" => x.mode = "reserved"

LEMMA OwnGoesOn ==
    ASSUME NEW x \in Engines, NEW p
    PROVE  GoesOn(x, Own(x, p)) /\ p \in Own(x, p).seq.owned
  <1>1. x.seq \in Candidate
    BY DEF Engines
  <1>2. /\ Own(x, p).route = x.route /\ Own(x, p).mode = x.mode
        /\ Own(x, p).seq.owned = x.seq.owned \cup {p}
    BY <1>1 DEF Own, Engines, Candidate
  <1>3. QED
    BY <1>2 DEF GoesOn

LEMMA LeaveReservationGoesOn ==
    ASSUME NEW x \in Engines, NEW p
    PROVE  GoesOn(x, LeaveReservation(x, p))
  BY DEF LeaveReservation, GoesOn, Engines

LEMMA MatchGoesOn ==
    ASSUME NEW x \in Engines
    PROVE  GoesOn(x, Match(x))
  <1>. DEFINE c == x.seq
              i == Min({k \in c.possible : Complete(x, k)})
              m == {q \in c.members : logical(q) \in Chord(x, i)}
              y == [x EXCEPT !.seq.matched = i, !.seq.broken = FALSE, !.seq.matchMembers = m]
  <1>1. Match(x) \in {x, y}
    BY DEF Match
  <1>2. y.route = x.route /\ y.mode = x.mode /\ y.seq.owned = c.owned
    <2>. HIDE DEF i, m
    <2>1. QED
      BY DEF Engines, Candidate
  <1>. HIDE DEF y
  <1>3. QED
    BY <1>1, <1>2 DEF GoesOn

LEMMA AdvancePressGoesOn ==
    ASSUME NEW x, Sound(x), Matching(x), NEW tr, tr.press \in Press, tr.press \in Referenced(x),
           Matching(AdvancePress(x, tr))
    PROVE  GoesOn(x, AdvancePress(x, tr)) /\ tr.press \in AdvancePress(x, tr).seq.owned
  <1>. DEFINE p == tr.press
              y == Own(x, p)
              z == LeaveReservation(y, p)
  <1>1. \A u \in Engines : ~Matching(Fail(u))
    BY FailFields DEF Matching
  <1>2. x \in Engines
    BY DEF Sound
  <1>3. ~(x.route[p] # "undecided" \/ tr.count # 1)
    BY <1>1, <1>2 DEF AdvancePress
  <1>4. MatcherStep(x, y) /\ Matching(y) /\ Sound(y) /\ y \in Engines
    BY <1>3, OwnKeeps DEF MatcherStep, Sound
  <1>5. AdvancePress(x, tr) = IF y.seq.possible = {} THEN Fail(y) ELSE Match(z)
    BY <1>3 DEF AdvancePress
  <1>6. GoesOn(x, y) /\ p \in y.seq.owned
    BY <1>2, OwnGoesOn
  <1>. HIDE DEF y
  <1>7. AdvancePress(x, tr) = Match(z)
    BY <1>1, <1>4, <1>5
  <1>8. z \in Engines /\ GoesOn(y, z)
    BY <1>4, LeaveReservationKeeps, LeaveReservationGoesOn DEF MatcherStep, Sound
  <1>. HIDE DEF z
  <1>9. GoesOn(z, Match(z))
    BY <1>8, MatchGoesOn
  <1>10. QED
    BY <1>6, <1>7, <1>8, <1>9 DEF GoesOn

LEMMA AdvanceReleaseGoesOn ==
    ASSUME NEW x, Sound(x), NEW tr, Matching(AdvanceRelease(x, tr))
    PROVE  GoesOn(x, AdvanceRelease(x, tr))
  <1>. DEFINE p == tr.press
              s == x.seq
              member == p \in s.members
              y == IF member
                     THEN [x EXCEPT !.seq.held = @ \ {p},
                                    !.seq.broken = @ \/ p \in x.seq.matchMembers]
                     ELSE x
  <1>1. x \in Engines /\ s \in Candidate
    BY DEF Sound, Engines
  <1>2. y \in Engines /\ y.route = x.route /\ y.mode = x.mode /\ y.seq.owned = s.owned
    <2>1. CASE ~member
      BY <1>1, <2>1
    <2>2. CASE member
      <3>. DEFINE broken == s.broken \/ p \in s.matchMembers
                  c == [s EXCEPT !.held = s.held \ {p}, !.broken = broken]
      <3>1. y = [x EXCEPT !.seq = c]
        BY <1>1, <2>2 DEF Engines, Candidate
      <3>2. broken \in BOOLEAN
        OBVIOUS
      <3>. HIDE DEF broken
      <3>3. c \in Candidate /\ c.owned = s.owned
        BY <1>1, <3>2 DEF Candidate
      <3>. HIDE DEF c, y
      <3>4. QED
        BY <1>1, <3>1, <3>3 DEF Engines
    <2>3. QED
      BY <2>1, <2>2
  <1>3. AdvanceRelease(x, tr) \in {y, Fail(y)}
    BY DEF AdvanceRelease
  <1>. HIDE DEF y
  <1>4. ~Matching(Fail(y))
    BY <1>2, FailFields DEF Matching
  <1>5. AdvanceRelease(x, tr) = y
    BY <1>3, <1>4
  <1>6. QED
    BY <1>2, <1>5 DEF GoesOn

(* A candidate that survives a transition has decided nothing, entered no   *)
(* reservation, and owns the press if the transition is an undecided one.   *)
LEMMA AdvanceGoesOn ==
    ASSUME NEW x, Sound(x), Matching(x), NEW tr, tr.press \in Press,
           tr.value = 1 => tr.press \in Referenced(x), Matching(Advance(x, tr))
    PROVE  /\ GoesOn(x, Advance(x, tr))
           /\ tr.value = 1 /\ x.route[tr.press] = "undecided"
                => tr.press \in Advance(x, tr).seq.owned
  <1>. DEFINE foreign == x.route[tr.press] = "consumed" /\ tr.press \notin x.seq.members
              breaks == x.mode = "reserved" /\ \/ tr.value = 0 /\ x.seq.matched = 0
                                               \/ x.route[tr.press] = "forwarded"
  <1>0. GoesOn(x, x)
    BY DEF GoesOn
  <1>1. CASE foreign
    <2>1. Advance(x, tr) = x
      BY <1>1 DEF Advance
    <2>2. QED
      BY <1>0, <1>1, <2>1
  <1>2. ~(~foreign /\ breaks)
    <2>1. SUFFICES ASSUME ~foreign /\ breaks PROVE FALSE
      OBVIOUS
    <2>2. Advance(x, tr) = Fail(x)
      BY <2>1 DEF Advance
    <2>3. QED
      BY <2>2, FailFields DEF Sound, Matching
  <1>3. CASE ~foreign /\ ~breaks /\ tr.value = 1
    <2>1. Advance(x, tr) = AdvancePress(x, tr)
      BY <1>3 DEF Advance
    <2>2. QED
      BY <1>3, <2>1, AdvancePressGoesOn
  <1>4. CASE ~foreign /\ ~breaks /\ tr.value = 0
    <2>1. Advance(x, tr) = AdvanceRelease(x, tr)
      BY <1>4 DEF Advance
    <2>2. QED
      BY <1>4, <2>1, AdvanceReleaseGoesOn
  <1>5. CASE ~foreign /\ ~breaks /\ tr.value \notin {0, 1}
    <2>1. Advance(x, tr) = x
      BY <1>5 DEF Advance
    <2>2. QED
      BY <1>0, <1>5, <2>1
  <1>6. QED
    BY <1>1, <1>2, <1>3, <1>4, <1>5

LEMMA ActivateMode ==
    ASSUME NEW z \in Engines, NEW c \in Candidate, NEW target, NEW owner
    PROVE  Activate(z, c, target, owner).mode = z.mode
  <1>. DEFINE y == Activate(z, c, target, owner)
              a == [owner |-> owner, target |-> target,
                    members |-> c.matchMembers, driver |-> c.driver]
  <1>1. /\ y.physical = z.physical /\ y.route = z.route /\ y.reuse = z.reuse
        /\ y.carry = z.carry /\ y.mode = z.mode
        /\ y.active = IF c.broken THEN z.active ELSE Append(z.active, a)
    BY ActivateFields
  <1>. HIDE DEF y, a
  <1>2. QED
    BY <1>1 DEF y

(* What a chord leaves when it takes effect is no reservation.              *)
LEMMA CompleteFrameMode ==
    ASSUME NEW x, Sound(x), NEW owner \in HoldDevice, Finished(x)
    PROVE  CompleteFrame(x, owner).mode \in {"idle", "await"}
  <1>. DEFINE c == x.seq
              source == Sources[c.matched]
              y == Resolve(x, "consumed")
              r == y.reuse \cup HeldModifiers(x, c)
              z == Idle([y EXCEPT !.reuse = r])
  <1>0. x \in Engines /\ c \in Candidate /\ Matching(x)
    BY DEF Sound, Engines, Finished
  <1>1. y \in Engines
    BY <1>0, ResolveFields DEF Route
  <1>2. CASE x.mode = "binding"
    <2>. DEFINE w == Idle(y)
                o == EmitAction(Sources[x.activePrefix].bindings[x.seq.matched].action)
    <2>1. w.mode = "idle"
      BY <1>1, IdleFields
    <2>2. QueueOutput(w, o).mode = w.mode
      BY <1>1, IdleFields DEF QueueOutput, QueueOutputs, Engines
    <2>3. CompleteFrame(x, owner) = QueueOutput(w, o)
      BY <1>2 DEF CompleteFrame, CompleteBinding
    <2>4. QED
      BY <2>1, <2>2, <2>3
  <1>3. CASE x.mode # "binding"
    <2>1. HeldModifiers(x, c) \in SUBSET Press /\ r \in SUBSET Press
      BY <1>0, <1>1 DEF HeldModifiers, Engines, Candidate
    <2>. DEFINE u == [y EXCEPT !.reuse = r]
    <2>2. u \in Engines
      BY <1>1, <2>1 DEF Engines
    <2>. HIDE DEF r, u
    <2>3. z \in Engines /\ z.mode = "idle" /\ z = Idle(u)
      BY <2>2, IdleFields DEF u
    <2>4. CompleteFrame(x, owner) = CompleteSource(x, owner)
      BY <1>3 DEF CompleteFrame
    <2>5. source.mode \in {"action", "hold", "tap"}
      <3>1. x.mode \in {"reserved", "prefix"} /\ c.matched # 0
        BY <1>0, <1>3 DEF Matching, Finished
      <3>2. c.matched \in DOMAIN Sources
        BY <3>1 DEF Sound, Configured, SourceCandidate
      <3>3. QED
        BY <3>2, SourceAt
    <2>6. CASE source.mode = "action"
      <3>1. CompleteSource(x, owner) =
              [y EXCEPT !.mode = "await", !.activePrefix = c.matched, !.seq = NoCandidate,
                        !.carry = HeldModifiers(x, c), !.deadline = TRUE]
        BY <2>6 DEF CompleteSource
      <3>. HIDE DEF y
      <3>2. QED
        BY <1>1, <2>4, <3>1 DEF Engines
    <2>7. CASE source.mode = "hold"
      <3>1. CompleteSource(x, owner) = Activate(z, c, source.target, owner)
        BY <2>7 DEF CompleteSource, r
      <3>. HIDE DEF z, c, source
      <3>2. Activate(z, c, source.target, owner).mode = z.mode
        BY <1>0, <2>3, ActivateMode
      <3>3. QED
        BY <2>3, <2>4, <3>1, <3>2
    <2>8. CASE source.mode = "tap"
      <3>. DEFINE v == QueueOutput(z, KeyOutput(TapDevice, source.target, 1))
      <3>1. CompleteSource(x, owner) = QueueOutput(v, KeyOutput(TapDevice, source.target, 0))
        BY <2>8 DEF CompleteSource, r
      <3>. HIDE DEF z
      <3>2. v.mode = z.mode /\ DOMAIN v = DOMAIN z
        BY <2>3 DEF QueueOutput, QueueOutputs, Engines
      <3>. HIDE DEF v
      <3>3. QueueOutput(v, KeyOutput(TapDevice, source.target, 0)).mode = v.mode
        BY <2>3, <3>2 DEF QueueOutput, QueueOutputs, Engines
      <3>4. QED
        BY <2>3, <2>4, <3>1, <3>2, <3>3
    <2>9. QED
      BY <2>5, <2>6, <2>7, <2>8
  <1>4. QED
    BY <1>2, <1>3

-----------------------------------------------------------------------------
(* What a reservation may hide of a frame: scan codes, and presses that are *)
(* not shown.                                                              *)
HidesOnly(x, f) ==
    \A k \in DOMAIN f.events :
        LET r == f.events[k] IN
        r.type = "msc" \/ (r.press # NoPress /\ x.route[r.press] # "forwarded")

HasKey(f) == \E k \in DOMAIN f.events : f.events[k].type = "key"

(* After the frame that began the reservation: presses and releases only,   *)
(* each once, and the release of a lifetime that is over.                   *)
OnceEach(x) ==
    \A i \in 2 .. Len(x.journal) : \A k \in DOMAIN x.journal[i].events :
        LET r == x.journal[i].events[k] IN
        r.type = "key" =>
            /\ r.event.value # 2
            /\ r.event.value = 0 => r.press \notin x.physical
            /\ \A j \in 2 .. Len(x.journal) : \A m \in DOMAIN x.journal[j].events :
                  x.journal[j].events[m] = r => j = i

(* The first n frames of a reservation's journal.                          *)
WithheldFrames(x, n) ==
    /\ \A i \in 1 .. n : HidesOnly(x, x.journal[i])
    /\ \A i \in 2 .. n : HasKey(x.journal[i])
    /\ OnceEach(x)

(* A record of the journal, and its press.                                  *)
LEMMA RecordAt ==
    ASSUME NEW x \in Engines, NEW i \in DOMAIN x.journal, NEW k \in DOMAIN x.journal[i].events
    PROVE  /\ x.journal[i].events[k] \in Record
           /\ x.journal[i].events[k].press \in Press \cup {NoPress}
           /\ x.journal[i].events[k].press \in Referenced(x)
  <1>1. x.journal[i] \in JournalFrames
    BY DEF Engines
  <1>2. x.journal[i].events[k] \in Record
    BY <1>1 DEF JournalFrames
  <1>3. x.journal[i].events[k].press \in JournalPresses(x)
    BY JournalPressesAre
  <1>4. QED
    BY <1>2, <1>3, RecordParts, ReferencedParts

(* Some frames less at the start or the end.                                *)
LEMMA OnceEachShift ==
    ASSUME NEW x, NEW y, OnceEach(x), y.physical = x.physical, NEW c \in Nat,
           Len(y.journal) \in Nat, Len(x.journal) \in Nat,
           \A i \in 2 .. Len(y.journal) :
              c + i <= Len(x.journal) /\ y.journal[i].events = x.journal[c + i].events
    PROVE  OnceEach(y)
  <1>. SUFFICES ASSUME NEW i \in 2 .. Len(y.journal), NEW k \in DOMAIN y.journal[i].events,
                       y.journal[i].events[k].type = "key"
                PROVE  LET r == y.journal[i].events[k] IN
                       /\ r.event.value # 2
                       /\ r.event.value = 0 => r.press \notin y.physical
                       /\ \A j \in 2 .. Len(y.journal) : \A m \in DOMAIN y.journal[j].events :
                             y.journal[j].events[m] = r => j = i
    BY DEF OnceEach
  <1>1. c + i \in 2 .. Len(x.journal) /\ y.journal[i].events = x.journal[c + i].events
    OBVIOUS
  <1>2. \A j \in 2 .. Len(y.journal) :
           /\ c + j \in 2 .. Len(x.journal) /\ y.journal[j].events = x.journal[c + j].events
           /\ c + j = c + i => j = i
    OBVIOUS
  <1>. DEFINE r == y.journal[i].events[k]
  <1>3. /\ r.event.value # 2
        /\ r.event.value = 0 => r.press \notin x.physical
        /\ \A j \in 2 .. Len(x.journal) : \A m \in DOMAIN x.journal[j].events :
              x.journal[j].events[m] = r => j = c + i
    BY <1>1 DEF OnceEach
  <1>4. QED
    BY <1>2, <1>3

LEMMA WithheldSame ==
    ASSUME NEW x \in Engines, NEW y \in Engines, SameEvents(x, y), y.physical = x.physical,
           \A p \in Press : y.route[p] = "forwarded" => x.route[p] = "forwarded",
           NEW n \in Int, n <= Len(x.journal), WithheldFrames(x, n)
    PROVE  WithheldFrames(y, n)
  <1>1. /\ Len(y.journal) = Len(x.journal) /\ Len(x.journal) \in Nat
        /\ DOMAIN x.journal = 1 .. Len(x.journal) /\ DOMAIN y.journal = 1 .. Len(x.journal)
    BY DEF Engines, SameEvents
  <1>2. \A i \in 1 .. Len(x.journal) : y.journal[i].events = x.journal[i].events
    BY <1>1 DEF SameEvents
  <1>3. \A i \in 1 .. n : HidesOnly(y, y.journal[i])
    <2>. SUFFICES ASSUME NEW i \in 1 .. n PROVE HidesOnly(y, y.journal[i])
      OBVIOUS
    <2>1. i \in 1 .. Len(x.journal) /\ HidesOnly(x, x.journal[i])
      BY <1>1 DEF WithheldFrames
    <2>2. \A k \in DOMAIN x.journal[i].events :
             x.journal[i].events[k].press \in Press \cup {NoPress}
      BY <1>1, <2>1, RecordAt
    <2>3. QED
      BY <1>2, <2>1, <2>2 DEF HidesOnly
  <1>4. \A i \in 2 .. n : HasKey(y.journal[i])
    BY <1>1, <1>2 DEF WithheldFrames, HasKey
  <1>5. OnceEach(y)
    <2>1. \A i \in 2 .. Len(y.journal) :
             0 + i <= Len(x.journal) /\ y.journal[i].events = x.journal[0 + i].events
      BY <1>1, <1>2
    <2>2. OnceEach(x) /\ 0 \in Nat
      BY DEF WithheldFrames
    <2>3. QED
      BY <1>1, <2>1, <2>2, OnceEachShift
  <1>6. QED
    BY <1>3, <1>4, <1>5 DEF WithheldFrames

(* The frames that drain leaves are the last ones.                          *)
LEMMA DrainWithheld ==
    ASSUME NEW x \in Engines, WithheldFrames(x, Len(x.journal))
    PROVE  WithheldFrames(Drain(x), Len(Drain(x).journal))
  <1>. DEFINE y == Drain(x)
              c == DrainCount(x)
              n == Len(y.journal)
  <1>1. /\ y \in Engines /\ y.physical = x.physical
        /\ y.route = [p \in Press |-> IF p \in Referenced(y) THEN x.route[p] ELSE "undecided"]
        /\ n = Len(x.journal) - c
        /\ \A i \in DOMAIN y.journal : y.journal[i] = x.journal[c + i]
    BY DrainFields
  <1>2. c \in 0 .. Len(x.journal) /\ Len(x.journal) \in Nat
    BY DrainCountIs
  <1>. HIDE DEF y, c
  <1>3. n \in Nat /\ DOMAIN y.journal = 1 .. n
    BY <1>1 DEF Engines
  <1>4. \A i \in 1 .. n : c + i \in 1 .. Len(x.journal) /\ y.journal[i] = x.journal[c + i]
    BY <1>1, <1>2, <1>3
  <1>5. \A i \in 2 .. n : i \in 1 .. n /\ c + i \in 2 .. Len(x.journal)
    BY <1>1, <1>2, <1>3
  <1>6. \A i \in 1 .. n : HidesOnly(y, y.journal[i])
    <2>. SUFFICES ASSUME NEW i \in 1 .. n PROVE HidesOnly(y, y.journal[i])
      OBVIOUS
    <2>1. HidesOnly(x, y.journal[i])
      BY <1>4 DEF WithheldFrames
    <2>2. \A k \in DOMAIN y.journal[i].events :
             y.journal[i].events[k].press \in Press \cup {NoPress}
      BY <1>1, <1>3, RecordAt
    <2>3. QED
      BY <1>1, <2>1, <2>2 DEF HidesOnly
  <1>7. \A i \in 2 .. n : HasKey(y.journal[i])
    BY <1>4, <1>5 DEF WithheldFrames
  <1>8. OnceEach(y)
    <2>1. \A i \in 2 .. n : c + i <= Len(x.journal) /\ y.journal[i].events = x.journal[c + i].events
      BY <1>2, <1>4, <1>5
    <2>2. OnceEach(x) /\ c \in Nat
      BY <1>2 DEF WithheldFrames
    <2>. HIDE DEF n
    <2>3. QED
      BY <1>1, <1>2, <1>3, <2>1, <2>2, OnceEachShift DEF n
  <1>9. QED
    BY <1>6, <1>7, <1>8 DEF WithheldFrames, y, n

(* The same for a journal with another last frame, whatever it is.          *)
LEMMA AppendWithheld ==
    ASSUME NEW x \in Engines, WithheldFrames(x, Len(x.journal)), NEW f \in JournalFrames,
           f.events = <<>>
    PROVE  LET y == [x EXCEPT !.journal = Append(x.journal, f)] IN
           WithheldFrames(y, Len(y.journal) - 1)
  <1>. DEFINE y == [x EXCEPT !.journal = Append(x.journal, f)]
              n == Len(x.journal)
  <1>1. /\ y.physical = x.physical /\ y.route = x.route /\ y.journal = Append(x.journal, f)
        /\ x.journal \in Seq(JournalFrames)
    BY DEF Engines
  <1>. HIDE DEF y
  <1>2. /\ n \in Nat /\ Len(y.journal) = n + 1
        /\ \A i \in 1 .. n : y.journal[i] = x.journal[i]
        /\ y.journal[n + 1] = f
    BY <1>1
  <1>3. DOMAIN <<>> = {} /\ DOMAIN y.journal[n + 1].events = {}
    BY <1>2
  <1>4. \A i \in 1 .. n : HidesOnly(y, y.journal[i])
    BY <1>1, <1>2 DEF WithheldFrames, HidesOnly
  <1>5. \A i \in 2 .. n : HasKey(y.journal[i])
    BY <1>2 DEF WithheldFrames
  <1>6. OnceEach(y)
    <2>1. \A i \in 2 .. n + 1 : \A k \in DOMAIN y.journal[i].events :
             i \in 2 .. n /\ y.journal[i] = x.journal[i]
      BY <1>2, <1>3
    <2>2. QED
      BY <1>1, <1>2, <2>1 DEF WithheldFrames, OnceEach
  <1>7. QED
    BY <1>2, <1>4, <1>5, <1>6 DEF WithheldFrames, y

LEMMA FrontWithheld ==
    ASSUME NEW x \in Engines, x.journal # <<>>, WithheldFrames(x, Len(x.journal) - 1)
    PROVE  LET y == [x EXCEPT !.journal = Front(x.journal)] IN
           y \in Engines /\ WithheldFrames(y, Len(y.journal))
  <1>. DEFINE y == [x EXCEPT !.journal = Front(x.journal)]
              n == Len(x.journal) - 1
  <1>1. x.journal \in Seq(JournalFrames) /\ Len(x.journal) \in Nat \ {0}
    BY DEF Engines
  <1>2. /\ Front(x.journal) \in Seq(JournalFrames) /\ Len(Front(x.journal)) = n /\ n \in Nat
        /\ \A i \in 1 .. n : Front(x.journal)[i] = x.journal[i]
    BY <1>1 DEF Front
  <1>3. /\ y \in Engines
        /\ y.physical = x.physical /\ y.route = x.route /\ y.journal = Front(x.journal)
    BY <1>2 DEF Engines
  <1>. HIDE DEF y
  <1>4. \A i \in 1 .. n : HidesOnly(y, y.journal[i])
    BY <1>2, <1>3 DEF WithheldFrames, HidesOnly
  <1>5. \A i \in 2 .. n : HasKey(y.journal[i])
    BY <1>2, <1>3 DEF WithheldFrames
  <1>6. OnceEach(y)
    <2>1. \A i \in 2 .. Len(y.journal) :
             0 + i <= Len(x.journal) /\ y.journal[i].events = x.journal[0 + i].events
      BY <1>1, <1>2, <1>3
    <2>2. OnceEach(x) /\ 0 \in Nat
      BY DEF WithheldFrames
    <2>3. QED
      BY <1>1, <1>2, <1>3, <2>1, <2>2, OnceEachShift
  <1>7. QED
    BY <1>2, <1>3, <1>4, <1>5, <1>6 DEF WithheldFrames, y

LEMMA LastWithheld ==
    ASSUME NEW x \in Engines, x.journal # <<>>, WithheldFrames(x, Len(x.journal) - 1),
           HidesOnly(x, Last(x.journal)), Len(x.journal) > 1 => HasKey(Last(x.journal))
    PROVE  WithheldFrames(x, Len(x.journal))
  <1>1. x.journal \in Seq(JournalFrames) /\ Len(x.journal) \in Nat \ {0}
    BY DEF Engines
  <1>2. /\ \A i \in 1 .. Len(x.journal) : i \in 1 .. Len(x.journal) - 1 \/ i = Len(x.journal)
        /\ \A i \in 2 .. Len(x.journal) :
              i \in 2 .. Len(x.journal) - 1 \/ (i = Len(x.journal) /\ Len(x.journal) > 1)
    BY <1>1
  <1>3. QED
    BY <1>1, <1>2 DEF WithheldFrames, Last

(* An event of a reservation that goes on: it is left out as chatter, it is *)
(* a scan code, or it is a press or a release that the reservation hides.   *)
Covered(x, d, event) ==
    LET v == Ingested(x, d, event)
        p == EventPress(x, d, event)
        valid == Valid(x, d, event)
    IN /\ v.mode = "reserved"
       /\ Outputs(v, TransitionOf(x, d, event), valid) = <<>>
       /\ ~Uncovered(v, p, event, valid)

(* The journal of y is that of x, and r at its end unless it is left out.   *)
OneMore(x, y, r, chatter) ==
    LET n == Len(x.journal)
        old == x.journal[n].events
        new == y.journal[n].events
    IN /\ Len(y.journal) = n /\ n \in Nat \ {0}
       /\ \A i \in 1 .. n : i # n => y.journal[i] = x.journal[i]
       /\ \A k \in DOMAIN old : \E m \in DOMAIN new : new[m] = old[k]
       /\ \A m \in DOMAIN new : (~chatter /\ new[m] = r) \/ \E k \in DOMAIN old : new[m] = old[k]
       /\ ~chatter => \E m \in DOMAIN new : new[m] = r

(* A press that begins, or the release of a key that is down.               *)
BeginsOrEnds(x, y, p, event) ==
    /\ event.type # "msc" => event.type = "key"
    /\ event.type = "key" =>
          /\ event.value \in {0, 1}
          /\ event.value = 1 => p \notin Referenced(x)
          /\ event.value = 0 => p \in x.physical /\ p \notin y.physical

LEMMA CoveredJournal ==
    ASSUME NEW x, Sound(x), x.journal # <<>>, NEW d \in Device, Last(x.journal).device = d,
           NEW event \in InputEvent, NEW chatter \in BOOLEAN,
           Fresh(x, d, event) => FreeLives(x, d, event.code) # {},
           Covered(x, d, event)
    PROVE  OneMore(x, Handled(x, d, event, chatter),
                   RecordEvent(event, EventPress(x, d, event)), chatter)
  <1>. DEFINE v == Ingested(x, d, event)
              p == EventPress(x, d, event)
              tr == TransitionOf(x, d, event)
              valid == Valid(x, d, event)
              z == Ended(x, d, event)
              r == RecordEvent(event, p)
              records == Records(v, tr, valid, chatter, event, p)
              y == Recorded(z, records)
              n == Len(x.journal)
  <1>1. x \in Engines /\ Handled(x, d, event, chatter) = y
    BY DEF Handled, Sound
  <1>2. /\ p \in Press \cup {NoPress} /\ (event.type # "key" => p = NoPress)
    BY <1>1, EventPressIs
  <1>3. /\ v \in Engines /\ z \in Engines /\ z.journal = x.journal
    BY EndedFields
  <1>4. Outputs(v, tr, valid) = <<>>
    BY DEF Covered
  <1>. HIDE DEF v, p, tr, valid, z
  <1>5. records \in Seq(Record)
    <2>1. /\ EventRecords(v, event, p) \in SUBSET Record
          /\ records \in Seq(EventRecords(v, event, p))
      BY <1>2, <1>3, RecordsType
    <2>2. QED
      BY <2>1
  <1>6. records = IF chatter THEN <<>> ELSE <<r>>
    <2>1. r \in Record
      BY <1>2, EventType DEF r, RecordEvent, Record
    <2>. HIDE DEF r
    <2>2. <<r>> \o <<>> = <<r>> /\ <<>> \o <<>> = <<>>
      BY <2>1
    <2>3. QED
      BY <1>4, <2>2, Zenon DEF Records, r
  <1>. HIDE DEF records, r
  <1>. DEFINE old == x.journal[n].events
              new == y.journal[n].events
  <1>7. /\ Len(y.journal) = n /\ DOMAIN y.journal = DOMAIN x.journal /\ n \in DOMAIN x.journal
        /\ \A i \in DOMAIN x.journal : i # n => y.journal[i] = x.journal[i]
        /\ new = old \o records
    <2>. DEFINE k == Len(z.journal)
    <2>1. z.journal # <<>>
      BY <1>3
    <2>2. /\ Len(y.journal) = k /\ DOMAIN y.journal = DOMAIN z.journal /\ k \in DOMAIN z.journal
          /\ \A i \in DOMAIN z.journal :
                /\ y.journal[i].device = z.journal[i].device
                /\ i # k => y.journal[i] = z.journal[i]
          /\ y.journal[k].events = z.journal[k].events \o records
      BY <1>3, <1>5, <2>1, RecordedFields
    <2>. HIDE DEF y
    <2>3. QED
      BY <1>3, <2>2
  <1>. HIDE DEF y
  <1>8. /\ x.journal \in Seq(JournalFrames) /\ n \in Nat \ {0} /\ DOMAIN x.journal = 1 .. n
        /\ old \in Seq(Record)
    <2>1. x.journal \in Seq(JournalFrames)
      BY <1>1 DEF Engines
    <2>2. x.journal[n] \in JournalFrames
      BY <1>7, <2>1
    <2>3. QED
      BY <1>7, <2>1, <2>2 DEF JournalFrames
  <1>9. Joined(new, old, records)
    BY <1>7 DEF Joined
  <1>10. /\ \A m \in DOMAIN new : \/ \E i \in DOMAIN old : new[m] = old[i]
                                  \/ \E i \in DOMAIN records : new[m] = records[i]
         /\ \A i \in DOMAIN old : \E m \in DOMAIN new : new[m] = old[i]
         /\ \A i \in DOMAIN records : \E m \in DOMAIN new : new[m] = records[i]
    <2>. HIDE DEF old, new
    <2>1. old \in Seq(Record)
      BY <1>8
    <2>2. \A i \in DOMAIN old : \E m \in DOMAIN new : new[m] = old[i]
      BY <1>5, <1>9, <2>1, ConcatElements
    <2>3. \A i \in DOMAIN records : \E m \in DOMAIN new : new[m] = records[i]
      BY <1>5, <1>9, <2>1, ConcatElements
    <2>4. \A m \in DOMAIN new : \/ \E i \in DOMAIN old : new[m] = old[i]
                                \/ \E i \in DOMAIN records : new[m] = records[i]
      BY <1>5, <1>9, <2>1, ConcatElements
    <2>5. QED
      BY <2>2, <2>3, <2>4
  <1>11. /\ \A i \in DOMAIN records : ~chatter /\ records[i] = r
         /\ ~chatter => \E i \in DOMAIN records : records[i] = r
    <2>1. DOMAIN <<>> = {}
      OBVIOUS
    <2>2. 1 \in DOMAIN <<r>> /\ <<r>>[1] = r /\ \A i \in DOMAIN <<r>> : <<r>>[i] = r
      OBVIOUS
    <2>3. QED
      BY <1>6, <2>1, <2>2, Zenon
  <1>. HIDE DEF old, new
  <1>12. /\ Len(y.journal) = n /\ n \in Nat \ {0}
         /\ \A i \in 1 .. n : i # n => y.journal[i] = x.journal[i]
         /\ \A k \in DOMAIN old : \E m \in DOMAIN new : new[m] = old[k]
         /\ \A m \in DOMAIN new :
               (~chatter /\ new[m] = r) \/ \E k \in DOMAIN old : new[m] = old[k]
         /\ ~chatter => \E m \in DOMAIN new : new[m] = r
    <2>1. \A m \in DOMAIN new :
             (~chatter /\ new[m] = r) \/ \E k \in DOMAIN old : new[m] = old[k]
      BY <1>10, <1>11
    <2>2. ~chatter => \E m \in DOMAIN new : new[m] = r
      BY <1>10, <1>11
    <2>. HIDE DEF n
    <2>3. QED
      BY <1>7, <1>8, <1>10, <2>1, <2>2
  <1>13. QED
    BY <1>1, <1>12 DEF OneMore, old, new, n, r, p

(* What a reservation takes from the keyboards: presses that begin, and     *)
(* releases of keys that are down.                                         *)
LEMMA CoveredKey ==
    ASSUME NEW x, Sound(x), Held(x), x.journal # <<>>, NEW d \in Device,
           Last(x.journal).device = d, NEW event \in InputEvent,
           Fresh(x, d, event) => FreeLives(x, d, event.code) # {},
           Covered(x, d, event), ~ChatterOf(x, d, event)
    PROVE  BeginsOrEnds(x, Handled(x, d, event, FALSE), EventPress(x, d, event), event)
  <1>. DEFINE v == Ingested(x, d, event)
              p == EventPress(x, d, event)
              valid == Valid(x, d, event)
              y == Handled(x, d, event, FALSE)
  <1>1. x \in Engines /\ (event.type = "key" => event.value \in {0, 1, 2})
    BY EventType DEF Sound
  <1>2. /\ Fresh(x, d, event) => p \in Press /\ p \notin Referenced(x)
        /\ valid /\ event.value # 1 => p \in x.physical
    BY <1>1, EventPressIs
  <1>3. /\ v.mode = "reserved" /\ ~Uncovered(v, p, event, valid)
        /\ ~Chatter(v, p, event, valid)
    BY DEF Covered, ChatterOf
  <1>4. event.type # "msc" => valid /\ v.route[p] # "forwarded"
    BY <1>3 DEF Uncovered
  <1>5. valid => event.type = "key"
    BY DEF Valid
  <1>6. ASSUME event.type = "key", event.value = 2 PROVE FALSE
    <2>1. valid /\ v.route[p] # "forwarded" /\ p \in x.physical
      BY <1>2, <1>4, <1>6
    <2>2. p # NoPress
      BY <1>1, <2>1, PressFinite DEF Engines
    <2>3. Chatter(v, p, event, valid)
      BY <1>3, <1>6, <2>1, <2>2 DEF Chatter
    <2>4. QED
      BY <1>3, <2>3
  <1>7. ASSUME event.type = "key", event.value = 1 PROVE p \notin Referenced(x)
    <2>1. Fresh(x, d, event)
      BY <1>4, <1>7 DEF Fresh
    <2>2. QED
      BY <1>2, <2>1
  <1>8. ASSUME event.type = "key", event.value = 0
        PROVE  p \in x.physical /\ p \notin y.physical
    <2>1. Valid(x, d, event)
      BY <1>4, <1>8
    <2>2. Moves(x.physical, TransitionOf(x, d, event), y.physical)
      <3>1. Fresh(x, d, event) => FreeLives(x, d, event.code) # {} /\ FALSE = FALSE
        OBVIOUS
      <3>2. QED
        BY <2>1, <3>1, HandledMoves
    <2>. DEFINE tr == TransitionOf(x, d, event)
    <2>3. tr.press = p /\ tr.value = 0
      BY <1>8 DEF TransitionOf, Transition
    <2>. HIDE DEF tr
    <2>4. p \in x.physical /\ y.physical = x.physical \ {p}
      <3>1. Moves(x.physical, tr, y.physical)
        BY <2>2 DEF tr
      <3>. HIDE DEF y, p
      <3>2. QED
        BY <2>3, <3>1 DEF Moves
    <2>5. QED
      BY <2>4
  <1>9. QED
    BY <1>1, <1>4, <1>5, <1>6, <1>7, <1>8 DEF BeginsOrEnds

LEMMA HandledFields ==
    ASSUME NEW x, Sound(x), x.journal # <<>>, NEW d \in Device, NEW event \in InputEvent,
           NEW chatter \in BOOLEAN,
           Fresh(x, d, event) => FreeLives(x, d, event.code) # {}
    PROVE  LET y == Handled(x, d, event, chatter)
               p == EventPress(x, d, event)
           IN /\ Fresh(x, d, event) => y.physical = x.physical \cup {p}
              /\ ~Fresh(x, d, event) => y.physical \subseteq x.physical
              /\ y.route = [q \in Press |-> IF Fresh(x, d, event) /\ q = p
                                              THEN "undecided" ELSE x.route[q]]
  <1>. DEFINE v == Ingested(x, d, event)
              p == EventPress(x, d, event)
              fresh == Fresh(x, d, event)
              z == Ended(x, d, event)
              y == Handled(x, d, event, chatter)
              records == Records(v, TransitionOf(x, d, event), Valid(x, d, event),
                                 chatter, event, p)
  <1>1. /\ v \in Engines /\ z \in Engines /\ z.journal = x.journal
        /\ fresh => z.physical = x.physical \cup {p}
        /\ ~fresh => z.physical \subseteq x.physical
        /\ z.route = [q \in Press |-> IF fresh /\ q = p THEN "undecided" ELSE x.route[q]]
    BY EndedFields
  <1>2. records \in Seq(Record)
    <2>1. (event.type # "key" => p = NoPress) /\ p \in Press \cup {NoPress}
      BY EventPressIs DEF Sound
    <2>. HIDE DEF v, p
    <2>2. /\ EventRecords(v, event, p) \in SUBSET Record
          /\ records \in Seq(EventRecords(v, event, p))
      BY <1>1, <2>1, RecordsType
    <2>3. QED
      BY <2>2
  <1>. HIDE DEF records, z, fresh
  <1>3. Recorded(z, records).physical = z.physical /\ Recorded(z, records).route = z.route
    BY <1>1, <1>2, RecordedFields
  <1>4. y = Recorded(z, records)
    BY DEF Handled, records, z
  <1>. HIDE DEF y
  <1>5. QED
    BY <1>1, <1>3, <1>4 DEF y, fresh

(* What an event leaves of a reservation that goes on.                     *)
StillWithheld(x, y, n, event, chatter) ==
    /\ WithheldFrames(y, n - 1) /\ Len(y.journal) = n
    /\ HasKey(x.journal[n]) => HasKey(y.journal[n])
    /\ event.type # "msc" /\ ~chatter => HasKey(y.journal[n])

LEMMA CoveredWithheld ==
    ASSUME NEW x, Sound(x), Held(x), x.journal # <<>>, NEW d \in Device,
           Last(x.journal).device = d, NEW event \in InputEvent,
           NEW chatter \in BOOLEAN, chatter = ChatterOf(x, d, event),
           Fresh(x, d, event) => FreeLives(x, d, event.code) # {} /\ ~chatter,
           Covered(x, d, event), WithheldFrames(x, Len(x.journal) - 1)
    PROVE  StillWithheld(x, Handled(x, d, event, chatter), Len(x.journal), event, chatter)
  <1>. DEFINE y == Handled(x, d, event, chatter)
              p == EventPress(x, d, event)
              r == RecordEvent(event, p)
              n == Len(x.journal)
              fresh == Fresh(x, d, event)
  <1>1. x \in Engines /\ (Fresh(x, d, event) => FreeLives(x, d, event.code) # {})
    BY DEF Sound
  <1>2. /\ Len(y.journal) = n /\ n \in Nat \ {0}
        /\ \A i \in 1 .. n : i # n => y.journal[i] = x.journal[i]
        /\ \A k \in DOMAIN x.journal[n].events :
              \E m \in DOMAIN y.journal[n].events :
                 y.journal[n].events[m] = x.journal[n].events[k]
        /\ \A m \in DOMAIN y.journal[n].events :
              \/ ~chatter /\ y.journal[n].events[m] = r
              \/ \E k \in DOMAIN x.journal[n].events :
                    y.journal[n].events[m] = x.journal[n].events[k]
        /\ ~chatter => \E m \in DOMAIN y.journal[n].events : y.journal[n].events[m] = r
    <2>1. OneMore(x, y, r, chatter)
      BY <1>1, CoveredJournal
    <2>. HIDE DEF y, r
    <2>2. QED
      BY <2>1 DEF OneMore
  <1>3. r.type = event.type /\ r.event = event /\ r.press = p
    BY DEF RecordEvent
  <1>4. /\ fresh => p \notin Referenced(x)
        /\ p \in Press \cup {NoPress}
    BY <1>1, EventPressIs
  <1>5. /\ fresh => y.physical = x.physical \cup {p}
        /\ ~fresh => y.physical \subseteq x.physical
        /\ y.route = [q \in Press |-> IF fresh /\ q = p THEN "undecided" ELSE x.route[q]]
    BY <1>1, HandledFields
  <1>6. ~chatter =>
          /\ event.type # "msc" => event.type = "key"
          /\ event.type = "key" =>
                /\ event.value \in {0, 1}
                /\ event.value = 1 => p \notin Referenced(x)
                /\ event.value = 0 => p \in x.physical /\ p \notin y.physical
    <2>. SUFFICES ASSUME ~chatter
                  PROVE  /\ event.type # "msc" => event.type = "key"
                         /\ event.type = "key" =>
                               /\ event.value \in {0, 1}
                               /\ event.value = 1 => p \notin Referenced(x)
                               /\ event.value = 0 => p \in x.physical /\ p \notin y.physical
      OBVIOUS
    <2>1. chatter = FALSE /\ ~ChatterOf(x, d, event)
      OBVIOUS
    <2>. DEFINE u == Handled(x, d, event, FALSE)
    <2>2. y = u
      BY <2>1
    <2>3. /\ event.type # "msc" => event.type = "key"
          /\ event.type = "key" =>
                /\ event.value \in {0, 1}
                /\ event.value = 1 => p \notin Referenced(x)
                /\ event.value = 0 => p \in x.physical /\ p \notin u.physical
      <3>1. BeginsOrEnds(x, u, p, event)
        BY <1>1, <2>1, CoveredKey
      <3>. HIDE DEF u, p
      <3>2. QED
        BY <3>1 DEF BeginsOrEnds
    <2>. HIDE DEF u, y
    <2>4. QED
      BY <2>2, <2>3
  <1>7. \A i \in 1 .. n : i \in DOMAIN x.journal
    BY <1>1 DEF Engines
  <1>. HIDE DEF y, r, fresh, p
  <1>8. \A i \in 1 .. n : \A k \in DOMAIN x.journal[i].events :
           /\ x.journal[i].events[k].press \in Press \cup {NoPress}
           /\ x.journal[i].events[k].press \in Referenced(x)
    BY <1>1, <1>7, RecordAt
  <1>9. ASSUME NEW i \in 1 .. n - 1 PROVE HidesOnly(y, y.journal[i])
    <2>1. i \in 1 .. n /\ y.journal[i] = x.journal[i] /\ HidesOnly(x, x.journal[i])
      BY <1>2 DEF WithheldFrames
    <2>2. \A q \in Press : x.route[q] # "forwarded" => y.route[q] # "forwarded"
      BY <1>5
    <2>3. QED
      BY <1>8, <2>1, <2>2 DEF HidesOnly
  <1>10. ASSUME NEW i \in 2 .. n - 1 PROVE HasKey(y.journal[i])
    <2>1. i \in 1 .. n /\ i # n
      BY <1>2
    <2>2. QED
      BY <1>2, <2>1 DEF WithheldFrames
  <1>11. HasKey(x.journal[n]) => HasKey(y.journal[n])
    BY <1>2 DEF HasKey
  <1>12. event.type # "msc" /\ ~chatter => HasKey(y.journal[n])
    BY <1>2, <1>3, <1>6 DEF HasKey
  <1>13. ASSUME NEW i \in 1 .. n, NEW k \in DOMAIN y.journal[i].events
         PROVE  \/ \E m \in DOMAIN x.journal[i].events :
                      y.journal[i].events[k] = x.journal[i].events[m]
                \/ i = n /\ ~chatter /\ y.journal[i].events[k] = r
    BY <1>2
  <1>14. ASSUME ~chatter, r.type = "key", NEW j \in 2 .. n, NEW m \in DOMAIN x.journal[j].events,
                x.journal[j].events[m] = r
         PROVE  FALSE
    <2>1. r.press \in Referenced(x) /\ (r.event.value = 0 => r.press \notin x.physical)
      BY <1>2, <1>8, <1>14 DEF WithheldFrames, OnceEach
    <2>2. QED
      BY <1>3, <1>6, <1>14, <2>1
  <1>15. OnceEach(y)
    <2>. SUFFICES ASSUME NEW i \in 2 .. n, NEW k \in DOMAIN y.journal[i].events,
                         y.journal[i].events[k].type = "key"
                  PROVE  LET q == y.journal[i].events[k] IN
                         /\ q.event.value # 2
                         /\ q.event.value = 0 => q.press \notin y.physical
                         /\ \A j \in 2 .. n : \A m \in DOMAIN y.journal[j].events :
                               y.journal[j].events[m] = q => j = i
      BY <1>2 DEF OnceEach
    <2>. DEFINE q == y.journal[i].events[k]
    <2>. HIDE DEF n
    <2>1. \A j \in 2 .. n : j \in 1 .. n
      BY <1>2 DEF n
    <2>2. CASE \E m \in DOMAIN x.journal[i].events : q = x.journal[i].events[m]
      <3>1. PICK m \in DOMAIN x.journal[i].events : q = x.journal[i].events[m]
        BY <2>2
      <3>2. /\ q.event.value # 2
            /\ q.event.value = 0 => q.press \notin x.physical
            /\ \A j \in 2 .. n : \A l \in DOMAIN x.journal[j].events :
                  x.journal[j].events[l] = q => j = i
        BY <3>1 DEF WithheldFrames, OnceEach, n
      <3>3. q.press \in Referenced(x)
        BY <1>8, <2>1, <3>1
      <3>4. q.event.value = 0 => q.press \notin y.physical
        BY <1>4, <1>5, <3>2, <3>3
      <3>5. ASSUME NEW j \in 2 .. n, NEW l \in DOMAIN y.journal[j].events,
                   y.journal[j].events[l] = q
            PROVE  j = i
        <4>1. ~(~chatter /\ q = r)
          BY <1>14, <3>1
        <4>2. QED
          BY <1>13, <2>1, <3>2, <3>5, <4>1
      <3>6. QED
        BY <3>2, <3>4, <3>5
    <2>3. CASE ~\E m \in DOMAIN x.journal[i].events : q = x.journal[i].events[m]
      <3>1. i = n /\ ~chatter /\ q = r
        BY <1>13, <2>1, <2>3
      <3>2. q.event.value # 2 /\ (q.event.value = 0 => q.press \notin y.physical)
        BY <1>3, <1>6, <3>1
      <3>3. ASSUME NEW j \in 2 .. n, NEW l \in DOMAIN y.journal[j].events,
                   y.journal[j].events[l] = q
            PROVE  j = i
        BY <1>13, <1>14, <2>1, <3>1, <3>3
      <3>4. QED
        BY <3>2, <3>3
    <2>4. QED
      BY <2>2, <2>3
  <1>16. WithheldFrames(y, n - 1)
    BY <1>9, <1>10, <1>15 DEF WithheldFrames
  <1>17. QED
    BY <1>2, <1>11, <1>12, <1>16 DEF StillWithheld, y

-----------------------------------------------------------------------------
(* A reservation                                                           *)

(* One of these transitions is the press p.                                *)
Pressed(trs, p) == \E k \in DOMAIN trs : trs[k].press = p /\ trs[k].value = 1

(* Inductive together with EngineInv and HeldInv.  The frame in progress is *)
(* not in it until it ends, for Trapped and DropChatter still decide about  *)
(* it; that a reservation can begin in no frame but the first of a journal, *)
(* and that a press of this frame is owned or will be offered to the        *)
(* candidate, is why ForwardFresh shows nothing of it.                     *)
ReservedInv ==
    /\ e.mode = "reserved" =>
          /\ WithheldFrames(e, IF frame.open THEN Len(e.journal) - 1 ELSE Len(e.journal))
          /\ frame.open /\ frame.meaningful /\ Len(e.journal) > 1 => HasKey(Last(e.journal))
    /\ frame.open /\ ~Matching(e) /\ ~frame.failed =>
          Len(e.journal) = 1 /\ \A p \in frame.fresh : Pressed(frame.history, p)
    /\ frame.open /\ Matching(e) =>
          \A p \in frame.fresh :
              e.route[p] = "undecided" => p \in e.seq.owned \/ Pressed(frame.todo, p)

LEMMA BeginFrameReserved ==
    ASSUME NEW d \in Device, NEW late \in BOOLEAN, EngineInv, ReservedInv, BeginFrame(d, late)
    PROVE  ReservedInv'
  <1>. DEFINE x == HandleTimeout(e, late)
              y == Drain(x)
              dropScan == \E p \in y.physical : device(p) = d /\ y.route[p] = "consumed"
              candidate == IF Matching(y) THEN "undecided" ELSE "none"
              f == JournalFrame(d, <<>>, dropScan, candidate)
              z == [y EXCEPT !.journal = Append(y.journal, f)]
  <1>1. Sound(e) /\ frame = NoFrame /\ Decided(e, {})
    <2>1. Sound(e) /\ frame = NoFrame /\ Decided(e, frame.fresh)
      BY DEF EngineInv, BeginFrame, Ready
    <2>2. QED
      BY <2>1 DEF NoFrame
  <1>2. e' = z /\ frame' = [NoFrame EXCEPT !.open = TRUE, !.device = d]
    BY DEF BeginFrame
  <1>3. MatcherStep(e, x) /\ Sound(x) /\ Evolves(e, x, {}) /\ x \in Engines
    BY <1>1, TimeoutStep DEF MatcherStep, Sound
  <1>4. x.mode = "reserved" => x = e
    <2>1. Fail(e).mode = "idle"
      BY <1>1, FailFields DEF Sound
    <2>2. QED
      BY <2>1 DEF HandleTimeout
  <1>. HIDE DEF x
  <1>5. Sound(y) /\ Evolves(x, y, {}) /\ y \in Engines /\ y.mode = x.mode
    BY <1>3, DrainKeeps, DrainFields DEF Sound, SameMatching
  <1>6. Decided(y, {})
    BY <1>1, <1>3, <1>5, DecidedThen
  <1>7. y.journal # <<>> => Matching(y)
    BY <1>3, <1>5, <1>6, DrainedWaits
  <1>8. f \in JournalFrames /\ f.events = <<>>
    BY DEF JournalFrame, JournalFrames, Route
  <1>9. ~frame.open /\ frame'.open /\ ~frame'.meaningful /\ frame'.fresh = {}
    BY <1>1, <1>2 DEF NoFrame
  <1>10. x.mode = "reserved" => WithheldFrames(y, Len(y.journal))
    BY <1>3, <1>4, <1>9, DrainWithheld DEF ReservedInv
  <1>. HIDE DEF f, y
  <1>11. z.mode = y.mode /\ (~Matching(z) => Len(z.journal) = 1)
    <2>1. /\ z.mode = y.mode /\ z.journal = Append(y.journal, f)
          /\ y.journal \in Seq(JournalFrames)
      BY <1>5 DEF Engines
    <2>2. y.journal = <<>> => Len(Append(y.journal, f)) = 1
      BY <2>1
    <2>3. QED
      BY <1>7, <2>1, <2>2 DEF Matching
  <1>12. x.mode = "reserved" => WithheldFrames(z, Len(z.journal) - 1)
    BY <1>5, <1>8, <1>10, AppendWithheld
  <1>. HIDE DEF z
  <1>13. QED
    BY <1>2, <1>5, <1>9, <1>11, <1>12 DEF ReservedInv

LEMMA PressedAppend ==
    ASSUME NEW trs \in Seq(Transitions), NEW tr \in Transitions
    PROVE  /\ \A p : Pressed(trs, p) => Pressed(Append(trs, tr), p)
           /\ tr.value = 1 => Pressed(Append(trs, tr), tr.press)
           /\ tr.value = 1 => Pressed(<<tr>>, tr.press)
  <1>1. /\ \A k \in DOMAIN trs : k \in DOMAIN Append(trs, tr) /\ Append(trs, tr)[k] = trs[k]
        /\ Len(trs) + 1 \in DOMAIN Append(trs, tr) /\ Append(trs, tr)[Len(trs) + 1] = tr
    OBVIOUS
  <1>2. 1 \in DOMAIN <<tr>> /\ <<tr>>[1] = tr
    OBVIOUS
  <1>. DEFINE s == Append(trs, tr)
              t == <<tr>>
  <1>. HIDE DEF s, t
  <1>3. /\ \A k \in DOMAIN trs : k \in DOMAIN s /\ s[k] = trs[k]
        /\ Len(trs) + 1 \in DOMAIN s /\ s[Len(trs) + 1] = tr
        /\ 1 \in DOMAIN t /\ t[1] = tr
    BY <1>1, <1>2 DEF s, t
  <1>4. /\ \A p : Pressed(trs, p) => Pressed(s, p)
        /\ tr.value = 1 => Pressed(s, tr.press)
        /\ tr.value = 1 => Pressed(t, tr.press)
    BY <1>3 DEF Pressed
  <1>5. QED
    BY <1>4 DEF s, t

LEMMA HandleEventReserved ==
    ASSUME NEW event \in InputEvent, EngineInv, HeldInv, ReservedInv, HandleEvent(event)
    PROVE  ReservedInv'
  <1>. DEFINE d == frame.device
              p == EventPress(e, d, event)
              tr == TransitionOf(e, d, event)
              valid == Valid(e, d, event)
              fresh == Fresh(e, d, event)
              fails == EventFails(d, event)
              proceeds == EventProceeds(d, event)
              n == Len(e.journal)
  <1>1. PICK chatter \in BOOLEAN :
             LET y == Handled(e, d, event, chatter)
                 starts == EventStarts(d, event, chatter)
             IN /\ chatter = ChatterOf(e, d, event)
                /\ fresh => FreeLives(e, d, event.code) # {} /\ ~chatter
                /\ e' = IF fails THEN Fail(y)
                        ELSE IF starts THEN Started(y, p, Len(e.journal)) ELSE y
                /\ frame' =
                     [frame EXCEPT
                        !.n = @ + 1,
                        !.fresh = IF fresh THEN @ \cup {p} ELSE @,
                        !.meaningful = @ \/ (event.type # "msc" /\ ~chatter),
                        !.failed = @ \/ fails,
                        !.todo = IF starts THEN Append(frame.history, tr)
                                 ELSE IF proceeds /\ Matching(y) THEN <<tr>> ELSE <<>>,
                        !.history = IF proceeds THEN Append(@, tr) ELSE @]
                /\ out' = out
    BY HandleEventIs
  <1>. DEFINE y == Handled(e, d, event, chatter)
              starts == EventStarts(d, event, chatter)
  <1>2. /\ Sound(e) /\ e \in Engines /\ frame \in Frames /\ frame.open /\ frame.todo = <<>>
        /\ d \in Device /\ e.journal # <<>> /\ Last(e.journal).device = d /\ Held(e)
    BY DEF EngineInv, HandleEvent, FrameInProgress, Sound, HeldInv
  <1>3. /\ fresh => FreeLives(e, d, event.code) # {} /\ ~chatter
        /\ fresh => FreeLives(e, d, event.code) # {} /\ chatter = FALSE
        /\ fresh => FreeLives(e, d, event.code) # {}
        /\ chatter = ChatterOf(e, d, event)
    BY <1>1
  <1>4. /\ Sound(y) /\ SameMatching(e, y) /\ y.journal # <<>> /\ Len(y.journal) = n
    <2>. HIDE DEF d
    <2>1. HandledFacts(e, d, event, chatter)
      BY <1>2, <1>3, HandledKeeps
    <2>2. QED
      BY <2>1 DEF HandledFacts
  <1>5. y.route = [q \in Press |-> IF fresh /\ q = p THEN "undecided" ELSE e.route[q]]
    <2>. HIDE DEF d
    <2>1. QED
      BY <1>2, <1>3, HandledFields
  <1>6. valid => tr \in Transitions
    BY <1>2, <1>3, TransitionType
  <1>7. tr.press = p /\ tr.value = event.value
    BY DEF TransitionOf, Transition
  <1>8. /\ fresh => valid /\ event.value = 1
        /\ valid /\ ~frame.failed /\ ~fails => proceeds
        /\ proceeds => valid /\ ~frame.failed /\ ~fails
        /\ starts => proceeds /\ event.value = 1 /\ Starts(y, p)
        /\ valid /\ event.value = 1 => fresh
    BY DEF EventProceeds, EventStarts, Fresh
  <1>9. e.mode = "reserved" /\ ~fails => Covered(e, d, event)
    <2>1. Ingested(e, d, event).mode = e.mode
      BY <1>2, <1>3, EndedFields
    <2>2. QED
      BY <2>1 DEF EventFails, Covered
  <1>10. e.mode = "reserved" /\ ~fails =>
           /\ WithheldFrames(y, n - 1) /\ Len(y.journal) = n
           /\ HasKey(e.journal[n]) => HasKey(y.journal[n])
           /\ event.type # "msc" /\ ~chatter => HasKey(y.journal[n])
    <2>. SUFFICES ASSUME e.mode = "reserved", ~fails
                  PROVE  /\ WithheldFrames(y, n - 1) /\ Len(y.journal) = n
                         /\ HasKey(e.journal[n]) => HasKey(y.journal[n])
                         /\ event.type # "msc" /\ ~chatter => HasKey(y.journal[n])
      OBVIOUS
    <2>1. WithheldFrames(e, n - 1)
      BY <1>2 DEF ReservedInv
    <2>2. Covered(e, d, event)
      BY <1>9
    <2>3. StillWithheld(e, y, n, event, chatter)
      <3>. HIDE DEF d, fails, fresh
      <3>1. Fresh(e, d, event) => FreeLives(e, d, event.code) # {} /\ ~chatter
        BY <1>3 DEF fresh
      <3>2. QED
        BY <1>2, <1>3, <2>1, <2>2, <3>1, CoveredWithheld
    <2>. HIDE DEF y, d, n, fails
    <2>4. QED
      BY <2>3 DEF StillWithheld
  <1>11. e' = IF fails THEN Fail(y) ELSE IF starts THEN Started(y, p, n) ELSE y
    BY <1>1
  <1>12. /\ frame'.open /\ frame'.failed = (frame.failed \/ fails)
         /\ frame'.fresh = IF fresh THEN frame.fresh \cup {p} ELSE frame.fresh
         /\ frame'.meaningful = (frame.meaningful \/ (event.type # "msc" /\ ~chatter))
         /\ frame'.todo = IF starts THEN Append(frame.history, tr)
                          ELSE IF proceeds /\ Matching(y) THEN <<tr>> ELSE <<>>
         /\ frame'.history = IF proceeds THEN Append(frame.history, tr) ELSE frame.history
    BY <1>1, <1>2 DEF Frames
  <1>13. frame.history \in Seq(Transitions) /\ frame.fresh \in SUBSET Press
    BY <1>2 DEF Frames
  <1>. HIDE DEF y, starts, proceeds, fails, tr, fresh, valid, p, d
  <1>14. n \in Nat \ {0} /\ Last(e.journal) = e.journal[n] /\ Last(y.journal) = y.journal[n]
    <2>1. e.journal \in Seq(JournalFrames)
      BY <1>2 DEF Engines
    <2>2. QED
      BY <1>2, <1>4, <2>1 DEF Last
  <1>15. proceeds => /\ \A q : Pressed(frame.history, q) => Pressed(Append(frame.history, tr), q)
                     /\ fresh => Pressed(Append(frame.history, tr), p)
                     /\ fresh => Pressed(<<tr>>, p)
    BY <1>6, <1>7, <1>8, <1>13, PressedAppend
  <1>16. y.mode = e.mode /\ y.seq = e.seq /\ (Matching(y) <=> Matching(e))
    BY <1>4 DEF SameMatching, Matching
  <1>17. CASE fails
    <2>1. e' = Fail(y) /\ frame'.failed
      BY <1>11, <1>12, <1>17
    <2>2. e'.mode = "idle"
      BY <1>4, <2>1, FailFields DEF Sound
    <2>3. QED
      BY <2>1, <2>2 DEF ReservedInv, Matching
  <1>18. CASE ~fails /\ starts
    <2>1. /\ e' = Started(y, p, n) /\ proceeds /\ fresh /\ Starts(y, p)
          /\ frame'.todo = Append(frame.history, tr)
          /\ frame'.fresh = frame.fresh \cup {p}
      BY <1>8, <1>11, <1>12, <1>18
    <2>2. Sound(e') /\ SameEvents(y, e') /\ Matching(e')
      BY <1>4, <2>1, StartedKeeps
    <2>3. ~Matching(e) /\ ~frame.failed
      BY <1>8, <1>16, <2>1 DEF Starts, Matching
    <2>4. n = 1 /\ \A q \in frame.fresh : Pressed(frame.history, q)
      BY <1>2, <2>3 DEF ReservedInv
    <2>5. Len(e'.journal) = 1
      BY <1>4, <2>2, <2>4 DEF SameEvents
    <2>6. \A q \in frame'.fresh : Pressed(frame'.todo, q)
      BY <1>15, <2>1, <2>4
    <2>7. WithheldFrames(e', Len(e'.journal) - 1)
      BY <2>5 DEF WithheldFrames, OnceEach
    <2>8. QED
      BY <1>12, <2>2, <2>5, <2>6, <2>7 DEF ReservedInv
  <1>19. CASE ~fails /\ ~starts
    <2>1. e' = y
      BY <1>11, <1>19
    <2>2. ASSUME Matching(e) PROVE ReservedInv'
      <3>1. ~frame.failed /\ frame'.todo = (IF proceeds THEN <<tr>> ELSE <<>>)
        BY <1>12, <1>16, <1>19, <2>2 DEF HeldInv
      <3>2. ASSUME NEW q \in frame'.fresh, y.route[q] = "undecided"
            PROVE  q \in y.seq.owned \/ Pressed(frame'.todo, q)
        <4>1. CASE fresh /\ q = p
          <5>1. proceeds
            BY <1>8, <1>19, <3>1, <4>1
          <5>2. QED
            BY <1>15, <3>1, <4>1, <5>1
        <4>2. CASE ~(fresh /\ q = p)
          <5>1. q \in frame.fresh /\ q \in Press
            BY <1>12, <1>13, <4>2
          <5>2. e.route[q] = "undecided"
            BY <1>5, <3>2, <4>2, <5>1
          <5>3. ~Pressed(<<>>, q)
            BY DEF Pressed
          <5>4. q \in e.seq.owned
            BY <1>2, <2>2, <5>1, <5>2, <5>3 DEF ReservedInv
          <5>5. QED
            BY <1>16, <5>4
        <4>3. QED
          BY <4>1, <4>2
      <3>3. ASSUME e.mode = "reserved", frame'.meaningful, n > 1 PROVE HasKey(y.journal[n])
        <4>1. CASE frame.meaningful
          <5>1. HasKey(e.journal[n])
            BY <1>2, <1>14, <3>3, <4>1 DEF ReservedInv
          <5>2. QED
            BY <1>10, <1>19, <3>3, <5>1
        <4>2. CASE ~frame.meaningful
          BY <1>10, <1>12, <1>19, <3>3, <4>2
        <4>3. QED
          BY <4>1, <4>2
      <3>4. Matching(y)
        BY <1>16, <2>2
      <3>5. QED
        BY <1>4, <1>10, <1>12, <1>14, <1>16, <1>19, <2>1, <3>2, <3>3, <3>4 DEF ReservedInv
    <2>3. ASSUME ~Matching(e) PROVE ReservedInv'
      <3>1. y.mode # "reserved" /\ ~Matching(y)
        BY <1>16, <2>3 DEF Matching
      <3>2. ASSUME ~frame'.failed
            PROVE  Len(y.journal) = 1 /\ \A q \in frame'.fresh : Pressed(frame'.history, q)
        <4>1. ~frame.failed
          BY <1>12, <3>2
        <4>2. n = 1 /\ \A q \in frame.fresh : Pressed(frame.history, q)
          BY <1>2, <2>3, <4>1 DEF ReservedInv
        <4>3. fresh => proceeds
          BY <1>8, <1>19, <4>1
        <4>4. QED
          BY <1>4, <1>12, <1>15, <4>2, <4>3
      <3>3. QED
        BY <2>1, <3>1, <3>2 DEF ReservedInv
    <2>4. QED
      BY <2>2, <2>3
  <1>20. QED
    BY <1>17, <1>18, <1>19

LEMMA PressedTail ==
    ASSUME NEW trs \in Seq(Transitions), trs # <<>>, NEW p, Pressed(trs, p)
    PROVE  (Head(trs).press = p /\ Head(trs).value = 1) \/ Pressed(Tail(trs), p)
  <1>1. PICK k \in DOMAIN trs : trs[k].press = p /\ trs[k].value = 1
    BY DEF Pressed
  <1>. DEFINE s == Tail(trs)
  <1>2. /\ Head(trs) = trs[1] /\ k \in 1 .. Len(trs)
        /\ k # 1 => k - 1 \in DOMAIN s /\ s[k - 1] = trs[k]
    OBVIOUS
  <1>. HIDE DEF s
  <1>3. k # 1 => Pressed(s, p)
    BY <1>1, <1>2 DEF Pressed
  <1>4. QED
    BY <1>1, <1>2, <1>3 DEF s

LEMMA AdvanceStepReserved ==
    ASSUME EngineInv, HeldInv, ReservedInv, AdvanceStep
    PROVE  ReservedInv'
  <1>. DEFINE tr == Head(frame.todo)
              x == Advance(e, tr)
              n == Len(e.journal)
  <1>1. /\ Sound(e) /\ e \in Engines /\ frame \in Frames /\ FrameInProgress
        /\ frame.open /\ frame.todo # <<>> /\ Matching(e)
    BY DEF EngineInv, AdvanceStep, FrameInProgress, Sound
  <1>2. /\ e' = x
        /\ frame' = [frame EXCEPT !.failed = ~Matching(x),
                                  !.todo = IF Matching(x) THEN Tail(frame.todo) ELSE <<>>]
    BY DEF AdvanceStep
  <1>3. frame.todo \in Seq(Transitions) /\ frame.fresh \in SUBSET Press
    BY <1>1 DEF Frames
  <1>4. tr \in Transitions /\ tr \in ToSet(frame.todo)
    BY <1>1, <1>3 DEF ToSet
  <1>5. tr.press \in Press /\ (tr.value = 1 => tr.press \in Referenced(e))
    BY <1>1, <1>4, ReferencedParts DEF FrameInProgress, Transitions
  <1>6. \A q : Pressed(frame.todo, q) =>
                 (tr.press = q /\ tr.value = 1) \/ Pressed(Tail(frame.todo), q)
    BY <1>1, <1>3, PressedTail
  <1>. HIDE DEF tr
  <1>7. MatcherStep(e, x)
    BY <1>1, <1>5, AdvanceKeeps
  <1>8. Matching(x) => /\ GoesOn(e, x)
                       /\ tr.value = 1 /\ e.route[tr.press] = "undecided"
                            => tr.press \in x.seq.owned
    BY <1>1, <1>5, AdvanceGoesOn
  <1>. HIDE DEF x
  <1>9. /\ frame'.open /\ frame'.failed = ~Matching(x) /\ frame'.fresh = frame.fresh
        /\ frame'.meaningful = frame.meaningful
        /\ frame'.todo = IF Matching(x) THEN Tail(frame.todo) ELSE <<>>
    BY <1>1, <1>2 DEF Frames
  <1>10. CASE ~Matching(x)
    <2>1. x.mode # "reserved"
      BY <1>10 DEF Matching
    <2>2. QED
      BY <1>2, <1>9, <1>10, <2>1 DEF ReservedInv
  <1>11. CASE Matching(x)
    <2>1. /\ x \in Engines /\ SameEvents(e, x) /\ x.physical = e.physical
          /\ x.route = e.route /\ e.seq.owned \subseteq x.seq.owned
          /\ x.mode = "reserved" => e.mode = "reserved"
      BY <1>7, <1>8, <1>11 DEF MatcherStep, Sound, GoesOn
    <2>2. /\ n \in Nat \ {0} /\ Len(x.journal) = n /\ DOMAIN e.journal = 1 .. n
          /\ x.journal[n].events = e.journal[n].events
      <3>1. e.journal \in Seq(JournalFrames) /\ e.journal # <<>>
        BY <1>1 DEF Engines, FrameInProgress
      <3>2. QED
        BY <2>1, <3>1 DEF SameEvents
    <2>. HIDE DEF n
    <2>3. x.mode = "reserved" => WithheldFrames(x, n - 1)
      <3>1. SUFFICES ASSUME x.mode = "reserved" PROVE WithheldFrames(x, n - 1)
        OBVIOUS
      <3>2. WithheldFrames(e, n - 1)
        BY <1>1, <2>1, <3>1 DEF ReservedInv, n
      <3>3. n - 1 \in Int /\ n - 1 <= Len(e.journal)
        BY <2>2 DEF n
      <3>4. QED
        BY <1>1, <2>1, <3>2, <3>3, WithheldSame
    <2>4. ASSUME x.mode = "reserved", frame.meaningful, n > 1 PROVE HasKey(x.journal[n])
      <3>1. HasKey(e.journal[n])
        BY <1>1, <2>1, <2>4 DEF ReservedInv, Last, n
      <3>2. QED
        BY <2>2, <3>1 DEF HasKey
    <2>5. ASSUME NEW q \in frame.fresh, x.route[q] = "undecided"
          PROVE  q \in x.seq.owned \/ Pressed(frame'.todo, q)
      <3>1. q \in e.seq.owned \/ Pressed(frame.todo, q)
        BY <1>1, <2>1, <2>5 DEF ReservedInv
      <3>2. QED
        BY <1>6, <1>8, <1>9, <1>11, <2>1, <2>5, <3>1
    <2>6. Last(x.journal) = x.journal[n] /\ Len(x.journal) = n
      BY <2>2 DEF Last
    <2>7. QED
      BY <1>2, <1>9, <1>11, <2>3, <2>4, <2>5, <2>6 DEF ReservedInv
  <1>12. QED
    BY <1>10, <1>11

LEMMA EndFrameReserved ==
    ASSUME EngineInv, HeldInv, ReservedInv, EndFrame
    PROVE  ReservedInv'
  <1>. DEFINE w == IF Trapped(e) THEN Fail(e) ELSE e
              o == CHOOSE h \in FreeOwners(w, out) : TRUE
              x == IF frame.failed \/ Trapped(e) THEN w ELSE CompleteFrame(w, o)
              v == ForwardFresh(x, frame.fresh)
              y == DropChatter(v, frame.meaningful)
              n == Len(e.journal)
  <1>1. /\ Sound(e) /\ e \in Engines /\ FrameInProgress /\ frame.todo = <<>> /\ frame.open
        /\ frame \in Frames /\ out \in Seq(Output)
    BY DEF EngineInv, EndFrame, Sound
  <1>2. e' = Drain(y) /\ frame' = NoFrame /\ ~frame'.open
    BY DEF EndFrame, NoFrame
  <1>3. Sound(Fail(e)) /\ Fail(e).mode = "idle"
    BY <1>1, FailKeeps, FailFields
  <1>4. ~Trapped(e) => o \in HoldDevice
    <2>1. SUFFICES ASSUME ~Trapped(e) PROVE FreeOwners(w, out) # {}
      BY DEF FreeOwners
    <2>2. w = e
      BY <2>1
    <2>3. OwnerLeft(e, out)
      BY <1>1 DEF FrameInProgress
    <2>4. QED
      BY <1>1, <2>2, <2>3, OwnersLeft
  <1>. HIDE DEF o
  <1>5. Sound(x)
    <2>1. CASE Trapped(e)
      BY <1>3, <2>1
    <2>2. CASE ~Trapped(e)
      BY <1>1, <1>4, <2>2, CompleteFrameKeeps
    <2>3. QED
      BY <2>1, <2>2
  <1>6. x.mode = "reserved" => ~Trapped(e) /\ ~frame.failed /\ x = e
    <2>. SUFFICES ASSUME x.mode = "reserved" PROVE ~Trapped(e) /\ ~frame.failed /\ x = e
      OBVIOUS
    <2>1. ~Trapped(e)
      BY <1>3
    <2>2. ~frame.failed
      BY <2>1 DEF HeldInv, Matching
    <2>3. x = CompleteFrame(e, o)
      BY <2>1, <2>2
    <2>4. ~Finished(e)
      BY <1>1, <1>4, <2>1, <2>3, CompleteFrameMode
    <2>5. QED
      BY <2>1, <2>2, <2>3, <2>4 DEF CompleteFrame
  <1>. HIDE DEF w, x
  <1>7. /\ Sound(v) /\ v \in Engines /\ SameMatching(x, v) /\ v.physical = x.physical
        /\ v.journal = x.journal
    BY <1>5, ForwardFreshKeeps, ForwardFreshRetains DEF Sound, Retains
  <1>8. \A p \in Press : v.route[p] =
          IF p \in frame.fresh \ x.seq.owned /\ x.route[p] = "undecided"
            THEN "forwarded" ELSE x.route[p]
    BY <1>5 DEF ForwardFresh, Sound, Engines
  <1>. HIDE DEF v
  <1>9. Sound(y) /\ SameMatching(v, y)
    BY <1>7, DropChatterKeeps, DropChatterRetains
  <1>10. e'.mode = "reserved" => x.mode = "reserved" /\ v.mode = "reserved"
    <2>1. e'.mode = y.mode
      BY <1>2, <1>9, DrainFields DEF SameMatching, Sound
    <2>. HIDE DEF y
    <2>2. QED
      BY <1>7, <1>9, <2>1 DEF SameMatching
  <1>11. SUFFICES ASSUME e'.mode = "reserved" PROVE WithheldFrames(e, Len(e.journal))'
    BY <1>2 DEF ReservedInv
  <1>12. /\ x = e /\ ~Trapped(e) /\ e.mode = "reserved" /\ v.mode = "reserved"
         /\ WithheldFrames(e, n - 1)
    BY <1>1, <1>6, <1>10, <1>11 DEF ReservedInv
  <1>13. v.route = e.route
    <2>1. ~Pressed(<<>>, 0) /\ \A p : ~Pressed(<<>>, p)
      BY DEF Pressed
    <2>2. \A p \in frame.fresh : e.route[p] = "undecided" => p \in e.seq.owned
      BY <1>1, <1>12, <2>1 DEF ReservedInv, Matching
    <2>3. \A p \in Press : v.route[p] = e.route[p]
      BY <1>8, <1>12, <2>2
    <2>4. QED
      BY <1>1, <1>7, <2>3 DEF Engines
  <1>14. n \in Nat \ {0} /\ e.journal # <<>> /\ Last(e.journal) = e.journal[n]
    BY <1>1 DEF Engines, FrameInProgress, Last
  <1>15. /\ v.journal = e.journal /\ v.physical = e.physical
    BY <1>7, <1>12
  <1>. HIDE DEF n
  <1>16. WithheldFrames(v, n - 1)
    <2>1. SameEvents(e, v) /\ n - 1 \in Int /\ n - 1 <= Len(e.journal)
      BY <1>14, <1>15 DEF SameEvents, n
    <2>2. QED
      BY <1>1, <1>7, <1>12, <1>13, <1>15, <2>1, WithheldSame
  <1>17. WithheldFrames(y, Len(y.journal)) /\ y \in Engines
    <2>1. CASE frame.meaningful
      <3>1. y = v
        BY <2>1 DEF DropChatter
      <3>2. HidesOnly(v, Last(v.journal))
        <4>1. \A k \in DOMAIN e.journal[n].events :
                 e.journal[n].events[k] \in ToSet(e.journal[n].events)
          BY DEF ToSet
        <4>2. QED
          BY <1>12, <1>13, <1>14, <1>15, <4>1 DEF Trapped, Visible, HidesOnly
      <3>3. Len(v.journal) > 1 => HasKey(Last(v.journal))
        BY <1>1, <1>12, <1>15, <2>1 DEF ReservedInv
      <3>. HIDE DEF y
      <3>4. QED
        BY <1>7, <1>14, <1>15, <1>16, <3>1, <3>2, <3>3, LastWithheld DEF n
    <2>2. CASE ~frame.meaningful
      <3>1. y = [v EXCEPT !.journal = Front(v.journal)]
        BY <1>12, <2>2 DEF DropChatter
      <3>. HIDE DEF y
      <3>2. QED
        BY <1>7, <1>14, <1>15, <1>16, <3>1, FrontWithheld DEF n
    <2>3. QED
      BY <2>1, <2>2
  <1>. HIDE DEF y
  <1>18. QED
    BY <1>2, <1>17, DrainWithheld

(* A call that leaves no candidate leaves no journal.                       *)
LEMMA ClosedReserved ==
    ASSUME EngineInv', frame' = NoFrame, NEW y \in Engines, y.seq = NoCandidate, e' = Drain(y)
    PROVE  ReservedInv'
  <1>1. ~frame'.open /\ frame'.fresh = {}
    BY DEF NoFrame
  <1>2. e'.seq.owned = {}
    <2>1. e'.seq = y.seq
      BY DrainFields DEF SameMatching
    <2>2. QED
      BY <2>1 DEF NoCandidate
  <1>3. Decided(e', {})
    BY <1>1 DEF EngineInv
  <1>4. e'.journal = <<>>
    <2>1. SUFFICES ASSUME e'.journal # <<>> PROVE FALSE
      OBVIOUS
    <2>2. PICK p \in Press : p \in JournalPresses(Drain(y)) /\ Drain(y).route[p] = "undecided"
      BY <2>1, DrainWaits
    <2>3. p \in Referenced(e') /\ e'.route[p] = "undecided"
      BY <2>2, ReferencedParts
    <2>4. QED
      BY <1>2, <1>3, <2>3 DEF Decided
  <1>5. Len(e'.journal) = 0
    BY <1>4
  <1>6. WithheldFrames(e', 0) /\ ~(Len(e'.journal) > 1)
    BY <1>5 DEF WithheldFrames, OnceEach
  <1>7. QED
    BY <1>1, <1>5, <1>6 DEF ReservedInv

LEMMA TimeoutReserved ==
    ASSUME EngineInv, EngineInv', Timeout
    PROVE  ReservedInv'
  <1>. DEFINE x == HandleTimeout(e, TRUE)
  <1>1. e \in Engines /\ e' = Drain(x) /\ frame' = NoFrame /\ x = Fail(e)
    BY DEF EngineInv, Timeout, Ready, HandleTimeout, Sound
  <1>2. x \in Engines /\ x.seq = NoCandidate
    BY <1>1, FailFields
  <1>. HIDE DEF x
  <1>3. QED
    BY <1>1, <1>2, ClosedReserved

LEMMA CloseReserved ==
    ASSUME EngineInv, EngineInv', Close
    PROVE  ReservedInv'
  <1>. DEFINE x == Closing(e)
  <1>1. Sound(e) /\ e' = Drain(x) /\ frame' = NoFrame
    BY DEF EngineInv, Close, Ready
  <1>2. x \in Engines /\ x.seq = NoCandidate
    BY <1>1, ClosingKeeps DEF Sound
  <1>. HIDE DEF x
  <1>3. QED
    BY <1>1, <1>2, ClosedReserved

LEMMA ReconcileReserved ==
    ASSUME NEW d \in Device, NEW pressed \in SUBSET InputCode, EngineInv, EngineInv',
           Reconcile(d, pressed)
    PROVE  ReservedInv'
  <1>. DEFINE w == Cancelled(e, d)
              u == Drain(w)
              v == StopAll(u, EndedBy(e, d))
              x == Snapshot(v, e, d, pressed)
              r == ReconcileDevice(d, VisibleCodes(x, d))
              y == QueueOutput(x, r)
  <1>1. Sound(e) /\ e \in Engines /\ frame = NoFrame
    BY ClosedFacts DEF Reconcile, Ready
  <1>2. /\ e' = Drain(y) /\ frame' = NoFrame
        /\ \A c \in pressed : PressAt(e, d, c) = NoPress => FreeLives(e, d, c) # {}
    BY <1>1 DEF Reconcile
  <1>3. pressed \in SUBSET Code
    BY DEF InputCode, KeyEvent
  <1>4. Sound(w) /\ Evolves(e, w, {}) /\ w.seq = NoCandidate /\ w.physical = e.physical
    BY <1>1, CancelledKeeps
  <1>. HIDE DEF w
  <1>5. /\ Sound(u) /\ Evolves(w, u, {}) /\ u.seq = NoCandidate /\ u.physical = e.physical
    BY <1>4, DrainKeeps, DrainFields DEF Sound, SameMatching
  <1>. HIDE DEF u
  <1>6. /\ Sound(v) /\ Evolves(u, v, {}) /\ v.seq = NoCandidate /\ v.physical = e.physical
        /\ v \in Engines
    BY <1>1, <1>5, EndedByType, StopAllKeeps DEF SameMatching, Sound
  <1>. HIDE DEF v
  <1>7. Evolves(e, v, {})
    BY <1>1, <1>4, <1>5, <1>6, EvolvesThen
  <1>8. Referenced(v) \subseteq Referenced(e) \cup {NoPress}
    BY <1>7 DEF Evolves
  <1>9. Sound(x)
    BY <1>2, <1>3, <1>6, <1>8, SnapshotKeeps
  <1>10. x.seq = NoCandidate
    BY <1>6, SnapshotFields
  <1>11. r \in Output
    BY <1>9, VisibleCodesType DEF Sound, Output, ReconcileDevice, Owner
  <1>. HIDE DEF x, r
  <1>12. Sound(y) /\ SameMatching(x, y)
    <2>1. <<r>> \in Seq(Output)
      BY <1>11
    <2>2. QED
      BY <1>9, <2>1, QueueOutputsKeeps, QueueRetains DEF QueueOutput, Sound
  <1>13. y \in Engines /\ y.seq = NoCandidate
    BY <1>10, <1>12 DEF SameMatching, Sound
  <1>. HIDE DEF y
  <1>14. QED
    BY <1>2, <1>13, ClosedReserved

LEMMA ReservedInit == EngineInit => ReservedInv
  <1>. SUFFICES ASSUME EngineInit PROVE ReservedInv
    OBVIOUS
  <1>1. e = InitialEngine /\ frame = NoFrame
    BY DEF EngineInit
  <1>2. e.mode = "idle" /\ ~frame.open
    BY <1>1 DEF InitialEngine, NoFrame
  <1>3. QED
    BY <1>2 DEF ReservedInv

LEMMA ReservedNext ==
    EngineInv /\ HeldInv /\ ReservedInv /\ [EngineNext]_engineVars => ReservedInv'
  <1>. SUFFICES ASSUME EngineInv, HeldInv, ReservedInv, [EngineNext]_engineVars
                PROVE  ReservedInv'
    OBVIOUS
  <1>0. EngineInv'
    BY InvNext
  <1>1. ASSUME NEW d \in Device, NEW late \in BOOLEAN, BeginFrame(d, late) PROVE ReservedInv'
    BY <1>1, BeginFrameReserved
  <1>2. ASSUME NEW event \in InputEvent, HandleEvent(event) PROVE ReservedInv'
    BY <1>2, HandleEventReserved
  <1>3. ASSUME NEW d \in Device, NEW pressed \in SUBSET InputCode, Reconcile(d, pressed)
        PROVE  ReservedInv'
    BY <1>0, <1>3, ReconcileReserved
  <1>4. ASSUME UNCHANGED <<e, frame>> PROVE ReservedInv'
    BY <1>4 DEF ReservedInv
  <1>5. ASSUME Apply \/ UNCHANGED engineVars PROVE ReservedInv'
    BY <1>4, <1>5 DEF Apply, engineVars
  <1>6. QED
    BY <1>0, <1>1, <1>2, <1>3, <1>5, AdvanceStepReserved, EndFrameReserved, TimeoutReserved,
       CloseReserved DEF EngineNext, Input

(* A reservation's journal has nothing in it but what may still be decided, *)
(* at every event of every frame.                                          *)
THEOREM ReservedInvariant == EngineSpec => []ReservedInv
  BY ReservedInit, ReservedNext, EngineInvariant, HeldInvariant, PTL DEF EngineSpec

(* A reservation, which waits for the user as long as it takes, hides only  *)
(* presses it may still consume and what belongs to consumed ones: whatever *)
(* else is typed ends it and is shown.                                     *)
THEOREM EngineReservation == EngineSpec => []ReservationHidesNothingElse
  <1>1. EngineInv /\ ReservedInv => ReservationHidesNothingElse
    <2>. SUFFICES ASSUME EngineInv, ReservedInv, ~frame.open, e.mode = "reserved",
                         NEW f \in ToSet(e.journal), NEW r \in ToSet(f.events)
                  PROVE  r.type = "msc" \/ (r.press # NoPress /\ e.route[r.press] # "forwarded")
      BY DEF ReservationHidesNothingElse
    <2>1. WithheldFrames(e, Len(e.journal)) /\ e.journal \in Seq(JournalFrames)
      BY DEF ReservedInv, EngineInv, Sound, Engines
    <2>2. PICK i \in DOMAIN e.journal : f = e.journal[i]
      BY DEF ToSet
    <2>3. HidesOnly(e, f)
      BY <2>1, <2>2 DEF WithheldFrames
    <2>4. QED
      BY <2>3 DEF HidesOnly, ToSet
  <1>2. QED
    BY <1>1, EngineInvariant, ReservedInvariant, PTL

(* Repeats and the chatter of hidden keys never make that journal longer:   *)
(* every frame after the first holds a key event, none of them a repeat,   *)
(* and none of them a second time.                                         *)
THEOREM EngineJournalBound == EngineSpec => []ReservationJournalBounded
  <1>1. EngineInv /\ ReservedInv => ReservationJournalBounded
    <2>. DEFINE keys(j) == {r \in ToSet(e.journal[j].events) : r.type = "key"}
    <2>. SUFFICES ASSUME EngineInv, ReservedInv, ~frame.open, e.mode = "reserved",
                         NEW i \in 2 .. Len(e.journal)
                  PROVE  /\ keys(i) # {}
                         /\ \A r \in keys(i) :
                               /\ r.event.value # 2
                               /\ \A j \in 2 .. Len(e.journal) : r \in keys(j) => j = i
      BY DEF ReservationJournalBounded
    <2>1. WithheldFrames(e, Len(e.journal))
      BY DEF ReservedInv
    <2>2. HasKey(e.journal[i])
      BY <2>1 DEF WithheldFrames
    <2>3. keys(i) # {}
      BY <2>2 DEF HasKey, ToSet
    <2>4. ASSUME NEW r \in keys(i)
          PROVE  /\ r.event.value # 2
                 /\ \A j \in 2 .. Len(e.journal) : r \in keys(j) => j = i
      <3>1. PICK k \in DOMAIN e.journal[i].events : r = e.journal[i].events[k]
        BY <2>4 DEF ToSet
      <3>2. /\ r.event.value # 2
            /\ \A j \in 2 .. Len(e.journal) : \A m \in DOMAIN e.journal[j].events :
                  e.journal[j].events[m] = r => j = i
        BY <2>1, <2>4, <3>1 DEF WithheldFrames, OnceEach
      <3>3. QED
        BY <3>2 DEF ToSet
    <2>. HIDE DEF keys
    <2>5. QED
      BY <2>3, <2>4
  <1>2. QED
    BY <1>1, EngineInvariant, ReservedInvariant, PTL

-----------------------------------------------------------------------------
(* Operations, and what each does to a key                                 *)

(* Operations as a journal may hold them.                                  *)
Operation ==
    Output \cup [kind : {"key"}, owner : {NoDevice}, code : Code, value : {0, 1, 2}]

(* Operations that leave owner o holding key c.                            *)
Pressing(o, c) ==
    {u \in Operation : \/ u.kind = "key" /\ u.owner = o /\ u.code = c /\ u.value = 1
                       \/ u.kind = "reconcile" /\ u.owner = o /\ c \in u.pressed}

(* Operations that leave owner o without key c.                            *)
Releasing(o, c) ==
    {u \in Operation : \/ u.kind = "key" /\ u.owner = o /\ u.code = c /\ u.value = 0
                       \/ u.kind = "reconcile" /\ u.owner = o /\ c \notin u.pressed}

(* Operations that drop h's entry from the forwarder's map.                *)
Leaving(h) == {u \in Operation : u.kind = "reconcile" /\ u.owner = h /\ u.pressed = {}}

(* Operations that leave h with an entry in the forwarder's map.           *)
Entering(h) == {u \in Operation : u.kind # "action" /\ u.owner = h} \ Leaving(h)

(* An operation on the keys of owner o.                                    *)
Names(u, o) == u.kind # "action" /\ u.owner = o

LEMMA NoNames ==
    ASSUME NEW u \in Operation, NEW o, ~Names(u, o)
    PROVE  /\ \A c : u \notin Pressing(o, c) /\ u \notin Releasing(o, c)
           /\ u \notin Entering(o) /\ u \notin Leaving(o)
  BY DEF Names, Pressing, Releasing, Entering, Leaving

(* What each kind of operation does to the keys and the entry of an owner. *)
LEMMA KeyEffect ==
    ASSUME NEW d \in Owner \cup {NoDevice}, NEW k \in Code, NEW v \in {0, 1, 2}
    PROVE  LET u == KeyOutput(d, k, v) IN
           /\ u \in Operation
           /\ \A o, c : u \in Pressing(o, c) <=> o = d /\ c = k /\ v = 1
           /\ \A o, c : u \in Releasing(o, c) <=> o = d /\ c = k /\ v = 0
           /\ \A o : u \in Entering(o) <=> o = d
           /\ \A o : u \notin Leaving(o)
<1> DEFINE u == KeyOutput(d, k, v)
<1>1. u.kind = "key" /\ u.owner = d /\ u.code = k /\ u.value = v
  BY DEF KeyOutput
<1>2. u \in Operation
  BY DEF KeyOutput, Operation, Output
<1> HIDE DEF u
<1>3. \A o, c : u \in Pressing(o, c) <=> o = d /\ c = k /\ v = 1
  BY <1>1, <1>2 DEF Pressing, Releasing, Entering, Leaving
<1>4. \A o, c : u \in Releasing(o, c) <=> o = d /\ c = k /\ v = 0
  BY <1>1, <1>2 DEF Pressing, Releasing, Entering, Leaving
<1>5. \A o : u \in Entering(o) <=> o = d
  BY <1>1, <1>2 DEF Pressing, Releasing, Entering, Leaving
<1>6. \A o : u \notin Leaving(o)
  BY <1>1, <1>2 DEF Pressing, Releasing, Entering, Leaving
<1> QED
  BY <1>2, <1>3, <1>4, <1>5, <1>6, Zenon DEF u

LEMMA ReconcileEffect ==
    ASSUME NEW d \in Owner, NEW S \in SUBSET Code
    PROVE  LET u == ReconcileDevice(d, S) IN
           /\ u \in Operation
           /\ \A o, c : u \in Pressing(o, c) <=> o = d /\ c \in S
           /\ \A o, c : u \in Releasing(o, c) <=> o = d /\ c \notin S
           /\ \A o : u \in Entering(o) <=> o = d /\ S # {}
           /\ \A o : u \in Leaving(o) <=> o = d /\ S = {}
<1> DEFINE u == ReconcileDevice(d, S)
<1>1. u.kind = "reconcile" /\ u.owner = d /\ u.pressed = S
  BY DEF ReconcileDevice
<1>2. u \in Operation
  BY DEF ReconcileDevice, Operation, Output
<1> HIDE DEF u
<1>3. \A o, c : u \in Pressing(o, c) <=> o = d /\ c \in S
  BY <1>1, <1>2 DEF Pressing, Releasing, Entering, Leaving
<1>4. \A o, c : u \in Releasing(o, c) <=> o = d /\ c \notin S
  BY <1>1, <1>2 DEF Pressing, Releasing, Entering, Leaving
<1>5. \A o : u \in Entering(o) <=> o = d /\ S # {}
  BY <1>1, <1>2 DEF Pressing, Releasing, Entering, Leaving
<1>6. \A o : u \in Leaving(o) <=> o = d /\ S = {}
  BY <1>1, <1>2 DEF Pressing, Releasing, Entering, Leaving
<1> QED
  BY <1>2, <1>3, <1>4, <1>5, <1>6, Zenon DEF u

LEMMA OtherEffect ==
    ASSUME NEW d \in Owner, NEW t \in {"msc", "led"}
    PROVE  LET u == EventOutput(d, t) IN
           /\ u \in Operation
           /\ \A o, c : u \notin Pressing(o, c)
           /\ \A o, c : u \notin Releasing(o, c)
           /\ \A o : u \in Entering(o) <=> o = d
           /\ \A o : u \notin Leaving(o)
<1> DEFINE u == EventOutput(d, t)
<1>1. u.kind = t /\ u.owner = d
  BY DEF EventOutput
<1>2. u \in Operation
  BY DEF EventOutput, Operation, Output
<1> HIDE DEF u
<1>3. \A o, c : u \notin Pressing(o, c)
  BY <1>1, <1>2 DEF Pressing, Releasing, Entering, Leaving
<1>4. \A o, c : u \notin Releasing(o, c)
  BY <1>1, <1>2 DEF Pressing, Releasing, Entering, Leaving
<1>5. \A o : u \in Entering(o) <=> o = d
  BY <1>1, <1>2 DEF Pressing, Releasing, Entering, Leaving
<1>6. \A o : u \notin Leaving(o)
  BY <1>1, <1>2 DEF Pressing, Releasing, Entering, Leaving
<1> QED
  BY <1>2, <1>3, <1>4, <1>5, <1>6, Zenon DEF u

LEMMA ActionEffect ==
    ASSUME NEW a \in Action
    PROVE  EmitAction(a) \in Operation /\ \A o : ~Names(EmitAction(a), o)
  BY DEF EmitAction, Operation, Output, Names

-----------------------------------------------------------------------------
(* What a journal still has to say when its undecided presses meet fate s.  *)
Fates == [Press -> {"forwarded", "consumed"}]

(* The operations that a record of a journal frame stands for, if the      *)
(* presses get the dispositions that fate gives them. Scan codes do        *)
(* nothing to a key and are left out.                                      *)
RecordOps(d, r, fate) ==
    CASE r.type = "output" -> <<r.output>>
      [] r.type = "key" ->
            IF r.press = NoPress \/ fate[r.press] = "forwarded"
              THEN <<KeyOutput(d, r.event.code, r.event.value)>> ELSE <<>>
      [] OTHER -> <<>>

(* RecordOps and the operations of a frame as functions, to map over       *)
(* lists.                                                                  *)
RecordFn(d, fate) == [r \in Record |-> RecordOps(d, r, fate)]

FrameFn(fate) == [f \in JournalFrames |-> Mapped(f.events, RecordFn(f.device, fate))]

(* What the journal of x will become under fate.                           *)
Ops(x, fate) == Mapped(x.journal, FrameFn(fate))

LEMMA RecordFnType ==
    ASSUME NEW d \in Device \cup {NoDevice}, NEW fate
    PROVE  RecordFn(d, fate) \in [Record -> Seq(Operation)]
<1>1. ASSUME NEW r \in Record PROVE RecordOps(d, r, fate) \in Seq(Operation)
  <2>1. /\ r.type \in {"output", "key", "msc", "led"}
        /\ r.type = "output" => r.output \in Operation
        /\ r.type = "key" => r.event.code \in Code /\ r.event.value \in {0, 1, 2}
    BY RecordParts DEF Operation
  <2>2. r.type = "key" => KeyOutput(d, r.event.code, r.event.value) \in Operation
    BY <2>1, KeyEffect DEF Owner
  <2>3. /\ r.type = "output" => <<r.output>> \in Seq(Operation)
        /\ r.type = "key" => <<KeyOutput(d, r.event.code, r.event.value)>> \in Seq(Operation)
        /\ <<>> \in Seq(Operation)
    BY <2>1, <2>2
  <2> QED
    BY <2>1, <2>3 DEF RecordOps
<1> QED
  BY <1>1 DEF RecordFn

LEMMA FrameParts ==
    ASSUME NEW f \in JournalFrames
    PROVE  f.device \in Device \cup {NoDevice} /\ f.events \in Seq(Record)
  BY DEF JournalFrames

LEMMA FrameFnType ==
    ASSUME NEW fate
    PROVE  FrameFn(fate) \in [JournalFrames -> Seq(Operation)]
<1>1. ASSUME NEW f \in JournalFrames
      PROVE  Mapped(f.events, RecordFn(f.device, fate)) \in Seq(Operation)
  <2>1. f.device \in Device \cup {NoDevice} /\ f.events \in Seq(Record)
    BY FrameParts, Zenon
  <2>2. RecordFn(f.device, fate) \in [Record -> Seq(Operation)]
    BY <2>1, RecordFnType, Zenon
  <2> QED
    BY <2>1, <2>2, MappedType, Zenon
<1> QED
  BY <1>1 DEF FrameFn

LEMMA OpsType ==
    ASSUME NEW x \in Engines, NEW fate
    PROVE  Ops(x, fate) \in Seq(Operation)
<1>1. x.journal \in Seq(JournalFrames)
  BY DEF Engines
<1> QED
  BY <1>1, FrameFnType, MappedType, Zenon DEF Ops

(* Only the journalled presses matter.                                     *)
LEMMA OpsSame ==
    ASSUME NEW x \in Engines, NEW y \in Engines, SameEvents(x, y), NEW s, NEW t,
           \A p \in Press : p \in JournalPresses(x) => s[p] = t[p]
    PROVE  Ops(x, s) = Ops(y, t)
<1>1. /\ x.journal \in Seq(JournalFrames) /\ y.journal \in Seq(JournalFrames)
      /\ DOMAIN x.journal = DOMAIN y.journal
  BY DEF Engines, SameEvents
<1>2. ASSUME NEW i \in DOMAIN x.journal
      PROVE  FrameFn(s)[x.journal[i]] = FrameFn(t)[y.journal[i]]
  <2> DEFINE f == x.journal[i]
             g == y.journal[i]
  <2>0. f.device = g.device /\ f.events = g.events
    BY Zenon DEF SameEvents
  <2>1. f \in JournalFrames /\ g \in JournalFrames /\ f.device = g.device /\ f.events = g.events
    BY <1>1, <2>0
  <2>2. ASSUME NEW k \in DOMAIN f.events
        PROVE  RecordFn(f.device, s)[f.events[k]] = RecordFn(g.device, t)[g.events[k]]
    <3>1. PICK r \in Record : r = f.events[k] /\ r = g.events[k]
      BY <2>1, FrameParts
    <3>2. r.press \in Press => r.press \in JournalPresses(x)
      BY <3>1, JournalPressesAre
    <3>3. r.press \in Press => s[r.press] = t[r.press]
      BY <3>2
    <3>4. r.press = NoPress \/ r.press \in Press
      BY RecordParts
    <3>5. RecordOps(f.device, r, s) = RecordOps(g.device, r, t)
      BY <2>1, <3>3, <3>4 DEF RecordOps
    <3> QED
      BY <3>1, <3>5, Zenon DEF RecordFn
  <2>4. Alike(f.events, RecordFn(f.device, s), g.events, RecordFn(g.device, t))
    BY <2>1, <2>2, Zenon DEF Alike
  <2>3. Mapped(f.events, RecordFn(f.device, s)) = Mapped(g.events, RecordFn(g.device, t))
    BY <2>4, MappedSame, SMT
  <2> QED
    BY <2>1, <2>3, Zenon DEF FrameFn
<1>3. Alike(x.journal, FrameFn(s), y.journal, FrameFn(t))
  BY <1>1, <1>2, Zenon DEF Alike
<1> QED
  BY <1>3, MappedSame, SMT DEF Ops

LEMMA FrontIs ==
    ASSUME NEW A, NEW s \in Seq(A), s # <<>>
    PROVE  /\ Front(s) \in Seq(A) /\ Len(Front(s)) = Len(s) - 1 /\ Len(s) \in Nat \ {0}
           /\ \A i \in 1 .. Len(s) - 1 : Front(s)[i] = s[i]
           /\ Last(s) \in A /\ Last(s) = s[Len(s)]
<1>1. Len(s) \in Nat \ {0} /\ Len(s) - 1 \in Nat
  OBVIOUS
<1>2. Front(s) = SubSeq(s, 1, Len(s) - 1) /\ Last(s) = s[Len(s)]
  BY DEF Front, Last
<1>3. s[Len(s)] \in A
  BY <1>1
<1>n. PICK n \in Nat : n = Len(s) - 1
  BY <1>1, Zenon
<1>m. n <= Len(s)
  BY <1>1, <1>n
<1>4. SubSeq(s, 1, n) \in Seq(A)
  BY <1>m
<1>6. Len(SubSeq(s, 1, n)) = n
  BY <1>m
<1>5. \A i \in 1 .. n : SubSeq(s, 1, n)[i] = s[i]
  BY <1>m
<1> QED
  BY <1>1, <1>2, <1>3, <1>4, <1>5, <1>6, <1>n, Zenon

Appends(s, u, a) == s = Append(u, a)

(* Lists that differ in nothing but their last element.                    *)
LEMMA FrontSame ==
    ASSUME NEW A, NEW s \in Seq(A), s # <<>>, NEW u \in Seq(A), Len(u) = Len(s) - 1,
           \A i \in 1 .. Len(s) - 1 : u[i] = s[i]
    PROVE  Appends(s, u, Last(s))
<1>1. Last(s) \in A /\ Last(s) = s[Len(s)] /\ Len(s) \in Nat \ {0}
  BY FrontIs
<1>2. Append(u, Last(s)) \in Seq(A)
  BY <1>1
<1>3. PICK t \in Seq(A) : t = Append(u, Last(s))
  BY <1>2, Zenon
<1>4. Len(t) = Len(s) /\ t[Len(s)] = Last(s) /\ \A i \in 1 .. Len(s) - 1 : t[i] = u[i]
  BY <1>1, <1>3
<1>5. ASSUME NEW i \in 1 .. Len(s) PROVE s[i] = t[i]
  <2>1. i = Len(s) \/ i \in 1 .. Len(s) - 1
    BY <1>1
  <2> QED
    BY <1>1, <1>4, <2>1
<1>6. s = t
  BY <1>4, <1>5, SeqEqual
<1> QED
  BY <1>3, <1>6, Zenon DEF Appends

LEMMA FrontAppend ==
    ASSUME NEW A, NEW s \in Seq(A), s # <<>>
    PROVE  Appends(s, Front(s), Last(s))
<1>1. /\ Front(s) \in Seq(A) /\ Len(Front(s)) = Len(s) - 1
      /\ \A i \in 1 .. Len(s) - 1 : Front(s)[i] = s[i]
  BY FrontIs
<1>2. PICK u \in Seq(A) : u = Front(s)
  BY <1>1, Zenon
<1>3. Len(u) = Len(s) - 1 /\ \A i \in 1 .. Len(s) - 1 : u[i] = s[i]
  BY <1>1, <1>2, Zenon
<1>4. Appends(s, u, Last(s))
  BY <1>3, FrontSame
<1> QED
  BY <1>2, <1>4, Zenon

LEMMA OutputFrameOps ==
    ASSUME NEW o \in Output, NEW fate
    PROVE  OutputFrame(o) \in JournalFrames /\ FrameFn(fate)[OutputFrame(o)] = <<o>>
<1> DEFINE r == RecordOutput(o, NoDevice)
           f == OutputFrame(o)
<1>1. r \in Record /\ r.type = "output" /\ r.output = o
  BY DEF RecordOutput, Record
<1>2. f.device = NoDevice /\ f.events = <<r>>
  BY DEF OutputFrame, JournalFrame
<1>3. f \in JournalFrames
  BY <1>1 DEF OutputFrame, JournalFrame, JournalFrames
<1> HIDE DEF r, f
<1>4. RecordFn(NoDevice, fate) \in [Record -> Seq(Operation)]
  BY RecordFnType
<1>5. RecordFn(NoDevice, fate)[r] = <<o>>
  BY <1>1 DEF RecordFn, RecordOps
<1>6. Mapped(<<r>>, RecordFn(NoDevice, fate)) = <<o>>
  BY <1>1, <1>4, <1>5, MappedOne, Zenon
<1>7. FrameFn(fate)[f] = <<o>>
  BY <1>2, <1>3, <1>6, Zenon DEF FrameFn
<1> QED
  BY <1>3, <1>7, Zenon DEF f

LEMMA QueueOps ==
    ASSUME NEW x \in Engines, NEW outputs \in Seq(Output), NEW fate
    PROVE  Ops(QueueOutputs(x, outputs), fate) = Ops(x, fate) \o outputs
<1> DEFINE q == [k \in DOMAIN outputs |-> OutputFrame(outputs[k])]
           one == [o \in Output |-> <<o>>]
           y == QueueOutputs(x, outputs)
<1>1. q \in Seq(JournalFrames) /\ DOMAIN q = DOMAIN outputs
  <2>1. \A k \in DOMAIN outputs : q[k] \in JournalFrames
    BY OutputFrameOps
  <2>2. q = [k \in DOMAIN outputs |-> q[k]]
    BY Zenon
  <2> HIDE DEF q
  <2> QED
    BY <2>1, <2>2, MapType
<1>2. x.journal \in Seq(JournalFrames)
  BY DEF Engines
<1>3. y.journal = x.journal \o q
  BY DEF QueueOutputs, Engines
<1>4. Alike(q, FrameFn(fate), outputs, one)
  <2>1. ASSUME NEW k \in DOMAIN q PROVE FrameFn(fate)[q[k]] = one[outputs[k]]
    <3>1. outputs[k] \in Output
      BY <1>1
    <3>2. FrameFn(fate)[OutputFrame(outputs[k])] = <<outputs[k]>>
      BY <3>1, OutputFrameOps, Zenon
    <3> QED
      BY <1>1, <3>1, <3>2, Zenon
  <2> QED
    BY <1>1, <2>1, Zenon DEF Alike
<1>5. Mapped(q, FrameFn(fate)) = Mapped(outputs, one)
  BY <1>4, MappedSame, SMT
<1>6. one \in [Output -> Seq(Output)] /\ \A o \in Output : one[o] = <<o>>
  OBVIOUS
<1> HIDE DEF one, q, y
<1>7. Mapped(outputs, one) = outputs
  BY <1>6, MappedSingles, Zenon
<1>8. Distributes(x.journal, q, FrameFn(fate))
  BY <1>1, <1>2, FrameFnType, MappedConcat, Zenon
<1>9. Ops(y, fate) = Ops(x, fate) \o outputs
  BY <1>3, <1>5, <1>7, <1>8, Zenon DEF Ops, Distributes
<1> QED
  BY <1>9 DEF y

LEMMA AppendedOps ==
    ASSUME NEW s \in Seq(JournalFrames), NEW f \in JournalFrames, NEW fate
    PROVE  Mapped(Append(s, f), FrameFn(fate)) =
             Mapped(s, FrameFn(fate)) \o Mapped(f.events, RecordFn(f.device, fate))
<1>1. Mapped(Append(s, f), FrameFn(fate)) = Mapped(s, FrameFn(fate)) \o FrameFn(fate)[f]
  <2>1. PICK R \in [JournalFrames -> Seq(Operation)] : R = FrameFn(fate)
    BY FrameFnType, Zenon
  <2>2. \A r \in Seq(JournalFrames) : \A a \in JournalFrames :
           Mapped(Append(r, a), R) = Mapped(r, R) \o R[a]
    BY MappedAppend, Zenon
  <2>3. Mapped(Append(s, f), R) = Mapped(s, R) \o R[f]
    BY <2>2, Zenon
  <2> QED
    BY <2>1, <2>3, Zenon
<1>2. FrameFn(fate)[f] = Mapped(f.events, RecordFn(f.device, fate))
  BY Zenon DEF FrameFn
<1> QED
  BY <1>1, <1>2, Zenon

LEMMA RecordedOps ==
    ASSUME NEW x \in Engines, x.journal # <<>>, NEW records \in Seq(Record), NEW fate
    PROVE  LET d == Last(x.journal).device IN
           Ops(Recorded(x, records), fate) = Ops(x, fate) \o Mapped(records, RecordFn(d, fate))
<1> DEFINE y == Recorded(x, records)
           n == Len(x.journal)
           f == x.journal[n]
           g == y.journal[n]
           R == RecordFn(f.device, fate)
<1>1. /\ y \in Engines /\ Len(y.journal) = n /\ n \in DOMAIN x.journal
      /\ \A i \in DOMAIN x.journal :
            /\ y.journal[i].device = x.journal[i].device
            /\ i # n => y.journal[i] = x.journal[i]
      /\ g.events = f.events \o records
  BY RecordedFields
<1>2. x.journal \in Seq(JournalFrames) /\ y.journal \in Seq(JournalFrames)
  BY <1>1 DEF Engines
<1> HIDE DEF y
<1>h. y.journal # <<>>
  BY <1>1, <1>2
<1>a. y.journal # <<>> /\ Last(x.journal) = f /\ Last(y.journal) = g
  BY <1>1, <1>h, Zenon DEF Last
<1>4. f \in JournalFrames /\ g \in JournalFrames /\ g.device = f.device
  BY <1>1, <1>2
<1>b. /\ Front(x.journal) \in Seq(JournalFrames) /\ Len(Front(x.journal)) = n - 1
      /\ \A i \in 1 .. n - 1 : Front(x.journal)[i] = x.journal[i]
  BY <1>2, FrontIs
<1>3. PICK s \in Seq(JournalFrames) : s = Front(x.journal)
  BY <1>b, Zenon
<1>c. Len(s) = n - 1 /\ \A i \in 1 .. n - 1 : s[i] = x.journal[i]
  BY <1>b, <1>3, Zenon
<1>d. Appends(x.journal, s, f)
  BY <1>2, <1>3, <1>a, FrontAppend, Zenon
<1>e. \A i \in 1 .. n - 1 : i \in DOMAIN x.journal /\ i # n
  BY <1>2
<1>f. \A i \in 1 .. n - 1 : s[i] = y.journal[i]
  BY <1>1, <1>c, <1>e, Zenon
<1>g. Appends(y.journal, s, Last(y.journal))
  BY <1>1, <1>2, <1>a, <1>c, <1>f, FrontSame
<1>5. x.journal = Append(s, f) /\ y.journal = Append(s, g)
  BY <1>a, <1>d, <1>g, Zenon DEF Appends
<1>6. f.events \in Seq(Record) /\ f.device \in Device \cup {NoDevice}
  BY <1>4, FrameParts
<1>7. R \in [Record -> Seq(Operation)]
  BY <1>6, RecordFnType
<1> HIDE DEF R
<1>8. Distributes(f.events, records, R)
  BY <1>6, <1>7, MappedConcat, Zenon
<1>9. Mapped(y.journal, FrameFn(fate)) = Mapped(s, FrameFn(fate)) \o Mapped(g.events, R)
  BY <1>4, <1>5, AppendedOps, Zenon DEF R
<1>10. Mapped(x.journal, FrameFn(fate)) = Mapped(s, FrameFn(fate)) \o Mapped(f.events, R)
  BY <1>4, <1>5, AppendedOps, Zenon DEF R
<1>11. Associates(Mapped(s, FrameFn(fate)), Mapped(f.events, R), Mapped(records, R))
  <2>1. Mapped(s, FrameFn(fate)) \in Seq(Operation)
    BY FrameFnType, MappedType, Zenon
  <2>2. Mapped(f.events, R) \in Seq(Operation)
    BY <1>6, <1>7, MappedType, Zenon
  <2>3. Mapped(records, R) \in Seq(Operation)
    BY <1>7, MappedType, Zenon
  <2> QED
    BY <2>1, <2>2, <2>3, ConcatAssociates, Zenon
<1>12. Ops(y, fate) = Ops(x, fate) \o Mapped(records, R)
  BY <1>1, <1>8, <1>9, <1>10, <1>11, Zenon DEF Ops, Associates, Distributes
<1> QED
  BY <1>12, <1>a, Zenon DEF y, R

LEMMA AppendFrameOps ==
    ASSUME NEW x \in Engines, NEW f \in JournalFrames, f.events = <<>>, NEW fate
    PROVE  Ops([x EXCEPT !.journal = Append(x.journal, f)], fate) = Ops(x, fate)
<1>1. x.journal \in Seq(JournalFrames)
  BY DEF Engines
<1>2. Mapped(Append(x.journal, f), FrameFn(fate)) =
        Mapped(x.journal, FrameFn(fate)) \o Mapped(f.events, RecordFn(f.device, fate))
  BY <1>1, AppendedOps, Zenon
<1>3. Mapped(f.events, RecordFn(f.device, fate)) = <<>>
  BY MappedEmpty, Zenon
<1>4. PICK s \in Seq(Operation) : s = Mapped(x.journal, FrameFn(fate))
  BY <1>1, FrameFnType, MappedType, Zenon
<1>5. s \o <<>> = s
  OBVIOUS
<1>6. [x EXCEPT !.journal = Append(x.journal, f)].journal = Append(x.journal, f)
  BY DEF Engines
<1> QED
  BY <1>2, <1>3, <1>4, <1>5, <1>6, Zenon DEF Ops

(* A last frame that says nothing.                                         *)
LEMMA FrontOps ==
    ASSUME NEW x \in Engines, x.journal # <<>>, NEW fate,
           \A k \in DOMAIN Last(x.journal).events :
              Last(x.journal).events[k].type \in {"msc", "led"}
    PROVE  Ops([x EXCEPT !.journal = Front(x.journal)], fate) = Ops(x, fate)
<1> DEFINE f == Last(x.journal)
           R == RecordFn(f.device, fate)
           none == [r \in Record |-> <<>>]
<1>1. x.journal \in Seq(JournalFrames)
  BY DEF Engines
<1>2. Front(x.journal) \in Seq(JournalFrames) /\ f \in JournalFrames
  BY <1>1, FrontIs
<1>a. x.journal = Append(Front(x.journal), f)
  BY <1>1, FrontAppend, Zenon DEF Appends
<1>3. f.events \in Seq(Record) /\ f.device \in Device \cup {NoDevice}
  BY <1>2, FrameParts
<1>4. Mapped(x.journal, FrameFn(fate)) = Mapped(Front(x.journal), FrameFn(fate)) \o Mapped(f.events, R)
  BY <1>2, <1>a, AppendedOps, Zenon
<1>5. Mapped(f.events, R) = <<>>
  <2>1. ASSUME NEW k \in DOMAIN f.events PROVE R[f.events[k]] = <<>>
    <3>1. f.events[k] \in Record /\ f.events[k].type \in {"msc", "led"}
      BY <1>3
    <3> QED
      BY <3>1 DEF RecordFn, RecordOps
  <2> DEFINE E == {r \in Record : R[r] = <<>>}
  <2>2. f.events \in Seq(E)
    BY <1>3, <2>1
  <2>3. \A s \in Seq(E) : Mapped(s, R) = <<>>
    <3> DEFINE T == {s \in Seq(E) : Mapped(s, R) = <<>>}
    <3>1. <<>> \in T
      BY MappedEmpty
    <3>2. ASSUME NEW s \in T, NEW r \in E PROVE Append(s, r) \in T
      <4>1. s \in Seq(Record) /\ r \in Record /\ Mapped(s, R) = <<>> /\ R[r] = <<>>
        OBVIOUS
      <4>2. R \in [Record -> Seq(Operation)]
        BY <1>3, RecordFnType
      <4>3. Mapped(Append(s, r), R) = Mapped(s, R) \o R[r]
        BY <4>1, <4>2, MappedAppend, Zenon
      <4>4. Mapped(Append(s, r), R) = <<>> \o <<>>
        BY <4>1, <4>3, Zenon
      <4>5. Append(s, r) \in Seq(E) /\ <<>> \o <<>> = <<>>
        OBVIOUS
      <4> QED
        BY <4>4, <4>5, Zenon
    <3> HIDE DEF T
    <3>3. T \in SUBSET Seq(E)
      BY DEF T
    <3>4. T = Seq(E)
      BY <3>1, <3>2, <3>3, SeqInduction
    <3> QED
      BY <3>4, Zenon DEF T
  <2> QED
    BY <2>2, <2>3, Zenon
<1>6. PICK s \in Seq(Operation) : s = Mapped(Front(x.journal), FrameFn(fate))
  BY <1>2, FrameFnType, MappedType, Zenon
<1>7. s \o <<>> = s
  OBVIOUS
<1>8. [x EXCEPT !.journal = Front(x.journal)].journal = Front(x.journal)
  BY DEF Engines
<1> QED
  BY <1>4, <1>5, <1>6, <1>7, <1>8, Zenon DEF Ops

-----------------------------------------------------------------------------
(* The fates of the presses, and what drain writes                         *)

(* fate contradicts no disposition that is taken.                          *)
Agrees(x, fate) == \A p \in Press : x.route[p] # "undecided" => fate[p] = x.route[p]

(* The dispositions of x, with those of fate for the undecided presses.    *)
Completed(x, fate) ==
    [p \in Press |-> IF x.route[p] = "undecided" THEN fate[p] ELSE x.route[p]]

LEMMA CompletedAgrees ==
    ASSUME NEW x \in Engines, NEW fate \in Fates
    PROVE  Completed(x, fate) \in Fates /\ Agrees(x, Completed(x, fate))
<1>1. \A p \in Press : x.route[p] \in {"undecided", "forwarded", "consumed"}
  BY DEF Engines, Route
<1> QED
  BY <1>1 DEF Completed, Fates, Agrees

LEMMA CompletedSame ==
    ASSUME NEW x, NEW y, NEW fate, Agrees(y, fate), NEW p \in Press,
           x.route[p] # "undecided" => y.route[p] = x.route[p]
    PROVE  Completed(x, fate)[p] = fate[p]
  BY DEF Completed, Agrees

(* A repeat is the only output that may be left out.                       *)
Routine(r) ==
    r.type = "output" /\ r.repeat # NoDevice => r.output.kind = "key" /\ r.output.value = 2

(* Frames and journals of routine records only.                            *)
RoutineFrame(f) == \A k \in DOMAIN f.events : Routine(f.events[k])

RoutineJournal(x) == \A i \in DOMAIN x.journal : RoutineFrame(x.journal[i])

(* A frame without a device holds only outputs.                            *)
OfDevice(f) == f.device = NoDevice => OnlyOutputs(f)

(* What drain writes for a record is what the record stands for, but for   *)
(* the repeats of ended remaps, which it drops, and for scan codes, which  *)
(* it adds.                                                                *)
LEMMA EmitRecord ==
    ASSUME NEW x \in Engines, NEW f \in JournalFrames, OfDevice(f), ~Pending(x, f),
           NEW fate, Agrees(x, fate), NEW k \in DOMAIN f.events
    PROVE  LET r == f.events[k] IN
           \/ Emit(x, f, r) = RecordOps(f.device, r, fate)
           \/ /\ Emit(x, f, r) = <<>> /\ RecordOps(f.device, r, fate) = <<r.output>>
              /\ r.type = "output" /\ r.repeat # NoDevice
           \/ /\ RecordOps(f.device, r, fate) = <<>> /\ f.device \in Device
              /\ \E t \in {"msc", "led"} : Emit(x, f, r) = <<EventOutput(f.device, t)>>
<1> DEFINE r == f.events[k]
<1>1. r \in Record /\ f.device \in Device \cup {NoDevice}
  BY FrameParts
<1>2. /\ r.type \in {"output", "key", "msc", "led"} /\ r.press \in Press \cup {NoPress}
  BY <1>1, RecordParts
<1>3. r.type # "output" => f.device \in Device
  BY <1>1 DEF OfDevice, OnlyOutputs
<1>4. r.press # NoPress => r.press \in Press /\ x.route[r.press] # "undecided"
  BY <1>2 DEF Pending
<1>5. r.press # NoPress => /\ fate[r.press] = x.route[r.press]
                           /\ x.route[r.press] \in {"forwarded", "consumed"}
  BY <1>4 DEF Agrees, Engines, Route
<1> HIDE DEF r
<1>6. CASE r.type = "output"
  <2>1. Emit(x, f, r) = IF r.repeat = NoDevice \/ Live(x, r.repeat) THEN <<r.output>> ELSE <<>>
    BY <1>6 DEF Emit
  <2>2. RecordOps(f.device, r, fate) = <<r.output>>
    BY <1>6 DEF RecordOps
  <2>3. CASE r.repeat = NoDevice \/ Live(x, r.repeat)
    <3>1. Emit(x, f, r) = <<r.output>>
      BY <2>1, <2>3
    <3> QED
      BY <2>2, <3>1, Zenon DEF r
  <2>4. CASE ~(r.repeat = NoDevice \/ Live(x, r.repeat))
    <3>1. Emit(x, f, r) = <<>>
      BY <2>1, <2>4
    <3> QED
      BY <1>6, <2>2, <2>4, <3>1, Zenon DEF r
  <2> QED
    BY <2>3, <2>4, Zenon
<1>7. CASE r.type = "key"
  <2>1. Emit(x, f, r) = IF r.press # NoPress /\ x.route[r.press] = "consumed" THEN <<>>
                         ELSE <<KeyOutput(f.device, r.event.code, r.event.value)>>
    BY <1>7 DEF Emit
  <2>2. RecordOps(f.device, r, fate) =
          IF r.press = NoPress \/ fate[r.press] = "forwarded"
            THEN <<KeyOutput(f.device, r.event.code, r.event.value)>> ELSE <<>>
    BY <1>7 DEF RecordOps
  <2>3. (r.press # NoPress /\ x.route[r.press] = "consumed")
           <=> ~(r.press = NoPress \/ fate[r.press] = "forwarded")
    BY <1>5
  <2>4. Emit(x, f, r) = RecordOps(f.device, r, fate)
    <3>1. CASE r.press # NoPress /\ x.route[r.press] = "consumed"
      <4>1. Emit(x, f, r) = <<>> /\ RecordOps(f.device, r, fate) = <<>>
        BY <2>1, <2>2, <2>3, <3>1
      <4> QED
        BY <4>1, Zenon
    <3>2. CASE ~(r.press # NoPress /\ x.route[r.press] = "consumed")
      <4> DEFINE u == <<KeyOutput(f.device, r.event.code, r.event.value)>>
      <4>1. Emit(x, f, r) = u
        BY <2>1, <3>2
      <4>2. RecordOps(f.device, r, fate) = u
        BY <2>2, <2>3, <3>2
      <4> QED
        BY <4>1, <4>2, Zenon
    <3> QED
      BY <3>1, <3>2, Zenon
  <2> QED
    BY <2>4, Zenon DEF r
<1>8. CASE r.type \in {"msc", "led"}
  <2>1. RecordOps(f.device, r, fate) = <<>>
    BY <1>8 DEF RecordOps
  <2>2. Emit(x, f, r) = <<>> \/ \E t \in {"msc", "led"} : Emit(x, f, r) = <<EventOutput(f.device, t)>>
    BY <1>8 DEF Emit
  <2> QED
    BY <1>3, <1>8, <2>1, <2>2 DEF r
<1>9. QED
  BY <1>2, <1>6, <1>7, <1>8 DEF r

(* What drain writes of a frame, against what the frame has to say.        *)
EmitFn(x, f) == [r \in ToSet(f.events) |-> Emit(x, f, r)]

(* What the records of f stand for under fate.                             *)
SaysFn(f, fate) == [r \in ToSet(f.events) |-> RecordOps(f.device, r, fate)]

LEMMA FrameLists ==
    ASSUME NEW x \in Engines, NEW f \in JournalFrames, OfDevice(f), NEW fate
    PROVE  /\ f.events \in Seq(ToSet(f.events))
           /\ EmitFn(x, f) \in [ToSet(f.events) -> Seq(Operation)]
           /\ SaysFn(f, fate) \in [ToSet(f.events) -> Seq(Operation)]
           /\ EmitFrame(x, f) = Mapped(f.events, EmitFn(x, f))
           /\ FrameFn(fate)[f] = Mapped(f.events, SaysFn(f, fate))
<1>1. f.events \in Seq(Record) /\ f.device \in Device \cup {NoDevice}
  BY FrameParts
<1>2. /\ ToSet(f.events) \subseteq Record
      /\ \A k \in DOMAIN f.events : f.events[k] \in ToSet(f.events)
      /\ \A r \in ToSet(f.events) : \E k \in DOMAIN f.events : r = f.events[k]
  BY <1>1 DEF ToSet
<1>3. f.events \in Seq(ToSet(f.events))
  BY <1>1, <1>2
<1>4. ASSUME NEW r \in ToSet(f.events) PROVE Emit(x, f, r) \in Seq(Operation)
  <2>1. PICK k \in DOMAIN f.events : r = f.events[k]
    BY <1>2
  <2>2. f.events[k].type = "output" => f.events[k].output \in Output
    BY <1>2, RecordParts
  <2>3. Emit(x, f, f.events[k]) \in Seq(Output)
    BY <2>2, EmitType, OutputPassesInput, Zenon DEF OfDevice
  <2>4. Output \subseteq Operation
    BY DEF Operation
  <2>5. PICK s \in Seq(Output) : s = Emit(x, f, f.events[k])
    BY <2>3, Zenon
  <2>6. s \in Seq(Operation)
    BY <2>4
  <2> QED
    BY <2>1, <2>5, <2>6
<1>5. ASSUME NEW r \in ToSet(f.events) PROVE RecordOps(f.device, r, fate) \in Seq(Operation)
  <2>1. RecordFn(f.device, fate) \in [Record -> Seq(Operation)]
    BY <1>1, RecordFnType, Zenon
  <2>2. r \in Record
    BY <1>2
  <2>3. RecordFn(f.device, fate)[r] \in Seq(Operation)
    BY <2>1, <2>2, Zenon
  <2> QED
    BY <2>2, <2>3 DEF RecordFn
<1>6. EmitFrame(x, f) = Mapped(f.events, EmitFn(x, f))
  <2>1. [k \in DOMAIN f.events |-> Emit(x, f, f.events[k])] = Parts(f.events, EmitFn(x, f))
    BY <1>2, Zenon DEF Parts, EmitFn
  <2> QED
    BY <2>1, Zenon DEF Mapped, EmitFrame
<1>7. FrameFn(fate)[f] = Mapped(f.events, SaysFn(f, fate))
  <2>1. ASSUME NEW k \in DOMAIN f.events
        PROVE  RecordFn(f.device, fate)[f.events[k]] = SaysFn(f, fate)[f.events[k]]
    <3>1. f.events[k] \in ToSet(f.events) /\ f.events[k] \in Record
      BY <1>2
    <3> QED
      BY <3>1, Zenon DEF RecordFn, SaysFn
  <2>2. Alike(f.events, RecordFn(f.device, fate), f.events, SaysFn(f, fate))
    BY <2>1, Zenon DEF Alike
  <2>3. Mapped(f.events, RecordFn(f.device, fate)) = Mapped(f.events, SaysFn(f, fate))
    BY <2>2, MappedSame, SMT
  <2> QED
    BY <2>3, Zenon DEF FrameFn
<1> QED
  BY <1>3, <1>4, <1>5, <1>6, <1>7 DEF EmitFn, SaysFn

(* Neither scan codes nor repeats matter to the flag.                      *)
Blind(P, Q, f) ==
    /\ \A d \in Device, t \in {"msc", "led"} : EventOutput(d, t) \notin P /\ EventOutput(d, t) \notin Q
    /\ \A k \in DOMAIN f.events : f.events[k].type = "output" /\ f.events[k].repeat # NoDevice
          => f.events[k].output \notin Q

LEMMA EmitSays ==
    ASSUME NEW x \in Engines, NEW f \in JournalFrames, OfDevice(f), ~Pending(x, f),
           NEW fate, Agrees(x, fate), NEW P, NEW Q, Blind(P, Q, f)
    PROVE  \A b \in BOOLEAN : After(b, EmitFrame(x, f), P, Q) => After(b, FrameFn(fate)[f], P, Q)
<1> DEFINE A == ToSet(f.events)
           F == EmitFn(x, f)
           G == SaysFn(f, fate)
<1>1. ASSUME NEW a \in A, NEW b \in BOOLEAN, After(b, F[a], P, Q)
      PROVE  After(b, G[a], P, Q)
  <2>1. PICK k \in DOMAIN f.events : a = f.events[k]
    BY DEF ToSet
  <2>2. F[a] = Emit(x, f, a) /\ G[a] = RecordOps(f.device, a, fate)
    BY Zenon DEF EmitFn, SaysFn
  <2>3. CASE F[a] = G[a]
    BY <1>1, <2>3, Zenon
  <2>4. CASE F[a] = <<>> /\ G[a] = <<a.output>> /\ a.type = "output" /\ a.repeat # NoDevice
    <3>1. a.output \notin Q
      BY <2>1, <2>4, Zenon DEF Blind
    <3>2. b
      BY <1>1, <2>4, AfterEmpty, Zenon
    <3>3. After(b, <<a.output>>, P, Q) <=> a.output \in P \/ (b /\ a.output \notin Q)
      BY AfterOne
    <3> QED
      BY <2>4, <3>1, <3>2, <3>3, Zenon
  <2>5. CASE /\ G[a] = <<>> /\ f.device \in Device
             /\ \E t \in {"msc", "led"} : F[a] = <<EventOutput(f.device, t)>>
    <3>1. PICK t \in {"msc", "led"} : F[a] = <<EventOutput(f.device, t)>>
      BY <2>5
    <3>2. EventOutput(f.device, t) \notin P /\ EventOutput(f.device, t) \notin Q
      BY <2>5, Zenon DEF Blind
    <3>4. After(b, <<EventOutput(f.device, t)>>, P, Q)
            <=> EventOutput(f.device, t) \in P \/ (b /\ EventOutput(f.device, t) \notin Q)
      BY AfterOne
    <3>3. b
      BY <1>1, <3>1, <3>2, <3>4, Zenon
    <3> QED
      BY <2>5, <3>3, AfterEmpty, Zenon
  <2> QED
    BY <2>1, <2>2, <2>3, <2>4, <2>5, EmitRecord, Zenon
<1>2. f.events \in Seq(A) /\ F \in [A -> Seq(Operation)] /\ G \in [A -> Seq(Operation)]
      /\ EmitFrame(x, f) = Mapped(f.events, F) /\ FrameFn(fate)[f] = Mapped(f.events, G)
  BY FrameLists, Zenon
<1> HIDE DEF A, F, G
<1>4. Weaker(A, F, G, P, Q)
  BY <1>1, Zenon DEF Weaker
<1>3. Weakens(f.events, F, G, P, Q)
  BY <1>2, <1>4, AfterMapped, Zenon
<1> QED
  BY <1>2, <1>3, Zenon DEF Weakens

LEMMA SaysEmit ==
    ASSUME NEW x \in Engines, NEW f \in JournalFrames, OfDevice(f), ~Pending(x, f),
           NEW fate, Agrees(x, fate), NEW P, NEW Q, Blind(P, Q, f), Blind(Q, P, f)
    PROVE  \A b \in BOOLEAN : After(b, FrameFn(fate)[f], P, Q) => After(b, EmitFrame(x, f), P, Q)
<1> DEFINE A == ToSet(f.events)
           F == EmitFn(x, f)
           G == SaysFn(f, fate)
<1>1. ASSUME NEW a \in A, NEW b \in BOOLEAN, After(b, G[a], P, Q)
      PROVE  After(b, F[a], P, Q)
  <2>1. PICK k \in DOMAIN f.events : a = f.events[k]
    BY DEF ToSet
  <2>2. F[a] = Emit(x, f, a) /\ G[a] = RecordOps(f.device, a, fate)
    BY Zenon DEF EmitFn, SaysFn
  <2>3. CASE F[a] = G[a]
    BY <1>1, <2>3, Zenon
  <2>4. CASE F[a] = <<>> /\ G[a] = <<a.output>> /\ a.type = "output" /\ a.repeat # NoDevice
    <3>1. a.output \notin P
      BY <2>1, <2>4, Zenon DEF Blind
    <3>3. After(b, <<a.output>>, P, Q) <=> a.output \in P \/ (b /\ a.output \notin Q)
      BY AfterOne
    <3>2. b
      BY <1>1, <2>4, <3>1, <3>3, Zenon
    <3> QED
      BY <2>4, <3>2, AfterEmpty, Zenon
  <2>5. CASE /\ G[a] = <<>> /\ f.device \in Device
             /\ \E t \in {"msc", "led"} : F[a] = <<EventOutput(f.device, t)>>
    <3>1. PICK t \in {"msc", "led"} : F[a] = <<EventOutput(f.device, t)>>
      BY <2>5
    <3>2. EventOutput(f.device, t) \notin P /\ EventOutput(f.device, t) \notin Q
      BY <2>5, Zenon DEF Blind
    <3>3. b
      BY <1>1, <2>5, AfterEmpty, Zenon
    <3>4. After(b, <<EventOutput(f.device, t)>>, P, Q)
            <=> EventOutput(f.device, t) \in P \/ (b /\ EventOutput(f.device, t) \notin Q)
      BY AfterOne
    <3> QED
      BY <3>1, <3>2, <3>3, <3>4, Zenon
  <2> QED
    BY <2>1, <2>2, <2>3, <2>4, <2>5, EmitRecord, Zenon
<1>2. f.events \in Seq(A) /\ F \in [A -> Seq(Operation)] /\ G \in [A -> Seq(Operation)]
      /\ EmitFrame(x, f) = Mapped(f.events, F) /\ FrameFn(fate)[f] = Mapped(f.events, G)
  BY FrameLists, Zenon
<1> HIDE DEF A, F, G
<1>4. Weaker(A, G, F, P, Q)
  BY <1>1, Zenon DEF Weaker
<1>3. Weakens(f.events, G, F, P, Q)
  BY <1>2, <1>4, AfterMapped, Zenon
<1> QED
  BY <1>2, <1>3, Zenon DEF Weakens

(* Frames that drain may write.                                            *)
Leavable(x) == {f \in JournalFrames : OfDevice(f) /\ ~Pending(x, f) /\ RoutineFrame(f)}

(* What drain writes for each of them.                                     *)
EmitsFn(x) == [f \in Leavable(x) |-> EmitFrame(x, f)]

(* drain removes the frames pre and writes what they say.                  *)
DrainsTo(x, pre) ==
    /\ x.journal = pre \o Drain(x).journal
    /\ Drained(x) = Mapped(pre, EmitsFn(x))

(* drain removes a prefix of the journal, all of frames that may be        *)
(* written.                                                                *)
LEMMA DrainParts ==
    ASSUME NEW x \in Engines, DeviceOrOutputs(x), RoutineJournal(x)
    PROVE  \E pre \in Seq(Leavable(x)) : DrainsTo(x, pre)
<1> DEFINE n == DrainCount(x)
           S == {m \in 0 .. Len(x.journal) : \A i \in 1 .. m : ~Pending(x, x.journal[i])}
           y == Drain(x)
<1>1. x.journal \in Seq(JournalFrames) /\ n \in 0 .. Len(x.journal) /\ Len(x.journal) \in Nat
  BY DrainCountIs DEF Engines
<1>2. \A i \in 1 .. n : ~Pending(x, x.journal[i])
  <2>1. 0 \in S
    BY <1>1
  <2>2. S \in SUBSET (0 .. Len(x.journal)) /\ S # {}
    BY <2>1
  <2>3. n = Max(S)
    BY DEF DrainCount
  <2> HIDE DEF S, n
  <2>4. n \in S
    BY <1>1, <2>2, <2>3, MaxIn
  <2> QED
    BY <2>4 DEF S
<1>3. /\ y \in Engines /\ Len(y.journal) = Len(x.journal) - n
      /\ \A i \in DOMAIN y.journal : y.journal[i] = x.journal[n + i]
  BY DrainFields
<1>4. y.journal \in Seq(JournalFrames)
  BY <1>3 DEF Engines
<1> HIDE DEF y, n, S
<1>j. PICK j \in Seq(JournalFrames) : j = y.journal
  BY <1>4, Zenon
<1>k. Len(j) = Len(x.journal) - n /\ DOMAIN j = 1 .. Len(j) /\ Len(j) \in Nat
  BY <1>3, <1>j
<1> DEFINE f == [i \in 1 .. n |-> x.journal[i]]
<1>5. \A i \in 1 .. n : x.journal[i] \in Leavable(x)
  <2> TAKE i \in 1 .. n
  <2>1. i \in DOMAIN x.journal /\ x.journal[i] \in JournalFrames
    BY <1>1
  <2>2. OfDevice(x.journal[i]) /\ RoutineFrame(x.journal[i])
    BY <2>1, Zenon DEF OfDevice, DeviceOrOutputs, RoutineJournal
  <2> QED
    BY <1>2, <2>1, <2>2 DEF Leavable
<1>6. f \in Seq(Leavable(x))
  BY <1>1, <1>5
<1>7. PICK pre \in Seq(Leavable(x)) : pre = f
  BY <1>6, Zenon
<1>8. Len(pre) = n /\ \A i \in 1 .. n : pre[i] = x.journal[i]
  BY <1>1, <1>7
<1>9. pre \in Seq(JournalFrames)
  BY DEF Leavable
<1>10. x.journal = pre \o j
  <2>a. pre \o j \in Seq(JournalFrames) /\ Len(pre \o j) = Len(pre) + Len(j)
    BY <1>9, ConcatType
  <2>1. pre \o j \in Seq(JournalFrames) /\ Len(pre \o j) = Len(x.journal)
    BY <1>1, <1>k, <1>8, <2>a
  <2>2. PICK u \in Seq(JournalFrames) : u = pre \o j
    BY <2>1, Zenon
  <2>3. \A i \in 1 .. n : u[i] = pre[i]
    BY <1>1, <1>j, <1>8, <1>9, <2>2
  <2>4. \A i \in 1 .. Len(j) : u[n + i] = j[i]
    BY <1>1, <1>j, <1>8, <1>9, <2>2
  <2>5. ASSUME NEW i \in 1 .. Len(x.journal) PROVE x.journal[i] = u[i]
    <3>1. CASE i \in 1 .. n
      BY <1>8, <2>3, <3>1
    <3>2. CASE i \notin 1 .. n
      <4>1. i - n \in 1 .. Len(j) /\ n + (i - n) = i
        BY <1>1, <1>3, <1>k, <3>2
      <4>2. u[n + (i - n)] = j[i - n] /\ j[i - n] = x.journal[n + (i - n)]
        BY <1>3, <1>k, <1>j, <2>4, <4>1
      <4> QED
        BY <4>1, <4>2
    <3> QED
      BY <3>1, <3>2
  <2>6. x.journal = u
    BY <1>1, <2>1, <2>2, <2>5, SeqEqual
  <2> QED
    BY <2>2, <2>6
<1>11. Drained(x) = Mapped(pre, EmitsFn(x))
  <2>1. DOMAIN pre = 1 .. n
    BY <1>1, <1>8
  <2>2. \A i \in 1 .. n : EmitsFn(x)[pre[i]] = EmitFrame(x, x.journal[i])
    BY <1>5, <1>8, Zenon DEF EmitsFn
  <2>3. Parts(pre, EmitsFn(x)) = [i \in 1 .. n |-> EmitFrame(x, x.journal[i])]
    BY <2>1, <2>2, Zenon DEF Parts
  <2> QED
    BY <2>3, Zenon DEF Drained, Mapped, n
<1> QED
  BY <1>10, <1>11, <1>j, Zenon DEF DrainsTo, y

(* Draining is blind to nothing that a flag of an owner depends on.        *)
LEMMA BlindKeys ==
    ASSUME NEW f \in JournalFrames, RoutineFrame(f), NEW o, NEW c
    PROVE  Blind(Pressing(o, c), Releasing(o, c), f) /\ Blind(Releasing(o, c), Pressing(o, c), f)
<1>1. \A d \in Device, t \in {"msc", "led"} :
        EventOutput(d, t) \notin Pressing(o, c) /\ EventOutput(d, t) \notin Releasing(o, c)
  BY DEF EventOutput, Pressing, Releasing
<1>2. ASSUME NEW k \in DOMAIN f.events, f.events[k].type = "output", f.events[k].repeat # NoDevice
      PROVE  f.events[k].output \notin Pressing(o, c) /\ f.events[k].output \notin Releasing(o, c)
  <2>1. f.events[k].output.kind = "key" /\ f.events[k].output.value = 2
    BY <1>2 DEF RoutineFrame, Routine
  <2> QED
    BY <2>1 DEF Pressing, Releasing
<1> QED
  BY <1>1, <1>2, Zenon DEF Blind

LEMMA BlindNames ==
    ASSUME NEW f \in JournalFrames, RoutineFrame(f), NEW h \in HoldDevice
    PROVE  Blind(Entering(h), Leaving(h), f)
<1>1. \A d \in Device, t \in {"msc", "led"} :
        EventOutput(d, t) \notin Entering(h) /\ EventOutput(d, t) \notin Leaving(h)
  BY OwnerAssumption DEF EventOutput, Entering, Leaving
<1>2. ASSUME NEW k \in DOMAIN f.events, f.events[k].type = "output", f.events[k].repeat # NoDevice
      PROVE  f.events[k].output \notin Leaving(h)
  <2>1. f.events[k].output.kind = "key"
    BY <1>2 DEF RoutineFrame, Routine
  <2> QED
    BY <2>1 DEF Leaving
<1> QED
  BY <1>1, <1>2, Zenon DEF Blind

(* What drain wrote does to the keys what s does, and leaves an entry in   *)
(* the map only where s does.                                              *)
SaysLike(x, s) ==
    /\ \A o, c : \A b \in BOOLEAN :
          After(b, Drained(x), Pressing(o, c), Releasing(o, c))
            <=> After(b, s, Pressing(o, c), Releasing(o, c))
    /\ \A h \in HoldDevice : \A b \in BOOLEAN :
          After(b, Drained(x), Entering(h), Leaving(h)) => After(b, s, Entering(h), Leaving(h))

(* drain takes s off the operations that the journal stands for.           *)
LeadsWith(x, fate, s) == Ops(x, fate) = s \o Ops(Drain(x), fate)

(* Draining moves operations from the journal to the result.               *)
LEMMA DrainOps ==
    ASSUME NEW x \in Engines, DeviceOrOutputs(x), RoutineJournal(x), NEW fate, Agrees(x, fate)
    PROVE  \E s \in Seq(Operation) : LeadsWith(x, fate, s) /\ SaysLike(x, s)
<1> DEFINE A == Leavable(x)
           F == EmitsFn(x)
           G == [f \in A |-> FrameFn(fate)[f]]
<1>1. PICK pre \in Seq(A) : DrainsTo(x, pre)
  BY DrainParts, Zenon
<1>2. A \subseteq JournalFrames /\ pre \in Seq(JournalFrames) /\ Drain(x).journal \in Seq(JournalFrames)
  <2>1. Drain(x) \in Engines
    BY DrainFields
  <2> QED
    BY <2>1 DEF Leavable, Engines
<1>3. F \in [A -> Seq(Operation)] /\ G \in [A -> Seq(Operation)]
  <2>1. ASSUME NEW f \in A PROVE EmitFrame(x, f) \in Seq(Operation) /\ FrameFn(fate)[f] \in Seq(Operation)
    <3>1. f \in JournalFrames /\ OfDevice(f)
      BY DEF Leavable
    <3>2. /\ f.events \in Seq(ToSet(f.events))
          /\ EmitFn(x, f) \in [ToSet(f.events) -> Seq(Operation)]
          /\ SaysFn(f, fate) \in [ToSet(f.events) -> Seq(Operation)]
          /\ EmitFrame(x, f) = Mapped(f.events, EmitFn(x, f))
          /\ FrameFn(fate)[f] = Mapped(f.events, SaysFn(f, fate))
      BY <3>1, FrameLists, Zenon
    <3>3. /\ Mapped(f.events, EmitFn(x, f)) \in Seq(Operation)
          /\ Mapped(f.events, SaysFn(f, fate)) \in Seq(Operation)
      BY <3>2, MappedType, Zenon
    <3> QED
      BY <3>2, <3>3, Zenon
  <2> QED
    BY <2>1 DEF EmitsFn
<1>4. Mapped(pre, G) = Mapped(pre, FrameFn(fate))
  <2>1. \A i \in DOMAIN pre : pre[i] \in A
    OBVIOUS
  <2>2. Alike(pre, G, pre, FrameFn(fate))
    BY <2>1, Zenon DEF Alike
  <2> HIDE DEF G
  <2> QED
    BY <2>2, MappedSame, SMT
<1>5. LeadsWith(x, fate, Mapped(pre, G))
  <2>1. Distributes(pre, Drain(x).journal, FrameFn(fate))
    BY <1>2, FrameFnType, MappedConcat, Zenon
  <2> QED
    BY <1>1, <1>4, <2>1, Zenon DEF DrainsTo, Distributes, LeadsWith, Ops
<1>6. Mapped(pre, G) \in Seq(Operation)
  BY <1>3, MappedType, Zenon
<1>7. \A f \in A : EmitsFn(x)[f] = EmitFrame(x, f) /\ G[f] = FrameFn(fate)[f]
  BY DEF EmitsFn
<1>8. \A f \in A : f \in JournalFrames /\ OfDevice(f) /\ ~Pending(x, f) /\ RoutineFrame(f)
  BY DEF Leavable
<1> HIDE DEF A, G, F
<1>9. ASSUME NEW P, NEW Q, \A f \in A : Blind(P, Q, f)
      PROVE  \A b \in BOOLEAN : After(b, Drained(x), P, Q) => After(b, Mapped(pre, G), P, Q)
  <2>1. ASSUME NEW f \in A, NEW b \in BOOLEAN, After(b, F[f], P, Q) PROVE After(b, G[f], P, Q)
    <3>1. \A z \in BOOLEAN : After(z, EmitFrame(x, f), P, Q) => After(z, FrameFn(fate)[f], P, Q)
      BY <1>8, <1>9, EmitSays
    <3> QED
      BY <1>7, <2>1, <3>1, Zenon DEF F
  <2>3. Weaker(A, F, G, P, Q)
    BY <2>1, Zenon DEF Weaker
  <2>2. Weakens(pre, F, G, P, Q)
    BY <1>3, <2>3, AfterMapped, Zenon
  <2> QED
    BY <1>1, <2>2, Zenon DEF DrainsTo, F, Weakens
<1>10. ASSUME NEW P, NEW Q, \A f \in A : Blind(P, Q, f) /\ Blind(Q, P, f)
       PROVE  \A b \in BOOLEAN : After(b, Mapped(pre, G), P, Q) => After(b, Drained(x), P, Q)
  <2>1. ASSUME NEW f \in A, NEW b \in BOOLEAN, After(b, G[f], P, Q) PROVE After(b, F[f], P, Q)
    <3>1. \A z \in BOOLEAN : After(z, FrameFn(fate)[f], P, Q) => After(z, EmitFrame(x, f), P, Q)
      BY <1>8, <1>10, SaysEmit
    <3> QED
      BY <1>7, <2>1, <3>1, Zenon DEF F
  <2>3. Weaker(A, G, F, P, Q)
    BY <2>1, Zenon DEF Weaker
  <2>2. Weakens(pre, G, F, P, Q)
    BY <1>3, <2>3, AfterMapped, Zenon
  <2> QED
    BY <1>1, <2>2, Zenon DEF DrainsTo, F, Weakens
<1>11. SaysLike(x, Mapped(pre, G))
  <2>1. \A o, c : \A f \in A : Blind(Pressing(o, c), Releasing(o, c), f)
                                 /\ Blind(Releasing(o, c), Pressing(o, c), f)
    BY <1>8, BlindKeys, Zenon
  <2>2. \A h \in HoldDevice : \A f \in A : Blind(Entering(h), Leaving(h), f)
    BY <1>8, BlindNames, Zenon
  <2> QED
    BY <1>9, <1>10, <2>1, <2>2, Zenon DEF SaysLike
<1> QED
  BY <1>5, <1>6, <1>11, Zenon

-----------------------------------------------------------------------------
(* What the engine wants of each owner, and when the forwarder will agree  *)

(* What an owner is to hold once the journal has been written.             *)
Wanted(x, fate, o, c) ==
    \/ \E p \in x.physical : device(p) = o /\ code(p) = c /\ fate[p] = "forwarded"
    \/ \E a \in ToSet(x.active) : a.owner = o /\ a.target = c

(* keys and names: what the forwarder's maps will be with the operations of *)
(* out applied.                                                            *)
KeyFits(x, keys, fate, o) ==
    \A c \in Code : After(c \in keys[o], Ops(x, fate), Pressing(o, c), Releasing(o, c))
                      <=> Wanted(x, fate, o, c)

(* An owner of a remap is in the forwarder's map only while its remap is   *)
(* live.                                                                   *)
NameFits(x, names, fate, o) ==
    o \in HoldDevice /\ After(o \in names, Ops(x, fate), Entering(o), Leaving(o)) => Live(x, o)

(* Keys and names of owner o are as wanted under fate.                     *)
Fits(x, keys, names, fate, o) == KeyFits(x, keys, fate, o) /\ NameFits(x, names, fate, o)

(* For the owners O, under every fate that agrees with the dispositions    *)
(* taken.                                                                  *)
Flow(x, keys, names, O) ==
    \A fate \in Fates : Agrees(x, fate) => \A o \in O : Fits(x, keys, names, fate, o)

LEMMA LiveIs ==
    ASSUME NEW x \in Engines, NEW h
    PROVE  Live(x, h) <=> \E a \in ToSet(x.active) : a.owner = h
  BY DEF Live, ToSet, Engines

(* A fate of y as a fate of x.                                             *)
LEMMA FateBefore ==
    ASSUME NEW x \in Engines, NEW y \in Engines, NEW N, Evolves(x, y, N),
           NEW fate \in Fates, Agrees(y, fate)
    PROVE  LET old == Completed(x, fate) IN
           /\ old \in Fates /\ Agrees(x, old)
           /\ \A p \in Press : p \in Referenced(y) /\ p \notin N => old[p] = fate[p]
<1>1. \A p \in Press : p \in Referenced(y) /\ p \notin N =>
        (x.route[p] # "undecided" => y.route[p] = x.route[p])
  BY DEF Evolves
<1>2. \A p \in Press : p \in Referenced(y) /\ p \notin N => Completed(x, fate)[p] = fate[p]
  BY <1>1, CompletedSame
<1> QED
  BY <1>2, CompletedAgrees, Zenon

(* A step that appends the operations s.                                   *)
Extends(x, old, y, fate, s) == Ops(y, fate) = Ops(x, old) \o s

(* The operations s change the keys of o as what is wanted changes.        *)
Follows(x, old, y, fate, s, o) ==
    /\ \A c \in Code : After(Wanted(x, old, o, c), s, Pressing(o, c), Releasing(o, c))
                         <=> Wanted(y, fate, o, c)
    /\ o \in HoldDevice /\ After(Live(x, o), s, Entering(o), Leaving(o)) => Live(y, o)

(* The operations s set the keys of o to what is wanted, whatever they     *)
(* were.                                                                   *)
Resets(y, fate, s, o) ==
    /\ \A c \in Code : \A b \in BOOLEAN :
          After(b, s, Pressing(o, c), Releasing(o, c)) <=> Wanted(y, fate, o, c)
    /\ o \in HoldDevice => \A b \in BOOLEAN :
          After(b, s, Entering(o), Leaving(o)) => Live(y, o)

(* Each owner in Q follows or is reset.                                    *)
FlowsBy(x, old, y, fate, s, O, Q) ==
    /\ old \in Fates /\ Agrees(x, old)
    /\ s \in Seq(Operation)
    /\ Extends(x, old, y, fate, s)
    /\ \A o \in Q : (o \in O /\ Follows(x, old, y, fate, s, o)) \/ Resets(y, fate, s, o)

(* A step that appends operations keeps Flow for the owners that follow    *)
(* them or are reset by them.                                              *)
LEMMA FlowStep ==
    ASSUME NEW x \in Engines, NEW y \in Engines, NEW keys, NEW names, NEW O, NEW Q,
           Flow(x, keys, names, O),
           \A fate \in Fates : Agrees(y, fate) => \E old, s : FlowsBy(x, old, y, fate, s, O, Q)
    PROVE  Flow(y, keys, names, Q)
<1> SUFFICES ASSUME NEW fate \in Fates, Agrees(y, fate), NEW o \in Q
             PROVE  Fits(y, keys, names, fate, o)
  BY DEF Flow
<1>1. PICK old, s : FlowsBy(x, old, y, fate, s, O, Q)
  BY Zenon
<1>2. /\ old \in Fates /\ Agrees(x, old) /\ s \in Seq(Operation)
      /\ Ops(y, fate) = Ops(x, old) \o s
      /\ (o \in O /\ Follows(x, old, y, fate, s, o)) \/ Resets(y, fate, s, o)
  BY <1>1, Zenon DEF FlowsBy, Extends
<1>3. Ops(x, old) \in Seq(Operation)
  BY OpsType, Zenon
<1>4. \A c : After(c \in keys[o], Ops(y, fate), Pressing(o, c), Releasing(o, c)) <=>
             After(After(c \in keys[o], Ops(x, old), Pressing(o, c), Releasing(o, c)), s,
                   Pressing(o, c), Releasing(o, c))
  BY <1>2, <1>3, AfterConcat, Zenon
<1>5. After(o \in names, Ops(y, fate), Entering(o), Leaving(o)) <=>
             After(After(o \in names, Ops(x, old), Entering(o), Leaving(o)), s,
                   Entering(o), Leaving(o))
  BY <1>2, <1>3, AfterConcat, Zenon
<1>6. CASE o \in O /\ Follows(x, old, y, fate, s, o)
  <2>1. Fits(x, keys, names, fate, o) \/ TRUE
    OBVIOUS
  <2>2. KeyFits(x, keys, old, o) /\ NameFits(x, names, old, o)
    BY <1>2, <1>6, Zenon DEF Flow, Fits
  <2>3. KeyFits(y, keys, fate, o)
    <3> SUFFICES ASSUME NEW c \in Code
                 PROVE  After(c \in keys[o], Ops(y, fate), Pressing(o, c), Releasing(o, c))
                          <=> Wanted(y, fate, o, c)
      BY Zenon DEF KeyFits
    <3>1. After(c \in keys[o], Ops(x, old), Pressing(o, c), Releasing(o, c)) <=> Wanted(x, old, o, c)
      BY <2>2, Zenon DEF KeyFits
    <3>2. After(Wanted(x, old, o, c), s, Pressing(o, c), Releasing(o, c)) <=> Wanted(y, fate, o, c)
      BY <1>6, Zenon DEF Follows
    <3>3. After(After(c \in keys[o], Ops(x, old), Pressing(o, c), Releasing(o, c)), s,
                   Pressing(o, c), Releasing(o, c))
           <=> After(Wanted(x, old, o, c), s, Pressing(o, c), Releasing(o, c))
      BY <3>1, Zenon DEF After
    <3> QED
      BY <1>4, <3>2, <3>3, Zenon
  <2>4. NameFits(y, names, fate, o)
    <3> SUFFICES ASSUME o \in HoldDevice, After(o \in names, Ops(y, fate), Entering(o), Leaving(o))
                 PROVE  Live(y, o)
      BY Zenon DEF NameFits
    <3>1. After(o \in names, Ops(x, old), Entering(o), Leaving(o)) => Live(x, o)
      BY <2>2, Zenon DEF NameFits
    <3>2. After(Live(x, o), s, Entering(o), Leaving(o))
      BY <1>5, <3>1, Zenon DEF After
    <3> QED
      BY <1>6, <3>2, Zenon DEF Follows
  <2> QED
    BY <2>3, <2>4, Zenon DEF Fits
<1>7. CASE Resets(y, fate, s, o)
  <2>1. \A c : After(c \in keys[o], Ops(x, old), Pressing(o, c), Releasing(o, c)) \in BOOLEAN
    BY Zenon DEF After, Sets, Keeps
  <2>2. After(o \in names, Ops(x, old), Entering(o), Leaving(o)) \in BOOLEAN
    BY Zenon DEF After, Sets, Keeps
  <2>3. KeyFits(y, keys, fate, o)
    BY <1>4, <1>7, <2>1, Zenon DEF KeyFits, Resets
  <2>4. NameFits(y, names, fate, o)
    BY <1>5, <1>7, <2>2, Zenon DEF NameFits, Resets
  <2> QED
    BY <2>3, <2>4, Zenon DEF Fits
<1> QED
  BY <1>2, <1>6, <1>7, Zenon

(* Nothing to be said: the presses only learn their fate.                  *)
LEMMA SaysNothing ==
    ASSUME NEW P, NEW Q
    PROVE  ~Sets(<<>>, P, Q) /\ Keeps(<<>>, Q)
  BY DEF Sets, Keeps

LEMMA WantedSame ==
    ASSUME NEW x \in Engines, NEW y \in Engines, y.physical = x.physical, y.active = x.active,
           NEW old, NEW fate, \A p \in Press : p \in Referenced(y) => old[p] = fate[p],
           NEW o, NEW c
    PROVE  Wanted(x, old, o, c) <=> Wanted(y, fate, o, c)
<1>1. \A p \in y.physical : p \in Press /\ p \in Referenced(y)
  BY ReferencedParts DEF Engines
<1> QED
  BY <1>1 DEF Wanted

(* A step that only decides presses keeps Flow: fewer fates agree.         *)
LEMMA FlowStands ==
    ASSUME NEW x \in Engines, NEW y \in Engines, SameEvents(x, y),
           y.physical = x.physical, y.active = x.active, Evolves(x, y, {}),
           NEW keys, NEW names, NEW O, Flow(x, keys, names, O)
    PROVE  Flow(y, keys, names, O)
<1>1. ASSUME NEW fate \in Fates, Agrees(y, fate)
      PROVE  FlowsBy(x, Completed(x, fate), y, fate, <<>>, O, O)
  <2> DEFINE old == Completed(x, fate)
  <2>1. old \in Fates /\ Agrees(x, old) /\ \A p \in Press : p \in Referenced(y) => old[p] = fate[p]
    BY <1>1, FateBefore
  <2> HIDE DEF old
  <2>2. JournalPresses(x) \subseteq Referenced(y)
    BY SameJournalPresses, ReferencedParts
  <2>3. Ops(x, old) = Ops(y, fate)
    BY <2>1, <2>2, OpsSame
  <2>4. PICK s \in Seq(Operation) : s = Ops(x, old)
    BY OpsType, Zenon
  <2>5. s \o <<>> = s /\ <<>> \in Seq(Operation)
    OBVIOUS
  <2>6. Extends(x, old, y, fate, <<>>)
    BY <2>3, <2>4, <2>5, Zenon DEF Extends
  <2>7. ASSUME NEW o \in O PROVE Follows(x, old, y, fate, <<>>, o)
    <3>1. \A c : Wanted(x, old, o, c) <=> Wanted(y, fate, o, c)
      BY <2>1, WantedSame
    <3>2. \A c : After(Wanted(x, old, o, c), <<>>, Pressing(o, c), Releasing(o, c))
                   <=> Wanted(x, old, o, c)
      BY SaysNothing, Zenon DEF After
    <3>3. After(Live(x, o), <<>>, Entering(o), Leaving(o)) <=> Live(x, o)
      BY SaysNothing, Zenon DEF After
    <3>4. Live(x, o) <=> Live(y, o)
      BY DEF Live
    <3> QED
      BY <3>1, <3>2, <3>3, <3>4, Zenon DEF Follows
  <2> QED
    BY <2>1, <2>5, <2>6, <2>7, Zenon DEF FlowsBy, old
<1> QED
  BY <1>1, FlowStep, Zenon

(* The forwarder's maps with the operations of s applied.                  *)
AppliedKeys(keys, s) ==
    [o \in Owner |-> {c \in Code : After(c \in keys[o], s, Pressing(o, c), Releasing(o, c))}]

(* The owners in the map with the operations of s applied.                 *)
AppliedNames(names, s) == {o \in Owner : After(o \in names, s, Entering(o), Leaving(o))}

(* Applying one list and then another applies both.                        *)
LEMMA AppliedConcat ==
    ASSUME NEW keys, NEW names, NEW s \in Seq(Operation), NEW t \in Seq(Operation)
    PROVE  /\ AppliedKeys(keys, s \o t) = AppliedKeys(AppliedKeys(keys, s), t)
           /\ AppliedNames(names, s \o t) = AppliedNames(AppliedNames(names, s), t)
<1>1. ASSUME NEW o \in Owner
      PROVE  {c \in Code : After(c \in keys[o], s \o t, Pressing(o, c), Releasing(o, c))}
               = {c \in Code : After(c \in AppliedKeys(keys, s)[o], t, Pressing(o, c), Releasing(o, c))}
  <2>1. ASSUME NEW c \in Code
        PROVE  After(c \in keys[o], s \o t, Pressing(o, c), Releasing(o, c))
                 <=> After(c \in AppliedKeys(keys, s)[o], t, Pressing(o, c), Releasing(o, c))
    <3>1. After(c \in keys[o], s \o t, Pressing(o, c), Releasing(o, c))
            <=> After(After(c \in keys[o], s, Pressing(o, c), Releasing(o, c)), t,
                      Pressing(o, c), Releasing(o, c))
      BY AfterConcat, Zenon
    <3>2. c \in AppliedKeys(keys, s)[o] <=> After(c \in keys[o], s, Pressing(o, c), Releasing(o, c))
      BY Zenon DEF AppliedKeys
    <3> QED
      BY <3>1, <3>2, Zenon DEF After
  <2> QED
    BY <2>1, Zenon
<1>2. ASSUME NEW o \in Owner
      PROVE  After(o \in names, s \o t, Entering(o), Leaving(o))
               <=> After(o \in AppliedNames(names, s), t, Entering(o), Leaving(o))
  <2>1. After(o \in names, s \o t, Entering(o), Leaving(o))
          <=> After(After(o \in names, s, Entering(o), Leaving(o)), t, Entering(o), Leaving(o))
    BY AfterConcat, Zenon
  <2>2. o \in AppliedNames(names, s) <=> After(o \in names, s, Entering(o), Leaving(o))
    BY Zenon DEF AppliedNames
  <2> QED
    BY <2>1, <2>2, Zenon DEF After
<1>3. AppliedKeys(keys, s \o t) = AppliedKeys(AppliedKeys(keys, s), t)
  BY <1>1 DEF AppliedKeys
<1>4. AppliedNames(names, s \o t) = AppliedNames(AppliedNames(names, s), t)
  BY <1>2, Zenon DEF AppliedNames
<1> QED
  BY <1>3, <1>4, Zenon

LEMMA AppliedNothing ==
    ASSUME NEW keys \in [Owner -> SUBSET Code], NEW names \in SUBSET Owner
    PROVE  AppliedKeys(keys, <<>>) = keys /\ AppliedNames(names, <<>>) = names
<1>1. \A o \in Owner : keys[o] = {c \in Code : After(c \in keys[o], <<>>, Pressing(o, c), Releasing(o, c))}
  BY SaysNothing, Zenon DEF After
<1>2. AppliedKeys(keys, <<>>) = keys
  BY <1>1 DEF AppliedKeys
<1>3. AppliedNames(names, <<>>) = names
  BY SaysNothing, Zenon DEF After, AppliedNames
<1> QED
  BY <1>2, <1>3, Zenon

(* Draining hands operations over; what is to come stays the same.         *)
LEMMA FlowDrain ==
    ASSUME NEW x, Sound(x), RoutineJournal(x), NEW keys, NEW names,
           NEW O, O \subseteq Owner, Flow(x, keys, names, O)
    PROVE  Flow(Drain(x), AppliedKeys(keys, Drained(x)), AppliedNames(names, Drained(x)), O)
<1> DEFINE y == Drain(x)
<1>1. x \in Engines /\ DeviceOrOutputs(x) /\ y \in Engines /\ Evolves(x, y, {})
      /\ y.physical = x.physical /\ y.active = x.active
  BY DrainKeeps, DrainFields DEF Sound
<1> SUFFICES ASSUME NEW fate \in Fates, Agrees(y, fate), NEW o \in O
             PROVE  Fits(y, AppliedKeys(keys, Drained(x)), AppliedNames(names, Drained(x)), fate, o)
  BY Zenon DEF Flow
<1> DEFINE old == Completed(x, fate)
<1>2. old \in Fates /\ Agrees(x, old) /\ \A p \in Press : p \in Referenced(y) => old[p] = fate[p]
  BY <1>1, FateBefore
<1> HIDE DEF old
<1>3. PICK s \in Seq(Operation) : LeadsWith(x, old, s) /\ SaysLike(x, s)
  BY <1>1, <1>2, DrainOps, Zenon
<1>4. Ops(y, old) = Ops(y, fate)
  <2>1. SameEvents(y, y)
    BY Zenon DEF SameEvents
  <2>2. JournalPresses(y) \subseteq Referenced(y)
    BY ReferencedParts
  <2>3. \A p \in Press : p \in JournalPresses(y) => old[p] = fate[p]
    BY <1>2, <2>2
  <2> HIDE DEF y
  <2> QED
    BY <1>1, <2>1, <2>3, OpsSame
<1>5. Ops(x, old) = s \o Ops(y, fate)
  BY <1>3, <1>4, Zenon DEF LeadsWith
<1>6. Ops(y, fate) \in Seq(Operation)
  BY <1>1, OpsType, Zenon
<1>7. Fits(x, keys, names, old, o)
  BY <1>2, Zenon DEF Flow
<1>o. o \in Owner
  OBVIOUS
<1>8. KeyFits(y, AppliedKeys(keys, Drained(x)), fate, o)
  <2> SUFFICES ASSUME NEW c \in Code
               PROVE  After(c \in AppliedKeys(keys, Drained(x))[o], Ops(y, fate), Pressing(o, c), Releasing(o, c))
                        <=> Wanted(y, fate, o, c)
    BY Zenon DEF KeyFits
  <2>1. c \in AppliedKeys(keys, Drained(x))[o]
          <=> After(c \in keys[o], Drained(x), Pressing(o, c), Releasing(o, c))
    BY <1>o, Zenon DEF AppliedKeys
  <2>b. (c \in keys[o]) \in BOOLEAN
    OBVIOUS
  <2>2. After(c \in keys[o], Drained(x), Pressing(o, c), Releasing(o, c))
          <=> After(c \in keys[o], s, Pressing(o, c), Releasing(o, c))
    BY <1>3, <2>b, Zenon DEF SaysLike
  <2>3. After(c \in keys[o], Ops(x, old), Pressing(o, c), Releasing(o, c))
          <=> After(After(c \in keys[o], s, Pressing(o, c), Releasing(o, c)), Ops(y, fate),
                    Pressing(o, c), Releasing(o, c))
    BY <1>5, <1>6, AfterConcat, Zenon
  <2>4. After(c \in keys[o], Ops(x, old), Pressing(o, c), Releasing(o, c)) <=> Wanted(x, old, o, c)
    BY <1>7, Zenon DEF Fits, KeyFits
  <2>5. Wanted(x, old, o, c) <=> Wanted(y, fate, o, c)
    BY <1>1, <1>2, WantedSame
  <2>6. After(After(c \in keys[o], s, Pressing(o, c), Releasing(o, c)), Ops(y, fate),
                    Pressing(o, c), Releasing(o, c))
          <=> After(c \in AppliedKeys(keys, Drained(x))[o], Ops(y, fate), Pressing(o, c), Releasing(o, c))
    BY <2>1, <2>2, Zenon DEF After
  <2> QED
    BY <2>3, <2>4, <2>5, <2>6, Zenon
<1>9. NameFits(y, AppliedNames(names, Drained(x)), fate, o)
  <2> SUFFICES ASSUME o \in HoldDevice,
                      After(o \in AppliedNames(names, Drained(x)), Ops(y, fate), Entering(o), Leaving(o))
               PROVE  Live(y, o)
    BY Zenon DEF NameFits
  <2>1. o \in AppliedNames(names, Drained(x))
          <=> After(o \in names, Drained(x), Entering(o), Leaving(o))
    BY <1>o, Zenon DEF AppliedNames
  <2>b. (o \in names) \in BOOLEAN
    OBVIOUS
  <2>2. After(o \in names, Drained(x), Entering(o), Leaving(o))
          => After(o \in names, s, Entering(o), Leaving(o))
    BY <1>3, <2>b, Zenon DEF SaysLike
  <2>3. After(o \in names, Ops(x, old), Entering(o), Leaving(o))
          <=> After(After(o \in names, s, Entering(o), Leaving(o)), Ops(y, fate), Entering(o), Leaving(o))
    BY <1>5, <1>6, AfterConcat, Zenon
  <2>4. After(After(o \in names, s, Entering(o), Leaving(o)), Ops(y, fate), Entering(o), Leaving(o))
    BY <2>1, <2>2, Zenon DEF After
  <2>5. Live(x, o)
    BY <1>7, <2>3, <2>4, Zenon DEF Fits, NameFits
  <2> QED
    BY <1>1, <2>5, Zenon DEF Live
<1> QED
  BY <1>8, <1>9, Zenon DEF Fits

(* Generated operations join the journal's end; the engine changes with    *)
(* them as Follows or Resets says.                                         *)
LEMMA FlowQueue ==
    ASSUME NEW x \in Engines, NEW y \in Engines, NEW outputs \in Seq(Output),
           y.journal = QueueOutputs(x, outputs).journal, y.route = x.route,
           NEW keys, NEW names, NEW O, NEW Q, Flow(x, keys, names, O),
           \A fate \in Fates : Agrees(y, fate) =>
              \A o \in Q : (o \in O /\ Follows(x, fate, y, fate, outputs, o))
                             \/ Resets(y, fate, outputs, o)
    PROVE  Flow(y, keys, names, Q)
<1>1. ASSUME NEW fate \in Fates, Agrees(y, fate) PROVE FlowsBy(x, fate, y, fate, outputs, O, Q)
  <2>1. Agrees(x, fate)
    BY <1>1, Zenon DEF Agrees
  <2>2. outputs \in Seq(Operation)
    BY DEF Operation
  <2>3. Ops(QueueOutputs(x, outputs), fate) = Ops(x, fate) \o outputs
    BY QueueOps, Zenon
  <2>4. Ops(y, fate) = Ops(QueueOutputs(x, outputs), fate)
    BY Zenon DEF Ops
  <2>5. Extends(x, fate, y, fate, outputs)
    BY <2>3, <2>4, Zenon DEF Extends
  <2> QED
    BY <1>1, <2>1, <2>2, <2>5, Zenon DEF FlowsBy
<1> QED
  BY <1>1, FlowStep, Zenon

(* Operations that do not name an owner.                                   *)
Silent(s, o) == \A k \in DOMAIN s : ~Names(s[k], o)

(* Operations that do not name an owner leave it as it is.                 *)
LEMMA SilentKeeps ==
    ASSUME NEW s \in Seq(Operation), NEW o, Silent(s, o)
    PROVE  /\ \A c : ~Sets(s, Pressing(o, c), Releasing(o, c)) /\ Keeps(s, Releasing(o, c))
           /\ ~Sets(s, Entering(o), Leaving(o)) /\ Keeps(s, Leaving(o))
<1>1. \A k \in DOMAIN s : s[k] \in Operation /\ ~Names(s[k], o)
  BY DEF Silent
<1>2. \A k \in DOMAIN s : /\ \A c : s[k] \notin Pressing(o, c) /\ s[k] \notin Releasing(o, c)
                          /\ s[k] \notin Entering(o) /\ s[k] \notin Leaving(o)
  BY <1>1, NoNames, Zenon
<1> QED
  BY <1>2, Zenon DEF Sets, Keeps

(* An owner that nothing names follows if what it wants does not change.   *)
LEMMA SilentFollows ==
    ASSUME NEW x \in Engines, NEW y \in Engines, NEW s \in Seq(Operation), NEW o, Silent(s, o),
           NEW old, NEW fate, \A c \in Code : Wanted(x, old, o, c) <=> Wanted(y, fate, o, c),
           Live(x, o) => Live(y, o)
    PROVE  Follows(x, old, y, fate, s, o)
<1>1. /\ \A c : ~Sets(s, Pressing(o, c), Releasing(o, c)) /\ Keeps(s, Releasing(o, c))
      /\ ~Sets(s, Entering(o), Leaving(o)) /\ Keeps(s, Leaving(o))
  BY SilentKeeps, Zenon
<1> QED
  BY <1>1, Zenon DEF Follows, After

(* A frame is opened; a frame of mere chatter is dropped.                  *)
LEMMA FlowSays ==
    ASSUME NEW x \in Engines, NEW y \in Engines, y.physical = x.physical, y.active = x.active,
           y.route = x.route, \A fate : Ops(y, fate) = Ops(x, fate),
           NEW keys, NEW names, NEW O, Flow(x, keys, names, O)
    PROVE  Flow(y, keys, names, O)
<1>1. ASSUME NEW fate, NEW o
      PROVE  Fits(x, keys, names, fate, o) <=> Fits(y, keys, names, fate, o)
  <2>1. Ops(y, fate) = Ops(x, fate)
    BY Zenon
  <2>2. KeyFits(x, keys, fate, o) <=> KeyFits(y, keys, fate, o)
    BY <2>1, Zenon DEF KeyFits, Wanted
  <2>3. NameFits(x, names, fate, o) <=> NameFits(y, names, fate, o)
    BY <2>1, Zenon DEF NameFits, Live
  <2> QED
    BY <2>2, <2>3, Zenon DEF Fits
<1>2. \A fate : Agrees(x, fate) <=> Agrees(y, fate)
  BY Zenon DEF Agrees
<1> QED
  BY <1>1, <1>2, Zenon DEF Flow

-----------------------------------------------------------------------------
(* HandleFrame: one event of a frame                                       *)

(* Who wants what: a keyboard its forwarded keys, a remap its target, the  *)
(* tap owner nothing.                                                      *)
LEMMA ActiveOwners ==
    ASSUME NEW x \in Engines, NEW a \in ToSet(x.active)
    PROVE  a \in Activation /\ a.owner \in HoldDevice /\ a.target \in Code
<1>1. x.active \in Seq(Activation)
  BY DEF Engines
<1>2. a \in Activation
  BY <1>1, ToSetType
<1> QED
  BY <1>2 DEF Activation

LEMMA WantedDevice ==
    ASSUME NEW x \in Engines, NEW d \in Device, NEW fate, NEW c
    PROVE  Wanted(x, fate, d, c)
             <=> \E p \in x.physical : device(p) = d /\ code(p) = c /\ fate[p] = "forwarded"
<1>1. \A a \in ToSet(x.active) : a.owner # d
  BY ActiveOwners, OwnerAssumption
<1> QED
  BY <1>1, Zenon DEF Wanted

LEMMA PhysicalDevices ==
    ASSUME NEW x \in Engines, NEW p \in x.physical
    PROVE  p \in Press /\ device(p) \in Device /\ code(p) \in Code
<1>1. p \in Press
  BY DEF Engines
<1> QED
  BY <1>1, PressParts

LEMMA WantedHold ==
    ASSUME NEW x \in Engines, NEW h \in HoldDevice, NEW fate, NEW c
    PROVE  Wanted(x, fate, h, c) <=> \E a \in ToSet(x.active) : a.owner = h /\ a.target = c
<1>1. \A p \in x.physical : device(p) # h
  BY PhysicalDevices, OwnerAssumption
<1> QED
  BY <1>1, Zenon DEF Wanted

LEMMA WantedTap ==
    ASSUME NEW x \in Engines, NEW fate, NEW c
    PROVE  ~Wanted(x, fate, TapDevice, c)
<1>1. \A p \in x.physical : device(p) # TapDevice
  BY PhysicalDevices, OwnerAssumption
<1>2. \A a \in ToSet(x.active) : a.owner # TapDevice
  BY ActiveOwners, OwnerAssumption
<1> QED
  BY <1>1, <1>2, Zenon DEF Wanted

-----------------------------------------------------------------------------
(* The end of a remap leaves its owner neither a key nor a name.           *)
Stops(s, o, keep) ==
    /\ s \in Seq(Operation)
    /\ \A c : \A b \in BOOLEAN :
          After(b, s, Pressing(o, c), Releasing(o, c)) <=> b /\ keep
    /\ \A b \in BOOLEAN : After(b, s, Entering(o), Leaving(o)) <=> b /\ keep

LEMMA StopEffect ==
    ASSUME NEW a \in Activation, NEW o
    PROVE  Stops(StopOutputs(a), o, a.owner # o)
<1> DEFINE u == KeyOutput(a.owner, a.target, 0)
           w == ReconcileDevice(a.owner, {})
<1>0. a.owner \in HoldDevice /\ a.target \in Code
  BY DEF Activation
<1>1. a.owner \in Owner /\ a.owner \in Owner \cup {NoDevice} /\ 0 \in {0, 1, 2}
  BY <1>0 DEF Owner
<1>2. /\ u \in Operation
      /\ \A c : u \notin Pressing(o, c) /\ (u \in Releasing(o, c) => o = a.owner)
      /\ u \notin Leaving(o) /\ (u \in Entering(o) => o = a.owner)
  BY <1>0, <1>1, KeyEffect
<1>3. /\ w \in Operation
      /\ \A c : w \notin Pressing(o, c) /\ (w \in Releasing(o, c) <=> o = a.owner)
      /\ (w \in Leaving(o) <=> o = a.owner) /\ w \notin Entering(o)
  BY <1>1, ReconcileEffect
<1>4. StopOutputs(a) = <<u, w>>
  BY Zenon DEF StopOutputs
<1> HIDE DEF u, w
<1>5. <<u, w>> \in Seq(Operation)
  BY <1>2, <1>3
<1>6. \A c : \A b \in BOOLEAN : After(b, <<u, w>>, Pressing(o, c), Releasing(o, c)) <=> b /\ a.owner # o
  <2> SUFFICES ASSUME NEW c, NEW b \in BOOLEAN
               PROVE  After(b, <<u, w>>, Pressing(o, c), Releasing(o, c)) <=> b /\ a.owner # o
    OBVIOUS
  <2>1. After(b, <<u, w>>, Pressing(o, c), Releasing(o, c))
          <=> w \in Pressing(o, c)
                \/ ((u \in Pressing(o, c) \/ (b /\ u \notin Releasing(o, c))) /\ w \notin Releasing(o, c))
    BY AfterTwo
  <2> QED
    BY <1>2, <1>3, <2>1, Zenon
<1>7. \A b \in BOOLEAN : After(b, <<u, w>>, Entering(o), Leaving(o)) <=> b /\ a.owner # o
  <2> SUFFICES ASSUME NEW b \in BOOLEAN
               PROVE  After(b, <<u, w>>, Entering(o), Leaving(o)) <=> b /\ a.owner # o
    OBVIOUS
  <2>1. After(b, <<u, w>>, Entering(o), Leaving(o))
          <=> w \in Entering(o) \/ ((u \in Entering(o) \/ (b /\ u \notin Leaving(o))) /\ w \notin Leaving(o))
    BY AfterTwo
  <2> QED
    BY <1>2, <1>3, <2>1, Zenon
<1> QED
  BY <1>4, <1>5, <1>6, <1>7, Zenon DEF Stops

-----------------------------------------------------------------------------
(* What the activations say to a transition.                               *)
EventSays(tr) ==
    [a \in Activation |->
        IF Ends(a, tr) THEN StopOutputs(a)
        ELSE IF tr.value = 2 /\ tr.press = a.driver THEN <<KeyOutput(a.owner, a.target, 2)>>
        ELSE <<>>]

(* What an event makes the live remaps record.                             *)
EventRecordsOf(tr) ==
    [a \in Activation |->
        IF Ends(a, tr)
          THEN <<RecordOutput(KeyOutput(a.owner, a.target, 0), NoDevice),
                 RecordOutput(ReconcileDevice(a.owner, {}), NoDevice)>>
        ELSE IF tr.value = 2 /\ tr.press = a.driver
          THEN <<RecordOutput(KeyOutput(a.owner, a.target, 2), a.owner)>>
        ELSE <<>>]

(* The record of an output that is no repeat.                              *)
OutputRecord(r, o) ==
    r \in Record /\ \A d \in Device \cup {NoDevice} : \A fate : RecordFn(d, fate)[r] = <<o>>

LEMMA RecordOutputSays ==
    ASSUME NEW o \in Output, NEW t \in HoldDevice \cup {NoDevice}
    PROVE  OutputRecord(RecordOutput(o, t), o)
<1> DEFINE r == RecordOutput(o, t)
<1>1. r.type = "output" /\ r.output = o /\ r \in Record
  BY DEF RecordOutput, Record
<1> HIDE DEF r
<1>2. \A d, fate : RecordOps(d, r, fate) = <<o>>
  BY <1>1 DEF RecordOps
<1>3. \A d \in Device \cup {NoDevice} : \A fate : RecordFn(d, fate)[r] = <<o>>
  BY <1>1, <1>2 DEF RecordFn
<1> QED
  BY <1>1, <1>3, Zenon DEF OutputRecord, r

LEMMA EventRecordsType ==
    ASSUME NEW tr
    PROVE  EventRecordsOf(tr) \in [Activation -> Seq(Record)]
<1>1. ASSUME NEW a \in Activation
      PROVE  /\ <<RecordOutput(KeyOutput(a.owner, a.target, 0), NoDevice),
                  RecordOutput(ReconcileDevice(a.owner, {}), NoDevice)>> \in Seq(Record)
             /\ <<RecordOutput(KeyOutput(a.owner, a.target, 2), a.owner)>> \in Seq(Record)
             /\ <<>> \in Seq(Record)
  <2>1. a.owner \in HoldDevice
    BY DEF Activation
  <2>2. /\ RecordOutput(KeyOutput(a.owner, a.target, 0), NoDevice) \in Record
        /\ RecordOutput(ReconcileDevice(a.owner, {}), NoDevice) \in Record
        /\ RecordOutput(KeyOutput(a.owner, a.target, 2), a.owner) \in Record
    BY <2>1, StopRecords, RecordOutputSays DEF OutputRecord
  <2> QED
    BY <2>2
<1>2. \A a \in Activation : EventRecordsOf(tr)[a] \in Seq(Record)
  BY <1>1 DEF EventRecordsOf
<1> QED
  BY <1>2 DEF EventRecordsOf

LEMMA EventSaysType ==
    ASSUME NEW tr
    PROVE  EventSays(tr) \in [Activation -> Seq(Operation)]
<1>1. ASSUME NEW a \in Activation
      PROVE  /\ StopOutputs(a) \in Seq(Operation) /\ <<>> \in Seq(Operation)
             /\ <<KeyOutput(a.owner, a.target, 2)>> \in Seq(Operation)
  BY StopRecords DEF StopOutputs, Operation
<1>2. \A a \in Activation : EventSays(tr)[a] \in Seq(Operation)
  BY <1>1 DEF EventSays
<1> QED
  BY <1>2 DEF EventSays

LEMMA EventRecordsSay ==
    ASSUME NEW tr, NEW d \in Device \cup {NoDevice}, NEW fate, NEW a \in Activation
    PROVE  EventSays(tr)[a] = Mapped(EventRecordsOf(tr)[a], RecordFn(d, fate))
<1> DEFINE T == RecordFn(d, fate)
           u == KeyOutput(a.owner, a.target, 0)
           w == ReconcileDevice(a.owner, {})
           v == KeyOutput(a.owner, a.target, 2)
           r == RecordOutput(u, NoDevice)
           s == RecordOutput(w, NoDevice)
           t == RecordOutput(v, a.owner)
<1>1. a.owner \in HoldDevice
  BY DEF Activation
<1>2. u \in Output /\ w \in Output /\ v \in Output
  BY StopRecords
<1>3. /\ r \in Record /\ T[r] = <<u>>
      /\ s \in Record /\ T[s] = <<w>>
      /\ t \in Record /\ T[t] = <<v>>
  BY <1>1, <1>2, RecordOutputSays, Zenon DEF OutputRecord
<1>4. T \in [Record -> Seq(Operation)]
  BY RecordFnType, Zenon
<1>5. /\ EventSays(tr)[a] = IF Ends(a, tr) THEN <<u, w>>
                            ELSE IF tr.value = 2 /\ tr.press = a.driver THEN <<v>> ELSE <<>>
      /\ EventRecordsOf(tr)[a] = IF Ends(a, tr) THEN <<r, s>>
                                 ELSE IF tr.value = 2 /\ tr.press = a.driver THEN <<t>> ELSE <<>>
  BY Zenon DEF EventSays, EventRecordsOf, StopOutputs
<1> HIDE DEF T, u, w, v, r, s, t
<1>6. Mapped(<<>>, T) = <<>>
  BY MappedEmpty
<1>7. Mapped(<<t>>, T) = <<v>> /\ Mapped(<<r>>, T) = <<u>>
  BY <1>3, <1>4, MappedOne
<1>8. Mapped(<<r, s>>, T) = <<u, w>>
  <2>1. <<r, s>> = Append(<<r>>, s) /\ <<r>> \in Seq(Record)
    BY <1>3
  <2>3. <<u>> \o <<w>> = <<u, w>>
    <3>1. <<u, w>> = Append(<<u>>, w) /\ <<u>> \in Seq(Output)
      BY <1>2
    <3>2. Append(<<u>>, w) = <<u>> \o <<w>>
      BY <1>2, <3>1, AppendIsConcat
    <3> QED
      BY <3>1, <3>2, Zenon
  <2>2. Mapped(Append(<<r>>, s), T) = Mapped(<<r>>, T) \o T[s]
    BY <1>3, <1>4, <2>1, MappedAppend
  <2> QED
    BY <1>3, <1>7, <2>1, <2>2, <2>3, Zenon
<1>9. EventSays(tr)[a] = Mapped(EventRecordsOf(tr)[a], T)
  BY <1>5, <1>6, <1>7, <1>8
<1> QED
  BY <1>9, Zenon DEF T

LEMMA ActivationEventsAre ==
    ASSUME NEW x \in Engines, NEW tr
    PROVE  ActivationEvents(x, tr) = Mapped(x.active, EventRecordsOf(tr))
<1>1. \A k \in DOMAIN x.active : x.active[k] \in Activation
  BY DEF Engines
<1>2. Parts(x.active, EventRecordsOf(tr)) =
          [k \in DOMAIN x.active |->
            LET a == x.active[k] IN
            CASE Ends(a, tr) ->
                   <<RecordOutput(KeyOutput(a.owner, a.target, 0), NoDevice),
                     RecordOutput(ReconcileDevice(a.owner, {}), NoDevice)>>
              [] ~Ends(a, tr) /\ tr.value = 2 /\ tr.press = a.driver ->
                   <<RecordOutput(KeyOutput(a.owner, a.target, 2), a.owner)>>
              [] OTHER -> <<>>]
  BY <1>1 DEF Parts, EventRecordsOf
<1> QED
  BY <1>2, Zenon DEF Mapped, ActivationEvents

LEMMA ActivationEventsSay ==
    ASSUME NEW x \in Engines, NEW tr, NEW d \in Device \cup {NoDevice}, NEW fate
    PROVE  /\ Mapped(x.active, EventSays(tr)) \in Seq(Operation)
           /\ Mapped(ActivationEvents(x, tr), RecordFn(d, fate)) = Mapped(x.active, EventSays(tr))
<1>1. x.active \in Seq(Activation)
  BY DEF Engines
<1>2. /\ EventRecordsOf(tr) \in [Activation -> Seq(Record)]
      /\ EventSays(tr) \in [Activation -> Seq(Operation)]
      /\ RecordFn(d, fate) \in [Record -> Seq(Operation)]
  BY EventRecordsType, EventSaysType, RecordFnType, Zenon
<1>3. Composes(Activation, EventRecordsOf(tr), RecordFn(d, fate), EventSays(tr))
  BY EventRecordsSay, Zenon DEF Composes
<1>4. Composed(x.active, EventRecordsOf(tr), RecordFn(d, fate), EventSays(tr))
  BY <1>1, <1>2, <1>3, MappedTwice, Zenon
<1>5. ActivationEvents(x, tr) = Mapped(x.active, EventRecordsOf(tr))
  BY ActivationEventsAre, Zenon
<1>6. Mapped(x.active, EventSays(tr)) \in Seq(Operation)
  BY <1>1, <1>2, MappedType, Zenon
<1> QED
  BY <1>4, <1>5, <1>6, Zenon DEF Composed

LEMMA EventSaysRelease ==
    ASSUME NEW x \in Engines, NEW tr, NEW h, NEW c, NEW b \in BOOLEAN
    PROVE  After(b, Mapped(x.active, EventSays(tr)), Pressing(h, c), Releasing(h, c))
             <=> b /\ \A a \in ToSet(x.active) : ~(a.owner = h /\ Ends(a, tr))
<1> DEFINE P == Pressing(h, c)
           Q == Releasing(h, c)
           E == {a \in Activation : a.owner = h /\ Ends(a, tr)}
           F == EventSays(tr)
<1>1. x.active \in Seq(Activation)
  BY DEF Engines
<1>2. ASSUME NEW a \in Activation, NEW v \in BOOLEAN
      PROVE  After(v, F[a], P, Q) <=> v /\ a \notin E
  <2>1. CASE Ends(a, tr)
    <3>1. F[a] = StopOutputs(a)
      BY <2>1, Zenon DEF EventSays
    <3>2. Stops(StopOutputs(a), h, a.owner # h)
      BY StopEffect, Zenon
    <3>3. After(v, StopOutputs(a), P, Q) <=> v /\ a.owner # h
      BY <3>2, Zenon DEF Stops
    <3>4. a \in E <=> a.owner = h
      BY <2>1
    <3> QED
      BY <3>1, <3>3, <3>4, Zenon
  <2>2. CASE ~Ends(a, tr) /\ tr.value = 2 /\ tr.press = a.driver
    <3> DEFINE u == KeyOutput(a.owner, a.target, 2)
    <3>0. a.owner \in Owner \cup {NoDevice} /\ a.target \in Code /\ 2 \in {0, 1, 2}
      BY DEF Activation, Owner
    <3>1. F[a] = <<u>>
      BY <2>2, Zenon DEF EventSays
    <3>a. \A k : u \notin Pressing(h, k) /\ u \notin Releasing(h, k)
      BY <3>0, KeyEffect
    <3>2. u \notin P /\ u \notin Q
      BY <3>a
    <3> HIDE DEF u
    <3>3. After(v, <<u>>, P, Q) <=> u \in P \/ (v /\ u \notin Q)
      BY AfterOne
    <3>4. a \notin E
      BY <2>2
    <3> QED
      BY <3>1, <3>2, <3>3, <3>4, Zenon
  <2>3. CASE ~Ends(a, tr) /\ ~(tr.value = 2 /\ tr.press = a.driver)
    <3>1. F[a] = <<>>
      BY <2>3, Zenon DEF EventSays
    <3>2. After(v, <<>>, P, Q) <=> v
      BY SaysNothing, Zenon DEF After
    <3>3. a \notin E
      BY <2>3
    <3> QED
      BY <3>1, <3>2, <3>3, Zenon
  <2> QED
    BY <2>1, <2>2, <2>3, Zenon
<1>3. Clears(Activation, F, P, Q, E)
  BY <1>2, Zenon DEF Clears
<1>4. F \in [Activation -> Seq(Operation)]
  BY EventSaysType, Zenon
<1> HIDE DEF F, P, Q
<1>5. ClearsAll(x.active, F, P, Q, E)
  BY <1>1, <1>3, <1>4, AfterStops, Zenon
<1>6. After(b, Mapped(x.active, F), P, Q) <=> b /\ \A i \in DOMAIN x.active : x.active[i] \notin E
  BY <1>5, Zenon DEF ClearsAll
<1>7. (\A i \in DOMAIN x.active : x.active[i] \notin E)
        <=> \A a \in ToSet(x.active) : ~(a.owner = h /\ Ends(a, tr))
  <2>1. \A i \in DOMAIN x.active : x.active[i] \in Activation /\ x.active[i] \in ToSet(x.active)
    BY <1>1, ToSetType
  <2>2. \A a \in ToSet(x.active) : \E i \in DOMAIN x.active : a = x.active[i]
    BY DEF ToSet
  <2> QED
    BY <2>1, <2>2
<1> QED
  BY <1>6, <1>7, Zenon DEF F, P, Q

LEMMA EventSaysForget ==
    ASSUME NEW x \in Engines, NEW tr, NEW h,
           \A a \in ToSet(x.active) : a.owner = h => Ends(a, tr), NEW b \in BOOLEAN
    PROVE  After(b, Mapped(x.active, EventSays(tr)), Entering(h), Leaving(h)) <=> b /\ ~Live(x, h)
<1> DEFINE P == Entering(h)
           Q == Leaving(h)
           E == {a \in Activation : a.owner = h}
           A == ToSet(x.active)
           F == [a \in A |-> EventSays(tr)[a]]
<1>1. x.active \in Seq(Activation)
  BY DEF Engines
<1>2. A \subseteq Activation
  BY <1>1, ToSetType
<1>3. ASSUME NEW a \in A, NEW v \in BOOLEAN
      PROVE  After(v, F[a], P, Q) <=> v /\ a \notin E
  <2>0. a \in Activation /\ F[a] = EventSays(tr)[a]
    BY <1>2
  <2>1. CASE Ends(a, tr)
    <3>1. F[a] = StopOutputs(a)
      BY <2>0, <2>1, Zenon DEF EventSays
    <3>2. Stops(StopOutputs(a), h, a.owner # h)
      BY <2>0, StopEffect, Zenon
    <3>3. After(v, StopOutputs(a), P, Q) <=> v /\ a.owner # h
      BY <3>2, Zenon DEF Stops
    <3>4. a \in E <=> a.owner = h
      BY <2>0
    <3> QED
      BY <3>1, <3>3, <3>4, Zenon
  <2>2. CASE ~Ends(a, tr) /\ tr.value = 2 /\ tr.press = a.driver
    <3> DEFINE u == KeyOutput(a.owner, a.target, 2)
    <3>0. a.owner \in Owner \cup {NoDevice} /\ a.target \in Code /\ 2 \in {0, 1, 2} /\ a.owner # h
      BY <2>0, <2>2 DEF Activation, Owner
    <3>1. F[a] = <<u>>
      BY <2>0, <2>2, Zenon DEF EventSays
    <3>a. (u \in Entering(h) => h = a.owner) /\ u \notin Leaving(h)
      BY <3>0, KeyEffect
    <3>2. u \notin P /\ u \notin Q
      BY <3>0, <3>a
    <3> HIDE DEF u
    <3>3. After(v, <<u>>, P, Q) <=> u \in P \/ (v /\ u \notin Q)
      BY AfterOne
    <3>4. a \notin E
      BY <3>0
    <3> QED
      BY <3>1, <3>2, <3>3, <3>4, Zenon
  <2>3. CASE ~Ends(a, tr) /\ ~(tr.value = 2 /\ tr.press = a.driver)
    <3>1. F[a] = <<>>
      BY <2>0, <2>3, Zenon DEF EventSays
    <3>2. After(v, <<>>, P, Q) <=> v
      BY SaysNothing, Zenon DEF After
    <3>3. a \notin E
      BY <2>3
    <3> QED
      BY <3>1, <3>2, <3>3, Zenon
  <2> QED
    BY <2>1, <2>2, <2>3, Zenon
<1>4. Clears(A, F, P, Q, E)
  BY <1>3, Zenon DEF Clears
<1>5. F \in [A -> Seq(Operation)]
  BY <1>2, EventSaysType
<1>6. x.active \in Seq(A)
  BY <1>1, ToSetType
<1>7. Mapped(x.active, F) = Mapped(x.active, EventSays(tr))
  <2>1. Alike(x.active, F, x.active, EventSays(tr))
    BY <1>1, ToSetType DEF Alike
  <2> HIDE DEF F
  <2> QED
    BY <2>1, MappedSame, SMT
<1> HIDE DEF F, P, Q, A
<1>8. ClearsAll(x.active, F, P, Q, E)
  BY <1>4, <1>5, <1>6, AfterStops, Zenon
<1>9. After(b, Mapped(x.active, F), P, Q) <=> b /\ \A i \in DOMAIN x.active : x.active[i] \notin E
  BY <1>8, Zenon DEF ClearsAll
<1>10. (\A i \in DOMAIN x.active : x.active[i] \notin E) <=> ~Live(x, h)
  BY <1>1 DEF Live
<1> QED
  BY <1>7, <1>9, <1>10, Zenon DEF P, Q

(* One press at a time for a physical key.                                 *)
OneLife(x) == \A p, q \in x.physical : device(p) = device(q) /\ code(p) = code(q) => p = q

(* A valid press adds its key, a valid release removes it.                 *)
PhysicalMoves(x, y, d, event) ==
    LET p == EventPress(x, d, event) IN
    /\ Fresh(x, d, event) => y.physical = x.physical \cup {p}
    /\ Valid(x, d, event) /\ event.value = 0 => y.physical = x.physical \ {p}
    /\ ~Fresh(x, d, event) /\ ~(Valid(x, d, event) /\ event.value = 0) => y.physical = x.physical

LEMMA HandledPhysical ==
    ASSUME NEW x, Sound(x), Held(x), x.journal # <<>>, NEW d \in Device,
           Last(x.journal).device = d, NEW event \in InputEvent, NEW chatter \in BOOLEAN,
           Fresh(x, d, event) => FreeLives(x, d, event.code) # {} /\ chatter = FALSE
    PROVE  PhysicalMoves(x, Handled(x, d, event, chatter), d, event)
<1> DEFINE y == Handled(x, d, event, chatter)
           tr == TransitionOf(x, d, event)
<1>1. /\ Valid(x, d, event) => Moves(x.physical, tr, y.physical)
      /\ ~Valid(x, d, event) => y.physical = x.physical
  BY HandledMoves
<1>2. tr.press = EventPress(x, d, event) /\ tr.value = event.value
  BY DEF TransitionOf, Transition
<1> HIDE DEF y, tr
<1>3. PhysicalMoves(x, y, d, event)
  BY <1>1, <1>2 DEF Moves, PhysicalMoves, Fresh
<1> QED
  BY <1>3, Zenon DEF y

(* A press that starts finds its key up; one that is there stays or leaves. *)
LEMMA OneLifeMoves ==
    ASSUME NEW x \in Engines, OneLife(x), NEW y, NEW d \in Device, NEW event \in InputEvent,
           Fresh(x, d, event) => FreeLives(x, d, event.code) # {},
           PhysicalMoves(x, y, d, event)
    PROVE  OneLife(y)
<1> DEFINE p == EventPress(x, d, event)
<1>1. CASE Fresh(x, d, event)
  <2>1. PressAt(x, d, event.code) = NoPress /\ event.type = "key"
    BY <1>1 DEF Fresh, Valid
  <2>2. ~\E q \in x.physical : device(q) = d /\ code(q) = event.code
    <3>1. NoPress \notin x.physical
      BY PressFinite DEF Engines
    <3> QED
      BY <2>1, <3>1, PressAtIs
  <2>3. p \in Press
    BY <1>1, EventPressIs
  <2>4. device(p) = d /\ code(p) = event.code
    BY <2>1, <2>3, EventPressIs, PressFinite
  <2>5. y.physical = x.physical \cup {p}
    BY <1>1, Zenon DEF PhysicalMoves
  <2> HIDE DEF p
  <2> QED
    BY <2>2, <2>4, <2>5, Zenon DEF OneLife
<1>2. CASE ~Fresh(x, d, event)
  <2>1. y.physical \subseteq x.physical
    BY <1>2 DEF PhysicalMoves
  <2> QED
    BY <2>1, Zenon DEF OneLife
<1> QED
  BY <1>1, <1>2

-----------------------------------------------------------------------------
(* What the record of the event itself says.                               *)
HeadOps(x, d, event, chatter, fate) ==
    IF chatter THEN <<>> ELSE RecordOps(d, RecordEvent(event, EventPress(x, d, event)), fate)

LEMMA HeadSays ==
    ASSUME NEW x \in Engines, OneLife(x), NEW y \in Engines, NEW d \in Device,
           NEW event \in InputEvent, NEW chatter \in BOOLEAN,
           Fresh(x, d, event) => FreeLives(x, d, event.code) # {} /\ chatter = FALSE,
           Valid(x, d, event) /\ event.value = 0 => chatter = FALSE,
           PhysicalMoves(x, y, d, event),
           NEW old, NEW fate, \A q \in x.physical : old[q] = fate[q], NEW c \in Code
    PROVE  After(Wanted(x, old, d, c), HeadOps(x, d, event, chatter, fate),
                 Pressing(d, c), Releasing(d, c)) <=> Wanted(y, fate, d, c)
<1> DEFINE p == EventPress(x, d, event)
           s == HeadOps(x, d, event, chatter, fate)
           u == KeyOutput(d, event.code, event.value)
           Key == event.type = "key"
           Shown == p = NoPress \/ fate[p] = "forwarded"
           Down0 == \E q \in x.physical : device(q) = d /\ code(q) = c /\ old[q] = "forwarded"
           Down1 == \E q \in y.physical : device(q) = d /\ code(q) = c /\ fate[q] = "forwarded"
<1>1. /\ Wanted(x, old, d, c) <=> Down0
      /\ Wanted(y, fate, d, c) <=> Down1
  <2>1. Wanted(x, old, d, c) <=> Down0
    BY WantedDevice
  <2>2. Wanted(y, fate, d, c) <=> Down1
    BY WantedDevice
  <2> QED
    BY <2>1, <2>2
<1>2. Down0 <=> \E q \in x.physical : device(q) = d /\ code(q) = c /\ fate[q] = "forwarded"
  BY Zenon
<1>3. /\ ~chatter /\ Key /\ Shown => s = <<u>>
      /\ ~(~chatter /\ Key /\ Shown) => s = <<>>
  <2> DEFINE r == RecordEvent(event, p)
  <2>1. r.type = event.type /\ r.event = event /\ r.press = p
    BY DEF RecordEvent
  <2>2. event.type \in {"key", "msc", "led"}
    BY EventType
  <2>3. s = IF chatter THEN <<>> ELSE RecordOps(d, r, fate)
    BY DEF HeadOps
  <2> HIDE DEF r, p, s, u
  <2>4. RecordOps(d, r, fate) = IF Key /\ Shown THEN <<KeyOutput(d, event.code, event.value)>> ELSE <<>>
    BY <2>1, <2>2 DEF RecordOps
  <2> QED
    BY <2>3, <2>4, Zenon DEF u
<1>4. /\ Key => event.code \in Code /\ event.value \in {0, 1, 2}
      /\ Fresh(x, d, event) => p \in Press /\ p \notin x.physical /\ Key /\ event.value = 1
      /\ Valid(x, d, event) => Key
      /\ Valid(x, d, event) /\ event.value = 0 => p \in x.physical
      /\ Key /\ p # NoPress => device(p) = d /\ code(p) = event.code
      /\ NoPress \notin Press /\ NoPress \notin x.physical
  <2>1. x.physical \subseteq Referenced(x) /\ x.physical \subseteq Press
    BY ReferencedParts DEF Engines
  <2>2. Key => event.code \in Code /\ event.value \in {0, 1, 2}
    BY EventType
  <2>3. Fresh(x, d, event) => FreeLives(x, d, event.code) # {}
    OBVIOUS
  <2>4. /\ Fresh(x, d, event) => p \in Press /\ p \notin Referenced(x)
        /\ Valid(x, d, event) /\ event.value # 1 => p \in x.physical
        /\ Key /\ p # NoPress => device(p) = d /\ code(p) = event.code
    BY <2>3, EventPressIs
  <2>5. Valid(x, d, event) => Key
    BY DEF Valid
  <2>6. Fresh(x, d, event) => Valid(x, d, event) /\ event.value = 1
    BY DEF Fresh
  <2> QED
    BY <2>1, <2>2, <2>4, <2>5, <2>6, PressFinite
<1>5. /\ Fresh(x, d, event) => y.physical = x.physical \cup {p}
      /\ Valid(x, d, event) /\ event.value = 0 => y.physical = x.physical \ {p}
      /\ ~Fresh(x, d, event) /\ ~(Valid(x, d, event) /\ event.value = 0) => y.physical = x.physical
  BY Zenon DEF PhysicalMoves
<1> SUFFICES After(Wanted(x, old, d, c), s, Pressing(d, c), Releasing(d, c)) <=> Wanted(y, fate, d, c)
  OBVIOUS
<1> HIDE DEF s, u
<1>6. CASE ~(~chatter /\ Key /\ Shown)
  <2>1. s = <<>>
    BY <1>3, <1>6, Zenon
  <2>2. After(Down0, s, Pressing(d, c), Releasing(d, c)) <=> Down0
    BY <2>1, SaysNothing, Zenon DEF After
  <2>3. CASE Fresh(x, d, event)
    <3>1. fate[p] # "forwarded" /\ y.physical = x.physical \cup {p}
      BY <1>4, <1>5, <1>6, <2>3
    <3> HIDE DEF p
    <3>2. Down0 <=> Down1
      BY <1>2, <3>1, Zenon
    <3> QED
      BY <1>1, <2>2, <3>2, Zenon DEF After
  <2>4. CASE Valid(x, d, event) /\ event.value = 0
    <3>1. fate[p] # "forwarded" /\ y.physical = x.physical \ {p}
      BY <1>4, <1>5, <1>6, <2>4
    <3> HIDE DEF p
    <3>2. Down0 <=> Down1
      BY <1>2, <3>1
    <3> QED
      BY <1>1, <2>2, <3>2, Zenon DEF After
  <2>5. CASE ~Fresh(x, d, event) /\ ~(Valid(x, d, event) /\ event.value = 0)
    <3>1. Down0 <=> Down1
      BY <1>2, <1>5, <2>5, Zenon
    <3> QED
      BY <1>1, <2>2, <3>1, Zenon DEF After
  <2> QED
    BY <2>3, <2>4, <2>5, Zenon
<1>7. CASE ~chatter /\ Key /\ Shown
  <2>1. s = <<u>> /\ event.code \in Code /\ event.value \in {0, 1, 2}
    BY <1>3, <1>4, <1>7, Zenon
  <2>2. d \in Owner \cup {NoDevice}
    BY DEF Owner
  <2>3. /\ u \in Pressing(d, c) <=> c = event.code /\ event.value = 1
        /\ u \in Releasing(d, c) <=> c = event.code /\ event.value = 0
    <3>1. /\ \A k : u \in Pressing(d, k) <=> k = event.code /\ event.value = 1
          /\ \A k : u \in Releasing(d, k) <=> k = event.code /\ event.value = 0
      BY <2>1, <2>2, KeyEffect DEF u
    <3> QED
      BY <3>1, Zenon
  <2>4. After(Down0, <<u>>, Pressing(d, c), Releasing(d, c))
          <=> u \in Pressing(d, c) \/ (Down0 /\ u \notin Releasing(d, c))
    BY AfterOne
  <2>5. After(Wanted(x, old, d, c), s, Pressing(d, c), Releasing(d, c))
          <=> u \in Pressing(d, c) \/ (Down0 /\ u \notin Releasing(d, c))
    BY <1>1, <2>1, <2>4, Zenon DEF After
  <2>6. PressAt(x, d, event.code) = p \/ Fresh(x, d, event)
    BY <1>7 DEF EventPress, Fresh
  <2>7. /\ PressAt(x, d, event.code) = NoPress
              => ~\E q \in x.physical : device(q) = d /\ code(q) = event.code
        /\ PressAt(x, d, event.code) # NoPress => PressAt(x, d, event.code) \in x.physical
    BY <1>4, PressAtIs
  <2>8. CASE event.value = 1
    <3>1. CASE Fresh(x, d, event)
      <4>1. y.physical = x.physical \cup {p} /\ fate[p] = "forwarded"
            /\ device(p) = d /\ code(p) = event.code
        BY <1>4, <1>5, <1>7, <3>1
      <4> HIDE DEF p
      <4>2. Down1 <=> c = event.code \/ Down0
        BY <1>2, <4>1, Zenon
      <4> QED
        BY <1>1, <2>3, <2>5, <2>8, <4>2
    <3>2. CASE ~Fresh(x, d, event)
      <4>1. PressAt(x, d, event.code) # NoPress
        BY <1>7, <2>8, <3>2 DEF Fresh, Valid
      <4>2. p \in x.physical /\ fate[p] = "forwarded" /\ device(p) = d /\ code(p) = event.code
        BY <1>4, <1>7, <2>6, <2>7, <3>2, <4>1
      <4>3. y.physical = x.physical
        BY <1>5, <2>8, <3>2
      <4> HIDE DEF p
      <4>4. Down1 <=> c = event.code \/ Down0
        BY <1>2, <4>2, <4>3, Zenon
      <4> QED
        BY <1>1, <2>3, <2>5, <2>8, <4>4
    <3> QED
      BY <3>1, <3>2
  <2>9. CASE event.value = 0
    <3>0. ~Fresh(x, d, event)
      BY <2>9 DEF Fresh
    <3>1. CASE Valid(x, d, event)
      <4>1. y.physical = x.physical \ {p} /\ p \in x.physical
            /\ device(p) = d /\ code(p) = event.code
        BY <1>4, <1>5, <1>7, <2>9, <3>1
      <4> HIDE DEF p
      <4>2. Down1 <=> c # event.code /\ Down0
        BY <1>2, <4>1 DEF OneLife
      <4> QED
        BY <1>1, <2>3, <2>5, <2>9, <4>2
    <3>2. CASE ~Valid(x, d, event)
      <4>1. PressAt(x, d, event.code) = NoPress
        BY <1>7, <2>9, <3>2 DEF Valid
      <4>2. ~\E q \in x.physical : device(q) = d /\ code(q) = event.code
        BY <2>7, <4>1, Zenon
      <4>3. y.physical = x.physical
        BY <1>5, <2>9, <3>0, <3>2
      <4>4. Down1 <=> c # event.code /\ Down0
        BY <1>2, <4>2, <4>3, Zenon
      <4> QED
        BY <1>1, <2>3, <2>5, <2>9, <4>4
    <3> QED
      BY <3>1, <3>2
  <2>10. CASE event.value = 2
    <3>1. y.physical = x.physical
      BY <1>5, <2>10 DEF Fresh
    <3>2. Down0 <=> Down1
      BY <1>2, <3>1, Zenon
    <3> QED
      BY <1>1, <2>3, <2>5, <2>10, <3>2
  <2> QED
    BY <2>1, <2>8, <2>9, <2>10
<1> QED
  BY <1>6, <1>7, Zenon

(* Nothing that is to be kept gets lost.                                   *)
KeptHas(s, P) == \A i \in DOMAIN s : s[i] \in P => \E k \in DOMAIN Kept(s, P) : Kept(s, P)[k] = s[i]

LEMMA KeptAll ==
    ASSUME NEW A, NEW P
    PROVE  \A s \in Seq(A) : KeptHas(s, P)
<1> DEFINE S == {u \in Seq(A) : KeptHas(u, P)}
<1>1. <<>> \in S
  <2>1. KeptHas(<<>>, P)
    BY DEF KeptHas
  <2> QED
    BY <2>1
<1>2. ASSUME NEW u \in S, NEW a \in A PROVE Append(u, a) \in S
  <2>1. u \in Seq(A) /\ KeptHas(u, P)
    OBVIOUS
  <2>2. /\ Append(u, a) \in Seq(A)
        /\ Kept(Append(u, a), P) = IF a \in P THEN Append(Kept(u, P), a) ELSE Kept(u, P)
    BY <2>1, KeptAppend
  <2>3. Kept(u, P) \in Seq(A)
    BY <2>1, KeptFrom
  <2>4. PICK t \in Seq(A) : t = Kept(u, P)
    BY <2>3, Zenon
  <2>5. PICK w : w = Kept(Append(u, a), P)
    OBVIOUS
  <2>6. w = IF a \in P THEN Append(t, a) ELSE t
    BY <2>2, <2>4, <2>5, Zenon
  <2>7. \A i \in DOMAIN u : u[i] \in P => \E k \in DOMAIN t : t[k] = u[i]
    BY <2>1, <2>4, Zenon DEF KeptHas
  <2>8. ASSUME NEW i \in DOMAIN Append(u, a), Append(u, a)[i] \in P
        PROVE  \E k \in DOMAIN w : w[k] = Append(u, a)[i]
    <3>1. CASE i \in DOMAIN u
      <4>1. Append(u, a)[i] = u[i]
        BY <2>1, <3>1
      <4>2. PICK k \in DOMAIN t : t[k] = u[i]
        BY <2>7, <2>8, <3>1, <4>1
      <4>3. k \in DOMAIN w /\ w[k] = t[k]
        BY <2>6, <4>2
      <4> QED
        BY <4>1, <4>2, <4>3
    <3>2. CASE i \notin DOMAIN u
      <4>1. Append(u, a)[i] = a
        BY <2>1, <3>2
      <4>2. w = Append(t, a)
        BY <2>6, <2>8, <4>1
      <4>3. Len(t) + 1 \in DOMAIN w /\ w[Len(t) + 1] = a
        BY <4>2
      <4> QED
        BY <4>1, <4>3
    <3> QED
      BY <3>1, <3>2
  <2>9. KeptHas(Append(u, a), P)
    BY <2>5, <2>8, Zenon DEF KeptHas
  <2> QED
    BY <2>2, <2>9
<1> HIDE DEF S
<1>3. S \in SUBSET Seq(A)
  BY DEF S
<1>4. S = Seq(A)
  BY <1>1, <1>2, <1>3, SeqInduction
<1> QED
  BY <1>4, Zenon DEF S

LEMMA KeptSet ==
    ASSUME NEW A, NEW s \in Seq(A), NEW P
    PROVE  ToSet(Kept(s, P)) = ToSet(s) \cap P
<1>1. PICK t : t = Kept(s, P)
  OBVIOUS
<1>2. t \in Seq(A) /\ \A m \in DOMAIN t : t[m] \in P /\ \E n \in DOMAIN s : t[m] = s[n]
  BY <1>1, KeptFrom
<1>3. KeptHas(s, P)
  BY KeptAll, Zenon
<1>4. \A i \in DOMAIN s : s[i] \in P => \E k \in DOMAIN t : t[k] = s[i]
  BY <1>1, <1>3, Zenon DEF KeptHas
<1>5. ToSet(t) = ToSet(s) \cap P
  BY <1>2, <1>4 DEF ToSet
<1> QED
  BY <1>1, <1>5, Zenon

-----------------------------------------------------------------------------
(* What the remaps say to an event.                                        *)
SaidBy(x, d, event) ==
    IF Valid(x, d, event) THEN Mapped(x.active, EventSays(TransitionOf(x, d, event))) ELSE <<>>

LEMMA SaidKeys ==
    ASSUME NEW x \in Engines, NEW d, NEW event, NEW o, NEW c, NEW b \in BOOLEAN
    PROVE  After(b, SaidBy(x, d, event), Pressing(o, c), Releasing(o, c))
             <=> b /\ (Valid(x, d, event) =>
                         \A a \in ToSet(x.active) :
                            ~(a.owner = o /\ Ends(a, TransitionOf(x, d, event))))
<1>1. CASE Valid(x, d, event)
  BY <1>1, EventSaysRelease, Zenon DEF SaidBy
<1>2. CASE ~Valid(x, d, event)
  BY <1>2, SaysNothing, Zenon DEF SaidBy, After
<1> QED
  BY <1>1, <1>2, Zenon

LEMMA HandledOps ==
    ASSUME NEW x, Sound(x), x.journal # <<>>, NEW d \in Device,
           Last(x.journal).device = d, NEW event \in InputEvent, NEW chatter \in BOOLEAN,
           Fresh(x, d, event) => FreeLives(x, d, event.code) # {} /\ chatter = FALSE, NEW fate
    PROVE  /\ HeadOps(x, d, event, chatter, fate) \in Seq(Operation)
           /\ SaidBy(x, d, event) \in Seq(Operation)
           /\ Ops(Handled(x, d, event, chatter), fate) =
                Ops(x, fate) \o (HeadOps(x, d, event, chatter, fate) \o SaidBy(x, d, event))
<1> DEFINE v == Ingested(x, d, event)
           w == Ended(x, d, event)
           tr == TransitionOf(x, d, event)
           valid == Valid(x, d, event)
           p == EventPress(x, d, event)
           r == RecordEvent(event, p)
           head == IF chatter THEN <<>> ELSE <<r>>
           tail == Outputs(v, tr, valid)
           records == Records(v, tr, valid, chatter, event, p)
           T == RecordFn(d, fate)
<1>0. x \in Engines /\ d \in Device \cup {NoDevice}
  BY DEF Sound
<1>1. v \in Engines /\ w \in Engines /\ v.active = x.active /\ w.journal = x.journal
  <2>1. Fresh(x, d, event) => FreeLives(x, d, event.code) # {}
    OBVIOUS
  <2> QED
    BY <2>1, EndedParts
<1>2. p \in Press \cup {NoPress} /\ (event.type # "key" => p = NoPress)
  BY <1>0, EventPressIs
<1>3. records \in Seq(Record) /\ (~chatter => r \in Record)
  <2>1. /\ EventRecords(v, event, p) \in SUBSET Record
        /\ records \in Seq(EventRecords(v, event, p))
    BY <1>1, <1>2, RecordsType
  <2>2. r \in EventRecords(v, event, p)
    BY DEF EventRecords
  <2> HIDE DEF r, p, records, v
  <2>3. records \in Seq(Record)
    BY <2>1
  <2> QED
    BY <2>1, <2>2, <2>3
<1>4. head \in Seq(Record)
  <2> HIDE DEF r
  <2> QED
    BY <1>3
<1>5. tail \in Seq(Record)
  <2>1. ActivationEvents(v, tr) \in Seq(OfActive(v)) /\ OfActive(v) \subseteq Record
    BY <1>1, ActivationEventsType DEF OfActive
  <2>2. ActivationEvents(v, tr) \in Seq(Record)
    <3> HIDE DEF v, tr
    <3> QED
      BY <2>1
  <2> QED
    BY <2>2 DEF Outputs
<1>6. records = head \o tail
  BY DEF Records
<1>7. T \in [Record -> Seq(Operation)]
  BY <1>0, RecordFnType, Zenon
<1>8. Ops(Recorded(w, records), fate) = Ops(w, fate) \o Mapped(records, T)
  <2> HIDE DEF w, records
  <2> QED
    BY <1>1, <1>3, RecordedOps
<1>9. Ops(w, fate) = Ops(x, fate)
  BY <1>1, Zenon DEF Ops
<1>10. Mapped(records, T) = Mapped(head, T) \o Mapped(tail, T)
  <2> HIDE DEF head, tail, T, records
  <2>1. Distributes(head, tail, T)
    BY <1>4, <1>5, <1>7, MappedConcat, Zenon
  <2> QED
    BY <1>6, <2>1, Zenon DEF Distributes
<1>11. Mapped(head, T) = HeadOps(x, d, event, chatter, fate)
  <2>1. CASE chatter
    BY <2>1, MappedEmpty, Zenon DEF HeadOps
  <2>2. CASE ~chatter
    <3>1. Mapped(<<r>>, T) = T[r]
      <4> HIDE DEF r, T
      <4> QED
        BY <1>3, <1>7, <2>2, MappedOne
    <3>2. T[r] = RecordOps(d, r, fate)
      BY <1>3, <2>2, Zenon DEF RecordFn
    <3> QED
      BY <2>2, <3>1, <3>2, Zenon DEF HeadOps
  <2> QED
    BY <2>1, <2>2, Zenon
<1>12. Mapped(tail, T) = SaidBy(x, d, event) /\ SaidBy(x, d, event) \in Seq(Operation)
  <2>1. CASE valid
    <3>1. /\ Mapped(v.active, EventSays(tr)) \in Seq(Operation)
          /\ Mapped(ActivationEvents(v, tr), T) = Mapped(v.active, EventSays(tr))
      <4> HIDE DEF v, tr
      <4> QED
        BY <1>0, <1>1, ActivationEventsSay
    <3> QED
      BY <1>1, <2>1, <3>1, Zenon DEF Outputs, SaidBy
  <2>2. CASE ~valid
    <3>1. <<>> \in Seq(Operation)
      OBVIOUS
    <3> QED
      BY <2>2, <3>1, MappedEmpty, Zenon DEF Outputs, SaidBy
  <2> QED
    BY <2>1, <2>2
<1>13. Mapped(head, T) \in Seq(Operation)
  <2> HIDE DEF head, T
  <2> QED
    BY <1>4, <1>7, MappedType, Zenon
<1>14. Handled(x, d, event, chatter) = Recorded(w, records)
  BY Zenon DEF Handled
<1> QED
  BY <1>8, <1>9, <1>10, <1>11, <1>12, <1>13, <1>14, Zenon

(* An event reaches its own keyboard through its record, the remaps        *)
(* through theirs.                                                         *)
LEMMA HeadSilent ==
    ASSUME NEW x \in Engines, NEW d \in Device, NEW event \in InputEvent, NEW chatter \in BOOLEAN,
           NEW fate, NEW o, o # d
    PROVE  Silent(HeadOps(x, d, event, chatter, fate), o)
<1> DEFINE p == EventPress(x, d, event)
           r == RecordEvent(event, p)
           u == KeyOutput(d, event.code, event.value)
<1>1. HeadOps(x, d, event, chatter, fate) \in {<<>>, <<u>>}
  <2>1. r.type = event.type /\ r.event = event /\ event.type # "output"
    BY EventType DEF RecordEvent
  <2> HIDE DEF r
  <2>2. RecordOps(d, r, fate) \in {<<>>, <<u>>}
    BY <2>1 DEF RecordOps
  <2> QED
    BY <2>2, Zenon DEF HeadOps, r
<1>2. ~Names(u, o)
  BY DEF KeyOutput, Names
<1> HIDE DEF u
<1> QED
  BY <1>1, <1>2 DEF Silent

(* Exactly the remaps that the transition ends are gone.                   *)
ActiveMoves(x, y, d, event) ==
    /\ Valid(x, d, event) =>
         ToSet(y.active) = {a \in ToSet(x.active) : ~Ends(a, TransitionOf(x, d, event))}
    /\ ~Valid(x, d, event) => y.active = x.active

LEMMA HandledActive ==
    ASSUME NEW x, Sound(x), x.journal # <<>>, NEW d \in Device,
           NEW event \in InputEvent, NEW chatter \in BOOLEAN,
           Fresh(x, d, event) => FreeLives(x, d, event.code) # {}
    PROVE  ActiveMoves(x, Handled(x, d, event, chatter), d, event)
<1> DEFINE v == Ingested(x, d, event)
           w == Ended(x, d, event)
           y == Handled(x, d, event, chatter)
           tr == TransitionOf(x, d, event)
           P == {a \in ToSet(v.active) : ~Ends(a, tr)}
<1>1. v \in Engines /\ v.active = x.active
  BY EndedParts
<1>2. y.active = w.active
  BY DEF Handled, Recorded
<1>3. CASE Valid(x, d, event)
  <2>1. w = EndActivations(v, tr)
    BY <1>3, Zenon DEF Ended
  <2> HIDE DEF v, tr
  <2>2. EndActivations(v, tr).active = Kept(v.active, P)
    BY <1>1 DEF EndActivations, Engines
  <2>3. v.active \in Seq(Activation)
    BY <1>1 DEF Engines
  <2>4. ToSet(Kept(v.active, P)) = ToSet(v.active) \cap P
    BY <2>3, KeptSet
  <2>5. ToSet(v.active) \cap P = {a \in ToSet(x.active) : ~Ends(a, tr)}
    BY <1>1
  <2>6. ToSet(y.active) = {a \in ToSet(x.active) : ~Ends(a, tr)}
    BY <1>2, <2>1, <2>2, <2>4, <2>5, Zenon
  <2> QED
    BY <1>3, <2>6, Zenon DEF tr, ActiveMoves
<1>4. CASE ~Valid(x, d, event)
  <2>1. w = v
    BY <1>4, Zenon DEF Ended
  <2> QED
    BY <1>1, <1>2, <1>4, <2>1, Zenon DEF ActiveMoves
<1> QED
  BY <1>3, <1>4, Zenon DEF ActiveMoves

(* Which presses of x are still known once the event is recorded.          *)
LEMMA HandledReferenced ==
    ASSUME NEW x, Sound(x), Held(x), x.journal # <<>>, NEW d \in Device,
           Last(x.journal).device = d, NEW event \in InputEvent, NEW chatter \in BOOLEAN,
           Fresh(x, d, event) => FreeLives(x, d, event.code) # {} /\ chatter = FALSE,
           Valid(x, d, event) /\ event.value = 0 => chatter = FALSE
    PROVE  LET y == Handled(x, d, event, chatter) IN
           x.physical \cup JournalPresses(x) \subseteq Referenced(y)
<1> DEFINE v == Ingested(x, d, event)
           w == Ended(x, d, event)
           tr == TransitionOf(x, d, event)
           p == EventPress(x, d, event)
           records == Records(v, tr, Valid(x, d, event), chatter, event, p)
           y == Handled(x, d, event, chatter)
<1>1. HandledFacts(x, d, event, chatter)
  BY HandledKeeps
<1>2. JournalPresses(x) \subseteq JournalPresses(y)
  BY <1>1 DEF HandledFacts
<1>3. y.physical \subseteq Referenced(y) /\ JournalPresses(y) \subseteq Referenced(y)
  BY ReferencedParts
<1>4. PhysicalMoves(x, y, d, event)
  BY HandledPhysical
<1>5. ~chatter => p \in JournalPresses(y)
  <2> SUFFICES ASSUME chatter = FALSE PROVE p \in JournalPresses(y)
    OBVIOUS
  <2>0. x \in Engines /\ DeviceOrOutputs(x)
    BY DEF Sound
  <2>a. Fresh(x, d, event) => FreeLives(x, d, event.code) # {}
    OBVIOUS
  <2>1. v \in Engines /\ w \in Engines /\ w.journal = x.journal
    BY <2>a, EndedParts
  <2>2. p \in Press \cup {NoPress} /\ (event.type # "key" => p = NoPress)
    BY <2>0, <2>a, EventPressIs
  <2>3. /\ EventRecords(v, event, p) \in SUBSET Record
        /\ records \in Seq(EventRecords(v, event, p))
        /\ RecordEvent(event, p) \in ToSet(records)
    BY <2>1, <2>2, RecordsType
  <2>4. w.journal # <<>> /\ Last(w.journal).device \in Device /\ DeviceOrOutputs(w)
    BY <2>0, <2>1 DEF DeviceOrOutputs
  <2>5. y = Recorded(w, records)
    BY Zenon DEF Handled
  <2>6. RecordEvent(event, p).press = p
    BY DEF RecordEvent
  <2> HIDE DEF w, y, records, v, p
  <2>7. \A k \in DOMAIN records : records[k].press \in JournalPresses(y)
    BY <2>1, <2>3, <2>4, <2>5, RecordedKeeps
  <2>8. PICK k \in DOMAIN records : records[k] = RecordEvent(event, p)
    BY <2>3 DEF ToSet
  <2> QED
    BY <2>6, <2>7, <2>8
<1>6. x.physical \subseteq y.physical \cup JournalPresses(y)
  <2> HIDE DEF y, p
  <2>1. CASE Fresh(x, d, event)
    BY <1>4, <2>1 DEF PhysicalMoves
  <2>2. CASE Valid(x, d, event) /\ event.value = 0
    <3>1. y.physical = x.physical \ {p} /\ ~chatter
      BY <1>4, <2>2 DEF PhysicalMoves, p
    <3> QED
      BY <1>5, <3>1
  <2>3. CASE ~Fresh(x, d, event) /\ ~(Valid(x, d, event) /\ event.value = 0)
    BY <1>4, <2>3 DEF PhysicalMoves
  <2> QED
    BY <2>1, <2>2, <2>3
<1> HIDE DEF y
<1>7. x.physical \cup JournalPresses(x) \subseteq Referenced(y)
  BY <1>2, <1>3, <1>6
<1> QED
  BY <1>7, Zenon DEF y

LEMMA HandledFollows ==
    ASSUME NEW x, Sound(x), Held(x), OneLife(x), x.journal # <<>>, NEW d \in Device,
           Last(x.journal).device = d, NEW event \in InputEvent, NEW chatter \in BOOLEAN,
           Fresh(x, d, event) => FreeLives(x, d, event.code) # {} /\ chatter = FALSE,
           Valid(x, d, event) /\ event.value = 0 => chatter = FALSE,
           NEW old, NEW fate, \A q \in x.physical : old[q] = fate[q], NEW o \in Owner
    PROVE  Follows(x, old, Handled(x, d, event, chatter), fate,
                   HeadOps(x, d, event, chatter, fate) \o SaidBy(x, d, event), o)
<1> DEFINE y == Handled(x, d, event, chatter)
           s == HeadOps(x, d, event, chatter, fate)
           t == SaidBy(x, d, event)
           tr == TransitionOf(x, d, event)
           valid == Valid(x, d, event)
<1> SUFFICES Follows(x, old, y, fate, s \o t, o)
  OBVIOUS
<1>0. x \in Engines /\ y \in Engines
  <2>1. HandledFacts(x, d, event, chatter)
    BY HandledKeeps
  <2> QED
    BY <2>1 DEF HandledFacts, Sound
<1>1. s \in Seq(Operation) /\ t \in Seq(Operation)
  BY HandledOps
<1>2. PhysicalMoves(x, y, d, event)
  BY HandledPhysical
<1>3. /\ valid => ToSet(y.active) = {a \in ToSet(x.active) : ~Ends(a, tr)}
      /\ ~valid => y.active = x.active
  <2>1. Fresh(x, d, event) => FreeLives(x, d, event.code) # {}
    OBVIOUS
  <2> QED
    <3>1. ActiveMoves(x, y, d, event)
      BY <2>1, HandledActive, Zenon
    <3> QED
      BY <3>1, Zenon DEF ActiveMoves
<1>4. ASSUME NEW c \in Code
      PROVE  After(Wanted(x, old, o, c), s \o t, Pressing(o, c), Releasing(o, c))
               <=> After(After(Wanted(x, old, o, c), s, Pressing(o, c), Releasing(o, c)), t,
                         Pressing(o, c), Releasing(o, c))
  BY <1>1, AfterConcat, Zenon
<1>5. ASSUME NEW c \in Code, NEW b \in BOOLEAN
      PROVE  After(b, t, Pressing(o, c), Releasing(o, c))
               <=> b /\ (valid => \A a \in ToSet(x.active) : ~(a.owner = o /\ Ends(a, tr)))
  BY <1>0, SaidKeys, Zenon
<1>6. o # d => Silent(s, o)
  BY <1>0, HeadSilent
<1> HIDE DEF y, s, t, tr, valid
<1>7. CASE o = d
  <2>1. o \notin HoldDevice
    BY <1>7, OwnerAssumption
  <2>2. ASSUME NEW c \in Code
        PROVE  After(Wanted(x, old, o, c), s \o t, Pressing(o, c), Releasing(o, c))
                 <=> Wanted(y, fate, o, c)
    <3>1. After(Wanted(x, old, d, c), s, Pressing(d, c), Releasing(d, c)) <=> Wanted(y, fate, d, c)
      BY <1>0, <1>2, HeadSays DEF s
    <3>2. After(Wanted(x, old, o, c), s, Pressing(o, c), Releasing(o, c)) <=> Wanted(y, fate, o, c)
      BY <1>7, <3>1, Zenon
    <3>3. After(Wanted(x, old, o, c), s, Pressing(o, c), Releasing(o, c)) \in BOOLEAN
      BY Zenon DEF After
    <3>4. \A a \in ToSet(x.active) : a.owner # o
      BY <1>0, <1>7, ActiveOwners, OwnerAssumption
    <3>5. After(After(Wanted(x, old, o, c), s, Pressing(o, c), Releasing(o, c)), t,
                         Pressing(o, c), Releasing(o, c))
            <=> After(Wanted(x, old, o, c), s, Pressing(o, c), Releasing(o, c))
      BY <1>5, <3>3, <3>4, Zenon
    <3> QED
      BY <1>4, <3>2, <3>5, Zenon
  <2> QED
    BY <2>1, <2>2, Zenon DEF Follows
<1>8. ASSUME o # d, NEW c \in Code
      PROVE  After(Wanted(x, old, o, c), s \o t, Pressing(o, c), Releasing(o, c))
               <=> Wanted(x, old, o, c)
                     /\ (valid => \A a \in ToSet(x.active) : ~(a.owner = o /\ Ends(a, tr)))
  <2>1. After(Wanted(x, old, o, c), s, Pressing(o, c), Releasing(o, c)) <=> Wanted(x, old, o, c)
    <3>1. ~Sets(s, Pressing(o, c), Releasing(o, c)) /\ Keeps(s, Releasing(o, c))
      BY <1>1, <1>6, <1>8, SilentKeeps, Zenon
    <3> QED
      BY <3>1, Zenon DEF After
  <2>2. After(Wanted(x, old, o, c), s, Pressing(o, c), Releasing(o, c)) \in BOOLEAN
    BY Zenon DEF After
  <2>3. After(After(Wanted(x, old, o, c), s, Pressing(o, c), Releasing(o, c)), t,
                         Pressing(o, c), Releasing(o, c))
          <=> After(Wanted(x, old, o, c), s, Pressing(o, c), Releasing(o, c))
                /\ (valid => \A a \in ToSet(x.active) : ~(a.owner = o /\ Ends(a, tr)))
    BY <1>5, <2>2, Zenon
  <2> QED
    BY <1>4, <2>1, <2>3, Zenon
<1>9. CASE o \in HoldDevice
  <2>1. o # d
    BY <1>9, OwnerAssumption
  <2>2. \A a, b \in ToSet(x.active) : a.owner = b.owner => a = b
    <3>1. OneOwner(x.active)
      BY DEF Held, Remaps
    <3> QED
      BY <3>1 DEF OneOwner, ToSet
  <2>3. ASSUME NEW c \in Code
        PROVE  After(Wanted(x, old, o, c), s \o t, Pressing(o, c), Releasing(o, c))
                 <=> Wanted(y, fate, o, c)
    <3>1. /\ Wanted(x, old, o, c) <=> \E a \in ToSet(x.active) : a.owner = o /\ a.target = c
          /\ Wanted(y, fate, o, c) <=> \E a \in ToSet(y.active) : a.owner = o /\ a.target = c
      BY <1>0, <1>9, WantedHold
    <3>2. Wanted(y, fate, o, c)
            <=> Wanted(x, old, o, c)
                  /\ (valid => \A a \in ToSet(x.active) : ~(a.owner = o /\ Ends(a, tr)))
      BY <1>3, <2>2, <3>1
    <3> QED
      BY <1>8, <2>1, <3>2, Zenon
  <2>4. ASSUME After(Live(x, o), s \o t, Entering(o), Leaving(o)), ~Live(y, o) PROVE FALSE
    <3>1. After(Live(x, o), s \o t, Entering(o), Leaving(o))
            <=> After(After(Live(x, o), s, Entering(o), Leaving(o)), t, Entering(o), Leaving(o))
      BY <1>1, AfterConcat, Zenon
    <3>2. After(Live(x, o), s, Entering(o), Leaving(o)) <=> Live(x, o)
      <4>1. ~Sets(s, Entering(o), Leaving(o)) /\ Keeps(s, Leaving(o))
        BY <1>1, <1>6, <2>1, SilentKeeps, Zenon
      <4> QED
        BY <4>1, Zenon DEF After
    <3>3. After(Live(x, o), t, Entering(o), Leaving(o))
      BY <2>4, <3>1, <3>2, Zenon DEF After
    <3>4. Live(x, o) \in BOOLEAN /\ (Live(y, o) <=> \E a \in ToSet(y.active) : a.owner = o)
      <4>1. Live(y, o) <=> \E a \in ToSet(y.active) : a.owner = o
        BY <1>0, LiveIs, Zenon
      <4> QED
        BY <4>1, Zenon DEF Live
    <3>5. CASE valid
      <4>1. \A a \in ToSet(x.active) : a.owner = o => Ends(a, tr)
        BY <1>3, <2>4, <3>4, <3>5
      <4>2. After(Live(x, o), Mapped(x.active, EventSays(tr)), Entering(o), Leaving(o))
              <=> Live(x, o) /\ ~Live(x, o)
        BY <1>0, <3>4, <4>1, EventSaysForget, Zenon
      <4>3. t = Mapped(x.active, EventSays(tr))
        BY <3>5, Zenon DEF t, SaidBy, valid, tr
      <4> QED
        BY <3>3, <4>2, <4>3, Zenon
    <3>6. CASE ~valid
      <4>1. t = <<>>
        BY <3>6, Zenon DEF t, SaidBy, valid
      <4>2. Live(x, o)
        BY <3>3, <4>1, SaysNothing, Zenon DEF After
      <4> QED
        BY <1>3, <2>4, <3>6, <4>2, Zenon DEF Live
    <3> QED
      BY <3>5, <3>6
  <2> QED
    BY <2>3, <2>4, Zenon DEF Follows
<1>10. CASE o # d /\ o \notin HoldDevice
  <2>1. \A a \in ToSet(x.active) : a.owner # o
    BY <1>0, <1>10, ActiveOwners
  <2>2. ASSUME NEW c \in Code PROVE Wanted(x, old, o, c) <=> Wanted(y, fate, o, c)
    <3>1. CASE o \in Device
      <4>1. /\ Wanted(x, old, o, c)
                 <=> \E q \in x.physical : device(q) = o /\ code(q) = c /\ old[q] = "forwarded"
            /\ Wanted(y, fate, o, c)
                 <=> \E q \in y.physical : device(q) = o /\ code(q) = c /\ fate[q] = "forwarded"
        BY <1>0, <3>1, WantedDevice
      <4>2. \A q : device(q) = o => (q \in x.physical <=> q \in y.physical)
        <5> DEFINE p == EventPress(x, d, event)
        <5>1. Fresh(x, d, event) \/ (valid /\ event.value = 0) => device(p) = d
          <6>1. Fresh(x, d, event) => FreeLives(x, d, event.code) # {}
            OBVIOUS
          <6>2. /\ Fresh(x, d, event) => p \in Press
                /\ valid /\ event.value # 1 => p \in x.physical
                /\ event.type = "key" /\ p # NoPress => device(p) = d
            BY <1>0, <6>1, EventPressIs DEF valid
          <6>3. valid => event.type = "key"
            BY DEF valid, Valid
          <6>4. Fresh(x, d, event) => valid
            BY DEF Fresh, valid
          <6> HIDE DEF p
          <6> QED
            BY <1>0, <6>2, <6>3, <6>4, PressFinite DEF Engines
        <5> QED
          BY <1>2, <1>10, <5>1 DEF PhysicalMoves, valid
      <4> QED
        BY <4>1, <4>2
    <3>2. CASE o = TapDevice
      BY <1>0, <3>2, WantedTap, Zenon
    <3> QED
      BY <1>10, <3>1, <3>2 DEF Owner
  <2>3. ASSUME NEW c \in Code
        PROVE  After(Wanted(x, old, o, c), s \o t, Pressing(o, c), Releasing(o, c))
                 <=> Wanted(y, fate, o, c)
    BY <1>8, <1>10, <2>1, <2>2, Zenon
  <2> QED
    BY <1>10, <2>3, Zenon DEF Follows
<1> QED
  BY <1>7, <1>9, <1>10

(* One event of a frame keeps Flow: the keyboard's record and the remaps'  *)
(* outputs follow what is wanted.                                          *)
LEMMA HandledFlow ==
    ASSUME NEW x, Sound(x), Held(x), OneLife(x), x.journal # <<>>, NEW d \in Device,
           Last(x.journal).device = d, NEW event \in InputEvent, NEW chatter \in BOOLEAN,
           Fresh(x, d, event) => FreeLives(x, d, event.code) # {} /\ chatter = FALSE,
           Valid(x, d, event) /\ event.value = 0 => chatter = FALSE,
           NEW keys, NEW names, Flow(x, keys, names, Owner)
    PROVE  Flow(Handled(x, d, event, chatter), keys, names, Owner)
<1> DEFINE y == Handled(x, d, event, chatter)
<1>1. HandledFacts(x, d, event, chatter)
  BY HandledKeeps
<1>2. x \in Engines /\ y \in Engines
  BY <1>1 DEF HandledFacts, Sound
<1>3. PICK N \in SUBSET Press : N \cap Referenced(x) = {} /\ Evolves(x, y, N)
  <2>1. LET p == EventPress(x, d, event)
            N == IF Fresh(x, d, event) THEN {p} ELSE {}
        IN N \in SUBSET Press /\ N \cap Referenced(x) = {} /\ Evolves(x, y, N)
    BY <1>1, Zenon DEF HandledFacts
  <2> QED
    BY <2>1, Zenon
<1>4. x.physical \cup JournalPresses(x) \subseteq Referenced(y)
  BY HandledReferenced
<1>5. x.physical \cup JournalPresses(x) \subseteq Referenced(x)
  BY ReferencedParts
<1>6. ASSUME NEW fate \in Fates, Agrees(y, fate)
      PROVE  \E old, s : FlowsBy(x, old, y, fate, s, Owner, Owner)
  <2> DEFINE old == Completed(x, fate)
             head == HeadOps(x, d, event, chatter, fate)
             said == SaidBy(x, d, event)
  <2> HIDE DEF y
  <2>1. /\ old \in Fates /\ Agrees(x, old)
        /\ \A p \in Press : p \in Referenced(y) /\ p \notin N => old[p] = fate[p]
    BY <1>2, <1>3, <1>6, FateBefore
  <2> HIDE DEF old
  <2>2. \A p \in Press : p \in x.physical \cup JournalPresses(x) => old[p] = fate[p]
    BY <1>3, <1>4, <1>5, <2>1
  <2>3. Ops(x, old) = Ops(x, fate)
    <3>1. SameEvents(x, x)
      BY Zenon DEF SameEvents
    <3>2. \A p \in Press : p \in JournalPresses(x) => old[p] = fate[p]
      BY <2>2
    <3> QED
      BY <1>2, <3>1, <3>2, OpsSame
  <2>4. /\ head \in Seq(Operation) /\ said \in Seq(Operation)
        /\ Ops(y, fate) = Ops(x, fate) \o (head \o said)
    BY HandledOps DEF y
  <2>5. \A q \in x.physical : old[q] = fate[q]
    BY <1>2, <2>2 DEF Engines
  <2>6. \A o \in Owner : Follows(x, old, y, fate, head \o said, o)
    BY <2>5, HandledFollows DEF y
  <2> HIDE DEF head, said
  <2>7. head \o said \in Seq(Operation)
    BY <2>4
  <2>8. Extends(x, old, y, fate, head \o said)
    BY <2>3, <2>4, Zenon DEF Extends
  <2>9. FlowsBy(x, old, y, fate, head \o said, Owner, Owner)
    BY <2>1, <2>6, <2>7, <2>8, Zenon DEF FlowsBy
  <2> QED
    BY <2>9, Zenon
<1> HIDE DEF y
<1>7. Flow(y, keys, names, Owner)
  BY <1>2, <1>6, FlowStep, Zenon
<1> QED
  BY <1>7, Zenon DEF y

-----------------------------------------------------------------------------
(* Where the records of a journal come from: from the journal before, or   *)
(* from R.                                                                 *)
HasRecord(x, r) == \E i \in DOMAIN x.journal : \E k \in DOMAIN x.journal[i].events :
                      r = x.journal[i].events[k]

(* The records of y are records of x or in R.                              *)
Inherits(x, y, R) == \A r : HasRecord(y, r) => HasRecord(x, r) \/ r \in R

(* Every record of the journal is in R.                                    *)
RecordsIn(x, R) == \A r : HasRecord(x, r) => r \in R

LEMMA RecordsKept ==
    ASSUME NEW x, NEW y, NEW R, Inherits(x, y, R), NEW S, RecordsIn(x, S), R \subseteq S
    PROVE  RecordsIn(y, S)
  BY Zenon DEF Inherits, RecordsIn

(* The records that a running engine journals.                             *)
RoutineRecords == {r \in Record : Routine(r)}

LEMMA RoutineIs ==
    ASSUME NEW x \in Engines
    PROVE  RoutineJournal(x) <=> RecordsIn(x, RoutineRecords)
<1>1. \A i \in DOMAIN x.journal : x.journal[i].events \in Seq(Record)
  <2>1. \A i \in DOMAIN x.journal : x.journal[i] \in JournalFrames
    BY DEF Engines
  <2> QED
    BY <2>1, FrameParts, Zenon
<1>2. \A i \in DOMAIN x.journal : \A k \in DOMAIN x.journal[i].events : x.journal[i].events[k] \in Record
  BY <1>1
<1>3. ASSUME RoutineJournal(x) PROVE RecordsIn(x, RoutineRecords)
  BY <1>2, <1>3 DEF RoutineJournal, RoutineFrame, RecordsIn, HasRecord, RoutineRecords
<1>4. ASSUME RecordsIn(x, RoutineRecords) PROVE RoutineJournal(x)
  <2>1. \A i \in DOMAIN x.journal : \A k \in DOMAIN x.journal[i].events : HasRecord(x, x.journal[i].events[k])
    BY Zenon DEF HasRecord
  <2> QED
    BY <1>4, <2>1 DEF RoutineJournal, RoutineFrame, RecordsIn, RoutineRecords
<1> QED
  BY <1>3, <1>4

LEMMA SameInherits ==
    ASSUME NEW x \in Engines, NEW y \in Engines, SameEvents(x, y)
    PROVE  Inherits(x, y, {})
<1>1. DOMAIN y.journal = DOMAIN x.journal
  BY DEF Engines, SameEvents
<1> QED
  BY <1>1, Zenon DEF SameEvents, Inherits, HasRecord

LEMMA DrainInherits ==
    ASSUME NEW x \in Engines
    PROVE  Inherits(x, Drain(x), {})
<1> DEFINE y == Drain(x)
<1>1. \A i \in DOMAIN y.journal :
          /\ DrainCount(x) + i \in DOMAIN x.journal
          /\ y.journal[i] = x.journal[DrainCount(x) + i]
  BY DrainFields
<1> HIDE DEF y
<1>2. Inherits(x, y, {})
  BY <1>1, Zenon DEF Inherits, HasRecord
<1> QED
  BY <1>2, Zenon DEF y

LEMMA QueueInherits ==
    ASSUME NEW x \in Engines, NEW outputs \in Seq(Output), NEW y,
           y.journal = QueueOutputs(x, outputs).journal
    PROVE  Inherits(x, y, {RecordOutput(o, NoDevice) : o \in ToSet(outputs)})
<1> DEFINE j == x.journal
           t == [k \in DOMAIN outputs |-> OutputFrame(outputs[k])]
           R == {RecordOutput(o, NoDevice) : o \in ToSet(outputs)}
<1>1. j \in Seq(JournalFrames)
  BY DEF Engines
<1>2. \A k \in DOMAIN outputs : OutputFrame(outputs[k]) \in JournalFrames
  BY OutputFrameOps
<1>3. t \in Seq(JournalFrames)
  BY <1>2
<1>4. y.journal = j \o t
  BY <1>1 DEF QueueOutputs, Engines
<1>5. \A k \in DOMAIN t : t[k].events = <<RecordOutput(outputs[k], NoDevice)>> /\ k \in DOMAIN outputs
  BY DEF OutputFrame, JournalFrame
<1>6. ASSUME NEW r, HasRecord(y, r) PROVE HasRecord(x, r) \/ r \in R
  <2>1. PICK i \in DOMAIN y.journal : \E k \in DOMAIN y.journal[i].events : r = y.journal[i].events[k]
    BY <1>6, Zenon DEF HasRecord
  <2> HIDE DEF j, t
  <2>2. CASE i \in DOMAIN j
    <3>1. y.journal[i] = j[i]
      BY <1>1, <1>3, <1>4, <2>2
    <3> QED
      BY <2>1, <2>2, <3>1, Zenon DEF HasRecord, j
  <2>3. CASE i \notin DOMAIN j
    <3>1. PICK k \in DOMAIN t : y.journal[i] = t[k]
      <4>1. i - Len(j) \in DOMAIN t /\ y.journal[i] = t[i - Len(j)]
        BY <1>1, <1>3, <1>4, <2>1, <2>3
      <4> QED
        BY <4>1
    <3>2. y.journal[i].events = <<RecordOutput(outputs[k], NoDevice)>> /\ k \in DOMAIN outputs
      BY <1>5, <3>1
    <3>3. r = RecordOutput(outputs[k], NoDevice)
      BY <2>1, <3>2
    <3>4. outputs[k] \in ToSet(outputs)
      BY <3>2, ToSetType
    <3> QED
      BY <3>3, <3>4
  <2> QED
    BY <2>2, <2>3
<1> QED
  BY <1>6, Zenon DEF Inherits

LEMMA RecordedInherits ==
    ASSUME NEW x \in Engines, x.journal # <<>>, NEW records \in Seq(Record), NEW y,
           y.journal = Recorded(x, records).journal
    PROVE  Inherits(x, y, ToSet(records))
<1> DEFINE z == Recorded(x, records)
           n == Len(x.journal)
<1>1. /\ z.journal = y.journal /\ DOMAIN z.journal = DOMAIN x.journal /\ n \in DOMAIN x.journal
      /\ \A i \in DOMAIN x.journal : i # n => z.journal[i] = x.journal[i]
      /\ z.journal[n].events = x.journal[n].events \o records
  BY RecordedFields
<1>2. x.journal[n].events \in Seq(Record)
  <2>1. x.journal[n] \in JournalFrames
    BY <1>1 DEF Engines
  <2> QED
    BY <2>1, FrameParts, Zenon
<1>3. ASSUME NEW r, HasRecord(y, r) PROVE HasRecord(x, r) \/ r \in ToSet(records)
  <2>1. PICK i \in DOMAIN y.journal : \E k \in DOMAIN y.journal[i].events : r = y.journal[i].events[k]
    BY <1>3, Zenon DEF HasRecord
  <2> HIDE DEF z
  <2>2. CASE i # n
    BY <1>1, <2>1, <2>2, Zenon DEF HasRecord
  <2>3. CASE i = n
    <3>1. PICK a \in Seq(Record) : a = x.journal[n].events
      BY <1>2, Zenon
    <3>2. PICK k \in DOMAIN (a \o records) : r = (a \o records)[k]
      BY <1>1, <2>1, <2>3, <3>1, Zenon
    <3>3. (\E m \in DOMAIN a : r = a[m]) \/ (\E m \in DOMAIN records : r = records[m])
      <4>1. Joined(a \o records, a, records)
        BY Zenon DEF Joined
      <4> QED
        BY <3>2, <4>1, ConcatElements
    <3>4. CASE \E m \in DOMAIN a : r = a[m]
      BY <1>1, <3>1, <3>4, Zenon DEF HasRecord
    <3>5. CASE \E m \in DOMAIN records : r = records[m]
      BY <3>5, ToSetType
    <3> QED
      BY <3>3, <3>4, <3>5
  <2> QED
    BY <2>2, <2>3
<1> QED
  BY <1>3, Zenon DEF Inherits

LEMMA SomeInherits ==
    ASSUME NEW x \in Engines, NEW y, DOMAIN y.journal = DOMAIN x.journal,
           \A i \in DOMAIN x.journal : SomeEvents(x.journal[i], y.journal[i])
    PROVE  Inherits(x, y, {})
<1>1. ASSUME NEW i \in DOMAIN x.journal
      PROVE  \A m \in DOMAIN y.journal[i].events : \E n \in DOMAIN x.journal[i].events :
                y.journal[i].events[m] = x.journal[i].events[n]
  <2>1. x.journal[i] \in JournalFrames /\ SomeEvents(x.journal[i], y.journal[i])
    BY DEF Engines
  <2> QED
    BY <2>1, SomeEventsType
<1>2. ASSUME NEW r, HasRecord(y, r) PROVE HasRecord(x, r)
  <2>1. PICK i \in DOMAIN x.journal : \E k \in DOMAIN y.journal[i].events : r = y.journal[i].events[k]
    BY <1>2, Zenon DEF HasRecord
  <2>2. PICK k \in DOMAIN y.journal[i].events : r = y.journal[i].events[k]
    BY <2>1, Zenon
  <2>3. PICK n \in DOMAIN x.journal[i].events : y.journal[i].events[k] = x.journal[i].events[n]
    BY <1>1, Zenon
  <2> QED
    BY <2>2, <2>3, Zenon DEF HasRecord
<1> QED
  BY <1>2, Zenon DEF Inherits

-----------------------------------------------------------------------------
(* A chord takes effect                                                    *)

(* The journal grows by s while no press is decided.                       *)
LEMMA FlowMore ==
    ASSUME NEW x \in Engines, NEW y \in Engines, NEW s \in Seq(Operation), y.route = x.route,
           \A fate \in Fates : Extends(x, fate, y, fate, s),
           NEW keys, NEW names, NEW O, NEW Q, Flow(x, keys, names, O),
           \A fate \in Fates : Agrees(y, fate) =>
              \A o \in Q : (o \in O /\ Follows(x, fate, y, fate, s, o))
                             \/ Resets(y, fate, s, o)
    PROVE  Flow(y, keys, names, Q)
<1>1. ASSUME NEW fate \in Fates, Agrees(y, fate) PROVE FlowsBy(x, fate, y, fate, s, O, Q)
  <2>1. Agrees(x, fate)
    BY <1>1, Zenon DEF Agrees
  <2> QED
    BY <1>1, <2>1, Zenon DEF FlowsBy
<1> QED
  BY <1>1, FlowStep, Zenon

(* A step that queues operations of owners outside Q.                      *)
LEMMA FlowQueueOthers ==
    ASSUME NEW x \in Engines, NEW y \in Engines, NEW outputs \in Seq(Output),
           y.journal = QueueOutputs(x, outputs).journal, y.route = x.route,
           y.physical = x.physical, NEW keys, NEW names, NEW O, Flow(x, keys, names, O),
           NEW Q \in SUBSET O, \A o \in Q : Silent(outputs, o),
           \A o \in Q : \A a : a.owner = o => (a \in ToSet(x.active) <=> a \in ToSet(y.active))
    PROVE  Flow(y, keys, names, Q)
<1>1. outputs \in Seq(Operation)
  BY DEF Operation
<1>2. ASSUME NEW fate, NEW o \in Q PROVE Follows(x, fate, y, fate, outputs, o)
  <2>1. \A c \in Code : Wanted(x, fate, o, c) <=> Wanted(y, fate, o, c)
    BY Zenon DEF Wanted
  <2>2. Live(x, o) => Live(y, o)
    <3>1. \A a : a.owner = o => (a \in ToSet(x.active) <=> a \in ToSet(y.active))
      BY Zenon
    <3> QED
      BY <3>1, LiveIs, Zenon
  <2> QED
    BY <1>1, <2>1, <2>2, SilentFollows, Zenon
<1>3. \A o \in Q : o \in O
  OBVIOUS
<1> QED
  BY <1>2, <1>3, FlowQueue, Zenon

LEMMA QueueIs ==
    ASSUME NEW z \in Engines, NEW o
    PROVE  QueueOutput(z, o).journal = QueueOutputs(z, <<o>>).journal
  BY Zenon DEF QueueOutput

(* What a completed chord has journalled for its action.                   *)
LEMMA BindingFlow ==
    ASSUME NEW z, Sound(z), NEW a \in Action,
           NEW keys, NEW names, NEW O, Flow(z, keys, names, O)
    PROVE  Flow(QueueOutput(z, EmitAction(a)), keys, names, O)
<1> DEFINE u == EmitAction(a)
           y == QueueOutputs(z, <<u>>)
<1>1. z \in Engines /\ u \in Output /\ \A o : ~Names(u, o)
  BY ActionEffect DEF Sound, Output, EmitAction
<1> HIDE DEF u
<1>2. <<u>> \in Seq(Output)
  BY <1>1
<1>3. /\ y \in Engines /\ y.physical = z.physical /\ y.route = z.route /\ y.active = z.active
  BY <1>1, <1>2, QueueOutputsFields DEF Sound
<1>4. \A o \in O : Silent(<<u>>, o)
  BY <1>1 DEF Silent
<1> HIDE DEF y
<1>5. Flow(y, keys, names, O)
  <2>1. y.journal = QueueOutputs(z, <<u>>).journal
    BY DEF y
  <2>2. \A o \in O : \A b : b.owner = o => (b \in ToSet(z.active) <=> b \in ToSet(y.active))
    BY <1>3, Zenon
  <2>3. O \in SUBSET O
    OBVIOUS
  <2> QED
    BY <1>1, <1>2, <1>3, <1>4, <2>1, <2>2, <2>3, FlowQueueOthers, Zenon
<1> QED
  BY <1>5, Zenon DEF y, u, QueueOutput

(* A tap: press and release of the same key by the tap owner.              *)
LEMMA TapFlow ==
    ASSUME NEW z, Sound(z), NEW t \in Code,
           NEW keys, NEW names, Flow(z, keys, names, Owner)
    PROVE  Flow(QueueOutput(QueueOutput(z, KeyOutput(TapDevice, t, 1)), KeyOutput(TapDevice, t, 0)),
                keys, names, Owner)
<1> DEFINE u == KeyOutput(TapDevice, t, 1)
           v == KeyOutput(TapDevice, t, 0)
           w == QueueOutputs(z, <<u>>)
           y == QueueOutputs(w, <<v>>)
<1>0. TapDevice \in Owner /\ TapDevice \in Owner \cup {NoDevice} /\ 1 \in {0, 1, 2} /\ 0 \in {0, 1, 2}
  BY DEF Owner
<1>1. /\ z \in Engines /\ DeviceOrOutputs(z) /\ u \in Output /\ v \in Output
      /\ u \in Operation /\ v \in Operation
  BY <1>0, KeyEffect DEF Sound, Output, KeyOutput
<1>2. /\ \A o, c : u \in Pressing(o, c) <=> o = TapDevice /\ c = t
      /\ \A o, c : u \notin Releasing(o, c)
      /\ \A o, c : v \notin Pressing(o, c)
      /\ \A o, c : v \in Releasing(o, c) <=> o = TapDevice /\ c = t
  <2>1. /\ \A o, c : u \in Pressing(o, c) <=> o = TapDevice /\ c = t /\ 1 = 1
        /\ \A o, c : u \in Releasing(o, c) <=> o = TapDevice /\ c = t /\ 1 = 0
        /\ \A o, c : v \in Pressing(o, c) <=> o = TapDevice /\ c = t /\ 0 = 1
        /\ \A o, c : v \in Releasing(o, c) <=> o = TapDevice /\ c = t /\ 0 = 0
    BY <1>0, KeyEffect
  <2> QED
    BY <2>1
<1>3. \A o : o # TapDevice => ~Names(u, o) /\ ~Names(v, o)
  BY DEF Names, KeyOutput
<1> HIDE DEF u, v
<1>4. <<u>> \in Seq(Output) /\ <<v>> \in Seq(Output) /\ <<u>> \in Seq(Operation) /\ <<v>> \in Seq(Operation)
      /\ <<u, v>> \in Seq(Operation)
  BY <1>1
<1>5. /\ w \in Engines /\ w.physical = z.physical /\ w.route = z.route /\ w.active = z.active
      /\ DeviceOrOutputs(w)
  BY <1>1, <1>4, QueueOutputsFields
<1> HIDE DEF w
<1>6. /\ y \in Engines /\ y.physical = w.physical /\ y.route = w.route /\ y.active = w.active
  BY <1>4, <1>5, QueueOutputsFields
<1> HIDE DEF y
<1>7. \A fate \in Fates : Extends(z, fate, y, fate, <<u, v>>)
  <2> TAKE fate \in Fates
  <2>1. Ops(w, fate) = Ops(z, fate) \o <<u>>
    BY <1>1, <1>4, QueueOps, Zenon DEF w
  <2>2. Ops(y, fate) = Ops(w, fate) \o <<v>>
    BY <1>4, <1>5, QueueOps, Zenon DEF y
  <2>3. Ops(z, fate) \in Seq(Operation)
    BY <1>1, OpsType, Zenon
  <2>4. (Ops(z, fate) \o <<u>>) \o <<v>> = Ops(z, fate) \o (<<u>> \o <<v>>)
    <3>1. Associates(Ops(z, fate), <<u>>, <<v>>)
      BY <1>4, <2>3, ConcatAssociates, Zenon
    <3> QED
      BY <3>1, Zenon DEF Associates
  <2>5. <<u>> \o <<v>> = <<u, v>>
    <3>1. <<u, v>> = Append(<<u>>, v) /\ <<u>> \in Seq(Output)
      BY <1>1
    <3>2. Append(<<u>>, v) = <<u>> \o <<v>>
      BY <1>1, <3>1, AppendIsConcat
    <3> QED
      BY <3>1, <3>2, Zenon
  <2> QED
    BY <2>1, <2>2, <2>4, <2>5, Zenon DEF Extends
<1>8. ASSUME NEW fate \in Fates, NEW o \in Owner PROVE Follows(z, fate, y, fate, <<u, v>>, o)
  <2>1. \A c \in Code : Wanted(z, fate, o, c) <=> Wanted(y, fate, o, c)
    BY <1>5, <1>6, Zenon DEF Wanted
  <2>2. Live(z, o) => Live(y, o)
    BY <1>5, <1>6, Zenon DEF Live
  <2>3. CASE o # TapDevice
    <3>1. Silent(<<u, v>>, o)
      BY <1>3, <2>3 DEF Silent
    <3> QED
      BY <1>1, <1>4, <1>6, <2>1, <2>2, <3>1, SilentFollows, Zenon
  <2>4. CASE o = TapDevice
    <3>1. o \notin HoldDevice
      BY <2>4, OwnerAssumption
    <3>2. \A c \in Code : ~Wanted(z, fate, o, c)
      BY <1>1, <2>4, WantedTap, Zenon
    <3>3. \A c \in Code : ~After(Wanted(z, fate, o, c), <<u, v>>, Pressing(o, c), Releasing(o, c))
      <4> TAKE c \in Code
      <4> DEFINE P == Pressing(o, c)
                 R == Releasing(o, c)
      <4>1. (u \in P => v \in R) /\ v \notin P
        BY <1>2, Zenon
      <4> HIDE DEF P, R
      <4>2. ~Sets(<<u, v>>, P, R)
        BY <4>1 DEF Sets
      <4> USE DEF P, R
      <4>3. ~Sets(<<u, v>>, Pressing(o, c), Releasing(o, c))
        BY <4>2, Zenon
      <4> QED
        BY <3>2, <4>3, Zenon DEF After
    <3> QED
      BY <2>1, <3>1, <3>2, <3>3, Zenon DEF Follows
  <2> QED
    BY <2>3, <2>4
<1>9. Flow(y, keys, names, Owner)
  <2>1. y.route = z.route
    BY <1>5, <1>6
  <2> QED
    BY <1>1, <1>4, <1>6, <1>7, <1>8, <2>1, FlowMore, Zenon
<1> QED
  BY <1>9, Zenon DEF y, w, v, u, QueueOutput

LEMMA PressEffect ==
    ASSUME NEW h \in Owner \cup {NoDevice}, NEW t \in Code
    PROVE  LET u == KeyOutput(h, t, 1) IN
           /\ u \in Operation
           /\ \A o, c : u \in Pressing(o, c) <=> o = h /\ c = t
           /\ \A o, c : u \notin Releasing(o, c)
<1> DEFINE u == KeyOutput(h, t, 1)
<1>1. /\ u \in Operation
      /\ \A o, c : u \in Pressing(o, c) <=> o = h /\ c = t /\ 1 = 1
      /\ \A o, c : u \in Releasing(o, c) <=> o = h /\ c = t /\ 1 = 0
  BY KeyEffect
<1> QED
  BY <1>1

(* A hold begins under an owner of its own.                                *)
LEMMA BegunFlow ==
    ASSUME NEW z \in Engines, NEW y \in Engines, NEW a \in Activation,
           \A b \in ToSet(z.active) : b.owner # a.owner,
           y.journal = QueueOutputs(z, <<KeyOutput(a.owner, a.target, 1)>>).journal,
           y.route = z.route, y.physical = z.physical, y.active = Append(z.active, a),
           NEW keys, NEW names, Flow(z, keys, names, Owner)
    PROVE  Flow(y, keys, names, Owner)
<1> DEFINE u == KeyOutput(a.owner, a.target, 1)
<1>1. a.owner \in HoldDevice /\ a.owner \in Owner \cup {NoDevice} /\ a.target \in Code
      /\ 1 \in {0, 1, 2} /\ u \in Output
  BY StopRecords DEF Activation, Owner
<1>2. /\ u \in Operation
      /\ \A o, c : u \in Pressing(o, c) <=> o = a.owner /\ c = a.target
      /\ \A o, c : u \notin Releasing(o, c)
  BY <1>1, PressEffect, Zenon
<1>3. \A o : o # a.owner => ~Names(u, o)
  BY DEF Names, KeyOutput
<1> HIDE DEF u
<1>4. <<u>> \in Seq(Output) /\ <<u>> \in Seq(Operation)
  BY <1>1, <1>2
<1>5. ToSet(y.active) = ToSet(z.active) \cup {a}
  <2>1. PICK s \in Seq(Activation) : s = z.active
    BY DEF Engines
  <2>2. ToSet(Append(s, a)) = ToSet(s) \cup {a}
    BY DEF ToSet
  <2> QED
    BY <2>1, <2>2, Zenon
<1>6. ASSUME NEW fate \in Fates, NEW o \in Owner PROVE Follows(z, fate, y, fate, <<u>>, o)
  <2>1. CASE o # a.owner
    <3>1. \A c \in Code : Wanted(z, fate, o, c) <=> Wanted(y, fate, o, c)
      BY <1>5, <2>1 DEF Wanted
    <3>2. Live(z, o) => Live(y, o)
      BY <1>5, LiveIs
    <3>3. Silent(<<u>>, o)
      BY <1>3, <2>1 DEF Silent
    <3> QED
      BY <1>4, <3>1, <3>2, <3>3, SilentFollows, Zenon
  <2>2. CASE o = a.owner
    <3>1. \A c \in Code : ~Wanted(z, fate, o, c)
      BY <1>1, <2>2, WantedHold
    <3>2. \A c \in Code : Wanted(y, fate, o, c) <=> c = a.target
      <4>1. \A c \in Code : Wanted(y, fate, o, c) <=> \E b \in ToSet(y.active) : b.owner = o /\ b.target = c
        <5>1. o \in HoldDevice
          BY <1>1, <2>2
        <5> QED
          BY <5>1, PhysicalDevices, OwnerAssumption DEF Wanted
      <4>2. a \in ToSet(y.active) /\ \A b \in ToSet(y.active) : b.owner = o => b = a
        BY <1>5, <2>2
      <4> QED
        BY <2>2, <4>1, <4>2, Zenon
    <3>3. Live(y, o)
      BY <1>5, <2>2, LiveIs
    <3>4. \A c \in Code : After(Wanted(z, fate, o, c), <<u>>, Pressing(o, c), Releasing(o, c))
                            <=> c = a.target
      <4> TAKE c \in Code
      <4> DEFINE P == Pressing(o, c)
                 R == Releasing(o, c)
      <4>1. (u \in P <=> c = a.target) /\ u \notin R
        BY <1>2, <2>2, Zenon
      <4> HIDE DEF P, R
      <4>2. Sets(<<u>>, P, R) <=> c = a.target
        BY <4>1 DEF Sets
      <4>3. After(Wanted(z, fate, o, c), <<u>>, P, R) <=> c = a.target
        BY <3>1, <4>2, Zenon DEF After
      <4> QED
        BY <4>3, Zenon DEF P, R
    <3> QED
      BY <3>2, <3>3, <3>4, Zenon DEF Follows
  <2> QED
    BY <2>1, <2>2
<1>7. \A fate \in Fates : Agrees(y, fate) =>
         \A o \in Owner : (o \in Owner /\ Follows(z, fate, y, fate, <<u>>, o))
                            \/ Resets(y, fate, <<u>>, o)
  BY <1>6, Zenon
<1>8. y.journal = QueueOutputs(z, <<u>>).journal
  BY Zenon DEF u
<1> QED
  BY <1>4, <1>7, <1>8, FlowQueue, Zenon

(* The operations that end an activation make its owner leave.             *)
LEMMA EndedResets ==
    ASSUME NEW y \in Engines, NEW a \in Activation, \A b \in ToSet(y.active) : b.owner # a.owner,
           NEW fate
    PROVE  Resets(y, fate, StopOutputs(a), a.owner)
<1>1. a.owner \in HoldDevice
  BY DEF Activation
<1>2. \A c \in Code : ~Wanted(y, fate, a.owner, c)
  BY <1>1, WantedHold
<1>3. Stops(StopOutputs(a), a.owner, a.owner # a.owner)
  BY StopEffect, Zenon
<1> QED
  BY <1>2, <1>3, Zenon DEF Resets, Stops

(* A hold that was broken in its frame begins and ends at once.            *)
LEMMA BrokenFlow ==
    ASSUME NEW z, Sound(z), NEW a \in Activation,
           \A b \in ToSet(z.active) : b.owner # a.owner,
           NEW keys, NEW names, Flow(z, keys, names, Owner)
    PROVE  Flow(StopActivation(QueueOutput(z, KeyOutput(a.owner, a.target, 1)), a),
                keys, names, Owner)
<1> DEFINE u == KeyOutput(a.owner, a.target, 1)
           s == StopOutputs(a)
           w == QueueOutputs(z, <<u>>)
           y == QueueOutputs(w, s)
           Q == Owner \ {a.owner}
<1>1. z \in Engines /\ DeviceOrOutputs(z) /\ u \in Output /\ s \in Seq(Output)
  BY StopRecords DEF Sound, StopOutputs
<1>2. \A o \in Q : ~Names(u, o) /\ Silent(s, o)
  BY DEF Names, KeyOutput, ReconcileDevice, StopOutputs, Silent
<1>3. \A fate : \A x \in Engines : (\A b \in ToSet(x.active) : b.owner # a.owner)
         => Resets(x, fate, s, a.owner)
  BY EndedResets
<1> HIDE DEF u, s
<1>4. <<u>> \in Seq(Output) /\ s \in Seq(Operation)
  BY <1>1 DEF Operation
<1>5. /\ w \in Engines /\ w.physical = z.physical /\ w.route = z.route /\ w.active = z.active
      /\ DeviceOrOutputs(w)
  BY <1>1, <1>4, QueueOutputsFields
<1>6. w.journal = QueueOutputs(z, <<u>>).journal
  OBVIOUS
<1> HIDE DEF w
<1>7. /\ y \in Engines /\ y.physical = w.physical /\ y.route = w.route /\ y.active = w.active
  BY <1>1, <1>5, QueueOutputsFields
<1>8. y.journal = QueueOutputs(w, s).journal
  OBVIOUS
<1> HIDE DEF y
<1>9. Flow(w, keys, names, Q)
  <2>1. \A o \in Q : Silent(<<u>>, o)
    BY <1>2 DEF Silent
  <2>2. \A o \in Q : \A b : b.owner = o => (b \in ToSet(z.active) <=> b \in ToSet(w.active))
    BY <1>5, Zenon
  <2>3. Q \in SUBSET Owner
    OBVIOUS
  <2> HIDE DEF Q
  <2> QED
    BY <1>1, <1>4, <1>5, <1>6, <2>1, <2>2, <2>3, FlowQueueOthers, Zenon
<1>10. ASSUME NEW fate \in Fates, NEW o \in Owner
       PROVE  (o \in Q /\ Follows(w, fate, y, fate, s, o)) \/ Resets(y, fate, s, o)
  <2>1. CASE o \in Q
    <3>1. \A c \in Code : Wanted(w, fate, o, c) <=> Wanted(y, fate, o, c)
      BY <1>7, Zenon DEF Wanted
    <3>2. Live(w, o) => Live(y, o)
      BY <1>7, Zenon DEF Live
    <3>3. Silent(s, o)
      BY <1>2, <2>1, Zenon
    <3> QED
      BY <1>4, <1>5, <1>7, <2>1, <3>1, <3>2, <3>3, SilentFollows, Zenon
  <2>2. CASE o \notin Q
    <3>1. o = a.owner
      BY <2>2
    <3>2. \A b \in ToSet(y.active) : b.owner # a.owner
      BY <1>5, <1>7
    <3> QED
      BY <1>3, <1>7, <3>1, <3>2, Zenon
  <2> QED
    BY <2>1, <2>2
<1>11. \A fate \in Fates : Agrees(y, fate) =>
         \A o \in Owner : (o \in Q /\ Follows(w, fate, y, fate, s, o)) \/ Resets(y, fate, s, o)
  BY <1>10, Zenon
<1>12. Flow(y, keys, names, Owner)
  BY <1>1, <1>5, <1>7, <1>8, <1>9, <1>11, FlowQueue, Zenon
<1> QED
  BY <1>12, Zenon DEF y, w, s, u, QueueOutput, StopActivation

(* A remap that goes live wants its target and records the press of it.    *)
LEMMA ActivateFlow ==
    ASSUME NEW x, x \in Engines, NEW z, Committed(x, z), Sound(z), NEW target \in Code,
           NEW owner \in HoldDevice, \A b \in ToSet(z.active) : b.owner # owner,
           Activate(z, x.seq, target, owner) \in Engines,
           NEW keys, NEW names, Flow(z, keys, names, Owner)
    PROVE  Flow(Activate(z, x.seq, target, owner), keys, names, Owner)
<1> DEFINE c == x.seq
           a == [owner |-> owner, target |-> target,
                 members |-> c.matchMembers, driver |-> c.driver]
           u == KeyOutput(owner, target, 1)
           w == QueueOutput(z, u)
<1>1. a \in Activation /\ a.owner = owner /\ a.target = target
  BY DEF Engines, Candidate, Activation
<1>2. \A b \in ToSet(z.active) : b.owner # a.owner
  BY <1>1
<1>3. Activate(z, x.seq, target, owner) =
        IF c.broken THEN StopActivation(w, a) ELSE [w EXCEPT !.active = Append(@, a)]
  BY DEF Activate
<1>4. u \in Output
  BY <1>1, StopRecords
<1>5. w = QueueOutput(z, KeyOutput(a.owner, a.target, 1))
  BY <1>1
<1>6. u = KeyOutput(a.owner, a.target, 1)
  BY <1>1
<1> HIDE DEF a, u
<1>7. CASE c.broken
  <2>1. Flow(StopActivation(w, a), keys, names, Owner)
    BY <1>1, <1>2, <1>5, BrokenFlow
  <2> QED
    BY <1>3, <1>7, <2>1, Zenon
<1>8. CASE ~c.broken
  <2> DEFINE y == [w EXCEPT !.active = Append(@, a)]
  <2>1. Activate(z, x.seq, target, owner) = y /\ y \in Engines
    BY <1>3, <1>8
  <2>2. <<u>> \in Seq(Output) /\ z \in Engines /\ DeviceOrOutputs(z)
    BY <1>4 DEF Sound
  <2>3. /\ w \in Engines /\ w.physical = z.physical /\ w.route = z.route /\ w.active = z.active
        /\ w.journal = QueueOutputs(z, <<u>>).journal
    BY <2>2, QueueOutputsFields DEF QueueOutput
  <2> HIDE DEF w
  <2>4. /\ y.physical = z.physical /\ y.route = z.route /\ y.active = Append(z.active, a)
        /\ y.journal = QueueOutputs(z, <<u>>).journal
    BY <2>3 DEF Engines
  <2> HIDE DEF y
  <2>5. y.journal = QueueOutputs(z, <<KeyOutput(a.owner, a.target, 1)>>).journal
    BY <1>6, <2>4, Zenon
  <2>6. Flow(y, keys, names, Owner)
    BY <1>1, <1>2, <2>1, <2>2, <2>4, <2>5, BegunFlow, Zenon
  <2> QED
    BY <2>1, <2>6, Zenon
<1> QED
  BY <1>7, <1>8

(* Committing a candidate decides presses and changes nothing that is      *)
(* wanted or journalled.                                                   *)
LEMMA CommittedFlow ==
    ASSUME NEW x, Sound(x), NEW z, Committed(x, z), SameEvents(x, z), z.active = x.active,
           NEW keys, NEW names, NEW O, Flow(x, keys, names, O)
    PROVE  Sound(z) /\ Flow(z, keys, names, O)
<1>1. Sound(z) /\ Evolves(x, z, {})
  BY CommittedKeeps
<1>2. x \in Engines /\ z \in Engines /\ z.physical = x.physical
  BY DEF Sound, Committed
<1> QED
  BY <1>1, <1>2, FlowStands

(* A binding's remap, or its action, keeps Flow.                           *)
LEMMA CompleteBindingFlow ==
    ASSUME NEW x, Sound(x), x.mode = "binding", x.seq.matched # 0,
           NEW keys, NEW names, Flow(x, keys, names, Owner)
    PROVE  Flow(CompleteBinding(x), keys, names, Owner)
<1> DEFINE r == Resolve(x, "consumed")
           z == Idle(r)
           action == Sources[x.activePrefix].bindings[x.seq.matched].action
<1>1. /\ Matching(x) /\ x.activePrefix \in DOMAIN Sources
      /\ x.seq.matched \in DOMAIN Sources[x.activePrefix].bindings
  BY DEF Sound, Configured, BindingCandidate, Matching
<1>2. action \in Action
  BY <1>1, BindingAt
<1>3. r \in Engines /\ SameEvents(x, r)
  BY ResolveFields DEF Sound, Route
<1>4. Committed(x, z) /\ z.active = x.active
  BY <1>1, <1>3, Commits
<1>5. z.journal = r.journal
  BY <1>3, IdleFields
<1>6. CompleteBinding(x) = QueueOutput(z, EmitAction(action))
  BY DEF CompleteBinding
<1> HIDE DEF r, z, action
<1>7. SameEvents(x, z)
  BY <1>3, <1>5, Zenon DEF SameEvents
<1>8. Sound(z) /\ Flow(z, keys, names, Owner)
  BY <1>4, <1>7, CommittedFlow, Zenon
<1>9. Flow(QueueOutput(z, EmitAction(action)), keys, names, Owner)
  BY <1>2, <1>8, BindingFlow, Zenon
<1> QED
  BY <1>6, <1>9, Zenon

(* A chord's remap, tap, action or prefix keeps Flow.                      *)
LEMMA CompleteSourceFlow ==
    ASSUME NEW x, Sound(x), x.mode \in {"reserved", "prefix"}, x.seq.matched # 0,
           NEW owner \in HoldDevice, \A b \in ToSet(x.active) : b.owner # owner,
           NEW keys, NEW names, Flow(x, keys, names, Owner)
    PROVE  Flow(CompleteSource(x, owner), keys, names, Owner)
<1> DEFINE c == x.seq
           source == Sources[c.matched]
           held == HeldModifiers(x, c)
           r == Resolve(x, "consumed")
           w == [r EXCEPT !.reuse = r.reuse \cup held]
           z == Idle(w)
<1>0. x \in Engines /\ c \in Candidate /\ Matching(x)
  BY DEF Sound, Engines, Matching
<1>1. c.matched \in DOMAIN Sources /\ c.matched \in Nat
  BY SourceAt DEF Sound, Configured, SourceCandidate
<1>2. source.mode \in {"action", "tap", "hold"} /\ source.target \in Code
  BY <1>1, SourceAt
<1>3. held \subseteq c.members /\ held \subseteq Press
  BY <1>0 DEF HeldModifiers, Candidate
<1>4. /\ r \in Engines /\ r = [x EXCEPT !.route = r.route, !.journal = r.journal]
      /\ SameEvents(x, r)
  BY <1>0, ResolveFields DEF Route
<1>5. CompleteSource(x, owner) =
        CASE source.mode = "action" ->
               [r EXCEPT !.mode = "await", !.activePrefix = c.matched, !.seq = NoCandidate,
                         !.carry = held, !.deadline = TRUE]
          [] source.mode = "hold" -> Activate(z, c, source.target, owner)
          [] source.mode = "tap" ->
               QueueOutput(QueueOutput(z, KeyOutput(TapDevice, source.target, 1)),
                           KeyOutput(TapDevice, source.target, 0))
  BY DEF CompleteSource
<1>y. Sound(CompleteSource(x, owner)) /\ Evolves(x, CompleteSource(x, owner), {})
  BY CompleteSourceKeeps
<1> HIDE DEF held, r
<1>6. /\ w \in Engines
      /\ w.physical = r.physical /\ w.logicalCount = r.logicalCount
      /\ w.route = r.route /\ w.journal = r.journal /\ w.active = r.active
      /\ w.reuse = r.reuse \cup held
  BY <1>3, <1>4 DEF Engines
<1> HIDE DEF w
<1>7. Committed(x, z) /\ z.active = x.active
  BY <1>0, <1>3, <1>6, Commits DEF r
<1>8. z.journal = r.journal
  BY <1>6, IdleFields
<1> HIDE DEF z
<1>9. SameEvents(x, z)
  BY <1>4, <1>8, Zenon DEF SameEvents
<1>10. Sound(z) /\ Flow(z, keys, names, Owner)
  BY <1>7, <1>9, CommittedFlow, Zenon
<1>11. CASE source.mode = "action"
  <2> DEFINE y == [r EXCEPT !.mode = "await", !.activePrefix = c.matched, !.seq = NoCandidate,
                            !.carry = held, !.deadline = TRUE]
  <2>1. CompleteSource(x, owner) = y
    BY <1>5, <1>11
  <2>2. r.physical = x.physical /\ r.active = x.active
    BY <1>0, <1>4 DEF Engines
  <2>3. y.physical = x.physical /\ y.active = x.active /\ y.journal = r.journal
    BY <1>4, <2>2 DEF Engines
  <2> HIDE DEF y
  <2>4. SameEvents(x, y)
    BY <1>4, <2>3, Zenon DEF SameEvents
  <2>5. y \in Engines /\ Evolves(x, y, {})
    BY <1>y, <2>1 DEF Sound
  <2>6. Flow(y, keys, names, Owner)
    BY <1>0, <2>3, <2>4, <2>5, FlowStands
  <2> QED
    BY <2>1, <2>6, Zenon
<1>12. CASE source.mode = "hold"
  <2>1. CompleteSource(x, owner) = Activate(z, c, source.target, owner)
    BY <1>5, <1>12
  <2>2. \A b \in ToSet(z.active) : b.owner # owner
    BY <1>7, Zenon
  <2>3. Activate(z, c, source.target, owner) \in Engines
    BY <1>y, <2>1 DEF Sound
  <2>4. Flow(Activate(z, c, source.target, owner), keys, names, Owner)
    BY <1>0, <1>2, <1>7, <1>10, <2>2, <2>3, ActivateFlow, Zenon
  <2> QED
    BY <2>1, <2>4, Zenon
<1>13. CASE source.mode = "tap"
  <2>1. CompleteSource(x, owner) =
          QueueOutput(QueueOutput(z, KeyOutput(TapDevice, source.target, 1)),
                      KeyOutput(TapDevice, source.target, 0))
    BY <1>5, <1>13
  <2>2. Flow(QueueOutput(QueueOutput(z, KeyOutput(TapDevice, source.target, 1)),
                      KeyOutput(TapDevice, source.target, 0)), keys, names, Owner)
    BY <1>2, <1>10, TapFlow, Zenon
  <2> QED
    BY <2>1, <2>2, Zenon
<1> QED
  BY <1>2, <1>11, <1>12, <1>13

(* The end of a frame: a completed chord takes effect.                     *)
LEMMA CompleteFrameFlow ==
    ASSUME NEW x, Sound(x), NEW owner \in HoldDevice, \A b \in ToSet(x.active) : b.owner # owner,
           NEW keys, NEW names, Flow(x, keys, names, Owner)
    PROVE  Flow(CompleteFrame(x, owner), keys, names, Owner)
<1>1. CASE ~Finished(x)
  BY <1>1 DEF CompleteFrame
<1>2. CASE Finished(x)
  <2>1. Matching(x) /\ x.seq.matched # 0
    BY <1>2 DEF Finished
  <2>2. CASE x.mode = "binding"
    BY <1>2, <2>1, <2>2, CompleteBindingFlow DEF CompleteFrame
  <2>3. CASE x.mode # "binding"
    <3>1. x.mode \in {"reserved", "prefix"}
      BY <2>1, <2>3 DEF Matching
    <3>2. CompleteFrame(x, owner) = CompleteSource(x, owner)
      BY <1>2, <2>3 DEF CompleteFrame
    <3>3. Flow(CompleteSource(x, owner), keys, names, Owner)
      BY <2>1, <3>1, CompleteSourceFlow, Zenon
    <3> QED
      BY <3>2, <3>3, Zenon
  <2> QED
    BY <2>2, <2>3
<1> QED
  BY <1>1, <1>2
=============================================================================
