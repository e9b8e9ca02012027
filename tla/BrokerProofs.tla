---------------------------- MODULE BrokerProofs ----------------------------
(***************************************************************************)
(* What the virtual keyboard shows, for any keyboards, configuration and    *)
(* bounds.  First the forwarder by itself: its reference counts are right,  *)
(* and it implements VirtualKeyboard.  Then the main loop: what it applies  *)
(* to the forwarder leaves each owner with the keys that the engine wants.  *)
(*                                                                         *)
(* Wanted(x, fate, o, c) says what owner o is to hold when every press that *)
(* is still undecided gets the disposition that fate gives it.  The         *)
(* invariant is FlowInv: take the forwarder's maps, apply the operations    *)
(* that wait in out, then those that the journal will become under fate,    *)
(* and every owner holds what is wanted.  It is inductive because it is     *)
(* said of every fate that agrees with the dispositions taken so far: a     *)
(* press decided later only narrows the fates, and drain only moves         *)
(* operations from the journal's share to out's.                           *)
(*                                                                         *)
(* A list of operations is told by its effect on one key of one owner:      *)
(* After(b, s, P, Q), of SequenceLemmas, is whether the key is held after s  *)
(* if b is whether it was held before, P being the operations that press    *)
(* the key and Q those that release it.                                    *)
(***************************************************************************)
EXTENDS Broker, EngineProofs

-----------------------------------------------------------------------------
(* The forwarder                                                           *)

(* The owners that hold a key are finitely many.                           *)
LEMMA HoldersFinite ==
    ASSUME NEW c
    PROVE  IsFiniteSet(Holders(c)) /\ Cardinality(Holders(c)) \in Nat
  BY OwnerAssumption, FS_Subset, FS_CardinalityType DEF Holders

(* A count is zero exactly when nobody holds the key.                      *)
LEMMA CountZero ==
    ASSUME CountsExact, NEW c \in Code
    PROVE  /\ counts[c] \in Nat
           /\ counts[c] = 0 <=> Holders(c) = {}
  BY HoldersFinite, FS_EmptySet DEF CountsExact

(* The effect of KeyEvents on the holders of one key.                      *)
LEMMA HoldersStep ==
    ASSUME ForwarderTypeOK, NEW o \in Owner, NEW gone \in SUBSET Code,
           NEW new \in SUBSET Code, gone \cap new = {}, KeyEvents(o, gone, new),
           NEW c \in Code
    PROVE  /\ c \in gone => Holders(c)' = Holders(c) \ {o}
           /\ c \in new => Holders(c)' = Holders(c) \cup {o}
           /\ c \notin gone \cup new => Holders(c)' = Holders(c)
           /\ o \in Holders(c) <=> c \in down[o]
  BY DEF ForwarderTypeOK, KeyEvents, Holders

(* One release or press moves the count with the holders.                  *)
LEMMA CountStep ==
    ASSUME ForwarderTypeOK, CountsExact, NEW o \in Owner, NEW gone \in SUBSET Code,
           NEW new \in SUBSET Code, gone \cap new = {}, KeyEvents(o, gone, new),
           NEW c \in Code
    PROVE  counts'[c] = Cardinality(Holders(c)')
<1>1. counts[c] = Cardinality(Holders(c)) /\ IsFiniteSet(Holders(c))
  BY HoldersFinite DEF CountsExact
<1>2. CASE c \in gone \cap down[o]
  <2>1. counts'[c] = counts[c] - 1
    BY <1>2 DEF KeyEvents
  <2>2. o \in Holders(c) /\ Holders(c)' = Holders(c) \ {o}
    BY <1>2, HoldersStep
  <2>3. QED
    BY <1>1, <2>1, <2>2, FS_RemoveElement
<1>3. CASE c \in new \ down[o]
  <2>1. counts'[c] = counts[c] + 1
    BY <1>3 DEF KeyEvents
  <2>2. o \notin Holders(c) /\ Holders(c)' = Holders(c) \cup {o}
    BY <1>3, HoldersStep
  <2>3. QED
    BY <1>1, <2>1, <2>2, FS_AddElement
<1>4. CASE c \notin gone \cap down[o] /\ c \notin new \ down[o]
  <2>1. counts'[c] = counts[c]
    BY <1>4 DEF KeyEvents
  <2>2. /\ c \in gone => Holders(c)' = Holders(c) \ {o} /\ o \notin Holders(c)
        /\ c \in new => Holders(c)' = Holders(c) \cup {o} /\ o \in Holders(c)
        /\ c \notin gone \cup new => Holders(c)' = Holders(c)
    BY <1>4, HoldersStep
  <2>3. Holders(c)' = Holders(c)
    BY <2>2
  <2>4. QED
    BY <1>1, <2>1, <2>3
<1>5. QED
  BY <1>2, <1>3, <1>4

(* What is written leaves the device with the keys that are held.          *)
LEMMA VirtualStep ==
    ASSUME ForwarderTypeOK, CountsExact, VirtualIsUnion, NEW o \in Owner,
           NEW gone \in SUBSET Code, NEW new \in SUBSET Code, gone \cap new = {},
           KeyEvents(o, gone, new), NEW c \in Code
    PROVE  c \in virtual' <=> Holders(c)' # {}
<1>1. c \in virtual <=> Holders(c) # {}
  BY DEF VirtualIsUnion
<1>2. counts[c] \in Nat /\ (counts[c] = 0 <=> Holders(c) = {})
  BY CountZero
<1>3. counts'[c] = 0 <=> Holders(c)' = {}
  <2>1. IsFiniteSet(Holders(c)')
    BY OwnerAssumption, FS_Subset DEF Holders
  <2>2. QED
    BY <2>1, CountStep, FS_EmptySet
<1>4. CASE c \in gone
  <2>1. c \notin new /\ Holders(c)' = Holders(c) \ {o} /\ (o \in Holders(c) <=> c \in down[o])
    BY <1>4, HoldersStep
  <2>2. CASE c \in down[o]
    <3>1. counts'[c] = counts[c] - 1
      BY <1>4, <2>2 DEF KeyEvents
    <3>2. c \in virtual' <=> c \in virtual /\ ~(~(counts[c] - 1 > 0))
      BY <1>4, <2>1, <2>2 DEF KeyEvents, KeyEmitted
    <3>3. counts[c] # 0
      BY <1>2, <2>1, <2>2
    <3>4. QED
      BY <1>1, <1>2, <1>3, <3>1, <3>2, <3>3
  <2>3. CASE c \notin down[o]
    <3>1. c \in virtual' <=> c \in virtual
      BY <1>4, <2>1, <2>3 DEF KeyEvents, KeyEmitted
    <3>2. QED
      BY <1>1, <2>1, <2>3, <3>1
  <2>4. QED
    BY <2>2, <2>3
<1>5. CASE c \in new
  <2>1. c \notin gone /\ Holders(c)' = Holders(c) \cup {o} /\ (o \in Holders(c) <=> c \in down[o])
    BY <1>5, HoldersStep
  <2>2. c \in virtual' <=> c \in virtual \/ (c \notin down[o] /\ counts[c] + 1 = 1)
    BY <1>5, <2>1 DEF KeyEvents, KeyEmitted
  <2>3. QED
    BY <1>1, <1>2, <2>1, <2>2
<1>6. CASE c \notin gone \cup new
  <2>1. c \in virtual' <=> c \in virtual
    BY <1>6 DEF KeyEvents
  <2>2. QED
    BY <1>1, <1>6, <2>1, HoldersStep
<1>7. QED
  BY <1>4, <1>5, <1>6

(* KeyEvents keeps everything but the entries of the map.                  *)
LEMMA KeyEventsStep ==
    ASSUME ForwarderTypeOK, CountsExact, VirtualIsUnion, NEW o \in Owner,
           NEW gone \in SUBSET Code, NEW new \in SUBSET Code, gone \cap new = {},
           KeyEvents(o, gone, new)
    PROVE  /\ down' \in [Owner -> SUBSET Code] /\ counts' \in [Code -> Nat]
           /\ virtual' \in SUBSET Code
           /\ CountsExact' /\ VirtualIsUnion'
<1>1. CountsExact'
  BY CountStep DEF CountsExact
<1>2. down' \in [Owner -> SUBSET Code]
  BY DEF KeyEvents, ForwarderTypeOK
<1>3. counts' \in [Code -> Nat]
  <2>1. counts' = [c \in Code |-> counts'[c]]
    BY DEF KeyEvents
  <2>2. \A c \in Code : counts'[c] \in Nat
    <3>1. \A c \in Code : IsFiniteSet(Holders(c)')
      BY OwnerAssumption, FS_Subset DEF Holders
    <3>2. QED
      BY <1>1, <3>1, FS_CardinalityType DEF CountsExact
  <2>3. QED
    BY <2>1, <2>2
<1>4. virtual' \in SUBSET Code
  BY DEF KeyEvents, ForwarderTypeOK
<1>5. VirtualIsUnion'
  BY <1>4, VirtualStep DEF VirtualIsUnion
<1>6. QED
  BY <1>1, <1>2, <1>3, <1>4, <1>5

(* The inductive invariant: without the exact counts, neither the union    *)
(* nor the decision what to write follows from the state before a step.    *)
ForwarderInv == ForwarderTypeOK /\ CountsExact /\ VirtualIsUnion /\ EntriesCoverDown

(* The initial maps are empty.                                             *)
LEMMA ForwarderInvInit == ForwarderInit => ForwarderInv
<1> SUFFICES ASSUME ForwarderInit PROVE ForwarderInv
  OBVIOUS
<1>1. ForwarderTypeOK /\ EntriesCoverDown
  BY DEF ForwarderInit, ForwarderTypeOK, EntriesCoverDown
<1>2. \A c \in Code : Holders(c) = {}
  BY DEF ForwarderInit, Holders
<1>3. CountsExact
  BY <1>2, FS_EmptySet DEF ForwarderInit, CountsExact
<1>4. VirtualIsUnion
  BY <1>2 DEF ForwarderInit, VirtualIsUnion
<1>5. QED
  BY <1>1, <1>3, <1>4 DEF ForwarderInv

(* Every call of the forwarder keeps the invariant.                        *)
LEMMA ForwarderInvStep ==
    ForwarderInv /\ [ForwarderNext]_forwarderVars => ForwarderInv'
<1> SUFFICES ASSUME ForwarderInv, [ForwarderNext]_forwarderVars
             PROVE  ForwarderInv'
  OBVIOUS
<1> USE DEF ForwarderInv
<1>1. CASE \E o \in Owner, c \in Code, value \in {0, 1, 2} : ForwardKey(o, c, value)
  <2>1. PICK o \in Owner, c \in Code, value \in {0, 1, 2} : ForwardKey(o, c, value)
    BY <1>1
  <2> DEFINE gone == IF value = 0 THEN {c} ELSE {}
             new == IF value = 1 THEN {c} ELSE {}
  <2>2. KeyEvents(o, gone, new) /\ entries' = entries \cup {o}
    BY <2>1 DEF ForwardKey
  <2>3. gone \in SUBSET Code /\ new \in SUBSET Code /\ gone \cap new = {}
    OBVIOUS
  <2> HIDE DEF gone, new
  <2>4. /\ down' \in [Owner -> SUBSET Code] /\ counts' \in [Code -> Nat]
        /\ virtual' \in SUBSET Code /\ CountsExact' /\ VirtualIsUnion'
    BY <2>2, <2>3, KeyEventsStep
  <2>5. ForwarderTypeOK'
    BY <2>2, <2>4 DEF ForwarderTypeOK
  <2>6. EntriesCoverDown'
    BY <2>2 DEF EntriesCoverDown, KeyEvents, ForwarderTypeOK
  <2>7. QED
    BY <2>4, <2>5, <2>6
<1>2. CASE \E o \in Owner : ForwardOther(o)
  BY <1>2 DEF ForwardOther, ForwarderTypeOK, CountsExact, VirtualIsUnion,
              EntriesCoverDown, Holders
<1>3. CASE \E o \in Owner, actual \in SUBSET Code : Resync(o, actual)
  <2>1. PICK o \in Owner, actual \in SUBSET Code : Resync(o, actual)
    BY <1>3
  <2> DEFINE gone == down[o] \ actual
             new == actual \ down[o]
  <2>2. /\ KeyEvents(o, gone, new)
        /\ entries' = IF actual = {} THEN entries \ {o} ELSE entries \cup {o}
    BY <2>1 DEF Resync
  <2>3. gone \in SUBSET Code /\ new \in SUBSET Code /\ gone \cap new = {}
    BY DEF ForwarderTypeOK
  <2>4. down' = [down EXCEPT ![o] = actual]
    BY <2>2 DEF KeyEvents, ForwarderTypeOK
  <2> HIDE DEF gone, new
  <2>5. /\ down' \in [Owner -> SUBSET Code] /\ counts' \in [Code -> Nat]
        /\ virtual' \in SUBSET Code /\ CountsExact' /\ VirtualIsUnion'
    BY <2>2, <2>3, KeyEventsStep
  <2>6. ForwarderTypeOK'
    BY <2>2, <2>5 DEF ForwarderTypeOK
  <2>7. EntriesCoverDown'
    BY <2>2, <2>4 DEF EntriesCoverDown, ForwarderTypeOK
  <2>8. QED
    BY <2>5, <2>6, <2>7
<1>4. CASE DestroyVirtual
  <2>1. ForwarderInit'
    BY <1>4 DEF DestroyVirtual, ForwarderInit
  <2>2. ForwarderTypeOK' /\ EntriesCoverDown'
    BY <2>1 DEF ForwarderInit, ForwarderTypeOK, EntriesCoverDown
  <2>3. \A c \in Code : Holders(c)' = {}
    BY <2>1 DEF ForwarderInit, Holders
  <2>4. CountsExact'
    BY <2>1, <2>3, FS_EmptySet DEF ForwarderInit, CountsExact
  <2>5. VirtualIsUnion'
    BY <2>1, <2>3 DEF ForwarderInit, VirtualIsUnion
  <2>6. QED
    BY <2>2, <2>4, <2>5
<1>5. CASE UNCHANGED forwarderVars
  BY <1>5 DEF forwarderVars, ForwarderTypeOK, CountsExact, VirtualIsUnion,
              EntriesCoverDown, Holders
<1>6. QED
  BY <1>1, <1>2, <1>3, <1>4, <1>5 DEF ForwarderNext

(* The forwarder's invariant holds of every behaviour of the forwarder.    *)
THEOREM ForwarderInvariant == ForwarderSpec => []ForwarderInv
  BY ForwarderInvInit, ForwarderInvStep, PTL DEF ForwarderSpec

(* The types of the forwarder's maps (Forwarder.Frame and Resync).         *)
THEOREM ForwarderTypes == ForwarderSpec => []ForwarderTypeOK
<1>1. ForwarderInv => ForwarderTypeOK
  BY DEF ForwarderInv
<1>2. QED
  BY <1>1, ForwarderInvariant, PTL

(* For any keyboards, remaps and keys: the count that keyEvent keeps for a *)
(* key is the number of owners that hold it.                               *)
THEOREM ForwarderCounts == ForwarderSpec => []CountsExact
<1>1. ForwarderInv => CountsExact
  BY DEF ForwarderInv
<1>2. QED
  BY <1>1, ForwarderInvariant, PTL

(* For any keyboards, remaps and keys: the virtual keyboard's keys are     *)
(* those that some owner holds, so no key sticks and none is lost.         *)
THEOREM ForwarderUnion == ForwarderSpec => []VirtualIsUnion
<1>1. ForwarderInv => VirtualIsUnion
  BY DEF ForwarderInv
<1>2. QED
  BY <1>1, ForwarderInvariant, PTL

(* keyEvent decides what to write from the counts alone; the decision      *)
(* agrees with the keys of the device that are down.                       *)
THEOREM ForwarderWrites == ForwarderSpec => []WritesMatchDevice
<1>1. ForwarderInv => WritesMatchDevice
  <2> SUFFICES ASSUME ForwarderInv, NEW o \in Owner, NEW c \in Code
               PROVE  /\ KeyEmitted(o, c, 1) <=> c \notin virtual
                      /\ KeyEmitted(o, c, 0) <=> Holders(c) = {o}
                      /\ KeyEmitted(o, c, 2) => c \in virtual
    BY DEF WritesMatchDevice
  <2>1. counts[c] \in Nat /\ (counts[c] = 0 <=> Holders(c) = {})
    BY CountZero DEF ForwarderInv
  <2>2. c \in virtual <=> Holders(c) # {}
    BY DEF ForwarderInv, VirtualIsUnion
  <2>3. o \in Holders(c) <=> c \in down[o]
    BY DEF Holders
  <2>4. KeyEmitted(o, c, 1) <=> c \notin virtual
    BY <2>1, <2>2, <2>3 DEF KeyEmitted
  <2>5. KeyEmitted(o, c, 0) <=> Holders(c) = {o}
    <3>1. KeyEmitted(o, c, 0) <=> o \in Holders(c) /\ ~(counts[c] - 1 > 0)
      BY <2>3 DEF KeyEmitted
    <3>2. ASSUME o \in Holders(c)
          PROVE  ~(counts[c] - 1 > 0) <=> Holders(c) = {o}
      <4>1. IsFiniteSet(Holders(c)) /\ counts[c] = Cardinality(Holders(c))
        BY HoldersFinite DEF ForwarderInv, CountsExact
      <4>2. /\ IsFiniteSet(Holders(c) \ {o})
            /\ Cardinality(Holders(c) \ {o}) = counts[c] - 1
        BY <3>2, <4>1, FS_RemoveElement
      <4>3. counts[c] - 1 = 0 <=> Holders(c) \ {o} = {}
        BY <4>2, FS_EmptySet
      <4>4. counts[c] # 0
        BY <2>1, <3>2
      <4>5. ~(counts[c] - 1 > 0) <=> Holders(c) \ {o} = {}
        BY <2>1, <4>3, <4>4
      <4>6. QED
        BY <3>2, <4>5
    <3>3. Holders(c) = {o} => o \in Holders(c)
      OBVIOUS
    <3>4. QED
      BY <3>1, <3>2, <3>3
  <2>6. KeyEmitted(o, c, 2) => c \in virtual
    BY <2>2, <2>3 DEF KeyEmitted
  <2>7. QED
    BY <2>4, <2>5, <2>6
<1>2. QED
  BY <1>1, ForwarderInvariant, PTL

-----------------------------------------------------------------------------
(* Refinement                                                              *)

Pairs == {h \in Owner \X Code : h[2] \in down[h[1]]}

(* Under the invariant the virtual keys are the union of the pairs.        *)
LEMMA PairsUnion ==
    ASSUME ForwarderInv
    PROVE  virtual = Keyboard!Union(Pairs)
<1>1. \A c \in Code : (\E o \in Owner : <<o, c>> \in Pairs) <=> Holders(c) # {}
  BY DEF Pairs, Holders
<1>2. QED
  BY <1>1 DEF ForwarderInv, VirtualIsUnion, Keyboard!Union

(* A step of one owner maps to Hold with the keys it is left with.         *)
LEMMA OwnerStep ==
    ASSUME ForwarderInv, ForwarderInv', NEW o \in Owner, NEW keys \in SUBSET Code,
           down' = [down EXCEPT ![o] = keys]
    PROVE  Keyboard!Hold(o, keys)
<1>1. Pairs' = {h \in Pairs : h[1] # o} \cup ({o} \X keys)
  BY DEF Pairs, ForwarderInv, ForwarderTypeOK
<1>2. virtual' = Keyboard!Union(Pairs')
  <2>1. \A c \in Code : (\E p \in Owner : <<p, c>> \in Pairs') <=> Holders(c)' # {}
    BY DEF Pairs, Holders
  <2>2. QED
    BY <2>1 DEF ForwarderInv, VirtualIsUnion, Keyboard!Union
<1>3. QED
  BY <1>1, <1>2 DEF Keyboard!Hold, Pairs

(* Forwarder implements VirtualKeyboard: reference counting and selective  *)
(* writes behave like a keyboard whose keys are the union of its owners'.  *)
THEOREM ForwarderRefinement == ForwarderSpec => RefinesKeyboard
<1>1. ForwarderInit => Keyboard!Init
  BY DEF ForwarderInit, Keyboard!Init
<1>2. ForwarderInv /\ ForwarderInv' /\ [ForwarderNext]_forwarderVars
        => [Keyboard!Next]_(Keyboard!keyboardVars)
  <2> SUFFICES ASSUME ForwarderInv, ForwarderInv', [ForwarderNext]_forwarderVars
               PROVE  [Keyboard!Next]_(Keyboard!keyboardVars)
    OBVIOUS
  <2>1. ASSUME NEW o \in Owner, NEW keys \in SUBSET Code, down' = [down EXCEPT ![o] = keys]
        PROVE  Keyboard!Next
    BY <2>1, OwnerStep DEF Keyboard!Next
  <2>2. CASE \E o \in Owner, c \in Code, value \in {0, 1, 2} : ForwardKey(o, c, value)
    <3>1. PICK o \in Owner, c \in Code, value \in {0, 1, 2} : ForwardKey(o, c, value)
      BY <2>2
    <3> DEFINE keys == (down[o] \ (IF value = 0 THEN {c} ELSE {}))
                         \cup (IF value = 1 THEN {c} ELSE {})
    <3>2. keys \in SUBSET Code
      BY DEF ForwarderInv, ForwarderTypeOK
    <3>3. down' = [down EXCEPT ![o] = keys]
      BY <3>1 DEF ForwardKey, KeyEvents, ForwarderInv, ForwarderTypeOK
    <3>4. QED
      BY <2>1, <3>2, <3>3
  <2>3. CASE \E o \in Owner : ForwardOther(o)
    BY <2>3 DEF ForwardOther, Keyboard!keyboardVars
  <2>4. CASE \E o \in Owner, actual \in SUBSET Code : Resync(o, actual)
    <3>1. PICK o \in Owner, actual \in SUBSET Code : Resync(o, actual)
      BY <2>4
    <3>2. down' = [down EXCEPT ![o] = actual]
      BY <3>1 DEF Resync, KeyEvents, ForwarderInv, ForwarderTypeOK
    <3>3. QED
      BY <2>1, <3>2
  <2>5. CASE DestroyVirtual
    BY <2>5 DEF DestroyVirtual, Keyboard!Next, Keyboard!Destroy
  <2>6. CASE UNCHANGED forwarderVars
    BY <2>6 DEF forwarderVars, Keyboard!keyboardVars
  <2>7. QED
    BY <2>2, <2>3, <2>4, <2>5, <2>6 DEF ForwarderNext
<1>3. QED
  BY <1>1, <1>2, ForwarderInvariant, PTL DEF ForwarderSpec, RefinesKeyboard, Keyboard!Spec

-----------------------------------------------------------------------------
(* What the journal may hold                                               *)

(* What the engine itself writes into its journal while it runs: actions,  *)
(* and operations of owners that are no keyboards.                         *)
ForeignOutput == {o \in Output : o.kind = "action" \/ o.owner \notin Device}

(* Routine records whose outputs are on no keyboard's behalf.              *)
GoodRecords ==
    {r \in Record : Routine(r) /\ (r.type = "output" => r.output \in ForeignOutput)}

LEMMA GoodOutput ==
    ASSUME NEW o \in ForeignOutput, NEW t \in HoldDevice \cup {NoDevice},
           t # NoDevice => o.kind = "key" /\ o.value = 2
    PROVE  RecordOutput(o, t) \in GoodRecords
<1>1. RecordOutput(o, t) \in Record
  BY DEF ForeignOutput, Record, RecordOutput
<1>2. RecordOutput(o, t).type = "output" /\ RecordOutput(o, t).output = o
      /\ RecordOutput(o, t).repeat = t
  BY DEF RecordOutput
<1> QED
  BY <1>1, <1>2 DEF GoodRecords, Routine

LEMMA OwnerForeign ==
    ASSUME NEW a \in Activation
    PROVE  /\ KeyOutput(a.owner, a.target, 0) \in ForeignOutput
           /\ KeyOutput(a.owner, a.target, 1) \in ForeignOutput
           /\ KeyOutput(a.owner, a.target, 2) \in ForeignOutput
           /\ ReconcileDevice(a.owner, {}) \in ForeignOutput
<1>1. a.owner \in HoldDevice /\ a.owner \notin Device
  BY OwnerAssumption DEF Activation
<1>2. \A v : KeyOutput(a.owner, a.target, v).owner = a.owner
  BY DEF KeyOutput
<1>3. ReconcileDevice(a.owner, {}).owner = a.owner
  BY DEF ReconcileDevice
<1> QED
  BY <1>1, <1>2, <1>3, StopRecords DEF ForeignOutput

LEMMA StopsForeign ==
    ASSUME NEW a \in Activation
    PROVE  StopOutputs(a) \in Seq(ForeignOutput)
  BY OwnerForeign DEF StopOutputs

LEMMA GoodRoutine ==
    ASSUME NEW x \in Engines, RecordsIn(x, GoodRecords)
    PROVE  RoutineJournal(x)
<1>1. RecordsIn(x, RoutineRecords)
  BY DEF RecordsIn, GoodRecords, RoutineRecords
<1> QED
  BY <1>1, RoutineIs

LEMMA GoodSame ==
    ASSUME NEW x \in Engines, NEW y \in Engines, SameEvents(x, y), RecordsIn(x, GoodRecords)
    PROVE  RecordsIn(y, GoodRecords)
<1>1. Inherits(x, y, {})
  BY SameInherits
<1> QED
  BY <1>1, Zenon DEF Inherits, RecordsIn

LEMMA GoodDrain ==
    ASSUME NEW x \in Engines, RecordsIn(x, GoodRecords)
    PROVE  RecordsIn(Drain(x), GoodRecords)
<1>1. Inherits(x, Drain(x), {})
  BY DrainInherits
<1> QED
  BY <1>1, Zenon DEF Inherits, RecordsIn

LEMMA GoodQueue ==
    ASSUME NEW x \in Engines, NEW outputs \in Seq(ForeignOutput), NEW y,
           y.journal = QueueOutputs(x, outputs).journal, RecordsIn(x, GoodRecords)
    PROVE  RecordsIn(y, GoodRecords)
<1> DEFINE R == {RecordOutput(o, NoDevice) : o \in ToSet(outputs)}
<1>1. outputs \in Seq(Output) /\ ToSet(outputs) \subseteq ForeignOutput
  BY ToSetType DEF ForeignOutput
<1>2. Inherits(x, y, R)
  BY <1>1, QueueInherits
<1>3. R \subseteq GoodRecords
  BY <1>1, GoodOutput
<1> HIDE DEF R
<1> QED
  BY <1>2, <1>3, RecordsKept, Zenon

(* The records of ended and repeating activations.                         *)
LEMMA EventRecordsGood ==
    ASSUME NEW tr
    PROVE  EventRecordsOf(tr) \in [Activation -> Seq(GoodRecords)]
<1>1. ASSUME NEW a \in Activation PROVE EventRecordsOf(tr)[a] \in Seq(GoodRecords)
  <2> DEFINE r == RecordOutput(KeyOutput(a.owner, a.target, 0), NoDevice)
             s == RecordOutput(ReconcileDevice(a.owner, {}), NoDevice)
             t == RecordOutput(KeyOutput(a.owner, a.target, 2), a.owner)
  <2>1. r \in GoodRecords /\ s \in GoodRecords
    BY OwnerForeign, GoodOutput
  <2>2. t \in GoodRecords
    <3>1. /\ KeyOutput(a.owner, a.target, 2).kind = "key" /\ KeyOutput(a.owner, a.target, 2).value = 2
          /\ a.owner \in HoldDevice
      BY DEF KeyOutput, Activation
    <3> QED
      BY <3>1, OwnerForeign, GoodOutput
  <2>3. EventRecordsOf(tr)[a] \in {<<r, s>>, <<t>>, <<>>}
    BY DEF EventRecordsOf
  <2> HIDE DEF r, s, t
  <2>4. <<r, s>> \in Seq(GoodRecords) /\ <<t>> \in Seq(GoodRecords) /\ <<>> \in Seq(GoodRecords)
    BY <2>1, <2>2
  <2> QED
    BY <2>3, <2>4, Zenon
<1>2. EventRecordsOf(tr) = [a \in Activation |-> EventRecordsOf(tr)[a]]
  BY DEF EventRecordsOf
<1> HIDE DEF EventRecordsOf
<1> QED
  BY <1>1, <1>2

LEMMA ActivationEventsGood ==
    ASSUME NEW x \in Engines, NEW tr
    PROVE  ActivationEvents(x, tr) \in Seq(GoodRecords)
<1>1. x.active \in Seq(Activation)
  BY DEF Engines
<1>2. Mapped(x.active, EventRecordsOf(tr)) \in Seq(GoodRecords)
  BY <1>1, EventRecordsGood, MappedType, Zenon
<1> QED
  BY <1>2, ActivationEventsAre, Zenon

LEMMA HandledGood ==
    ASSUME NEW x, Sound(x), x.journal # <<>>, NEW d \in Device,
           NEW event \in InputEvent, NEW chatter \in BOOLEAN,
           Fresh(x, d, event) => FreeLives(x, d, event.code) # {} /\ chatter = FALSE,
           RecordsIn(x, GoodRecords)
    PROVE  RecordsIn(Handled(x, d, event, chatter), GoodRecords)
<1> DEFINE v == Ingested(x, d, event)
           w == Ended(x, d, event)
           tr == TransitionOf(x, d, event)
           valid == Valid(x, d, event)
           p == EventPress(x, d, event)
           r == RecordEvent(event, p)
           records == Records(v, tr, valid, chatter, event, p)
<1>a. Fresh(x, d, event) => FreeLives(x, d, event.code) # {}
  OBVIOUS
<1>0. x \in Engines
  BY DEF Sound
<1>1. v \in Engines /\ w \in Engines /\ w.journal = x.journal
  BY <1>a, EndedParts
<1>2. p \in Press \cup {NoPress} /\ (event.type # "key" => p = NoPress)
  BY <1>0, <1>a, EventPressIs
<1>3. records \in Seq(Record) /\ r \in Record
  <2>1. /\ EventRecords(v, event, p) \in SUBSET Record
        /\ records \in Seq(EventRecords(v, event, p))
    BY <1>1, <1>2, RecordsType
  <2>2. r \in EventRecords(v, event, p)
    BY DEF EventRecords
  <2> HIDE DEF r, p, records, v
  <2> QED
    BY <2>1, <2>2
<1>4. r \in GoodRecords
  <2>1. r.type # "output"
    BY EventType DEF RecordEvent
  <2> HIDE DEF r
  <2> QED
    BY <1>3, <2>1 DEF GoodRecords, Routine
<1>5. Outputs(v, tr, valid) \in Seq(GoodRecords)
  <2>1. ActivationEvents(v, tr) \in Seq(GoodRecords)
    BY <1>1, ActivationEventsGood, Zenon
  <2> HIDE DEF v, tr, valid
  <2> QED
    BY <2>1 DEF Outputs
<1>6. records = (IF chatter THEN <<>> ELSE <<r>>) \o Outputs(v, tr, valid)
  BY DEF Records
<1>7. records \in Seq(GoodRecords)
  <2>1. PICK s \in Seq(GoodRecords) : s = Outputs(v, tr, valid)
    BY <1>5, Zenon
  <2>2. <<>> \in Seq(GoodRecords) /\ <<r>> \in Seq(GoodRecords)
    <3> HIDE DEF r
    <3> QED
      BY <1>4
  <2>3. <<>> \o s \in Seq(GoodRecords) /\ <<r>> \o s \in Seq(GoodRecords)
    BY <2>1, <2>2, ConcatType, Zenon
  <2> HIDE DEF records, r
  <2> QED
    BY <1>6, <2>1, <2>3
<1>8. Inherits(w, Recorded(w, records), ToSet(records))
  <2> HIDE DEF w, records
  <2> QED
    BY <1>1, <1>3, RecordedInherits
<1>9. ToSet(records) \subseteq GoodRecords
  <2> HIDE DEF records
  <2> QED
    BY <1>7, ToSetType
<1>10. RecordsIn(w, GoodRecords)
  <2> HIDE DEF w
  <2> QED
    BY <1>1, Zenon DEF RecordsIn, HasRecord
<1>11. RecordsIn(Recorded(w, records), GoodRecords)
  <2> HIDE DEF w, records
  <2> QED
    BY <1>8, <1>9, <1>10, RecordsKept, Zenon
<1> QED
  BY <1>11, Zenon DEF Handled

LEMMA GoodQueueOne ==
    ASSUME NEW x, x \in Engines, DeviceOrOutputs(x), NEW o \in ForeignOutput,
           RecordsIn(x, GoodRecords)
    PROVE  /\ QueueOutput(x, o) \in Engines /\ DeviceOrOutputs(QueueOutput(x, o))
           /\ RecordsIn(QueueOutput(x, o), GoodRecords)
<1>1. <<o>> \in Seq(ForeignOutput) /\ <<o>> \in Seq(Output)
  BY DEF ForeignOutput
<1>2. RecordsIn(QueueOutputs(x, <<o>>), GoodRecords)
  BY <1>1, GoodQueue, Zenon
<1> QED
  BY <1>1, <1>2, QueueOutputsFields DEF QueueOutput

LEMMA GoodActivate ==
    ASSUME NEW x, x \in Engines, NEW z, Sound(z), NEW target \in Code,
           NEW owner \in HoldDevice, RecordsIn(z, GoodRecords)
    PROVE  RecordsIn(Activate(z, x.seq, target, owner), GoodRecords)
<1> DEFINE c == x.seq
           a == [owner |-> owner, target |-> target,
                 members |-> c.matchMembers, driver |-> c.driver]
           u == KeyOutput(owner, target, 1)
           w == QueueOutput(z, u)
<1>1. a \in Activation /\ a.owner = owner /\ a.target = target
  BY DEF Engines, Candidate, Activation
<1>2. Activate(z, c, target, owner) =
        IF c.broken THEN StopActivation(w, a) ELSE [w EXCEPT !.active = Append(@, a)]
  BY DEF Activate
<1>3. u \in ForeignOutput
  BY <1>1, OwnerForeign
<1> HIDE DEF a, u
<1>4. w \in Engines /\ RecordsIn(w, GoodRecords)
  BY <1>3, GoodQueueOne DEF Sound
<1> HIDE DEF w
<1>5. CASE c.broken
  <2>1. StopOutputs(a) \in Seq(ForeignOutput)
    BY <1>1, StopsForeign
  <2>2. RecordsIn(QueueOutputs(w, StopOutputs(a)), GoodRecords)
    BY <1>4, <2>1, GoodQueue, Zenon
  <2> QED
    BY <1>2, <1>5, <2>2, Zenon DEF StopActivation
<1>6. CASE ~c.broken
  <2>1. [w EXCEPT !.active = Append(@, a)].journal = w.journal
    BY <1>4 DEF Engines
  <2>2. RecordsIn([w EXCEPT !.active = Append(@, a)], GoodRecords)
    BY <1>4, <2>1, Zenon DEF RecordsIn, HasRecord
  <2> QED
    BY <1>2, <1>6, <2>2, Zenon
<1> QED
  BY <1>5, <1>6

LEMMA GoodCompleteBinding ==
    ASSUME NEW x, Sound(x), x.mode = "binding", x.seq.matched # 0, RecordsIn(x, GoodRecords)
    PROVE  RecordsIn(CompleteBinding(x), GoodRecords)
<1> DEFINE r == Resolve(x, "consumed")
           z == Idle(r)
           action == Sources[x.activePrefix].bindings[x.seq.matched].action
           o == EmitAction(action)
<1>1. /\ Matching(x) /\ x.activePrefix \in DOMAIN Sources
      /\ x.seq.matched \in DOMAIN Sources[x.activePrefix].bindings
  BY DEF Sound, Configured, BindingCandidate, Matching
<1>2. o \in ForeignOutput
  BY <1>1, BindingAt DEF ForeignOutput, Output, EmitAction
<1>3. r \in Engines /\ SameEvents(x, r)
  BY ResolveFields DEF Sound, Route
<1>4. Committed(x, z)
  BY <1>1, <1>3, Commits
<1>5. z.journal = r.journal
  BY <1>3, IdleFields
<1>6. CompleteBinding(x) = QueueOutput(z, o)
  BY DEF CompleteBinding
<1> HIDE DEF r, z, o
<1>7. SameEvents(x, z)
  BY <1>3, <1>5, Zenon DEF SameEvents
<1>8. x \in Engines /\ z \in Engines /\ DeviceOrOutputs(z)
  BY <1>4 DEF Sound, Committed
<1>9. RecordsIn(z, GoodRecords)
  BY <1>7, <1>8, GoodSame
<1> QED
  BY <1>2, <1>6, <1>8, <1>9, GoodQueueOne

LEMMA GoodCompleteSource ==
    ASSUME NEW x, Sound(x), x.mode \in {"reserved", "prefix"}, x.seq.matched # 0,
           NEW owner \in HoldDevice, RecordsIn(x, GoodRecords)
    PROVE  RecordsIn(CompleteSource(x, owner), GoodRecords)
<1> DEFINE c == x.seq
           source == Sources[c.matched]
           held == HeldModifiers(x, c)
           r == Resolve(x, "consumed")
           w == [r EXCEPT !.reuse = r.reuse \cup held]
           z == Idle(w)
<1>0. x \in Engines /\ c \in Candidate /\ Matching(x)
  BY DEF Sound, Engines, Matching
<1>1. c.matched \in DOMAIN Sources /\ c.matched \in Nat
  BY SourceAt DEF Sound, Configured, SourceCandidate
<1>2. source.mode \in {"action", "tap", "hold"} /\ source.target \in Code
  BY <1>1, SourceAt
<1>3. held \subseteq c.members /\ held \subseteq Press
  BY <1>0 DEF HeldModifiers, Candidate
<1>4. r \in Engines /\ SameEvents(x, r)
  BY <1>0, ResolveFields DEF Route
<1>5. CompleteSource(x, owner) =
        CASE source.mode = "action" ->
               [r EXCEPT !.mode = "await", !.activePrefix = c.matched, !.seq = NoCandidate,
                         !.carry = held, !.deadline = TRUE]
          [] source.mode = "hold" -> Activate(z, c, source.target, owner)
          [] source.mode = "tap" ->
               QueueOutput(QueueOutput(z, KeyOutput(TapDevice, source.target, 1)),
                           KeyOutput(TapDevice, source.target, 0))
  BY DEF CompleteSource
<1> HIDE DEF held, r
<1>6. /\ w \in Engines
      /\ w.physical = r.physical /\ w.logicalCount = r.logicalCount
      /\ w.route = r.route /\ w.journal = r.journal /\ w.active = r.active
      /\ w.reuse = r.reuse \cup held
  BY <1>3, <1>4 DEF Engines
<1> HIDE DEF w
<1>7. Committed(x, z)
  BY <1>0, <1>3, <1>6, Commits DEF r
<1>8. z.journal = r.journal
  BY <1>6, IdleFields
<1> HIDE DEF z
<1>9. SameEvents(x, z)
  BY <1>4, <1>8, Zenon DEF SameEvents
<1>10. Sound(z) /\ z \in Engines /\ DeviceOrOutputs(z) /\ RecordsIn(z, GoodRecords)
  BY <1>0, <1>7, <1>9, CommittedKeeps, GoodSame DEF Committed
<1>11. CASE source.mode = "action"
  <2> DEFINE y == [r EXCEPT !.mode = "await", !.activePrefix = c.matched, !.seq = NoCandidate,
                            !.carry = held, !.deadline = TRUE]
  <2>1. CompleteSource(x, owner) = y
    BY <1>5, <1>11
  <2>2. y.journal = z.journal
    BY <1>4, <1>8 DEF Engines
  <2> HIDE DEF y
  <2> QED
    BY <1>10, <2>1, <2>2, Zenon DEF RecordsIn, HasRecord
<1>12. CASE source.mode = "hold"
  BY <1>0, <1>2, <1>5, <1>10, <1>12, GoodActivate
<1>13. CASE source.mode = "tap"
  <2> DEFINE first == KeyOutput(TapDevice, source.target, 1)
             second == KeyOutput(TapDevice, source.target, 0)
             u == QueueOutput(z, first)
  <2>1. CompleteSource(x, owner) = QueueOutput(u, second)
    BY <1>5, <1>13
  <2>2. first \in ForeignOutput /\ second \in ForeignOutput
    BY <1>2, OwnerAssumption DEF ForeignOutput, Output, KeyOutput, Owner
  <2> HIDE DEF first, second
  <2>3. u \in Engines /\ DeviceOrOutputs(u) /\ RecordsIn(u, GoodRecords)
    BY <1>10, <2>2, GoodQueueOne
  <2> HIDE DEF u
  <2> QED
    BY <2>1, <2>2, <2>3, GoodQueueOne
<1> QED
  BY <1>2, <1>11, <1>12, <1>13

LEMMA GoodCompleteFrame ==
    ASSUME NEW x, Sound(x), NEW owner \in HoldDevice, RecordsIn(x, GoodRecords)
    PROVE  RecordsIn(CompleteFrame(x, owner), GoodRecords)
<1>1. CASE ~Finished(x)
  BY <1>1 DEF CompleteFrame
<1>2. CASE Finished(x)
  <2>1. Matching(x) /\ x.seq.matched # 0
    BY <1>2 DEF Finished
  <2>2. CASE x.mode = "binding"
    BY <1>2, <2>1, <2>2, GoodCompleteBinding DEF CompleteFrame
  <2>3. CASE x.mode # "binding"
    <3>1. x.mode \in {"reserved", "prefix"}
      BY <2>1, <2>3 DEF Matching
    <3> QED
      BY <1>2, <2>1, <2>3, <3>1, GoodCompleteSource DEF CompleteFrame
  <2> QED
    BY <2>2, <2>3
<1> QED
  BY <1>1, <1>2

-----------------------------------------------------------------------------
(* Steps of HandleFrame and of the timer                                   *)

(* What the main loop may rely on between any two steps of the engine.     *)
Balanced(x, keys, names) ==
    /\ Flow(x, keys, names, Owner)
    /\ OneLife(x)
    /\ RecordsIn(x, GoodRecords)

LEMMA SameBalanced ==
    ASSUME NEW x, Sound(x), NEW y, Sound(y), Evolves(x, y, {}), SameEvents(x, y),
           y.physical = x.physical, y.active = x.active,
           NEW keys, NEW names, Balanced(x, keys, names)
    PROVE  Balanced(y, keys, names)
<1>1. x \in Engines /\ y \in Engines
  BY DEF Sound
<1>2. Flow(y, keys, names, Owner)
  BY <1>1, FlowStands DEF Balanced
<1>3. RecordsIn(y, GoodRecords)
  BY <1>1, GoodSame DEF Balanced
<1> QED
  BY <1>2, <1>3 DEF Balanced, OneLife

LEMMA MatcherBalanced ==
    ASSUME NEW x, Sound(x), NEW y, MatcherStep(x, y),
           NEW keys, NEW names, Balanced(x, keys, names)
    PROVE  Balanced(y, keys, names)
<1>1. Sound(y) /\ Evolves(x, y, {}) /\ SameEvents(x, y) /\ y.physical = x.physical
      /\ y.active = x.active
  BY Zenon DEF MatcherStep
<1> QED
  BY <1>1, SameBalanced, Zenon

LEMMA DrainBalanced ==
    ASSUME NEW x, Sound(x), NEW keys, NEW names, Balanced(x, keys, names)
    PROVE  Balanced(Drain(x), AppliedKeys(keys, Drained(x)), AppliedNames(names, Drained(x)))
<1>1. x \in Engines /\ RoutineJournal(x)
  BY GoodRoutine DEF Sound, Balanced
<1>2. Flow(x, keys, names, Owner) /\ Owner \subseteq Owner
  BY DEF Balanced
<1>3. Flow(Drain(x), AppliedKeys(keys, Drained(x)), AppliedNames(names, Drained(x)), Owner)
  BY <1>1, <1>2, FlowDrain, Zenon
<1>4. Drain(x).physical = x.physical
  BY <1>1, DrainFields
<1>5. OneLife(Drain(x))
  BY <1>4, Zenon DEF OneLife, Balanced
<1>6. RecordsIn(Drain(x), GoodRecords)
  BY <1>1, GoodDrain DEF Balanced
<1> QED
  BY <1>3, <1>5, <1>6, Zenon DEF Balanced

LEMMA HandledBalanced ==
    ASSUME NEW x, Sound(x), Held(x), x.journal # <<>>, NEW d \in Device,
           Last(x.journal).device = d, NEW event \in InputEvent, NEW chatter \in BOOLEAN,
           Fresh(x, d, event) => FreeLives(x, d, event.code) # {} /\ chatter = FALSE,
           Valid(x, d, event) /\ event.value = 0 => chatter = FALSE,
           NEW keys, NEW names, Balanced(x, keys, names)
    PROVE  Balanced(Handled(x, d, event, chatter), keys, names)
<1> DEFINE y == Handled(x, d, event, chatter)
<1>0. x \in Engines /\ OneLife(x) /\ RecordsIn(x, GoodRecords) /\ Flow(x, keys, names, Owner)
  BY DEF Sound, Balanced
<1>1. Flow(y, keys, names, Owner)
  BY <1>0, HandledFlow, Zenon
<1>2. PhysicalMoves(x, y, d, event)
  BY HandledPhysical, Zenon
<1>3. RecordsIn(y, GoodRecords)
  BY <1>0, HandledGood, Zenon
<1> HIDE DEF y
<1>4. OneLife(y)
  <2>1. Fresh(x, d, event) => FreeLives(x, d, event.code) # {}
    OBVIOUS
  <2> QED
    BY <1>0, <1>2, <2>1, OneLifeMoves, Zenon
<1>5. Balanced(y, keys, names)
  BY <1>1, <1>3, <1>4, Zenon DEF Balanced
<1> QED
  BY <1>5, Zenon DEF y

(* HandleFrame's loop over the events of the frame.                        *)
LEMMA HandleEventBalanced ==
    ASSUME NEW event \in InputEvent, EngineInv, HeldInv, HandleEvent(event),
           NEW keys, NEW names, Balanced(e, keys, names)
    PROVE  Balanced(e', keys, names)
<1> DEFINE d == frame.device
           p == EventPress(e, d, event)
           tr == TransitionOf(e, d, event)
           fresh == Fresh(e, d, event)
           fails == EventFails(d, event)
           proceeds == EventProceeds(d, event)
<1>1. PICK chatter \in BOOLEAN :
           LET y == Handled(e, d, event, chatter)
               starts == EventStarts(d, event, chatter)
           IN /\ chatter = ChatterOf(e, d, event)
              /\ fresh => FreeLives(e, d, event.code) # {} /\ ~chatter
              /\ e' = IF fails THEN Fail(y)
                      ELSE IF starts THEN Started(y, p, Len(e.journal)) ELSE y
              /\ frame' =
                   [frame EXCEPT
                      !.n = @ + 1,
                      !.fresh = IF fresh THEN @ \cup {p} ELSE @,
                      !.meaningful = @ \/ (event.type # "msc" /\ ~chatter),
                      !.failed = @ \/ fails,
                      !.todo = IF starts THEN Append(frame.history, tr)
                               ELSE IF proceeds /\ Matching(y) THEN <<tr>> ELSE <<>>,
                      !.history = IF proceeds THEN Append(@, tr) ELSE @]
              /\ out' = out
  BY HandleEventIs
<1> DEFINE y == Handled(e, d, event, chatter)
           starts == EventStarts(d, event, chatter)
<1>2. /\ Sound(e) /\ e \in Engines
      /\ d \in Device /\ e.journal # <<>> /\ Last(e.journal).device = d /\ Held(e)
  BY DEF EngineInv, HandleEvent, FrameInProgress, Sound, HeldInv
<1>3. fresh => FreeLives(e, d, event.code) # {} /\ chatter = FALSE
  BY <1>1
<1>4. Valid(e, d, event) /\ event.value = 0 => chatter = FALSE
  <2>1. chatter = ChatterOf(e, d, event)
    BY <1>1
  <2> HIDE DEF d
  <2> QED
    BY <2>1 DEF ChatterOf, Chatter
<1>5. /\ Sound(y) /\ y.journal # <<>> /\ Len(y.journal) = Len(e.journal)
  <2> HIDE DEF d
  <2>1. HandledFacts(e, d, event, chatter)
    BY <1>2, <1>3, HandledKeeps
  <2> QED
    BY <2>1 DEF HandledFacts
<1>6. Balanced(y, keys, names)
  <2> HIDE DEF d
  <2> QED
    BY <1>2, <1>3, <1>4, HandledBalanced
<1>7. Held(y)
  <2> HIDE DEF d
  <2> QED
    BY <1>2, <1>3, HandledMoves
<1>8. starts => Starts(y, p)
  BY DEF EventStarts
<1>9. e' = IF fails THEN Fail(y) ELSE IF starts THEN Started(y, p, Len(e.journal)) ELSE y
  BY <1>1
<1> HIDE DEF y, starts, fails, p
<1>10. Balanced(Fail(y), keys, names)
  BY <1>5, <1>6, FailStep, MatcherBalanced
<1>11. ASSUME starts PROVE Balanced(Started(y, p, Len(e.journal)), keys, names)
  <2> DEFINE z == Started(y, p, Len(e.journal))
  <2>1. Sound(z) /\ Evolves(y, z, {}) /\ SameEvents(y, z) /\ z.active = y.active
    BY <1>5, <1>8, <1>11, StartedKeeps
  <2>2. z.physical = y.physical
    <3>1. Leftovers(y) /\ y.physical \in SUBSET Press /\ y.reuse \cup y.carry \subseteq y.physical
      BY <1>5, <1>7 DEF Held, Leftovers, Sound, Engines
    <3>2. Retains(y, z)
      BY <1>5, <1>8, <1>11, <3>1, StartedTracks
    <3> QED
      BY <3>2, Zenon DEF Retains
  <2> HIDE DEF z
  <2>3. Balanced(z, keys, names)
    BY <1>5, <1>6, <2>1, <2>2, SameBalanced, Zenon
  <2> QED
    BY <2>3, Zenon DEF z
<1> QED
  BY <1>6, <1>9, <1>10, <1>11, Zenon

(* The operations s wait to be applied; the drained ones join them.        *)
LEMMA DrainApplied ==
    ASSUME NEW x, Sound(x), NEW s \in Seq(Output), NEW keys, NEW names,
           Balanced(x, AppliedKeys(keys, s), AppliedNames(names, s))
    PROVE  Balanced(Drain(x), AppliedKeys(keys, s \o Drained(x)),
                    AppliedNames(names, s \o Drained(x)))
<1>1. s \in Seq(Operation)
  BY DEF Operation
<1>2. Drained(x) \in Seq(Operation)
  <2>1. Drained(x) \in Seq(Output)
    BY DrainedOutput
  <2> QED
    BY <2>1 DEF Operation
<1>3. /\ AppliedKeys(keys, s \o Drained(x)) = AppliedKeys(AppliedKeys(keys, s), Drained(x))
      /\ AppliedNames(names, s \o Drained(x)) = AppliedNames(AppliedNames(names, s), Drained(x))
  BY <1>1, <1>2, AppliedConcat
<1>4. Balanced(Drain(x), AppliedKeys(AppliedKeys(keys, s), Drained(x)),
               AppliedNames(AppliedNames(names, s), Drained(x)))
  BY DrainBalanced, Zenon
<1> QED
  BY <1>3, <1>4, Zenon

(* The transitions that a candidate takes.                                 *)
LEMMA AdvanceStepBalanced ==
    ASSUME EngineInv, AdvanceStep, NEW keys, NEW names, Balanced(e, keys, names)
    PROVE  Balanced(e', keys, names)
<1> DEFINE tr == Head(frame.todo)
<1>1. /\ Sound(e) /\ e \in Engines /\ frame \in Frames /\ FrameInProgress
      /\ frame.open /\ frame.todo # <<>> /\ Matching(e)
  BY DEF EngineInv, AdvanceStep, FrameInProgress, Sound
<1>2. e' = Advance(e, tr)
  BY DEF AdvanceStep
<1>3. frame.todo \in Seq(Transitions)
  BY <1>1 DEF Frames
<1>4. tr \in Transitions /\ tr \in ToSet(frame.todo)
  BY <1>1, <1>3 DEF ToSet
<1>5. tr.press \in Press /\ (tr.value = 1 => tr.press \in Referenced(e))
  BY <1>1, <1>4, ReferencedParts DEF FrameInProgress, Transitions
<1> HIDE DEF tr
<1>6. MatcherStep(e, Advance(e, tr))
  BY <1>1, <1>5, AdvanceKeeps
<1> QED
  BY <1>1, <1>2, <1>6, MatcherBalanced, Zenon

(* HandleFrame's start: the expired deadline, the drain, the new frame.    *)
LEMMA BeginFrameBalanced ==
    ASSUME NEW d \in Device, NEW late \in BOOLEAN, EngineInv, BeginFrame(d, late),
           NEW keys, NEW names, Balanced(e, AppliedKeys(keys, out), AppliedNames(names, out))
    PROVE  Balanced(e', AppliedKeys(keys, out'), AppliedNames(names, out'))
<1> DEFINE x == HandleTimeout(e, late)
           y == Drain(x)
           dropScan == \E p \in y.physical : device(p) = d /\ y.route[p] = "consumed"
           candidate == IF Matching(y) THEN "undecided" ELSE "none"
           f == JournalFrame(d, <<>>, dropScan, candidate)
           z == [y EXCEPT !.journal = Append(y.journal, f)]
<1>1. Sound(e) /\ out \in Seq(Output) /\ out = <<>>
  BY DEF EngineInv, BeginFrame, Ready
<1>2. e' = z /\ out' = Drained(x)
  BY DEF BeginFrame
<1>3. MatcherStep(e, x)
  BY <1>1, TimeoutStep
<1> HIDE DEF x
<1>4. Sound(x) /\ Balanced(x, AppliedKeys(keys, out), AppliedNames(names, out))
  BY <1>1, <1>3, MatcherBalanced, Zenon DEF MatcherStep
<1>5. Drained(x) \in Seq(Output)
  BY <1>4, DrainedOutput
<1>6. out' = out \o Drained(x)
  BY <1>1, <1>2, <1>5, ConcatEmpty
<1>7. Balanced(y, AppliedKeys(keys, out'), AppliedNames(names, out'))
  <2>1. Balanced(y, AppliedKeys(keys, out \o Drained(x)), AppliedNames(names, out \o Drained(x)))
    BY <1>1, <1>4, DrainApplied, Zenon
  <2> QED
    BY <1>6, <2>1, Zenon
<1>8. Sound(y) /\ y \in Engines
  BY <1>4, DrainKeeps DEF Sound
<1>9. f \in JournalFrames /\ f.events = <<>> /\ f.device = d
  BY DEF JournalFrame, JournalFrames, Route
<1> HIDE DEF y, f
<1>10. Sound(z)
  BY <1>8, <1>9, AppendFrameKeeps
<1>11. z \in Engines /\ z.physical = y.physical /\ z.active = y.active /\ z.route = y.route
       /\ z.journal = Append(y.journal, f)
  BY <1>8, <1>10 DEF Engines, Sound
<1>12. \A fate : Ops(z, fate) = Ops(y, fate)
  BY <1>8, <1>9, AppendFrameOps, Zenon
<1>13. RecordsIn(z, GoodRecords)
  <2>1. \A i \in DOMAIN z.journal : i \notin DOMAIN y.journal => z.journal[i].events = <<>>
    BY <1>8, <1>9, <1>11 DEF Engines
  <2>2. \A i \in DOMAIN z.journal : i \in DOMAIN y.journal => z.journal[i] = y.journal[i]
    BY <1>8, <1>11 DEF Engines
  <2>3. \A r : HasRecord(z, r) => HasRecord(y, r)
    BY <2>1, <2>2 DEF HasRecord
  <2> QED
    BY <1>7, <2>3, Zenon DEF Balanced, RecordsIn
<1> HIDE DEF z
<1>14. Flow(z, AppliedKeys(keys, out'), AppliedNames(names, out'), Owner)
  <2>1. Flow(y, AppliedKeys(keys, out'), AppliedNames(names, out'), Owner)
    BY <1>7, Zenon DEF Balanced
  <2> QED
    BY <1>8, <1>11, <1>12, <2>1, FlowSays, Zenon
<1>15. OneLife(z)
  BY <1>7, <1>11, Zenon DEF Balanced, OneLife
<1> QED
  BY <1>2, <1>13, <1>14, <1>15, Zenon DEF Balanced

(* The timer's case.                                                       *)
LEMMA TimeoutBalanced ==
    ASSUME EngineInv, Timeout,
           NEW keys, NEW names, Balanced(e, AppliedKeys(keys, out), AppliedNames(names, out))
    PROVE  Balanced(e', AppliedKeys(keys, out'), AppliedNames(names, out'))
<1> DEFINE x == HandleTimeout(e, TRUE)
<1>1. Sound(e) /\ out \in Seq(Output) /\ out = <<>>
  BY DEF EngineInv, Timeout, Ready
<1>2. e' = Drain(x) /\ out' = Drained(x)
  BY DEF Timeout
<1>3. MatcherStep(e, x)
  BY <1>1, TimeoutStep
<1> HIDE DEF x
<1>4. Sound(x) /\ Balanced(x, AppliedKeys(keys, out), AppliedNames(names, out))
  BY <1>1, <1>3, MatcherBalanced, Zenon DEF MatcherStep
<1>5. Drained(x) \in Seq(Output)
  BY <1>4, DrainedOutput
<1>6. out' = out \o Drained(x)
  BY <1>1, <1>2, <1>5, ConcatEmpty
<1>7. Balanced(Drain(x), AppliedKeys(keys, out \o Drained(x)), AppliedNames(names, out \o Drained(x)))
  BY <1>1, <1>4, DrainApplied, Zenon
<1> QED
  BY <1>2, <1>6, <1>7, Zenon

(* A frame that only held scan codes says nothing of keys.                 *)
LEMMA DropChatterBalanced ==
    ASSUME NEW x, Sound(x), NEW meaningful, NEW keys, NEW names, Balanced(x, keys, names),
           x.mode = "reserved" /\ ~meaningful =>
              x.journal # <<>> /\ \A k \in DOMAIN Last(x.journal).events :
                                     Last(x.journal).events[k].type = "msc"
    PROVE  Balanced(DropChatter(x, meaningful), keys, names)
<1>1. CASE ~(x.mode = "reserved" /\ ~meaningful)
  BY <1>1 DEF DropChatter
<1>2. CASE x.mode = "reserved" /\ ~meaningful
  <2> DEFINE y == [x EXCEPT !.journal = Front(x.journal)]
  <2>1. DropChatter(x, meaningful) = y
    BY <1>2 DEF DropChatter
  <2>2. x \in Engines /\ x.journal \in Seq(JournalFrames) /\ x.journal # <<>>
    BY <1>2 DEF Sound, Engines
  <2>3. Front(x.journal) \in Seq(JournalFrames) /\ Len(Front(x.journal)) = Len(x.journal) - 1
        /\ Len(x.journal) \in Nat \ {0}
        /\ \A i \in 1 .. Len(x.journal) - 1 : Front(x.journal)[i] = x.journal[i]
    BY <2>2, FrontIs
  <2>4. y \in Engines /\ y.physical = x.physical /\ y.active = x.active /\ y.route = x.route
        /\ y.journal = Front(x.journal)
    BY <2>2, <2>3 DEF Engines
  <2>5. \A k \in DOMAIN Last(x.journal).events : Last(x.journal).events[k].type \in {"msc", "led"}
    BY <1>2
  <2>6. \A fate : Ops(y, fate) = Ops(x, fate)
    BY <2>2, <2>5, FrontOps, Zenon
  <2>7. RecordsIn(y, GoodRecords)
    <3>1. \A i \in DOMAIN y.journal : i \in DOMAIN x.journal /\ y.journal[i] = x.journal[i]
      BY <2>2, <2>3, <2>4
    <3>2. \A r : HasRecord(y, r) => HasRecord(x, r)
      BY <3>1 DEF HasRecord
    <3> QED
      BY <3>2, Zenon DEF Balanced, RecordsIn
  <2> HIDE DEF y
  <2>8. Flow(y, keys, names, Owner)
    BY <2>2, <2>4, <2>6, FlowSays, Zenon DEF Balanced
  <2>9. OneLife(y)
    BY <2>4, Zenon DEF Balanced, OneLife
  <2> QED
    BY <2>1, <2>7, <2>8, <2>9, Zenon DEF Balanced
<1> QED
  BY <1>1, <1>2

(* No key moves when a chord takes effect.                                 *)
LEMMA CompleteSourcePhysical ==
    ASSUME NEW x, Sound(x), x.mode \in {"reserved", "prefix"}, x.seq.matched # 0,
           NEW owner \in HoldDevice
    PROVE  CompleteSource(x, owner).physical = x.physical
<1> DEFINE c == x.seq
           source == Sources[c.matched]
           r == Resolve(x, "consumed")
           held == HeldModifiers(x, c)
           w == [r EXCEPT !.reuse = r.reuse \cup held]
           z == Idle(w)
<1>0. x \in Engines /\ c \in Candidate /\ Matching(x)
  BY DEF Sound, Engines, Matching
<1>1. c.matched \in DOMAIN Sources
  BY SourceAt DEF Sound, Configured, SourceCandidate
<1>2. source.mode \in {"action", "tap", "hold"} /\ source.target \in Code
  BY <1>1, SourceAt
<1>3. held \subseteq c.members /\ held \subseteq Press
  BY <1>0 DEF HeldModifiers, Candidate
<1>4. r \in Engines /\ r = [x EXCEPT !.route = r.route, !.journal = r.journal]
  BY <1>0, ResolveFields DEF Route
<1>5. CompleteSource(x, owner) =
        CASE source.mode = "action" ->
               [r EXCEPT !.mode = "await", !.activePrefix = c.matched, !.seq = NoCandidate,
                         !.carry = held, !.deadline = TRUE]
          [] source.mode = "hold" -> Activate(z, c, source.target, owner)
          [] source.mode = "tap" ->
               QueueOutput(QueueOutput(z, KeyOutput(TapDevice, source.target, 1)),
                           KeyOutput(TapDevice, source.target, 0))
  BY DEF CompleteSource
<1> HIDE DEF held, r
<1>6. /\ w \in Engines
      /\ w.physical = r.physical /\ w.logicalCount = r.logicalCount
      /\ w.route = r.route /\ w.journal = r.journal /\ w.active = r.active
      /\ w.reuse = r.reuse \cup held
  BY <1>3, <1>4 DEF Engines
<1> HIDE DEF w
<1>7. Committed(x, z)
  BY <1>0, <1>3, <1>6, Commits DEF r
<1> HIDE DEF z
<1>8. CASE source.mode = "action"
  <2>1. r.physical = x.physical
    BY <1>0, <1>4 DEF Engines
  <2> QED
    BY <1>4, <1>5, <1>8, <2>1 DEF Engines
<1>9. CASE source.mode = "hold"
  <2>1. Committed(x, Activate(z, c, source.target, owner))
    BY <1>0, <1>2, <1>7, ActivateKeeps
  <2> QED
    BY <1>5, <1>9, <2>1 DEF Committed
<1>10. CASE source.mode = "tap"
  <2>1. KeyOutput(TapDevice, source.target, 1) \in Output
        /\ KeyOutput(TapDevice, source.target, 0) \in Output
    BY <1>2 DEF Output, KeyOutput, Owner
  <2>2. Committed(x, CompleteSource(x, owner))
    BY <1>5, <1>7, <1>10, <2>1, CommittedQueues
  <2> QED
    BY <2>2 DEF Committed
<1> QED
  BY <1>2, <1>8, <1>9, <1>10

LEMMA CompleteFramePhysical ==
    ASSUME NEW x, Sound(x), NEW owner \in HoldDevice
    PROVE  CompleteFrame(x, owner).physical = x.physical
<1>1. CASE ~Finished(x)
  BY <1>1 DEF CompleteFrame
<1>2. CASE Finished(x) /\ x.mode = "binding"
  <2> DEFINE r == Resolve(x, "consumed")
  <2>1. x \in Engines /\ Matching(x) /\ CompleteFrame(x, owner) = CompleteBinding(x)
    BY <1>2 DEF Sound, Finished, CompleteFrame
  <2>2. r \in Engines /\ r = [x EXCEPT !.route = r.route, !.journal = r.journal]
    BY <2>1, ResolveFields DEF Route
  <2> HIDE DEF r
  <2>3. r.physical = x.physical
    BY <2>1, <2>2 DEF Engines
  <2>4. Idle(r) \in Engines /\ Idle(r).physical = r.physical
    BY <2>2, IdleFields DEF Idle, Engines
  <2>5. CompleteBinding(x).physical = Idle(r).physical
    BY <2>4, QueueRetains DEF CompleteBinding, QueueOutput, r
  <2> QED
    BY <2>1, <2>3, <2>4, <2>5
<1>3. CASE Finished(x) /\ x.mode # "binding"
  <2>1. x.mode \in {"reserved", "prefix"} /\ x.seq.matched # 0
        /\ CompleteFrame(x, owner) = CompleteSource(x, owner)
    BY <1>3 DEF Finished, CompleteFrame, Matching
  <2> QED
    BY <2>1, CompleteSourcePhysical
<1> QED
  BY <1>1, <1>2, <1>3

(* A frame of a reservation that meant nothing holds only scan codes.      *)
Chat ==
    frame.open /\ ~frame.meaningful /\ e.mode = "reserved" =>
        \A k \in DOMAIN Last(e.journal).events : Last(e.journal).events[k].type = "msc"

LEMMA CompleteBalanced ==
    ASSUME NEW x, Sound(x), NEW owner \in HoldDevice, \A b \in ToSet(x.active) : b.owner # owner,
           NEW keys, NEW names, Balanced(x, keys, names)
    PROVE  Balanced(CompleteFrame(x, owner), keys, names)
<1> DEFINE y == CompleteFrame(x, owner)
<1>1. Flow(x, keys, names, Owner) /\ OneLife(x) /\ RecordsIn(x, GoodRecords)
  BY DEF Balanced
<1>2. Flow(y, keys, names, Owner)
  BY <1>1, CompleteFrameFlow, Zenon
<1>3. RecordsIn(y, GoodRecords)
  BY <1>1, GoodCompleteFrame, Zenon
<1>4. y.physical = x.physical
  BY CompleteFramePhysical
<1> HIDE DEF y
<1>5. OneLife(y)
  BY <1>1, <1>4, Zenon DEF OneLife
<1>6. Balanced(y, keys, names)
  BY <1>2, <1>3, <1>5, Zenon DEF Balanced
<1> QED
  BY <1>6, Zenon DEF y

LEMMA ForwardBalanced ==
    ASSUME NEW x, Sound(x), NEW fresh, NEW keys, NEW names, Balanced(x, keys, names)
    PROVE  Balanced(ForwardFresh(x, fresh), keys, names)
<1> DEFINE y == ForwardFresh(x, fresh)
<1>0. x \in Engines
  BY DEF Sound
<1>1. Sound(y) /\ Evolves(x, y, {}) /\ y.journal = x.journal
  BY ForwardFreshKeeps
<1>2. y.physical = x.physical /\ y.active = x.active
  BY <1>0 DEF ForwardFresh, Engines
<1> HIDE DEF y
<1>3. SameEvents(x, y)
  BY <1>1 DEF SameEvents
<1>4. Balanced(y, keys, names)
  BY <1>1, <1>2, <1>3, SameBalanced, Zenon
<1> QED
  BY <1>4, Zenon DEF y

(* HandleFrame's end: chatter, completion, fresh presses, the drain.       *)
LEMMA EndFrameBalanced ==
    ASSUME EngineInv, HeldInv, Chat, EndFrame, NEW keys, NEW names,
           Balanced(e, AppliedKeys(keys, out), AppliedNames(names, out))
    PROVE  Balanced(e', AppliedKeys(keys, out'), AppliedNames(names, out'))
<1> DEFINE w == IF Trapped(e) THEN Fail(e) ELSE e
           o == CHOOSE h \in FreeOwners(w, out) : TRUE
           x == IF frame.failed \/ Trapped(e) THEN w ELSE CompleteFrame(w, o)
           v == ForwardFresh(x, frame.fresh)
           y == DropChatter(v, frame.meaningful)
           K == AppliedKeys(keys, out)
           M == AppliedNames(names, out)
<1>1. /\ Sound(e) /\ e \in Engines /\ FrameInProgress /\ frame.open /\ out \in Seq(Output)
  BY DEF EngineInv, EndFrame, Sound
<1>2. e' = Drain(y) /\ out' = out \o Drained(y)
  BY DEF EndFrame
<1>3. Sound(Fail(e)) /\ Fail(e).mode = "idle"
  BY <1>1, FailKeeps, FailFields
<1>4. ~Trapped(e) => o \in HoldDevice /\ \A b \in ToSet(w.active) : b.owner # o
  <2>1. SUFFICES ASSUME ~Trapped(e) PROVE FreeOwners(w, out) # {}
    BY DEF FreeOwners
  <2>2. w = e
    BY <2>1
  <2>3. OwnerLeft(e, out)
    BY <1>1 DEF FrameInProgress
  <2> QED
    BY <1>1, <2>2, <2>3, OwnersLeft
<1> HIDE DEF o, K, M
<1>5. Balanced(e, K, M)
  BY DEF K, M
<1>6. Sound(w) /\ Balanced(w, K, M)
  BY <1>1, <1>3, <1>5, FailStep, MatcherBalanced
<1>7. x.mode = "reserved" => x = e
  <2> SUFFICES ASSUME x.mode = "reserved" PROVE x = e
    OBVIOUS
  <2>1. ~Trapped(e)
    BY <1>3
  <2>2. ~frame.failed
    BY <2>1 DEF HeldInv, Matching
  <2>3. x = CompleteFrame(e, o)
    BY <2>1, <2>2
  <2>4. ~Finished(e)
    BY <1>1, <1>4, <2>1, <2>3, CompleteFrameMode
  <2> QED
    BY <2>3, <2>4 DEF CompleteFrame
<1> HIDE DEF w
<1>8. Sound(x) /\ Balanced(x, K, M)
  <2>1. CASE frame.failed \/ Trapped(e)
    BY <1>6, <2>1
  <2>2. CASE ~(frame.failed \/ Trapped(e))
    <3>1. x = CompleteFrame(w, o) /\ o \in HoldDevice
      BY <1>4, <2>2
    <3>2. \A b \in ToSet(w.active) : b.owner # o
      BY <1>4, <2>2
    <3>3. Sound(CompleteFrame(w, o))
      BY <1>6, <3>1, CompleteFrameKeeps
    <3>4. Balanced(CompleteFrame(w, o), K, M)
      BY <1>6, <3>1, <3>2, CompleteBalanced, Zenon
    <3> QED
      BY <3>1, <3>3, <3>4, Zenon
  <2> QED
    BY <2>1, <2>2
<1> HIDE DEF x
<1>9. Sound(v) /\ Balanced(v, K, M) /\ v.mode = x.mode /\ v.journal = x.journal
  BY <1>8, ForwardFreshKeeps, ForwardFreshRetains, ForwardBalanced DEF Sound, SameMatching
<1> HIDE DEF v
<1>10. v.mode = "reserved" /\ ~frame.meaningful =>
         v.journal # <<>> /\ \A k \in DOMAIN Last(v.journal).events :
                                Last(v.journal).events[k].type = "msc"
  BY <1>1, <1>7, <1>9 DEF Chat, FrameInProgress
<1>11. Sound(y) /\ Balanced(y, K, M)
  BY <1>9, <1>10, DropChatterBalanced, DropChatterKeeps
<1> HIDE DEF y
<1>12. Balanced(Drain(y), AppliedKeys(keys, out \o Drained(y)), AppliedNames(names, out \o Drained(y)))
  BY <1>1, <1>11, DrainApplied, Zenon DEF K, M
<1> QED
  BY <1>2, <1>12, Zenon

-----------------------------------------------------------------------------
(* Frames of mere chatter                                                  *)

(* The steps of the engine keep Chat.                                      *)
LEMMA HandleEventChat ==
    ASSUME NEW event \in InputEvent, EngineInv, HeldInv, Chat, HandleEvent(event)
    PROVE  Chat'
<1> DEFINE d == frame.device
           p == EventPress(e, d, event)
           tr == TransitionOf(e, d, event)
           fresh == Fresh(e, d, event)
           fails == EventFails(d, event)
           proceeds == EventProceeds(d, event)
           n == Len(e.journal)
<1>1. PICK chatter \in BOOLEAN :
           LET y == Handled(e, d, event, chatter)
               starts == EventStarts(d, event, chatter)
           IN /\ chatter = ChatterOf(e, d, event)
              /\ fresh => FreeLives(e, d, event.code) # {} /\ ~chatter
              /\ e' = IF fails THEN Fail(y)
                      ELSE IF starts THEN Started(y, p, Len(e.journal)) ELSE y
              /\ frame' =
                   [frame EXCEPT
                      !.n = @ + 1,
                      !.fresh = IF fresh THEN @ \cup {p} ELSE @,
                      !.meaningful = @ \/ (event.type # "msc" /\ ~chatter),
                      !.failed = @ \/ fails,
                      !.todo = IF starts THEN Append(frame.history, tr)
                               ELSE IF proceeds /\ Matching(y) THEN <<tr>> ELSE <<>>,
                      !.history = IF proceeds THEN Append(@, tr) ELSE @]
              /\ out' = out
  BY HandleEventIs
<1> DEFINE y == Handled(e, d, event, chatter)
           starts == EventStarts(d, event, chatter)
<1>2. /\ Sound(e) /\ e \in Engines /\ frame \in Frames /\ frame.open /\ frame.todo = <<>>
      /\ d \in Device /\ e.journal # <<>> /\ Last(e.journal).device = d /\ Held(e)
  BY DEF EngineInv, HandleEvent, FrameInProgress, Sound, HeldInv
<1>3. /\ fresh => FreeLives(e, d, event.code) # {} /\ ~chatter
      /\ fresh => FreeLives(e, d, event.code) # {} /\ chatter = FALSE
      /\ fresh => FreeLives(e, d, event.code) # {}
  BY <1>1
<1>4. Sound(y) /\ SameMatching(e, y) /\ y.journal # <<>> /\ Len(y.journal) = n
  <2> HIDE DEF d
  <2>1. HandledFacts(e, d, event, chatter)
    BY <1>2, <1>3, HandledKeeps
  <2> QED
    BY <2>1 DEF HandledFacts
<1>5. frame'.meaningful = (frame.meaningful \/ (event.type # "msc" /\ ~chatter))
  BY <1>1, <1>2 DEF Frames
<1>6. e' = IF fails THEN Fail(y) ELSE IF starts THEN Started(y, p, Len(e.journal)) ELSE y
  BY <1>1
<1>7. starts => fresh /\ event.type = "key"
  BY DEF EventStarts, EventProceeds, Fresh, Valid
<1>8. Fail(y).mode = "idle"
  BY <1>4, FailFields DEF Sound
<1>9. e.mode = "reserved" /\ ~fails => Covered(e, d, event)
  <2>1. Ingested(e, d, event).mode = e.mode
    BY <1>2, <1>3, EndedFields
  <2> QED
    BY <2>1 DEF EventFails, Covered
<1> SUFFICES ASSUME ~frame'.meaningful, e'.mode = "reserved"
             PROVE  \A k \in DOMAIN Last(e'.journal).events : Last(e'.journal).events[k].type = "msc"
  BY DEF Chat
<1>10. ~fails
  BY <1>6, <1>8
<1>11. ~starts
  BY <1>3, <1>5, <1>7
<1>12. e' = y /\ e.mode = "reserved"
  BY <1>4, <1>6, <1>10, <1>11 DEF SameMatching
<1>13. OneMore(e, y, RecordEvent(event, p), chatter)
  <2>1. Covered(e, d, event)
    BY <1>9, <1>10, <1>12
  <2> HIDE DEF d
  <2> QED
    BY <1>2, <1>3, <2>1, CoveredJournal
<1>14. \A k \in DOMAIN e.journal[n].events : e.journal[n].events[k].type = "msc"
  BY <1>2, <1>5, <1>12 DEF Chat, Last
<1>15. chatter \/ RecordEvent(event, p).type = "msc"
  BY <1>5 DEF RecordEvent
<1>16. Last(e'.journal) = y.journal[n]
  BY <1>4, <1>12 DEF Last
<1> HIDE DEF y, p
<1>17. \A m \in DOMAIN y.journal[n].events : y.journal[n].events[m].type = "msc"
  BY <1>13, <1>14, <1>15 DEF OneMore
<1> QED
  BY <1>16, <1>17

LEMMA AdvanceStepChat ==
    ASSUME EngineInv, Chat, AdvanceStep
    PROVE  Chat'
<1> DEFINE tr == Head(frame.todo)
           x == Advance(e, tr)
<1>1. /\ Sound(e) /\ e \in Engines /\ frame \in Frames /\ FrameInProgress
      /\ frame.open /\ frame.todo # <<>> /\ Matching(e)
  BY DEF EngineInv, AdvanceStep, FrameInProgress, Sound
<1>2. e' = x /\ frame'.meaningful = frame.meaningful
  BY <1>1 DEF AdvanceStep, Frames
<1>3. frame.todo \in Seq(Transitions)
  BY <1>1 DEF Frames
<1>4. tr \in Transitions /\ tr \in ToSet(frame.todo)
  BY <1>1, <1>3 DEF ToSet
<1>5. tr.press \in Press /\ (tr.value = 1 => tr.press \in Referenced(e))
  BY <1>1, <1>4, ReferencedParts DEF FrameInProgress, Transitions
<1> HIDE DEF tr
<1>6. MatcherStep(e, x)
  BY <1>1, <1>5, AdvanceKeeps
<1>7. Matching(x) => GoesOn(e, x)
  BY <1>1, <1>5, AdvanceGoesOn
<1> HIDE DEF x
<1>8. x.mode = "reserved" => e.mode = "reserved"
  BY <1>7 DEF Matching, GoesOn
<1>9. Len(e.journal) \in DOMAIN e.journal /\ Last(e.journal) = e.journal[Len(e.journal)]
  BY <1>1 DEF Engines, FrameInProgress, Last
<1>10. Last(x.journal).events = Last(e.journal).events
  BY <1>6, <1>9 DEF MatcherStep, SameEvents, Last
<1> QED
  BY <1>1, <1>2, <1>8, <1>10 DEF Chat

LEMMA BeginFrameChat ==
    ASSUME NEW d \in Device, NEW late \in BOOLEAN, EngineInv, BeginFrame(d, late)
    PROVE  Chat'
<1> DEFINE x == HandleTimeout(e, late)
           y == Drain(x)
           dropScan == \E p \in y.physical : device(p) = d /\ y.route[p] = "consumed"
           candidate == IF Matching(y) THEN "undecided" ELSE "none"
           f == JournalFrame(d, <<>>, dropScan, candidate)
<1>1. MatcherStep(e, x)
  BY TimeoutStep DEF EngineInv
<1>2. e' = [y EXCEPT !.journal = Append(y.journal, f)]
  BY DEF BeginFrame
<1> HIDE DEF x
<1>3. y \in Engines
  BY <1>1, DrainKeeps DEF MatcherStep, Sound
<1>4. f \in JournalFrames /\ f.events = <<>>
  BY DEF JournalFrame, JournalFrames, Route
<1> HIDE DEF y, f
<1>5. e'.journal = Append(y.journal, f)
  BY <1>2, <1>3 DEF Engines
<1>6. Last(e'.journal) = f
  BY <1>3, <1>4, <1>5 DEF Engines, Last
<1> QED
  BY <1>4, <1>6 DEF Chat

(* Every step of the engine keeps Chat.                                    *)
LEMMA ChatNext ==
    ASSUME EngineInv, HeldInv, Chat, [EngineNext]_engineVars
    PROVE  Chat'
<1>1. ASSUME NEW d \in Device, NEW late \in BOOLEAN, BeginFrame(d, late) PROVE Chat'
  BY <1>1, BeginFrameChat
<1>2. ASSUME NEW event \in InputEvent, HandleEvent(event) PROVE Chat'
  BY <1>2, HandleEventChat
<1>3. CASE AdvanceStep
  BY <1>3, AdvanceStepChat
<1>4. ASSUME ~frame'.open PROVE Chat'
  BY <1>4 DEF Chat
<1>5. CASE EndFrame
  BY <1>4, <1>5 DEF EndFrame, NoFrame
<1>6. CASE Timeout
  BY <1>4, <1>6 DEF Timeout, Ready
<1>7. ASSUME NEW d \in Device, NEW pressed \in SUBSET InputCode, Reconcile(d, pressed) PROVE Chat'
  BY <1>4, <1>7 DEF Reconcile, Ready
<1>8. CASE Close
  BY <1>4, <1>8 DEF Close, Ready
<1>9. CASE Apply
  BY <1>4, <1>9 DEF Apply
<1>10. CASE UNCHANGED engineVars
  BY <1>10 DEF engineVars, Chat
<1> QED
  BY <1>1, <1>2, <1>3, <1>5, <1>6, <1>7, <1>8, <1>9, <1>10 DEF EngineNext, Input

-----------------------------------------------------------------------------
(* Between calls no candidate waits with nothing to wait for               *)

(* No member of a candidate that has matched nothing yet was released.     *)
Unmatched(x) == x.seq.matched = 0 => x.seq.members \subseteq x.seq.held

(* A transition that the candidate will take as its first member.          *)
Pends(x, todo) ==
    \E k \in DOMAIN todo : todo[k].value = 1 /\ x.route[todo[k].press] = "undecided"

(* Between calls nothing complete waits, and a candidate without members   *)
(* is only there while its first press is about to be given to it.         *)
Cand ==
    /\ ~frame.open /\ Matching(e) => ~Finished(e)
    /\ Matching(e) => Unmatched(e)
    /\ Matching(e) /\ e.seq.members = {} => Pends(e, frame.todo)

LEMMA PossibleNumbers ==
    ASSUME NEW x, Sound(x), Matching(x)
    PROVE  x.seq.possible \subseteq Nat \ {0}
<1>1. CASE x.mode = "binding"
  <2>1. x.activePrefix \in DOMAIN Sources /\ BindingCandidate(x)
    BY <1>1 DEF Sound, Configured
  <2> QED
    BY <2>1, SourceAt DEF BindingCandidate
<1>2. CASE x.mode # "binding"
  <2>1. SourceCandidate(x)
    BY <1>2 DEF Sound, Configured, Matching
  <2> QED
    BY <2>1, SourceAt DEF SourceCandidate
<1> QED
  BY <1>1, <1>2

LEMMA OwnUnmatched ==
    ASSUME NEW x \in Engines, NEW p
    PROVE  p \in Own(x, p).seq.members /\ (Unmatched(x) => Unmatched(Own(x, p)))
<1> DEFINE s == x.seq
           members == {q \in s.members : logical(q) # logical(p)} \cup {p}
           driver == IF IsModifierPress(p) THEN s.driver ELSE p
           possible == {i \in s.possible : logical(p) \in Chord(x, i)}
           c == [s EXCEPT !.owned = s.owned \cup {p}, !.members = members,
                          !.held = s.held \cup {p}, !.driver = driver, !.possible = possible]
<1>1. s \in Candidate
  BY DEF Engines
<1>2. Own(x, p) = [x EXCEPT !.seq = c]
  BY <1>1 DEF Own, Engines, Candidate
<1>3. c.members = members /\ c.held = s.held \cup {p} /\ c.matched = s.matched
  BY <1>1 DEF Candidate
<1> HIDE DEF c
<1>4. Own(x, p).seq = c
  BY <1>2 DEF Engines
<1> QED
  BY <1>3, <1>4 DEF Unmatched

LEMMA LeaveReservationUnmatched ==
    ASSUME NEW x \in Engines, NEW p
    PROVE  LeaveReservation(x, p).seq = x.seq
<1> QED
  BY DEF LeaveReservation, Engines

LEMMA MatchUnmatched ==
    ASSUME NEW x, Sound(x), Matching(x)
    PROVE  /\ Match(x).seq.members = x.seq.members
           /\ Unmatched(x) => Unmatched(Match(x))
<1> DEFINE s == x.seq
           complete == {i \in s.possible : Complete(x, i)}
           members == {q \in s.members : logical(q) \in Chord(x, Min(complete))}
           m == Min(complete)
           c == [s EXCEPT !.matched = m, !.broken = FALSE, !.matchMembers = members]
<1>1. x \in Engines /\ s \in Candidate
  BY DEF Sound, Engines
<1>2. Match(x) = x \/ (complete # {} /\ Match(x) = [x EXCEPT !.seq = c])
  BY <1>1 DEF Match, Engines, Candidate
<1>3. complete # {} => m \in Nat \ {0}
  BY PossibleNumbers, MinIn
<1> HIDE DEF m, members, complete
<1>4. c.members = s.members /\ c.matched = m
  BY <1>1 DEF Candidate
<1> HIDE DEF c
<1>5. CASE Match(x) = x
  BY <1>5
<1>6. CASE complete # {} /\ Match(x) = [x EXCEPT !.seq = c]
  <2>1. Match(x).seq = c
    BY <1>1, <1>6 DEF Engines
  <2> QED
    BY <1>3, <1>4, <1>6, <2>1 DEF Unmatched
<1> QED
  BY <1>2, <1>5, <1>6

LEMMA AdvancePressUnmatched ==
    ASSUME NEW x, Sound(x), Matching(x), NEW tr, tr.press \in Press, tr.press \in Referenced(x),
           Matching(AdvancePress(x, tr))
    PROVE  LET y == AdvancePress(x, tr) IN
           tr.press \in y.seq.members /\ (Unmatched(x) => Unmatched(y))
<1> DEFINE p == tr.press
           y == Own(x, p)
           z == LeaveReservation(y, p)
<1>1. \A u \in Engines : ~Matching(Fail(u))
  BY FailFields DEF Matching
<1>2. x \in Engines
  BY DEF Sound
<1>3. ~(x.route[p] # "undecided" \/ tr.count # 1)
  BY <1>1, <1>2 DEF AdvancePress
<1>4. MatcherStep(x, y) /\ Matching(y) /\ Sound(y) /\ y \in Engines
  BY <1>3, OwnKeeps DEF MatcherStep, Sound
<1>5. AdvancePress(x, tr) = IF y.seq.possible = {} THEN Fail(y) ELSE Match(z)
  BY <1>3 DEF AdvancePress
<1>6. p \in y.seq.members /\ (Unmatched(x) => Unmatched(y))
  BY <1>2, OwnUnmatched
<1> HIDE DEF y
<1>7. AdvancePress(x, tr) = Match(z)
  BY <1>1, <1>4, <1>5
<1>8. Sound(z) /\ Matching(z) /\ z.seq = y.seq
  BY <1>4, LeaveReservationKeeps, LeaveReservationUnmatched DEF MatcherStep
<1> HIDE DEF z
<1>9. /\ Match(z).seq.members = z.seq.members
      /\ Unmatched(z) => Unmatched(Match(z))
  BY <1>8, MatchUnmatched
<1> QED
  BY <1>6, <1>7, <1>8, <1>9 DEF Unmatched

LEMMA AdvanceReleaseUnmatched ==
    ASSUME NEW x, Sound(x), NEW tr, Matching(AdvanceRelease(x, tr))
    PROVE  LET y == AdvanceRelease(x, tr) IN
           y.seq.members = x.seq.members /\ (Unmatched(x) => Unmatched(y))
<1> DEFINE p == tr.press
           s == x.seq
           member == p \in s.members
           y == IF member
                  THEN [x EXCEPT !.seq.held = @ \ {p},
                                 !.seq.broken = @ \/ p \in x.seq.matchMembers]
                  ELSE x
           fails == (member \/ tr.count = 0) /\ (x.seq.matched = 0 \/ ~member)
<1>1. x \in Engines /\ s \in Candidate
  BY DEF Sound, Engines
<1>2. AdvanceRelease(x, tr) = IF fails THEN Fail(y) ELSE y
  BY DEF AdvanceRelease
<1>3. y \in Engines /\ y.seq.members = s.members /\ y.seq.matched = s.matched
  <2>1. CASE ~member
    BY <1>1, <2>1
  <2>2. CASE member
    <3> DEFINE broken == s.broken \/ p \in s.matchMembers
               c == [s EXCEPT !.held = s.held \ {p}, !.broken = broken]
    <3>1. y = [x EXCEPT !.seq = c]
      BY <1>1, <2>2 DEF Engines, Candidate
    <3>2. broken \in BOOLEAN
      OBVIOUS
    <3> HIDE DEF broken
    <3>3. c \in Candidate /\ c.members = s.members /\ c.matched = s.matched
      BY <1>1, <3>2 DEF Candidate
    <3> HIDE DEF c, y
    <3> QED
      BY <1>1, <3>1, <3>3 DEF Engines
  <2> QED
    BY <2>1, <2>2
<1>4. ~member => y = x
  OBVIOUS
<1>5. member /\ s.matched = 0 => fails
  OBVIOUS
<1> HIDE DEF y, member
<1>6. ~Matching(Fail(y))
  BY <1>3, FailFields DEF Matching
<1>7. ~fails /\ AdvanceRelease(x, tr) = y
  BY <1>2, <1>6
<1> QED
  BY <1>3, <1>4, <1>5, <1>7 DEF Unmatched

LEMMA AdvanceUnmatched ==
    ASSUME NEW x, Sound(x), Matching(x), NEW tr, tr.press \in Press,
           tr.value = 1 => tr.press \in Referenced(x), Matching(Advance(x, tr))
    PROVE  LET y == Advance(x, tr) IN
           /\ y.seq.members = {} => /\ x.seq.members = {}
                                    /\ ~(tr.value = 1 /\ x.route[tr.press] = "undecided")
           /\ Unmatched(x) => Unmatched(y)
<1> DEFINE foreign == x.route[tr.press] = "consumed" /\ tr.press \notin x.seq.members
           breaks == x.mode = "reserved" /\ \/ tr.value = 0 /\ x.seq.matched = 0
                                            \/ x.route[tr.press] = "forwarded"
<1>1. CASE foreign
  <2>1. Advance(x, tr) = x
    BY <1>1 DEF Advance
  <2> QED
    BY <1>1, <2>1
<1>2. ~(~foreign /\ breaks)
  <2>1. SUFFICES ASSUME ~foreign /\ breaks PROVE FALSE
    OBVIOUS
  <2>2. Advance(x, tr) = Fail(x)
    BY <2>1 DEF Advance
  <2> QED
    BY <2>2, FailFields DEF Sound, Matching
<1>3. CASE ~foreign /\ ~breaks /\ tr.value = 1
  <2>1. Advance(x, tr) = AdvancePress(x, tr)
    BY <1>3 DEF Advance
  <2>2. tr.press \in Referenced(x) /\ Matching(AdvancePress(x, tr))
    BY <1>3, <2>1
  <2>3. tr.press \in AdvancePress(x, tr).seq.members
        /\ (Unmatched(x) => Unmatched(AdvancePress(x, tr)))
    BY <2>2, AdvancePressUnmatched
  <2> QED
    BY <2>1, <2>3
<1>4. CASE ~foreign /\ ~breaks /\ tr.value = 0
  <2>1. Advance(x, tr) = AdvanceRelease(x, tr)
    BY <1>4 DEF Advance
  <2>2. AdvanceRelease(x, tr).seq.members = x.seq.members
        /\ (Unmatched(x) => Unmatched(AdvanceRelease(x, tr)))
    BY <2>1, AdvanceReleaseUnmatched
  <2> QED
    BY <1>4, <2>1, <2>2
<1>5. CASE ~foreign /\ ~breaks /\ tr.value \notin {0, 1}
  <2>1. Advance(x, tr) = x
    BY <1>5 DEF Advance
  <2> QED
    BY <1>5, <2>1
<1> QED
  BY <1>1, <1>2, <1>3, <1>4, <1>5

LEMMA StartUnmatched ==
    ASSUME NEW x, Sound(x), x.journal # <<>>, Leftovers(x), NEW p, Starts(x, p), NEW n
    PROVE  Unmatched(Started(x, p, n)) /\ Started(x, p, n).route = x.route
<1> DEFINE s == Start(x, p)
<1>1. s \in Engines
  <2>1. CASE x.mode = "idle"
    BY <2>1, StartSourceKeeps DEF Start, Sound
  <2>2. CASE x.mode # "idle"
    <3>1. x.mode = "await"
      BY <2>2 DEF Starts
    <3> QED
      BY <2>2, <3>1, StartBindingKeeps DEF Start, Sound
  <2> QED
    BY <2>1, <2>2
<1>2. s.seq.members = s.seq.held /\ s.route = x.route
  BY DEF Start, StartSource, StartBinding, NewCandidate, NoCandidate, Sound, Engines
<1> HIDE DEF s
<1>3. Started(x, p, n).seq = s.seq /\ Started(x, p, n).route = s.route
  BY <1>1 DEF Started, s, Engines
<1> QED
  BY <1>2, <1>3 DEF Unmatched

LEMMA HandleEventCand ==
    ASSUME NEW event \in InputEvent, EngineInv, HeldInv, Cand, HandleEvent(event)
    PROVE  Cand'
<1> DEFINE d == frame.device
           p == EventPress(e, d, event)
           tr == TransitionOf(e, d, event)
           fresh == Fresh(e, d, event)
           fails == EventFails(d, event)
           proceeds == EventProceeds(d, event)
           n == Len(e.journal)
<1>1. PICK chatter \in BOOLEAN :
           LET y == Handled(e, d, event, chatter)
               starts == EventStarts(d, event, chatter)
           IN /\ chatter = ChatterOf(e, d, event)
              /\ fresh => FreeLives(e, d, event.code) # {} /\ ~chatter
              /\ e' = IF fails THEN Fail(y)
                      ELSE IF starts THEN Started(y, p, Len(e.journal)) ELSE y
              /\ frame' =
                   [frame EXCEPT
                      !.n = @ + 1,
                      !.fresh = IF fresh THEN @ \cup {p} ELSE @,
                      !.meaningful = @ \/ (event.type # "msc" /\ ~chatter),
                      !.failed = @ \/ fails,
                      !.todo = IF starts THEN Append(frame.history, tr)
                               ELSE IF proceeds /\ Matching(y) THEN <<tr>> ELSE <<>>,
                      !.history = IF proceeds THEN Append(@, tr) ELSE @]
              /\ out' = out
  BY HandleEventIs
<1> DEFINE y == Handled(e, d, event, chatter)
           starts == EventStarts(d, event, chatter)
<1>2. /\ Sound(e) /\ e \in Engines /\ frame \in Frames /\ frame.open /\ frame.todo = <<>>
      /\ d \in Device /\ e.journal # <<>> /\ Last(e.journal).device = d /\ Held(e)
  BY DEF EngineInv, HandleEvent, FrameInProgress, Sound, HeldInv
<1>3. /\ fresh => FreeLives(e, d, event.code) # {} /\ ~chatter
      /\ fresh => FreeLives(e, d, event.code) # {} /\ chatter = FALSE
      /\ fresh => FreeLives(e, d, event.code) # {}
  BY <1>1
<1>4. Sound(y) /\ SameMatching(e, y) /\ y.journal # <<>> /\ Len(y.journal) = n
  <2> HIDE DEF d
  <2>1. HandledFacts(e, d, event, chatter)
    BY <1>2, <1>3, HandledKeeps
  <2> QED
    BY <2>1 DEF HandledFacts
<1>5. y.route = [q \in Press |-> IF fresh /\ q = p THEN "undecided" ELSE e.route[q]]
  <2>1. Fresh(e, d, event) => FreeLives(e, d, event.code) # {}
    BY <1>3
  <2>2. /\ Sound(e) /\ e.journal # <<>> /\ d \in Device
    BY <1>2
  <2> HIDE DEF d
  <2> QED
    BY <2>1, <2>2, HandledFields, SMTT(60)
<1>6. e' = IF fails THEN Fail(y) ELSE IF starts THEN Started(y, p, n) ELSE y
  BY <1>1
<1>7. starts => fresh /\ Valid(e, d, event) /\ event.value = 1 /\ Starts(y, p)
  BY DEF EventStarts, EventProceeds, Fresh
<1>8. ~Matching(Fail(y))
  BY <1>4, FailFields DEF Sound, Matching
<1>9. frame'.open /\ (starts => frame'.todo = Append(frame.history, tr))
  BY <1>1, <1>2 DEF Frames
<1>10. ~Pends(e, frame.todo)
  BY <1>2 DEF Pends
<1>11. CASE fails
  BY <1>6, <1>8, <1>9, <1>11 DEF Cand
<1>12. CASE ~fails /\ ~starts
  <2>1. e' = y
    BY <1>6, <1>12
  <2>2. y.seq = e.seq /\ (Matching(y) <=> Matching(e))
    BY <1>4 DEF SameMatching, Matching
  <2> HIDE DEF y
  <2> QED
    BY <1>9, <1>10, <2>1, <2>2 DEF Cand, Unmatched
<1>13. CASE ~fails /\ starts
  <2>1. Leftovers(y)
    <3> HIDE DEF d
    <3>1. Held(y)
      BY <1>2, <1>3, HandledMoves
    <3> QED
      BY <3>1 DEF Held
  <2>2. Unmatched(Started(y, p, n)) /\ Started(y, p, n).route = y.route
    BY <1>4, <1>7, <1>13, <2>1, StartUnmatched
  <2>3. e' = Started(y, p, n)
    BY <1>6, <1>13
  <2>4. p \in Press
    BY <1>2, <1>3, <1>7, <1>13, EventPressIs
  <2>5. y.route[p] = "undecided"
    BY <1>5, <1>7, <1>13, <2>4
  <2>6. tr.press = p /\ tr.value = 1
    BY <1>7, <1>13 DEF TransitionOf, Transition
  <2>7. frame.history \in Seq(Transitions)
    BY <1>2 DEF Frames
  <2>8. frame'.todo = Append(frame.history, tr)
    BY <1>9, <1>13
  <2> HIDE DEF tr, p, y
  <2>9. Len(frame'.todo) \in DOMAIN frame'.todo /\ frame'.todo[Len(frame'.todo)] = tr
    BY <2>7, <2>8
  <2>10. e'.route[tr.press] = "undecided"
    BY <2>2, <2>3, <2>5, <2>6
  <2>11. Pends(e, frame.todo)'
    BY <2>6, <2>9, <2>10 DEF Pends
  <2>12. Unmatched(e)'
    BY <2>2, <2>3
  <2> QED
    BY <1>9, <2>11, <2>12 DEF Cand
<1> QED
  BY <1>11, <1>12, <1>13

LEMMA AdvanceStepCand ==
    ASSUME EngineInv, Cand, AdvanceStep
    PROVE  Cand'
<1> DEFINE tr == Head(frame.todo)
           x == Advance(e, tr)
<1>1. /\ Sound(e) /\ e \in Engines /\ frame \in Frames /\ FrameInProgress
      /\ frame.open /\ frame.todo # <<>> /\ Matching(e)
  BY DEF EngineInv, AdvanceStep, FrameInProgress, Sound
<1>2. e' = x /\ frame'.open /\ (Matching(x) => frame'.todo = Tail(frame.todo))
  BY <1>1 DEF AdvanceStep, Frames
<1>3. frame.todo \in Seq(Transitions)
  BY <1>1 DEF Frames
<1>4. tr \in Transitions /\ tr \in ToSet(frame.todo) /\ tr = frame.todo[1]
  BY <1>1, <1>3 DEF ToSet
<1>5. tr.press \in Press /\ (tr.value = 1 => tr.press \in Referenced(e))
  BY <1>1, <1>4, ReferencedParts DEF FrameInProgress, Transitions
<1> HIDE DEF tr
<1>6. Matching(x) =>
        /\ x.route = e.route
        /\ x.seq.members = {} => /\ e.seq.members = {}
                                 /\ ~(tr.value = 1 /\ e.route[tr.press] = "undecided")
        /\ Unmatched(e) => Unmatched(x)
  BY <1>1, <1>5, AdvanceGoesOn, AdvanceUnmatched DEF GoesOn
<1> HIDE DEF x
<1>7. ASSUME Matching(x), x.seq.members = {} PROVE Pends(x, Tail(frame.todo))
  <2>1. PICK k \in DOMAIN frame.todo :
            frame.todo[k].value = 1 /\ e.route[frame.todo[k].press] = "undecided"
    BY <1>1, <1>6, <1>7 DEF Cand, Pends
  <2>2. k # 1
    BY <1>4, <1>6, <1>7, <2>1
  <2>3. k - 1 \in DOMAIN Tail(frame.todo) /\ Tail(frame.todo)[k - 1] = frame.todo[k]
    BY <1>1, <1>3, <2>2
  <2> QED
    BY <1>6, <1>7, <2>1, <2>3 DEF Pends
<1>8. Matching(x) => Unmatched(x)
  BY <1>1, <1>6 DEF Cand
<1> QED
  BY <1>2, <1>7, <1>8 DEF Cand

LEMMA BeginFrameCand ==
    ASSUME NEW d \in Device, NEW late \in BOOLEAN, EngineInv, Cand, BeginFrame(d, late)
    PROVE  Cand'
<1> DEFINE x == HandleTimeout(e, late)
           y == Drain(x)
           dropScan == \E p \in y.physical : device(p) = d /\ y.route[p] = "consumed"
           candidate == IF Matching(y) THEN "undecided" ELSE "none"
           f == JournalFrame(d, <<>>, dropScan, candidate)
<1>1. Sound(e) /\ MatcherStep(e, x) /\ frame = NoFrame
  BY TimeoutStep DEF EngineInv, BeginFrame, Ready
<1>2. e' = [y EXCEPT !.journal = Append(y.journal, f)] /\ frame'.open
  BY DEF BeginFrame, NoFrame
<1>3. x = e \/ ~Matching(x)
  BY <1>1, FailFields DEF HandleTimeout, Sound, Matching
<1> HIDE DEF x
<1>4. x \in Engines /\ y \in Engines /\ SameMatching(x, y)
  BY <1>1, DrainFields DEF MatcherStep, Sound
<1> HIDE DEF y, f
<1>5. e'.mode = x.mode /\ e'.seq = x.seq
  BY <1>2, <1>4 DEF Engines, SameMatching
<1>6. Matching(e)' => x = e
  BY <1>3, <1>5 DEF Matching
<1>7. ~Pends(e, frame.todo)
  BY <1>1 DEF NoFrame, Pends
<1> QED
  BY <1>2, <1>5, <1>6, <1>7 DEF Cand, Unmatched, Matching

LEMMA EndFrameCand ==
    ASSUME EngineInv, HeldInv, Cand, EndFrame
    PROVE  Cand'
<1> DEFINE w == IF Trapped(e) THEN Fail(e) ELSE e
           o == CHOOSE h \in FreeOwners(w, out) : TRUE
           x == IF frame.failed \/ Trapped(e) THEN w ELSE CompleteFrame(w, o)
           v == ForwardFresh(x, frame.fresh)
           y == DropChatter(v, frame.meaningful)
<1>1. /\ Sound(e) /\ e \in Engines /\ FrameInProgress /\ frame.todo = <<>> /\ out \in Seq(Output)
  BY DEF EngineInv, EndFrame, Sound
<1>2. e' = Drain(y) /\ frame'.open = FALSE
  BY DEF EndFrame, NoFrame
<1>3. Sound(Fail(e)) /\ Fail(e).mode = "idle" /\ ~Matching(Fail(e))
  BY <1>1, FailKeeps, FailFields DEF Matching
<1>4. ~Trapped(e) => o \in HoldDevice
  <2>1. SUFFICES ASSUME ~Trapped(e) PROVE FreeOwners(w, out) # {}
    BY DEF FreeOwners
  <2>2. w = e
    BY <2>1
  <2>3. OwnerLeft(e, out)
    BY <1>1 DEF FrameInProgress
  <2> QED
    BY <1>1, <2>2, <2>3, OwnersLeft
<1> HIDE DEF o
<1>5. Matching(x) => x = e /\ ~Finished(e)
  <2> SUFFICES ASSUME Matching(x) PROVE x = e /\ ~Finished(e)
    OBVIOUS
  <2>1. ~Trapped(e)
    BY <1>3
  <2>2. ~frame.failed
    BY <2>1 DEF HeldInv
  <2>3. x = CompleteFrame(e, o)
    BY <2>1, <2>2
  <2>4. ~Finished(e)
    BY <1>1, <1>4, <2>1, <2>3, CompleteFrameMode DEF Matching
  <2> QED
    BY <2>3, <2>4 DEF CompleteFrame
<1>6. Sound(x)
  <2>1. CASE Trapped(e)
    BY <1>3, <2>1
  <2>2. CASE ~Trapped(e)
    BY <1>1, <1>4, <2>2, CompleteFrameKeeps
  <2> QED
    BY <2>1, <2>2
<1> HIDE DEF w, x
<1>7. Sound(v) /\ SameMatching(x, v)
  BY <1>6, ForwardFreshKeeps, ForwardFreshRetains DEF Sound
<1> HIDE DEF v
<1>8. y \in Engines /\ SameMatching(v, y)
  BY <1>7, DropChatterKeeps, DropChatterRetains DEF Sound
<1> HIDE DEF y
<1>9. e'.mode = x.mode /\ e'.seq = x.seq
  BY <1>2, <1>7, <1>8, DrainFields DEF SameMatching
<1>10. ~Pends(e, frame.todo)
  BY <1>1 DEF Pends
<1>11. Matching(e)' => x = e /\ ~Finished(e)
  BY <1>5, <1>9 DEF Matching
<1>12. Matching(e)' => ~Finished(e)'
  BY <1>9, <1>11 DEF Finished, Matching
<1> QED
  BY <1>2, <1>9, <1>10, <1>11, <1>12 DEF Cand, Unmatched, Matching

LEMMA CancelledMode ==
    ASSUME NEW x \in Engines, NEW d
    PROVE  Cancelled(x, d).mode = "idle"
<1> DEFINE y == Fail(x)
           j == [i \in DOMAIN y.journal |->
                   IF y.journal[i].device # d THEN y.journal[i]
                   ELSE [y.journal[i] EXCEPT
                           !.events = Kept(@, {r \in ToSet(@) : r.type = "output"})]]
           K == Kept(y.active, {a \in ToSet(y.active) : \A p \in a.members : device(p) # d})
<1>1. Cancelled(x, d) = [y EXCEPT !.active = K, !.journal = j]
  BY DEF Cancelled
<1>2. y \in Engines /\ y.mode = "idle"
  BY FailFields
<1> HIDE DEF y, j, K
<1> QED
  BY <1>1, <1>2 DEF Engines

LEMMA ReconcileMode ==
    ASSUME NEW d \in Device, NEW pressed \in SUBSET InputCode, EngineInv, Reconcile(d, pressed)
    PROVE  e'.mode = "idle"
<1> DEFINE w == Cancelled(e, d)
           u == Drain(w)
           v == StopAll(u, EndedBy(e, d))
           x == Snapshot(v, e, d, pressed)
           y == QueueOutput(x, ReconcileDevice(d, VisibleCodes(x, d)))
<1>1. Sound(e) /\ e \in Engines
  BY DEF EngineInv, Sound
<1>2. /\ e' = Drain(y)
      /\ \A c \in pressed : PressAt(e, d, c) = NoPress => FreeLives(e, d, c) # {}
  BY DEF Reconcile
<1>3. pressed \in SUBSET Code
  BY DEF InputCode, KeyEvent
<1>4. Sound(w) /\ Evolves(e, w, {}) /\ w.physical = e.physical /\ w.mode = "idle"
      /\ w.seq = NoCandidate
  BY <1>1, CancelledKeeps, CancelledMode
<1> HIDE DEF w
<1>5. Sound(u) /\ Evolves(w, u, {}) /\ u.physical = e.physical /\ u.mode = "idle"
      /\ u.seq = NoCandidate
  BY <1>4, DrainKeeps, DrainFields DEF Sound, SameMatching
<1> HIDE DEF u
<1>6. Sound(v) /\ Evolves(u, v, {}) /\ v.physical = e.physical /\ v.mode = "idle"
      /\ v.seq = NoCandidate
  BY <1>1, <1>5, EndedByType, StopAllKeeps DEF SameMatching, Sound
<1> HIDE DEF v
<1>7. Evolves(e, v, {})
  BY <1>1, <1>4, <1>5, <1>6, EvolvesThen
<1>8. Referenced(v) \subseteq Referenced(e) \cup {NoPress}
  BY <1>7 DEF Evolves
<1>9. Sound(x)
  BY <1>2, <1>3, <1>6, <1>8, SnapshotKeeps
<1>10. x.mode = "idle"
  BY <1>6, SnapshotFields DEF Sound
<1> HIDE DEF x
<1>11. ReconcileDevice(d, VisibleCodes(x, d)) \in Output
  BY <1>9, VisibleCodesType DEF Sound, Output, ReconcileDevice, Owner
<1>12. <<ReconcileDevice(d, VisibleCodes(x, d))>> \in Seq(Output)
  BY <1>11
<1>13. y \in Engines /\ y.mode = "idle"
  BY <1>9, <1>10, <1>12, QueueOutputsFields DEF QueueOutput, Sound, SameMatching
<1> HIDE DEF y
<1> QED
  BY <1>2, <1>13, DrainFields DEF SameMatching

LEMMA ClosingMode ==
    ASSUME NEW x \in Engines
    PROVE  Closing(x).mode = "idle" /\ Closing(x).physical = {}
<1> DEFINE y == Fail(x)
           kept == [i \in DOMAIN y.journal |->
                      [y.journal[i] EXCEPT !.events = Kept(@, {r \in ToSet(@) : KeptByClose(r)})]]
           s == StopAll([y EXCEPT !.journal = kept], y.active)
           z == [s EXCEPT !.active = <<>>]
           r == Release(z, z.physical)
<1>1. Closing(x) = Releases(r, SetToSeq({device(p) : p \in y.physical}))
  BY DEF Closing
<1>2. y \in Engines /\ y.mode = "idle"
  BY FailFields
<1> HIDE DEF y, kept
<1>3. s.mode = "idle" /\ DOMAIN s = DOMAIN y
  BY <1>2 DEF StopAll, QueueOutputs, Engines
<1> HIDE DEF s
<1>4. z.mode = "idle" /\ DOMAIN z = DOMAIN y
  BY <1>2, <1>3 DEF Engines
<1> HIDE DEF z
<1>5. r.mode = "idle" /\ r.physical = {} /\ DOMAIN r = DOMAIN y
  BY <1>2, <1>4 DEF Release, Engines
<1> HIDE DEF r
<1> QED
  BY <1>1, <1>2, <1>5 DEF Releases, QueueOutputs, Engines

LEMMA CloseMode ==
    ASSUME EngineInv, Close
    PROVE  e'.mode = "idle" /\ e'.physical = {}
<1>1. e \in Engines /\ e' = Drain(Closing(e)) /\ Sound(Closing(e))
  BY ClosingKeeps DEF EngineInv, Sound, Close
<1> QED
  BY <1>1, ClosingMode, DrainFields DEF Sound, SameMatching

(* Every step of the engine keeps Cand.                                    *)
LEMMA CandNext ==
    ASSUME EngineInv, HeldInv, Cand, [EngineNext]_engineVars
    PROVE  Cand'
<1>0. ASSUME ~Matching(e)' PROVE Cand'
  BY <1>0 DEF Cand
<1>1. ASSUME NEW d \in Device, NEW late \in BOOLEAN, BeginFrame(d, late) PROVE Cand'
  BY <1>1, BeginFrameCand
<1>2. ASSUME NEW event \in InputEvent, HandleEvent(event) PROVE Cand'
  BY <1>2, HandleEventCand
<1>3. CASE AdvanceStep
  BY <1>3, AdvanceStepCand
<1>5. CASE EndFrame
  BY <1>5, EndFrameCand
<1>6. CASE Timeout
  <2>1. e' = Drain(Fail(e)) /\ e \in Engines
    BY <1>6 DEF Timeout, HandleTimeout, EngineInv, Sound
  <2>2. e'.mode = "idle"
    BY <2>1, FailFields, DrainFields DEF SameMatching
  <2> QED
    BY <1>0, <2>2 DEF Matching
<1>7. ASSUME NEW d \in Device, NEW pressed \in SUBSET InputCode, Reconcile(d, pressed) PROVE Cand'
  BY <1>0, <1>7, ReconcileMode DEF Matching
<1>8. CASE Close
  BY <1>0, <1>8, CloseMode DEF Matching
<1>9. CASE Apply
  <2>1. e' = e /\ frame' = frame
    BY <1>9 DEF Apply
  <2> QED
    BY <2>1, Zenon DEF Cand
<1>10. CASE UNCHANGED engineVars
  <2>1. e' = e /\ frame' = frame
    BY <1>10 DEF engineVars
  <2> QED
    BY <2>1, Zenon DEF Cand
<1> QED
  BY <1>1, <1>2, <1>3, <1>5, <1>6, <1>7, <1>8, <1>9, <1>10 DEF EngineNext, Input

-----------------------------------------------------------------------------
(* Reconcile: what a snapshot cancels, ends and replaces                   *)

(* What is kept of a list, frame by frame.                                 *)
KeepFn(A, P) == [r \in A |-> IF r \in P THEN <<r>> ELSE <<>>]

(* What R gives for the members of P, and nothing for the others.          *)
SomeFn(A, P, R) == [r \in A |-> IF r \in P THEN R[r] ELSE <<>>]

LEMMA KeptMapped ==
    ASSUME NEW A, NEW s \in Seq(A), NEW P
    PROVE  Kept(s, P) = Mapped(s, KeepFn(A, P))
<1>1. \A i \in DOMAIN s : s[i] \in A
  OBVIOUS
<1>2. \A i \in DOMAIN s : KeepFn(A, P)[s[i]] = IF s[i] \in P THEN <<s[i]>> ELSE <<>>
  BY <1>1 DEF KeepFn
<1>3. Parts(s, KeepFn(A, P)) = [i \in DOMAIN s |-> IF s[i] \in P THEN <<s[i]>> ELSE <<>>]
  BY <1>2 DEF Parts
<1> QED
  BY <1>3 DEF Kept, Mapped

LEMMA MappedKept ==
    ASSUME NEW A, NEW V, NEW R \in [A -> Seq(V)], NEW P, NEW s \in Seq(A)
    PROVE  Mapped(Kept(s, P), R) = Mapped(s, SomeFn(A, P, R))
<1>1. KeepFn(A, P) \in [A -> Seq(A)]
  <2>1. \A r \in A : <<r>> \in Seq(A) /\ <<>> \in Seq(A)
    OBVIOUS
  <2> QED
    BY <2>1 DEF KeepFn
<1>2. SomeFn(A, P, R) \in [A -> Seq(V)]
  <2>1. <<>> \in Seq(V)
    OBVIOUS
  <2> QED
    BY <2>1 DEF SomeFn
<1>3. \A r \in A : SomeFn(A, P, R)[r] = Mapped(KeepFn(A, P)[r], R)
  <2> TAKE r \in A
  <2>1. CASE r \in P
    <3>1. Mapped(<<r>>, R) = R[r]
      BY MappedOne, Zenon
    <3> QED
      BY <2>1, <3>1 DEF SomeFn, KeepFn
  <2>2. CASE r \notin P
    <3>1. Mapped(<<>>, R) = <<>>
      BY MappedEmpty, Zenon
    <3> QED
      BY <2>2, <3>1 DEF SomeFn, KeepFn
  <2> QED
    BY <2>1, <2>2
<1>4. Composes(A, KeepFn(A, P), R, SomeFn(A, P, R))
  BY <1>3, Zenon DEF Composes
<1>5. Composed(s, KeepFn(A, P), R, SomeFn(A, P, R))
  BY <1>1, <1>2, <1>4, MappedTwice, Zenon
<1>6. Kept(s, P) = Mapped(s, KeepFn(A, P))
  BY KeptMapped, Zenon
<1> QED
  BY <1>5, <1>6, Zenon DEF Composed

(* Dropping records that do not set adds nothing; dropping records that do  *)
(* not reset loses nothing.                                                *)
Gains(s, t, P, Q) == \A b \in BOOLEAN : After(b, s, P, Q) => After(b, t, P, Q)

LEMMA KeptGains ==
    ASSUME NEW A, NEW V, NEW R \in [A -> Seq(V)], NEW T, NEW s \in Seq(A), NEW P, NEW Q
    PROVE  /\ (\A r \in A : r \notin T => Keeps(R[r], Q))
                 => Gains(Mapped(Kept(s, T), R), Mapped(s, R), P, Q)
           /\ (\A r \in A : r \notin T => Keeps(R[r], P))
                 => Gains(Mapped(s, R), Mapped(Kept(s, T), R), P, Q)
<1> DEFINE S == SomeFn(A, T, R)
<1>1. S \in [A -> Seq(V)]
  <2>1. <<>> \in Seq(V)
    OBVIOUS
  <2> QED
    BY <2>1 DEF SomeFn
<1>2. \A r \in A : S[r] = IF r \in T THEN R[r] ELSE <<>>
  BY DEF SomeFn
<1>3. Mapped(Kept(s, T), R) = Mapped(s, S)
  BY MappedKept, Zenon
<1> HIDE DEF S
<1>4. ASSUME \A r \in A : r \notin T => Keeps(R[r], Q)
      PROVE  Gains(Mapped(s, S), Mapped(s, R), P, Q)
  <2>1. ASSUME NEW r \in A, NEW b \in BOOLEAN, After(b, S[r], P, Q) PROVE After(b, R[r], P, Q)
    <3>1. CASE r \in T
      BY <1>2, <2>1, <3>1
    <3>2. CASE r \notin T
      <4>1. S[r] = <<>> /\ Keeps(R[r], Q)
        BY <1>2, <1>4, <3>2
      <4>2. b
        BY <2>1, <4>1, SaysNothing, Zenon DEF After
      <4> QED
        BY <4>1, <4>2, Zenon DEF After
    <3> QED
      BY <3>1, <3>2
  <2>2. Weaker(A, S, R, P, Q)
    BY <2>1, Zenon DEF Weaker
  <2>3. Weakens(s, S, R, P, Q)
    BY <1>1, <2>2, AfterMapped, Zenon
  <2> QED
    BY <2>3, Zenon DEF Weakens, Gains
<1>5. ASSUME \A r \in A : r \notin T => Keeps(R[r], P)
      PROVE  Gains(Mapped(s, R), Mapped(s, S), P, Q)
  <2>1. ASSUME NEW r \in A, NEW b \in BOOLEAN, After(b, R[r], P, Q) PROVE After(b, S[r], P, Q)
    <3>1. CASE r \in T
      BY <1>2, <2>1, <3>1
    <3>2. CASE r \notin T
      <4>1. S[r] = <<>> /\ Keeps(R[r], P)
        BY <1>2, <1>5, <3>2
      <4>2. ~Sets(R[r], P, Q)
        BY <4>1, Zenon DEF Keeps, Sets
      <4>3. b
        BY <2>1, <4>2, Zenon DEF After
      <4> QED
        BY <4>1, <4>3, SaysNothing, Zenon DEF After
    <3> QED
      BY <3>1, <3>2
  <2>2. Weaker(A, R, S, P, Q)
    BY <2>1, Zenon DEF Weaker
  <2>3. Weakens(s, R, S, P, Q)
    BY <1>1, <2>2, AfterMapped, Zenon
  <2> QED
    BY <2>3, Zenon DEF Weakens, Gains
<1> QED
  BY <1>3, <1>4, <1>5, Zenon

(* A journal that gains frame by frame gains.                              *)
LEMMA JournalGains ==
    ASSUME NEW x \in Engines, NEW y \in Engines, DOMAIN y.journal = DOMAIN x.journal,
           NEW fate, NEW P, NEW Q,
           \A i \in DOMAIN x.journal :
              Gains(FrameFn(fate)[x.journal[i]], FrameFn(fate)[y.journal[i]], P, Q)
    PROVE  Gains(Ops(x, fate), Ops(y, fate), P, Q)
<1> DEFINE D == DOMAIN x.journal
           idx == [i \in D |-> i]
           F == [i \in D |-> FrameFn(fate)[x.journal[i]]]
           G == [i \in D |-> FrameFn(fate)[y.journal[i]]]
<1>1. FrameFn(fate) \in [JournalFrames -> Seq(Operation)]
  BY FrameFnType, Zenon
<1>2. x.journal \in Seq(JournalFrames) /\ y.journal \in Seq(JournalFrames)
  BY DEF Engines
<1>3. D = 1 .. Len(x.journal) /\ Len(x.journal) \in Nat
  BY <1>2
<1>4. idx \in Seq(D)
  BY <1>3
<1>5. \A i \in D : x.journal[i] \in JournalFrames /\ y.journal[i] \in JournalFrames
  BY <1>2
<1>6. F \in [D -> Seq(Operation)] /\ G \in [D -> Seq(Operation)]
  <2> HIDE DEF D
  <2>1. \A i \in D : FrameFn(fate)[x.journal[i]] \in Seq(Operation)
                     /\ FrameFn(fate)[y.journal[i]] \in Seq(Operation)
    BY <1>1, <1>5
  <2> QED
    BY <2>1
<1>7. Weaker(D, F, G, P, Q)
  <2>1. \A i \in D : Gains(F[i], G[i], P, Q)
    OBVIOUS
  <2> HIDE DEF D, F, G
  <2> QED
    BY <2>1, Zenon DEF Weaker, Gains
<1>8. Alike(idx, F, x.journal, FrameFn(fate)) /\ Alike(idx, G, y.journal, FrameFn(fate))
  BY DEF Alike
<1> HIDE DEF D, F, G, idx
<1>9. Weakens(idx, F, G, P, Q)
  BY <1>4, <1>6, <1>7, AfterMapped, Zenon
<1>10. Mapped(idx, F) = Ops(x, fate) /\ Mapped(idx, G) = Ops(y, fate)
  BY <1>8, MappedSame DEF Ops
<1> QED
  BY <1>9, <1>10, Zenon DEF Weakens, Gains

(* A frame of which some records are dropped.                              *)
Thin(f, T) == [f EXCEPT !.events = Kept(f.events, T)]

LEMMA ThinGains ==
    ASSUME NEW f \in JournalFrames, NEW T, NEW fate, NEW P, NEW Q
    PROVE  /\ Thin(f, T) \in JournalFrames
           /\ (\A k \in DOMAIN f.events : f.events[k] \notin T
                  => Keeps(RecordOps(f.device, f.events[k], fate), Q))
                => Gains(FrameFn(fate)[Thin(f, T)], FrameFn(fate)[f], P, Q)
           /\ (\A k \in DOMAIN f.events : f.events[k] \notin T
                  => Keeps(RecordOps(f.device, f.events[k], fate), P))
                => Gains(FrameFn(fate)[f], FrameFn(fate)[Thin(f, T)], P, Q)
<1> DEFINE s == f.events
           A == ToSet(s)
           R == [r \in A |-> RecordOps(f.device, r, fate)]
           g == Thin(f, T)
<1>1. f.device \in Device \cup {NoDevice} /\ s \in Seq(Record)
  BY FrameParts
<1>2. s \in Seq(A) /\ A \subseteq Record /\ A = {s[k] : k \in DOMAIN s}
  BY <1>1 DEF ToSet
<1>3. RecordFn(f.device, fate) \in [Record -> Seq(Operation)]
  BY <1>1, RecordFnType, Zenon
<1>4. \A r \in Record : RecordOps(f.device, r, fate) \in Seq(Operation)
  BY <1>3, Zenon DEF RecordFn
<1>5. R \in [A -> Seq(Operation)]
  <2> HIDE DEF A
  <2> QED
    BY <1>2, <1>4
<1>6. g.device = f.device /\ g.events = Kept(s, T) /\ g \in JournalFrames
  <2>1. SomeEvents(f, g)
    BY DEF SomeEvents, Thin
  <2>2. g \in JournalFrames /\ g.device = f.device
    BY <2>1, SomeEventsType
  <2>3. g.events = Kept(s, T)
    BY DEF Thin, JournalFrames, JournalFrame
  <2> QED
    BY <2>2, <2>3
<1> HIDE DEF A, g
<1>7. Kept(s, T) \in Seq(A)
  BY <1>2, KeptFrom
<1>8. \A t \in Seq(A) : Mapped(t, RecordFn(f.device, fate)) = Mapped(t, R)
  <2> TAKE t \in Seq(A)
  <2>1. \A i \in DOMAIN t : t[i] \in A
    OBVIOUS
  <2>2. Alike(t, RecordFn(f.device, fate), t, R)
    BY <1>2, <2>1 DEF Alike, RecordFn
  <2> HIDE DEF R
  <2> QED
    BY <2>2, MappedSame
<1>9. \A h \in JournalFrames : FrameFn(fate)[h] = Mapped(h.events, RecordFn(h.device, fate))
  BY DEF FrameFn
<1>10. FrameFn(fate)[f] = Mapped(s, R) /\ FrameFn(fate)[g] = Mapped(Kept(s, T), R)
  BY <1>2, <1>6, <1>7, <1>8, <1>9
<1>11. \A r \in A : \E k \in DOMAIN s : r = s[k] /\ R[r] = RecordOps(f.device, s[k], fate)
  BY <1>2
<1> HIDE DEF R
<1>12. /\ (\A r \in A : r \notin T => Keeps(R[r], Q))
             => Gains(Mapped(Kept(s, T), R), Mapped(s, R), P, Q)
       /\ (\A r \in A : r \notin T => Keeps(R[r], P))
             => Gains(Mapped(s, R), Mapped(Kept(s, T), R), P, Q)
  BY <1>2, <1>5, KeptGains
<1>13. g = Thin(f, T)
  BY DEF g
<1> QED
  BY <1>6, <1>10, <1>11, <1>12, <1>13, Zenon

LEMMA SilentAll ==
    ASSUME NEW s \in Seq(Operation), NEW o, Silent(s, o)
    PROVE  /\ \A c : Keeps(s, Pressing(o, c)) /\ Keeps(s, Releasing(o, c))
           /\ Keeps(s, Entering(o)) /\ Keeps(s, Leaving(o))
<1>1. \A k \in DOMAIN s : s[k] \in Operation /\ ~Names(s[k], o)
  BY DEF Silent
<1>2. \A k \in DOMAIN s : /\ \A c : s[k] \notin Pressing(o, c) /\ s[k] \notin Releasing(o, c)
                          /\ s[k] \notin Entering(o) /\ s[k] \notin Leaving(o)
  BY <1>1, NoNames
<1> QED
  BY <1>2 DEF Keeps

(* An input record speaks of its keyboard alone.                           *)
LEMMA RecordSilent ==
    ASSUME NEW d \in Device \cup {NoDevice}, NEW r \in Record, r.type # "output", NEW fate,
           NEW o, o # d
    PROVE  RecordOps(d, r, fate) \in Seq(Operation) /\ Silent(RecordOps(d, r, fate), o)
<1>1. RecordOps(d, r, fate) \in Seq(Operation)
  BY RecordFnType DEF RecordFn
<1>2. \/ RecordOps(d, r, fate) = <<KeyOutput(d, r.event.code, r.event.value)>>
      \/ RecordOps(d, r, fate) = <<>>
  BY DEF RecordOps
<1>3. ~Names(KeyOutput(d, r.event.code, r.event.value), o)
  BY DEF Names, KeyOutput
<1>4. Silent(RecordOps(d, r, fate), o)
  <2>1. CASE RecordOps(d, r, fate) = <<KeyOutput(d, r.event.code, r.event.value)>>
    BY <1>3, <2>1 DEF Silent
  <2>2. CASE RecordOps(d, r, fate) = <<>>
    BY <2>2 DEF Silent
  <2> QED
    BY <1>2, <2>1, <2>2
<1> QED
  BY <1>1, <1>4

(* What Reconcile keeps of the frames of its device.                       *)
OutputRecords(f) == {r \in ToSet(f.events) : r.type = "output"}

(* The remaps that no key of d takes part in.                              *)
Stays(x, d) == {a \in ToSet(x.active) : \A p \in a.members : device(p) # d}

(* w is f with the input of d dropped from the journal and d's remaps      *)
(* dropped.                                                                *)
CancelsTo(f, w, d) ==
    /\ w.route = f.route /\ w.physical = f.physical
    /\ w.active = Kept(f.active, Stays(f, d))
    /\ DOMAIN w.journal = DOMAIN f.journal
    /\ \A i \in DOMAIN f.journal :
          w.journal[i] = IF f.journal[i].device # d THEN f.journal[i]
                         ELSE Thin(f.journal[i], OutputRecords(f.journal[i]))

LEMMA CancelledParts ==
    ASSUME NEW x \in Engines, NEW d
    PROVE  CancelsTo(Fail(x), Cancelled(x, d), d)
<1> DEFINE f == Fail(x)
           K == Kept(f.active, {a \in ToSet(f.active) : \A p \in a.members : device(p) # d})
           j == [i \in DOMAIN f.journal |->
                   IF f.journal[i].device # d THEN f.journal[i]
                   ELSE [f.journal[i] EXCEPT
                           !.events = Kept(@, {r \in ToSet(@) : r.type = "output"})]]
<1>1. f \in Engines
  BY FailFields
<1>2. Cancelled(x, d) = [f EXCEPT !.active = K, !.journal = j]
  BY DEF Cancelled
<1>3. \A i \in DOMAIN f.journal :
         j[i] = IF f.journal[i].device # d THEN f.journal[i]
                ELSE Thin(f.journal[i], OutputRecords(f.journal[i]))
  BY DEF Thin, OutputRecords
<1>4. DOMAIN j = DOMAIN f.journal /\ K = Kept(f.active, Stays(f, d))
  BY DEF Stays
<1> HIDE DEF f, K, j
<1>5. LET w == Cancelled(x, d) IN
      w.route = f.route /\ w.physical = f.physical /\ w.active = K /\ w.journal = j
  BY <1>1, <1>2 DEF Engines
<1> QED
  BY <1>3, <1>4, <1>5 DEF CancelsTo, f

LEMMA CancelledGains ==
    ASSUME NEW f \in Engines, NEW w \in Engines, NEW d, CancelsTo(f, w, d), NEW fate,
           NEW o, o # d
    PROVE  /\ \A c : /\ Gains(Ops(f, fate), Ops(w, fate), Pressing(o, c), Releasing(o, c))
                     /\ Gains(Ops(w, fate), Ops(f, fate), Pressing(o, c), Releasing(o, c))
           /\ Gains(Ops(w, fate), Ops(f, fate), Entering(o), Leaving(o))
<1>1. ASSUME NEW P, NEW Q, NEW i \in DOMAIN f.journal,
             \A s \in Seq(Operation) : Silent(s, o) => Keeps(s, P) /\ Keeps(s, Q)
      PROVE  /\ Gains(FrameFn(fate)[f.journal[i]], FrameFn(fate)[w.journal[i]], P, Q)
             /\ Gains(FrameFn(fate)[w.journal[i]], FrameFn(fate)[f.journal[i]], P, Q)
  <2> DEFINE g == f.journal[i]
             T == OutputRecords(g)
  <2>1. g \in JournalFrames
    BY DEF Engines
  <2>2. g.events \in Seq(Record) /\ g.device \in Device \cup {NoDevice}
    BY <2>1, FrameParts
  <2>3. CASE g.device # d
    <3>1. w.journal[i] = g
      BY <2>3 DEF CancelsTo
    <3> HIDE DEF g
    <3>2. Gains(FrameFn(fate)[g], FrameFn(fate)[g], P, Q)
      BY Zenon DEF Gains
    <3> QED
      BY <3>1, <3>2 DEF g
  <2>4. CASE g.device = d
    <3>1. w.journal[i] = Thin(g, T)
      BY <2>4 DEF CancelsTo
    <3>2. ASSUME NEW k \in DOMAIN g.events, g.events[k] \notin T
          PROVE  Keeps(RecordOps(g.device, g.events[k], fate), P)
                 /\ Keeps(RecordOps(g.device, g.events[k], fate), Q)
      <4>1. g.events[k] \in Record /\ g.events[k] \in ToSet(g.events)
        BY <2>2 DEF ToSet
      <4>2. g.events[k].type # "output"
        BY <3>2, <4>1 DEF OutputRecords
      <4> HIDE DEF g
      <4>3. /\ RecordOps(g.device, g.events[k], fate) \in Seq(Operation)
            /\ Silent(RecordOps(g.device, g.events[k], fate), o)
        BY <2>2, <2>4, <4>1, <4>2, RecordSilent
      <4> QED
        BY <1>1, <4>3, Zenon
    <3> HIDE DEF g, T
    <3>3. /\ Gains(FrameFn(fate)[Thin(g, T)], FrameFn(fate)[g], P, Q)
          /\ Gains(FrameFn(fate)[g], FrameFn(fate)[Thin(g, T)], P, Q)
      BY <2>1, <3>2, ThinGains, Zenon
    <3> QED
      BY <3>1, <3>3 DEF g
  <2> QED
    BY <2>3, <2>4
<1>2. ASSUME NEW P, NEW Q,
             \A s \in Seq(Operation) : Silent(s, o) => Keeps(s, P) /\ Keeps(s, Q)
      PROVE  Gains(Ops(f, fate), Ops(w, fate), P, Q) /\ Gains(Ops(w, fate), Ops(f, fate), P, Q)
  <2>1. DOMAIN w.journal = DOMAIN f.journal
    BY DEF CancelsTo
  <2>2. \A i \in DOMAIN f.journal :
           /\ Gains(FrameFn(fate)[f.journal[i]], FrameFn(fate)[w.journal[i]], P, Q)
           /\ Gains(FrameFn(fate)[w.journal[i]], FrameFn(fate)[f.journal[i]], P, Q)
    BY <1>1, <1>2
  <2> QED
    BY <2>1, <2>2, JournalGains, Zenon
<1>3. \A s \in Seq(Operation) : Silent(s, o) =>
         /\ \A c : Keeps(s, Pressing(o, c)) /\ Keeps(s, Releasing(o, c))
         /\ Keeps(s, Entering(o)) /\ Keeps(s, Leaving(o))
  BY SilentAll, Zenon
<1> QED
  BY <1>2, <1>3, Zenon

(* The owners of the remaps that losing d's keys ends.                     *)
EndedOwners(x, d) == {a.owner : a \in ToSet(EndedBy(x, d))}

(* The owners that a snapshot of d does not concern.                       *)
Others(x, d) == Owner \ ({d} \cup EndedOwners(x, d))

LEMMA EndedIs ==
    ASSUME NEW x \in Engines, NEW d
    PROVE  /\ EndedBy(x, d) \in Seq(Activation)
           /\ ToSet(EndedBy(x, d)) = {a \in ToSet(x.active) : \E p \in a.members : device(p) = d}
<1>1. x.active \in Seq(Activation)
  BY DEF Engines
<1>2. EndedBy(x, d) \in Seq(Activation)
  BY EndedByType
<1> DEFINE P == {a \in ToSet(x.active) : \E p \in a.members : device(p) = d}
<1>3. P \subseteq ToSet(x.active)
  OBVIOUS
<1>4. EndedBy(x, d) = Kept(x.active, P)
  BY DEF EndedBy
<1> HIDE DEF P
<1>5. ToSet(Kept(x.active, P)) = ToSet(x.active) \cap P
  BY <1>1, KeptSet, Zenon
<1>6. ToSet(Kept(x.active, P)) = P
  BY <1>3, <1>5, Zenon
<1> QED
  BY <1>2, <1>4, <1>6 DEF P

LEMMA StaysIs ==
    ASSUME NEW f \in Engines, NEW w, NEW d, CancelsTo(f, w, d)
    PROVE  ToSet(w.active) = {a \in ToSet(f.active) : \A p \in a.members : device(p) # d}
<1>1. f.active \in Seq(Activation)
  BY DEF Engines
<1>2. Stays(f, d) \subseteq ToSet(f.active) /\ w.active = Kept(f.active, Stays(f, d))
  BY DEF Stays, CancelsTo
<1>3. ToSet(Kept(f.active, Stays(f, d))) = ToSet(f.active) \cap Stays(f, d)
  BY <1>1, KeptSet, Zenon
<1>4. ToSet(w.active) = Stays(f, d)
  BY <1>2, <1>3, Zenon
<1> QED
  BY <1>4 DEF Stays

(* Cancelling for a snapshot of d and dropping d's input changes nothing    *)
(* for the other keyboards and for the remaps that stay.                   *)
LEMMA CancelledFlow ==
    ASSUME NEW x, Sound(x), NEW d, NEW keys, NEW names, Balanced(x, keys, names)
    PROVE  LET w == Cancelled(x, d) IN
           Flow(w, keys, names, Others(x, d)) /\ OneLife(w) /\ RecordsIn(w, GoodRecords)
<1> DEFINE f == Fail(x)
           w == Cancelled(x, d)
<1>1. MatcherStep(x, f) /\ x \in Engines
  BY FailStep DEF Sound
<1>2. Balanced(f, keys, names)
  BY <1>1, MatcherBalanced
<1>3. f \in Engines /\ f.active = x.active
  BY <1>1 DEF MatcherStep, Sound
<1>4. w \in Engines
  BY CancelledKeeps DEF Sound
<1>5. CancelsTo(f, w, d)
  BY <1>1, CancelledParts, Zenon
<1> HIDE DEF f, w
<1>6. w.route = f.route /\ w.physical = f.physical /\ DOMAIN w.journal = DOMAIN f.journal
  BY <1>5 DEF CancelsTo
<1>7. OneLife(w)
  BY <1>2, <1>6 DEF Balanced, OneLife
<1>8. RecordsIn(w, GoodRecords)
  <2>1. ASSUME NEW i \in DOMAIN f.journal PROVE SomeEvents(f.journal[i], w.journal[i])
    <3>1. w.journal[i] = f.journal[i] \/ w.journal[i] = Thin(f.journal[i], OutputRecords(f.journal[i]))
      BY <1>5 DEF CancelsTo
    <3> QED
      BY <3>1 DEF Thin, SomeEvents
  <2>2. Inherits(f, w, {})
    BY <1>3, <1>6, <2>1, SomeInherits
  <2>3. RecordsIn(f, GoodRecords)
    BY <1>2 DEF Balanced
  <2> QED
    BY <2>2, <2>3, Zenon DEF Inherits, RecordsIn
<1>9. ASSUME NEW fate \in Fates, Agrees(w, fate), NEW o \in Others(x, d)
      PROVE  Fits(w, keys, names, fate, o)
  <2>1. Agrees(f, fate)
    BY <1>6, <1>9 DEF Agrees
  <2>2. o \in Owner /\ o # d
    BY DEF Others
  <2>3. Fits(f, keys, names, fate, o)
    BY <1>2, <2>1, <2>2 DEF Balanced, Flow
  <2>4. /\ \A c : /\ Gains(Ops(f, fate), Ops(w, fate), Pressing(o, c), Releasing(o, c))
                  /\ Gains(Ops(w, fate), Ops(f, fate), Pressing(o, c), Releasing(o, c))
        /\ Gains(Ops(w, fate), Ops(f, fate), Entering(o), Leaving(o))
    BY <1>3, <1>4, <1>5, <2>2, CancelledGains
  <2>5. \A a : a.owner = o => (a \in ToSet(w.active) <=> a \in ToSet(f.active))
    <3> TAKE a
    <3>1. SUFFICES ASSUME a.owner = o PROVE a \in ToSet(w.active) <=> a \in ToSet(f.active)
      OBVIOUS
    <3>2. ToSet(w.active) = {b \in ToSet(f.active) : \A p \in b.members : device(p) # d}
      BY <1>3, <1>5, StaysIs
    <3>3. a \notin ToSet(EndedBy(x, d))
      BY <3>1 DEF Others, EndedOwners
    <3>4. ToSet(EndedBy(x, d)) = {b \in ToSet(f.active) : \E p \in b.members : device(p) = d}
      BY <1>1, <1>3, EndedIs
    <3> QED
      BY <3>2, <3>3, <3>4
  <2>6. \A c : Wanted(w, fate, o, c) <=> Wanted(f, fate, o, c)
    BY <1>6, <2>5 DEF Wanted
  <2>7. Live(w, o) <=> Live(f, o)
    BY <1>3, <1>4, <2>5, LiveIs
  <2>8. KeyFits(w, keys, fate, o)
    <3> SUFFICES ASSUME NEW c \in Code
                 PROVE  After(c \in keys[o], Ops(w, fate), Pressing(o, c), Releasing(o, c))
                          <=> Wanted(w, fate, o, c)
      BY Zenon DEF KeyFits
    <3> DEFINE b == c \in keys[o]
    <3>1. b \in BOOLEAN
      OBVIOUS
    <3>2. After(b, Ops(f, fate), Pressing(o, c), Releasing(o, c)) <=> Wanted(f, fate, o, c)
      BY <2>3 DEF Fits, KeyFits
    <3> HIDE DEF b
    <3>3. After(b, Ops(w, fate), Pressing(o, c), Releasing(o, c))
            <=> After(b, Ops(f, fate), Pressing(o, c), Releasing(o, c))
      BY <2>4, <3>1, Zenon DEF Gains
    <3>4. After(b, Ops(w, fate), Pressing(o, c), Releasing(o, c)) <=> Wanted(w, fate, o, c)
      BY <2>6, <3>2, <3>3, Zenon
    <3> QED
      BY <3>4 DEF b
  <2>9. NameFits(w, names, fate, o)
    <3> DEFINE b == o \in names
    <3>1. b \in BOOLEAN
      OBVIOUS
    <3>2. o \in HoldDevice /\ After(b, Ops(f, fate), Entering(o), Leaving(o)) => Live(f, o)
      BY <2>3 DEF Fits, NameFits
    <3> HIDE DEF b
    <3>3. After(b, Ops(w, fate), Entering(o), Leaving(o))
            => After(b, Ops(f, fate), Entering(o), Leaving(o))
      BY <2>4, <3>1, Zenon DEF Gains
    <3>4. o \in HoldDevice /\ After(b, Ops(w, fate), Entering(o), Leaving(o)) => Live(w, o)
      BY <2>7, <3>2, <3>3, Zenon
    <3> QED
      BY <3>4 DEF b, NameFits
  <2> QED
    BY <2>8, <2>9 DEF Fits
<1>10. Flow(w, keys, names, Others(x, d))
  BY <1>9, Zenon DEF Flow
<1> QED
  BY <1>7, <1>8, <1>10 DEF w

(* Stopping the remaps that a snapshot of d ends: each of their owners      *)
(* lets go of everything, and the others hear nothing.                     *)
StopsOf(activations) == Mapped(activations, [a \in Activation |-> StopOutputs(a)])

LEMMA StopsOfType ==
    ASSUME NEW s \in Seq(Activation)
    PROVE  /\ StopsOf(s) \in Seq(ForeignOutput) /\ StopsOf(s) \in Seq(Output)
           /\ \A x : StopAll(x, s) = QueueOutputs(x, StopsOf(s))
<1> DEFINE F == [a \in Activation |-> StopOutputs(a)]
<1>1. F \in [Activation -> Seq(ForeignOutput)]
  BY StopsForeign
<1>2. StopsOf(s) \in Seq(ForeignOutput)
  <2> HIDE DEF F
  <2>1. Mapped(s, F) \in Seq(ForeignOutput)
    BY <1>1, MappedType, Zenon
  <2> QED
    BY <2>1 DEF StopsOf, F
<1>3. ForeignOutput \subseteq Output
  BY DEF ForeignOutput
<1>4. StopsOf(s) \in Seq(Output)
  <2>1. StopsOf(s) \in Seq(ForeignOutput)
    BY <1>2
  <2> HIDE DEF F
  <2>2. \A t \in Seq(ForeignOutput) : t \in Seq(Output)
    BY <1>3
  <2> QED
    BY <2>1, <2>2
<1>5. Parts(s, F) = [k \in DOMAIN s |-> StopOutputs(s[k])]
  <2>1. \A k \in DOMAIN s : s[k] \in Activation
    OBVIOUS
  <2>2. \A k \in DOMAIN s : F[s[k]] = StopOutputs(s[k])
    BY <2>1
  <2> HIDE DEF F
  <2> QED
    BY <2>2 DEF Parts
<1>6. \A x : StopAll(x, s) = QueueOutputs(x, StopsOf(s))
  BY <1>5 DEF StopAll, StopsOf, Mapped
<1> QED
  BY <1>2, <1>4, <1>6

(* The stops of the remaps in s release what the owner o held for them.    *)
Clearing(s, o) ==
    /\ \A c : \A b \in BOOLEAN :
          After(b, StopsOf(s), Pressing(o, c), Releasing(o, c))
            <=> b /\ \A i \in DOMAIN s : s[i].owner # o
    /\ \A b \in BOOLEAN :
          After(b, StopsOf(s), Entering(o), Leaving(o))
            <=> b /\ \A i \in DOMAIN s : s[i].owner # o

LEMMA StopsOfClear ==
    ASSUME NEW s \in Seq(Activation), NEW o
    PROVE  Clearing(s, o)
<1> DEFINE F == [a \in Activation |-> StopOutputs(a)]
           E == {a \in Activation : a.owner = o}
<1>1. \A a \in Activation : Stops(F[a], o, a.owner # o)
  BY StopEffect
<1>2. F \in [Activation -> Seq(Operation)]
  BY <1>1 DEF Stops
<1>3. \A a \in Activation : a \notin E <=> a.owner # o
  OBVIOUS
<1>4. \A i \in DOMAIN s : s[i] \in Activation
  OBVIOUS
<1>5. StopsOf(s) = Mapped(s, F)
  BY DEF StopsOf
<1> HIDE DEF F, E
<1>6. ASSUME NEW P, NEW Q,
             \A a \in Activation : \A b \in BOOLEAN : After(b, F[a], P, Q) <=> b /\ a.owner # o
      PROVE  \A b \in BOOLEAN : After(b, StopsOf(s), P, Q) <=> b /\ \A i \in DOMAIN s : s[i].owner # o
  <2>1. Clears(Activation, F, P, Q, E)
    BY <1>3, <1>6, Zenon DEF Clears
  <2>2. ClearsAll(s, F, P, Q, E)
    BY <1>2, <2>1, AfterStops, Zenon
  <2>3. (\A i \in DOMAIN s : s[i] \notin E) <=> \A i \in DOMAIN s : s[i].owner # o
    BY <1>3, <1>4
  <2> QED
    BY <1>5, <2>2, <2>3, Zenon DEF ClearsAll
<1>7. \A c : \A a \in Activation : \A b \in BOOLEAN :
        After(b, F[a], Pressing(o, c), Releasing(o, c)) <=> b /\ a.owner # o
  BY <1>1, Zenon DEF Stops
<1>8. \A a \in Activation : \A b \in BOOLEAN :
        After(b, F[a], Entering(o), Leaving(o)) <=> b /\ a.owner # o
  BY <1>1, Zenon DEF Stops
<1>9. \A c : \A b \in BOOLEAN :
          After(b, StopsOf(s), Pressing(o, c), Releasing(o, c))
            <=> b /\ \A i \in DOMAIN s : s[i].owner # o
  BY <1>6, <1>7, Zenon
<1>10. \A b \in BOOLEAN :
          After(b, StopsOf(s), Entering(o), Leaving(o))
            <=> b /\ \A i \in DOMAIN s : s[i].owner # o
  BY <1>6, <1>8, Zenon
<1> QED
  BY <1>9, <1>10, Zenon DEF Clearing

LEMMA OwnersDiffer ==
    ASSUME NEW x, Held(x), NEW a \in ToSet(x.active), NEW b \in ToSet(x.active),
           a.owner = b.owner
    PROVE  a = b
<1>1. OneOwner(x.active)
  BY DEF Held, Remaps
<1>2. PICK i \in DOMAIN x.active : a = x.active[i]
  BY DEF ToSet
<1>3. PICK k \in DOMAIN x.active : b = x.active[k]
  BY DEF ToSet
<1> QED
  BY <1>1, <1>2, <1>3 DEF OneOwner

(* The stops of the ended remaps reset their owners.                       *)
LEMMA StopEndedFlow ==
    ASSUME NEW x \in Engines, Held(x), NEW d, NEW u, Sound(u),
           \A a \in ToSet(u.active) :
              a \in ToSet(x.active) /\ \A p \in a.members : device(p) # d,
           NEW keys, NEW names, Flow(u, keys, names, Others(x, d))
    PROVE  Flow(StopAll(u, EndedBy(x, d)), keys, names, Owner \ {d})
<1> DEFINE s == EndedBy(x, d)
           outputs == StopsOf(s)
           v == StopAll(u, s)
<1>1. /\ s \in Seq(Activation)
      /\ ToSet(s) = {a \in ToSet(x.active) : \E p \in a.members : device(p) = d}
  BY EndedIs
<1>2. u \in Engines
  BY DEF Sound
<1> HIDE DEF s
<1>3. outputs \in Seq(Output) /\ v = QueueOutputs(u, outputs)
  BY <1>1, StopsOfType
<1>4. Sound(v) /\ v.active = u.active /\ v.physical = u.physical /\ v.route = u.route
  BY <1>1, StopAllKeeps
<1> HIDE DEF v, outputs
<1>5. v \in Engines /\ v.journal = QueueOutputs(u, outputs).journal
  BY <1>3, <1>4 DEF Sound
<1>6. EndedOwners(x, d) = {a.owner : a \in ToSet(s)}
  BY DEF EndedOwners, s
<1>7. \A a \in ToSet(s) : \E i \in DOMAIN s : s[i] = a
  BY DEF ToSet
<1>8. \A i \in DOMAIN s : s[i] \in ToSet(s)
  BY DEF ToSet
<1>9. ASSUME NEW fate \in Fates, NEW o \in Others(x, d)
      PROVE  Follows(u, fate, v, fate, outputs, o)
  <2>1. \A i \in DOMAIN s : s[i].owner # o
    BY <1>6, <1>8 DEF Others
  <2>2. Clearing(s, o)
    BY <1>1, StopsOfClear
  <2>3. /\ \A c : \A b \in BOOLEAN : After(b, outputs, Pressing(o, c), Releasing(o, c)) <=> b
        /\ \A b \in BOOLEAN : After(b, outputs, Entering(o), Leaving(o)) <=> b
    BY <2>1, <2>2, Zenon DEF Clearing, outputs
  <2>4. \A c : Wanted(u, fate, o, c) <=> Wanted(v, fate, o, c)
    BY <1>4 DEF Wanted
  <2>5. Live(u, o) <=> Live(v, o)
    BY <1>2, <1>4, <1>5, LiveIs
  <2>6. /\ \A c : Wanted(u, fate, o, c) \in BOOLEAN
        /\ Live(u, o) \in BOOLEAN
    BY DEF Wanted, Live
  <2>7. \A c : After(Wanted(u, fate, o, c), outputs, Pressing(o, c), Releasing(o, c))
                <=> Wanted(v, fate, o, c)
    BY <2>3, <2>4, <2>6, Zenon
  <2>8. After(Live(u, o), outputs, Entering(o), Leaving(o)) => Live(v, o)
    BY <2>3, <2>5, <2>6, Zenon
  <2> QED
    BY <2>7, <2>8, Zenon DEF Follows
<1>10. ASSUME NEW fate \in Fates, NEW o \in EndedOwners(x, d)
       PROVE  Resets(v, fate, outputs, o)
  <2>1. PICK a \in ToSet(s) : a.owner = o
    BY <1>6
  <2>2. PICK i \in DOMAIN s : s[i].owner = o
    BY <1>7, <2>1
  <2>3. Clearing(s, o)
    BY <1>1, StopsOfClear
  <2>4. /\ \A c : \A b \in BOOLEAN : ~After(b, outputs, Pressing(o, c), Releasing(o, c))
        /\ \A b \in BOOLEAN : ~After(b, outputs, Entering(o), Leaving(o))
    BY <2>2, <2>3, Zenon DEF Clearing, outputs
  <2>5. a \in ToSet(x.active) /\ \E p \in a.members : device(p) = d
    BY <1>1
  <2>6. o \in HoldDevice
    BY <2>1, <2>5, ActiveOwners
  <2>7. \A b \in ToSet(v.active) : b.owner # o
    BY <1>4, <2>1, <2>5, OwnersDiffer
  <2>8. \A c : ~Wanted(v, fate, o, c)
    BY <1>5, <2>6, <2>7, WantedHold
  <2> QED
    BY <2>4, <2>8, Zenon DEF Resets
<1>11. \A fate \in Fates : Agrees(v, fate) =>
         \A o \in Owner \ {d} : (o \in Others(x, d) /\ Follows(u, fate, v, fate, outputs, o))
                                  \/ Resets(v, fate, outputs, o)
  <2>1. \A o \in Owner \ {d} : o \in Others(x, d) \/ o \in EndedOwners(x, d)
    BY DEF Others
  <2> QED
    BY <1>9, <1>10, <2>1, Zenon
<1>12. Flow(v, keys, names, Owner \ {d})
  BY <1>2, <1>3, <1>4, <1>5, <1>11, FlowQueue
<1> QED
  BY <1>12 DEF v, s

(* The snapshot itself: d's keys become the ones it reports; nothing else   *)
(* changes.                                                                *)
LEMMA SnapshotOthers ==
    ASSUME NEW x, Sound(x), OneLife(x), NEW old, NEW d \in Device, NEW pressed
    PROVE  LET y == Snapshot(x, old, d, pressed) IN
           /\ y.journal = x.journal /\ y.active = x.active
           /\ OneLife(y)
           /\ \A p \in Press : device(p) # d => (p \in y.physical <=> p \in x.physical)
           /\ \A p \in Press : p \in y.physical /\ device(p) = d => y.route[p] # "undecided"
<1> DEFINE gone == {p \in x.physical : device(p) = d /\ code(p) \notin pressed}
           y == Release(x, gone)
           known == {code(p) : p \in {q \in y.physical : device(q) = d}}
           life(c) == <<d, c, CHOOSE n \in FreeLives(old, d, c) : TRUE>>
           new == {life(c) : c \in pressed \ known}
           z == Down(y, new)
           r == [p \in Press |->
                   IF p \in z.physical /\ device(p) = d /\ z.route[p] = "undecided"
                     THEN "forwarded" ELSE z.route[p]]
           w == [z EXCEPT !.route = r]
<1>1. Snapshot(x, old, d, pressed) = w
  BY DEF Snapshot
<1>2. x \in Engines /\ x.physical \subseteq Press
  BY DEF Sound, Engines
<1>3. y.physical = x.physical \ gone /\ y.journal = x.journal /\ y.active = x.active
      /\ DOMAIN y = DOMAIN x
  <2> HIDE DEF gone
  <2> QED
    BY <1>2 DEF Release, Engines
<1>4. \A p \in new : device(p) = d /\ code(p) \notin known
  <2> SUFFICES ASSUME NEW c \in pressed \ known
               PROVE  device(life(c)) = d /\ code(life(c)) = c
    <3> HIDE DEF life, known
    <3> QED
      OBVIOUS
  <2> QED
    BY DEF device, code
<1>5. \A p, q \in new : code(p) = code(q) => p = q
  <2>1. \A c \in pressed \ known : code(life(c)) = c
    BY DEF code
  <2> HIDE DEF life, known
  <2> QED
    BY <2>1
<1>6. \A p \in y.physical : device(p) = d => code(p) \in known
  <2> HIDE DEF y
  <2> QED
    OBVIOUS
<1> HIDE DEF new, known, y
<1>7. z.physical = y.physical \cup new /\ z.journal = y.journal /\ z.active = y.active
      /\ DOMAIN z = DOMAIN x
  BY <1>2, <1>3 DEF Down, Engines
<1> HIDE DEF z
<1>8. w.physical = z.physical /\ w.journal = z.journal /\ w.active = z.active /\ w.route = r
  BY <1>2, <1>7 DEF Engines
<1> HIDE DEF w
<1>9. OneLife(w)
  <2> SUFFICES ASSUME NEW p \in w.physical, NEW q \in w.physical, device(p) = device(q),
                      code(p) = code(q)
               PROVE  p = q
    BY DEF OneLife
  <2>1. p \in y.physical \cup new /\ q \in y.physical \cup new
    BY <1>7, <1>8
  <2>2. CASE p \in y.physical /\ q \in y.physical
    BY <1>3, <2>2 DEF OneLife
  <2>3. CASE p \in new /\ q \in new
    BY <1>5, <2>3
  <2>4. CASE (p \in y.physical /\ q \in new) \/ (p \in new /\ q \in y.physical)
    BY <1>4, <1>6, <2>4
  <2> QED
    BY <2>1, <2>2, <2>3, <2>4
<1>10. \A p \in Press : device(p) # d => (p \in w.physical <=> p \in x.physical)
  <2>1. \A p \in gone : device(p) = d
    OBVIOUS
  <2> HIDE DEF gone
  <2> QED
    BY <1>3, <1>4, <1>7, <1>8, <2>1
<1>11. \A p \in Press : p \in w.physical /\ device(p) = d => w.route[p] # "undecided"
  BY <1>8
<1> HIDE DEF r
<1> QED
  BY <1>1, <1>3, <1>7, <1>8, <1>9, <1>10, <1>11, Zenon

LEMMA NothingSilent ==
    ASSUME NEW o
    PROVE  <<>> \in Seq(Operation) /\ Silent(<<>>, o)
BY DEF Silent

(* Replacing the keys of d changes what only d wants.                      *)
LEMMA SnapshotFlow ==
    ASSUME NEW x, Sound(x), OneLife(x), NEW old, x.seq = NoCandidate, x.physical = old.physical,
           Referenced(x) \subseteq Referenced(old) \cup {NoPress},
           NEW d \in Device, NEW pressed \in SUBSET Code,
           \A c \in pressed : PressAt(old, d, c) = NoPress => FreeLives(old, d, c) # {},
           NEW keys, NEW names, Flow(x, keys, names, Owner \ {d})
    PROVE  Flow(Snapshot(x, old, d, pressed), keys, names, Owner \ {d})
<1> DEFINE y == Snapshot(x, old, d, pressed)
           Q == Owner \ {d}
<1>1. /\ Sound(y)
      /\ \E N \in SUBSET Press :
            /\ N \cap Referenced(old) = {}
            /\ Evolves(x, y, N)
            /\ \A p \in N : y.route[p] # "undecided"
  BY SnapshotKeeps
<1>2. /\ y.journal = x.journal /\ y.active = x.active
      /\ \A p \in Press : device(p) # d => (p \in y.physical <=> p \in x.physical)
  BY SnapshotOthers
<1> HIDE DEF y
<1>3. x \in Engines /\ y \in Engines
  BY <1>1 DEF Sound
<1>4. PICK N \in SUBSET Press : N \cap Referenced(old) = {} /\ Evolves(x, y, N)
  BY <1>1
<1>5. x.physical \subseteq Press /\ y.physical \subseteq Press
  BY <1>3 DEF Engines
<1>6. \A p \in Press : p \in Referenced(x) => p \notin N
  BY <1>4, PressFinite
<1>7. ASSUME NEW fate \in Fates, Agrees(y, fate)
      PROVE  \E was, s : FlowsBy(x, was, y, fate, s, Q, Q)
  <2> DEFINE was == Completed(x, fate)
  <2>1. /\ was \in Fates /\ Agrees(x, was)
        /\ \A p \in Press : p \in Referenced(y) /\ p \notin N => was[p] = fate[p]
    BY <1>3, <1>4, <1>7, FateBefore
  <2> HIDE DEF was
  <2>2. SameEvents(x, y) /\ JournalPresses(y) = JournalPresses(x)
    BY <1>2 DEF SameEvents, JournalPresses
  <2>3. \A p \in Press : p \in JournalPresses(x) => was[p] = fate[p]
    BY <1>6, <2>1, <2>2, ReferencedParts
  <2>4. Ops(y, fate) = Ops(x, was)
    BY <1>3, <2>2, <2>3, OpsSame
  <2>5. Extends(x, was, y, fate, <<>>)
    <3>1. Ops(x, was) \in Seq(Operation)
      BY <1>3, OpsType
    <3>2. Ops(x, was) \o <<>> = Ops(x, was)
      BY <3>1, ConcatEmpty
    <3> QED
      BY <2>4, <3>2 DEF Extends
  <2>6. ASSUME NEW o \in Q PROVE Follows(x, was, y, fate, <<>>, o)
    <3>1. o # d
      OBVIOUS
    <3>2. \A p \in Press : device(p) = o =>
            /\ p \in y.physical <=> p \in x.physical
            /\ p \in y.physical => was[p] = fate[p]
      BY <1>2, <1>6, <2>1, <3>1, ReferencedParts
    <3>3. \A c \in Code : Wanted(x, was, o, c) <=> Wanted(y, fate, o, c)
      BY <1>2, <1>5, <3>2 DEF Wanted
    <3>4. Live(x, o) => Live(y, o)
      BY <1>2 DEF Live
    <3> QED
      BY <1>3, <3>3, <3>4, NothingSilent, SilentFollows
  <2> HIDE DEF Q
  <2>7. FlowsBy(x, was, y, fate, <<>>, Q, Q)
    BY <2>1, <2>5, <2>6, NothingSilent DEF FlowsBy
  <2> QED
    BY <2>7, Zenon
<1> HIDE DEF Q
<1>8. Flow(x, keys, names, Q)
  BY DEF Q
<1>9. Flow(y, keys, names, Q)
  BY <1>3, <1>7, <1>8, FlowStep
<1> QED
  BY <1>9 DEF y, Q

(* The resynchronisation of d that ends the snapshot sets d's keys.        *)
LEMMA ResyncFlow ==
    ASSUME NEW x, Sound(x), NEW d \in Device,
           \A p \in Press : p \in x.physical /\ device(p) = d => x.route[p] # "undecided",
           NEW keys, NEW names, Flow(x, keys, names, Owner \ {d})
    PROVE  LET y == QueueOutput(x, ReconcileDevice(d, VisibleCodes(x, d))) IN
           Sound(y) /\ y.physical = x.physical /\ Flow(y, keys, names, Owner)
<1> DEFINE S == VisibleCodes(x, d)
           u == ReconcileDevice(d, S)
           y == QueueOutput(x, u)
<1>1. x \in Engines
  BY DEF Sound
<1>2. S \in SUBSET Code
  BY <1>1, VisibleCodesType
<1>3. d \in Owner
  BY DEF Owner
<1>4. S = {code(p) : p \in {q \in x.physical : device(q) = d /\ x.route[q] = "forwarded"}}
  BY DEF VisibleCodes
<1> HIDE DEF S
<1>5. /\ u \in Operation
      /\ \A o, c : u \in Pressing(o, c) <=> o = d /\ c \in S
      /\ \A o, c : u \in Releasing(o, c) <=> o = d /\ c \notin S
  BY <1>2, <1>3, ReconcileEffect
<1>6. u \in Output
  BY <1>2, <1>3 DEF Output, ReconcileDevice
<1>7. <<u>> \in Seq(Output) /\ <<u>> \in Seq(Operation) /\ y = QueueOutputs(x, <<u>>)
  BY <1>5, <1>6 DEF QueueOutput
<1>8. \A o : o # d => Silent(<<u>>, o)
  <2>1. \A o : o # d => ~Names(u, o)
    BY DEF Names, ReconcileDevice
  <2> HIDE DEF u
  <2> QED
    BY <2>1 DEF Silent
<1> HIDE DEF u, y
<1>9. Sound(y)
  BY <1>7, QueueOutputsKeeps
<1>10. y.physical = x.physical /\ y.active = x.active /\ y.route = x.route /\ y \in Engines
  BY <1>1, <1>7, <1>9, QueueOutputsFields DEF Sound
<1>11. ASSUME NEW fate \in Fates, Agrees(y, fate), NEW o \in Owner \ {d}
       PROVE  Follows(x, fate, y, fate, <<u>>, o)
  <2>1. Silent(<<u>>, o)
    BY <1>8
  <2>2. \A c \in Code : Wanted(x, fate, o, c) <=> Wanted(y, fate, o, c)
    BY <1>10 DEF Wanted
  <2>3. Live(x, o) => Live(y, o)
    BY <1>10 DEF Live
  <2> QED
    BY <1>1, <1>7, <1>10, <2>1, <2>2, <2>3, SilentFollows
<1>12. ASSUME NEW fate \in Fates, Agrees(y, fate) PROVE Resets(y, fate, <<u>>, d)
  <2>1. \A c \in Code : c \in S <=> Wanted(y, fate, d, c)
    <3> TAKE c \in Code
    <3>1. Wanted(y, fate, d, c)
            <=> \E p \in x.physical : device(p) = d /\ code(p) = c /\ fate[p] = "forwarded"
      BY <1>10, WantedDevice
    <3>2. x.physical \subseteq Press
      BY <1>1 DEF Engines
    <3>3. \A p \in x.physical : device(p) = d => fate[p] = x.route[p]
      BY <1>10, <1>12, <3>2 DEF Agrees
    <3> QED
      BY <1>4, <3>1, <3>3
  <2>2. ASSUME NEW c \in Code, NEW b \in BOOLEAN
        PROVE  After(b, <<u>>, Pressing(d, c), Releasing(d, c)) <=> Wanted(y, fate, d, c)
    <3> DEFINE P == Pressing(d, c)
               R == Releasing(d, c)
    <3>1. (u \in P <=> c \in S) /\ (u \in R <=> c \notin S)
      BY <1>5
    <3> HIDE DEF P, R
    <3>2. Sets(<<u>>, P, R) <=> u \in P
      BY DEF Sets
    <3>3. Keeps(<<u>>, R) <=> u \notin R
      BY DEF Keeps
    <3>4. After(b, <<u>>, P, R) <=> c \in S
      BY <3>1, <3>2, <3>3, Zenon DEF After
    <3>5. After(b, <<u>>, P, R) <=> Wanted(y, fate, d, c)
      BY <2>1, <3>4, Zenon
    <3> QED
      BY <3>5 DEF P, R
  <2>3. d \notin HoldDevice
    BY OwnerAssumption
  <2> QED
    BY <2>2, <2>3, Zenon DEF Resets
<1>13. Flow(y, keys, names, Owner)
  <2> DEFINE O == Owner \ {d}
  <2>1. \A o \in Owner : o \in O \/ o = d
    OBVIOUS
  <2>2. Flow(x, keys, names, O) /\ \A o \in O : o \in Owner \ {d}
    OBVIOUS
  <2> HIDE DEF O
  <2>3. \A fate \in Fates : Agrees(y, fate) =>
          \A o \in Owner : (o \in O /\ Follows(x, fate, y, fate, <<u>>, o))
                             \/ Resets(y, fate, <<u>>, o)
    BY <1>11, <1>12, <2>1, <2>2, Zenon
  <2>4. y.journal = QueueOutputs(x, <<u>>).journal
    BY <1>7
  <2> QED
    BY <1>1, <1>7, <1>10, <2>2, <2>3, <2>4, FlowQueue
<1> QED
  BY <1>9, <1>10, <1>13 DEF y, u, S

LEMMA ResyncRoutine ==
    ASSUME NEW x, x \in Engines, RecordsIn(x, GoodRecords), NEW o \in Output, NEW y \in Engines,
           y = QueueOutput(x, o)
    PROVE  RoutineJournal(y)
<1> DEFINE r == RecordOutput(o, NoDevice)
           R == {RecordOutput(q, NoDevice) : q \in ToSet(<<o>>)}
<1>1. y.journal = QueueOutputs(x, <<o>>).journal /\ <<o>> \in Seq(Output)
  BY DEF QueueOutput
<1>2. Inherits(x, y, R)
  BY <1>1, QueueInherits
<1>3. r \in Record /\ Routine(r)
  <2>1. OutputRecord(r, o)
    BY RecordOutputSays
  <2>2. Routine(r)
    BY DEF Routine, RecordOutput
  <2> QED
    BY <2>1, <2>2 DEF OutputRecord
<1>4. R \subseteq RoutineRecords
  <2>1. \A q \in ToSet(<<o>>) : q = o
    BY DEF ToSet
  <2>2. \A q \in R : q = r
    BY <2>1
  <2> HIDE DEF R, r
  <2> QED
    BY <1>3, <2>2 DEF RoutineRecords
<1>5. RecordsIn(x, RoutineRecords)
  BY DEF RecordsIn, GoodRecords, RoutineRecords
<1> HIDE DEF R
<1>6. RecordsIn(y, RoutineRecords)
  BY <1>2, <1>4, <1>5, RecordsKept
<1> QED
  BY <1>6, RoutineIs

LEMMA CancelledStays ==
    ASSUME NEW x, Sound(x), NEW d
    PROVE  \A a \in ToSet(Cancelled(x, d).active) :
              a \in ToSet(x.active) /\ \A p \in a.members : device(p) # d
<1> DEFINE f == Fail(x)
           w == Cancelled(x, d)
<1>1. f \in Engines /\ f.active = x.active /\ x \in Engines
  BY FailStep DEF MatcherStep, Sound
<1>2. CancelsTo(f, w, d)
  BY <1>1, CancelledParts, Zenon
<1> HIDE DEF f, w
<1>3. ToSet(w.active) = {a \in ToSet(f.active) : \A p \in a.members : device(p) # d}
  BY <1>1, <1>2, StaysIs
<1>4. \A a \in ToSet(w.active) : a \in ToSet(x.active) /\ \A p \in a.members : device(p) # d
  BY <1>1, <1>3
<1> QED
  BY <1>4 DEF w

LEMMA IdleJournal ==
    ASSUME EngineInv, ~frame.open, e.mode = "idle"
    PROVE  e.journal = <<>>
BY DEF EngineInv, JournalWaitsForCandidate, Matching

LEMMA IdleJournalNext ==
    ASSUME EngineInv', ~frame'.open, e'.mode = "idle"
    PROVE  e'.journal = <<>>
BY DEF EngineInv, JournalWaitsForCandidate, Matching

(* Reconcile: the cancelled journal, the stops and the new snapshot.       *)
LEMMA ReconcileBalanced ==
    ASSUME NEW d \in Device, NEW pressed \in SUBSET InputCode, EngineInv, HeldInv, EngineInv',
           Reconcile(d, pressed), NEW keys, NEW names,
           Balanced(e, AppliedKeys(keys, out), AppliedNames(names, out))
    PROVE  Balanced(e', AppliedKeys(keys, out'), AppliedNames(names, out'))
<1> DEFINE w == Cancelled(e, d)
           u == Drain(w)
           v == StopAll(u, EndedBy(e, d))
           x == Snapshot(v, e, d, pressed)
           y == QueueOutput(x, ReconcileDevice(d, VisibleCodes(x, d)))
           K0 == AppliedKeys(keys, out)
           M0 == AppliedNames(names, out)
           s == Drained(w)
           t == Drained(y)
           K1 == AppliedKeys(K0, s)
           M1 == AppliedNames(M0, s)
<1>1. Sound(e) /\ e \in Engines /\ out = <<>> /\ ~frame.open /\ Held(e)
  BY DEF EngineInv, HeldInv, Sound, Reconcile, Ready
<1>2. /\ e' = Drain(y) /\ out' = s \o t /\ frame' = frame
      /\ \A c \in pressed : PressAt(e, d, c) = NoPress => FreeLives(e, d, c) # {}
  BY DEF Reconcile
<1>3. pressed \in SUBSET Code
  BY DEF InputCode, KeyEvent
<1>4. Balanced(e, K0, M0)
  OBVIOUS
<1>5. e'.journal = <<>>
  BY <1>1, <1>2, IdleJournalNext, ReconcileMode
<1> HIDE DEF K0, M0
<1>6. /\ Sound(w) /\ Evolves(e, w, {}) /\ w.physical = e.physical /\ w.seq = NoCandidate
      /\ Flow(w, K0, M0, Others(e, d)) /\ OneLife(w) /\ RecordsIn(w, GoodRecords)
      /\ \A a \in ToSet(w.active) : a \in ToSet(e.active) /\ \A p \in a.members : device(p) # d
  BY <1>1, <1>4, CancelledKeeps, CancelledFlow, CancelledStays
<1>7. Others(e, d) \subseteq Owner
  BY DEF Others
<1> HIDE DEF w
<1>8. /\ Sound(u) /\ Evolves(w, u, {}) /\ u.physical = e.physical /\ u.seq = NoCandidate
      /\ u.active = w.active /\ u \in Engines
  BY <1>6, DrainKeeps, DrainFields DEF Sound, SameMatching
<1>9. Flow(u, K1, M1, Others(e, d))
  <2>1. RoutineJournal(w)
    BY <1>6, GoodRoutine DEF Sound
  <2> QED
    BY <1>6, <1>7, <2>1, FlowDrain
<1>10. RecordsIn(u, GoodRecords)
  BY <1>6, GoodDrain DEF Sound
<1> HIDE DEF u, K1, M1
<1>11. /\ Sound(v) /\ Evolves(u, v, {}) /\ v.physical = e.physical /\ v.seq = NoCandidate
       /\ v \in Engines
  BY <1>1, <1>8, EndedByType, StopAllKeeps DEF SameMatching, Sound
<1>12. Flow(v, K1, M1, Owner \ {d})
  BY <1>1, <1>6, <1>8, <1>9, StopEndedFlow
<1>13. RecordsIn(v, GoodRecords)
  <2>1. EndedBy(e, d) \in Seq(Activation)
    BY <1>1, EndedByType
  <2>2. /\ StopsOf(EndedBy(e, d)) \in Seq(ForeignOutput)
        /\ v = QueueOutputs(u, StopsOf(EndedBy(e, d)))
    BY <2>1, StopsOfType
  <2> HIDE DEF v
  <2> QED
    BY <1>8, <1>10, <2>2, GoodQueue
<1> HIDE DEF v
<1>14. Referenced(v) \subseteq Referenced(e) \cup {NoPress}
  <2>1. Evolves(e, v, {})
    BY <1>1, <1>6, <1>8, <1>11, EvolvesThen
  <2> QED
    BY <2>1 DEF Evolves
<1>15. OneLife(v)
  BY <1>6, <1>11 DEF OneLife
<1>16. Sound(x) /\ x \in Engines
  BY <1>2, <1>3, <1>11, <1>14, SnapshotKeeps DEF Sound
<1>17. Flow(x, K1, M1, Owner \ {d})
  BY <1>2, <1>3, <1>11, <1>12, <1>14, <1>15, SnapshotFlow
<1>18. /\ x.journal = v.journal /\ OneLife(x)
       /\ \A p \in Press : p \in x.physical /\ device(p) = d => x.route[p] # "undecided"
  BY <1>11, <1>15, SnapshotOthers
<1> HIDE DEF x
<1>19. RecordsIn(x, GoodRecords)
  BY <1>13, <1>18 DEF RecordsIn, HasRecord
<1>20. Sound(y) /\ y.physical = x.physical /\ Flow(y, K1, M1, Owner) /\ y \in Engines
  BY <1>16, <1>17, <1>18, ResyncFlow DEF Sound
<1>21. RoutineJournal(y)
  <2>1. VisibleCodes(x, d) \in SUBSET Code /\ d \in Owner
    BY <1>16, VisibleCodesType DEF Owner
  <2>2. ReconcileDevice(d, VisibleCodes(x, d)) \in Output
    BY <2>1 DEF Output, ReconcileDevice
  <2> QED
    BY <1>16, <1>19, <1>20, <2>2, ResyncRoutine
<1> HIDE DEF y
<1>22. Flow(Drain(y), AppliedKeys(K1, t), AppliedNames(M1, t), Owner)
  BY <1>20, <1>21, FlowDrain
<1>23. s \in Seq(Operation) /\ t \in Seq(Operation)
  <2>1. \A z : Sound(z) => Drained(z) \in Seq(Output)
    BY DrainedOutput
  <2>2. \A q \in Seq(Output) : q \in Seq(Operation)
    BY DEF Operation
  <2> QED
    BY <1>6, <1>20, <2>1, <2>2
<1> HIDE DEF s, t
<1>24. /\ AppliedKeys(K1, t) = AppliedKeys(keys, out')
       /\ AppliedNames(M1, t) = AppliedNames(names, out')
  <2>1. out \in Seq(Operation) /\ out \o s = s
    BY <1>1, <1>23, ConcatEmpty
  <2>2. AppliedKeys(keys, s) = K1 /\ AppliedNames(names, s) = M1
    <3>1. /\ AppliedKeys(keys, out \o s) = AppliedKeys(AppliedKeys(keys, out), s)
          /\ AppliedNames(names, out \o s) = AppliedNames(AppliedNames(names, out), s)
      BY <1>23, <2>1, AppliedConcat, Zenon
    <3>2. /\ AppliedKeys(keys, out \o s) = K1 /\ AppliedNames(names, out \o s) = M1
      BY <3>1, Zenon DEF K0, M0, K1, M1
    <3> QED
      BY <2>1, <3>2
  <2>3. /\ AppliedKeys(keys, s \o t) = AppliedKeys(AppliedKeys(keys, s), t)
        /\ AppliedNames(names, s \o t) = AppliedNames(AppliedNames(names, s), t)
    BY <1>23, AppliedConcat
  <2> QED
    BY <1>2, <2>2, <2>3
<1>25. OneLife(e')
  <2>1. Drain(y).physical = x.physical
    BY <1>20, DrainFields
  <2> QED
    BY <1>2, <1>18, <2>1 DEF OneLife
<1>26. RecordsIn(e', GoodRecords)
  BY <1>5 DEF RecordsIn, HasRecord
<1> QED
  BY <1>2, <1>22, <1>24, <1>25, <1>26 DEF Balanced

-----------------------------------------------------------------------------
(* Close: what is dropped and what is released                             *)

LEMMA SetToSeqOnto ==
    ASSUME NEW S, IsFiniteSet(S)
    PROVE  /\ SetToSeq(S) \in Seq(S)
           /\ \A a \in S : \E k \in DOMAIN SetToSeq(S) : SetToSeq(S)[k] = a
<1> DEFINE n == Cardinality(S)
           s == SetToSeq(S)
           T == {s[k] : k \in 1 .. n}
<1>1. n \in Nat /\ ExistsBijection(1 .. n, S)
  BY FS_CardinalityType
<1>2. \E f \in [1 .. n -> S] : IsInjective(f)
  BY <1>1 DEF ExistsBijection, Bijection, Injection
<1>3. s \in [1 .. n -> S] /\ IsInjective(s)
  BY <1>2 DEF SetToSeq
<1> HIDE DEF s, n
<1>4. s \in Seq(S)
  BY <1>1, <1>3
<1>5. T \in SUBSET S
  BY <1>3
<1>6. s \in Bijection(1 .. n, T)
  <2>1. s \in [1 .. n -> T]
    BY <1>3
  <2>2. \A a \in T : \E k \in 1 .. n : s[k] = a
    OBVIOUS
  <2>3. \A i, k \in 1 .. n : s[i] = s[k] => i = k
    BY <1>3 DEF IsInjective
  <2> HIDE DEF T
  <2> QED
    BY <2>1, <2>2, <2>3 DEF Bijection, Injection, Surjection, IsInjective
<1> HIDE DEF T
<1>7. IsFiniteSet(T) /\ Cardinality(T) = n
  <2>1. ExistsBijection(1 .. n, T)
    BY <1>6 DEF ExistsBijection
  <2>2. IsFiniteSet(T)
    BY <1>5, FS_Subset
  <2>3. Cardinality(T) = n
    BY <1>1, <2>1, FS_CountingElements
  <2> QED
    BY <2>2, <2>3
<1>8. T = S
  BY <1>5, <1>7, FS_Subset DEF n
<1>9. \A a \in S : \E k \in DOMAIN s : s[k] = a
  BY <1>3, <1>8 DEF T
<1> QED
  BY <1>4, <1>9 DEF s

(* What follows a list and clears under E.                                 *)
LEMMA AfterThen ==
    ASSUME NEW A, NEW s \in Seq(A), NEW t \in Seq(A), NEW P, NEW Q, NEW E \in BOOLEAN,
           \A b \in BOOLEAN : After(b, t, P, Q) <=> b /\ E
    PROVE  \A b \in BOOLEAN : After(b, s \o t, P, Q) <=> After(b, s, P, Q) /\ E
<1>1. /\ After(FALSE, t, P, Q) <=> FALSE /\ E
      /\ After(TRUE, t, P, Q) <=> TRUE /\ E
  OBVIOUS
<1>2. ~Sets(t, P, Q) /\ (Keeps(t, Q) <=> E)
  BY <1>1, Zenon DEF After
<1>3. Sets(s \o t, P, Q) <=> Sets(t, P, Q) \/ (Sets(s, P, Q) /\ Keeps(t, Q))
  BY SetsConcat, Zenon
<1>4. Keeps(s \o t, Q) <=> Keeps(s, Q) /\ Keeps(t, Q)
  BY KeepsConcat, Zenon
<1> QED
  BY <1>2, <1>3, <1>4, Zenon DEF After

(* The reconciliation with no key pressed, for each of the devices.        *)
ReleasesOf(devices) == [k \in DOMAIN devices |-> ReconcileDevice(devices[k], {})]

(* The releases reset the owners that are among the devices.               *)
Freeing(s, o) ==
    /\ \A c : \A b \in BOOLEAN :
          After(b, ReleasesOf(s), Pressing(o, c), Releasing(o, c))
            <=> b /\ \A i \in DOMAIN s : s[i] # o
    /\ \A b \in BOOLEAN :
          After(b, ReleasesOf(s), Entering(o), Leaving(o))
            <=> b /\ \A i \in DOMAIN s : s[i] # o

LEMMA ReleasesOfFree ==
    ASSUME NEW s \in Seq(Device), NEW o
    PROVE  /\ ReleasesOf(s) \in Seq(Output) /\ ReleasesOf(s) \in Seq(Operation)
           /\ Freeing(s, o)
<1> DEFINE t == ReleasesOf(s)
<1>1. \A k \in DOMAIN s : s[k] \in Device /\ s[k] \in Owner
  BY DEF Owner
<1>2. \A k \in DOMAIN s : ReconcileDevice(s[k], {}) \in Output
  BY <1>1 DEF Output, ReconcileDevice
<1>3. t \in Seq(Output)
  BY <1>2 DEF ReleasesOf
<1>4. DOMAIN t = DOMAIN s /\ \A k \in DOMAIN s : t[k] = ReconcileDevice(s[k], {})
  BY DEF ReleasesOf
<1>5. \A d \in Owner :
        /\ \A c : /\ ReconcileDevice(d, {}) \notin Pressing(o, c)
                  /\ ReconcileDevice(d, {}) \in Releasing(o, c) <=> o = d
        /\ ReconcileDevice(d, {}) \notin Entering(o)
        /\ ReconcileDevice(d, {}) \in Leaving(o) <=> o = d
  <2> TAKE d \in Owner
  <2> DEFINE u == ReconcileDevice(d, {})
  <2>1. {} \in SUBSET Code
    OBVIOUS
  <2>2. /\ \A q, c : u \in Pressing(q, c) <=> q = d /\ c \in {}
        /\ \A q, c : u \in Releasing(q, c) <=> q = d /\ c \notin {}
        /\ \A q : u \in Entering(q) <=> q = d /\ {} # {}
        /\ \A q : u \in Leaving(q) <=> q = d /\ {} = {}
    BY <2>1, ReconcileEffect
  <2> HIDE DEF u
  <2>3. /\ \A c : u \notin Pressing(o, c) /\ (u \in Releasing(o, c) <=> o = d)
        /\ u \notin Entering(o) /\ (u \in Leaving(o) <=> o = d)
    BY <2>2
  <2> QED
    BY <2>3 DEF u
<1> HIDE DEF t
<1>6. ASSUME NEW P, NEW Q,
             \A d \in Owner : ReconcileDevice(d, {}) \notin P /\ (ReconcileDevice(d, {}) \in Q <=> o = d)
      PROVE  \A b \in BOOLEAN : After(b, t, P, Q) <=> b /\ \A i \in DOMAIN s : s[i] # o
  <2>1. ~Sets(t, P, Q)
    BY <1>1, <1>4, <1>6 DEF Sets
  <2>2. Keeps(t, Q) <=> \A i \in DOMAIN s : s[i] # o
    BY <1>1, <1>4, <1>6 DEF Keeps
  <2> QED
    BY <2>1, <2>2, Zenon DEF After
<1>7. \A c : \A b \in BOOLEAN :
          After(b, t, Pressing(o, c), Releasing(o, c)) <=> b /\ \A i \in DOMAIN s : s[i] # o
  BY <1>5, <1>6, Zenon
<1>8. \A b \in BOOLEAN : After(b, t, Entering(o), Leaving(o)) <=> b /\ \A i \in DOMAIN s : s[i] # o
  BY <1>5, <1>6, Zenon
<1>9. Freeing(s, o)
  BY <1>7, <1>8, Zenon DEF Freeing, t
<1>10. t \in Seq(Operation)
  BY <1>3 DEF Operation
<1> QED
  BY <1>3, <1>9, <1>10 DEF t

(* What Close keeps of a frame.                                            *)
KeptRecords(f) == {r \in ToSet(f.events) : KeptByClose(r)}

(* g is f with every frame trimmed to what Close keeps.                    *)
Trims(f, g) ==
    /\ g.route = f.route
    /\ DOMAIN g.journal = DOMAIN f.journal
    /\ \A i \in DOMAIN f.journal : g.journal[i] = Thin(f.journal[i], KeptRecords(f.journal[i]))

(* The journal of y is that of g with s appended.                          *)
Says(g, s, y) == \A fate \in Fates : Ops(y, fate) = Ops(g, fate) \o s

(* y is what Close makes of g: everything released, nothing live.          *)
Closes(f, g, devices, y) ==
    /\ y.route = f.route /\ y.physical = {} /\ y.active = <<>>
    /\ devices \in Seq(Device)
    /\ \A p \in f.physical : \E k \in DOMAIN devices : devices[k] = device(p)
    /\ Says(g, StopsOf(f.active) \o ReleasesOf(devices), y)
    /\ RecordsIn(g, GoodRecords) => RoutineJournal(y)

(* Close trims the journal, then stops every remap and releases every      *)
(* keyboard.                                                               *)
LEMMA ClosingParts ==
    ASSUME NEW x, Sound(x)
    PROVE  \E g, devices : /\ Sound(g) /\ Trims(Fail(x), g)
                           /\ Closes(Fail(x), g, devices, Closing(x))
<1> DEFINE f == Fail(x)
           j == [i \in DOMAIN f.journal |->
                   [f.journal[i] EXCEPT !.events = Kept(@, {r \in ToSet(@) : KeptByClose(r)})]]
           g == [f EXCEPT !.journal = j]
           u == StopAll(g, f.active)
           w == [u EXCEPT !.active = <<>>]
           z == Release(w, w.physical)
           D == {device(p) : p \in f.physical}
           devices == SetToSeq(D)
           y == Releases(z, devices)
           s == StopsOf(f.active)
           t == ReleasesOf(devices)
<1>1. Sound(f) /\ f \in Engines
  BY FailKeeps DEF Sound
<1>2. Closing(x) = y
  BY DEF Closing
<1>3. \A i \in DOMAIN f.journal : j[i] = Thin(f.journal[i], KeptRecords(f.journal[i]))
  BY DEF Thin, KeptRecords
<1>4. DOMAIN j = DOMAIN f.journal /\ j = [i \in DOMAIN f.journal |-> j[i]]
  OBVIOUS
<1>5. \A p \in f.physical : device(p) \in D
  OBVIOUS
<1>6. devices \in Seq(Device) /\ \A a \in D : \E k \in DOMAIN devices : devices[k] = a
  <2>1. f.physical \subseteq Press
    BY <1>1 DEF Engines
  <2>2. D \subseteq Device
    <3> HIDE DEF f
    <3> QED
      BY <2>1, PressParts
  <2>3. IsFiniteSet(D)
    BY <2>2, OwnerAssumption, FS_Subset DEF Owner
  <2> HIDE DEF D
  <2>4. devices \in Seq(D) /\ \A a \in D : \E k \in DOMAIN devices : devices[k] = a
    BY <2>3, SetToSeqOnto
  <2> HIDE DEF devices
  <2> QED
    BY <2>2, <2>4
<1>7. f.active \in Seq(Activation)
  BY <1>1 DEF Engines
<1> HIDE DEF f, j, D, devices
<1>8. \A i \in DOMAIN f.journal : SomeEvents(f.journal[i], j[i])
  <2> TAKE i \in DOMAIN f.journal
  <2>1. j[i] = [f.journal[i] EXCEPT !.events = Kept(f.journal[i].events, KeptRecords(f.journal[i]))]
    BY <1>3 DEF Thin
  <2> QED
    BY <2>1 DEF SomeEvents
<1>9. Sound(g) /\ g.route = f.route /\ g.journal = j /\ g \in Engines
  BY <1>1, <1>4, <1>8, KeptEventsKeep DEF Sound
<1>10. Trims(f, g)
  BY <1>3, <1>4, <1>9 DEF Trims
<1> HIDE DEF g
<1>11. /\ s \in Seq(ForeignOutput) /\ s \in Seq(Output) /\ u = QueueOutputs(g, s)
       /\ s \in Seq(Operation)
  <2>1. s \in Seq(ForeignOutput) /\ s \in Seq(Output) /\ u = QueueOutputs(g, s)
    BY <1>7, StopsOfType
  <2>2. s \in Seq(Operation)
    BY <2>1 DEF Operation
  <2> QED
    BY <2>1, <2>2
<1> HIDE DEF s
<1>12. Sound(u) /\ u.route = g.route /\ u \in Engines
  BY <1>7, <1>9, StopAllKeeps DEF Sound
<1>13. \A fate : Ops(u, fate) = Ops(g, fate) \o s
  BY <1>9, <1>11, QueueOps
<1>14. RecordsIn(g, GoodRecords) => RecordsIn(u, GoodRecords)
  BY <1>9, <1>11, GoodQueue
<1> HIDE DEF u
<1>15. Sound(w) /\ w.route = u.route /\ w.journal = u.journal /\ w.active = <<>>
       /\ w \in Engines
  <2>1. <<>> \in Seq(Activation) /\ ToSet(<<>>) \subseteq ToSet(u.active)
    BY DEF ToSet
  <2>2. Sound(w) /\ w.route = u.route /\ w.journal = u.journal
    BY <1>12, <2>1, FewerActiveKeeps
  <2>3. w.active = <<>>
    BY <1>12 DEF Engines
  <2> QED
    BY <2>2, <2>3 DEF Sound
<1> HIDE DEF w
<1>16. /\ Sound(z) /\ z \in Engines /\ z.route = w.route /\ z.journal = w.journal
       /\ z.active = w.active /\ z.physical = {}
  <2>1. Counted(w) /\ w.physical \in SUBSET w.physical
    BY <1>15 DEF Sound
  <2>2. Sound(z)
    BY <1>15, <2>1, ReleaseKeeps
  <2>3. /\ z \in Engines /\ z.route = w.route /\ z.journal = w.journal
        /\ z.active = w.active /\ z.physical = w.physical \ w.physical
    BY <1>15, <2>1, ReleaseFields
  <2> QED
    BY <2>2, <2>3
<1> HIDE DEF z
<1>17. t \in Seq(Output) /\ t \in Seq(Operation) /\ y = QueueOutputs(z, t)
  <2>1. t \in Seq(Output) /\ t \in Seq(Operation)
    BY <1>6, ReleasesOfFree
  <2> QED
    BY <2>1 DEF Releases, ReleasesOf
<1> HIDE DEF t, y
<1>18. /\ y.physical = {} /\ y.active = <<>> /\ y.route = f.route /\ y \in Engines
       /\ Sound(y)
  BY <1>9, <1>12, <1>15, <1>16, <1>17, QueueOutputsFields, QueueOutputsKeeps DEF Sound
<1>19. \A fate : Ops(y, fate) = Ops(z, fate) \o t /\ Ops(z, fate) = Ops(u, fate)
  BY <1>15, <1>16, <1>17, QueueOps DEF Ops
<1>20. \A fate : Ops(y, fate) = Ops(g, fate) \o (s \o t)
  <2> TAKE fate
  <2>1. Ops(g, fate) \in Seq(Operation)
    BY <1>9, OpsType
  <2>2. (Ops(g, fate) \o s) \o t = Ops(g, fate) \o (s \o t)
    BY <1>11, <1>17, <2>1, ConcatAssociative
  <2> QED
    BY <1>13, <1>19, <2>2
<1>21. Says(g, s \o t, y)
  BY <1>20 DEF Says
<1>22. RecordsIn(g, GoodRecords) => RoutineJournal(y)
  <2> SUFFICES ASSUME RecordsIn(g, GoodRecords) PROVE RoutineJournal(y)
    OBVIOUS
  <2>1. RecordsIn(z, GoodRecords)
    BY <1>14, <1>15, <1>16 DEF RecordsIn, HasRecord
  <2> DEFINE R == {RecordOutput(o, NoDevice) : o \in ToSet(t)}
  <2>2. Inherits(z, y, R)
    BY <1>16, <1>17, QueueInherits
  <2>3. R \subseteq RoutineRecords
    <3>1. ASSUME NEW o \in ToSet(t) PROVE RecordOutput(o, NoDevice) \in RoutineRecords
      <4>1. o \in Output
        BY <1>17 DEF ToSet
      <4>2. OutputRecord(RecordOutput(o, NoDevice), o)
        BY <4>1, RecordOutputSays
      <4>3. Routine(RecordOutput(o, NoDevice))
        BY DEF Routine, RecordOutput
      <4> QED
        BY <4>2, <4>3 DEF OutputRecord, RoutineRecords
    <3> QED
      BY <3>1
  <2>4. RecordsIn(z, RoutineRecords)
    BY <2>1 DEF RecordsIn, GoodRecords, RoutineRecords
  <2> HIDE DEF R
  <2>5. RecordsIn(y, RoutineRecords)
    BY <2>2, <2>3, <2>4, RecordsKept
  <2> QED
    BY <1>18, <2>5, RoutineIs
<1>23. Closes(f, g, devices, y)
  BY <1>5, <1>6, <1>18, <1>21, <1>22 DEF Closes, s, t
<1>24. \E G, E : Sound(G) /\ Trims(f, G) /\ Closes(f, G, E, y)
  BY <1>9, <1>10, <1>23, Zenon
<1> QED
  BY <1>2, <1>24 DEF f

(* What Close drops from the journal releases nothing.                     *)
LEMMA DroppedByClose ==
    ASSUME NEW d \in Device \cup {NoDevice}, NEW r \in Record, ~KeptByClose(r), NEW fate
    PROVE  /\ \A o, c : Keeps(RecordOps(d, r, fate), Releasing(o, c))
           /\ \A o : Keeps(RecordOps(d, r, fate), Leaving(o))
<1>1. d \in Owner \cup {NoDevice}
  BY DEF Owner
<1>2. r.type # "output" /\ (r.type = "key" => r.event.value # 0)
  BY DEF KeptByClose
<1>3. r.type = "key" => r.event.code \in Code /\ r.event.value \in {0, 1, 2}
  BY RecordParts
<1>4. CASE RecordOps(d, r, fate) = <<>>
  BY <1>4 DEF Keeps
<1>5. CASE r.type = "key" /\ RecordOps(d, r, fate) = <<KeyOutput(d, r.event.code, r.event.value)>>
  <2> DEFINE u == KeyOutput(d, r.event.code, r.event.value)
  <2>1. /\ \A o, c : u \in Releasing(o, c) <=> o = d /\ c = r.event.code /\ r.event.value = 0
        /\ \A o : u \notin Leaving(o)
    BY <1>1, <1>3, <1>5, KeyEffect
  <2> HIDE DEF u
  <2>2. /\ \A o, c : u \notin Releasing(o, c)
        /\ \A o : u \notin Leaving(o)
    BY <1>2, <1>5, <2>1
  <2>3. RecordOps(d, r, fate) = <<u>>
    BY <1>5 DEF u
  <2> QED
    BY <2>2, <2>3 DEF Keeps
<1> QED
  BY <1>2, <1>4, <1>5 DEF RecordOps

LEMMA TrimGains ==
    ASSUME NEW f \in Engines, NEW g \in Engines, Trims(f, g), NEW fate, NEW o
    PROVE  /\ \A c : Gains(Ops(g, fate), Ops(f, fate), Pressing(o, c), Releasing(o, c))
           /\ Gains(Ops(g, fate), Ops(f, fate), Entering(o), Leaving(o))
<1>1. DOMAIN g.journal = DOMAIN f.journal
  BY DEF Trims
<1>2. ASSUME NEW P, NEW Q,
             \A d \in Device \cup {NoDevice} : \A r \in Record :
                ~KeptByClose(r) => Keeps(RecordOps(d, r, fate), Q)
      PROVE  Gains(Ops(g, fate), Ops(f, fate), P, Q)
  <2>1. ASSUME NEW i \in DOMAIN f.journal
        PROVE  Gains(FrameFn(fate)[g.journal[i]], FrameFn(fate)[f.journal[i]], P, Q)
    <3> DEFINE h == f.journal[i]
               T == KeptRecords(h)
    <3>1. h \in JournalFrames
      BY DEF Engines
    <3>2. h.events \in Seq(Record) /\ h.device \in Device \cup {NoDevice}
      BY <3>1, FrameParts
    <3>3. g.journal[i] = Thin(h, T)
      BY DEF Trims
    <3>4. ASSUME NEW k \in DOMAIN h.events, h.events[k] \notin T
          PROVE  Keeps(RecordOps(h.device, h.events[k], fate), Q)
      <4>1. h.events[k] \in Record /\ h.events[k] \in ToSet(h.events)
        BY <3>2 DEF ToSet
      <4>2. ~KeptByClose(h.events[k])
        BY <3>4, <4>1 DEF KeptRecords
      <4> HIDE DEF h
      <4> QED
        BY <1>2, <3>2, <4>1, <4>2, Zenon
    <3> HIDE DEF h, T
    <3>5. Gains(FrameFn(fate)[Thin(h, T)], FrameFn(fate)[h], P, Q)
      BY <3>1, <3>4, ThinGains, Zenon
    <3> QED
      BY <3>3, <3>5 DEF h
  <2> QED
    BY <1>1, <2>1, JournalGains, Zenon
<1>3. \A d \in Device \cup {NoDevice} : \A r \in Record : ~KeptByClose(r) =>
         /\ \A c : Keeps(RecordOps(d, r, fate), Releasing(o, c))
         /\ Keeps(RecordOps(d, r, fate), Leaving(o))
  BY DroppedByClose, Zenon
<1> QED
  BY <1>2, <1>3, Zenon

(* Close leaves nobody wanting anything, and its operations let go of all.  *)
LEMMA ClosingFlow ==
    ASSUME NEW f \in Engines, NEW g, Sound(g), Trims(f, g), NEW y, Sound(y), NEW devices,
           Closes(f, g, devices, y), NEW keys, NEW names, Flow(f, keys, names, Owner)
    PROVE  Flow(y, keys, names, Owner)
<1> DEFINE s == StopsOf(f.active)
           t == ReleasesOf(devices)
           clear(o) == (\A i \in DOMAIN f.active : f.active[i].owner # o)
           free(o) == (\A k \in DOMAIN devices : devices[k] # o)
<1>1. g \in Engines /\ y \in Engines /\ f.active \in Seq(Activation)
  BY DEF Sound, Engines
<1>2. /\ y.route = f.route /\ y.physical = {} /\ y.active = <<>>
      /\ devices \in Seq(Device) /\ Says(g, s \o t, y)
      /\ \A p \in f.physical : \E k \in DOMAIN devices : devices[k] = device(p)
  BY DEF Closes
<1>3. s \in Seq(Operation) /\ \A o : Clearing(f.active, o)
  <2>1. s \in Seq(Output)
    BY <1>1, StopsOfType
  <2>2. \A o : Clearing(f.active, o)
    BY <1>1, StopsOfClear
  <2> QED
    BY <2>1, <2>2 DEF Operation
<1>4. t \in Seq(Operation) /\ \A o : Freeing(devices, o)
  BY <1>2, ReleasesOfFree
<1>5. ASSUME NEW P, NEW Q, NEW o,
             \A b \in BOOLEAN : After(b, s, P, Q) <=> b /\ clear(o),
             \A b \in BOOLEAN : After(b, t, P, Q) <=> b /\ free(o)
      PROVE  \A b \in BOOLEAN : After(b, s \o t, P, Q) <=> b /\ (clear(o) /\ free(o))
  <2>1. free(o) \in BOOLEAN
    OBVIOUS
  <2>2. \A b \in BOOLEAN : After(b, s, P, Q) <=> b /\ clear(o)
    BY <1>5
  <2>3. \A b \in BOOLEAN : After(b, t, P, Q) <=> b /\ free(o)
    BY <1>5
  <2> HIDE DEF s, t, clear, free
  <2>4. \A b \in BOOLEAN : After(b, s \o t, P, Q) <=> After(b, s, P, Q) /\ free(o)
    BY <1>3, <1>4, <2>1, <2>3, AfterThen, Zenon
  <2> QED
    BY <2>2, <2>4, Zenon
<1>6. \A o, c : \A b \in BOOLEAN :
         After(b, s \o t, Pressing(o, c), Releasing(o, c)) <=> b /\ (clear(o) /\ free(o))
  <2> TAKE o, c
  <2>1. /\ \A b \in BOOLEAN : After(b, s, Pressing(o, c), Releasing(o, c)) <=> b /\ clear(o)
        /\ \A b \in BOOLEAN : After(b, t, Pressing(o, c), Releasing(o, c)) <=> b /\ free(o)
    BY <1>3, <1>4, Zenon DEF Clearing, Freeing
  <2> HIDE DEF s, t, clear, free
  <2> QED
    BY <1>5, <2>1, Zenon
<1>7. \A o : \A b \in BOOLEAN :
         After(b, s \o t, Entering(o), Leaving(o)) <=> b /\ (clear(o) /\ free(o))
  <2> TAKE o
  <2>1. /\ \A b \in BOOLEAN : After(b, s, Entering(o), Leaving(o)) <=> b /\ clear(o)
        /\ \A b \in BOOLEAN : After(b, t, Entering(o), Leaving(o)) <=> b /\ free(o)
    BY <1>3, <1>4, Zenon DEF Clearing, Freeing
  <2> HIDE DEF s, t, clear, free
  <2> QED
    BY <1>5, <2>1, Zenon
<1>8. \A o : (\E a \in ToSet(f.active) : a.owner = o) => ~clear(o)
  BY DEF ToSet
<1>9. \A p \in f.physical : ~free(device(p))
  BY <1>2
<1>10. s \o t \in Seq(Operation)
  BY <1>3, <1>4, ConcatType
<1> HIDE DEF clear, free
<1> DEFINE st == s \o t
<1>11. /\ st \in Seq(Operation) /\ Says(g, st, y)
       /\ \A o, c : \A b \in BOOLEAN :
             After(b, st, Pressing(o, c), Releasing(o, c)) <=> b /\ (clear(o) /\ free(o))
       /\ \A o : \A b \in BOOLEAN :
             After(b, st, Entering(o), Leaving(o)) <=> b /\ (clear(o) /\ free(o))
  BY <1>2, <1>6, <1>7, <1>10
<1> HIDE DEF st, s, t
<1>12. ASSUME NEW fate \in Fates, Agrees(y, fate), NEW o \in Owner
       PROVE  Fits(y, keys, names, fate, o)
  <2>1. Agrees(f, fate)
    BY <1>2, <1>12 DEF Agrees
  <2>2. Fits(f, keys, names, fate, o)
    BY <2>1 DEF Flow
  <2>3. /\ \A c : Gains(Ops(g, fate), Ops(f, fate), Pressing(o, c), Releasing(o, c))
        /\ Gains(Ops(g, fate), Ops(f, fate), Entering(o), Leaving(o))
    BY <1>1, TrimGains
  <2>4. Ops(g, fate) \in Seq(Operation) /\ Ops(y, fate) = Ops(g, fate) \o st
    BY <1>1, <1>11, OpsType DEF Says
  <2>5. clear(o) /\ free(o) => (\A c : ~Wanted(f, fate, o, c)) /\ ~Live(f, o)
    <3>1. clear(o) /\ free(o) => \A c : ~Wanted(f, fate, o, c)
      BY <1>8, <1>9 DEF Wanted
    <3>2. clear(o) => ~Live(f, o)
      BY <1>8, LiveIs
    <3> QED
      BY <3>1, <3>2
  <2>6. (\A c : ~Wanted(y, fate, o, c))
    BY <1>2 DEF Wanted, ToSet
  <2> DEFINE E == clear(o) /\ free(o)
  <2>7. E \in BOOLEAN
    BY DEF clear, free
  <2>8. /\ \A c : \A b \in BOOLEAN : After(b, st, Pressing(o, c), Releasing(o, c)) <=> b /\ E
        /\ \A b \in BOOLEAN : After(b, st, Entering(o), Leaving(o)) <=> b /\ E
    BY <1>11
  <2>9. E => (\A c : ~Wanted(f, fate, o, c)) /\ ~Live(f, o)
    BY <2>5
  <2> HIDE DEF E
  <2>10. KeyFits(y, keys, fate, o)
    <3> SUFFICES ASSUME NEW c \in Code
                 PROVE  After(c \in keys[o], Ops(y, fate), Pressing(o, c), Releasing(o, c))
                          <=> Wanted(y, fate, o, c)
      BY Zenon DEF KeyFits
    <3> DEFINE b == c \in keys[o]
    <3>1. b \in BOOLEAN
      OBVIOUS
    <3>2. After(b, Ops(f, fate), Pressing(o, c), Releasing(o, c)) <=> Wanted(f, fate, o, c)
      BY <2>2 DEF Fits, KeyFits
    <3> HIDE DEF b
    <3>3. After(b, Ops(g, fate), Pressing(o, c), Releasing(o, c)) => Wanted(f, fate, o, c)
      BY <2>3, <3>1, <3>2, Zenon DEF Gains
    <3>4. \A q \in BOOLEAN : After(q, st, Pressing(o, c), Releasing(o, c)) <=> q /\ E
      BY <2>8
    <3>5. \A q \in BOOLEAN :
            After(q, Ops(g, fate) \o st, Pressing(o, c), Releasing(o, c))
              <=> After(q, Ops(g, fate), Pressing(o, c), Releasing(o, c)) /\ E
      <4> DEFINE U == Pressing(o, c)
                 V == Releasing(o, c)
                 m == Ops(g, fate)
      <4>1. st \in Seq(Operation) /\ m \in Seq(Operation)
        BY <1>11, <2>4
      <4>2. \A q \in BOOLEAN : After(q, st, U, V) <=> q /\ E
        BY <3>4
      <4> HIDE DEF U, V, m
      <4>3. \A q \in BOOLEAN : After(q, m \o st, U, V) <=> After(q, m, U, V) /\ E
        BY <2>7, <4>1, <4>2, AfterThen
      <4> QED
        BY <4>3 DEF U, V, m
    <3>6. ~After(b, Ops(g, fate) \o st, Pressing(o, c), Releasing(o, c))
      BY <2>9, <3>1, <3>3, <3>5, Zenon
    <3>7. ~After(b, Ops(y, fate), Pressing(o, c), Releasing(o, c))
      BY <2>4, <3>6, Zenon
    <3> QED
      BY <2>6, <3>7, Zenon DEF b
  <2>11. NameFits(y, names, fate, o)
    <3> DEFINE b == o \in names
    <3>1. b \in BOOLEAN
      OBVIOUS
    <3>2. o \in HoldDevice /\ After(b, Ops(f, fate), Entering(o), Leaving(o)) => Live(f, o)
      BY <2>2 DEF Fits, NameFits
    <3> HIDE DEF b
    <3>3. o \in HoldDevice /\ After(b, Ops(g, fate), Entering(o), Leaving(o)) => Live(f, o)
      BY <2>3, <3>1, <3>2, Zenon DEF Gains
    <3>4. \A q \in BOOLEAN : After(q, st, Entering(o), Leaving(o)) <=> q /\ E
      BY <2>8
    <3>5. \A q \in BOOLEAN :
            After(q, Ops(g, fate) \o st, Entering(o), Leaving(o))
              <=> After(q, Ops(g, fate), Entering(o), Leaving(o)) /\ E
      <4> DEFINE U == Entering(o)
                 V == Leaving(o)
                 m == Ops(g, fate)
      <4>1. st \in Seq(Operation) /\ m \in Seq(Operation)
        BY <1>11, <2>4
      <4>2. \A q \in BOOLEAN : After(q, st, U, V) <=> q /\ E
        BY <3>4
      <4> HIDE DEF U, V, m
      <4>3. \A q \in BOOLEAN : After(q, m \o st, U, V) <=> After(q, m, U, V) /\ E
        BY <2>7, <4>1, <4>2, AfterThen
      <4> QED
        BY <4>3 DEF U, V, m
    <3>6. o \in HoldDevice => ~After(b, Ops(g, fate) \o st, Entering(o), Leaving(o))
      BY <2>9, <3>1, <3>3, <3>5, Zenon
    <3>7. o \in HoldDevice => ~After(b, Ops(y, fate), Entering(o), Leaving(o))
      BY <2>4, <3>6, Zenon
    <3> QED
      BY <3>7, Zenon DEF b, NameFits
  <2> QED
    BY <2>10, <2>11 DEF Fits
<1> QED
  BY <1>12, Zenon DEF Flow

(* Engine.Close.                                                           *)
LEMMA CloseBalanced ==
    ASSUME EngineInv, EngineInv', Close, NEW keys, NEW names,
           Balanced(e, AppliedKeys(keys, out), AppliedNames(names, out))
    PROVE  Balanced(e', AppliedKeys(keys, out'), AppliedNames(names, out'))
<1> DEFINE f == Fail(e)
           y == Closing(e)
           K0 == AppliedKeys(keys, out)
           M0 == AppliedNames(names, out)
           t == Drained(y)
<1>1. Sound(e) /\ out = <<>> /\ ~frame.open
  BY DEF EngineInv, Close, Ready
<1>2. e' = Drain(y) /\ out' = t /\ frame' = frame
  BY DEF Close
<1>3. e'.journal = <<>> /\ e'.physical = {}
  BY <1>1, <1>2, CloseMode, IdleJournalNext
<1>4. Balanced(e, K0, M0)
  OBVIOUS
<1> HIDE DEF K0, M0
<1>5. MatcherStep(e, f) /\ f \in Engines
  BY <1>1, FailStep DEF MatcherStep, Sound
<1>6. Balanced(f, K0, M0)
  BY <1>1, <1>4, <1>5, MatcherBalanced
<1>7. Sound(y)
  BY <1>1, ClosingKeeps
<1>8. \E g, devices : Sound(g) /\ Trims(f, g) /\ Closes(f, g, devices, y)
  BY <1>1, ClosingParts
<1> HIDE DEF f, y
<1>9. PICK g, devices : Sound(g) /\ Trims(f, g) /\ Closes(f, g, devices, y)
  BY <1>8
<1>10. Flow(f, K0, M0, Owner) /\ RecordsIn(f, GoodRecords)
  BY <1>6 DEF Balanced
<1>11. Flow(y, K0, M0, Owner)
  BY <1>5, <1>7, <1>9, <1>10, ClosingFlow
<1>12. RoutineJournal(y)
  <2>1. ASSUME NEW i \in DOMAIN f.journal PROVE SomeEvents(f.journal[i], g.journal[i])
    <3>1. g.journal[i] = Thin(f.journal[i], KeptRecords(f.journal[i]))
      BY <1>9 DEF Trims
    <3> QED
      BY <3>1 DEF Thin, SomeEvents
  <2>2. DOMAIN g.journal = DOMAIN f.journal
    BY <1>9 DEF Trims
  <2>3. Inherits(f, g, {})
    BY <1>5, <1>9, <2>1, <2>2, SomeInherits DEF Sound
  <2>4. RecordsIn(g, GoodRecords)
    BY <1>10, <2>3, Zenon DEF Inherits, RecordsIn
  <2> QED
    BY <1>9, <2>4 DEF Closes
<1>13. Flow(Drain(y), AppliedKeys(K0, t), AppliedNames(M0, t), Owner)
  BY <1>7, <1>11, <1>12, FlowDrain
<1>14. t \in Seq(Operation)
  <2>1. t \in Seq(Output)
    BY <1>7, DrainedOutput
  <2> QED
    BY <2>1 DEF Operation
<1> HIDE DEF t
<1>15. AppliedKeys(K0, t) = AppliedKeys(keys, out') /\ AppliedNames(M0, t) = AppliedNames(names, out')
  <2>1. out \in Seq(Operation) /\ out \o t = t
    BY <1>1, <1>14, ConcatEmpty
  <2>2. /\ AppliedKeys(keys, out \o t) = AppliedKeys(K0, t)
        /\ AppliedNames(names, out \o t) = AppliedNames(M0, t)
    BY <1>14, <2>1, AppliedConcat, Zenon DEF K0, M0
  <2> QED
    BY <1>2, <2>1, <2>2
<1>16. OneLife(e') /\ RecordsIn(e', GoodRecords)
  BY <1>3 DEF OneLife, RecordsIn, HasRecord
<1> QED
  BY <1>2, <1>13, <1>15, <1>16 DEF Balanced

(* The forwarder does with one operation what it says.                     *)
LEMMA AppliedOne ==
    ASSUME NEW keys, NEW names, NEW u
    PROVE  /\ \A o \in Owner, c \in Code :
                c \in AppliedKeys(keys, <<u>>)[o]
                  <=> u \in Pressing(o, c) \/ (c \in keys[o] /\ u \notin Releasing(o, c))
           /\ \A o \in Owner :
                o \in AppliedNames(names, <<u>>)
                  <=> u \in Entering(o) \/ (o \in names /\ u \notin Leaving(o))
<1>1. \A P, R : (Sets(<<u>>, P, R) <=> u \in P) /\ (Keeps(<<u>>, R) <=> u \notin R)
  BY DEF Sets, Keeps
<1>2. ASSUME NEW o \in Owner, NEW c \in Code
      PROVE  c \in AppliedKeys(keys, <<u>>)[o]
               <=> u \in Pressing(o, c) \/ (c \in keys[o] /\ u \notin Releasing(o, c))
  <2>1. c \in AppliedKeys(keys, <<u>>)[o]
          <=> After(c \in keys[o], <<u>>, Pressing(o, c), Releasing(o, c))
    BY DEF AppliedKeys
  <2>2. After(c \in keys[o], <<u>>, Pressing(o, c), Releasing(o, c))
          <=> u \in Pressing(o, c) \/ (c \in keys[o] /\ u \notin Releasing(o, c))
    BY <1>1, Zenon DEF After
  <2> QED
    BY <2>1, <2>2, Zenon
<1>3. ASSUME NEW o \in Owner
      PROVE  o \in AppliedNames(names, <<u>>)
               <=> u \in Entering(o) \/ (o \in names /\ u \notin Leaving(o))
  <2>1. o \in AppliedNames(names, <<u>>) <=> After(o \in names, <<u>>, Entering(o), Leaving(o))
    BY DEF AppliedNames
  <2>2. After(o \in names, <<u>>, Entering(o), Leaving(o))
          <=> u \in Entering(o) \/ (o \in names /\ u \notin Leaving(o))
    BY <1>1, Zenon DEF After
  <2> QED
    BY <2>1, <2>2, Zenon
<1> QED
  BY <1>2, <1>3, Zenon

(* u changes the forwarder's maps keys and names into after and left.      *)
Does(u, keys, names, after, left) ==
    /\ \A o \in Owner, c \in Code :
          c \in after[o] <=> u \in Pressing(o, c) \/ (c \in keys[o] /\ u \notin Releasing(o, c))
    /\ \A o \in Owner : o \in left <=> u \in Entering(o) \/ (o \in names /\ u \notin Leaving(o))

LEMMA DoesOne ==
    ASSUME NEW u, NEW keys, NEW names, NEW after \in [Owner -> SUBSET Code],
           NEW left \in SUBSET Owner, Does(u, keys, names, after, left)
    PROVE  AppliedKeys(keys, <<u>>) = after /\ AppliedNames(names, <<u>>) = left
<1>1. AppliedKeys(keys, <<u>>) \in [Owner -> SUBSET Code] /\ AppliedNames(names, <<u>>) \in SUBSET Owner
  BY DEF AppliedKeys, AppliedNames
<1> DEFINE A == AppliedKeys(keys, <<u>>)
           B == AppliedNames(names, <<u>>)
<1>2. /\ \A o \in Owner, c \in Code : c \in A[o] <=> c \in after[o]
      /\ \A o \in Owner : o \in B <=> o \in left
  BY AppliedOne, Zenon DEF Does
<1> HIDE DEF A, B
<1>3. A = after
  <2>1. A \in [Owner -> SUBSET Code]
    BY <1>1 DEF A
  <2>2. \A o \in Owner : A[o] = after[o]
    BY <1>2, <2>1
  <2> QED
    BY <2>1, <2>2
<1>4. B = left
  BY <1>1, <1>2 DEF B
<1> QED
  BY <1>3, <1>4 DEF A, B

(* Each call of the forwarder does what its operation says.                *)
LEMMA ForwardKeyDoes ==
    ASSUME ForwarderTypeOK, NEW o \in Owner, NEW c \in Code, NEW value \in {0, 1, 2},
           ForwardKey(o, c, value)
    PROVE  Does(KeyOutput(o, c, value), down, entries, down', entries')
<1> DEFINE u == KeyOutput(o, c, value)
<1>1. /\ \A q, k : u \in Pressing(q, k) <=> q = o /\ k = c /\ value = 1
      /\ \A q, k : u \in Releasing(q, k) <=> q = o /\ k = c /\ value = 0
      /\ \A q : u \in Entering(q) <=> q = o
      /\ \A q : u \notin Leaving(q)
  BY KeyEffect
<1>2. /\ down' = [down EXCEPT ![o] = (@ \ (IF value = 0 THEN {c} ELSE {}))
                                        \cup (IF value = 1 THEN {c} ELSE {})]
      /\ entries' = entries \cup {o}
  BY DEF ForwardKey, KeyEvents
<1>3. down \in [Owner -> SUBSET Code]
  BY DEF ForwarderTypeOK
<1> HIDE DEF u
<1>4. \A q \in Owner, k \in Code :
         k \in down'[q] <=> u \in Pressing(q, k) \/ (k \in down[q] /\ u \notin Releasing(q, k))
  BY <1>1, <1>2, <1>3
<1>5. \A q \in Owner : q \in entries' <=> u \in Entering(q) \/ (q \in entries /\ u \notin Leaving(q))
  BY <1>1, <1>2
<1> QED
  BY <1>4, <1>5 DEF Does, u

LEMMA ForwardOtherDoes ==
    ASSUME NEW o \in Owner, NEW type \in {"msc", "led"}, ForwardOther(o)
    PROVE  Does(EventOutput(o, type), down, entries, down', entries')
<1> DEFINE u == EventOutput(o, type)
<1>1. /\ \A q, k : u \notin Pressing(q, k)
      /\ \A q, k : u \notin Releasing(q, k)
      /\ \A q : u \in Entering(q) <=> q = o
      /\ \A q : u \notin Leaving(q)
  BY OtherEffect
<1>2. down' = down /\ entries' = entries \cup {o}
  BY DEF ForwardOther
<1> HIDE DEF u
<1> QED
  BY <1>1, <1>2 DEF Does, u

LEMMA ResyncDoes ==
    ASSUME ForwarderTypeOK, NEW o \in Owner, NEW actual \in SUBSET Code, Resync(o, actual)
    PROVE  Does(ReconcileDevice(o, actual), down, entries, down', entries')
<1> DEFINE u == ReconcileDevice(o, actual)
<1>1. /\ \A q, k : u \in Pressing(q, k) <=> q = o /\ k \in actual
      /\ \A q, k : u \in Releasing(q, k) <=> q = o /\ k \notin actual
      /\ \A q : u \in Entering(q) <=> q = o /\ actual # {}
      /\ \A q : u \in Leaving(q) <=> q = o /\ actual = {}
  BY ReconcileEffect
<1>2. /\ down' = [down EXCEPT ![o] = (@ \ (down[o] \ actual)) \cup (actual \ down[o])]
      /\ entries' = IF actual = {} THEN entries \ {o} ELSE entries \cup {o}
  BY DEF Resync, KeyEvents
<1>3. down \in [Owner -> SUBSET Code]
  BY DEF ForwarderTypeOK
<1> HIDE DEF u
<1>4. \A q \in Owner, k \in Code :
         k \in down'[q] <=> u \in Pressing(q, k) \/ (k \in down[q] /\ u \notin Releasing(q, k))
  BY <1>1, <1>2, <1>3
<1>5. \A q \in Owner : q \in entries' <=> u \in Entering(q) \/ (q \in entries /\ u \notin Leaving(q))
  BY <1>1, <1>2
<1> QED
  BY <1>4, <1>5 DEF Does, u

-----------------------------------------------------------------------------
(* The main loop applies the operations                                    *)

(* What the forwarder's maps will be with the operations of out applied is  *)
(* what the engine wants.                                                  *)
FlowInv == Balanced(e, AppliedKeys(down, out), AppliedNames(entries, out))

LEMMA OutputIs ==
    ASSUME NEW o \in Output
    PROVE  /\ o.kind \in {"key", "msc", "led", "reconcile", "action"}
           /\ o.kind = "key" => /\ o.owner \in Owner /\ o.code \in Code /\ o.value \in {0, 1, 2}
                                /\ o = KeyOutput(o.owner, o.code, o.value)
           /\ o.kind \in {"msc", "led"} => o.owner \in Owner /\ o = EventOutput(o.owner, o.kind)
           /\ o.kind = "reconcile" => /\ o.owner \in Owner /\ o.pressed \in SUBSET Code
                                      /\ o = ReconcileDevice(o.owner, o.pressed)
           /\ o.kind = "action" => o.action \in Action /\ o = EmitAction(o.action)
<1>1. CASE o \in [kind : {"key"}, owner : Owner, code : Code, value : {0, 1, 2}]
  BY <1>1 DEF KeyOutput
<1>2. CASE o \in [kind : {"msc", "led"}, owner : Owner]
  BY <1>2 DEF EventOutput
<1>3. CASE o \in [kind : {"reconcile"}, owner : Owner, pressed : SUBSET Code]
  BY <1>3 DEF ReconcileDevice
<1>4. CASE o \in [kind : {"action"}, action : Action]
  BY <1>4 DEF EmitAction
<1> QED
  BY <1>1, <1>2, <1>3, <1>4 DEF Output

(* apply does one operation, whatever it is.                               *)
LEMMA ApplyDoes ==
    ASSUME ForwarderTypeOK, out \in Seq(Output), ApplyOutput
    PROVE  Does(Head(out), down, entries, down', entries')
<1> DEFINE o == Head(out)
<1>1. o \in Output
  BY DEF ApplyOutput, Apply
<1>2. /\ o.kind \in {"key", "msc", "led", "reconcile", "action"}
      /\ o.kind = "key" => /\ o.owner \in Owner /\ o.code \in Code /\ o.value \in {0, 1, 2}
                           /\ o = KeyOutput(o.owner, o.code, o.value)
      /\ o.kind \in {"msc", "led"} => o.owner \in Owner /\ o = EventOutput(o.owner, o.kind)
      /\ o.kind = "reconcile" => /\ o.owner \in Owner /\ o.pressed \in SUBSET Code
                                 /\ o = ReconcileDevice(o.owner, o.pressed)
      /\ o.kind = "action" => o.action \in Action /\ o = EmitAction(o.action)
  BY <1>1, OutputIs
<1>3. \/ o.kind = "key" /\ ForwardKey(o.owner, o.code, o.value)
      \/ o.kind \in {"msc", "led"} /\ ForwardOther(o.owner)
      \/ o.kind = "reconcile" /\ Resync(o.owner, o.pressed)
      \/ o.kind = "action" /\ UNCHANGED forwarderVars
  BY Zenon DEF ApplyOutput
<1> HIDE DEF o
<1>4. CASE o.kind = "key" /\ ForwardKey(o.owner, o.code, o.value)
  <2>1. Does(KeyOutput(o.owner, o.code, o.value), down, entries, down', entries')
    BY <1>2, <1>4, ForwardKeyDoes
  <2> QED
    BY <1>2, <1>4, <2>1 DEF o
<1>5. CASE o.kind \in {"msc", "led"} /\ ForwardOther(o.owner)
  <2>1. Does(EventOutput(o.owner, o.kind), down, entries, down', entries')
    BY <1>2, <1>5, ForwardOtherDoes
  <2> QED
    BY <1>2, <1>5, <2>1 DEF o
<1>6. CASE o.kind = "reconcile" /\ Resync(o.owner, o.pressed)
  <2>1. Does(ReconcileDevice(o.owner, o.pressed), down, entries, down', entries')
    BY <1>2, <1>6, ResyncDoes
  <2> QED
    BY <1>2, <1>6, <2>1 DEF o
<1>7. CASE o.kind = "action" /\ UNCHANGED forwarderVars
  <2>1. o \in Operation /\ \A q : ~Names(o, q)
    BY <1>2, <1>7, ActionEffect
  <2>2. \A q : /\ \A c : o \notin Pressing(q, c) /\ o \notin Releasing(q, c)
               /\ o \notin Entering(q) /\ o \notin Leaving(q)
    BY <2>1, NoNames
  <2>3. down' = down /\ entries' = entries
    BY <1>7 DEF forwarderVars
  <2>4. Does(o, down, entries, down', entries')
    BY <2>2, <2>3, Zenon DEF Does
  <2> QED
    BY <2>4 DEF o
<1> QED
  BY <1>3, <1>4, <1>5, <1>6, <1>7

(* Every step of the main loop is one of the forwarder or none.            *)
LEMMA ForwarderSteps ==
    ASSUME out \in Seq(Output), [BrokerNext]_brokerVars
    PROVE  [ForwarderNext]_forwarderVars
<1>1. CASE ApplyOutput
  <2> DEFINE o == Head(out)
  <2>1. o \in Output
    BY <1>1 DEF ApplyOutput, Apply
  <2>2. /\ o.kind = "key" => o.owner \in Owner /\ o.code \in Code /\ o.value \in {0, 1, 2}
        /\ o.kind \in {"msc", "led"} => o.owner \in Owner
        /\ o.kind = "reconcile" => o.owner \in Owner /\ o.pressed \in SUBSET Code
    BY <2>1, OutputIs
  <2>3. \/ o.kind = "key" /\ ForwardKey(o.owner, o.code, o.value)
        \/ o.kind \in {"msc", "led"} /\ ForwardOther(o.owner)
        \/ o.kind = "reconcile" /\ Resync(o.owner, o.pressed)
        \/ o.kind = "action" /\ UNCHANGED forwarderVars
    BY <1>1, Zenon DEF ApplyOutput
  <2> HIDE DEF o
  <2> QED
    BY <2>2, <2>3, Zenon DEF ForwarderNext
<1>2. CASE Exit \/ WriteError \/ FatalError
  <2>1. DestroyVirtual
    BY <1>2 DEF Exit, WriteError, FatalError, Return
  <2> QED
    BY <2>1 DEF ForwarderNext
<1>3. CASE ServeFrame \/ ServeTimer \/ ServeSnapshot \/ Shutdown \/ Restart \/ UNCHANGED brokerVars
  <2>1. UNCHANGED forwarderVars
    BY <1>3 DEF ServeFrame, ServeTimer, ServeSnapshot, Shutdown, Restart, Serving, brokerVars,
                forwarderVars
  <2> QED
    BY <2>1
<1> QED
  BY <1>1, <1>2, <1>3 DEF BrokerNext

(* Every step of the main loop is one of the engine, none, or the end of    *)
(* the process.                                                            *)
LEMMA EngineSteps ==
    ASSUME [BrokerNext]_brokerVars
    PROVE  [EngineNext]_engineVars \/ Return
<1>1. CASE ServeFrame
  BY <1>1 DEF ServeFrame, EngineNext, Input
<1>2. CASE ServeTimer
  BY <1>2 DEF ServeTimer, EngineNext
<1>3. CASE ServeSnapshot
  BY <1>3 DEF ServeSnapshot, EngineNext
<1>4. CASE Shutdown
  BY <1>4 DEF Shutdown, EngineNext
<1>5. CASE ApplyOutput
  BY <1>5 DEF ApplyOutput, EngineNext
<1>6. CASE Exit \/ WriteError \/ FatalError
  BY <1>6 DEF Exit, WriteError, FatalError
<1>7. CASE Restart \/ UNCHANGED brokerVars
  BY <1>7 DEF Restart, brokerVars, engineVars
<1> QED
  BY <1>1, <1>2, <1>3, <1>4, <1>5, <1>6, <1>7 DEF BrokerNext

(* Before the first event the engine wants nothing.                        *)
LEMMA InitialBalanced ==
    ASSUME NEW x \in Engines, x.physical = {}, x.active = <<>>, x.journal = <<>>
    PROVE  Balanced(x, [o \in Owner |-> {}], {})
<1>1. \A fate : Ops(x, fate) = <<>>
  BY MappedEmpty DEF Ops
<1>2. ASSUME NEW fate \in Fates, NEW o \in Owner
      PROVE  Fits(x, [q \in Owner |-> {}], {}, fate, o)
  <2>1. \A P, Q : ~After(FALSE, Ops(x, fate), P, Q)
    BY <1>1, SaysNothing, Zenon DEF After
  <2>2. \A c : ~Wanted(x, fate, o, c)
    BY DEF Wanted, ToSet
  <2>3. \A c : (c \in [q \in Owner |-> {}][o]) = FALSE
    OBVIOUS
  <2>4. (o \in {}) = FALSE
    OBVIOUS
  <2> QED
    BY <2>1, <2>2, <2>3, <2>4 DEF Fits, KeyFits, NameFits
<1>3. Flow(x, [o \in Owner |-> {}], {}, Owner)
  BY <1>2, Zenon DEF Flow
<1>4. OneLife(x) /\ RecordsIn(x, GoodRecords)
  BY DEF OneLife, RecordsIn, HasRecord
<1> QED
  BY <1>3, <1>4, Zenon DEF Balanced

-----------------------------------------------------------------------------
(* The invariant of the main loop                                          *)

(* Once shutdown began the engine has let go of everything.                *)
Shut ==
    status # "running" =>
        ~frame.open /\ e.journal = <<>> /\ e.physical = {} /\ e.active = <<>>

(* The inductive invariant of the main loop.                               *)
BrokerInv == EngineInv /\ HeldInv /\ Chat /\ Cand /\ FlowInv /\ ForwarderInv /\ Shut

LEMMA ChatCandInit == EngineInit => Chat /\ Cand
<1>1. EngineInit => ~frame.open /\ e.mode = "idle"
  BY DEF EngineInit, NoFrame, InitialEngine
<1>2. ~frame.open /\ e.mode = "idle" => Chat /\ Cand
  BY DEF Chat, Cand, Matching
<1> QED
  BY <1>1, <1>2

(* Before the first event nothing is wanted and nothing held.              *)
LEMMA FlowInit == EngineInit /\ ForwarderInit => FlowInv
<1> SUFFICES ASSUME EngineInit, ForwarderInit PROVE FlowInv
  OBVIOUS
<1>1. e \in Engines /\ e.physical = {} /\ e.active = <<>> /\ e.journal = <<>> /\ out = <<>>
  BY InvInit DEF EngineInit, EngineInv, Sound, InitialEngine
<1>2. Balanced(e, [o \in Owner |-> {}], {})
  BY <1>1, InitialBalanced
<1>3. AppliedKeys(down, out) = [o \in Owner |-> {}] /\ AppliedNames(entries, out) = {}
  <2>1. down = [o \in Owner |-> {}] /\ entries = {}
    BY DEF ForwarderInit
  <2>2. down \in [Owner -> SUBSET Code] /\ entries \in SUBSET Owner
    BY <2>1
  <2> QED
    BY <1>1, <2>1, <2>2, AppliedNothing
<1> QED
  BY <1>2, <1>3 DEF FlowInv

LEMMA BrokerInvInit == BrokerInit => BrokerInv
<1> SUFFICES ASSUME BrokerInit PROVE BrokerInv
  OBVIOUS
<1>1. EngineInit /\ ForwarderInit /\ status = "running"
  BY DEF BrokerInit
<1>2. EngineInv /\ HeldInv /\ Chat /\ Cand /\ ForwarderInv
  BY <1>1, InvInit, HeldInit, ChatCandInit, ForwarderInvInit
<1>3. FlowInv
  BY <1>1, FlowInit
<1> QED
  BY <1>1, <1>2, <1>3 DEF BrokerInv, Shut

(* The engine of a new process.                                            *)
LEMMA FreshStart ==
    ASSUME EngineInit'
    PROVE  EngineInv' /\ HeldInv' /\ Chat' /\ Cand'
  BY InvInit, HeldInit, ChatCandInit, PTL

LEMMA FreshFlow ==
    ASSUME EngineInit', ForwarderInit'
    PROVE  FlowInv'
  BY FlowInit, PTL

(* The engine's invariants hold of the engine inside the main loop.        *)
LEMMA EngineKept ==
    ASSUME EngineInv, HeldInv, Chat, Cand, [BrokerNext]_brokerVars
    PROVE  EngineInv' /\ HeldInv' /\ Chat' /\ Cand'
<1>1. CASE [EngineNext]_engineVars
  BY <1>1, InvNext, HeldNext, ChatNext, CandNext
<1>2. CASE Return
  <2>1. EngineInit'
    BY <1>2 DEF Return, EngineInit
  <2> QED
    BY <2>1, FreshStart
<1> QED
  BY <1>1, <1>2, EngineSteps

(* The operations that wait go down by the one that apply did.             *)
LEMMA ApplyFlow ==
    ASSUME ForwarderTypeOK, ForwarderTypeOK', out \in Seq(Output), FlowInv, ApplyOutput
    PROVE  FlowInv'
<1> DEFINE u == Head(out)
           t == Tail(out)
<1>1. out # <<>> /\ out' = t /\ e' = e
  BY DEF ApplyOutput, Apply
<1>2. out = <<u>> \o t /\ u \in Output /\ t \in Seq(Output)
  BY <1>1, HeadTail
<1>3. <<u>> \in Seq(Operation) /\ t \in Seq(Operation)
  BY <1>2 DEF Operation
<1>4. Does(u, down, entries, down', entries')
  BY ApplyDoes
<1> HIDE DEF u, t
<1>5. AppliedKeys(down, <<u>>) = down' /\ AppliedNames(entries, <<u>>) = entries'
  BY <1>4, DoesOne DEF ForwarderTypeOK
<1>6. /\ AppliedKeys(down, out) = AppliedKeys(AppliedKeys(down, <<u>>), t)
      /\ AppliedNames(entries, out) = AppliedNames(AppliedNames(entries, <<u>>), t)
  BY <1>2, <1>3, AppliedConcat
<1>7. /\ AppliedKeys(down, out) = AppliedKeys(down', out')
      /\ AppliedNames(entries, out) = AppliedNames(entries', out')
  BY <1>1, <1>5, <1>6
<1>8. Balanced(e, AppliedKeys(down', out'), AppliedNames(entries', out'))
  BY <1>7 DEF FlowInv
<1> QED
  BY <1>1, <1>8 DEF FlowInv

(* Every step of the main loop keeps the agreement.                        *)
LEMMA FlowKept ==
    ASSUME EngineInv, EngineInv', HeldInv, Chat, ForwarderTypeOK, ForwarderTypeOK', FlowInv,
           [BrokerNext]_brokerVars
    PROVE  FlowInv'
<1> DEFINE Fit(x, s) == Balanced(x, AppliedKeys(down, s), AppliedNames(entries, s))
<1>1. Fit(e, out)
  BY DEF FlowInv
<1>2. down' = down /\ entries' = entries /\ Fit(e', out') => FlowInv'
  BY DEF FlowInv
<1>3. CASE ServeFrame
  <2>1. down' = down /\ entries' = entries
    BY <1>3 DEF ServeFrame, Serving, forwarderVars
  <2>2. ASSUME NEW d \in Device, NEW late \in BOOLEAN, BeginFrame(d, late)
        PROVE  Fit(e', out')
    BY <1>1, <2>2, BeginFrameBalanced
  <2>3. ASSUME NEW event \in InputEvent, HandleEvent(event)
        PROVE  Fit(e', out')
    <3>1. out' = out
      BY <2>3 DEF HandleEvent
    <3>2. Balanced(e', AppliedKeys(down, out), AppliedNames(entries, out))
      BY <1>1, <2>3, HandleEventBalanced
    <3> QED
      BY <3>1, <3>2
  <2>4. ASSUME AdvanceStep PROVE Fit(e', out')
    <3>1. out' = out
      BY <2>4 DEF AdvanceStep
    <3>2. Balanced(e', AppliedKeys(down, out), AppliedNames(entries, out))
      BY <1>1, <2>4, AdvanceStepBalanced
    <3> QED
      BY <3>1, <3>2
  <2>5. ASSUME EndFrame PROVE Fit(e', out')
    BY <1>1, <2>5, EndFrameBalanced
  <2> HIDE DEF Fit
  <2>6. Fit(e', out')
    BY <1>3, <2>2, <2>3, <2>4, <2>5 DEF ServeFrame
  <2> QED
    BY <1>2, <2>1, <2>6
<1>4. CASE ServeTimer
  <2>1. down' = down /\ entries' = entries /\ Timeout
    BY <1>4 DEF ServeTimer, Serving, forwarderVars
  <2> QED
    BY <1>1, <1>2, <2>1, TimeoutBalanced
<1>5. CASE ServeSnapshot
  <2>1. down' = down /\ entries' = entries
    BY <1>5 DEF ServeSnapshot, Serving, forwarderVars
  <2>2. PICK d \in Device, pressed \in SUBSET InputCode : Reconcile(d, pressed)
    BY <1>5 DEF ServeSnapshot
  <2>3. Fit(e', out')
    BY <1>1, <2>2, ReconcileBalanced
  <2> QED
    BY <1>2, <2>1, <2>3
<1>6. CASE Shutdown
  <2>1. down' = down /\ entries' = entries /\ Close
    BY <1>6 DEF Shutdown, forwarderVars
  <2> QED
    BY <1>1, <1>2, <2>1, CloseBalanced
<1>7. CASE ApplyOutput
  BY <1>7, ApplyFlow DEF EngineInv
<1>8. CASE Exit \/ WriteError \/ FatalError
  <2>1. EngineInit' /\ ForwarderInit'
    BY <1>8 DEF Exit, WriteError, FatalError, Return, DestroyVirtual, EngineInit, ForwarderInit
  <2> QED
    BY <2>1, FreshFlow
<1>9. CASE Restart \/ UNCHANGED brokerVars
  <2>1. e' = e /\ out' = out /\ down' = down /\ entries' = entries
    BY <1>9 DEF Restart, brokerVars, engineVars, forwarderVars
  <2> QED
    BY <1>1, <1>2, <2>1
<1> QED
  BY <1>3, <1>4, <1>5, <1>6, <1>7, <1>8, <1>9 DEF BrokerNext

(* Close empties the engine, and nothing fills it again.                   *)
LEMMA ShutKept ==
    ASSUME EngineInv, EngineInv', Shut, [BrokerNext]_brokerVars
    PROVE  Shut'
<1>1. CASE ServeFrame \/ ServeTimer \/ ServeSnapshot \/ Restart
  BY <1>1 DEF ServeFrame, ServeTimer, ServeSnapshot, Restart, Serving, Shut
<1>2. CASE Shutdown
  <2>1. Close /\ ~frame'.open
    BY <1>2 DEF Shutdown, Close, Ready
  <2>2. e'.mode = "idle" /\ e'.physical = {}
    BY <2>1, CloseMode
  <2>3. e'.journal = <<>>
    BY <2>1, <2>2, IdleJournalNext
  <2>4. e'.active = <<>>
    <3>1. e \in Engines /\ e' = Drain(Closing(e)) /\ Closing(e) \in Engines
      BY <2>1, ClosingKeeps DEF EngineInv, Sound, Close
    <3> QED
      BY <3>1, ClosingFields, DrainFields
  <2> QED
    BY <2>1, <2>2, <2>3, <2>4 DEF Shut
<1>3. CASE ApplyOutput
  BY <1>3 DEF ApplyOutput, Apply, Shut
<1>4. CASE Exit \/ WriteError \/ FatalError
  BY <1>4 DEF Exit, WriteError, FatalError, Return, Shut, InitialEngine, NoFrame
<1>5. CASE UNCHANGED brokerVars
  BY <1>5 DEF brokerVars, Shut
<1> QED
  BY <1>1, <1>2, <1>3, <1>4, <1>5 DEF BrokerNext

(* The invariant of the main loop is inductive.                            *)
LEMMA BrokerInvNext == BrokerInv /\ [BrokerNext]_brokerVars => BrokerInv'
<1> SUFFICES ASSUME BrokerInv, [BrokerNext]_brokerVars PROVE BrokerInv'
  OBVIOUS
<1>1. EngineInv /\ HeldInv /\ Chat /\ Cand /\ FlowInv /\ ForwarderInv /\ Shut
  BY DEF BrokerInv
<1>2. EngineInv' /\ HeldInv' /\ Chat' /\ Cand'
  BY <1>1, EngineKept
<1>3. ForwarderInv'
  <2>1. out \in Seq(Output)
    BY <1>1 DEF EngineInv
  <2> QED
    BY <1>1, <2>1, ForwarderSteps, ForwarderInvStep
<1>4. FlowInv'
  <2>1. ForwarderTypeOK /\ ForwarderTypeOK'
    BY <1>1, <1>3 DEF ForwarderInv
  <2> QED
    BY <1>1, <1>2, <2>1, FlowKept
<1>5. Shut'
  BY <1>1, <1>2, ShutKept
<1> QED
  BY <1>2, <1>3, <1>4, <1>5 DEF BrokerInv

(* Between any two steps of the main loop, whatever was served, applied or  *)
(* abandoned, the engine and the forwarder agree on who holds what.        *)
THEOREM BrokerInvariant == BrokerSpec => []BrokerInv
  BY BrokerInvInit, BrokerInvNext, PTL DEF BrokerSpec

-----------------------------------------------------------------------------
(* Settled: between two cases of the select                                *)

(* Operations after which all is as before.                                *)
Quiet(s, P, Q) == \A b \in BOOLEAN : After(b, s, P, Q) <=> b

(* A list of quiet lists is quiet.                                         *)
LEMMA QuietMapped ==
    ASSUME NEW A, NEW V, NEW R \in [A -> Seq(V)], NEW P, NEW Q, NEW s \in Seq(A),
           \A k \in DOMAIN s : Quiet(R[s[k]], P, Q)
    PROVE  Quiet(Mapped(s, R), P, Q)
<1> DEFINE B == {a \in A : Quiet(R[a], P, Q)}
           F == [a \in B |-> R[a]]
<1>1. s \in Seq(B)
  OBVIOUS
<1>2. F \in [B -> Seq(V)]
  OBVIOUS
<1>3. Clears(B, F, P, Q, {})
  <2>1. \A a \in B : Quiet(F[a], P, Q)
    OBVIOUS
  <2> HIDE DEF B, F
  <2> QED
    BY <2>1, Zenon DEF Clears, Quiet
<1>4. Alike(s, F, s, R)
  <2>1. \A k \in DOMAIN s : s[k] \in B
    OBVIOUS
  <2> QED
    BY <2>1 DEF Alike
<1> HIDE DEF B, F
<1>5. ClearsAll(s, F, P, Q, {})
  BY <1>1, <1>2, <1>3, AfterStops, Zenon
<1>6. Quiet(Mapped(s, F), P, Q)
  BY <1>5 DEF ClearsAll, Quiet
<1>7. Mapped(s, F) = Mapped(s, R)
  BY <1>4, MappedSame
<1> QED
  BY <1>6, <1>7

(* Every record of f is quiet.                                             *)
QuietFrame(f, fate, P, Q) ==
    \A k \in DOMAIN f.events : Quiet(RecordOps(f.device, f.events[k], fate), P, Q)

LEMMA QuietFrames ==
    ASSUME NEW f \in JournalFrames, NEW fate, NEW P, NEW Q, QuietFrame(f, fate, P, Q)
    PROVE  Quiet(FrameFn(fate)[f], P, Q)
<1> DEFINE R == RecordFn(f.device, fate)
<1>1. f.device \in Device \cup {NoDevice} /\ f.events \in Seq(Record)
  BY FrameParts, Zenon
<1>2. R \in [Record -> Seq(Operation)]
  BY <1>1, RecordFnType, Zenon
<1>3. FrameFn(fate)[f] = Mapped(f.events, R)
  BY DEF FrameFn
<1>4. \A k \in DOMAIN f.events : R[f.events[k]] = RecordOps(f.device, f.events[k], fate)
  BY <1>1 DEF RecordFn
<1> HIDE DEF R
<1>5. \A k \in DOMAIN f.events : Quiet(R[f.events[k]], P, Q)
  BY <1>4, Zenon DEF QuietFrame
<1>6. Quiet(Mapped(f.events, R), P, Q)
  BY <1>1, <1>2, <1>5, QuietMapped, Zenon
<1> QED
  BY <1>3, <1>6

LEMMA QuietJournal ==
    ASSUME NEW x \in Engines, NEW fate, NEW P, NEW Q,
           \A i \in DOMAIN x.journal : QuietFrame(x.journal[i], fate, P, Q)
    PROVE  Quiet(Ops(x, fate), P, Q)
<1>1. x.journal \in Seq(JournalFrames)
  BY DEF Engines
<1>2. FrameFn(fate) \in [JournalFrames -> Seq(Operation)]
  BY FrameFnType, Zenon
<1>3. \A i \in DOMAIN x.journal : Quiet(FrameFn(fate)[x.journal[i]], P, Q)
  <2>1. \A i \in DOMAIN x.journal : x.journal[i] \in JournalFrames
    BY <1>1
  <2> QED
    BY <2>1, QuietFrames, Zenon
<1> QED
  BY <1>1, <1>2, <1>3, QuietMapped, Zenon DEF Ops

(* The operation that a record stands for, if any.                         *)
LEMMA QuietRecord ==
    ASSUME NEW d, NEW r \in Record, NEW fate, NEW P, NEW Q,
           r.type = "output" => r.output \notin P /\ r.output \notin Q,
           r.type = "key" => /\ KeyOutput(d, r.event.code, r.event.value) \notin P
                             /\ KeyOutput(d, r.event.code, r.event.value) \notin Q
    PROVE  Quiet(RecordOps(d, r, fate), P, Q)
<1>1. \A k \in DOMAIN RecordOps(d, r, fate) :
         RecordOps(d, r, fate)[k] \notin P /\ RecordOps(d, r, fate)[k] \notin Q
  <2>1. CASE r.type = "output"
    BY <2>1 DEF RecordOps
  <2>2. CASE r.type = "key"
    BY <2>2 DEF RecordOps
  <2>3. CASE r.type # "output" /\ r.type # "key"
    BY <2>3 DEF RecordOps
  <2> QED
    BY <2>1, <2>2, <2>3
<1> QED
  BY <1>1, AfterOthers, Zenon DEF Quiet

(* With nothing left to apply, keys that the journal is silent about are    *)
(* held as wanted.                                                         *)
LEMMA SettledKeys ==
    ASSUME EngineInv, ForwarderTypeOK, FlowInv, out = <<>>, NEW fate \in Fates, Agrees(e, fate),
           NEW o \in Owner, NEW c \in Code,
           Quiet(Ops(e, fate), Pressing(o, c), Releasing(o, c))
    PROVE  c \in down[o] <=> Wanted(e, fate, o, c)
<1>1. AppliedKeys(down, out) = down
  BY AppliedNothing DEF ForwarderTypeOK
<1>2. Flow(e, down, AppliedNames(entries, out), Owner)
  BY <1>1 DEF FlowInv, Balanced
<1>3. KeyFits(e, down, fate, o)
  BY <1>2, Zenon DEF Flow, Fits
<1>4. After(c \in down[o], Ops(e, fate), Pressing(o, c), Releasing(o, c)) <=> Wanted(e, fate, o, c)
  BY <1>3, Zenon DEF KeyFits
<1>5. (c \in down[o]) \in BOOLEAN
  OBVIOUS
<1>6. After(c \in down[o], Ops(e, fate), Pressing(o, c), Releasing(o, c)) <=> c \in down[o]
  BY <1>5, Zenon DEF Quiet
<1> QED
  BY <1>4, <1>6, Zenon

(* The owners in the map, likewise.                                        *)
LEMMA SettledNames ==
    ASSUME EngineInv, ForwarderTypeOK, FlowInv, out = <<>>, NEW fate \in Fates, Agrees(e, fate),
           NEW h \in HoldDevice, Quiet(Ops(e, fate), Entering(h), Leaving(h)), h \in entries
    PROVE  Live(e, h)
<1>1. AppliedNames(entries, out) = entries
  BY AppliedNothing DEF ForwarderTypeOK
<1>2. Flow(e, AppliedKeys(down, out), entries, Owner)
  BY <1>1 DEF FlowInv, Balanced
<1>3. h \in Owner
  BY DEF Owner
<1>4. NameFits(e, entries, fate, h)
  BY <1>2, <1>3, Zenon DEF Flow, Fits
<1>5. After(h \in entries, Ops(e, fate), Entering(h), Leaving(h))
  <2>1. After(TRUE, Ops(e, fate), Entering(h), Leaving(h))
    BY Zenon DEF Quiet
  <2> QED
    BY <2>1, Zenon DEF After
<1> QED
  BY <1>4, <1>5, Zenon DEF NameFits

(* Some fate of the presses agrees with what is decided.                   *)
Decisions(x) == [p \in Press |-> IF x.route[p] = "forwarded" THEN "forwarded" ELSE "consumed"]

(* The fate in which every undecided press is consumed agrees.             *)
LEMMA DecisionsAgree ==
    ASSUME NEW x \in Engines
    PROVE  /\ Decisions(x) \in Fates /\ Agrees(x, Decisions(x))
           /\ \A p \in Press : Decisions(x)[p] = "forwarded" <=> x.route[p] = "forwarded"
<1>1. \A p \in Press : x.route[p] \in Route
  BY DEF Engines
<1> QED
  BY <1>1 DEF Decisions, Fates, Agrees, Route

(* With an empty journal, no key down and no live remap, nothing is held.  *)
LEMMA NothingHeld ==
    ASSUME EngineInv, ForwarderInv, FlowInv, out = <<>>, e.journal = <<>>, e.physical = {},
           e.active = <<>>
    PROVE  virtual = {}
<1> DEFINE fate == Decisions(e)
<1>1. e \in Engines /\ fate \in Fates /\ Agrees(e, fate)
  BY DecisionsAgree DEF EngineInv, Sound
<1> HIDE DEF fate
<1>2. ASSUME NEW o \in Owner, NEW c \in Code
      PROVE  c \notin down[o]
  <2>1. Quiet(Ops(e, fate), Pressing(o, c), Releasing(o, c))
    BY <1>1, QuietJournal
  <2>2. c \in down[o] <=> Wanted(e, fate, o, c)
    BY <1>1, <2>1, SettledKeys DEF ForwarderInv
  <2>3. ~Wanted(e, fate, o, c)
    BY DEF Wanted, ToSet
  <2> QED
    BY <2>2, <2>3
<1>3. \A c \in Code : Holders(c) = {}
  BY <1>2 DEF Holders
<1> QED
  BY <1>3 DEF ForwarderInv, VirtualIsUnion

(* After Close nothing is wanted by anybody.                               *)
LEMMA CloseReleases ==
    ASSUME BrokerInv, status = "closing", out = <<>>
    PROVE  virtual = {}
  BY NothingHeld DEF BrokerInv, Shut

(* With all keys up no candidate can wait: it would have a member that is  *)
(* held, or be finished.                                                   *)
LEMMA AllUpReleases ==
    ASSUME BrokerInv, Settled, e.physical = {}
    PROVE  e.journal = <<>> /\ virtual = {}
<1>1. /\ EngineInv /\ HeldInv /\ Cand /\ FlowInv /\ ForwarderInv
      /\ ~frame.open /\ out = <<>> /\ frame = NoFrame
  BY DEF BrokerInv, Settled, Ready, EngineInv
<1>2. Consistent(e) /\ e \in Engines
  <2>1. frame.todo = <<>>
    BY <1>1 DEF NoFrame
  <2> QED
    BY <1>1, <2>1, HeldConsistent DEF EngineInv, Sound
<1>3. ~Matching(e)
  <2> SUFFICES ASSUME Matching(e) PROVE FALSE
    OBVIOUS
  <2>1. ~Finished(e) /\ Unmatched(e) /\ (e.seq.members = {} => Pends(e, frame.todo))
    BY <1>1 DEF Cand
  <2>2. e.seq.members \cap e.seq.held = {}
    BY <1>2 DEF Consistent, Tracks
  <2>3. CASE e.seq.matched # 0
    BY <2>1, <2>2, <2>3 DEF Finished
  <2>4. CASE e.seq.matched = 0
    <3>1. e.seq.members = {}
      BY <2>1, <2>2, <2>4 DEF Unmatched
    <3>2. ~Pends(e, frame.todo)
      BY <1>1 DEF Pends, NoFrame
    <3> QED
      BY <2>1, <3>1, <3>2
  <2> QED
    BY <2>3, <2>4
<1>4. e.journal = <<>>
  BY <1>1, <1>3 DEF EngineInv, JournalWaitsForCandidate
<1>5. e.active = <<>>
  <2>1. \A a \in ToSet(e.active) : a.driver \in a.members /\ a.members \subseteq e.physical
    BY <1>2 DEF Consistent, Held, Remaps
  <2>2. ToSet(e.active) = {}
    BY <2>1
  <2>3. e.active \in Seq(Activation)
    BY <1>2 DEF Engines
  <2>4. ASSUME e.active # <<>> PROVE FALSE
    <3>1. 1 \in DOMAIN e.active
      BY <2>3, <2>4
    <3> QED
      BY <2>2, <3>1 DEF ToSet
  <2> QED
    BY <2>4
<1> QED
  BY <1>1, <1>4, <1>5, NothingHeld

(* A journal without an event of a key says nothing of it.                 *)
LEMMA QuietKey ==
    ASSUME EngineInv, RecordsIn(e, GoodRecords), NEW d \in Device, NEW c \in Code,
           ~Journalled(d, c), NEW fate
    PROVE  Quiet(Ops(e, fate), Pressing(d, c), Releasing(d, c))
<1>1. e \in Engines /\ DeviceOrOutputs(e)
  BY DEF EngineInv, Sound
<1>2. ASSUME NEW i \in DOMAIN e.journal
      PROVE  QuietFrame(e.journal[i], fate, Pressing(d, c), Releasing(d, c))
  <2> DEFINE f == e.journal[i]
  <2>1. f \in JournalFrames
    BY <1>1 DEF Engines
  <2>2. f.device \in Device \cup {NoDevice} /\ f.events \in Seq(Record)
    BY <2>1, FrameParts, Zenon
  <2>3. ASSUME NEW k \in DOMAIN f.events
        PROVE  Quiet(RecordOps(f.device, f.events[k], fate), Pressing(d, c), Releasing(d, c))
    <3> DEFINE r == f.events[k]
               u == KeyOutput(f.device, r.event.code, r.event.value)
    <3>1. r \in Record /\ r \in ToSet(f.events)
      BY <2>2 DEF ToSet
    <3>2. r \in GoodRecords
      BY DEF RecordsIn, HasRecord
    <3>3. r.type = "output" => r.output \notin Pressing(d, c) /\ r.output \notin Releasing(d, c)
      BY <3>2 DEF GoodRecords, ForeignOutput, Pressing, Releasing
    <3>4. ASSUME r.type = "key" PROVE u \notin Pressing(d, c) /\ u \notin Releasing(d, c)
      <4>1. f.device # d \/ r.event.code # c
        BY <3>1, <3>4, Zenon DEF Journalled
      <4>2. u.owner = f.device /\ u.code = r.event.code /\ u.kind = "key"
        BY DEF KeyOutput
      <4> HIDE DEF f, r, u
      <4> QED
        BY <4>1, <4>2 DEF Pressing, Releasing
    <3>5. Quiet(RecordOps(f.device, r, fate), Pressing(d, c), Releasing(d, c))
      <4>1. r.type = "key" => u \notin Pressing(d, c) /\ u \notin Releasing(d, c)
        BY <3>4
      <4> HIDE DEF f, r
      <4> QED
        BY <3>1, <3>3, <4>1, QuietRecord
    <3> QED
      BY <3>5
  <2> QED
    BY <2>3, Zenon DEF QuietFrame
<1> QED
  BY <1>1, <1>2, QuietJournal, Zenon

(* A keyboard's key without a journalled event.                            *)
LEMMA OwnershipHolds ==
    ASSUME BrokerInv, Settled, NEW d \in Device, NEW c \in Code, ~Journalled(d, c)
    PROVE  c \in down[d] <=> \E p \in e.physical :
              device(p) = d /\ code(p) = c /\ e.route[p] = "forwarded"
<1> DEFINE fate == Decisions(e)
<1>1. EngineInv /\ FlowInv /\ ForwarderTypeOK /\ out = <<>>
  BY DEF BrokerInv, Settled, Ready, ForwarderInv
<1>2. /\ e \in Engines /\ fate \in Fates /\ Agrees(e, fate)
      /\ \A p \in Press : fate[p] = "forwarded" <=> e.route[p] = "forwarded"
  BY <1>1, DecisionsAgree DEF EngineInv, Sound
<1> HIDE DEF fate
<1>3. Quiet(Ops(e, fate), Pressing(d, c), Releasing(d, c))
  BY <1>1, QuietKey DEF FlowInv, Balanced
<1>4. d \in Owner
  BY DEF Owner
<1>5. c \in down[d] <=> Wanted(e, fate, d, c)
  BY <1>1, <1>2, <1>3, <1>4, SettledKeys
<1>6. \A a \in ToSet(e.active) : a.owner # d
  <2>1. \A a \in ToSet(e.active) : a \in Activation
    <3>1. e.active \in Seq(Activation)
      BY <1>2 DEF Engines
    <3> QED
      BY <3>1 DEF ToSet
  <2>2. \A a \in Activation : a.owner \in HoldDevice
    BY DEF Activation
  <2> QED
    BY <2>1, <2>2, OwnerAssumption
<1>7. e.physical \subseteq Press
  BY <1>2 DEF Engines
<1> QED
  BY <1>2, <1>5, <1>6, <1>7, Zenon DEF Wanted

LEMMA KeyOperation ==
    ASSUME NEW d \in Owner \cup {NoDevice}, NEW k \in Code, NEW v \in {0, 1, 2}
    PROVE  KeyOutput(d, k, v) \in Operation
  BY KeyEffect

(* A journal without an operation of an owner says nothing of it.          *)
LEMMA QuietOwner ==
    ASSUME EngineInv, NEW h, h \notin Device \cup {NoDevice}, h \notin JournalOwners(e), NEW fate
    PROVE  /\ \A c : Quiet(Ops(e, fate), Pressing(h, c), Releasing(h, c))
           /\ Quiet(Ops(e, fate), Entering(h), Leaving(h))
<1>1. e \in Engines
  BY DEF EngineInv, Sound
<1>2. ASSUME NEW P, NEW Q, \A u \in Operation : ~Names(u, h) => u \notin P /\ u \notin Q
      PROVE  Quiet(Ops(e, fate), P, Q)
  <2>1. ASSUME NEW i \in DOMAIN e.journal
        PROVE  QuietFrame(e.journal[i], fate, P, Q)
    <3> DEFINE f == e.journal[i]
    <3>1. f \in JournalFrames
      BY <1>1 DEF Engines
    <3>2. f.device \in Device \cup {NoDevice} /\ f.events \in Seq(Record)
      BY <3>1, FrameParts, Zenon
    <3>3. ASSUME NEW k \in DOMAIN f.events
          PROVE  Quiet(RecordOps(f.device, f.events[k], fate), P, Q)
      <4> DEFINE r == f.events[k]
                 u == KeyOutput(f.device, r.event.code, r.event.value)
      <4>1. r \in Record
        BY <3>2
      <4>2. r.type = "output" => r.output \in Operation /\ ~Names(r.output, h)
        <5>1. r.type = "output" => r.output \in Operation
          BY <4>1, RecordParts DEF Operation
        <5>2. r.type = "output" => ~(r.output.kind # "action" /\ r.output.owner = h)
          BY JournalOwnersAre
        <5> QED
          BY <5>1, <5>2 DEF Names
      <4>3. r.type = "key" => u \in Operation /\ ~Names(u, h)
        <5>1. r.type = "key" => u \in Operation
          <6>1. r.type = "key" => r.event.code \in Code /\ r.event.value \in {0, 1, 2}
            BY <4>1, RecordParts
          <6>2. f.device \in Owner \cup {NoDevice}
            BY <3>2 DEF Owner
          <6>3. ASSUME r.type = "key" PROVE u \in Operation
            <7>1. r.event.code \in Code /\ r.event.value \in {0, 1, 2}
              BY <6>1, <6>3
            <7> HIDE DEF f, r
            <7> QED
              BY <6>2, <7>1, KeyOperation
          <6> QED
            BY <6>3
        <5>2. u.owner = f.device
          BY DEF KeyOutput
        <5> HIDE DEF u, f, r
        <5> QED
          BY <3>2, <5>1, <5>2 DEF Names, f
      <4>4. /\ r.type = "output" => r.output \notin P /\ r.output \notin Q
            /\ r.type = "key" => u \notin P /\ u \notin Q
        BY <1>2, <4>2, <4>3
      <4>5. Quiet(RecordOps(f.device, r, fate), P, Q)
        <5> HIDE DEF f, r
        <5> QED
          BY <4>1, <4>4, QuietRecord
      <4> QED
        BY <4>5
    <3> QED
      BY <3>3, Zenon DEF QuietFrame
  <2> QED
    BY <1>1, <2>1, QuietJournal, Zenon
<1>3. \A u \in Operation : ~Names(u, h) =>
         /\ \A c : u \notin Pressing(h, c) /\ u \notin Releasing(h, c)
         /\ u \notin Entering(h) /\ u \notin Leaving(h)
  BY NoNames
<1>4. \A c : Quiet(Ops(e, fate), Pressing(h, c), Releasing(h, c))
  BY <1>2, <1>3, Zenon
<1>5. Quiet(Ops(e, fate), Entering(h), Leaving(h))
  BY <1>2, <1>3, Zenon
<1> QED
  BY <1>4, <1>5

(* An owner of the engine without a journalled operation.                  *)
LEMMA OwnersAgree ==
    ASSUME BrokerInv, Settled, NEW h \in HoldDevice \cup {TapDevice}, h \notin JournalOwners(e)
    PROVE  /\ down[h] = {x.target : x \in {q \in ToSet(e.active) : q.owner = h}}
           /\ h \in entries \cap HoldDevice => Live(e, h)
<1> DEFINE fate == Decisions(e)
           A == ToSet(e.active)
<1>1. EngineInv /\ FlowInv /\ ForwarderTypeOK /\ out = <<>>
  BY DEF BrokerInv, Settled, Ready, ForwarderInv
<1>2. e \in Engines /\ fate \in Fates /\ Agrees(e, fate)
  BY <1>1, DecisionsAgree DEF EngineInv, Sound
<1> HIDE DEF fate
<1>3. h \in Owner /\ h \notin Device \cup {NoDevice}
  BY OwnerAssumption DEF Owner
<1>4. /\ \A c : Quiet(Ops(e, fate), Pressing(h, c), Releasing(h, c))
      /\ Quiet(Ops(e, fate), Entering(h), Leaving(h))
  BY <1>1, <1>3, QuietOwner
<1>5. A \subseteq Activation /\ e.physical \subseteq Press
  <2>1. e.active \in Seq(Activation) /\ e.physical \in SUBSET Press
    BY <1>2 DEF Engines
  <2> QED
    BY <2>1 DEF ToSet
<1>6. ASSUME NEW c \in Code
      PROVE  c \in down[h] <=> \E a \in A : a.owner = h /\ a.target = c
  <2>1. c \in down[h] <=> Wanted(e, fate, h, c)
    BY <1>1, <1>2, <1>3, <1>4, SettledKeys
  <2>2. \A p \in e.physical : device(p) # h
    BY <1>3, <1>5 DEF Press, device
  <2> QED
    BY <2>1, <2>2, Zenon DEF Wanted
<1>7. \A a \in A : a.target \in Code
  BY <1>5 DEF Activation
<1>8. down[h] \subseteq Code
  BY <1>1, <1>3 DEF ForwarderTypeOK
<1>9. h \in entries \cap HoldDevice => Live(e, h)
  BY <1>1, <1>2, <1>4, SettledNames
<1> HIDE DEF A
<1>10. down[h] = {x.target : x \in {q \in A : q.owner = h}}
  BY <1>6, <1>7, <1>8
<1> QED
  BY <1>9, <1>10 DEF A

-----------------------------------------------------------------------------
(* For any keyboards, configuration and bounds: between two cases of the    *)
(* select, a key no journalled event is about is held for its keyboard in   *)
(* the forwarder exactly when it is down and its press was forwarded.      *)
THEOREM BrokerOwnership == BrokerSpec => []OwnershipAgrees
<1>1. BrokerInv => OwnershipAgrees
  BY OwnershipHolds DEF OwnershipAgrees
<1> QED
  BY <1>1, BrokerInvariant, PTL

(* The owner of a live remap holds its target and no other owner of the    *)
(* engine's holds a key; the forwarder forgets an owner with its remap.     *)
THEOREM BrokerRemapOwners == BrokerSpec => []RemapOwnersAgree
<1>1. BrokerInv => RemapOwnersAgree
  BY OwnersAgree DEF RemapOwnersAgree
<1> QED
  BY <1>1, BrokerInvariant, PTL

(* When all keys are up and what the engine returned is applied, nothing is *)
(* withheld and the virtual keyboard has no key down.                      *)
THEOREM BrokerAllUp == BrokerSpec => []AllUpAllReleased
<1>1. BrokerInv => AllUpAllReleased
  BY AllUpReleases DEF AllUpAllReleased
<1> QED
  BY <1>1, BrokerInvariant, PTL

(* What Engine.Close returns releases every key of the virtual keyboard.   *)
THEOREM BrokerClose == BrokerSpec => []CloseReleasesAll
<1>1. BrokerInv => CloseReleasesAll
  BY CloseReleases DEF CloseReleasesAll
<1> QED
  BY <1>1, BrokerInvariant, PTL
=============================================================================
