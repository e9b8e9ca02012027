---------------------------- MODULE EngineLemmas ----------------------------
(***************************************************************************)
(* What each method of the engine keeps, method by method: the types of    *)
(* its fields and the facts about them that EngineProofs needs.             *)
(***************************************************************************)
EXTENDS Engine, SequenceLemmas, FiniteSetTheorems

JournalFrames ==
    [device : Device \cup {NoDevice}, events : Seq(Record), dropScan : BOOLEAN,
     candidate : Route \cup {"none"}]

Engines ==
    [physical : SUBSET Press, logicalCount : [Logical -> Nat],
     route : [Press -> Route], mode : Mode, seq : Candidate,
     activePrefix : Nat, carry : SUBSET Press, reuse : SUBSET Press,
     deadline : BOOLEAN, journal : Seq(JournalFrames), active : Seq(Activation)]

(* logicalCount is what it is called.                                      *)
Counted(x) == \A key \in Logical : x.logicalCount[key] = CountOf(x.physical, key)

(* What a candidate may become is configured, and there is no candidate    *)
(* where e.seq is nil.                                                     *)
SourceCandidate(x) ==
    /\ x.seq.possible \subseteq DOMAIN Sources
    /\ x.seq.matched \in (DOMAIN Sources) \cup {0}

BindingCandidate(x) ==
    LET bindings == DOMAIN Sources[x.activePrefix].bindings IN
    /\ x.seq.possible \subseteq bindings
    /\ x.seq.matched \in bindings \cup {0}

Configured(x) ==
    /\ x.mode \in {"reserved", "prefix"} => SourceCandidate(x)
    /\ x.mode \in {"await", "binding"} => x.activePrefix \in DOMAIN Sources
    /\ x.mode = "binding" => BindingCandidate(x)
    /\ ~Matching(x) => x.seq = NoCandidate

OwnedUndecided(x) == \A p \in x.seq.owned : x.route[p] = "undecided"

DeadlineFits(x) == x.deadline <=> x.mode \in {"prefix", "await", "binding"}

(* Only the engine's own operations are in frames without a device.        *)
OnlyOutputs(f) == \A k \in DOMAIN f.events : f.events[k].type = "output"

DeviceOrOutputs(x) ==
    \A i \in DOMAIN x.journal :
        x.journal[i].device = NoDevice => OnlyOutputs(x.journal[i])

Sound(x) ==
    /\ x \in Engines
    /\ Counted(x)
    /\ Configured(x)
    /\ OwnedUndecided(x)
    /\ DeadlineFits(x)
    /\ DeviceOrOutputs(x)

-----------------------------------------------------------------------------
(* Basic facts                                                             *)

LEMMA PressFinite == IsFiniteSet(Press) /\ NoPress \notin Press
  <1>. DEFINE L == 1 .. MaxLives
              S == (Device \X Code) \X L
              f == [q \in S |-> <<q[1][1], q[1][2], q[2]>>]
  <1>1. IsFiniteSet(Device) /\ IsFiniteSet(Code)
    BY OwnerAssumption, KeyAssumption, FS_Subset DEF Owner
  <1>2. IsFiniteSet(L)
    BY BoundAssumption, FS_Interval
  <1>. HIDE DEF L
  <1>3. IsFiniteSet(S)
    BY <1>1, <1>2, FS_Product
  <1>4. f \in Surjection(S, Press)
    <2>1. f \in [S -> Press]
      BY DEF Press, L
    <2>2. ASSUME NEW p \in Press PROVE \E q \in S : f[q] = p
      <3>1. <<<<p[1], p[2]>>, p[3]>> \in S /\ p = <<p[1], p[2], p[3]>>
        BY DEF Press, L
      <3>2. QED
        BY <3>1
    <2>3. QED
      BY <2>1, <2>2 DEF Surjection
  <1>5. IsFiniteSet(Press)
    BY <1>3, <1>4, FS_Surjection
  <1>6. NoPress \notin Press
    BY DEF NoPress, Press
  <1>7. QED
    BY <1>5, <1>6

LEMMA PressParts ==
    ASSUME NEW p \in Press
    PROVE  device(p) \in Device /\ code(p) \in Code /\ logical(p) \in Logical
  BY KeyAssumption DEF Press, device, code, logical

LEMMA CountType ==
    ASSUME NEW S \in SUBSET Press, NEW key
    PROVE  IsFiniteSet({p \in S : logical(p) = key}) /\ CountOf(S, key) \in Nat
  <1>1. IsFiniteSet({p \in S : logical(p) = key})
    BY PressFinite, FS_Subset
  <1>2. QED
    BY <1>1, FS_CardinalityType DEF CountOf

LEMMA CountUnion ==
    ASSUME NEW S \in SUBSET Press, NEW T \in SUBSET Press, S \cap T = {}, NEW key
    PROVE  CountOf(S \cup T, key) = CountOf(S, key) + CountOf(T, key)
  <1>. DEFINE s == {p \in S : logical(p) = key}
              t == {p \in T : logical(p) = key}
  <1>1. {p \in S \cup T : logical(p) = key} = s \cup t /\ s \cap t = {}
    OBVIOUS
  <1>2. IsFiniteSet(s) /\ IsFiniteSet(t) /\ Cardinality(s) \in Nat /\ Cardinality(t) \in Nat
    BY CountType DEF CountOf
  <1>3. Cardinality(s \cup t) = Cardinality(s) + Cardinality(t) - Cardinality(s \cap t)
    BY <1>2, FS_Union
  <1>4. Cardinality(s \cap t) = 0
    BY <1>1, FS_EmptySet
  <1>5. Cardinality(s \cup t) = Cardinality(s) + Cardinality(t)
    BY <1>2, <1>3, <1>4
  <1>6. QED
    BY <1>1, <1>5 DEF CountOf

LEMMA CountDifference ==
    ASSUME NEW S \in SUBSET Press, NEW T \in SUBSET S, NEW key
    PROVE  CountOf(S \ T, key) = CountOf(S, key) - CountOf(T, key)
  <1>1. (S \ T) \cup T = S /\ (S \ T) \cap T = {}
    OBVIOUS
  <1>2. CountOf(S, key) = CountOf(S \ T, key) + CountOf(T, key)
    BY <1>1, CountUnion
  <1>3. CountOf(S, key) \in Nat /\ CountOf(T, key) \in Nat /\ CountOf(S \ T, key) \in Nat
    BY CountType
  <1>4. QED
    BY <1>2, <1>3

(* Max and Min of the sets that the engine forms.                          *)
LEMMA MinIn ==
    ASSUME NEW S \in SUBSET Nat, S # {}
    PROVE  Min(S) \in S
  BY Least DEF Min

LEMMA MaxIn ==
    ASSUME NEW n \in Nat, NEW S \in SUBSET (0 .. n), S # {}
    PROVE  Max(S) \in S /\ \A k \in S : Max(S) >= k
  <1>. DEFINE T == {n - k : k \in S}
  <1>1. \A k \in S : k \in Nat /\ n - k \in Nat
    OBVIOUS
  <1>2. T \in SUBSET Nat /\ T # {}
    BY <1>1
  <1>3. PICK m \in T : \A j \in T : m <= j
    BY <1>2, Least
  <1>4. PICK k \in S : m = n - k
    OBVIOUS
  <1>5. ASSUME NEW j \in S PROVE k >= j
    <2>1. n - j \in T
      OBVIOUS
    <2>2. n - k <= n - j
      BY <1>3, <1>4, <2>1
    <2>3. QED
      BY <1>1, <2>2
  <1>6. QED
    BY <1>5 DEF Max

(* SetToSeq lists the elements of a finite set.                            *)
LEMMA SetToSeqType ==
    ASSUME NEW S, IsFiniteSet(S)
    PROVE  SetToSeq(S) \in Seq(S)
  <1>1. Cardinality(S) \in Nat /\ ExistsBijection(1 .. Cardinality(S), S)
    BY FS_CardinalityType
  <1>2. \E f \in [1 .. Cardinality(S) -> S] : IsInjective(f)
    BY <1>1 DEF ExistsBijection, Bijection, Injection
  <1>3. SetToSeq(S) \in [1 .. Cardinality(S) -> S]
    BY <1>2 DEF SetToSeq
  <1>4. QED
    BY <1>1, <1>3


-----------------------------------------------------------------------------
(* How a call, or a part of one, may treat the presses: those in N are new, *)
(* a decision about another one stands as long as the press is referenced,  *)
(* and an owned one is decided or still owned.                              *)
Evolves(x, y, N) ==
    /\ Referenced(y) \subseteq Referenced(x) \cup N \cup {NoPress}
    /\ \A p \in Press \ N :
          p \in Referenced(y) /\ x.route[p] # "undecided" => y.route[p] = x.route[p]
    /\ \A p \in x.seq.owned \ N :
          p \in Referenced(y) /\ y.route[p] = "undecided" => p \in y.seq.owned

(* The same journal, but for what the frames know of their candidate.       *)
SameEvents(x, y) ==
    /\ Len(y.journal) = Len(x.journal)
    /\ \A i \in DOMAIN x.journal :
          /\ y.journal[i].device = x.journal[i].device
          /\ y.journal[i].events = x.journal[i].events

LEMMA EvolvesTransitive ==
    ASSUME NEW x, NEW y, NEW z, NEW M, NEW N,
           Evolves(x, y, M), Evolves(y, z, N), M = {} \/ N = {},
           x \in Engines, y \in Engines, z \in Engines
    PROVE  Evolves(x, z, M \cup N)
  <1>. DEFINE K == M \cup N
  <1>1. Referenced(z) \subseteq Referenced(x) \cup K \cup {NoPress}
    BY DEF Evolves
  <1>2. ASSUME NEW p \in Press \ K, p \in Referenced(z), x.route[p] # "undecided"
        PROVE  z.route[p] = x.route[p]
    <2>1. p \in Referenced(y)
      BY <1>2, PressFinite DEF Evolves
    <2>2. y.route[p] = x.route[p]
      BY <1>2, <2>1 DEF Evolves
    <2>3. QED
      BY <1>2, <2>2 DEF Evolves
  <1>3. ASSUME NEW p \in x.seq.owned \ K, p \in Referenced(z), z.route[p] = "undecided"
        PROVE  p \in z.seq.owned
    <2>1. p \in Press
      BY DEF Engines, Candidate
    <2>2. p \in Referenced(y)
      BY <1>3, <2>1, PressFinite DEF Evolves
    <2>3. y.route[p] = "undecided"
      BY <1>3, <2>1 DEF Evolves
    <2>4. p \in y.seq.owned
      BY <1>3, <2>2, <2>3 DEF Evolves
    <2>5. QED
      BY <1>3, <2>4 DEF Evolves
  <1>4. QED
    BY <1>1, <1>2, <1>3 DEF Evolves

(* Referenced, part by part.                                               *)
LEMMA ReferencedIn ==
    ASSUME NEW x, NEW S,
           x.physical \subseteq S, x.carry \subseteq S, x.reuse \subseteq S,
           JournalPresses(x) \subseteq S,
           x.seq.owned \subseteq S, x.seq.members \subseteq S,
           x.seq.matchMembers \subseteq S, x.seq.driver \in S,
           \A a \in ToSet(x.active) : a.members \subseteq S /\ a.driver \in S
    PROVE  Referenced(x) \subseteq S
  <1>1. UNION {a.members \cup {a.driver} : a \in ToSet(x.active)} \subseteq S
    OBVIOUS
  <1>2. QED
    BY <1>1 DEF Referenced

LEMMA ReferencedParts ==
    ASSUME NEW x
    PROVE  /\ x.physical \subseteq Referenced(x) /\ x.carry \subseteq Referenced(x)
           /\ x.reuse \subseteq Referenced(x) /\ JournalPresses(x) \subseteq Referenced(x)
           /\ x.seq.owned \subseteq Referenced(x) /\ x.seq.members \subseteq Referenced(x)
           /\ x.seq.matchMembers \subseteq Referenced(x) /\ x.seq.driver \in Referenced(x)
           /\ \A a \in ToSet(x.active) :
                a.members \subseteq Referenced(x) /\ a.driver \in Referenced(x)
  <1>1. ASSUME NEW a \in ToSet(x.active)
        PROVE  a.members \subseteq Referenced(x) /\ a.driver \in Referenced(x)
    <2>1. a.members \cup {a.driver} \in {b.members \cup {b.driver} : b \in ToSet(x.active)}
      OBVIOUS
    <2>2. QED
      BY <2>1 DEF Referenced
  <1>2. QED
    BY <1>1 DEF Referenced

LEMMA JournalPressesAre ==
    ASSUME NEW x
    PROVE  \A p : p \in JournalPresses(x) <=>
              \E i \in DOMAIN x.journal : \E k \in DOMAIN x.journal[i].events :
                  p = x.journal[i].events[k].press
  BY DEF JournalPresses, ToSet

LEMMA SameJournalPresses ==
    ASSUME NEW x \in Engines, NEW y \in Engines, SameEvents(x, y)
    PROVE  JournalPresses(y) = JournalPresses(x)
  <1>1. DOMAIN y.journal = DOMAIN x.journal
    BY DEF Engines, SameEvents
  <1>2. \A i \in DOMAIN x.journal : y.journal[i].events = x.journal[i].events
    BY DEF SameEvents
  <1>3. QED
    BY <1>1, <1>2 DEF JournalPresses

(* A function over the domain of a sequence is a sequence.                  *)
LEMMA MapType ==
    ASSUME NEW A, NEW B, NEW s \in Seq(A), NEW f,
           f = [i \in DOMAIN s |-> f[i]], \A i \in DOMAIN s : f[i] \in B
    PROVE  f \in Seq(B) /\ Len(f) = Len(s) /\ DOMAIN f = DOMAIN s
  <1>1. DOMAIN s = 1 .. Len(s) /\ Len(s) \in Nat
    OBVIOUS
  <1>2. f \in [1 .. Len(s) -> B]
    BY <1>1
  <1>3. QED
    BY <1>1, <1>2

LEMMA ResolveFields ==
    ASSUME NEW x \in Engines, NEW route \in Route
    PROVE  LET y == Resolve(x, route) IN
           /\ y \in Engines
           /\ y = [x EXCEPT !.route = y.route, !.journal = y.journal]
           /\ y.route = [p \in Press |->
                IF Matching(x) /\ p \in x.seq.owned THEN route ELSE x.route[p]]
           /\ SameEvents(x, y)
  <1>. DEFINE y == Resolve(x, route)
              j == [i \in DOMAIN x.journal |->
                      IF x.journal[i].candidate = "undecided"
                        THEN [x.journal[i] EXCEPT !.candidate = route] ELSE x.journal[i]]
              r == [p \in Press |-> IF p \in x.seq.owned THEN route ELSE x.route[p]]
  <1>1. CASE ~Matching(x)
    <2>1. y = x
      BY <1>1 DEF Resolve
    <2>2. QED
      BY <1>1, <2>1 DEF Engines, SameEvents
  <1>2. CASE Matching(x)
    <2>1. x.journal \in Seq(JournalFrames)
      BY DEF Engines
    <2>2. ASSUME NEW i \in DOMAIN x.journal
          PROVE  /\ j[i] \in JournalFrames
                 /\ j[i].device = x.journal[i].device /\ j[i].events = x.journal[i].events
      <3>1. x.journal[i] \in JournalFrames
        BY <2>1
      <3>2. CASE x.journal[i].candidate = "undecided"
        BY <3>1, <3>2 DEF JournalFrames
      <3>3. CASE x.journal[i].candidate # "undecided"
        BY <3>1, <3>3
      <3>4. QED
        BY <3>2, <3>3
    <2>3. j \in Seq(JournalFrames) /\ Len(j) = Len(x.journal) /\ DOMAIN j = DOMAIN x.journal
      <3>1. j = [i \in DOMAIN x.journal |-> j[i]] /\ \A i \in DOMAIN x.journal : j[i] \in JournalFrames
        BY <2>2
      <3>. HIDE DEF j
      <3>2. QED
        BY <2>1, <3>1, MapType
    <2>4. r \in [Press -> Route]
      BY DEF Engines
    <2>5. y = [x EXCEPT !.route = r, !.journal = j]
      BY <1>2 DEF Resolve
    <2>. HIDE DEF j, r
    <2>6. y \in Engines /\ y.route = r /\ y.journal = j
      BY <2>3, <2>4, <2>5 DEF Engines
    <2>7. SameEvents(x, y)
      BY <2>2, <2>3, <2>6 DEF SameEvents
    <2>8. y = [x EXCEPT !.route = y.route, !.journal = y.journal]
      BY <2>5, <2>6
    <2>9. QED
      BY <1>2, <2>6, <2>7, <2>8 DEF r
  <1>3. QED
    BY <1>1, <1>2

LEMMA SameDeviceOrOutputs ==
    ASSUME NEW x \in Engines, NEW y \in Engines, SameEvents(x, y), DeviceOrOutputs(x)
    PROVE  DeviceOrOutputs(y)
  <1>1. DOMAIN y.journal = DOMAIN x.journal
    BY DEF Engines, SameEvents
  <1>2. QED
    BY <1>1 DEF SameEvents, DeviceOrOutputs, OnlyOutputs

LEMMA NoCandidateType == NoCandidate \in Candidate
  BY DEF NoCandidate, Candidate

LEMMA IdleFields ==
    ASSUME NEW x \in Engines
    PROVE  LET y == Idle(x) IN
           /\ y \in Engines
           /\ y.mode = "idle" /\ y.seq = NoCandidate /\ y.activePrefix = 0
           /\ y.carry = {} /\ y.deadline = FALSE
           /\ y.physical = x.physical /\ y.logicalCount = x.logicalCount
           /\ y.route = x.route /\ y.reuse = x.reuse
           /\ y.journal = x.journal /\ y.active = x.active
  BY NoCandidateType DEF Idle, Engines, Mode

LEMMA FailFields ==
    ASSUME NEW x \in Engines
    PROVE  LET y == Fail(x) IN
           /\ y \in Engines
           /\ y.mode = "idle" /\ y.seq = NoCandidate /\ y.activePrefix = 0
           /\ y.carry = {} /\ y.deadline = FALSE
           /\ y.physical = x.physical /\ y.logicalCount = x.logicalCount
           /\ y.reuse = x.reuse /\ y.active = x.active
           /\ y.route = [p \in Press |->
                IF Matching(x) /\ p \in x.seq.owned THEN "forwarded" ELSE x.route[p]]
           /\ SameEvents(x, y)
  <1>. DEFINE r == Resolve(x, "forwarded")
  <1>1. /\ r \in Engines
        /\ r = [x EXCEPT !.route = r.route, !.journal = r.journal]
        /\ r.route = [p \in Press |->
                IF Matching(x) /\ p \in x.seq.owned THEN "forwarded" ELSE x.route[p]]
        /\ SameEvents(x, r)
    BY ResolveFields DEF Route
  <1>. HIDE DEF r
  <1>2. /\ r.physical = x.physical /\ r.logicalCount = x.logicalCount
        /\ r.reuse = x.reuse /\ r.active = x.active
    BY <1>1 DEF Engines
  <1>3. Fail(x) = Idle(r)
    BY DEF Fail, r
  <1>. DEFINE y == Idle(r)
  <1>4. /\ y \in Engines
        /\ y.mode = "idle" /\ y.seq = NoCandidate /\ y.activePrefix = 0
        /\ y.carry = {} /\ y.deadline = FALSE
        /\ y.physical = r.physical /\ y.logicalCount = r.logicalCount
        /\ y.route = r.route /\ y.reuse = r.reuse
        /\ y.journal = r.journal /\ y.active = r.active
    BY <1>1, IdleFields
  <1>. HIDE DEF y
  <1>5. SameEvents(x, y)
    BY <1>1, <1>4 DEF SameEvents
  <1>6. QED
    BY <1>1, <1>2, <1>3, <1>4, <1>5 DEF y

(* No engine between two calls of its methods has a candidate in idle mode. *)
LEMMA IdleSound ==
    ASSUME NEW y \in Engines, y.mode = "idle", y.seq = NoCandidate, ~y.deadline,
           Counted(y), DeviceOrOutputs(y)
    PROVE  Sound(y)
  <1>1. Configured(y)
    BY DEF Configured
  <1>2. OwnedUndecided(y)
    BY DEF OwnedUndecided, NoCandidate
  <1>3. DeadlineFits(y)
    BY DEF DeadlineFits
  <1>4. QED
    BY <1>1, <1>2, <1>3 DEF Sound

LEMMA FailKeeps ==
    ASSUME NEW x, Sound(x)
    PROVE  Sound(Fail(x)) /\ Evolves(x, Fail(x), {})
  <1>. DEFINE y == Fail(x)
  <1>0. x \in Engines
    BY DEF Sound
  <1>1. /\ y \in Engines
        /\ y.mode = "idle" /\ y.seq = NoCandidate
        /\ y.carry = {} /\ y.deadline = FALSE
        /\ y.physical = x.physical /\ y.logicalCount = x.logicalCount
        /\ y.reuse = x.reuse /\ y.active = x.active
        /\ y.route = [p \in Press |->
                IF Matching(x) /\ p \in x.seq.owned THEN "forwarded" ELSE x.route[p]]
        /\ SameEvents(x, y)
    BY <1>0, FailFields
  <1>. HIDE DEF y
  <1>2. Sound(y)
    <2>1. Counted(y)
      BY <1>1 DEF Counted, Sound
    <2>2. DeviceOrOutputs(y)
      BY <1>0, <1>1, SameDeviceOrOutputs DEF Sound
    <2>3. QED
      BY <1>1, <2>1, <2>2, IdleSound
  <1>3. Referenced(y) \subseteq Referenced(x) \cup {NoPress}
    <2>1. JournalPresses(y) = JournalPresses(x)
      BY <1>0, <1>1, SameJournalPresses
    <2>2. /\ y.seq.owned = {} /\ y.seq.members = {} /\ y.seq.matchMembers = {}
          /\ y.seq.driver = NoPress
      BY <1>1 DEF NoCandidate
    <2>. DEFINE S == Referenced(x) \cup {NoPress}
    <2>3. /\ y.physical \subseteq S /\ y.carry \subseteq S /\ y.reuse \subseteq S
          /\ JournalPresses(y) \subseteq S
          /\ \A a \in ToSet(y.active) : a.members \subseteq S /\ a.driver \in S
      BY <1>1, <2>1, ReferencedParts
    <2>. HIDE DEF S
    <2>4. Referenced(y) \subseteq S
      BY <2>2, <2>3, ReferencedIn DEF S
    <2>5. QED
      BY <2>4 DEF S
  <1>4. \A p \in Press : x.route[p] # "undecided" => y.route[p] = x.route[p]
    BY <1>1 DEF Sound, OwnedUndecided
  <1>5. \A p \in x.seq.owned : y.route[p] # "undecided"
    <2>1. x.seq.owned \subseteq Press
      BY <1>0 DEF Engines, Candidate
    <2>2. CASE Matching(x)
      BY <1>1, <2>1, <2>2
    <2>3. CASE ~Matching(x)
      BY <2>3 DEF Sound, Configured, NoCandidate
    <2>4. QED
      BY <2>2, <2>3
  <1>6. Evolves(x, y, {})
    BY <1>3, <1>4, <1>5 DEF Evolves
  <1>7. QED
    BY <1>2, <1>6 DEF y

-----------------------------------------------------------------------------
(* physical.go: presses begin and end                                      *)

(* What a method leaves of the candidate and the deadline.                  *)
SameMatching(x, y) ==
    /\ y.mode = x.mode /\ y.seq = x.seq /\ y.activePrefix = x.activePrefix
    /\ y.deadline = x.deadline

LEMMA SameMatchingKeeps ==
    ASSUME NEW x, NEW y, SameMatching(x, y), Configured(x), DeadlineFits(x)
    PROVE  Configured(y) /\ DeadlineFits(y)
  BY DEF SameMatching, Configured, SourceCandidate, BindingCandidate, Matching, DeadlineFits

LEMMA DownFields ==
    ASSUME NEW x \in Engines, NEW S \in SUBSET Press
    PROVE  LET y == Down(x, S) IN
           /\ y \in Engines /\ SameMatching(x, y)
           /\ y.physical = x.physical \cup S
           /\ y.logicalCount = [key \in Logical |-> x.logicalCount[key] + CountOf(S, key)]
           /\ y.route = [p \in Press |-> IF p \in S THEN "undecided" ELSE x.route[p]]
           /\ y.carry = x.carry /\ y.reuse = x.reuse
           /\ y.journal = x.journal /\ y.active = x.active
  <1>. DEFINE c == [key \in Logical |-> x.logicalCount[key] + CountOf(S, key)]
              r == [p \in Press |-> IF p \in S THEN "undecided" ELSE x.route[p]]
  <1>1. c \in [Logical -> Nat]
    <2>1. x.logicalCount \in [Logical -> Nat]
      BY DEF Engines
    <2>2. \A key \in Logical : CountOf(S, key) \in Nat
      BY CountType
    <2>3. QED
      BY <2>1, <2>2
  <1>2. r \in [Press -> Route]
    BY DEF Engines, Route
  <1>3. Down(x, S) = [x EXCEPT !.physical = x.physical \cup S, !.logicalCount = c, !.route = r]
    BY DEF Down, Engines
  <1>. HIDE DEF c, r
  <1>4. QED
    BY <1>1, <1>2, <1>3 DEF c, r, Engines, SameMatching

LEMMA DownKeeps ==
    ASSUME NEW x, Sound(x), NEW S \in SUBSET Press, S \cap Referenced(x) = {}
    PROVE  Sound(Down(x, S)) /\ Evolves(x, Down(x, S), S)
  <1>. DEFINE y == Down(x, S)
  <1>0. x \in Engines
    BY DEF Sound
  <1>1. /\ y \in Engines /\ SameMatching(x, y)
        /\ y.physical = x.physical \cup S
        /\ y.logicalCount = [key \in Logical |-> x.logicalCount[key] + CountOf(S, key)]
        /\ y.route = [p \in Press |-> IF p \in S THEN "undecided" ELSE x.route[p]]
        /\ y.carry = x.carry /\ y.reuse = x.reuse
        /\ y.journal = x.journal /\ y.active = x.active
    BY <1>0, DownFields
  <1>. HIDE DEF y
  <1>2. Counted(y)
    <2>1. x.physical \in SUBSET Press /\ x.physical \cap S = {}
      BY <1>0, ReferencedParts DEF Engines
    <2>2. \A key \in Logical : CountOf(y.physical, key) = CountOf(x.physical, key) + CountOf(S, key)
      BY <1>1, <2>1, CountUnion
    <2>3. QED
      BY <1>1, <2>2 DEF Counted, Sound
  <1>3. Configured(y) /\ DeadlineFits(y)
    BY <1>1, SameMatchingKeeps DEF Sound
  <1>4. OwnedUndecided(y)
    BY <1>0, <1>1 DEF Sound, OwnedUndecided, SameMatching, Engines, Candidate
  <1>5. DeviceOrOutputs(y)
    BY <1>1 DEF Sound, DeviceOrOutputs
  <1>6. Referenced(y) \subseteq Referenced(x) \cup S
    <2>. DEFINE T == Referenced(x) \cup S
    <2>1. JournalPresses(y) = JournalPresses(x)
      BY <1>1 DEF JournalPresses
    <2>2. y.seq = x.seq
      BY <1>1 DEF SameMatching
    <2>3. /\ y.physical \subseteq T /\ y.carry \subseteq T /\ y.reuse \subseteq T
          /\ JournalPresses(y) \subseteq T
          /\ y.seq.owned \subseteq T /\ y.seq.members \subseteq T
          /\ y.seq.matchMembers \subseteq T /\ y.seq.driver \in T
          /\ \A a \in ToSet(y.active) : a.members \subseteq T /\ a.driver \in T
      BY <1>1, <2>1, <2>2, ReferencedParts
    <2>. HIDE DEF T
    <2>4. Referenced(y) \subseteq T
      BY <2>3, ReferencedIn
    <2>5. QED
      BY <2>4 DEF T
  <1>7. Evolves(x, y, S)
    BY <1>1, <1>6 DEF Evolves, SameMatching
  <1>8. QED
    BY <1>1, <1>2, <1>3, <1>4, <1>5, <1>7 DEF Sound, y

LEMMA ReleaseFields ==
    ASSUME NEW x \in Engines, Counted(x), NEW S \in SUBSET x.physical
    PROVE  LET y == Release(x, S) IN
           /\ y \in Engines /\ SameMatching(x, y)
           /\ y.physical = x.physical \ S
           /\ Counted(y)
           /\ y.route = x.route
           /\ y.carry = x.carry \ S /\ y.reuse = x.reuse \ S
           /\ y.journal = x.journal /\ y.active = x.active
  <1>. DEFINE c == [key \in Logical |-> x.logicalCount[key] - CountOf(S, key)]
  <1>1. x.physical \in SUBSET Press
    BY DEF Engines
  <1>2. \A key \in Logical : c[key] = CountOf(x.physical \ S, key)
    BY <1>1, CountDifference DEF Counted
  <1>3. c \in [Logical -> Nat]
    <2>1. \A key \in Logical : CountOf(x.physical \ S, key) \in Nat
      BY <1>1, CountType
    <2>2. QED
      BY <1>2, <2>1
  <1>4. Release(x, S) = [x EXCEPT !.physical = x.physical \ S, !.logicalCount = c,
                                  !.reuse = x.reuse \ S, !.carry = x.carry \ S]
    BY DEF Release, Engines
  <1>. HIDE DEF c
  <1>5. QED
    BY <1>2, <1>3, <1>4 DEF Engines, SameMatching, Counted

LEMMA ReleaseKeeps ==
    ASSUME NEW x, Sound(x), NEW S \in SUBSET x.physical
    PROVE  Sound(Release(x, S)) /\ Evolves(x, Release(x, S), {})
  <1>. DEFINE y == Release(x, S)
  <1>0. x \in Engines /\ Counted(x)
    BY DEF Sound
  <1>1. /\ y \in Engines /\ SameMatching(x, y)
        /\ y.physical = x.physical \ S
        /\ Counted(y)
        /\ y.route = x.route
        /\ y.carry = x.carry \ S /\ y.reuse = x.reuse \ S
        /\ y.journal = x.journal /\ y.active = x.active
    BY <1>0, ReleaseFields
  <1>. HIDE DEF y
  <1>2. Configured(y) /\ DeadlineFits(y)
    BY <1>1, SameMatchingKeeps DEF Sound
  <1>3. OwnedUndecided(y)
    BY <1>1 DEF Sound, OwnedUndecided, SameMatching
  <1>4. DeviceOrOutputs(y)
    BY <1>1 DEF Sound, DeviceOrOutputs
  <1>5. Referenced(y) \subseteq Referenced(x)
    <2>. DEFINE T == Referenced(x)
    <2>1. JournalPresses(y) = JournalPresses(x)
      BY <1>1 DEF JournalPresses
    <2>2. y.seq = x.seq
      BY <1>1 DEF SameMatching
    <2>3. /\ y.physical \subseteq T /\ y.carry \subseteq T /\ y.reuse \subseteq T
          /\ JournalPresses(y) \subseteq T
          /\ y.seq.owned \subseteq T /\ y.seq.members \subseteq T
          /\ y.seq.matchMembers \subseteq T /\ y.seq.driver \in T
          /\ \A a \in ToSet(y.active) : a.members \subseteq T /\ a.driver \in T
      BY <1>1, <2>1, <2>2, ReferencedParts
    <2>. HIDE DEF T
    <2>4. QED
      BY <2>3, ReferencedIn DEF T
  <1>6. Evolves(x, y, {})
    BY <1>1, <1>5 DEF Evolves, SameMatching
  <1>7. QED
    BY <1>1, <1>2, <1>3, <1>4, <1>6 DEF Sound, y

-----------------------------------------------------------------------------
(* matcher.go                                                              *)

LEMMA SourceAt ==
    ASSUME NEW i \in DOMAIN Sources
    PROVE  /\ i \in Nat \ {0} /\ Sources[i] \in Source
           /\ Sources[i].bindings \in Seq(Binding)
           /\ DOMAIN Sources[i].bindings \subseteq Nat \ {0}
           /\ Sources[i].mode \in {"action", "tap", "hold"} /\ Sources[i].target \in Code
  <1>1. i \in Nat \ {0} /\ Sources[i] \in Source
    BY SourcesAssumption
  <1>2. /\ Sources[i].bindings \in Seq(Binding)
        /\ Sources[i].mode \in {"action", "tap", "hold"} /\ Sources[i].target \in Code
    BY <1>1 DEF Source
  <1>3. \A b \in DOMAIN Sources[i].bindings : b \in Nat \ {0}
    BY <1>2
  <1>4. QED
    BY <1>1, <1>2, <1>3

LEMMA BindingAt ==
    ASSUME NEW i \in DOMAIN Sources, NEW b \in DOMAIN Sources[i].bindings
    PROVE  Sources[i].bindings[b].action \in Action
  <1>1. Sources[i].bindings \in Seq(Binding)
    BY SourceAt
  <1>2. Sources[i].bindings[b] \in Binding
    BY <1>1
  <1>3. QED
    BY <1>2 DEF Binding

(* A step of the matcher that decides nothing.                             *)
LEMMA MatchingKeeps ==
    ASSUME NEW x, Sound(x), NEW y \in Engines,
           y.physical = x.physical, y.logicalCount = x.logicalCount,
           y.route = x.route, y.carry = x.carry, y.reuse = x.reuse,
           SameEvents(x, y), y.active = x.active,
           Configured(y), DeadlineFits(y), OwnedUndecided(y),
           x.seq.owned \subseteq y.seq.owned,
           y.seq.owned \cup y.seq.members \cup y.seq.matchMembers \cup {y.seq.driver}
             \subseteq Referenced(x) \cup {NoPress}
    PROVE  Sound(y) /\ Evolves(x, y, {})
  <1>0. x \in Engines
    BY DEF Sound
  <1>1. DeviceOrOutputs(y)
    BY <1>0, SameDeviceOrOutputs DEF Sound
  <1>2. Counted(y)
    BY DEF Counted, Sound
  <1>. DEFINE T == Referenced(x) \cup {NoPress}
  <1>3. JournalPresses(y) = JournalPresses(x)
    BY <1>0, SameJournalPresses
  <1>4. /\ y.physical \subseteq T /\ y.carry \subseteq T /\ y.reuse \subseteq T
        /\ JournalPresses(y) \subseteq T
        /\ \A a \in ToSet(y.active) : a.members \subseteq T /\ a.driver \in T
    BY <1>3, ReferencedParts
  <1>5. /\ y.seq.owned \subseteq T /\ y.seq.members \subseteq T
        /\ y.seq.matchMembers \subseteq T /\ y.seq.driver \in T
    OBVIOUS
  <1>. HIDE DEF T
  <1>6. Referenced(y) \subseteq T
    BY <1>4, <1>5, ReferencedIn
  <1>7. Evolves(x, y, {})
    BY <1>6 DEF Evolves, T
  <1>8. QED
    BY <1>1, <1>2, <1>7 DEF Sound

LEMMA StartSourceKeeps ==
    ASSUME NEW x, Sound(x), x.mode = "idle", NEW p
    PROVE  LET y == StartSource(x, p) IN
           Sound(y) /\ Evolves(x, y, {}) /\ y.journal = x.journal /\ y.active = x.active
             /\ Matching(y)
  <1>. DEFINE c == NewCandidate(x, PossibleSources(x, p), Borrowed(x, p))
              reserve == Borrowed(x, p) = {} /\ logical(p) \in ReservedModifiers
              y == StartSource(x, p)
  <1>0. x \in Engines /\ x.seq = NoCandidate
    BY DEF Sound, Configured, Matching
  <1>1. PossibleSources(x, p) \subseteq DOMAIN Sources
    BY DEF PossibleSources
  <1>2. DOMAIN Sources \subseteq Nat
    BY SourceAt
  <1>3. Borrowed(x, p) \in SUBSET Press /\ PossibleSources(x, p) \in SUBSET Nat
    BY <1>0, <1>1, <1>2 DEF Borrowed, Engines
  <1>4. /\ c \in Candidate
        /\ c.possible = PossibleSources(x, p) /\ c.matched = 0
        /\ c.owned = {} /\ c.matchMembers = {} /\ c.driver = NoPress
        /\ c.members = Borrowed(x, p) \cap x.physical
    BY <1>0, <1>3 DEF NewCandidate, NoCandidate, Candidate, Engines
  <1>5. y = [x EXCEPT !.seq = c, !.mode = IF reserve THEN "reserved" ELSE "prefix",
                      !.deadline = ~reserve]
    BY DEF StartSource
  <1>. HIDE DEF c, reserve, y
  <1>6. /\ y \in Engines /\ y.seq = c
        /\ y.mode = (IF reserve THEN "reserved" ELSE "prefix") /\ y.deadline = ~reserve
        /\ y.physical = x.physical /\ y.logicalCount = x.logicalCount
        /\ y.route = x.route /\ y.carry = x.carry /\ y.reuse = x.reuse
        /\ y.journal = x.journal /\ y.active = x.active
    BY <1>0, <1>4, <1>5 DEF Engines, Mode
  <1>7. SameEvents(x, y)
    BY <1>6 DEF SameEvents
  <1>8. Configured(y) /\ Matching(y)
    BY <1>1, <1>4, <1>6 DEF Configured, SourceCandidate, Matching
  <1>9. DeadlineFits(y)
    BY <1>6 DEF DeadlineFits
  <1>10. OwnedUndecided(y) /\ x.seq.owned \subseteq y.seq.owned
    BY <1>0, <1>4, <1>6 DEF OwnedUndecided, NoCandidate
  <1>11. y.seq.owned \cup y.seq.members \cup y.seq.matchMembers \cup {y.seq.driver}
           \subseteq Referenced(x) \cup {NoPress}
    BY <1>4, <1>6, ReferencedParts
  <1>12. QED
    BY <1>6, <1>7, <1>8, <1>9, <1>10, <1>11, MatchingKeeps DEF y

LEMMA StartBindingKeeps ==
    ASSUME NEW x, Sound(x), x.mode = "await"
    PROVE  LET y == StartBinding(x) IN
           Sound(y) /\ Evolves(x, y, {}) /\ y.journal = x.journal /\ y.active = x.active
             /\ Matching(y)
  <1>. DEFINE bindings == Sources[x.activePrefix].bindings
              possible == {b \in DOMAIN bindings :
                             \A q \in x.carry : logical(q) \in bindings[b].keys}
              c == NewCandidate(x, possible, x.carry)
              y == StartBinding(x)
  <1>0. x \in Engines /\ x.seq = NoCandidate /\ x.activePrefix \in DOMAIN Sources /\ x.deadline
    BY DEF Sound, Configured, Matching, DeadlineFits
  <1>1. possible \subseteq DOMAIN bindings /\ DOMAIN bindings \subseteq Nat
    BY <1>0, SourceAt
  <1>2. x.carry \in SUBSET Press /\ possible \in SUBSET Nat
    BY <1>0, <1>1 DEF Engines
  <1>3. y = [x EXCEPT !.seq = c, !.mode = "binding"]
    BY DEF StartBinding
  <1>. HIDE DEF possible
  <1>4. /\ c \in Candidate
        /\ c.possible = possible /\ c.matched = 0
        /\ c.owned = {} /\ c.matchMembers = {} /\ c.driver = NoPress
        /\ c.members = x.carry \cap x.physical
    BY <1>0, <1>2 DEF NewCandidate, NoCandidate, Candidate, Engines
  <1>. HIDE DEF c, y
  <1>6. /\ y \in Engines /\ y.seq = c /\ y.mode = "binding" /\ y.deadline = x.deadline
        /\ y.activePrefix = x.activePrefix
        /\ y.physical = x.physical /\ y.logicalCount = x.logicalCount
        /\ y.route = x.route /\ y.carry = x.carry /\ y.reuse = x.reuse
        /\ y.journal = x.journal /\ y.active = x.active
    BY <1>0, <1>3, <1>4 DEF Engines, Mode
  <1>7. SameEvents(x, y)
    BY <1>6 DEF SameEvents
  <1>8. Configured(y) /\ Matching(y)
    BY <1>0, <1>1, <1>4, <1>6 DEF Configured, BindingCandidate, Matching
  <1>9. DeadlineFits(y)
    BY <1>0, <1>6 DEF DeadlineFits
  <1>10. OwnedUndecided(y) /\ x.seq.owned \subseteq y.seq.owned
    BY <1>0, <1>4, <1>6 DEF OwnedUndecided, NoCandidate
  <1>11. y.seq.owned \cup y.seq.members \cup y.seq.matchMembers \cup {y.seq.driver}
           \subseteq Referenced(x) \cup {NoPress}
    BY <1>4, <1>6, ReferencedParts
  <1>12. QED
    BY <1>6, <1>7, <1>8, <1>9, <1>10, <1>11, MatchingKeeps DEF y

(* What every step of the matcher does.                                    *)
MatcherStep(x, y) ==
    /\ Sound(y) /\ Evolves(x, y, {})
    /\ SameEvents(x, y) /\ y.active = x.active /\ y.physical = x.physical

LEMMA MatcherStepTransitive ==
    ASSUME NEW x, NEW y, NEW z, Sound(x), MatcherStep(x, y), MatcherStep(y, z)
    PROVE  MatcherStep(x, z)
  <1>1. x \in Engines /\ y \in Engines /\ z \in Engines
    BY DEF Sound, MatcherStep
  <1>2. Evolves(x, z, {} \cup {})
    BY <1>1, EvolvesTransitive DEF MatcherStep
  <1>3. DOMAIN y.journal = DOMAIN x.journal
    BY <1>1 DEF Engines, SameEvents, MatcherStep
  <1>4. SameEvents(x, z)
    BY <1>3 DEF MatcherStep, SameEvents
  <1>5. {} \cup {} = {}
    OBVIOUS
  <1>6. Evolves(x, z, {})
    BY <1>2, <1>5, Zenon
  <1>7. QED
    BY <1>4, <1>6 DEF MatcherStep

LEMMA FailStep ==
    ASSUME NEW x, Sound(x)
    PROVE  MatcherStep(x, Fail(x))
  <1>1. x \in Engines
    BY DEF Sound
  <1>2. LET y == Fail(x) IN SameEvents(x, y) /\ y.active = x.active /\ y.physical = x.physical
    BY <1>1, FailFields
  <1>3. QED
    BY <1>2, FailKeeps DEF MatcherStep

LEMMA MatcherStepReflexive ==
    ASSUME NEW x, Sound(x)
    PROVE  MatcherStep(x, x)
  BY DEF MatcherStep, Evolves, SameEvents

LEMMA OwnKeeps ==
    ASSUME NEW x, Sound(x), Matching(x), NEW p \in Press, p \in Referenced(x),
           x.route[p] = "undecided"
    PROVE  LET y == Own(x, p) IN
           /\ MatcherStep(x, y) /\ Matching(y) /\ y.mode = x.mode
           /\ y.seq.possible \subseteq x.seq.possible
  <1>. DEFINE s == x.seq
              c == [s EXCEPT !.owned = s.owned \cup {p},
                             !.members = {q \in s.members : logical(q) # logical(p)} \cup {p},
                             !.held = s.held \cup {p},
                             !.driver = IF IsModifierPress(p) THEN s.driver ELSE p,
                             !.possible = {i \in s.possible : logical(p) \in Chord(x, i)}]
              y == Own(x, p)
  <1>0. x \in Engines /\ s \in Candidate
    BY DEF Sound, Engines
  <1>1. y = [x EXCEPT !.seq = c]
    BY <1>0 DEF Own, Engines, Candidate
  <1>2. /\ c \in Candidate
        /\ c.owned = s.owned \cup {p}
        /\ c.members \subseteq s.members \cup {p}
        /\ c.matchMembers = s.matchMembers /\ c.matched = s.matched
        /\ c.driver \in {s.driver, p}
        /\ c.possible \subseteq s.possible
    BY <1>0 DEF Candidate
  <1>. HIDE DEF c, y
  <1>3. /\ y \in Engines /\ y.seq = c
        /\ y.mode = x.mode /\ y.deadline = x.deadline /\ y.activePrefix = x.activePrefix
        /\ y.physical = x.physical /\ y.logicalCount = x.logicalCount
        /\ y.route = x.route /\ y.carry = x.carry /\ y.reuse = x.reuse
        /\ y.journal = x.journal /\ y.active = x.active
    BY <1>0, <1>1, <1>2 DEF Engines
  <1>4. SameEvents(x, y)
    BY <1>3 DEF SameEvents
  <1>5. Configured(y) /\ Matching(y)
    BY <1>2, <1>3 DEF Sound, Configured, SourceCandidate, BindingCandidate, Matching
  <1>6. DeadlineFits(y)
    BY <1>3 DEF Sound, DeadlineFits
  <1>7. OwnedUndecided(y) /\ x.seq.owned \subseteq y.seq.owned
    BY <1>2, <1>3 DEF Sound, OwnedUndecided
  <1>8. y.seq.owned \cup y.seq.members \cup y.seq.matchMembers \cup {y.seq.driver}
           \subseteq Referenced(x) \cup {NoPress}
    BY <1>2, <1>3, ReferencedParts
  <1>9. Sound(y) /\ Evolves(x, y, {})
    BY <1>3, <1>4, <1>5, <1>6, <1>7, <1>8, MatchingKeeps
  <1>10. QED
    BY <1>2, <1>3, <1>4, <1>5, <1>9 DEF MatcherStep, y

LEMMA LeaveReservationKeeps ==
    ASSUME NEW x, Sound(x), Matching(x), NEW p
    PROVE  LET y == LeaveReservation(x, p) IN MatcherStep(x, y) /\ Matching(y)
  <1>. DEFINE y == LeaveReservation(x, p)
  <1>1. CASE x.mode = "reserved" /\ logical(p) \notin ReservedModifiers
    <2>0. x \in Engines
      BY DEF Sound
    <2>1. y = [x EXCEPT !.mode = "prefix", !.deadline = TRUE]
      BY <1>1 DEF LeaveReservation
    <2>. HIDE DEF y
    <2>2. /\ y \in Engines /\ y.seq = x.seq
          /\ y.mode = "prefix" /\ y.deadline = TRUE /\ y.activePrefix = x.activePrefix
          /\ y.physical = x.physical /\ y.logicalCount = x.logicalCount
          /\ y.route = x.route /\ y.carry = x.carry /\ y.reuse = x.reuse
          /\ y.journal = x.journal /\ y.active = x.active
      BY <2>0, <2>1 DEF Engines, Mode
    <2>3. SameEvents(x, y)
      BY <2>2 DEF SameEvents
    <2>4. Configured(y) /\ Matching(y) /\ DeadlineFits(y)
      BY <1>1, <2>2 DEF Sound, Configured, SourceCandidate, Matching, DeadlineFits
    <2>5. OwnedUndecided(y) /\ x.seq.owned \subseteq y.seq.owned
      BY <2>2 DEF Sound, OwnedUndecided
    <2>6. y.seq.owned \cup y.seq.members \cup y.seq.matchMembers \cup {y.seq.driver}
             \subseteq Referenced(x) \cup {NoPress}
      BY <2>2, ReferencedParts
    <2>7. Sound(y) /\ Evolves(x, y, {})
      BY <2>2, <2>3, <2>4, <2>5, <2>6, MatchingKeeps
    <2>8. QED
      BY <2>2, <2>3, <2>4, <2>7 DEF MatcherStep, y
  <1>2. CASE ~(x.mode = "reserved" /\ logical(p) \notin ReservedModifiers)
    BY <1>2, MatcherStepReflexive DEF LeaveReservation
  <1>3. QED
    BY <1>1, <1>2

LEMMA MatchKeeps ==
    ASSUME NEW x, Sound(x), Matching(x)
    PROVE  LET y == Match(x) IN MatcherStep(x, y) /\ Matching(y)
  <1>. DEFINE s == x.seq
              open == \/ s.matched = 0
                      \/ x.mode = "binding"
                      \/ Sources[s.matched].mode = "hold"
              complete == {i \in s.possible : Complete(x, i)}
              c == [s EXCEPT !.matched = Min(complete), !.broken = FALSE,
                             !.matchMembers = {q \in s.members :
                                                  logical(q) \in Chord(x, Min(complete))}]
              y == Match(x)
  <1>0. x \in Engines /\ s \in Candidate
    BY DEF Sound, Engines
  <1>1. CASE ~open \/ complete = {}
    <2>1. y = x
      BY <1>1 DEF Match
    <2>2. QED
      BY <2>1, MatcherStepReflexive
  <1>2. CASE ~(~open \/ complete = {})
    <2>1. complete \subseteq s.possible /\ complete \in SUBSET Nat
      BY <1>0 DEF Candidate
    <2>2. Min(complete) \in complete
      BY <1>2, <2>1, MinIn
    <2>3. y = [x EXCEPT !.seq = c]
      <3>1. y = [x EXCEPT !.seq.matched = Min(complete), !.seq.broken = FALSE,
                          !.seq.matchMembers = {q \in s.members :
                                                  logical(q) \in Chord(x, Min(complete))}]
        BY <1>2 DEF Match
      <3>. HIDE DEF complete
      <3>2. QED
        BY <1>0, <3>1 DEF Engines, Candidate
    <2>. HIDE DEF complete, open
    <2>4. /\ c \in Candidate
          /\ c.owned = s.owned /\ c.members = s.members /\ c.driver = s.driver
          /\ c.matchMembers \subseteq s.members /\ c.matched \in s.possible
          /\ c.possible = s.possible
      BY <1>0, <2>1, <2>2 DEF Candidate
    <2>. HIDE DEF c, y
    <2>5. /\ y \in Engines /\ y.seq = c
          /\ y.mode = x.mode /\ y.deadline = x.deadline /\ y.activePrefix = x.activePrefix
          /\ y.physical = x.physical /\ y.logicalCount = x.logicalCount
          /\ y.route = x.route /\ y.carry = x.carry /\ y.reuse = x.reuse
          /\ y.journal = x.journal /\ y.active = x.active
      BY <1>0, <2>3, <2>4 DEF Engines
    <2>6. SameEvents(x, y)
      BY <2>5 DEF SameEvents
    <2>7. Configured(y) /\ Matching(y)
      BY <2>4, <2>5 DEF Sound, Configured, SourceCandidate, BindingCandidate, Matching
    <2>8. DeadlineFits(y)
      BY <2>5 DEF Sound, DeadlineFits
    <2>9. OwnedUndecided(y) /\ x.seq.owned \subseteq y.seq.owned
      BY <2>4, <2>5 DEF Sound, OwnedUndecided
    <2>10. y.seq.owned \cup y.seq.members \cup y.seq.matchMembers \cup {y.seq.driver}
             \subseteq Referenced(x) \cup {NoPress}
      BY <2>4, <2>5, ReferencedParts
    <2>11. Sound(y) /\ Evolves(x, y, {})
      BY <2>5, <2>6, <2>7, <2>8, <2>9, <2>10, MatchingKeeps
    <2>12. QED
      BY <2>5, <2>6, <2>7, <2>11 DEF MatcherStep, y
  <1>3. QED
    BY <1>1, <1>2

LEMMA AdvancePressKeeps ==
    ASSUME NEW x, Sound(x), Matching(x), NEW tr, tr.press \in Press, tr.press \in Referenced(x)
    PROVE  MatcherStep(x, AdvancePress(x, tr))
  <1>. DEFINE p == tr.press
              y == Own(x, p)
              z == LeaveReservation(y, p)
  <1>1. CASE x.route[p] # "undecided" \/ tr.count # 1
    <2>1. AdvancePress(x, tr) = Fail(x)
      BY <1>1 DEF AdvancePress
    <2>2. QED
      BY <2>1, FailStep
  <1>2. CASE ~(x.route[p] # "undecided" \/ tr.count # 1)
    <2>1. MatcherStep(x, y) /\ Matching(y)
      BY <1>2, OwnKeeps
    <2>2. Sound(y)
      BY <2>1 DEF MatcherStep
    <2>3. CASE y.seq.possible = {}
      <3>1. AdvancePress(x, tr) = Fail(y)
        BY <1>2, <2>3 DEF AdvancePress
      <3>2. MatcherStep(y, Fail(y))
        BY <2>2, FailStep
      <3>. HIDE DEF y
      <3>3. QED
        BY <2>1, <3>1, <3>2, MatcherStepTransitive
    <2>4. CASE y.seq.possible # {}
      <3>1. AdvancePress(x, tr) = Match(z)
        BY <1>2, <2>4 DEF AdvancePress
      <3>. HIDE DEF y
      <3>2. MatcherStep(y, z) /\ Matching(z)
        BY <2>1, <2>2, LeaveReservationKeeps
      <3>3. Sound(z)
        BY <3>2 DEF MatcherStep
      <3>. HIDE DEF z
      <3>4. MatcherStep(z, Match(z))
        BY <3>2, <3>3, MatchKeeps
      <3>5. MatcherStep(x, z)
        BY <2>1, <3>2, MatcherStepTransitive
      <3>6. QED
        BY <3>1, <3>4, <3>5, MatcherStepTransitive
    <2>5. QED
      BY <2>3, <2>4
  <1>3. QED
    BY <1>1, <1>2

LEMMA AdvanceReleaseKeeps ==
    ASSUME NEW x, Sound(x), Matching(x), NEW tr
    PROVE  MatcherStep(x, AdvanceRelease(x, tr))
  <1>. DEFINE s == x.seq
              member == tr.press \in s.members
              broken == s.broken \/ tr.press \in s.matchMembers
              c == [s EXCEPT !.held = s.held \ {tr.press}, !.broken = broken]
              y == IF member
                     THEN [x EXCEPT !.seq.held = @ \ {tr.press},
                                    !.seq.broken = @ \/ tr.press \in x.seq.matchMembers]
                     ELSE x
  <1>0. x \in Engines /\ s \in Candidate
    BY DEF Sound, Engines
  <1>1. MatcherStep(x, y)
    <2>1. CASE ~member
      <3>1. y = x
        BY <2>1
      <3>2. QED
        BY <3>1, MatcherStepReflexive
    <2>2. CASE member
      <3>1. y = [x EXCEPT !.seq = c]
        BY <1>0, <2>2 DEF Engines, Candidate
      <3>2. broken \in BOOLEAN
        OBVIOUS
      <3>. HIDE DEF broken
      <3>3. /\ c \in Candidate
            /\ c.owned = s.owned /\ c.members = s.members /\ c.driver = s.driver
            /\ c.matchMembers = s.matchMembers /\ c.matched = s.matched
            /\ c.possible = s.possible
        BY <1>0, <3>2 DEF Candidate
      <3>. HIDE DEF c, y
      <3>4. /\ y \in Engines /\ y.seq = c
            /\ y.mode = x.mode /\ y.deadline = x.deadline /\ y.activePrefix = x.activePrefix
            /\ y.physical = x.physical /\ y.logicalCount = x.logicalCount
            /\ y.route = x.route /\ y.carry = x.carry /\ y.reuse = x.reuse
            /\ y.journal = x.journal /\ y.active = x.active
        BY <1>0, <3>1, <3>3 DEF Engines
      <3>5. SameEvents(x, y)
        BY <3>4 DEF SameEvents
      <3>6. Configured(y)
        BY <3>3, <3>4 DEF Sound, Configured, SourceCandidate, BindingCandidate, Matching
      <3>7. DeadlineFits(y)
        BY <3>4 DEF Sound, DeadlineFits
      <3>8. OwnedUndecided(y) /\ x.seq.owned \subseteq y.seq.owned
        BY <3>3, <3>4 DEF Sound, OwnedUndecided
      <3>9. y.seq.owned \cup y.seq.members \cup y.seq.matchMembers \cup {y.seq.driver}
               \subseteq Referenced(x) \cup {NoPress}
        BY <3>3, <3>4, ReferencedParts
      <3>10. Sound(y) /\ Evolves(x, y, {})
        BY <3>4, <3>5, <3>6, <3>7, <3>8, <3>9, MatchingKeeps
      <3>11. QED
        BY <3>4, <3>5, <3>10 DEF MatcherStep
    <2>3. QED
      BY <2>1, <2>2
  <1>2. AdvanceRelease(x, tr) \in {y, Fail(y)}
    BY DEF AdvanceRelease
  <1>. HIDE DEF y
  <1>3. MatcherStep(y, Fail(y))
    BY <1>1, FailStep DEF MatcherStep
  <1>4. MatcherStep(x, Fail(y))
    BY <1>1, <1>3, MatcherStepTransitive
  <1>5. QED
    BY <1>1, <1>2, <1>4

(* advance keeps the engine sound whatever transition it is given of a     *)
(* press that is still referenced.                                         *)
LEMMA AdvanceKeeps ==
    ASSUME NEW x, Sound(x), Matching(x), NEW tr, tr.press \in Press,
           tr.value = 1 => tr.press \in Referenced(x)
    PROVE  MatcherStep(x, Advance(x, tr))
  <1>. DEFINE foreign == x.route[tr.press] = "consumed" /\ tr.press \notin x.seq.members
              breaks == x.mode = "reserved" /\ \/ tr.value = 0 /\ x.seq.matched = 0
                                               \/ x.route[tr.press] = "forwarded"
  <1>1. CASE foreign
    <2>1. Advance(x, tr) = x
      BY <1>1 DEF Advance
    <2>2. QED
      BY <2>1, MatcherStepReflexive
  <1>2. CASE ~foreign /\ breaks
    <2>1. Advance(x, tr) = Fail(x)
      BY <1>2 DEF Advance
    <2>2. QED
      BY <2>1, FailStep
  <1>3. CASE ~foreign /\ ~breaks /\ tr.value = 1
    <2>1. Advance(x, tr) = AdvancePress(x, tr)
      BY <1>3 DEF Advance
    <2>2. QED
      BY <1>3, <2>1, AdvancePressKeeps
  <1>4. CASE ~foreign /\ ~breaks /\ tr.value = 0
    <2>1. Advance(x, tr) = AdvanceRelease(x, tr)
      BY <1>4 DEF Advance
    <2>2. QED
      BY <2>1, AdvanceReleaseKeeps
  <1>5. CASE ~foreign /\ ~breaks /\ tr.value \notin {0, 1}
    <2>1. Advance(x, tr) = x
      BY <1>5 DEF Advance
    <2>2. QED
      BY <2>1, MatcherStepReflexive
  <1>6. QED
    BY <1>1, <1>2, <1>3, <1>4, <1>5

-----------------------------------------------------------------------------
(* The journal                                                             *)

(* A step is judged by the parts of the engine it leaves.                  *)
LEMMA EvolvesBy ==
    ASSUME NEW x, NEW y, NEW N,
           y.physical \subseteq Referenced(x) \cup N \cup {NoPress},
           y.carry \subseteq Referenced(x) \cup N \cup {NoPress},
           y.reuse \subseteq Referenced(x) \cup N \cup {NoPress},
           JournalPresses(y) \subseteq Referenced(x) \cup N \cup {NoPress},
           y.seq = x.seq \/ y.seq = NoCandidate,
           \A a \in ToSet(y.active) :
              a.members \cup {a.driver} \subseteq Referenced(x) \cup N \cup {NoPress},
           \A p \in Press \ N : p \in Referenced(y) /\ x.route[p] # "undecided"
                                  => y.route[p] = x.route[p],
           \A p \in x.seq.owned \ N : p \in Referenced(y) /\ y.route[p] = "undecided"
                                         => p \in y.seq.owned
    PROVE  Evolves(x, y, N)
  <1>. DEFINE T == Referenced(x) \cup N \cup {NoPress}
  <1>1. /\ y.seq.owned \subseteq T /\ y.seq.members \subseteq T
        /\ y.seq.matchMembers \subseteq T /\ y.seq.driver \in T
    <2>1. CASE y.seq = x.seq
      BY <2>1, ReferencedParts
    <2>2. CASE y.seq = NoCandidate
      BY <2>2 DEF NoCandidate
    <2>3. QED
      BY <2>1, <2>2
  <1>2. Referenced(y) \subseteq T
    BY <1>1, ReferencedIn
  <1>3. QED
    BY <1>2 DEF Evolves

LEMMA QueueOutputsFields ==
    ASSUME NEW x \in Engines, DeviceOrOutputs(x), NEW outputs \in Seq(Output)
    PROVE  LET y == QueueOutputs(x, outputs) IN
           /\ y \in Engines /\ SameMatching(x, y)
           /\ y.physical = x.physical /\ y.logicalCount = x.logicalCount
           /\ y.route = x.route /\ y.carry = x.carry /\ y.reuse = x.reuse
           /\ y.active = x.active
           /\ DeviceOrOutputs(y)
           /\ JournalPresses(y) \subseteq JournalPresses(x) \cup {NoPress}
  <1>. DEFINE q == [k \in DOMAIN outputs |-> OutputFrame(outputs[k])]
              j == x.journal \o q
              y == QueueOutputs(x, outputs)
  <1>1. x.journal \in Seq(JournalFrames)
    BY DEF Engines
  <1>2. ASSUME NEW k \in DOMAIN outputs
        PROVE  /\ q[k] \in JournalFrames /\ OnlyOutputs(q[k])
               /\ \A m \in DOMAIN q[k].events : q[k].events[m].press = NoPress
    <2>1. outputs[k] \in Output
      OBVIOUS
    <2>. DEFINE r == RecordOutput(outputs[k], NoDevice)
    <2>2. r \in Record /\ r.type = "output" /\ r.press = NoPress
      BY <2>1 DEF Record, RecordOutput
    <2>. HIDE DEF r
    <2>3. q[k] = [device |-> NoDevice, events |-> <<r>>, dropScan |-> FALSE, candidate |-> "none"]
      BY DEF OutputFrame, JournalFrame, r
    <2>. HIDE DEF q
    <2>4. q[k].events = <<r>> /\ <<r>> \in Seq(Record)
      BY <2>2, <2>3
    <2>5. q[k] \in JournalFrames
      BY <2>3, <2>4 DEF JournalFrames
    <2>6. \A m \in DOMAIN q[k].events : q[k].events[m] = r
      BY <2>4
    <2>7. QED
      BY <2>2, <2>5, <2>6 DEF OnlyOutputs
  <1>3. q \in Seq(JournalFrames) /\ Len(q) = Len(outputs) /\ DOMAIN q = DOMAIN outputs
    <2>1. q = [k \in DOMAIN outputs |-> q[k]] /\ \A k \in DOMAIN outputs : q[k] \in JournalFrames
      BY <1>2
    <2>. HIDE DEF q
    <2>2. QED
      BY <2>1, MapType
  <1>4. y = [x EXCEPT !.journal = j]
    BY DEF QueueOutputs
  <1>5. /\ j \in Seq(JournalFrames)
        /\ \A i \in DOMAIN j : \/ i \in DOMAIN x.journal /\ j[i] = x.journal[i]
                               \/ \E k \in DOMAIN outputs : j[i] = q[k]
    <2>. HIDE DEF q
    <2>1. j \in Seq(JournalFrames)
      BY <1>1, <1>3
    <2>2. ASSUME NEW i \in DOMAIN j
          PROVE  \/ i \in DOMAIN x.journal /\ j[i] = x.journal[i]
                 \/ \E k \in DOMAIN outputs : j[i] = q[k]
      <3>1. i \in Nat /\ 1 <= i /\ i <= Len(x.journal) + Len(q) /\ Len(x.journal) \in Nat
        BY <1>1, <1>3
      <3>2. CASE i <= Len(x.journal)
        BY <1>1, <1>3, <3>1, <3>2
      <3>3. CASE i > Len(x.journal)
        <4>1. j[i] = q[i - Len(x.journal)] /\ i - Len(x.journal) \in 1 .. Len(q)
          BY <1>1, <1>3, <3>1, <3>3
        <4>2. DOMAIN q = 1 .. Len(q)
          BY <1>3
        <4>3. QED
          BY <1>3, <4>1, <4>2
      <3>4. QED
        BY <3>1, <3>2, <3>3
    <2>3. QED
      BY <2>1, <2>2
  <1>. HIDE DEF j, y
  <1>6. /\ y \in Engines /\ SameMatching(x, y) /\ y.journal = j
        /\ y.physical = x.physical /\ y.logicalCount = x.logicalCount
        /\ y.route = x.route /\ y.carry = x.carry /\ y.reuse = x.reuse
        /\ y.active = x.active
    BY <1>4, <1>5 DEF Engines, SameMatching
  <1>. HIDE DEF q
  <1>7. DeviceOrOutputs(y)
    BY <1>2, <1>5, <1>6 DEF DeviceOrOutputs
  <1>8. JournalPresses(y) \subseteq JournalPresses(x) \cup {NoPress}
    <2>1. ASSUME NEW i \in DOMAIN j, NEW k \in DOMAIN j[i].events
          PROVE  j[i].events[k].press \in JournalPresses(x) \cup {NoPress}
      <3>1. CASE i \in DOMAIN x.journal /\ j[i] = x.journal[i]
        BY <3>1, JournalPressesAre
      <3>2. CASE \E m \in DOMAIN outputs : j[i] = q[m]
        BY <1>2, <3>2
      <3>3. QED
        BY <1>5, <3>1, <3>2
    <2>2. QED
      BY <1>6, <2>1, JournalPressesAre
  <1>9. QED
    BY <1>6, <1>7, <1>8 DEF y

LEMMA QueueOutputsKeeps ==
    ASSUME NEW x, Sound(x), NEW outputs \in Seq(Output)
    PROVE  Sound(QueueOutputs(x, outputs)) /\ Evolves(x, QueueOutputs(x, outputs), {})
  <1>. DEFINE y == QueueOutputs(x, outputs)
  <1>0. x \in Engines /\ DeviceOrOutputs(x)
    BY DEF Sound
  <1>1. /\ y \in Engines /\ SameMatching(x, y)
        /\ y.physical = x.physical /\ y.logicalCount = x.logicalCount
        /\ y.route = x.route /\ y.carry = x.carry /\ y.reuse = x.reuse
        /\ y.active = x.active
        /\ DeviceOrOutputs(y)
        /\ JournalPresses(y) \subseteq JournalPresses(x) \cup {NoPress}
    BY <1>0, QueueOutputsFields
  <1>. HIDE DEF y
  <1>2. Configured(y) /\ DeadlineFits(y)
    BY <1>1, SameMatchingKeeps DEF Sound
  <1>3. OwnedUndecided(y) /\ Counted(y)
    BY <1>1 DEF Sound, OwnedUndecided, SameMatching, Counted
  <1>4. y.seq = x.seq
    BY <1>1 DEF SameMatching
  <1>5. Evolves(x, y, {})
    BY <1>1, <1>4, ReferencedParts, EvolvesBy
  <1>6. QED
    BY <1>1, <1>2, <1>3, <1>5 DEF Sound, y

(* drain stops before the first pending frame.                             *)
LEMMA DrainCountIs ==
    ASSUME NEW x \in Engines
    PROVE  /\ DrainCount(x) \in 0 .. Len(x.journal) /\ Len(x.journal) \in Nat
           /\ DrainCount(x) < Len(x.journal) => Pending(x, x.journal[DrainCount(x) + 1])
  <1>. DEFINE n == Len(x.journal)
              S == {m \in 0 .. n : \A i \in 1 .. m : ~Pending(x, x.journal[i])}
  <1>1. n \in Nat
    BY DEF Engines
  <1>2. 0 \in S
    BY <1>1
  <1>3. DrainCount(x) \in S /\ \A k \in S : DrainCount(x) >= k
    <2>1. S \in SUBSET (0 .. n) /\ S # {}
      BY <1>2
    <2>2. DrainCount(x) = Max(S)
      BY DEF DrainCount
    <2>. HIDE DEF S
    <2>3. QED
      BY <1>1, <2>1, <2>2, MaxIn
  <1>4. DrainCount(x) \in 0 .. n
    BY <1>3
  <1>5. ASSUME DrainCount(x) < n, ~Pending(x, x.journal[DrainCount(x) + 1]) PROVE FALSE
    <2>. DEFINE m == DrainCount(x) + 1
    <2>1. m \in 0 .. n
      BY <1>1, <1>4, <1>5
    <2>2. \A i \in 1 .. m : i \in 1 .. DrainCount(x) \/ i = m
      BY <1>4
    <2>3. m \in S
      BY <1>3, <1>5, <2>1, <2>2
    <2>4. QED
      BY <1>3, <1>4, <2>3
  <1>6. QED
    BY <1>1, <1>4, <1>5

LEMMA DrainFields ==
    ASSUME NEW x \in Engines
    PROVE  LET y == Drain(x) IN
           /\ y \in Engines /\ SameMatching(x, y)
           /\ y.physical = x.physical /\ y.logicalCount = x.logicalCount
           /\ y.carry = x.carry /\ y.reuse = x.reuse /\ y.active = x.active
           /\ y.route = [p \in Press |-> IF p \in Referenced(y) THEN x.route[p] ELSE "undecided"]
           /\ Len(y.journal) = Len(x.journal) - DrainCount(x)
           /\ \A i \in DOMAIN y.journal :
                /\ DrainCount(x) + i \in DOMAIN x.journal
                /\ y.journal[i] = x.journal[DrainCount(x) + i]
           /\ JournalPresses(y) \subseteq JournalPresses(x)
  <1>. DEFINE n == DrainCount(x)
              j == SubSeq(x.journal, n + 1, Len(x.journal))
              w == [x EXCEPT !.journal = j]
              r == [p \in Press |-> IF p \in Referenced(w) THEN x.route[p] ELSE "undecided"]
              y == Drain(x)
  <1>1. n \in 0 .. Len(x.journal) /\ Len(x.journal) \in Nat
    BY DrainCountIs
  <1>. HIDE DEF n
  <1>2. /\ j \in Seq(JournalFrames) /\ Len(j) = Len(x.journal) - n
        /\ \A i \in DOMAIN j : n + i \in DOMAIN x.journal /\ j[i] = x.journal[n + i]
    <2>1. x.journal \in Seq(JournalFrames)
      BY DEF Engines
    <2>2. QED
      BY <1>1, <2>1
  <1>. HIDE DEF j
  <1>3. /\ w \in Engines /\ w.journal = j /\ w.route = x.route
        /\ w.physical = x.physical /\ w.carry = x.carry /\ w.reuse = x.reuse
        /\ w.seq = x.seq /\ w.active = x.active /\ w.logicalCount = x.logicalCount
        /\ SameMatching(x, w)
    BY <1>2 DEF Engines, SameMatching
  <1>4. y = [w EXCEPT !.route = r]
    <2>1. y = [w EXCEPT !.route = [p \in Press |-> IF p \in Referenced(w) THEN w.route[p] ELSE "undecided"]]
      BY DEF Drain, n, j
    <2>2. QED
      BY <1>3, <2>1
  <1>5. r \in [Press -> Route]
    BY DEF Engines, Route
  <1>. HIDE DEF w, r
  <1>6. /\ y \in Engines /\ y.route = r /\ y.journal = j
        /\ y.physical = w.physical /\ y.carry = w.carry /\ y.reuse = w.reuse
        /\ y.seq = w.seq /\ y.active = w.active /\ y.logicalCount = w.logicalCount
        /\ y.mode = w.mode /\ y.activePrefix = w.activePrefix /\ y.deadline = w.deadline
    BY <1>3, <1>4, <1>5 DEF Engines
  <1>. HIDE DEF y
  <1>7. JournalPresses(y) = JournalPresses(w)
    BY <1>3, <1>6 DEF JournalPresses
  <1>8. Referenced(y) = Referenced(w)
    BY <1>6, <1>7 DEF Referenced
  <1>9. JournalPresses(y) \subseteq JournalPresses(x)
    BY <1>2, <1>6, JournalPressesAre
  <1>10. SameMatching(x, y)
    BY <1>3, <1>6 DEF SameMatching
  <1>11. QED
    BY <1>2, <1>3, <1>6, <1>8, <1>9, <1>10 DEF r, y, n

LEMMA DrainKeeps ==
    ASSUME NEW x, Sound(x)
    PROVE  Sound(Drain(x)) /\ Evolves(x, Drain(x), {})
  <1>. DEFINE y == Drain(x)
  <1>0. x \in Engines
    BY DEF Sound
  <1>1. /\ y \in Engines /\ SameMatching(x, y)
        /\ y.physical = x.physical /\ y.logicalCount = x.logicalCount
        /\ y.carry = x.carry /\ y.reuse = x.reuse /\ y.active = x.active
        /\ y.route = [p \in Press |-> IF p \in Referenced(y) THEN x.route[p] ELSE "undecided"]
        /\ \A i \in DOMAIN y.journal :
             /\ DrainCount(x) + i \in DOMAIN x.journal
             /\ y.journal[i] = x.journal[DrainCount(x) + i]
        /\ JournalPresses(y) \subseteq JournalPresses(x)
    BY <1>0, DrainFields
  <1>. HIDE DEF y
  <1>2. Configured(y) /\ DeadlineFits(y)
    BY <1>1, SameMatchingKeeps DEF Sound
  <1>3. y.seq = x.seq /\ x.seq.owned \subseteq Press
    BY <1>0, <1>1 DEF SameMatching, Engines, Candidate
  <1>4. OwnedUndecided(y) /\ Counted(y)
    BY <1>1, <1>3 DEF Sound, OwnedUndecided, Counted
  <1>5. DeviceOrOutputs(y)
    BY <1>1 DEF Sound, DeviceOrOutputs
  <1>6. Evolves(x, y, {})
    BY <1>1, <1>3, ReferencedParts, EvolvesBy
  <1>7. QED
    BY <1>1, <1>2, <1>4, <1>5, <1>6 DEF Sound, y

(* What is left in the journal waits for the press that holds it up.       *)
LEMMA DrainWaits ==
    ASSUME NEW x \in Engines, Drain(x).journal # <<>>
    PROVE  LET y == Drain(x) IN
           /\ Pending(y, Head(y.journal))
           /\ \E p \in Press : p \in JournalPresses(y) /\ y.route[p] = "undecided"
  <1>. DEFINE n == DrainCount(x)
              y == Drain(x)
  <1>1. /\ y \in Engines
        /\ y.route = [p \in Press |-> IF p \in Referenced(y) THEN x.route[p] ELSE "undecided"]
        /\ Len(y.journal) = Len(x.journal) - n
        /\ \A i \in DOMAIN y.journal : y.journal[i] = x.journal[n + i]
    BY DrainFields
  <1>2. /\ n \in 0 .. Len(x.journal) /\ Len(x.journal) \in Nat
        /\ n < Len(x.journal) => Pending(x, x.journal[n + 1])
    BY DrainCountIs
  <1>3. y.journal # <<>>
    OBVIOUS
  <1>. HIDE DEF y, n
  <1>4. y.journal \in Seq(JournalFrames) /\ Len(y.journal) # 0 /\ 1 \in DOMAIN y.journal
        /\ Head(y.journal) = y.journal[1]
    BY <1>1, <1>3 DEF Engines
  <1>5. n < Len(x.journal)
    BY <1>1, <1>2, <1>4
  <1>6. Head(y.journal) = x.journal[n + 1]
    BY <1>1, <1>2, <1>4
  <1>. DEFINE f == y.journal[1]
  <1>7. PICK k \in DOMAIN f.events :
           f.events[k].press # NoPress /\ x.route[f.events[k].press] = "undecided"
    BY <1>2, <1>4, <1>5, <1>6 DEF Pending
  <1>8. f.events[k].press \in Press
    <2>1. f \in JournalFrames
      BY <1>4
    <2>. HIDE DEF f
    <2>2. f.events \in Seq(Record)
      BY <2>1 DEF JournalFrames
    <2>3. f.events[k] \in Record
      BY <1>7, <2>2
    <2>4. f.events[k].press \in Press \cup {NoPress}
      BY <2>3 DEF Record
    <2>5. QED
      BY <1>7, <2>4
  <1>9. y.route[f.events[k].press] = "undecided"
    BY <1>1, <1>7, <1>8
  <1>10. f.events[k].press \in JournalPresses(y)
    BY <1>4, <1>7, JournalPressesAre
  <1>11. Pending(y, f)
    BY <1>7, <1>9 DEF Pending
  <1>12. QED
    BY <1>4, <1>8, <1>9, <1>10, <1>11 DEF y

(* The operations O contain all that keyboards may ask for.                *)
PassesInput(O) ==
    /\ O \in SUBSET Output
    /\ \A d \in Device, c \in Code, v \in {0, 1, 2} : KeyOutput(d, c, v) \in O
    /\ \A d \in Device, type \in {"msc", "led"} : EventOutput(d, type) \in O

LEMMA OutputPassesInput == PassesInput(Output)
  BY DEF PassesInput, Output, KeyOutput, EventOutput, Owner

JournalOutputsIn(x, O) ==
    \A i \in DOMAIN x.journal : \A k \in DOMAIN x.journal[i].events :
        x.journal[i].events[k].type = "output" => x.journal[i].events[k].output \in O

LEMMA RecordParts ==
    ASSUME NEW r \in Record
    PROVE  /\ r.type \in {"output", "key", "msc", "led"}
           /\ r.press \in Press \cup {NoPress}
           /\ r.type = "output" => r.output \in Output
           /\ r.type = "key" => r.event.code \in Code /\ r.event.value \in {0, 1, 2}
  BY DEF Record, KeyEvent, OtherEvent

LEMMA EmitType ==
    ASSUME NEW x, NEW O, PassesInput(O), NEW f \in JournalFrames, NEW k \in DOMAIN f.events,
           f.device = NoDevice => OnlyOutputs(f),
           f.events[k].type = "output" => f.events[k].output \in O
    PROVE  Emit(x, f, f.events[k]) \in Seq(O)
  <1>. DEFINE r == f.events[k]
  <1>1. f.events \in Seq(Record) /\ f.device \in Device \cup {NoDevice}
    BY DEF JournalFrames
  <1>2. r \in Record
    BY <1>1
  <1>3. r.type # "output" => f.device \in Device
    BY <1>1 DEF OnlyOutputs
  <1>. DEFINE keys == {m \in DOMAIN f.events : f.events[m].type = "key"}
              visibleKey == \E m \in keys : Visible(x, f.events[m].press)
              hideScan == \/ f.dropScan
                          \/ keys # {} /\ ~visibleKey
                          \/ keys = {} /\ f.candidate = "consumed"
  <1>4. Emit(x, f, r) =
          CASE r.type = "output" ->
                 (IF r.repeat = NoDevice \/ Live(x, r.repeat) THEN <<r.output>> ELSE <<>>)
            [] r.type = "key" ->
                 (IF r.press # NoPress /\ x.route[r.press] = "consumed" THEN <<>>
                  ELSE <<KeyOutput(f.device, r.event.code, r.event.value)>>)
            [] r.type = "msc" ->
                 (IF hideScan THEN <<>> ELSE <<EventOutput(f.device, "msc")>>)
            [] r.type = "led" -> <<EventOutput(f.device, "led")>>
    BY DEF Emit
  <1>. HIDE DEF keys, visibleKey, hideScan
  <1>5. CASE r.type = "output"
    <2>1. r.output \in O
      BY <1>5
    <2>2. Emit(x, f, r) \in {<<r.output>>, <<>>}
      BY <1>4, <1>5
    <2>3. <<r.output>> \in Seq(O) /\ <<>> \in Seq(O)
      BY <2>1
    <2>4. QED
      BY <2>2, <2>3, Zenon
  <1>6. CASE r.type = "key"
    <2>. DEFINE o == KeyOutput(f.device, r.event.code, r.event.value)
    <2>1. o \in O
      BY <1>2, <1>3, <1>6, RecordParts DEF PassesInput
    <2>2. Emit(x, f, r) = IF r.press # NoPress /\ x.route[r.press] = "consumed" THEN <<>> ELSE <<o>>
      BY <1>4, <1>6
    <2>. HIDE DEF o
    <2>3. Emit(x, f, r) \in {<<o>>, <<>>}
      BY <2>2
    <2>4. <<o>> \in Seq(O) /\ <<>> \in Seq(O)
      BY <2>1
    <2>5. QED
      BY <2>3, <2>4, Zenon
  <1>7. CASE r.type = "msc"
    <2>. DEFINE o == EventOutput(f.device, "msc")
    <2>1. o \in O
      BY <1>3, <1>7 DEF PassesInput
    <2>2. Emit(x, f, r) = IF hideScan THEN <<>> ELSE <<o>>
      BY <1>4, <1>7
    <2>. HIDE DEF o
    <2>3. Emit(x, f, r) \in {<<o>>, <<>>}
      BY <2>2
    <2>4. <<o>> \in Seq(O) /\ <<>> \in Seq(O)
      BY <2>1
    <2>5. QED
      BY <2>3, <2>4, Zenon
  <1>8. CASE r.type = "led"
    <2>. DEFINE o == EventOutput(f.device, "led")
    <2>1. o \in O
      BY <1>3, <1>8 DEF PassesInput
    <2>2. Emit(x, f, r) = <<o>>
      BY <1>4, <1>8
    <2>. HIDE DEF o
    <2>3. <<o>> \in Seq(O)
      BY <2>1
    <2>4. QED
      BY <2>2, <2>3, Zenon
  <1>9. QED
    BY <1>2, <1>5, <1>6, <1>7, <1>8, RecordParts

(* What drain writes is what the journal holds.                            *)
LEMMA DrainedType ==
    ASSUME NEW x \in Engines, DeviceOrOutputs(x), NEW O, PassesInput(O), JournalOutputsIn(x, O)
    PROVE  Drained(x) \in Seq(O)
  <1>1. DrainCount(x) \in 0 .. Len(x.journal) /\ Len(x.journal) \in Nat
    BY DrainCountIs
  <1>2. x.journal \in Seq(JournalFrames)
    BY DEF Engines
  <1>3. ASSUME NEW i \in 1 .. DrainCount(x) PROVE EmitFrame(x, x.journal[i]) \in Seq(O)
    <2>. DEFINE f == x.journal[i]
                ss == [k \in DOMAIN f.events |-> Emit(x, f, f.events[k])]
    <2>1. i \in DOMAIN x.journal
      BY <1>1, <1>2
    <2>2. f \in JournalFrames
      BY <1>2, <2>1
    <2>3. f.device = NoDevice => OnlyOutputs(f)
      BY <2>1 DEF DeviceOrOutputs
    <2>4. \A k \in DOMAIN f.events : f.events[k].type = "output" => f.events[k].output \in O
      BY <2>1 DEF JournalOutputsIn
    <2>. HIDE DEF f
    <2>5. \A k \in DOMAIN f.events : ss[k] \in Seq(O)
      BY <2>2, <2>3, <2>4, EmitType
    <2>6. f.events \in Seq(Record)
      BY <2>2 DEF JournalFrames
    <2>7. ss = [k \in DOMAIN f.events |-> ss[k]]
      OBVIOUS
    <2>8. EmitFrame(x, f) = FlattenSeq(ss)
      BY DEF EmitFrame
    <2>. HIDE DEF ss
    <2>9. ss \in Seq(Seq(O))
      BY <2>5, <2>6, <2>7, MapType
    <2>10. QED
      BY <2>8, <2>9, FlattenType DEF f
  <1>. DEFINE tt == [i \in 1 .. DrainCount(x) |-> EmitFrame(x, x.journal[i])]
  <1>4. tt \in Seq(Seq(O))
    <2>1. tt \in [1 .. DrainCount(x) -> Seq(O)]
      BY <1>3
    <2>2. DrainCount(x) \in Nat
      BY <1>1
    <2>. HIDE DEF tt
    <2>3. QED
      BY <2>1, <2>2
  <1>5. Drained(x) = FlattenSeq(tt)
    BY DEF Drained
  <1>. HIDE DEF tt
  <1>6. QED
    BY <1>4, <1>5, FlattenType

-----------------------------------------------------------------------------
(* Recording an event and what it does to the live remaps                  *)

(* The operations that end a remap or repeat its key are its owner's.      *)
OfActive(x) ==
    {r \in Record : /\ r.type = "output" /\ r.press = NoPress
                    /\ r.output.kind # "action"
                    /\ \E a \in ToSet(x.active) : r.output.owner = a.owner}

LEMMA ToSetType ==
    ASSUME NEW A, NEW s \in Seq(A)
    PROVE  ToSet(s) \subseteq A /\ \A k \in DOMAIN s : s[k] \in A /\ s[k] \in ToSet(s)
  BY DEF ToSet

LEMMA StopRecords ==
    ASSUME NEW a \in Activation
    PROVE  /\ KeyOutput(a.owner, a.target, 0) \in Output
           /\ KeyOutput(a.owner, a.target, 1) \in Output
           /\ KeyOutput(a.owner, a.target, 2) \in Output
           /\ ReconcileDevice(a.owner, {}) \in Output
  BY DEF Activation, Output, KeyOutput, ReconcileDevice, Owner

LEMMA ActivationEventsType ==
    ASSUME NEW x \in Engines, NEW tr
    PROVE  ActivationEvents(x, tr) \in Seq(OfActive(x))
  <1>. DEFINE up(a) == RecordOutput(KeyOutput(a.owner, a.target, 0), NoDevice)
              cleanup(a) == RecordOutput(ReconcileDevice(a.owner, {}), NoDevice)
              repeat(a) == RecordOutput(KeyOutput(a.owner, a.target, 2), a.owner)
              piece(a) ==
                CASE Ends(a, tr) -> <<up(a), cleanup(a)>>
                  [] ~Ends(a, tr) /\ tr.value = 2 /\ tr.press = a.driver -> <<repeat(a)>>
                  [] OTHER -> <<>>
              ss == [k \in DOMAIN x.active |-> piece(x.active[k])]
  <1>1. x.active \in Seq(Activation)
    BY DEF Engines
  <1>2. ASSUME NEW a \in ToSet(x.active) PROVE piece(a) \in Seq(OfActive(x))
    <2>1. a \in Activation
      BY <1>1, ToSetType
    <2>2. up(a) \in OfActive(x)
      BY <2>1, StopRecords DEF OfActive, Record, RecordOutput, KeyOutput
    <2>3. cleanup(a) \in OfActive(x)
      BY <2>1, StopRecords DEF OfActive, Record, RecordOutput, ReconcileDevice
    <2>4. repeat(a) \in OfActive(x)
      <3>1. a.owner \in HoldDevice
        BY <2>1 DEF Activation
      <3>2. QED
        BY <2>1, <3>1, StopRecords DEF OfActive, Record, RecordOutput, KeyOutput
    <2>5. piece(a) \in {<<up(a), cleanup(a)>>, <<repeat(a)>>, <<>>}
      OBVIOUS
    <2>. HIDE DEF up, cleanup, repeat, piece
    <2>6. /\ <<up(a), cleanup(a)>> \in Seq(OfActive(x)) /\ <<repeat(a)>> \in Seq(OfActive(x))
          /\ <<>> \in Seq(OfActive(x))
      BY <2>2, <2>3, <2>4
    <2>7. QED
      BY <2>5, <2>6, Zenon
  <1>3. ActivationEvents(x, tr) = FlattenSeq(ss)
    BY DEF ActivationEvents
  <1>. HIDE DEF piece
  <1>4. \A k \in DOMAIN x.active : ss[k] \in Seq(OfActive(x))
    BY <1>1, <1>2, ToSetType
  <1>5. ss = [k \in DOMAIN x.active |-> ss[k]]
    OBVIOUS
  <1>. HIDE DEF ss
  <1>6. ss \in Seq(Seq(OfActive(x)))
    BY <1>1, <1>4, <1>5, MapType
  <1>7. QED
    BY <1>3, <1>6, FlattenType

(* Removing some of the live remaps.                                       *)
LEMMA KeptActive ==
    ASSUME NEW x \in Engines, NEW P
    PROVE  LET y == [x EXCEPT !.active = Kept(x.active, P)] IN
           /\ y \in Engines /\ SameMatching(x, y)
           /\ y.physical = x.physical /\ y.logicalCount = x.logicalCount
           /\ y.route = x.route /\ y.carry = x.carry /\ y.reuse = x.reuse
           /\ y.journal = x.journal
           /\ ToSet(y.active) \subseteq P /\ ToSet(Kept(x.active, P)) \subseteq ToSet(x.active)
  <1>. DEFINE s == x.active
              A == ToSet(s)
              t == Kept(s, P)
  <1>1. s \in Seq(Activation)
    BY DEF Engines
  <1>2. s \in Seq(A) /\ A \subseteq Activation
    BY <1>1 DEF ToSet
  <1>. HIDE DEF A
  <1>3. t \in Seq(A \cap P)
    BY <1>2, KeptType
  <1>. HIDE DEF t
  <1>4. t \in Seq(Activation) /\ ToSet(t) \subseteq A \cap P
    BY <1>2, <1>3 DEF ToSet
  <1>5. QED
    BY <1>4 DEF Engines, SameMatching, A, t

LEMMA EndActivationsFields ==
    ASSUME NEW x \in Engines, NEW tr
    PROVE  LET y == EndActivations(x, tr) IN
           /\ y \in Engines /\ SameMatching(x, y)
           /\ y.physical = x.physical /\ y.logicalCount = x.logicalCount
           /\ y.route = x.route /\ y.carry = x.carry /\ y.reuse = x.reuse
           /\ y.journal = x.journal
           /\ ToSet(y.active) \subseteq {a \in ToSet(x.active) : ~Ends(a, tr)}
  <1>. DEFINE P == {a \in ToSet(x.active) : ~Ends(a, tr)}
  <1>1. EndActivations(x, tr) = [x EXCEPT !.active = Kept(x.active, P)]
    BY DEF EndActivations
  <1>. HIDE DEF P
  <1>2. QED
    <2>. DEFINE y == [x EXCEPT !.active = Kept(x.active, P)]
    <2>1. /\ y \in Engines /\ SameMatching(x, y)
          /\ y.physical = x.physical /\ y.logicalCount = x.logicalCount
          /\ y.route = x.route /\ y.carry = x.carry /\ y.reuse = x.reuse
          /\ y.journal = x.journal
          /\ ToSet(y.active) \subseteq P
      BY KeptActive
    <2>. HIDE DEF y
    <2>2. QED
      BY <1>1, <2>1 DEF P, y

(* The frame in progress is the last of the journal.                       *)
Recorded(x, records) == [x EXCEPT !.journal[Len(x.journal)].events = @ \o records]

LEMMA RecordedFields ==
    ASSUME NEW x \in Engines, x.journal # <<>>, NEW records \in Seq(Record)
    PROVE  LET y == Recorded(x, records)
               n == Len(x.journal)
           IN /\ y \in Engines /\ SameMatching(x, y)
              /\ y.physical = x.physical /\ y.logicalCount = x.logicalCount
              /\ y.route = x.route /\ y.carry = x.carry /\ y.reuse = x.reuse
              /\ y.active = x.active
              /\ Len(y.journal) = n /\ DOMAIN y.journal = DOMAIN x.journal /\ n \in DOMAIN x.journal
              /\ \A i \in DOMAIN x.journal :
                    /\ y.journal[i].device = x.journal[i].device
                    /\ i # n => y.journal[i] = x.journal[i]
              /\ y.journal[n].events = x.journal[n].events \o records
  <1>. DEFINE n == Len(x.journal)
              f == x.journal[n]
              g == [f EXCEPT !.events = f.events \o records]
              j == [x.journal EXCEPT ![n] = g]
              y == Recorded(x, records)
  <1>1. x.journal \in Seq(JournalFrames)
    BY DEF Engines
  <1>2. n \in DOMAIN x.journal /\ f \in JournalFrames
    BY <1>1
  <1>. HIDE DEF f
  <1>3. f.events \in Seq(Record)
    BY <1>2 DEF JournalFrames
  <1>4. f.events \o records \in Seq(Record)
    BY <1>3
  <1>5. g \in JournalFrames /\ g.device = f.device /\ g.events = f.events \o records
    BY <1>2, <1>4 DEF JournalFrames
  <1>6. y = [x EXCEPT !.journal = j]
    BY <1>2 DEF Recorded, Engines, f
  <1>. HIDE DEF g
  <1>7. /\ j \in Seq(JournalFrames) /\ Len(j) = n /\ DOMAIN j = DOMAIN x.journal
        /\ j[n] = g /\ \A i \in DOMAIN x.journal : i # n => j[i] = x.journal[i]
    BY <1>1, <1>2, <1>5
  <1>. HIDE DEF j, y
  <1>8. /\ y \in Engines /\ SameMatching(x, y) /\ y.journal = j
        /\ y.physical = x.physical /\ y.logicalCount = x.logicalCount
        /\ y.route = x.route /\ y.carry = x.carry /\ y.reuse = x.reuse
        /\ y.active = x.active
    BY <1>6, <1>7 DEF Engines, SameMatching
  <1>9. QED
    BY <1>2, <1>5, <1>7, <1>8 DEF y, f

-----------------------------------------------------------------------------
(* complete: a chord is consumed                                           *)

(* The engine z has consumed the candidate of x and is idle again.         *)
Committed(x, z) ==
    /\ z \in Engines
    /\ z.mode = "idle" /\ z.seq = NoCandidate /\ ~z.deadline /\ z.carry = {}
    /\ z.physical = x.physical /\ z.logicalCount = x.logicalCount
    /\ z.reuse \subseteq x.reuse \cup x.seq.members
    /\ z.route = [p \in Press |-> IF p \in x.seq.owned THEN "consumed" ELSE x.route[p]]
    /\ JournalPresses(z) \subseteq JournalPresses(x) \cup {NoPress}
    /\ DeviceOrOutputs(z)
    /\ \A a \in ToSet(z.active) :
          a.members \cup {a.driver} \subseteq Referenced(x) \cup {NoPress}

LEMMA CommittedKeeps ==
    ASSUME NEW x, Sound(x), NEW z, Committed(x, z)
    PROVE  Sound(z) /\ Evolves(x, z, {})
  <1>0. x \in Engines /\ z \in Engines
    BY DEF Sound, Committed
  <1>1. Counted(z)
    BY DEF Sound, Counted, Committed
  <1>2. Sound(z)
    BY <1>1, IdleSound DEF Committed
  <1>3. /\ z.physical \subseteq Referenced(x) /\ z.carry \subseteq Referenced(x)
        /\ z.reuse \subseteq Referenced(x)
        /\ JournalPresses(z) \subseteq Referenced(x) \cup {NoPress}
    BY ReferencedParts DEF Committed
  <1>4. \A p \in Press : x.route[p] # "undecided" => z.route[p] = x.route[p]
    BY DEF Committed, Sound, OwnedUndecided
  <1>5. \A p \in x.seq.owned : z.route[p] # "undecided"
    BY <1>0 DEF Committed, Engines, Candidate
  <1>6. Evolves(x, z, {})
    BY <1>3, <1>4, <1>5, EvolvesBy DEF Committed
  <1>7. QED
    BY <1>2, <1>6

LEMMA CommittedQueues ==
    ASSUME NEW x, NEW z, Committed(x, z), NEW o \in Output
    PROVE  Committed(x, QueueOutput(z, o)) /\ QueueOutput(z, o).active = z.active
  <1>. DEFINE y == QueueOutputs(z, <<o>>)
  <1>0. z \in Engines /\ DeviceOrOutputs(z) /\ <<o>> \in Seq(Output)
    BY DEF Committed
  <1>1. /\ y \in Engines /\ SameMatching(z, y)
        /\ y.physical = z.physical /\ y.logicalCount = z.logicalCount
        /\ y.route = z.route /\ y.carry = z.carry /\ y.reuse = z.reuse
        /\ y.active = z.active
        /\ DeviceOrOutputs(y)
        /\ JournalPresses(y) \subseteq JournalPresses(z) \cup {NoPress}
    BY <1>0, QueueOutputsFields
  <1>. HIDE DEF y
  <1>2. Committed(x, y)
    BY <1>1 DEF Committed, SameMatching
  <1>3. QueueOutput(z, o) = y
    BY DEF QueueOutput, y
  <1>4. QED
    BY <1>1, <1>2, <1>3

LEMMA Commits ==
    ASSUME NEW x, Sound(x), Matching(x), NEW w \in Engines,
           LET r == Resolve(x, "consumed") IN
           /\ w.physical = r.physical /\ w.logicalCount = r.logicalCount
           /\ w.route = r.route /\ w.journal = r.journal /\ w.active = r.active
           /\ w.reuse \subseteq r.reuse \cup x.seq.members
    PROVE  Committed(x, Idle(w)) /\ Idle(w).active = x.active
  <1>. DEFINE r == Resolve(x, "consumed")
              z == Idle(w)
  <1>0. x \in Engines
    BY DEF Sound
  <1>1. /\ r \in Engines /\ r = [x EXCEPT !.route = r.route, !.journal = r.journal]
        /\ r.route = [p \in Press |->
             IF Matching(x) /\ p \in x.seq.owned THEN "consumed" ELSE x.route[p]]
        /\ SameEvents(x, r)
    BY <1>0, ResolveFields DEF Route
  <1>2. /\ w.physical = r.physical /\ w.logicalCount = r.logicalCount
        /\ w.route = r.route /\ w.journal = r.journal /\ w.active = r.active
        /\ w.reuse \subseteq r.reuse \cup x.seq.members
    OBVIOUS
  <1>. HIDE DEF r
  <1>3. /\ r.physical = x.physical /\ r.logicalCount = x.logicalCount
        /\ r.reuse = x.reuse /\ r.active = x.active
    BY <1>0, <1>1 DEF Engines
  <1>4. /\ z \in Engines
        /\ z.mode = "idle" /\ z.seq = NoCandidate /\ z.carry = {} /\ z.deadline = FALSE
        /\ z.physical = w.physical /\ z.logicalCount = w.logicalCount
        /\ z.route = w.route /\ z.reuse = w.reuse
        /\ z.journal = w.journal /\ z.active = w.active
    BY IdleFields
  <1>. HIDE DEF z
  <1>5. SameEvents(x, z)
    BY <1>1, <1>2, <1>4 DEF SameEvents
  <1>6. JournalPresses(z) = JournalPresses(x) /\ DeviceOrOutputs(z)
    BY <1>0, <1>4, <1>5, SameJournalPresses, SameDeviceOrOutputs DEF Sound
  <1>7. \A a \in ToSet(z.active) : a.members \cup {a.driver} \subseteq Referenced(x)
    BY <1>2, <1>3, <1>4, ReferencedParts
  <1>8. z.route = [p \in Press |-> IF p \in x.seq.owned THEN "consumed" ELSE x.route[p]]
    BY <1>1, <1>2, <1>4
  <1>9. Committed(x, z)
    BY <1>2, <1>3, <1>4, <1>6, <1>7, <1>8 DEF Committed
  <1>10. QED
    BY <1>2, <1>3, <1>4, <1>9 DEF z

LEMMA CompleteBindingKeeps ==
    ASSUME NEW x, Sound(x), x.mode = "binding", x.seq.matched # 0
    PROVE  Sound(CompleteBinding(x)) /\ Evolves(x, CompleteBinding(x), {})
  <1>. DEFINE r == Resolve(x, "consumed")
              o == EmitAction(Sources[x.activePrefix].bindings[x.seq.matched].action)
  <1>1. Matching(x) /\ x.activePrefix \in DOMAIN Sources
        /\ x.seq.matched \in DOMAIN Sources[x.activePrefix].bindings
    BY DEF Sound, Configured, BindingCandidate, Matching
  <1>2. o \in Output
    BY <1>1, BindingAt DEF Output, EmitAction
  <1>3. r \in Engines
    BY ResolveFields DEF Sound, Route
  <1>4. Committed(x, Idle(r))
    BY <1>1, <1>3, Commits
  <1>5. CompleteBinding(x) = QueueOutput(Idle(r), o)
    BY DEF CompleteBinding
  <1>. HIDE DEF o, r
  <1>6. Committed(x, QueueOutput(Idle(r), o))
    BY <1>2, <1>4, CommittedQueues
  <1>7. QED
    BY <1>5, <1>6, CommittedKeeps

(* A remap begins; one that was broken in its frame ends at once.          *)
LEMMA ActivateKeeps ==
    ASSUME NEW x, NEW z, Committed(x, z), x \in Engines, NEW target \in Code, NEW owner \in HoldDevice
    PROVE  Committed(x, Activate(z, x.seq, target, owner))
  <1>. DEFINE c == x.seq
              a == [owner |-> owner, target |-> target,
                    members |-> c.matchMembers, driver |-> c.driver]
              o == KeyOutput(owner, target, 1)
              y == QueueOutput(z, o)
  <1>1. a \in Activation /\ a.members = c.matchMembers /\ a.driver = c.driver
        /\ a.owner = owner /\ a.target = target
    BY DEF Engines, Candidate, Activation
  <1>2. o \in Output
    BY <1>1, StopRecords
  <1>. HIDE DEF o
  <1>3. Committed(x, y)
    BY <1>2, CommittedQueues
  <1>. HIDE DEF a, y
  <1>4. CASE c.broken
    <2>. DEFINE up == KeyOutput(a.owner, a.target, 0)
                cleanup == ReconcileDevice(a.owner, {})
                w == QueueOutputs(y, <<up, cleanup>>)
    <2>1. Activate(z, c, target, owner) = w
      BY <1>4 DEF Activate, StopActivation, StopOutputs, a, y, o
    <2>2. up \in Output /\ cleanup \in Output
      BY <1>1, StopRecords
    <2>. HIDE DEF up, cleanup
    <2>3. <<up, cleanup>> \in Seq(Output)
      BY <2>2
    <2>4. y \in Engines /\ DeviceOrOutputs(y)
      BY <1>3 DEF Committed
    <2>5. /\ w \in Engines /\ SameMatching(y, w)
          /\ w.physical = y.physical /\ w.logicalCount = y.logicalCount
          /\ w.route = y.route /\ w.carry = y.carry /\ w.reuse = y.reuse
          /\ w.active = y.active
          /\ DeviceOrOutputs(w)
          /\ JournalPresses(w) \subseteq JournalPresses(y) \cup {NoPress}
      BY <2>3, <2>4, QueueOutputsFields
    <2>. HIDE DEF w
    <2>6. Committed(x, w)
      BY <1>3, <2>5 DEF Committed, SameMatching
    <2>7. QED
      BY <2>1, <2>6
  <1>5. CASE ~c.broken
    <2>. DEFINE w == [y EXCEPT !.active = Append(y.active, a)]
    <2>1. Activate(z, c, target, owner) = w
      BY <1>5 DEF Activate, a, y, o
    <2>2. y \in Engines /\ y.active \in Seq(Activation)
      BY <1>3 DEF Committed, Engines
    <2>3. /\ Append(y.active, a) \in Seq(Activation)
          /\ ToSet(Append(y.active, a)) \subseteq ToSet(y.active) \cup {a}
      BY <1>1, <2>2 DEF ToSet
    <2>4. /\ w \in Engines /\ SameMatching(y, w)
          /\ w.physical = y.physical /\ w.logicalCount = y.logicalCount
          /\ w.route = y.route /\ w.carry = y.carry /\ w.reuse = y.reuse
          /\ w.journal = y.journal /\ w.active = Append(y.active, a)
      BY <2>2, <2>3 DEF Engines, SameMatching
    <2>. HIDE DEF w
    <2>5. JournalPresses(w) = JournalPresses(y) /\ (DeviceOrOutputs(y) => DeviceOrOutputs(w))
      BY <2>4 DEF JournalPresses, DeviceOrOutputs
    <2>6. \A b \in ToSet(w.active) :
             b.members \cup {b.driver} \subseteq Referenced(x) \cup {NoPress}
      <3>1. a.members \cup {a.driver} \subseteq Referenced(x)
        BY <1>1, ReferencedParts
      <3>2. QED
        BY <1>3, <2>3, <2>4, <3>1 DEF Committed
    <2>7. Committed(x, w)
      BY <1>3, <2>4, <2>5, <2>6 DEF Committed, SameMatching
    <2>8. QED
      BY <2>1, <2>7
  <1>6. QED
    BY <1>4, <1>5

LEMMA CompleteSourceKeeps ==
    ASSUME NEW x, Sound(x), x.mode \in {"reserved", "prefix"}, x.seq.matched # 0,
           NEW owner \in HoldDevice
    PROVE  Sound(CompleteSource(x, owner)) /\ Evolves(x, CompleteSource(x, owner), {})
  <1>. DEFINE c == x.seq
              source == Sources[c.matched]
              held == HeldModifiers(x, c)
              r == Resolve(x, "consumed")
              w == [r EXCEPT !.reuse = r.reuse \cup held]
              z == Idle(w)
  <1>0. x \in Engines /\ c \in Candidate /\ Matching(x)
    BY DEF Sound, Engines, Matching
  <1>1. c.matched \in DOMAIN Sources /\ c.matched \in Nat
    BY SourceAt DEF Sound, Configured, SourceCandidate
  <1>2. source.mode \in {"action", "tap", "hold"} /\ source.target \in Code
    BY <1>1, SourceAt
  <1>3. held \subseteq c.members /\ held \subseteq Press
    BY <1>0 DEF HeldModifiers, Candidate
  <1>4. /\ r \in Engines /\ r = [x EXCEPT !.route = r.route, !.journal = r.journal]
        /\ r.route = [p \in Press |->
             IF Matching(x) /\ p \in x.seq.owned THEN "consumed" ELSE x.route[p]]
        /\ SameEvents(x, r)
    BY <1>0, ResolveFields DEF Route
  <1>5. CompleteSource(x, owner) =
          CASE source.mode = "action" ->
                 [r EXCEPT !.mode = "await", !.activePrefix = c.matched, !.seq = NoCandidate,
                           !.carry = held, !.deadline = TRUE]
            [] source.mode = "hold" -> Activate(z, c, source.target, owner)
            [] source.mode = "tap" ->
                 QueueOutput(QueueOutput(z, KeyOutput(TapDevice, source.target, 1)),
                             KeyOutput(TapDevice, source.target, 0))
    BY DEF CompleteSource
  <1>. HIDE DEF held, r
  <1>6. /\ w \in Engines
        /\ w.physical = r.physical /\ w.logicalCount = r.logicalCount
        /\ w.route = r.route /\ w.journal = r.journal /\ w.active = r.active
        /\ w.reuse = r.reuse \cup held
    BY <1>3, <1>4 DEF Engines
  <1>. HIDE DEF w
  <1>7. Committed(x, z)
    BY <1>0, <1>3, <1>6, Commits DEF r
  <1>. HIDE DEF z
  <1>8. CASE source.mode = "action"
    <2>. DEFINE y == [r EXCEPT !.mode = "await", !.activePrefix = c.matched, !.seq = NoCandidate,
                               !.carry = held, !.deadline = TRUE]
    <2>1. CompleteSource(x, owner) = y
      BY <1>5, <1>8
    <2>2. /\ r.physical = x.physical /\ r.logicalCount = x.logicalCount
          /\ r.reuse = x.reuse /\ r.active = x.active
      BY <1>0, <1>4 DEF Engines
    <2>3. /\ y \in Engines /\ y.mode = "await" /\ y.activePrefix = c.matched
          /\ y.seq = NoCandidate /\ y.carry = held /\ y.deadline = TRUE
          /\ y.physical = r.physical /\ y.logicalCount = r.logicalCount
          /\ y.route = r.route /\ y.reuse = r.reuse
          /\ y.journal = r.journal /\ y.active = r.active
      BY <1>1, <1>3, <1>4, NoCandidateType DEF Engines, Mode
    <2>. HIDE DEF y
    <2>4. SameEvents(x, y)
      BY <1>4, <2>3 DEF SameEvents
    <2>5. JournalPresses(y) = JournalPresses(x) /\ DeviceOrOutputs(y)
      BY <1>0, <2>3, <2>4, SameJournalPresses, SameDeviceOrOutputs DEF Sound
    <2>6. Configured(y) /\ DeadlineFits(y)
      BY <1>1, <2>3 DEF Configured, DeadlineFits
    <2>7. OwnedUndecided(y) /\ Counted(y)
      BY <2>2, <2>3 DEF Sound, OwnedUndecided, Counted, NoCandidate
    <2>8. /\ y.physical \subseteq Referenced(x) /\ y.carry \subseteq Referenced(x)
          /\ y.reuse \subseteq Referenced(x)
          /\ \A a \in ToSet(y.active) : a.members \cup {a.driver} \subseteq Referenced(x)
      BY <1>3, <2>2, <2>3, ReferencedParts
    <2>9. \A p \in Press : x.route[p] # "undecided" => y.route[p] = x.route[p]
      BY <1>4, <2>3 DEF Sound, OwnedUndecided
    <2>10. \A p \in x.seq.owned : y.route[p] # "undecided"
      BY <1>0, <1>4, <2>3 DEF Candidate
    <2>11. Evolves(x, y, {})
      BY <2>3, <2>5, <2>8, <2>9, <2>10, ReferencedParts, EvolvesBy
    <2>12. QED
      BY <2>1, <2>3, <2>5, <2>6, <2>7, <2>11 DEF Sound
  <1>9. CASE source.mode = "hold"
    <2>1. CompleteSource(x, owner) = Activate(z, c, source.target, owner)
      BY <1>5, <1>9
    <2>2. Committed(x, Activate(z, c, source.target, owner))
      BY <1>0, <1>2, <1>7, ActivateKeeps
    <2>3. QED
      BY <2>1, <2>2, CommittedKeeps
  <1>10. CASE source.mode = "tap"
    <2>. DEFINE first == KeyOutput(TapDevice, source.target, 1)
                second == KeyOutput(TapDevice, source.target, 0)
                u == QueueOutput(z, first)
                v == QueueOutput(u, second)
    <2>1. CompleteSource(x, owner) = v
      BY <1>5, <1>10
    <2>2. first \in Output /\ second \in Output
      BY <1>2 DEF Output, KeyOutput, Owner
    <2>. HIDE DEF first, second
    <2>3. Committed(x, u)
      BY <1>7, <2>2, CommittedQueues
    <2>. HIDE DEF u
    <2>4. Committed(x, v)
      BY <2>2, <2>3, CommittedQueues
    <2>5. QED
      BY <2>1, <2>4, CommittedKeeps
  <1>11. QED
    BY <1>2, <1>8, <1>9, <1>10

(* The end of a frame completes a chord, or nothing.                       *)
LEMMA CompleteFrameKeeps ==
    ASSUME NEW x, Sound(x), NEW owner \in HoldDevice
    PROVE  Sound(CompleteFrame(x, owner)) /\ Evolves(x, CompleteFrame(x, owner), {})
  <1>1. CASE ~Finished(x)
    BY <1>1 DEF CompleteFrame, Evolves
  <1>2. CASE Finished(x)
    <2>1. Matching(x) /\ x.seq.matched # 0
      BY <1>2 DEF Finished
    <2>2. CASE x.mode = "binding"
      BY <1>2, <2>1, <2>2, CompleteBindingKeeps DEF CompleteFrame
    <2>3. CASE x.mode # "binding"
      <3>1. x.mode \in {"reserved", "prefix"}
        BY <2>1, <2>3 DEF Matching
      <3>2. QED
        BY <1>2, <2>1, <2>3, <3>1, CompleteSourceKeeps DEF CompleteFrame
    <2>4. QED
      BY <2>2, <2>3
  <1>3. QED
    BY <1>1, <1>2

-----------------------------------------------------------------------------
(* The end of a frame                                                      *)

(* Deciding presses that no candidate owns.                                *)
LEMMA ForwardKeeps ==
    ASSUME NEW x, Sound(x), NEW S, S \cap x.seq.owned = {}
    PROVE  LET y == [x EXCEPT !.route = [p \in Press |->
                        IF p \in S /\ x.route[p] = "undecided" THEN "forwarded" ELSE x.route[p]]]
           IN /\ Sound(y) /\ Evolves(x, y, {}) /\ SameMatching(x, y)
              /\ y.journal = x.journal /\ y.active = x.active /\ y.physical = x.physical
              /\ y.route = [p \in Press |->
                    IF p \in S /\ x.route[p] = "undecided" THEN "forwarded" ELSE x.route[p]]
  <1>. DEFINE r == [p \in Press |->
                      IF p \in S /\ x.route[p] = "undecided" THEN "forwarded" ELSE x.route[p]]
              y == [x EXCEPT !.route = r]
  <1>0. x \in Engines
    BY DEF Sound
  <1>1. r \in [Press -> Route]
    BY <1>0 DEF Engines, Route
  <1>. HIDE DEF r
  <1>2. /\ y \in Engines /\ SameMatching(x, y) /\ y.route = r
        /\ y.physical = x.physical /\ y.logicalCount = x.logicalCount
        /\ y.carry = x.carry /\ y.reuse = x.reuse
        /\ y.journal = x.journal /\ y.active = x.active
    BY <1>0, <1>1 DEF Engines, SameMatching
  <1>. HIDE DEF y
  <1>3. Configured(y) /\ DeadlineFits(y)
    BY <1>2, SameMatchingKeeps DEF Sound
  <1>4. y.seq = x.seq /\ x.seq.owned \subseteq Press
    BY <1>0, <1>2 DEF SameMatching, Engines, Candidate
  <1>5. OwnedUndecided(y) /\ Counted(y)
    BY <1>2, <1>4 DEF Sound, OwnedUndecided, Counted, r
  <1>6. DeviceOrOutputs(y) /\ JournalPresses(y) = JournalPresses(x)
    BY <1>2 DEF Sound, DeviceOrOutputs, JournalPresses
  <1>7. \A p \in Press : x.route[p] # "undecided" => y.route[p] = x.route[p]
    BY <1>2 DEF r
  <1>8. Evolves(x, y, {})
    BY <1>2, <1>4, <1>6, <1>7, ReferencedParts, EvolvesBy
  <1>9. QED
    BY <1>2, <1>3, <1>5, <1>6, <1>8 DEF Sound, y, r

LEMMA ForwardFreshKeeps ==
    ASSUME NEW x, Sound(x), NEW fresh
    PROVE  LET y == ForwardFresh(x, fresh) IN
           /\ Sound(y) /\ Evolves(x, y, {}) /\ y.journal = x.journal /\ y.seq = x.seq
           /\ \A p \in Press : p \in fresh /\ y.route[p] = "undecided" => p \in y.seq.owned
  <1>. DEFINE S == fresh \ x.seq.owned
              y == [x EXCEPT !.route = [p \in Press |->
                      IF p \in S /\ x.route[p] = "undecided" THEN "forwarded" ELSE x.route[p]]]
  <1>1. ForwardFresh(x, fresh) = y
    BY DEF ForwardFresh, Sound, Engines
  <1>2. S \cap x.seq.owned = {}
    OBVIOUS
  <1>3. /\ Sound(y) /\ Evolves(x, y, {}) /\ SameMatching(x, y) /\ y.journal = x.journal
        /\ y.route = [p \in Press |->
             IF p \in S /\ x.route[p] = "undecided" THEN "forwarded" ELSE x.route[p]]
    BY <1>2, ForwardKeeps
  <1>. HIDE DEF y
  <1>4. QED
    BY <1>1, <1>3 DEF SameMatching

(* Taking frames or events off the journal.                                *)
LEMMA ShorterJournalKeeps ==
    ASSUME NEW x, Sound(x), NEW j \in Seq(JournalFrames),
           \A i \in DOMAIN j : \E k \in DOMAIN x.journal :
              /\ j[i].device = x.journal[k].device
              /\ \A m \in DOMAIN j[i].events : \E n \in DOMAIN x.journal[k].events :
                    j[i].events[m] = x.journal[k].events[n]
    PROVE  LET y == [x EXCEPT !.journal = j] IN
           /\ Sound(y) /\ Evolves(x, y, {}) /\ SameMatching(x, y)
           /\ y.active = x.active /\ y.physical = x.physical /\ y.route = x.route
           /\ y.journal = j
  <1>. DEFINE y == [x EXCEPT !.journal = j]
  <1>0. x \in Engines
    BY DEF Sound
  <1>1. /\ y \in Engines /\ SameMatching(x, y) /\ y.journal = j
        /\ y.physical = x.physical /\ y.logicalCount = x.logicalCount
        /\ y.carry = x.carry /\ y.reuse = x.reuse /\ y.route = x.route
        /\ y.active = x.active
    BY <1>0 DEF Engines, SameMatching
  <1>. HIDE DEF y
  <1>2. Configured(y) /\ DeadlineFits(y)
    BY <1>1, SameMatchingKeeps DEF Sound
  <1>3. OwnedUndecided(y) /\ Counted(y) /\ y.seq = x.seq
    BY <1>1 DEF Sound, OwnedUndecided, Counted, SameMatching
  <1>4. DeviceOrOutputs(y)
    <2>1. ASSUME NEW i \in DOMAIN j, j[i].device = NoDevice, NEW m \in DOMAIN j[i].events
          PROVE  j[i].events[m].type = "output"
      BY <2>1 DEF Sound, DeviceOrOutputs, OnlyOutputs
    <2>2. QED
      BY <1>1, <2>1 DEF DeviceOrOutputs, OnlyOutputs
  <1>5. JournalPresses(y) \subseteq JournalPresses(x)
    <2>1. ASSUME NEW i \in DOMAIN j, NEW m \in DOMAIN j[i].events
          PROVE  j[i].events[m].press \in JournalPresses(x)
      BY JournalPressesAre
    <2>2. QED
      BY <1>1, <2>1, JournalPressesAre
  <1>6. Evolves(x, y, {})
    BY <1>1, <1>3, <1>5, ReferencedParts, EvolvesBy
  <1>7. QED
    BY <1>1, <1>2, <1>3, <1>4, <1>6 DEF Sound, y

LEMMA DropChatterKeeps ==
    ASSUME NEW x, Sound(x), NEW meaningful
    PROVE  LET y == DropChatter(x, meaningful) IN
           Sound(y) /\ Evolves(x, y, {}) /\ y.seq = x.seq /\ y.route = x.route
  <1>1. CASE ~(x.mode = "reserved" /\ ~meaningful)
    BY <1>1 DEF DropChatter, Evolves
  <1>2. CASE x.mode = "reserved" /\ ~meaningful
    <2>. DEFINE j == Front(x.journal)
                y == [x EXCEPT !.journal = j]
    <2>1. x.journal \in Seq(JournalFrames)
      BY DEF Sound, Engines
    <2>2. /\ j \in Seq(JournalFrames)
          /\ \A i \in DOMAIN j : i \in DOMAIN x.journal /\ j[i] = x.journal[i]
      <3>1. CASE x.journal = <<>>
        <4>1. j = <<>>
          BY <3>1 DEF Front
        <4>. HIDE DEF j
        <4>2. QED
          BY <4>1
      <3>2. CASE x.journal # <<>>
        BY <2>1, <3>2 DEF Front
      <3>3. QED
        BY <3>1, <3>2
    <2>3. DropChatter(x, meaningful) = y
      BY <1>2 DEF DropChatter
    <2>. HIDE DEF j
    <2>4. Sound(y) /\ Evolves(x, y, {}) /\ SameMatching(x, y) /\ y.route = x.route
      BY <2>2, ShorterJournalKeeps
    <2>. HIDE DEF y
    <2>5. QED
      BY <2>3, <2>4 DEF SameMatching
  <1>3. QED
    BY <1>1, <1>2

-----------------------------------------------------------------------------
(* physical.go: recovery and shutdown                                      *)

(* What is kept of a sequence was in it.                                   *)
LEMMA KeptFrom ==
    ASSUME NEW A, NEW s \in Seq(A), NEW P
    PROVE  LET t == Kept(s, P) IN
           /\ t \in Seq(A)
           /\ \A m \in DOMAIN t : t[m] \in P /\ \E n \in DOMAIN s : t[m] = s[n]
  <1>. DEFINE B == ToSet(s)
              t == Kept(s, P)
  <1>1. s \in Seq(B) /\ B \subseteq A
    BY DEF ToSet
  <1>2. \A b \in B : \E n \in DOMAIN s : b = s[n]
    BY DEF ToSet
  <1>. HIDE DEF B
  <1>3. t \in Seq(B \cap P)
    BY <1>1, KeptType
  <1>. HIDE DEF t
  <1>4. \A m \in DOMAIN t : t[m] \in B \cap P
    BY <1>3
  <1>5. t \in Seq(A)
    BY <1>1, <1>3
  <1>6. QED
    BY <1>2, <1>4, <1>5 DEF t

LEMMA FewerActiveKeeps ==
    ASSUME NEW x, Sound(x), NEW K \in Seq(Activation), ToSet(K) \subseteq ToSet(x.active)
    PROVE  LET y == [x EXCEPT !.active = K] IN
           /\ Sound(y) /\ Evolves(x, y, {}) /\ SameMatching(x, y)
           /\ y.journal = x.journal /\ y.physical = x.physical /\ y.route = x.route
  <1>. DEFINE y == [x EXCEPT !.active = K]
  <1>0. x \in Engines
    BY DEF Sound
  <1>1. /\ y \in Engines /\ SameMatching(x, y)
        /\ y.physical = x.physical /\ y.logicalCount = x.logicalCount
        /\ y.route = x.route /\ y.carry = x.carry /\ y.reuse = x.reuse
        /\ y.journal = x.journal /\ y.active = K
    BY <1>0 DEF Engines, SameMatching
  <1>. HIDE DEF y
  <1>2. Configured(y) /\ DeadlineFits(y)
    BY <1>1, SameMatchingKeeps DEF Sound
  <1>3. OwnedUndecided(y) /\ Counted(y) /\ DeviceOrOutputs(y) /\ y.seq = x.seq
    BY <1>1 DEF Sound, OwnedUndecided, Counted, SameMatching, DeviceOrOutputs
  <1>4. JournalPresses(y) = JournalPresses(x)
    BY <1>1 DEF JournalPresses
  <1>5. Evolves(x, y, {})
    BY <1>1, <1>3, <1>4, ReferencedParts, EvolvesBy
  <1>6. QED
    BY <1>1, <1>2, <1>3, <1>5 DEF Sound, y

(* A journal with some events of some frames left.                         *)
SomeEvents(f, g) ==
    g = f \/ \E P : g = [f EXCEPT !.events = Kept(f.events, P)]

LEMMA SomeEventsType ==
    ASSUME NEW f \in JournalFrames, NEW g, SomeEvents(f, g)
    PROVE  /\ g \in JournalFrames /\ g.device = f.device
           /\ \A m \in DOMAIN g.events : \E n \in DOMAIN f.events : g.events[m] = f.events[n]
  <1>1. ASSUME NEW P, g = [f EXCEPT !.events = Kept(f.events, P)]
        PROVE  /\ g \in JournalFrames /\ g.device = f.device
               /\ \A m \in DOMAIN g.events : \E n \in DOMAIN f.events : g.events[m] = f.events[n]
    <2>. DEFINE t == Kept(f.events, P)
    <2>1. f.events \in Seq(Record)
      BY DEF JournalFrames
    <2>2. t \in Seq(Record) /\ \A m \in DOMAIN t : \E n \in DOMAIN f.events : t[m] = f.events[n]
      BY <2>1, KeptFrom
    <2>3. g = [f EXCEPT !.events = t]
      BY <1>1
    <2>. HIDE DEF t
    <2>4. g \in JournalFrames /\ g.device = f.device /\ g.events = t
      BY <2>2, <2>3 DEF JournalFrames
    <2>5. QED
      BY <2>2, <2>4
  <1>2. QED
    BY <1>1 DEF SomeEvents

LEMMA KeptEventsKeep ==
    ASSUME NEW x, Sound(x), NEW j, j = [i \in DOMAIN x.journal |-> j[i]],
           \A i \in DOMAIN x.journal : SomeEvents(x.journal[i], j[i])
    PROVE  LET y == [x EXCEPT !.journal = j] IN
           /\ Sound(y) /\ Evolves(x, y, {}) /\ SameMatching(x, y)
           /\ y.active = x.active /\ y.physical = x.physical /\ y.route = x.route
           /\ y.journal = j
  <1>1. x.journal \in Seq(JournalFrames)
    BY DEF Sound, Engines
  <1>2. ASSUME NEW i \in DOMAIN x.journal
        PROVE  /\ j[i] \in JournalFrames
               /\ j[i].device = x.journal[i].device
               /\ \A m \in DOMAIN j[i].events : \E n \in DOMAIN x.journal[i].events :
                     j[i].events[m] = x.journal[i].events[n]
    <2>1. x.journal[i] \in JournalFrames /\ SomeEvents(x.journal[i], j[i])
      BY <1>1
    <2>2. QED
      BY <2>1, SomeEventsType
  <1>3. j \in Seq(JournalFrames) /\ DOMAIN j = DOMAIN x.journal
    BY <1>1, <1>2, MapType
  <1>4. \A i \in DOMAIN j : \E k \in DOMAIN x.journal :
              /\ j[i].device = x.journal[k].device
              /\ \A m \in DOMAIN j[i].events : \E n \in DOMAIN x.journal[k].events :
                    j[i].events[m] = x.journal[k].events[n]
    BY <1>2, <1>3
  <1>5. QED
    BY <1>3, <1>4, ShorterJournalKeeps

LEMMA CancelledKeeps ==
    ASSUME NEW x, Sound(x), NEW d
    PROVE  LET y == Cancelled(x, d) IN
           Sound(y) /\ Evolves(x, y, {}) /\ y.seq = NoCandidate /\ y.physical = x.physical
  <1>. DEFINE f == Fail(x)
              A == {a \in ToSet(f.active) : \A p \in a.members : device(p) # d}
              K == Kept(f.active, A)
              w == [f EXCEPT !.active = K]
              P(i) == {r \in ToSet(f.journal[i].events) : r.type = "output"}
              j == [i \in DOMAIN f.journal |->
                      IF f.journal[i].device # d THEN f.journal[i]
                      ELSE [f.journal[i] EXCEPT !.events = Kept(f.journal[i].events, P(i))]]
              y == [w EXCEPT !.journal = j]
  <1>1. Sound(f) /\ Evolves(x, f, {})
    BY FailKeeps
  <1>2. f.seq = NoCandidate /\ f.physical = x.physical /\ f \in Engines
    BY FailFields DEF Sound
  <1>3. Cancelled(x, d) = [f EXCEPT !.active = K, !.journal = j]
    BY DEF Cancelled
  <1>4. j = [i \in DOMAIN f.journal |-> j[i]]
        /\ \A i \in DOMAIN f.journal : SomeEvents(f.journal[i], j[i])
    <2>1. \A i \in DOMAIN f.journal : SomeEvents(f.journal[i], j[i])
      <3>. TAKE i \in DOMAIN f.journal
      <3>1. CASE f.journal[i].device # d
        BY <3>1 DEF SomeEvents
      <3>2. CASE f.journal[i].device = d
        <4>1. j[i] = [f.journal[i] EXCEPT !.events = Kept(f.journal[i].events, P(i))]
          BY <3>2
        <4>. HIDE DEF j, P
        <4>2. QED
          BY <4>1 DEF SomeEvents
      <3>3. QED
        BY <3>1, <3>2
    <2>2. QED
      BY <2>1
  <1>. HIDE DEF j
  <1>5. Cancelled(x, d) = y
    <2>. HIDE DEF f, K
    <2>1. [f EXCEPT !.active = K, !.journal = j] = [[f EXCEPT !.active = K] EXCEPT !.journal = j]
      BY <1>2 DEF Engines
    <2>2. QED
      BY <1>3, <2>1
  <1>6. /\ Sound(w) /\ Evolves(f, w, {}) /\ SameMatching(f, w)
        /\ w.journal = f.journal /\ w.physical = f.physical
    <2>1. K \in Seq(Activation) /\ ToSet(K) \subseteq ToSet(f.active)
      <3>1. f.active \in Seq(Activation)
        BY <1>2 DEF Engines
      <3>. HIDE DEF f, A
      <3>2. K \in Seq(Activation) /\ \A m \in DOMAIN K : \E n \in DOMAIN f.active : K[m] = f.active[n]
        BY <3>1, KeptFrom
      <3>. HIDE DEF K
      <3>3. QED
        BY <3>2 DEF ToSet
    <2>. HIDE DEF f, K
    <2>2. QED
      BY <1>1, <2>1, FewerActiveKeeps
  <1>. HIDE DEF f, w
  <1>7. Sound(y) /\ Evolves(w, y, {}) /\ SameMatching(w, y) /\ y.physical = w.physical
    BY <1>4, <1>6, KeptEventsKeep
  <1>. HIDE DEF y
  <1>8. Evolves(f, y, {})
    <2>1. Evolves(f, y, {} \cup {})
      BY <1>1, <1>6, <1>7, EvolvesTransitive DEF Sound
    <2>2. QED
      BY <2>1
  <1>9. Evolves(x, y, {})
    <2>1. Evolves(x, y, {} \cup {})
      BY <1>1, <1>7, <1>8, EvolvesTransitive DEF Sound
    <2>2. QED
      BY <2>1
  <1>10. y.seq = NoCandidate /\ y.physical = x.physical
    BY <1>2, <1>6, <1>7 DEF SameMatching
  <1>11. QED
    BY <1>5, <1>7, <1>9, <1>10

LEMMA StopAllKeeps ==
    ASSUME NEW x, Sound(x), NEW activations \in Seq(Activation)
    PROVE  LET y == StopAll(x, activations) IN
           /\ Sound(y) /\ Evolves(x, y, {}) /\ SameMatching(x, y)
           /\ y.active = x.active /\ y.physical = x.physical /\ y.route = x.route
  <1>. DEFINE ss == [k \in DOMAIN activations |-> StopOutputs(activations[k])]
  <1>1. ASSUME NEW k \in DOMAIN activations PROVE ss[k] \in Seq(Output)
    <2>1. activations[k] \in Activation
      OBVIOUS
    <2>2. KeyOutput(activations[k].owner, activations[k].target, 0) \in Output
          /\ ReconcileDevice(activations[k].owner, {}) \in Output
      BY <2>1, StopRecords
    <2>3. \A p \in Output, q \in Output : <<p, q>> \in Seq(Output)
      OBVIOUS
    <2>4. QED
      BY <2>2, <2>3, Zenon DEF StopOutputs
  <1>2. ss \in Seq(Seq(Output))
    <2>1. ss = [k \in DOMAIN activations |-> ss[k]]
      OBVIOUS
    <2>. HIDE DEF ss
    <2>2. QED
      BY <1>1, <2>1, MapType
  <1>. DEFINE outputs == FlattenSeq(ss)
  <1>3. outputs \in Seq(Output)
    BY <1>2, FlattenType
  <1>4. StopAll(x, activations) = QueueOutputs(x, outputs)
    BY DEF StopAll
  <1>. HIDE DEF outputs
  <1>. DEFINE y == QueueOutputs(x, outputs)
  <1>5. Sound(y) /\ Evolves(x, y, {})
    BY <1>3, QueueOutputsKeeps
  <1>6. /\ SameMatching(x, y)
        /\ y.active = x.active /\ y.physical = x.physical /\ y.route = x.route
    BY <1>3, QueueOutputsFields DEF Sound
  <1>. HIDE DEF y
  <1>7. QED
    BY <1>4, <1>5, <1>6 DEF y

LEMMA EndedByType ==
    ASSUME NEW x \in Engines, NEW d
    PROVE  EndedBy(x, d) \in Seq(Activation)
  BY KeptFrom DEF Engines, EndedBy

LEMMA VisibleCodesType ==
    ASSUME NEW x \in Engines, NEW d
    PROVE  VisibleCodes(x, d) \in SUBSET Code
  <1>1. x.physical \subseteq Press
    BY DEF Engines
  <1>2. QED
    BY <1>1, PressParts DEF VisibleCodes

(* A snapshot starts lifetimes that nothing refers to and forwards them.    *)
LEMMA SnapshotKeeps ==
    ASSUME NEW x, Sound(x), NEW old, x.seq = NoCandidate, x.physical = old.physical,
           Referenced(x) \subseteq Referenced(old) \cup {NoPress},
           NEW d \in Device, NEW pressed \in SUBSET Code,
           \A c \in pressed : PressAt(old, d, c) = NoPress => FreeLives(old, d, c) # {}
    PROVE  LET y == Snapshot(x, old, d, pressed) IN
           /\ Sound(y)
           /\ \E N \in SUBSET Press :
                 /\ N \cap Referenced(old) = {}
                 /\ Evolves(x, y, N)
                 /\ \A p \in N : y.route[p] # "undecided"
  <1>. DEFINE gone == {p \in x.physical : device(p) = d /\ code(p) \notin pressed}
              y == Release(x, gone)
              known == {code(p) : p \in {q \in y.physical : device(q) = d}}
              new == {<<d, c, CHOOSE n \in FreeLives(old, d, c) : TRUE>> : c \in pressed \ known}
              z == Down(y, new)
              S == {p \in z.physical : device(p) = d}
              w == [z EXCEPT !.route = [p \in Press |->
                      IF p \in S /\ z.route[p] = "undecided" THEN "forwarded" ELSE z.route[p]]]
  <1>1. gone \in SUBSET x.physical /\ x \in Engines /\ Counted(x)
    BY DEF Sound
  <1>2. Sound(y) /\ Evolves(x, y, {}) /\ y.physical = x.physical \ gone /\ y.seq = NoCandidate
    BY <1>1, ReleaseKeeps, ReleaseFields DEF SameMatching
  <1>3. ASSUME NEW c \in pressed \ known PROVE FreeLives(old, d, c) # {}
    <2>1. ~\E p \in old.physical : device(p) = d /\ code(p) = c
      <3>1. SUFFICES ASSUME NEW p \in old.physical, device(p) = d, code(p) = c PROVE FALSE
        OBVIOUS
      <3>. HIDE DEF y
      <3>2. p \in y.physical
        BY <1>2, <3>1
      <3>3. QED
        BY <3>1, <3>2
    <2>2. PressAt(old, d, c) = NoPress
      BY <2>1 DEF PressAt
    <2>3. QED
      BY <2>2
  <1>. HIDE DEF gone, y, known
  <1>4. ASSUME NEW c \in pressed \ known
        PROVE  LET p == <<d, c, CHOOSE n \in FreeLives(old, d, c) : TRUE>> IN
               p \in Press /\ p \notin Referenced(old)
    <2>. DEFINE n == CHOOSE n \in FreeLives(old, d, c) : TRUE
    <2>1. n \in FreeLives(old, d, c)
      BY <1>3
    <2>. HIDE DEF n
    <2>2. n \in 1 .. MaxLives /\ <<d, c, n>> \notin Referenced(old)
      BY <2>1 DEF FreeLives
    <2>3. QED
      BY <2>2 DEF Press, n
  <1>5. new \in SUBSET Press /\ new \cap Referenced(old) = {}
    BY <1>4
  <1>. HIDE DEF new
  <1>6. new \cap Referenced(y) = {}
    <2>1. Referenced(y) \subseteq Referenced(old) \cup {NoPress}
      BY <1>2 DEF Evolves
    <2>2. QED
      BY <1>5, <2>1, PressFinite
  <1>7. Sound(z) /\ Evolves(y, z, new)
    BY <1>2, <1>5, <1>6, DownKeeps
  <1>8. z.seq = NoCandidate /\ z.physical = y.physical \cup new
    <2>1. y \in Engines
      BY <1>2 DEF Sound
    <2>2. SameMatching(y, z) /\ z.physical = y.physical \cup new
      BY <1>5, <2>1, DownFields
    <2>. HIDE DEF z
    <2>3. QED
      BY <1>2, <2>2 DEF SameMatching
  <1>9. Snapshot(x, old, d, pressed) = w
    <2>1. Snapshot(x, old, d, pressed) =
            [z EXCEPT !.route = [p \in Press |->
               IF p \in z.physical /\ device(p) = d /\ z.route[p] = "undecided"
                 THEN "forwarded" ELSE z.route[p]]]
      BY DEF Snapshot, gone, y, known, new
    <2>2. \A p \in Press : p \in S <=> p \in z.physical /\ device(p) = d
      OBVIOUS
    <2>. HIDE DEF S, z
    <2>3. [p \in Press |->
               IF p \in z.physical /\ device(p) = d /\ z.route[p] = "undecided"
                 THEN "forwarded" ELSE z.route[p]]
            = [p \in Press |->
                 IF p \in S /\ z.route[p] = "undecided" THEN "forwarded" ELSE z.route[p]]
      BY <2>2
    <2>4. QED
      BY <2>1, <2>3
  <1>10. \A p \in new : p \in S
    <2>1. \A p \in new : device(p) = d
      BY DEF new, device
    <2>2. QED
      BY <1>8, <2>1
  <1>. HIDE DEF z, S
  <1>11. /\ Sound(w) /\ Evolves(z, w, {})
         /\ w.route = [p \in Press |->
              IF p \in S /\ z.route[p] = "undecided" THEN "forwarded" ELSE z.route[p]]
    <2>1. S \cap z.seq.owned = {}
      BY <1>8 DEF NoCandidate
    <2>2. QED
      BY <1>7, <2>1, ForwardKeeps
  <1>. HIDE DEF w
  <1>12. Evolves(x, w, new)
    <2>1. Evolves(x, z, {} \cup new)
      BY <1>2, <1>7, EvolvesTransitive DEF Sound
    <2>2. Evolves(x, z, new)
      BY <2>1
    <2>3. Evolves(x, w, new \cup {})
      BY <1>7, <1>11, <2>2, EvolvesTransitive DEF Sound
    <2>4. QED
      BY <2>3
  <1>13. \A p \in new : w.route[p] # "undecided"
    BY <1>5, <1>10, <1>11
  <1>14. QED
    BY <1>5, <1>9, <1>11, <1>12, <1>13

LEMMA ReleasesKeep ==
    ASSUME NEW x, Sound(x), NEW devices \in Seq(Device)
    PROVE  LET y == Releases(x, devices) IN
           Sound(y) /\ Evolves(x, y, {}) /\ SameMatching(x, y)
  <1>. DEFINE outputs == [k \in DOMAIN devices |-> ReconcileDevice(devices[k], {})]
              y == Releases(x, devices)
  <1>1. outputs \in Seq(Output)
    <2>1. \A k \in DOMAIN devices : outputs[k] \in Output
      <3>. TAKE k \in DOMAIN devices
      <3>1. devices[k] \in Device
        OBVIOUS
      <3>2. QED
        BY <3>1 DEF ReconcileDevice, Output, Owner
    <2>2. outputs = [k \in DOMAIN devices |-> outputs[k]]
      OBVIOUS
    <2>. HIDE DEF outputs
    <2>3. QED
      BY <2>1, <2>2, MapType
  <1>2. y = QueueOutputs(x, outputs)
    BY DEF Releases
  <1>. HIDE DEF outputs
  <1>3. Sound(y) /\ Evolves(x, y, {}) /\ SameMatching(x, y)
    BY <1>1, <1>2, QueueOutputsKeeps, QueueOutputsFields DEF Sound
  <1>4. QED
    BY <1>3

LEMMA ClosingKeeps ==
    ASSUME NEW x, Sound(x)
    PROVE  LET y == Closing(x) IN
           Sound(y) /\ Evolves(x, y, {}) /\ y.seq = NoCandidate
  <1>. DEFINE f == Fail(x)
              P(i) == {r \in ToSet(f.journal[i].events) : KeptByClose(r)}
              j == [i \in DOMAIN f.journal |->
                      [f.journal[i] EXCEPT !.events = Kept(f.journal[i].events, P(i))]]
              v == [f EXCEPT !.journal = j]
              u == StopAll(v, f.active)
              K == <<>>
              w == [u EXCEPT !.active = K]
              z == Release(w, w.physical)
              D == {device(p) : p \in f.physical}
              y == Releases(z, SetToSeq(D))
  <1>1. Sound(f) /\ Evolves(x, f, {})
    BY FailKeeps
  <1>2. f.seq = NoCandidate /\ f \in Engines
    BY FailFields DEF Sound
  <1>3. Closing(x) = y
    BY DEF Closing
  <1>4. j = [i \in DOMAIN f.journal |-> j[i]]
        /\ \A i \in DOMAIN f.journal : SomeEvents(f.journal[i], j[i])
    <2>1. \A i \in DOMAIN f.journal : SomeEvents(f.journal[i], j[i])
      <3>. TAKE i \in DOMAIN f.journal
      <3>1. j[i] = [f.journal[i] EXCEPT !.events = Kept(f.journal[i].events, P(i))]
        OBVIOUS
      <3>. HIDE DEF j, P
      <3>2. QED
        BY <3>1 DEF SomeEvents
    <2>2. QED
      BY <2>1
  <1>5. D \subseteq Device /\ IsFiniteSet(D)
    <2>1. f.physical \subseteq Press
      BY <1>2 DEF Engines
    <2>. HIDE DEF f
    <2>2. D \subseteq Device
      BY <2>1, PressParts
    <2>3. QED
      BY <2>2, OwnerAssumption, FS_Subset DEF Owner
  <1>. HIDE DEF f, j, D
  <1>6. Sound(v) /\ Evolves(f, v, {}) /\ SameMatching(f, v)
    BY <1>1, <1>4, KeptEventsKeep
  <1>7. f.active \in Seq(Activation)
    BY <1>2 DEF Engines
  <1>. HIDE DEF v
  <1>8. Sound(u) /\ Evolves(v, u, {}) /\ SameMatching(v, u)
    BY <1>6, <1>7, StopAllKeeps
  <1>. HIDE DEF u
  <1>9. Sound(w) /\ Evolves(u, w, {}) /\ SameMatching(u, w)
    <2>1. K \in Seq(Activation) /\ ToSet(K) \subseteq ToSet(u.active)
      BY DEF ToSet
    <2>. HIDE DEF K
    <2>2. QED
      BY <1>8, <2>1, FewerActiveKeeps
  <1>. HIDE DEF w
  <1>10. Sound(z) /\ Evolves(w, z, {}) /\ SameMatching(w, z)
    <2>1. w \in Engines /\ Counted(w) /\ w.physical \in SUBSET w.physical
      BY <1>9 DEF Sound
    <2>2. QED
      BY <1>9, <2>1, ReleaseKeeps, ReleaseFields
  <1>. HIDE DEF z
  <1>11. Sound(y) /\ Evolves(z, y, {}) /\ SameMatching(z, y)
    <2>1. SetToSeq(D) \in Seq(D)
      BY <1>5, SetToSeqType
    <2>2. SetToSeq(D) \in Seq(Device)
      BY <1>5, <2>1
    <2>3. QED
      BY <1>10, <2>2, ReleasesKeep
  <1>. HIDE DEF y
  <1>12. Evolves(x, y, {})
    <2>1. /\ x \in Engines /\ f \in Engines /\ v \in Engines /\ u \in Engines
          /\ w \in Engines /\ z \in Engines /\ y \in Engines
      BY <1>1, <1>6, <1>8, <1>9, <1>10, <1>11 DEF Sound
    <2>2. {} \cup {} = {}
      OBVIOUS
    <2>3. Evolves(x, v, {})
      BY <1>1, <1>6, <2>1, <2>2, EvolvesTransitive
    <2>4. Evolves(x, u, {})
      BY <1>8, <2>1, <2>2, <2>3, EvolvesTransitive
    <2>5. Evolves(x, w, {})
      BY <1>9, <2>1, <2>2, <2>4, EvolvesTransitive
    <2>6. Evolves(x, z, {})
      BY <1>10, <2>1, <2>2, <2>5, EvolvesTransitive
    <2>7. QED
      BY <1>11, <2>1, <2>2, <2>6, EvolvesTransitive
  <1>13. y.seq = NoCandidate
    BY <1>2, <1>6, <1>8, <1>9, <1>10, <1>11 DEF SameMatching
  <1>14. QED
    BY <1>3, <1>11, <1>12, <1>13

-----------------------------------------------------------------------------
(* HandleFrame: one event                                                  *)

Fresh(x, d, event) == Valid(x, d, event) /\ event.value = 1

LEMMA EventType ==
    ASSUME NEW event \in InputEvent
    PROVE  /\ event.type \in {"key", "msc", "led"}
           /\ event.type = "key" => event \in KeyEvent /\ event.code \in Code
                                      /\ event.value \in {0, 1, 2} /\ event.code \in InputCode
           /\ event.type # "key" => event \in OtherEvent
  BY InputAssumption DEF KeyEvent, OtherEvent, InputCode

LEMMA PressAtIs ==
    ASSUME NEW x, NEW d, NEW c
    PROVE  LET p == PressAt(x, d, c) IN
           \/ p = NoPress /\ ~\E q \in x.physical : device(q) = d /\ code(q) = c
           \/ p \in x.physical /\ device(p) = d /\ code(p) = c
  BY DEF PressAt

LEMMA EventPressIs ==
    ASSUME NEW x \in Engines, NEW d \in Device, NEW event \in InputEvent,
           Fresh(x, d, event) => FreeLives(x, d, event.code) # {}
    PROVE  LET p == EventPress(x, d, event) IN
           /\ p \in Press \cup {NoPress}
           /\ event.type # "key" => p = NoPress
           /\ Fresh(x, d, event) => p \in Press /\ p \notin Referenced(x)
           /\ ~Fresh(x, d, event) => p \in x.physical \cup {NoPress}
           /\ Valid(x, d, event) /\ event.value # 1 => p \in x.physical
           /\ event.type = "key" /\ p # NoPress => device(p) = d /\ code(p) = event.code
  <1>. DEFINE p == EventPress(x, d, event)
              c == event.code
  <1>0. x.physical \subseteq Press
    BY DEF Engines
  <1>1. CASE event.type # "key"
    <2>1. p = NoPress
      BY <1>1 DEF EventPress
    <2>2. ~Valid(x, d, event)
      BY <1>1 DEF Valid
    <2>3. QED
      BY <1>1, <2>1, <2>2 DEF Fresh
  <1>2. CASE event.type = "key" /\ Fresh(x, d, event)
    <2>. DEFINE n == CHOOSE n \in FreeLives(x, d, c) : TRUE
    <2>1. p = <<d, c, n>>
      BY <1>2 DEF EventPress, Fresh
    <2>2. n \in FreeLives(x, d, c)
      BY <1>2
    <2>. HIDE DEF n, p
    <2>3. n \in 1 .. MaxLives /\ <<d, c, n>> \notin Referenced(x)
      BY <2>2 DEF FreeLives
    <2>4. c \in Code
      BY <1>2, EventType
    <2>5. p \in Press /\ p \notin Referenced(x) /\ device(p) = d /\ code(p) = c
      BY <2>1, <2>3, <2>4 DEF Press, device, code
    <2>6. QED
      BY <1>2, <2>5 DEF p, Fresh
  <1>3. CASE event.type = "key" /\ ~Fresh(x, d, event)
    <2>1. p = PressAt(x, d, c)
      BY <1>3 DEF EventPress, Fresh
    <2>2. \/ p = NoPress
          \/ p \in x.physical /\ device(p) = d /\ code(p) = c
      BY <2>1, PressAtIs
    <2>3. Valid(x, d, event) /\ event.value # 1 => p # NoPress
      BY <2>1 DEF Valid
    <2>. HIDE DEF p
    <2>4. QED
      BY <1>0, <1>3, <2>2, <2>3, PressFinite DEF p, Fresh
  <1>4. QED
    BY <1>1, <1>2, <1>3

LEMMA IngestFields ==
    ASSUME NEW x, Sound(x), NEW d \in Device, NEW event \in InputEvent,
           Fresh(x, d, event) => FreeLives(x, d, event.code) # {}
    PROVE  LET p == EventPress(x, d, event)
               y == Ingest(x, p, event, Valid(x, d, event))
           IN /\ y \in Engines /\ SameMatching(x, y) /\ Counted(y)
              /\ y.physical \subseteq x.physical \cup {p}
              /\ Fresh(x, d, event) => y.physical = x.physical \cup {p}
              /\ ~Fresh(x, d, event) => y.physical \subseteq x.physical
              /\ y.carry \subseteq x.carry /\ y.reuse \subseteq x.reuse
              /\ y.journal = x.journal /\ y.active = x.active
              /\ y.route = [q \in Press |-> IF Fresh(x, d, event) /\ q = p
                                              THEN "undecided" ELSE x.route[q]]
  <1>. DEFINE p == EventPress(x, d, event)
              valid == Valid(x, d, event)
              y == Ingest(x, p, event, valid)
  <1>0. x \in Engines /\ Counted(x)
    BY DEF Sound
  <1>1. /\ Fresh(x, d, event) => p \in Press /\ p \notin Referenced(x)
        /\ valid /\ event.value # 1 => p \in x.physical
    BY <1>0, EventPressIs
  <1>2. x.route = [q \in Press |-> x.route[q]]
    BY <1>0 DEF Engines
  <1>. HIDE DEF p
  <1>3. CASE Fresh(x, d, event)
    <2>. DEFINE S == {p}
                z == Down(x, S)
    <2>1. y = z
      BY <1>3 DEF Ingest, Fresh
    <2>2. S \in SUBSET Press /\ S \cap Referenced(x) = {}
      BY <1>1, <1>3
    <2>. HIDE DEF y, S
    <2>3. /\ z \in Engines /\ SameMatching(x, z)
          /\ z.physical = x.physical \cup S
          /\ z.route = [q \in Press |-> IF q \in S THEN "undecided" ELSE x.route[q]]
          /\ z.carry = x.carry /\ z.reuse = x.reuse
          /\ z.journal = x.journal /\ z.active = x.active
      BY <1>0, <2>2, DownFields
    <2>4. Counted(z)
      BY <2>2, DownKeeps DEF Sound
    <2>. HIDE DEF z
    <2>5. z.route = [q \in Press |-> IF Fresh(x, d, event) /\ q = p
                                       THEN "undecided" ELSE x.route[q]]
      BY <1>3, <2>3 DEF S
    <2>6. QED
      BY <1>3, <2>1, <2>3, <2>4, <2>5 DEF p, y, S
  <1>4. CASE valid /\ event.value = 0
    <2>. DEFINE S == {p}
                z == Release(x, S)
    <2>1. y = z
      BY <1>4 DEF Ingest
    <2>2. S \in SUBSET x.physical
      BY <1>1, <1>4
    <2>. HIDE DEF y, S
    <2>3. /\ z \in Engines /\ SameMatching(x, z)
          /\ z.physical = x.physical \ S
          /\ Counted(z)
          /\ z.route = x.route
          /\ z.carry = x.carry \ S /\ z.reuse = x.reuse \ S
          /\ z.journal = x.journal /\ z.active = x.active
      BY <1>0, <2>2, ReleaseFields
    <2>. HIDE DEF z
    <2>4. ~Fresh(x, d, event)
      BY <1>4 DEF Fresh
    <2>5. z.route = [q \in Press |-> IF Fresh(x, d, event) /\ q = p
                                       THEN "undecided" ELSE x.route[q]]
      BY <1>2, <2>3, <2>4
    <2>6. QED
      BY <2>1, <2>3, <2>4, <2>5 DEF p, y
  <1>5. CASE ~Fresh(x, d, event) /\ ~(valid /\ event.value = 0)
    <2>1. y = x
      BY <1>5 DEF Ingest, Fresh
    <2>2. x.route = [q \in Press |-> IF Fresh(x, d, event) /\ q = p
                                       THEN "undecided" ELSE x.route[q]]
      BY <1>2, <1>5
    <2>. HIDE DEF y
    <2>3. QED
      BY <1>0, <1>5, <2>1, <2>2 DEF p, y, SameMatching
  <1>6. QED
    BY <1>3, <1>4, <1>5

(* The elements of two sequences in one.                                   *)
Joined(u, s, t) == u = s \o t

LEMMA ConcatElements ==
    ASSUME NEW A, NEW s \in Seq(A), NEW t \in Seq(A), NEW u, Joined(u, s, t)
    PROVE  /\ \A k \in DOMAIN u : (\E i \in DOMAIN s : u[k] = s[i]) \/ (\E i \in DOMAIN t : u[k] = t[i])
           /\ \A i \in DOMAIN s : \E k \in DOMAIN u : u[k] = s[i]
           /\ \A i \in DOMAIN t : \E k \in DOMAIN u : u[k] = t[i]
  <1>1. /\ DOMAIN s = 1 .. Len(s) /\ DOMAIN t = 1 .. Len(t)
        /\ DOMAIN u = 1 .. (Len(s) + Len(t)) /\ Len(s) \in Nat /\ Len(t) \in Nat
    BY DEF Joined
  <1>2. \A k \in 1 .. Len(s) : u[k] = s[k]
    BY DEF Joined
  <1>3. \A k \in 1 .. Len(t) : u[Len(s) + k] = t[k]
    BY DEF Joined
  <1>4. ASSUME NEW k \in DOMAIN u
        PROVE  (\E i \in DOMAIN s : u[k] = s[i]) \/ (\E i \in DOMAIN t : u[k] = t[i])
    <2>1. CASE k <= Len(s)
      <3>1. k \in DOMAIN s /\ u[k] = s[k]
        BY <1>1, <1>2, <2>1
      <3>2. QED
        BY <3>1, Zenon
    <2>2. CASE k > Len(s)
      <3>1. k - Len(s) \in DOMAIN t /\ Len(s) + (k - Len(s)) = k
        BY <1>1, <2>2
      <3>2. u[k] = t[k - Len(s)]
        <4>1. u[Len(s) + (k - Len(s))] = t[k - Len(s)]
          BY <1>1, <1>3, <3>1, Zenon
        <4>2. QED
          BY <3>1, <4>1, Zenon
      <3>3. QED
        BY <3>1, <3>2, Zenon
    <2>3. QED
      BY <1>1, <2>1, <2>2
  <1>5. ASSUME NEW i \in DOMAIN s PROVE \E k \in DOMAIN u : u[k] = s[i]
    <2>1. i \in DOMAIN u /\ u[i] = s[i]
      BY <1>1, <1>2
    <2>2. QED
      BY <2>1, Zenon
  <1>6. ASSUME NEW i \in DOMAIN t PROVE \E k \in DOMAIN u : u[k] = t[i]
    <2>1. Len(s) + i \in DOMAIN u /\ u[Len(s) + i] = t[i]
      BY <1>1, <1>3
    <2>2. QED
      BY <2>1, Zenon
  <1>7. QED
    BY <1>4, <1>5, <1>6, Zenon

(* The owner h is not in use: no live remap, no journalled operation has it. *)
Unused(h) == {o \in Output : o.kind = "action" \/ o.owner # h}

OwnerFree(x, h) ==
    /\ \A a \in ToSet(x.active) : a.owner # h
    /\ JournalOutputsIn(x, Unused(h))

LEMMA RecordedKeeps ==
    ASSUME NEW x \in Engines, x.journal # <<>>, Last(x.journal).device \in Device,
           DeviceOrOutputs(x), NEW B \in SUBSET Record, NEW records \in Seq(B)
    PROVE  LET y == Recorded(x, records) IN
           /\ DeviceOrOutputs(y)
           /\ y.journal # <<>> /\ Last(y.journal).device = Last(x.journal).device
           /\ JournalPresses(x) \subseteq JournalPresses(y)
           /\ JournalPresses(y) \subseteq JournalPresses(x) \cup {r.press : r \in B}
           /\ \A k \in DOMAIN records : records[k].press \in JournalPresses(y)
           /\ \A O : JournalOutputsIn(x, O) /\ (\A r \in B : r.type = "output" => r.output \in O)
                       => JournalOutputsIn(y, O)
  <1>. DEFINE y == Recorded(x, records)
              n == Len(x.journal)
              f == x.journal[n]
  <1>0. n \in DOMAIN x.journal /\ f \in JournalFrames
    <2>1. x.journal \in Seq(JournalFrames)
      BY DEF Engines
    <2>2. QED
      BY <2>1
  <1>3. f.events \in Seq(Record) /\ records \in Seq(Record)
    <2>. HIDE DEF f
    <2>1. QED
      BY <1>0 DEF JournalFrames
  <1>1. /\ y \in Engines
        /\ Len(y.journal) = n /\ DOMAIN y.journal = DOMAIN x.journal /\ n \in DOMAIN x.journal
        /\ \A i \in DOMAIN x.journal :
              /\ y.journal[i].device = x.journal[i].device
              /\ i # n => y.journal[i] = x.journal[i]
        /\ y.journal[n].events = f.events \o records
    <2>1. records \in Seq(Record)
      OBVIOUS
    <2>2. QED
      BY <2>1, RecordedFields
  <1>. HIDE DEF y
  <1>. DEFINE g == y.journal[n]
  <1>4. /\ \A k \in DOMAIN g.events :
              \/ \E i \in DOMAIN f.events : g.events[k] = f.events[i]
              \/ g.events[k] \in B
        /\ \A i \in DOMAIN f.events : \E k \in DOMAIN g.events : g.events[k] = f.events[i]
        /\ \A i \in DOMAIN records : \E k \in DOMAIN g.events : g.events[k] = records[i]
    <2>. DEFINE s == f.events
                u == g.events
    <2>1. Joined(u, s, records)
      BY <1>1 DEF Joined
    <2>2. s \in Seq(Record) /\ records \in Seq(Record)
      BY <1>3
    <2>. HIDE DEF s, u
    <2>. DEFINE t == records
    <2>. HIDE DEF t
    <2>3. /\ \A k \in DOMAIN u : (\E i \in DOMAIN s : u[k] = s[i]) \/ (\E i \in DOMAIN t : u[k] = t[i])
          /\ \A i \in DOMAIN s : \E k \in DOMAIN u : u[k] = s[i]
          /\ \A i \in DOMAIN t : \E k \in DOMAIN u : u[k] = t[i]
      <3>1. Joined(u, s, t) /\ t \in Seq(Record)
        BY <2>1, <2>2 DEF t
      <3>2. QED
        BY <2>2, <3>1, ConcatElements
    <2>4. \A i \in DOMAIN records : records[i] \in B
      OBVIOUS
    <2>5. QED
      BY <2>3, <2>4, Zenon DEF u, s, t
  <1>. HIDE DEF f, g
  <1>5. y.journal # <<>> /\ Last(y.journal) = g /\ Last(x.journal) = f /\ g.device = f.device
    BY <1>0, <1>1 DEF Last, f, g, Engines
  <1>6. DeviceOrOutputs(y)
    <2>1. NoDevice \notin Device
      BY OwnerAssumption DEF Owner
    <2>2. QED
      BY <1>1, <1>5, <2>1 DEF DeviceOrOutputs, OnlyOutputs, g
  <1>7. JournalPresses(x) \subseteq JournalPresses(y)
    <2>1. ASSUME NEW i \in DOMAIN x.journal, NEW k \in DOMAIN x.journal[i].events
          PROVE  \E m \in DOMAIN y.journal[i].events :
                    y.journal[i].events[m] = x.journal[i].events[k]
      BY <1>1, <1>4 DEF f, g
    <2>2. QED
      BY <1>1, <2>1, JournalPressesAre
  <1>8. ASSUME NEW i \in DOMAIN y.journal, NEW k \in DOMAIN y.journal[i].events
        PROVE  \/ i \in DOMAIN x.journal /\ \E m \in DOMAIN x.journal[i].events :
                     y.journal[i].events[k] = x.journal[i].events[m]
               \/ y.journal[i].events[k] \in B
    BY <1>1, <1>4 DEF f, g
  <1>9. JournalPresses(y) \subseteq JournalPresses(x) \cup {r.press : r \in B}
    BY <1>8, JournalPressesAre
  <1>10. ASSUME NEW k \in DOMAIN records PROVE records[k].press \in JournalPresses(y)
    <2>1. PICK m \in DOMAIN g.events : g.events[m] = records[k]
      BY <1>4
    <2>2. n \in DOMAIN y.journal
      BY <1>1
    <2>3. QED
      BY <2>1, <2>2, JournalPressesAre DEF g
  <1>11. ASSUME NEW O, JournalOutputsIn(x, O), \A r \in B : r.type = "output" => r.output \in O
         PROVE  JournalOutputsIn(y, O)
    BY <1>8, <1>11 DEF JournalOutputsIn
  <1>12. QED
    BY <1>5, <1>6, <1>7, <1>9, <1>10, <1>11 DEF y

(* The records of an event: the event itself and what it does to the remaps. *)
Outputs(v, tr, valid) == IF valid THEN ActivationEvents(v, tr) ELSE <<>>

Records(v, tr, valid, chatter, event, p) ==
    (IF chatter THEN <<>> ELSE <<RecordEvent(event, p)>>) \o Outputs(v, tr, valid)

EventRecords(v, event, p) == {RecordEvent(event, p)} \cup OfActive(v)

LEMMA RecordsType ==
    ASSUME NEW v \in Engines, NEW tr, NEW valid, NEW chatter, NEW event \in InputEvent,
           NEW p \in Press \cup {NoPress}, event.type # "key" => p = NoPress
    PROVE  /\ EventRecords(v, event, p) \in SUBSET Record
           /\ Records(v, tr, valid, chatter, event, p) \in Seq(EventRecords(v, event, p))
           /\ ~chatter =>
                RecordEvent(event, p) \in ToSet(Records(v, tr, valid, chatter, event, p))
  <1>. DEFINE r == RecordEvent(event, p)
              B == EventRecords(v, event, p)
              first == IF chatter THEN <<>> ELSE <<r>>
              outputs == Outputs(v, tr, valid)
              records == Records(v, tr, valid, chatter, event, p)
  <1>1. r \in Record
    BY EventType DEF RecordEvent, Record
  <1>2. B \in SUBSET Record
    BY <1>1 DEF OfActive, EventRecords
  <1>3. r \in B /\ OfActive(v) \subseteq B
    BY DEF EventRecords
  <1>4. outputs \in Seq(B)
    <2>1. ActivationEvents(v, tr) \in Seq(OfActive(v))
      BY ActivationEventsType
    <2>. HIDE DEF B
    <2>2. Seq(OfActive(v)) \subseteq Seq(B)
      BY <1>3
    <2>3. <<>> \in Seq(B)
      OBVIOUS
    <2>4. QED
      BY <2>1, <2>2, <2>3, Zenon DEF Outputs
  <1>. HIDE DEF B, r, outputs
  <1>5. first \in Seq(B) /\ (~chatter => first # <<>> /\ first[1] = r /\ 1 \in DOMAIN first)
    <2>1. <<r>> \in Seq(B) /\ <<r>> # <<>> /\ <<r>>[1] = r /\ 1 \in DOMAIN <<r>>
      BY <1>3
    <2>2. <<>> \in Seq(B)
      OBVIOUS
    <2>3. QED
      BY <2>1, <2>2, Zenon
  <1>6. records = first \o outputs
    BY DEF Records, outputs, r
  <1>. HIDE DEF records, first
  <1>7. records \in Seq(B)
    BY <1>4, <1>5, <1>6
  <1>8. Joined(records, first, outputs)
    BY <1>6 DEF Joined
  <1>9. \A i \in DOMAIN first : \E k \in DOMAIN records : records[k] = first[i]
    BY <1>4, <1>5, <1>8, ConcatElements
  <1>10. ~chatter => \E k \in DOMAIN records : records[k] = r
    BY <1>5, <1>9
  <1>11. QED
    BY <1>2, <1>7, <1>10 DEF B, r, records, ToSet

Ingested(x, d, event) == Ingest(x, EventPress(x, d, event), event, Valid(x, d, event))

TransitionOf(x, d, event) ==
    Transition(Ingested(x, d, event), EventPress(x, d, event), event)

(* The remaps that the event ends are over.                                *)
Ended(x, d, event) ==
    IF Valid(x, d, event)
      THEN EndActivations(Ingested(x, d, event), TransitionOf(x, d, event))
      ELSE Ingested(x, d, event)

Handled(x, d, event, chatter) ==
    Recorded(Ended(x, d, event),
             Records(Ingested(x, d, event), TransitionOf(x, d, event), Valid(x, d, event),
                     chatter, event, EventPress(x, d, event)))

LEMMA EndedFields ==
    ASSUME NEW x, Sound(x), NEW d \in Device, NEW event \in InputEvent,
           Fresh(x, d, event) => FreeLives(x, d, event.code) # {}
    PROVE  LET p == EventPress(x, d, event)
               z == Ended(x, d, event)
               v == Ingested(x, d, event)
           IN /\ v \in Engines /\ v.journal = x.journal /\ v.active = x.active
              /\ v.mode = x.mode
              /\ z \in Engines /\ SameMatching(x, z) /\ Counted(z)
              /\ z.physical \subseteq x.physical \cup {p}
              /\ Fresh(x, d, event) => z.physical = x.physical \cup {p}
              /\ ~Fresh(x, d, event) => z.physical \subseteq x.physical
              /\ z.carry \subseteq x.carry /\ z.reuse \subseteq x.reuse
              /\ z.journal = x.journal /\ ToSet(z.active) \subseteq ToSet(x.active)
              /\ z.route = [q \in Press |-> IF Fresh(x, d, event) /\ q = p
                                              THEN "undecided" ELSE x.route[q]]
  <1>. DEFINE p == EventPress(x, d, event)
              v == Ingested(x, d, event)
              z == Ended(x, d, event)
              tr == TransitionOf(x, d, event)
  <1>1. /\ v \in Engines /\ SameMatching(x, v) /\ Counted(v)
        /\ v.physical \subseteq x.physical \cup {p}
        /\ Fresh(x, d, event) => v.physical = x.physical \cup {p}
        /\ ~Fresh(x, d, event) => v.physical \subseteq x.physical
        /\ v.carry \subseteq x.carry /\ v.reuse \subseteq x.reuse
        /\ v.journal = x.journal /\ v.active = x.active
        /\ v.route = [q \in Press |-> IF Fresh(x, d, event) /\ q = p
                                        THEN "undecided" ELSE x.route[q]]
    BY IngestFields DEF Ingested
  <1>. HIDE DEF v, p, tr
  <1>2. /\ z \in Engines /\ SameMatching(v, z)
        /\ z.physical = v.physical /\ z.logicalCount = v.logicalCount
        /\ z.route = v.route /\ z.carry = v.carry /\ z.reuse = v.reuse
        /\ z.journal = v.journal
        /\ ToSet(z.active) \subseteq ToSet(v.active)
    <2>1. CASE Valid(x, d, event)
      <3>. DEFINE w == EndActivations(v, tr)
      <3>1. z = w
        BY <2>1 DEF Ended, v, tr
      <3>2. /\ w \in Engines /\ SameMatching(v, w)
            /\ w.physical = v.physical /\ w.logicalCount = v.logicalCount
            /\ w.route = v.route /\ w.carry = v.carry /\ w.reuse = v.reuse
            /\ w.journal = v.journal
            /\ ToSet(w.active) \subseteq {a \in ToSet(v.active) : ~Ends(a, tr)}
        BY <1>1, EndActivationsFields
      <3>. HIDE DEF w, z
      <3>3. QED
        BY <3>1, <3>2
    <2>2. CASE ~Valid(x, d, event)
      <3>1. z = v
        BY <2>2 DEF Ended, v
      <3>. HIDE DEF z
      <3>2. QED
        BY <1>1, <3>1 DEF SameMatching
    <2>3. QED
      BY <2>1, <2>2
  <1>. HIDE DEF z
  <1>3. Counted(z)
    BY <1>1, <1>2 DEF Counted
  <1>4. SameMatching(x, z) /\ v.mode = x.mode
    BY <1>1, <1>2 DEF SameMatching
  <1>5. QED
    BY <1>1, <1>2, <1>3, <1>4 DEF v, p, z

LEMMA TransitionType ==
    ASSUME NEW x, Sound(x), NEW d \in Device, NEW event \in InputEvent, Valid(x, d, event),
           Fresh(x, d, event) => FreeLives(x, d, event.code) # {}
    PROVE  TransitionOf(x, d, event) \in Transitions
  <1>. DEFINE p == EventPress(x, d, event)
              v == Ingested(x, d, event)
  <1>1. v \in Engines
    BY EndedFields
  <1>2. x \in Engines /\ x.physical \subseteq Press
    BY DEF Sound, Engines
  <1>3. p \in Press
    BY <1>2, EventPressIs DEF Fresh
  <1>4. event.value \in {0, 1, 2}
    BY EventType DEF Valid
  <1>. HIDE DEF v, p
  <1>5. v.logicalCount[logical(p)] \in Nat
    BY <1>1, <1>3, PressParts DEF Engines
  <1>6. QED
    BY <1>3, <1>4, <1>5 DEF Transitions, TransitionOf, Transition, v, p

(* What an event, with the outputs that it causes, does to the engine.       *)
HandledFacts(x, d, event, chatter) ==
    LET p == EventPress(x, d, event)
        y == Handled(x, d, event, chatter)
        N == IF Fresh(x, d, event) THEN {p} ELSE {}
    IN /\ Sound(y) /\ N \in SUBSET Press /\ N \cap Referenced(x) = {}
       /\ Evolves(x, y, N) /\ SameMatching(x, y)
       /\ y.journal # <<>> /\ Last(y.journal).device = d
       /\ Len(y.journal) = Len(x.journal)
       /\ JournalPresses(x) \subseteq JournalPresses(y)
       /\ N \subseteq JournalPresses(y)
       /\ \A h : OwnerFree(x, h) => OwnerFree(y, h)

LEMMA HandledKeeps ==
    ASSUME NEW x, Sound(x), x.journal # <<>>, NEW d \in Device, Last(x.journal).device = d,
           NEW event \in InputEvent, NEW chatter \in BOOLEAN,
           Fresh(x, d, event) => FreeLives(x, d, event.code) # {} /\ chatter = FALSE
    PROVE  HandledFacts(x, d, event, chatter)
  <1>. DEFINE p == EventPress(x, d, event)
              v == Ingested(x, d, event)
              z == Ended(x, d, event)
              tr == TransitionOf(x, d, event)
              valid == Valid(x, d, event)
              r == RecordEvent(event, p)
              B == EventRecords(v, event, p)
              records == Records(v, tr, valid, chatter, event, p)
              y == Handled(x, d, event, chatter)
              N == IF Fresh(x, d, event) THEN {p} ELSE {}
  <1>0. x \in Engines
    BY DEF Sound
  <1>1. /\ v \in Engines /\ v.journal = x.journal /\ v.active = x.active
        /\ z \in Engines /\ SameMatching(x, z) /\ Counted(z)
        /\ z.physical \subseteq x.physical \cup {p}
        /\ ~Fresh(x, d, event) => z.physical \subseteq x.physical
        /\ z.carry \subseteq x.carry /\ z.reuse \subseteq x.reuse
        /\ z.journal = x.journal /\ ToSet(z.active) \subseteq ToSet(x.active)
        /\ z.route = [q \in Press |-> IF Fresh(x, d, event) /\ q = p
                                        THEN "undecided" ELSE x.route[q]]
    BY EndedFields
  <1>2. /\ p \in Press \cup {NoPress}
        /\ event.type # "key" => p = NoPress
        /\ Fresh(x, d, event) => p \in Press /\ p \notin Referenced(x)
        /\ ~Fresh(x, d, event) => p \in x.physical \cup {NoPress}
    BY <1>0, EventPressIs
  <1>3. /\ B \in SUBSET Record /\ records \in Seq(B)
        /\ chatter \/ \E k \in DOMAIN records : records[k] = r
    <2>. HIDE DEF v, tr, valid, p
    <2>1. v \in Engines /\ p \in Press \cup {NoPress} /\ (event.type # "key" => p = NoPress)
      BY <1>1, <1>2
    <2>2. B \in SUBSET Record
      BY <2>1, RecordsType
    <2>3. records \in Seq(B)
      BY <2>1, RecordsType
    <2>4. ~chatter => r \in ToSet(records)
      BY <2>1, RecordsType
    <2>5. QED
      BY <2>2, <2>3, <2>4 DEF ToSet
  <1>4. r.press = p /\ r.type = event.type
    BY DEF RecordEvent
  <1>5. y = Recorded(z, records)
    BY DEF Handled
  <1>6. {b.press : b \in B} \subseteq {p, NoPress}
    BY <1>4 DEF OfActive, EventRecords
  <1>7. \A b \in B : b.type = "output" =>
           b.output \in Output /\ b.output.kind # "action"
             /\ \E a \in ToSet(x.active) : b.output.owner = a.owner
    <2>1. event.type # "output"
      BY EventType
    <2>2. QED
      BY <1>1, <1>4, <2>1, RecordParts DEF OfActive, EventRecords
  <1>8. N \in SUBSET Press /\ N \cap Referenced(x) = {} /\ p \in Referenced(x) \cup N \cup {NoPress}
    BY <1>2, ReferencedParts
  <1>. HIDE DEF v, z, tr, valid, r, B, records, y
  <1>9. /\ y \in Engines /\ SameMatching(z, y)
        /\ y.physical = z.physical /\ y.logicalCount = z.logicalCount
        /\ y.route = z.route /\ y.carry = z.carry /\ y.reuse = z.reuse
        /\ y.active = z.active /\ Len(y.journal) = Len(z.journal)
    <2>1. records \in Seq(Record) /\ z.journal # <<>>
      BY <1>1, <1>3
    <2>. DEFINE w == Recorded(z, records)
    <2>2. /\ w \in Engines /\ SameMatching(z, w)
          /\ w.physical = z.physical /\ w.logicalCount = z.logicalCount
          /\ w.route = z.route /\ w.carry = z.carry /\ w.reuse = z.reuse
          /\ w.active = z.active /\ Len(w.journal) = Len(z.journal)
      BY <1>1, <2>1, RecordedFields
    <2>. HIDE DEF w
    <2>3. QED
      BY <1>5, <2>2 DEF w
  <1>10. /\ DeviceOrOutputs(y)
         /\ y.journal # <<>> /\ Last(y.journal).device = d
         /\ JournalPresses(x) \subseteq JournalPresses(y)
         /\ JournalPresses(y) \subseteq JournalPresses(x) \cup {b.press : b \in B}
         /\ \A k \in DOMAIN records : records[k].press \in JournalPresses(y)
         /\ \A O : JournalOutputsIn(x, O) /\ (\A b \in B : b.type = "output" => b.output \in O)
                       => JournalOutputsIn(y, O)
    <2>1. /\ z.journal # <<>> /\ Last(z.journal).device = d
          /\ DeviceOrOutputs(z) /\ JournalPresses(z) = JournalPresses(x)
          /\ \A O : JournalOutputsIn(z, O) <=> JournalOutputsIn(x, O)
      BY <1>1 DEF Sound, DeviceOrOutputs, JournalPresses, JournalOutputsIn
    <2>. DEFINE w == Recorded(z, records)
    <2>2. /\ DeviceOrOutputs(w)
          /\ w.journal # <<>> /\ Last(w.journal).device = Last(z.journal).device
          /\ JournalPresses(z) \subseteq JournalPresses(w)
          /\ JournalPresses(w) \subseteq JournalPresses(z) \cup {b.press : b \in B}
          /\ \A k \in DOMAIN records : records[k].press \in JournalPresses(w)
          /\ \A O : JournalOutputsIn(z, O) /\ (\A b \in B : b.type = "output" => b.output \in O)
                       => JournalOutputsIn(w, O)
      BY <1>1, <1>3, <2>1, RecordedKeeps
    <2>. HIDE DEF w
    <2>3. QED
      BY <1>5, <2>1, <2>2 DEF w
  <1>11. SameMatching(x, y)
    BY <1>1, <1>9 DEF SameMatching
  <1>12. Sound(y)
    <2>1. Configured(y) /\ DeadlineFits(y)
      BY <1>11, SameMatchingKeeps DEF Sound
    <2>2. Counted(y)
      BY <1>1, <1>9 DEF Counted
    <2>3. OwnedUndecided(y)
      <3>1. y.seq = x.seq /\ x.seq.owned \subseteq Press
        BY <1>0, <1>11 DEF SameMatching, Engines, Candidate
      <3>2. QED
        BY <1>1, <1>9, <3>1 DEF OwnedUndecided, Sound
    <2>4. QED
      BY <1>9, <1>10, <2>1, <2>2, <2>3 DEF Sound
  <1>13. Evolves(x, y, N)
    <2>. DEFINE S == Referenced(x) \cup N \cup {NoPress}
    <2>1. p \in S
      BY <1>8
    <2>2. /\ y.physical \subseteq S /\ y.carry \subseteq S /\ y.reuse \subseteq S
          /\ JournalPresses(y) \subseteq S
      BY <1>1, <1>6, <1>9, <1>10, <2>1, ReferencedParts
    <2>3. \A a \in ToSet(y.active) : a.members \cup {a.driver} \subseteq S
      BY <1>1, <1>9, ReferencedParts
    <2>4. y.seq = x.seq
      BY <1>11 DEF SameMatching
    <2>5. \A q \in Press \ N : y.route[q] = x.route[q]
      BY <1>1, <1>9
    <2>. HIDE DEF N
    <2>6. QED
      BY <2>2, <2>3, <2>4, <2>5, EvolvesBy
  <1>14. N \subseteq JournalPresses(y)
    BY <1>3, <1>4, <1>10
  <1>15. ASSUME NEW h, OwnerFree(x, h) PROVE OwnerFree(y, h)
    <2>1. \A b \in B : b.type = "output" => b.output \in Unused(h)
      BY <1>7, <1>15 DEF OwnerFree, Unused
    <2>2. JournalOutputsIn(y, Unused(h))
      BY <1>10, <1>15, <2>1 DEF OwnerFree
    <2>3. QED
      BY <1>1, <1>9, <1>15, <2>2 DEF OwnerFree
  <1>16. QED
    BY <1>1, <1>8, <1>9, <1>10, <1>11, <1>12, <1>13, <1>14, <1>15 DEF y, HandledFacts

(* HandleFrame begins with an empty frame at the end of the journal.        *)
LEMMA AppendFrameKeeps ==
    ASSUME NEW x, Sound(x), NEW f \in JournalFrames, f.events = <<>>, f.device \in Device
    PROVE  LET y == [x EXCEPT !.journal = Append(x.journal, f)] IN
           /\ Sound(y) /\ Evolves(x, y, {})
           /\ y.journal # <<>> /\ Last(y.journal) = f
           /\ \A h : OwnerFree(x, h) => OwnerFree(y, h)
  <1>. DEFINE j == Append(x.journal, f)
              y == [x EXCEPT !.journal = j]
              n == Len(x.journal)
  <1>0. x \in Engines /\ x.journal \in Seq(JournalFrames)
    BY DEF Sound, Engines
  <1>1. /\ j \in Seq(JournalFrames) /\ j # <<>> /\ Last(j) = f
        /\ DOMAIN x.journal = 1 .. n /\ DOMAIN j = 1 .. n + 1 /\ n \in Nat
        /\ j[n + 1] = f /\ \A i \in 1 .. n : j[i] = x.journal[i]
    BY <1>0 DEF Last
  <1>. HIDE DEF j
  <1>2. /\ y \in Engines /\ SameMatching(x, y) /\ y.journal = j
        /\ y.physical = x.physical /\ y.logicalCount = x.logicalCount
        /\ y.carry = x.carry /\ y.reuse = x.reuse /\ y.route = x.route
        /\ y.active = x.active
    BY <1>0, <1>1 DEF Engines, SameMatching
  <1>. HIDE DEF y
  <1>3. ASSUME NEW i \in DOMAIN j
        PROVE  \/ i \in DOMAIN x.journal /\ j[i] = x.journal[i]
               \/ j[i] = f
    BY <1>1
  <1>4. Configured(y) /\ DeadlineFits(y)
    BY <1>2, SameMatchingKeeps DEF Sound
  <1>5. OwnedUndecided(y) /\ Counted(y) /\ y.seq = x.seq
    BY <1>2 DEF Sound, OwnedUndecided, Counted, SameMatching
  <1>6. NoDevice \notin Device
    BY OwnerAssumption DEF Owner
  <1>7. DeviceOrOutputs(y)
    BY <1>2, <1>3, <1>6 DEF Sound, DeviceOrOutputs
  <1>8. JournalPresses(y) \subseteq JournalPresses(x)
    BY <1>2, <1>3, JournalPressesAre
  <1>9. Evolves(x, y, {})
    BY <1>2, <1>5, <1>8, ReferencedParts, EvolvesBy
  <1>10. ASSUME NEW h, OwnerFree(x, h) PROVE OwnerFree(y, h)
    <2>1. JournalOutputsIn(y, Unused(h))
      <3>1. SUFFICES ASSUME NEW i \in DOMAIN j, NEW k \in DOMAIN j[i].events,
                            j[i].events[k].type = "output"
                     PROVE  j[i].events[k].output \in Unused(h)
        BY <1>2 DEF JournalOutputsIn
      <3>2. i \in DOMAIN x.journal /\ j[i] = x.journal[i]
        BY <1>3
      <3>3. QED
        BY <1>10, <3>1, <3>2 DEF OwnerFree, JournalOutputsIn
    <2>2. QED
      BY <1>2, <1>10, <2>1 DEF OwnerFree
  <1>11. QED
    BY <1>1, <1>2, <1>4, <1>5, <1>7, <1>9, <1>10 DEF Sound, y, j

LEMMA SameOwnerFree ==
    ASSUME NEW x \in Engines, NEW y \in Engines, SameEvents(x, y), y.active = x.active,
           NEW h, OwnerFree(x, h)
    PROVE  OwnerFree(y, h)
  <1>1. DOMAIN y.journal = DOMAIN x.journal
    BY DEF Engines, SameEvents
  <1>2. QED
    BY <1>1 DEF SameEvents, OwnerFree, JournalOutputsIn

(* The frame in progress becomes one of a candidate.                       *)
LEMMA MarkedKeeps ==
    ASSUME NEW x, Sound(x), x.journal # <<>>, NEW n, n = Len(x.journal)
    PROVE  LET y == [x EXCEPT !.journal[n].candidate = "undecided"] IN
           /\ Sound(y) /\ Evolves(x, y, {}) /\ SameMatching(x, y) /\ SameEvents(x, y)
           /\ y.active = x.active
  <1>. DEFINE f == x.journal[n]
              g == [f EXCEPT !.candidate = "undecided"]
              j == [x.journal EXCEPT ![n] = g]
              y == [x EXCEPT !.journal = j]
  <1>0. x \in Engines /\ x.journal \in Seq(JournalFrames)
    BY DEF Sound, Engines
  <1>1. n \in DOMAIN x.journal /\ f \in JournalFrames
    BY <1>0
  <1>2. [x EXCEPT !.journal[n].candidate = "undecided"] = y
    BY <1>0, <1>1 DEF Engines
  <1>. HIDE DEF f
  <1>3. g \in JournalFrames /\ g.device = f.device /\ g.events = f.events
    BY <1>1 DEF JournalFrames, Route
  <1>. HIDE DEF g
  <1>4. /\ j \in Seq(JournalFrames) /\ Len(j) = Len(x.journal) /\ DOMAIN j = DOMAIN x.journal
        /\ j[n] = g /\ \A i \in DOMAIN x.journal : i # n => j[i] = x.journal[i]
    BY <1>0, <1>1, <1>3
  <1>. HIDE DEF j
  <1>5. /\ y \in Engines /\ SameMatching(x, y) /\ y.journal = j
        /\ y.physical = x.physical /\ y.logicalCount = x.logicalCount
        /\ y.carry = x.carry /\ y.reuse = x.reuse /\ y.route = x.route
        /\ y.active = x.active
    BY <1>0, <1>4 DEF Engines, SameMatching
  <1>. HIDE DEF y
  <1>6. SameEvents(x, y)
    BY <1>3, <1>4, <1>5 DEF SameEvents, f
  <1>7. Configured(y) /\ DeadlineFits(y)
    BY <1>5, SameMatchingKeeps DEF Sound
  <1>8. OwnedUndecided(y) /\ y.seq = x.seq
    BY <1>5 DEF Sound, OwnedUndecided, SameMatching
  <1>9. y.seq.owned \cup y.seq.members \cup y.seq.matchMembers \cup {y.seq.driver}
           \subseteq Referenced(x) \cup {NoPress}
    BY <1>8, ReferencedParts
  <1>10. Sound(y) /\ Evolves(x, y, {})
    BY <1>5, <1>6, <1>7, <1>8, <1>9, MatchingKeeps
  <1>11. QED
    BY <1>2, <1>5, <1>6, <1>10

-----------------------------------------------------------------------------
(* What is held: the presses a candidate, a finished chord or a held remap *)
(* keeps are compared with those the keyboards hold.                        *)

(* No two presses of the same logical key.                                 *)
OnePerKey(S) == \A p, q \in S : logical(p) = logical(q) => p = q

(* A chord of a source that is complete and unbroken is held, its driver    *)
(* with it; whatever the candidate may still become has all its members.    *)
SourceTracks(x, A) ==
    LET c == x.seq IN
    /\ \A i \in c.possible : \A q \in c.members : logical(q) \in Keys(i)
    /\ c.driver # NoPress => c.driver \in c.members /\ ~IsModifierPress(c.driver)
    /\ \A q \in c.members : IsModifierPress(q) \/ c.driver # NoPress
    /\ c.matched # 0 => Keys(c.matched) \subseteq {logical(q) : q \in c.matchMembers}
    /\ c.matched # 0 /\ ~c.broken =>
          /\ c.matchMembers \subseteq c.members \cap A
          /\ Sources[c.matched].mode = "hold" => c.driver \in c.matchMembers

(* The candidate has seen the keys in A held.                              *)
Tracks(x, A) ==
    Matching(x) =>
        LET c == x.seq IN
        /\ c.members \cap c.held = c.members \cap A
        /\ OnePerKey(c.members)
        /\ \A q \in c.members : q \in c.owned \/ x.route[q] = "consumed"
        /\ \A p \in c.members \cap A : \A q \in x.reuse : logical(p) = logical(q) => p = q
        /\ x.mode # "binding" => SourceTracks(x, A)

(* What is left of finished chords.                                        *)
Leftovers(x) ==
    /\ \A p \in x.reuse \cup x.carry :
          p \in x.physical /\ x.route[p] = "consumed" /\ IsModifierPress(p)
    /\ OnePerKey(x.reuse) /\ OnePerKey(x.carry)
    /\ \A p \in x.carry : \A q \in x.reuse : logical(p) = logical(q) => p = q

OneOwner(s) == \A j, k \in DOMAIN s : s[j].owner = s[k].owner => j = k

Remaps(x) ==
    /\ \A a \in ToSet(x.active) :
          /\ a.members \subseteq x.physical
          /\ \A p \in a.members : x.route[p] = "consumed"
          /\ a.driver \in a.members
    /\ OneOwner(x.active)

(* The keys held before and after the transition tr are A and B.            *)
Moves(A, tr, B) ==
    /\ \/ tr.value = 1 /\ tr.press \notin A /\ B = A \cup {tr.press}
       \/ tr.value = 0 /\ tr.press \in A /\ B = A \ {tr.press}
       \/ tr.value = 2 /\ B = A
    /\ tr.count = CountOf(B, logical(tr.press))

(* P lists the keys held before each of the transitions and after them all, *)
(* those in S among them throughout.                                       *)
Trail(trs, P, S, end) ==
    /\ P \in Seq(SUBSET Press) /\ Len(P) = Len(trs) + 1
    /\ P[Len(P)] = end
    /\ \A k \in DOMAIN trs : Moves(P[k], trs[k], P[k + 1])
    /\ \A k \in DOMAIN P : S \subseteq P[k]

-----------------------------------------------------------------------------
LEMMA CountOne ==
    ASSUME NEW S \in SUBSET Press, NEW p \in S, NEW q \in S, logical(p) = logical(q),
           CountOf(S, logical(p)) = 1
    PROVE  p = q
  <1>. DEFINE T == {r \in S : logical(r) = logical(p)}
  <1>1. IsFiniteSet(T) /\ Cardinality(T) = 1
    BY CountType DEF CountOf
  <1>2. PICK r : T = {r}
    BY <1>1, FS_Singleton
  <1>3. p \in T /\ q \in T
    OBVIOUS
  <1>4. QED
    BY <1>2, <1>3

(* A step that keeps the candidate, and its mode but for a reservation.     *)
LEMMA TracksSame ==
    ASSUME NEW x, NEW y, NEW A, Tracks(x, A), y.seq = x.seq, Matching(y) => Matching(x),
           y.mode = "binding" <=> x.mode = "binding", y.reuse \subseteq x.reuse,
           \A p \in x.seq.members : x.route[p] = "consumed" => y.route[p] = "consumed"
    PROVE  Tracks(y, A)
  <1>1. SUFFICES ASSUME Matching(y) PROVE Tracks(y, A)
    BY DEF Tracks
  <1>2. Matching(x)
    BY <1>1
  <1>3. SourceTracks(x, A) => SourceTracks(y, A)
    BY DEF SourceTracks
  <1>4. QED
    BY <1>2, <1>3 DEF Tracks

(* The candidate takes a press of a key that nobody else holds.            *)
LEMMA OwnTracks ==
    ASSUME NEW x, Sound(x), Matching(x), NEW A \in SUBSET Press, NEW B \in SUBSET Press,
           NEW tr, tr.press \in Press, Moves(A, tr, B), tr.value = 1, tr.count = 1,
           x.reuse \subseteq A, Tracks(x, A)
    PROVE  LET y == Own(x, tr.press) IN
           /\ y.reuse = x.reuse /\ y.carry = x.carry
           /\ y.seq.possible # {} => Tracks(y, B)
  <1>. DEFINE p == tr.press
              s == x.seq
              c == [s EXCEPT !.owned = s.owned \cup {p},
                             !.members = {q \in s.members : logical(q) # logical(p)} \cup {p},
                             !.held = s.held \cup {p},
                             !.driver = IF IsModifierPress(p) THEN s.driver ELSE p,
                             !.possible = {i \in s.possible : logical(p) \in Chord(x, i)}]
              y == Own(x, p)
  <1>0. x \in Engines /\ s \in Candidate
    BY DEF Sound, Engines
  <1>1. y = [x EXCEPT !.seq = c]
    BY <1>0 DEF Own, Engines, Candidate
  <1>2. /\ c.owned = s.owned \cup {p}
        /\ c.members = {q \in s.members : logical(q) # logical(p)} \cup {p}
        /\ c.held = s.held \cup {p}
        /\ c.matchMembers = s.matchMembers /\ c.matched = s.matched /\ c.broken = s.broken
        /\ c.driver = (IF IsModifierPress(p) THEN s.driver ELSE p)
        /\ c.possible = {i \in s.possible : logical(p) \in Chord(x, i)}
    BY <1>0 DEF Candidate
  <1>. HIDE DEF c, y
  <1>3. /\ y.seq = c /\ y.mode = x.mode /\ y.activePrefix = x.activePrefix
        /\ y.route = x.route /\ y.carry = x.carry /\ y.reuse = x.reuse
    BY <1>0, <1>1 DEF Engines
  <1>4. B = A \cup {p} /\ p \notin A /\ CountOf(B, logical(p)) = 1
    BY DEF Moves
  <1>5. \A q \in A : logical(q) # logical(p)
    BY <1>4, CountOne
  <1>6. /\ s.members \cap s.held = s.members \cap A
        /\ OnePerKey(s.members)
        /\ \A q \in s.members : q \in s.owned \/ x.route[q] = "consumed"
        /\ \A r \in s.members \cap A : \A q \in x.reuse : logical(r) = logical(q) => r = q
        /\ x.mode # "binding" => SourceTracks(x, A)
    BY DEF Tracks
  <1>7. c.members \cap c.held = c.members \cap B
    BY <1>2, <1>4, <1>6
  <1>8. OnePerKey(c.members)
    BY <1>2, <1>6 DEF OnePerKey
  <1>9. \A q \in c.members : q \in c.owned \/ x.route[q] = "consumed"
    BY <1>2, <1>6
  <1>10. \A r \in c.members \cap B : \A q \in x.reuse : logical(r) = logical(q) => r = q
    BY <1>2, <1>4, <1>5, <1>6
  <1>11. ASSUME c.possible # {}, x.mode # "binding"
         PROVE  SourceTracks(y, B)
    <2>1. /\ \A i \in s.possible : \A q \in s.members : logical(q) \in Keys(i)
          /\ s.driver # NoPress => s.driver \in s.members /\ ~IsModifierPress(s.driver)
          /\ \A q \in s.members : IsModifierPress(q) \/ s.driver # NoPress
          /\ s.matched # 0 => Keys(s.matched) \subseteq {logical(q) : q \in s.matchMembers}
          /\ s.matched # 0 /\ ~s.broken => s.matchMembers \subseteq s.members \cap A
      BY <1>6, <1>11 DEF SourceTracks
    <2>2. \A i \in c.possible : i \in s.possible /\ logical(p) \in Keys(i)
      BY <1>2, <1>11 DEF Chord
    <2>3. \A i \in c.possible : \A q \in c.members : logical(q) \in Keys(i)
      BY <1>2, <2>1, <2>2
    <2>4. p # NoPress
      BY PressFinite
    <2>5. c.driver # NoPress => c.driver \in c.members /\ ~IsModifierPress(c.driver)
      <3>1. CASE IsModifierPress(p)
        <4>1. c.driver = s.driver
          BY <1>2, <3>1
        <4>2. SUFFICES ASSUME s.driver # NoPress
                       PROVE  s.driver \in c.members /\ ~IsModifierPress(s.driver)
          BY <4>1
        <4>3. s.driver \in s.members /\ ~IsModifierPress(s.driver)
          BY <2>1, <4>2
        <4>4. logical(s.driver) # logical(p)
          BY <3>1, <4>3 DEF IsModifierPress
        <4>5. QED
          BY <1>2, <4>3, <4>4
      <3>2. CASE ~IsModifierPress(p)
        BY <1>2, <3>2
      <3>3. QED
        BY <3>1, <3>2
    <2>6. \A q \in c.members : IsModifierPress(q) \/ c.driver # NoPress
      BY <1>2, <2>1, <2>4
    <2>7. ASSUME s.matched # 0, ~s.broken PROVE FALSE
      <3>1. PICK i \in c.possible : TRUE
        BY <1>11
      <3>2. s.matchMembers \subseteq s.members \cap A
        BY <2>1, <2>7
      <3>3. Keys(s.matched) \subseteq Keys(i)
        BY <2>1, <2>2, <2>7, <3>2
      <3>4. s.matched \in DOMAIN Sources /\ i \in DOMAIN Sources
        <4>1. SourceCandidate(x)
          BY <1>11 DEF Sound, Configured, Matching
        <4>2. QED
          BY <2>2, <2>7, <4>1 DEF SourceCandidate
      <3>5. s.matched = i
        BY <3>3, <3>4, SourcesAssumption DEF Compiles
      <3>6. logical(p) \in Keys(s.matched)
        BY <2>2, <3>5
      <3>7. PICK q \in s.matchMembers : logical(q) = logical(p)
        BY <2>1, <2>7, <3>6
      <3>8. QED
        BY <1>5, <3>2, <3>7
    <2>8. QED
      BY <1>2, <1>3, <2>1, <2>3, <2>5, <2>6, <2>7 DEF SourceTracks
  <1>12. c.possible # {} => Tracks(y, B)
    BY <1>3, <1>7, <1>8, <1>9, <1>10, <1>11 DEF Tracks
  <1>13. QED
    BY <1>3, <1>12 DEF y

LEMMA FailTracks ==
    ASSUME NEW x \in Engines, NEW A
    PROVE  Tracks(Fail(x), A) /\ Fail(x).reuse = x.reuse /\ Fail(x).carry = {} /\ ~Matching(Fail(x))
  <1>1. Fail(x).mode = "idle" /\ Fail(x).reuse = x.reuse /\ Fail(x).carry = {}
    BY FailFields
  <1>2. ~Matching(Fail(x))
    BY <1>1 DEF Matching
  <1>3. QED
    BY <1>1, <1>2 DEF Tracks

LEMMA LeaveReservationTracks ==
    ASSUME NEW x, Sound(x), Matching(x), NEW p, NEW A, Tracks(x, A)
    PROVE  LET y == LeaveReservation(x, p) IN
           Tracks(y, A) /\ y.reuse = x.reuse /\ y.carry = x.carry
  <1>. DEFINE y == LeaveReservation(x, p)
  <1>1. CASE x.mode = "reserved" /\ logical(p) \notin ReservedModifiers
    <2>1. y = [x EXCEPT !.mode = "prefix", !.deadline = TRUE]
      BY <1>1 DEF LeaveReservation
    <2>. HIDE DEF y
    <2>2. /\ y.seq = x.seq /\ y.mode = "prefix" /\ y.route = x.route
          /\ y.reuse = x.reuse /\ y.carry = x.carry
      BY <2>1 DEF Sound, Engines
    <2>3. Tracks(y, A)
      BY <1>1, <2>2, TracksSame
    <2>4. QED
      BY <2>2, <2>3 DEF y
  <1>2. CASE ~(x.mode = "reserved" /\ logical(p) \notin ReservedModifiers)
    BY <1>2 DEF LeaveReservation
  <1>3. QED
    BY <1>1, <1>2

(* A chord is complete: one press of each of its keys, all of them held.    *)
LEMMA MatchTracks ==
    ASSUME NEW x, Sound(x), Matching(x), NEW A, Tracks(x, A)
    PROVE  LET y == Match(x) IN
           Tracks(y, A) /\ y.reuse = x.reuse /\ y.carry = x.carry
  <1>. DEFINE s == x.seq
              open == \/ s.matched = 0
                      \/ x.mode = "binding"
                      \/ Sources[s.matched].mode = "hold"
              complete == {i \in s.possible : Complete(x, i)}
              n == Min(complete)
              M == {q \in s.members : logical(q) \in Chord(x, n)}
              c == [s EXCEPT !.matched = n, !.broken = FALSE, !.matchMembers = M]
              y == Match(x)
  <1>0. x \in Engines /\ s \in Candidate
    BY DEF Sound, Engines
  <1>1. CASE ~open \/ complete = {}
    <2>1. y = x
      BY <1>1 DEF Match
    <2>2. QED
      BY <2>1
  <1>2. CASE ~(~open \/ complete = {})
    <2>1. complete \subseteq s.possible /\ complete \in SUBSET Nat
      BY <1>0 DEF Candidate
    <2>2. n \in s.possible /\ Complete(x, n)
      <3>1. n \in complete
        BY <1>2, <2>1, MinIn
      <3>. HIDE DEF n
      <3>2. QED
        BY <3>1
    <2>3. y = [x EXCEPT !.seq = c]
      <3>1. y = [x EXCEPT !.seq.matched = n, !.seq.broken = FALSE, !.seq.matchMembers = M]
        BY <1>2 DEF Match
      <3>. HIDE DEF complete, n, M
      <3>2. QED
        BY <1>0, <3>1 DEF Engines, Candidate
    <2>. HIDE DEF complete, open, n
    <2>4. /\ c.owned = s.owned /\ c.members = s.members /\ c.driver = s.driver
          /\ c.matchMembers = M /\ c.matched = n /\ c.broken = FALSE
          /\ c.possible = s.possible /\ c.held = s.held
      BY <1>0 DEF Candidate
    <2>. HIDE DEF c, y
    <2>5. /\ y.seq = c /\ y.mode = x.mode /\ y.activePrefix = x.activePrefix
          /\ y.route = x.route /\ y.carry = x.carry /\ y.reuse = x.reuse
      BY <1>0, <2>3 DEF Engines
    <2>6. /\ s.members \cap s.held = s.members \cap A
          /\ OnePerKey(s.members)
          /\ \A q \in s.members : q \in s.owned \/ x.route[q] = "consumed"
          /\ \A r \in s.members \cap A : \A q \in x.reuse : logical(r) = logical(q) => r = q
          /\ x.mode # "binding" => SourceTracks(x, A)
      BY DEF Tracks
    <2>7. ASSUME x.mode # "binding"
          PROVE  SourceTracks(y, A)
      <3>1. Chord(x, n) = Keys(n)
        BY <2>7 DEF Chord
      <3>2. \A key \in Keys(n) : \E q \in s.members \cap A : logical(q) = key
        BY <2>2, <2>6, <3>1 DEF Complete, HeldKeys
      <3>3. Keys(n) \subseteq {logical(q) : q \in M}
        BY <3>1, <3>2
      <3>4. M \subseteq s.members \cap A
        BY <2>6, <3>1, <3>2 DEF OnePerKey
      <3>5. /\ \A i \in s.possible : \A q \in s.members : logical(q) \in Keys(i)
            /\ s.driver # NoPress => s.driver \in s.members /\ ~IsModifierPress(s.driver)
            /\ \A q \in s.members : IsModifierPress(q) \/ s.driver # NoPress
        BY <2>6, <2>7 DEF SourceTracks
      <3>6. ASSUME Sources[n].mode = "hold" PROVE s.driver \in M
        <4>1. n \in DOMAIN Sources
          <5>1. SourceCandidate(x)
            BY <2>7 DEF Sound, Configured, Matching
          <5>2. QED
            BY <2>2, <5>1 DEF SourceCandidate
        <4>2. PICK key \in Keys(n) : key \notin Modifier
          BY <3>6, <4>1, SourcesAssumption DEF Compiles, ValidRemap, Keys
        <4>3. s.driver # NoPress
          BY <3>2, <3>5, <4>2 DEF IsModifierPress, IsLogicalModifier
        <4>4. QED
          BY <2>2, <3>1, <3>5, <4>3
      <3>. HIDE DEF M
      <3>7. QED
        BY <2>4, <2>5, <3>3, <3>4, <3>5, <3>6 DEF SourceTracks
    <2>. HIDE DEF M
    <2>8. Tracks(y, A)
      BY <2>4, <2>5, <2>6, <2>7 DEF Tracks
    <2>9. QED
      BY <2>5, <2>8 DEF y
  <1>3. QED
    BY <1>1, <1>2

(* What the calls of advance leave for the next ones.                      *)
Advanced(x, y, B) ==
    Tracks(y, B) /\ y.reuse = x.reuse /\ y.carry \subseteq x.carry

LEMMA AdvancePressTracks ==
    ASSUME NEW x, Sound(x), Matching(x), NEW A \in SUBSET Press, NEW B \in SUBSET Press,
           NEW tr, tr.press \in Press, tr.press \in Referenced(x),
           Moves(A, tr, B), tr.value = 1, x.reuse \subseteq A, Tracks(x, A)
    PROVE  Advanced(x, AdvancePress(x, tr), B)
  <1>. DEFINE p == tr.press
              y == Own(x, p)
              z == LeaveReservation(y, p)
  <1>1. CASE x.route[p] # "undecided" \/ tr.count # 1
    BY <1>1, FailTracks DEF AdvancePress, Advanced, Sound
  <1>2. CASE ~(x.route[p] # "undecided" \/ tr.count # 1)
    <2>1. /\ MatcherStep(x, y) /\ Matching(y) /\ Sound(y)
      BY <1>2, OwnKeeps DEF MatcherStep
    <2>2. y.reuse = x.reuse /\ y.carry = x.carry /\ (y.seq.possible # {} => Tracks(y, B))
      BY <1>2, OwnTracks
    <2>3. AdvancePress(x, tr) = IF y.seq.possible = {} THEN Fail(y) ELSE Match(z)
      BY <1>2 DEF AdvancePress
    <2>. HIDE DEF y
    <2>4. CASE y.seq.possible = {}
      BY <2>1, <2>2, <2>3, <2>4, FailTracks DEF Advanced, Sound
    <2>5. CASE y.seq.possible # {}
      <3>1. Tracks(z, B) /\ z.reuse = y.reuse /\ z.carry = y.carry
        BY <2>1, <2>2, <2>5, LeaveReservationTracks
      <3>2. Sound(z) /\ Matching(z)
        BY <2>1, LeaveReservationKeeps DEF MatcherStep
      <3>. HIDE DEF z
      <3>3. Tracks(Match(z), B) /\ Match(z).reuse = z.reuse /\ Match(z).carry = z.carry
        BY <3>1, <3>2, MatchTracks
      <3>4. QED
        BY <2>2, <2>3, <2>5, <3>1, <3>3 DEF Advanced
    <2>6. QED
      BY <2>4, <2>5
  <1>3. QED
    BY <1>1, <1>2

(* A press of no member begins or ends.                                    *)
LEMMA OtherTracks ==
    ASSUME NEW x, NEW A, NEW B, NEW p, Tracks(x, A), p \notin x.seq.members,
           B \in {A, A \cup {p}, A \ {p}}
    PROVE  Tracks(x, B)
  <1>1. SUFFICES ASSUME Matching(x) PROVE Tracks(x, B)
    BY DEF Tracks
  <1>2. x.seq.members \cap B = x.seq.members \cap A
    OBVIOUS
  <1>3. SourceTracks(x, A) => SourceTracks(x, B)
    BY <1>2 DEF SourceTracks
  <1>4. QED
    BY <1>1, <1>2, <1>3 DEF Tracks

LEMMA AdvanceReleaseTracks ==
    ASSUME NEW x, Sound(x), Matching(x), NEW A \in SUBSET Press, NEW B \in SUBSET Press,
           NEW tr, tr.press \in Press, Moves(A, tr, B), tr.value = 0, Tracks(x, A)
    PROVE  Advanced(x, AdvanceRelease(x, tr), B)
  <1>. DEFINE s == x.seq
              p == tr.press
              member == p \in s.members
              broken == s.broken \/ p \in s.matchMembers
              c == [s EXCEPT !.held = s.held \ {p}, !.broken = broken]
              y == IF member
                     THEN [x EXCEPT !.seq.held = @ \ {p},
                                    !.seq.broken = @ \/ p \in x.seq.matchMembers]
                     ELSE x
  <1>0. x \in Engines /\ s \in Candidate
    BY DEF Sound, Engines
  <1>1. B = A \ {p}
    BY DEF Moves
  <1>2. y \in Engines /\ Tracks(y, B) /\ y.reuse = x.reuse /\ y.carry = x.carry
    <2>1. CASE ~member
      BY <1>0, <1>1, <2>1, OtherTracks
    <2>2. CASE member
      <3>1. y = [x EXCEPT !.seq = c]
        BY <1>0, <2>2 DEF Engines, Candidate
      <3>2. broken \in BOOLEAN
        OBVIOUS
      <3>. HIDE DEF broken
      <3>3. /\ c \in Candidate
            /\ c.owned = s.owned /\ c.members = s.members /\ c.driver = s.driver
            /\ c.matchMembers = s.matchMembers /\ c.matched = s.matched
            /\ c.possible = s.possible /\ c.held = s.held \ {p} /\ c.broken = broken
        BY <1>0, <3>2 DEF Candidate
      <3>. HIDE DEF c, y
      <3>4. /\ y \in Engines
            /\ y.seq = c /\ y.mode = x.mode /\ y.activePrefix = x.activePrefix
            /\ y.route = x.route /\ y.carry = x.carry /\ y.reuse = x.reuse
        BY <1>0, <3>1, <3>3 DEF Engines
      <3>5. /\ s.members \cap s.held = s.members \cap A
            /\ OnePerKey(s.members)
            /\ \A q \in s.members : q \in s.owned \/ x.route[q] = "consumed"
            /\ \A r \in s.members \cap A : \A q \in x.reuse : logical(r) = logical(q) => r = q
            /\ x.mode # "binding" => SourceTracks(x, A)
        BY DEF Tracks
      <3>6. c.members \cap c.held = c.members \cap B
        BY <1>1, <3>3, <3>5
      <3>7. SourceTracks(x, A) => SourceTracks(y, B)
        BY <1>1, <3>3, <3>4 DEF SourceTracks, broken
      <3>8. Tracks(y, B)
        BY <1>1, <3>3, <3>4, <3>5, <3>6, <3>7 DEF Tracks
      <3>9. QED
        BY <3>4, <3>8
    <2>3. QED
      BY <2>1, <2>2
  <1>4. AdvanceRelease(x, tr) \in {y, Fail(y)}
    BY DEF AdvanceRelease
  <1>. HIDE DEF y
  <1>5. QED
    BY <1>2, <1>4, FailTracks DEF Advanced

(* Whatever advance makes of a transition, the candidate it leaves agrees   *)
(* with the keys that were held after it.                                  *)
LEMMA AdvanceTracks ==
    ASSUME NEW x, Sound(x), Matching(x), NEW A \in SUBSET Press, NEW B \in SUBSET Press,
           NEW tr, tr.press \in Press, tr.value = 1 => tr.press \in Referenced(x),
           Moves(A, tr, B), x.reuse \subseteq A, Tracks(x, A)
    PROVE  Advanced(x, Advance(x, tr), B)
  <1>. DEFINE foreign == x.route[tr.press] = "consumed" /\ tr.press \notin x.seq.members
              breaks == x.mode = "reserved" /\ \/ tr.value = 0 /\ x.seq.matched = 0
                                               \/ x.route[tr.press] = "forwarded"
  <1>1. CASE foreign
    <2>1. Advance(x, tr) = x
      BY <1>1 DEF Advance
    <2>2. B \in {A, A \cup {tr.press}, A \ {tr.press}}
      BY DEF Moves
    <2>3. QED
      BY <1>1, <2>1, <2>2, OtherTracks DEF Advanced
  <1>2. CASE ~foreign /\ breaks
    <2>1. Advance(x, tr) = Fail(x)
      BY <1>2 DEF Advance
    <2>2. QED
      BY <2>1, FailTracks DEF Advanced, Sound
  <1>3. CASE ~foreign /\ ~breaks /\ tr.value = 1
    <2>1. Advance(x, tr) = AdvancePress(x, tr)
      BY <1>3 DEF Advance
    <2>2. QED
      BY <1>3, <2>1, AdvancePressTracks
  <1>4. CASE ~foreign /\ ~breaks /\ tr.value = 0
    <2>1. Advance(x, tr) = AdvanceRelease(x, tr)
      BY <1>4 DEF Advance
    <2>2. QED
      BY <1>4, <2>1, AdvanceReleaseTracks
  <1>5. CASE ~foreign /\ ~breaks /\ tr.value \notin {0, 1}
    <2>1. Advance(x, tr) = x
      BY <1>5 DEF Advance
    <2>2. B = A
      BY <1>5 DEF Moves
    <2>3. QED
      BY <2>1, <2>2 DEF Advanced
  <1>6. QED
    BY <1>1, <1>2, <1>3, <1>4, <1>5

-----------------------------------------------------------------------------
(* Some of the remaps that were active are left.                           *)
Fewer(x, y) ==
    /\ ToSet(y.active) \subseteq ToSet(x.active)
    /\ OneOwner(x.active) => OneOwner(y.active)

LEMMA KeptAppend ==
    ASSUME NEW A, NEW s \in Seq(A), NEW a \in A, NEW P
    PROVE  /\ Append(s, a) \in Seq(A)
           /\ Kept(Append(s, a), P) = IF a \in P THEN Append(Kept(s, P), a) ELSE Kept(s, P)
  <1>. DEFINE t == <<a>>
  <1>1. t \in Seq(A) /\ Append(s, a) = s \o t /\ Append(s, a) \in Seq(A)
    BY AppendIsConcat
  <1>2. Kept(t, P) = IF a \in P THEN <<a>> ELSE <<>>
    BY KeptOne
  <1>3. Kept(s, P) \in Seq(A)
    BY KeptFrom
  <1>. HIDE DEF t
  <1>4. Kept(s \o t, P) = Kept(s, P) \o Kept(t, P)
    BY <1>1, KeptConcat
  <1>. DEFINE k == Kept(s, P)
  <1>. HIDE DEF k
  <1>5. k \in Seq(A) => k \o <<a>> = Append(k, a) /\ k \o <<>> = k
    OBVIOUS
  <1>6. QED
    BY <1>1, <1>2, <1>3, <1>4, <1>5, Zenon DEF k

LEMMA KeptOwners ==
    ASSUME NEW A, NEW s \in Seq(A), OneOwner(s), NEW P
    PROVE  OneOwner(Kept(s, P))
  <1>. DEFINE S == {t \in Seq(A) : OneOwner(t) => OneOwner(Kept(t, P))}
  <1>1. <<>> \in S
    <2>1. <<>> \in Seq(A)
      OBVIOUS
    <2>2. OneOwner(<<>>)
      <3>1. DOMAIN <<>> = {}
        OBVIOUS
      <3>2. QED
        BY <3>1, Zenon DEF OneOwner
    <2>3. Kept(<<>>, P) = <<>>
      BY KeptEmpty
    <2>4. QED
      BY <2>1, <2>2, <2>3, Zenon
  <1>2. ASSUME NEW t \in S, NEW a \in A PROVE Append(t, a) \in S
    <2>. DEFINE u == Append(t, a)
                k == Kept(t, P)
    <2>1. /\ t \in Seq(A) /\ u \in Seq(A) /\ (OneOwner(t) => OneOwner(k))
          /\ Kept(u, P) = IF a \in P THEN Append(k, a) ELSE k
      BY KeptAppend
    <2>2. k \in Seq(A) /\ \A m \in DOMAIN k : \E n \in DOMAIN t : k[m] = t[n]
      BY <2>1, KeptFrom
    <2>3. SUFFICES ASSUME OneOwner(u) PROVE OneOwner(Kept(u, P))
      BY <2>1
    <2>. HIDE DEF S, k
    <2>4. OneOwner(t) /\ \A i \in DOMAIN t : t[i].owner # a.owner
      <3>1. /\ Len(t) \in Nat
            /\ DOMAIN u = 1 .. Len(t) + 1 /\ DOMAIN t = 1 .. Len(t)
            /\ u[Len(t) + 1] = a /\ \A i \in DOMAIN t : u[i] = t[i]
        BY <2>1
      <3>. HIDE DEF u
      <3>2. OneOwner(t)
        BY <2>3, <3>1 DEF OneOwner
      <3>3. \A i \in DOMAIN t : t[i].owner # a.owner
        BY <2>3, <3>1 DEF OneOwner
      <3>4. QED
        BY <3>2, <3>3
    <2>5. OneOwner(k) /\ \A m \in DOMAIN k : k[m].owner # a.owner
      BY <2>1, <2>2, <2>4
    <2>6. OneOwner(Append(k, a))
      <3>1. /\ DOMAIN Append(k, a) = 1 .. Len(k) + 1 /\ DOMAIN k = 1 .. Len(k)
            /\ Len(k) \in Nat
            /\ Append(k, a)[Len(k) + 1] = a /\ \A m \in DOMAIN k : Append(k, a)[m] = k[m]
        BY <2>2
      <3>2. QED
        BY <2>5, <3>1 DEF OneOwner
    <2>7. QED
      BY <2>1, <2>5, <2>6
  <1>. HIDE DEF S
  <1>3. S \in SUBSET Seq(A)
    BY DEF S
  <1>4. S = Seq(A)
    BY <1>1, <1>2, <1>3, SeqInduction
  <1>5. QED
    BY <1>4 DEF S

(* Only what is still held of the leftovers and of the remaps is kept.      *)
LEMMA LeftoversKeep ==
    ASSUME NEW x \in Engines, Leftovers(x), NEW y, NEW N, Evolves(x, y, N),
           N \cap Referenced(x) = {},
           y.reuse \subseteq x.reuse, y.carry \subseteq x.carry,
           y.reuse \cup y.carry \subseteq y.physical
    PROVE  Leftovers(y)
  <1>1. ASSUME NEW p \in y.reuse \cup y.carry
        PROVE  y.route[p] = "consumed" /\ IsModifierPress(p)
    <2>1. p \in x.reuse \cup x.carry /\ p \in x.physical
      BY DEF Leftovers
    <2>2. p \in Referenced(x) /\ p \in Referenced(y) /\ p \in Press
      BY <2>1, ReferencedParts DEF Engines
    <2>3. x.route[p] = "consumed" /\ IsModifierPress(p)
      BY <2>1 DEF Leftovers
    <2>4. QED
      BY <2>2, <2>3 DEF Evolves
  <1>2. QED
    BY <1>1 DEF Leftovers, OnePerKey

LEMMA RemapsKeep ==
    ASSUME NEW x \in Engines, Remaps(x), NEW y, NEW N, Evolves(x, y, N),
           N \cap Referenced(x) = {}, Fewer(x, y),
           \A a \in ToSet(y.active) : a.members \subseteq y.physical
    PROVE  Remaps(y)
  <1>1. ASSUME NEW a \in ToSet(y.active)
        PROVE  /\ \A p \in a.members : y.route[p] = "consumed"
               /\ a.driver \in a.members
    <2>1. a \in ToSet(x.active)
      BY DEF Fewer
    <2>2. ASSUME NEW p \in a.members PROVE y.route[p] = "consumed"
      <3>1. p \in x.physical /\ x.route[p] = "consumed"
        BY <2>1 DEF Remaps
      <3>2. p \in Referenced(x) /\ p \in Press
        BY <3>1, ReferencedParts DEF Engines
      <3>3. p \in Referenced(y)
        BY ReferencedParts
      <3>4. QED
        BY <3>1, <3>2, <3>3 DEF Evolves
    <2>3. QED
      BY <2>1, <2>2 DEF Remaps
  <1>2. OneOwner(y.active)
    BY DEF Fewer, Remaps
  <1>3. QED
    BY <1>1, <1>2 DEF Remaps

Held(x) == Leftovers(x) /\ Remaps(x)

(* What a step leaves to hold, when it releases no key.                    *)
Retains(x, y) ==
    /\ y.physical = x.physical
    /\ y.reuse \subseteq x.reuse /\ y.carry \subseteq x.carry
    /\ Fewer(x, y)

LEMMA HeldKeeps ==
    ASSUME NEW x \in Engines, Held(x), NEW y, Evolves(x, y, {}), Retains(x, y)
    PROVE  Held(y)
  <1>1. y.reuse \cup y.carry \subseteq y.physical
    BY DEF Retains, Held, Leftovers
  <1>2. \A a \in ToSet(y.active) : a.members \subseteq y.physical
    BY DEF Retains, Fewer, Held, Remaps
  <1>3. Leftovers(y) /\ Remaps(y)
    BY <1>1, <1>2, LeftoversKeep, RemapsKeep DEF Retains, Held
  <1>4. QED
    BY <1>3 DEF Held

LEMMA RetainsTransitive ==
    ASSUME NEW x, NEW y, NEW z, Retains(x, y), Retains(y, z)
    PROVE  Retains(x, z)
  BY DEF Retains, Fewer

LEMMA RetainsAll ==
    ASSUME NEW x, NEW y, y.physical = x.physical, y.reuse = x.reuse, y.carry = x.carry,
           y.active = x.active
    PROVE  Retains(x, y)
  BY DEF Retains, Fewer

LEMMA FailRetains ==
    ASSUME NEW x \in Engines
    PROVE  Retains(x, Fail(x))
  BY FailFields DEF Retains, Fewer

LEMMA DrainRetains ==
    ASSUME NEW x \in Engines
    PROVE  Retains(x, Drain(x))
  BY DrainFields DEF Retains, Fewer, SameMatching

-----------------------------------------------------------------------------
(* One event: the keys that are held move as its transition says, and what  *)
(* is held of the leftovers and of the remaps stays.                       *)
LEMMA IngestMoves ==
    ASSUME NEW x, Sound(x), NEW d \in Device, NEW event \in InputEvent,
           Fresh(x, d, event) => FreeLives(x, d, event.code) # {}
    PROVE  LET tr == TransitionOf(x, d, event)
               v == Ingested(x, d, event)
           IN /\ Valid(x, d, event) => Moves(x.physical, tr, v.physical)
              /\ ~Valid(x, d, event) => v = x
              /\ x.reuse \cup x.carry \subseteq x.physical
                    => v.reuse \cup v.carry \subseteq v.physical
  <1>. DEFINE p == EventPress(x, d, event)
              tr == TransitionOf(x, d, event)
              v == Ingested(x, d, event)
              valid == Valid(x, d, event)
  <1>0. x \in Engines /\ Counted(x)
    BY DEF Sound
  <1>1. v \in Engines /\ Counted(v)
    BY IngestFields DEF Ingested
  <1>2. tr.press = p /\ tr.value = event.value /\ tr.count = v.logicalCount[logical(p)]
    BY DEF TransitionOf, Transition
  <1>3. /\ valid => event.value \in {0, 1, 2} /\ p \in Press
        /\ Fresh(x, d, event) => p \notin Referenced(x)
        /\ valid /\ event.value # 1 => p \in x.physical
    <2>1. valid => event.value \in {0, 1, 2}
      BY EventType DEF Valid
    <2>2. x.physical \subseteq Press
      BY <1>0 DEF Engines
    <2>3. QED
      BY <1>0, <2>1, <2>2, EventPressIs DEF Fresh
  <1>4. v = CASE valid /\ event.value = 1 -> Down(x, {p})
              [] valid /\ event.value = 0 -> Release(x, {p})
              [] OTHER -> x
    BY DEF Ingested, Ingest
  <1>. HIDE DEF p, tr, v
  <1>5. ~valid => v = x
    BY <1>4
  <1>6. ASSUME valid PROVE tr.count = CountOf(v.physical, logical(tr.press))
    BY <1>1, <1>2, <1>3, <1>6, PressParts DEF Counted
  <1>7. CASE valid /\ event.value = 1
    <2>1. v = Down(x, {p}) /\ p \in Press /\ p \notin x.physical
      BY <1>3, <1>4, <1>7, ReferencedParts DEF Fresh
    <2>2. v.physical = x.physical \cup {p} /\ v.carry = x.carry /\ v.reuse = x.reuse
      <3>. DEFINE S == {p}
                  z == Down(x, S)
      <3>1. S \in SUBSET Press
        BY <2>1
      <3>. HIDE DEF S
      <3>2. z.physical = x.physical \cup S /\ z.carry = x.carry /\ z.reuse = x.reuse
        BY <1>0, <3>1, DownFields
      <3>3. v = z
        BY <2>1 DEF S
      <3>. HIDE DEF z
      <3>4. QED
        BY <3>2, <3>3 DEF S
    <2>3. Moves(x.physical, tr, v.physical)
      BY <1>2, <1>6, <1>7, <2>1, <2>2 DEF Moves
    <2>4. QED
      BY <1>7, <2>2, <2>3 DEF tr, v
  <1>8. CASE valid /\ event.value = 0
    <2>1. v = Release(x, {p}) /\ p \in x.physical
      BY <1>3, <1>4, <1>8
    <2>2. v.physical = x.physical \ {p} /\ v.carry = x.carry \ {p} /\ v.reuse = x.reuse \ {p}
      BY <1>0, <2>1, ReleaseFields
    <2>3. QED
      BY <1>2, <1>5, <1>6, <1>8, <2>1, <2>2 DEF Moves, p, tr, v
  <1>9. CASE valid /\ event.value = 2
    <2>1. v = x
      BY <1>4, <1>9
    <2>2. QED
      BY <1>2, <1>5, <1>6, <1>9, <2>1 DEF Moves, p, tr, v
  <1>10. CASE ~valid
    BY <1>5, <1>10 DEF tr, v
  <1>11. QED
    BY <1>3, <1>7, <1>8, <1>9, <1>10

LEMMA EndedParts ==
    ASSUME NEW x, Sound(x), NEW d \in Device, NEW event \in InputEvent,
           Fresh(x, d, event) => FreeLives(x, d, event.code) # {}
    PROVE  LET v == Ingested(x, d, event)
               w == Ended(x, d, event)
           IN /\ v \in Engines /\ v.active = x.active /\ w \in Engines
              /\ w.carry \subseteq x.carry /\ w.reuse \subseteq x.reuse
              /\ w.journal = x.journal
  BY EndedFields

LEMMA HandledMoves ==
    ASSUME NEW x, Sound(x), Held(x), x.journal # <<>>, NEW d \in Device,
           Last(x.journal).device = d, NEW event \in InputEvent, NEW chatter \in BOOLEAN,
           Fresh(x, d, event) => FreeLives(x, d, event.code) # {} /\ chatter = FALSE
    PROVE  LET y == Handled(x, d, event, chatter) IN
           /\ Valid(x, d, event) => Moves(x.physical, TransitionOf(x, d, event), y.physical)
           /\ ~Valid(x, d, event) => y.physical = x.physical
           /\ y.reuse \subseteq x.reuse /\ y.carry \subseteq x.carry
           /\ Held(y)
  <1>. DEFINE p == EventPress(x, d, event)
              v == Ingested(x, d, event)
              w == Ended(x, d, event)
              tr == TransitionOf(x, d, event)
              valid == Valid(x, d, event)
              records == Records(v, tr, valid, chatter, event, p)
              y == Handled(x, d, event, chatter)
              N == IF Fresh(x, d, event) THEN {p} ELSE {}
  <1>0. x \in Engines
    BY DEF Sound
  <1>1. /\ v \in Engines /\ v.active = x.active /\ w \in Engines
        /\ w.carry \subseteq x.carry /\ w.reuse \subseteq x.reuse
        /\ w.journal = x.journal
    <2>1. Fresh(x, d, event) => FreeLives(x, d, event.code) # {}
      OBVIOUS
    <2>. HIDE DEF v, w
    <2>2. QED
      BY <2>1, EndedParts DEF v, w
  <1>2. /\ valid => Moves(x.physical, tr, v.physical)
        /\ ~valid => v = x
        /\ x.reuse \cup x.carry \subseteq x.physical
              => v.reuse \cup v.carry \subseteq v.physical
    BY IngestMoves
  <1>3. N \cap Referenced(x) = {} /\ Evolves(x, y, N)
    <2>1. HandledFacts(x, d, event, chatter)
      BY HandledKeeps
    <2>2. QED
      BY <2>1 DEF HandledFacts
  <1>4. records \in Seq(Record)
    <2>1. p \in Press \cup {NoPress} /\ (event.type # "key" => p = NoPress)
      BY <1>0, EventPressIs
    <2>2. /\ EventRecords(v, event, p) \in SUBSET Record
          /\ records \in Seq(EventRecords(v, event, p))
      <3>. HIDE DEF p, v, tr
      <3>1. QED
        BY <1>1, <2>1, RecordsType
    <2>. HIDE DEF records
    <2>3. QED
      BY <2>2
  <1>5. /\ y.physical = w.physical /\ y.carry = w.carry /\ y.reuse = w.reuse
        /\ y.active = w.active
    <2>1. y = Recorded(w, records)
      BY DEF Handled
    <2>. HIDE DEF records, w, y
    <2>2. QED
      BY <1>1, <1>4, <2>1, RecordedFields
  <1>6. w = IF valid THEN EndActivations(v, tr) ELSE v
    BY DEF Ended
  <1>. HIDE DEF v, w, tr, y, records, p, valid
  <1>7. /\ w.physical = v.physical /\ w.carry = v.carry /\ w.reuse = v.reuse
        /\ Fewer(v, w)
        /\ valid => \A a \in ToSet(w.active) : ~Ends(a, tr)
    <2>1. CASE valid
      <3>1. w = EndActivations(v, tr)
        BY <1>6, <2>1
      <3>2. /\ w.physical = v.physical /\ w.carry = v.carry /\ w.reuse = v.reuse
            /\ ToSet(w.active) \subseteq {a \in ToSet(v.active) : ~Ends(a, tr)}
        BY <1>1, <3>1, EndActivationsFields
      <3>3. OneOwner(v.active) => OneOwner(w.active)
        <4>1. v.active \in Seq(Activation)
          BY <1>1 DEF Engines
        <4>2. w.active = Kept(v.active, {a \in ToSet(v.active) : ~Ends(a, tr)})
          BY <1>1, <3>1 DEF EndActivations, Engines
        <4>3. QED
          BY <4>1, <4>2, KeptOwners
      <3>4. QED
        BY <3>2, <3>3 DEF Fewer
    <2>2. CASE ~valid
      BY <1>6, <2>2 DEF Fewer
    <2>3. QED
      BY <2>1, <2>2
  <1>8. Fewer(x, y)
    BY <1>1, <1>5, <1>7 DEF Fewer
  <1>9. y.physical = v.physical
    BY <1>5, <1>7
  <1>10. y.reuse \subseteq x.reuse /\ y.carry \subseteq x.carry
    BY <1>1, <1>5
  <1>11. Leftovers(y)
    <2>1. x.reuse \cup x.carry \subseteq x.physical
      BY DEF Held, Leftovers
    <2>2. y.reuse \cup y.carry \subseteq y.physical
      BY <1>2, <1>5, <1>7, <2>1
    <2>3. QED
      BY <1>0, <1>3, <1>10, <2>2, LeftoversKeep DEF Held
  <1>12. Remaps(y)
    <2>1. ASSUME NEW a \in ToSet(y.active) PROVE a.members \subseteq y.physical
      <3>1. a \in ToSet(x.active) /\ (valid => ~Ends(a, tr))
        BY <1>5, <1>7, <1>8 DEF Fewer
      <3>2. a.members \subseteq x.physical
        BY <3>1 DEF Held, Remaps
      <3>3. CASE valid
        BY <1>2, <1>9, <3>1, <3>2, <3>3 DEF Moves, Ends
      <3>4. CASE ~valid
        BY <1>2, <1>9, <3>2, <3>4
      <3>5. QED
        BY <3>3, <3>4
    <2>2. QED
      BY <1>0, <1>3, <1>8, <2>1, RemapsKeep DEF Held
  <1>13. QED
    BY <1>2, <1>9, <1>10, <1>11, <1>12 DEF Held, valid, tr, y

-----------------------------------------------------------------------------
(* Trails of held keys.                                                    *)
LEMMA TrailNone ==
    ASSUME NEW A \in SUBSET Press, NEW S, S \subseteq A
    PROVE  \E P : Trail(<<>>, P, S, A) /\ P[1] = A
  <1>. DEFINE P == <<A>>
  <1>1. /\ P \in Seq(SUBSET Press) /\ Len(P) = 1 /\ P[1] = A /\ DOMAIN P = {1}
        /\ Len(<<>>) = 0 /\ DOMAIN <<>> = {}
    OBVIOUS
  <1>. HIDE DEF P
  <1>2. Trail(<<>>, P, S, A)
    BY <1>1 DEF Trail
  <1>3. QED
    BY <1>1, <1>2

LEMMA TrailOne ==
    ASSUME NEW A \in SUBSET Press, NEW B \in SUBSET Press, NEW S, S \subseteq A, S \subseteq B,
           NEW tr, Moves(A, tr, B)
    PROVE  \E P : Trail(<<tr>>, P, S, B) /\ P[1] = A
  <1>. DEFINE P == <<A, B>>
              trs == <<tr>>
  <1>1. /\ P \in Seq(SUBSET Press) /\ Len(P) = 2 /\ P[1] = A /\ P[2] = B /\ DOMAIN P = {1, 2}
        /\ Len(trs) = 1 /\ DOMAIN trs = {1} /\ trs[1] = tr
    OBVIOUS
  <1>. HIDE DEF P, trs
  <1>2. Trail(trs, P, S, B)
    BY <1>1 DEF Trail
  <1>3. QED
    BY <1>1, <1>2 DEF trs

LEMMA TrailLess ==
    ASSUME NEW trs, NEW P, NEW S, NEW A, Trail(trs, P, S, A), NEW T, T \subseteq S
    PROVE  Trail(trs, P, T, A)
  BY DEF Trail

LEMMA TrailAppend ==
    ASSUME NEW trs \in Seq(Transitions), NEW P, NEW S, NEW A, Trail(trs, P, S, A),
           NEW T, T \subseteq S, NEW B \in SUBSET Press, T \subseteq B,
           NEW tr, Moves(A, tr, B)
    PROVE  \E Q : Trail(Append(trs, tr), Q, T, B)
  <1>. DEFINE Q == Append(P, B)
              us == Append(trs, tr)
              n == Len(trs)
  <1>1. /\ P \in Seq(SUBSET Press) /\ Len(P) = n + 1 /\ P[n + 1] = A
        /\ \A k \in DOMAIN trs : Moves(P[k], trs[k], P[k + 1])
        /\ \A k \in DOMAIN P : S \subseteq P[k]
    BY DEF Trail
  <1>2. n \in Nat /\ DOMAIN trs = 1 .. n
    OBVIOUS
  <1>3. /\ Q \in Seq(SUBSET Press) /\ Len(Q) = n + 2 /\ DOMAIN Q = 1 .. n + 2
        /\ \A k \in 1 .. n + 1 : Q[k] = P[k]
        /\ Q[n + 2] = B /\ DOMAIN P = 1 .. n + 1
    BY <1>1, <1>2
  <1>4. /\ Len(us) = n + 1 /\ DOMAIN us = 1 .. n + 1 /\ us[n + 1] = tr
        /\ \A k \in 1 .. n : us[k] = trs[k]
    BY <1>2
  <1>. HIDE DEF Q, us, n
  <1>5. ASSUME NEW k \in DOMAIN us PROVE Moves(Q[k], us[k], Q[k + 1])
    <2>1. CASE k \in 1 .. n
      <3>1. k + 1 \in 1 .. n + 1 /\ k \in 1 .. n + 1
        BY <1>2, <2>1
      <3>2. QED
        BY <1>1, <1>2, <1>3, <1>4, <2>1, <3>1
    <2>2. CASE k = n + 1
      <3>1. k + 1 = n + 2 /\ k \in 1 .. n + 1
        BY <1>2, <2>2
      <3>2. QED
        BY <1>1, <1>3, <1>4, <2>2, <3>1
    <2>3. QED
      BY <1>2, <1>4, <2>1, <2>2
  <1>6. ASSUME NEW k \in DOMAIN Q PROVE T \subseteq Q[k]
    <2>1. CASE k \in 1 .. n + 1
      BY <1>1, <1>3, <2>1
    <2>2. CASE k = n + 2
      BY <1>3, <2>2
    <2>3. QED
      BY <1>2, <1>3, <2>1, <2>2
  <1>7. Len(Q) = Len(us) + 1 /\ Q[Len(Q)] = B
    BY <1>2, <1>3, <1>4
  <1>8. Trail(us, Q, T, B)
    BY <1>3, <1>5, <1>6, <1>7 DEF Trail
  <1>9. QED
    BY <1>8 DEF us

LEMMA TrailTail ==
    ASSUME NEW trs \in Seq(Transitions), trs # <<>>, NEW P, NEW S, NEW A, Trail(trs, P, S, A),
           NEW T, T \subseteq S
    PROVE  /\ Moves(P[1], Head(trs), P[2])
           /\ P[1] \in SUBSET Press /\ P[2] \in SUBSET Press
           /\ S \subseteq P[1]
           /\ Trail(Tail(trs), Tail(P), T, A) /\ Tail(P)[1] = P[2]
  <1>. DEFINE Q == Tail(P)
              us == Tail(trs)
              n == Len(us)
  <1>1. /\ P \in Seq(SUBSET Press) /\ Len(P) = Len(trs) + 1 /\ P[Len(P)] = A
        /\ \A k \in DOMAIN trs : Moves(P[k], trs[k], P[k + 1])
        /\ \A k \in DOMAIN P : S \subseteq P[k]
    BY DEF Trail
  <1>2. /\ n \in Nat /\ Len(trs) = n + 1 /\ DOMAIN trs = 1 .. n + 1 /\ DOMAIN us = 1 .. n
        /\ Head(trs) = trs[1] /\ \A k \in 1 .. n : us[k] = trs[k + 1]
    OBVIOUS
  <1>3. /\ Len(P) = n + 2 /\ DOMAIN P = 1 .. n + 2
        /\ Q \in Seq(SUBSET Press) /\ Len(Q) = n + 1 /\ DOMAIN Q = 1 .. n + 1
        /\ \A k \in 1 .. n + 1 : Q[k] = P[k + 1]
    BY <1>1, <1>2
  <1>4. P[1] \in SUBSET Press /\ P[2] \in SUBSET Press
    BY <1>1, <1>2, <1>3
  <1>. HIDE DEF Q, us, n
  <1>5. Moves(P[1], Head(trs), P[2]) /\ S \subseteq P[1]
    <2>1. 1 \in DOMAIN trs /\ 1 \in DOMAIN P /\ 1 + 1 = 2
      BY <1>2, <1>3
    <2>2. Moves(P[1], trs[1], P[1 + 1])
      BY <1>1, <2>1
    <2>3. QED
      BY <1>1, <1>2, <2>1, <2>2
  <1>6. ASSUME NEW k \in DOMAIN us PROVE Moves(Q[k], us[k], Q[k + 1])
    <2>1. k + 1 \in DOMAIN trs /\ k \in 1 .. n + 1 /\ k + 1 \in 1 .. n + 1
      BY <1>2
    <2>2. Moves(P[k + 1], trs[k + 1], P[(k + 1) + 1])
      BY <1>1, <2>1
    <2>3. QED
      BY <1>2, <1>3, <2>1, <2>2
  <1>7. ASSUME NEW k \in DOMAIN Q PROVE T \subseteq Q[k]
    <2>1. k + 1 \in DOMAIN P /\ Q[k] = P[k + 1]
      BY <1>2, <1>3
    <2>2. QED
      BY <1>1, <2>1
  <1>8. Q[Len(Q)] = A /\ Q[1] = P[2] /\ Len(Q) = Len(us) + 1
    <2>1. Len(P) = (n + 1) + 1 /\ n + 1 \in 1 .. n + 1 /\ 1 \in 1 .. n + 1 /\ 1 + 1 = 2
      BY <1>2, <1>3
    <2>2. QED
      BY <1>1, <1>3, <2>1 DEF n
  <1>9. Trail(us, Q, T, A)
    BY <1>3, <1>6, <1>7, <1>8 DEF Trail
  <1>10. QED
    BY <1>4, <1>5, <1>8, <1>9 DEF us, Q

LEMMA TrailEnds ==
    ASSUME NEW P, NEW S, NEW A, Trail(<<>>, P, S, A)
    PROVE  P[1] = A
  <1>1. Len(<<>>) = 0
    OBVIOUS
  <1>2. Len(P) = 1 /\ P[Len(P)] = A
    BY <1>1 DEF Trail
  <1>3. QED
    BY <1>2

(* A new candidate has the leftovers for members, held throughout.          *)
LEMMA StartTracks ==
    ASSUME NEW x, Sound(x), Leftovers(x), NEW p, Starts(x, p),
           NEW A \in SUBSET Press, x.reuse \cup x.carry \subseteq A
    PROVE  LET y == Start(x, p) IN
           Tracks(y, A) /\ y.reuse = x.reuse /\ y.carry = x.carry /\ y.physical = x.physical
             /\ y.active = x.active /\ y.route = x.route /\ Matching(y)
  <1>. DEFINE y == Start(x, p)
  <1>0. x \in Engines
    BY DEF Sound
  <1>1. CASE x.mode = "idle"
    <2>. DEFINE borrowed == Borrowed(x, p)
                reserve == borrowed = {} /\ logical(p) \in ReservedModifiers
                c == NewCandidate(x, PossibleSources(x, p), borrowed)
    <2>1. y = [x EXCEPT !.seq = c, !.mode = IF reserve THEN "reserved" ELSE "prefix",
                        !.deadline = ~reserve]
      BY <1>1 DEF Start, StartSource
    <2>2. borrowed \subseteq x.reuse
      BY DEF Borrowed
    <2>3. /\ c.members = borrowed \cap x.physical /\ c.held = borrowed \cap x.physical
          /\ c.driver = NoPress /\ c.matched = 0 /\ c.possible = PossibleSources(x, p)
      BY DEF NewCandidate, NoCandidate
    <2>4. \A i \in PossibleSources(x, p) : \A q \in borrowed : logical(q) \in Keys(i)
      BY DEF PossibleSources
    <2>. HIDE DEF c, borrowed, reserve, y
    <2>5. /\ y.seq = c /\ y.mode \in {"reserved", "prefix"} /\ y.reuse = x.reuse
          /\ y.carry = x.carry /\ y.physical = x.physical /\ y.active = x.active
          /\ y.route = x.route
      BY <1>0, <2>1 DEF Engines
    <2>6. SourceTracks(y, A)
      BY <2>2, <2>3, <2>4, <2>5 DEF SourceTracks, Leftovers
    <2>7. Tracks(y, A)
      BY <2>2, <2>3, <2>5, <2>6 DEF Tracks, Leftovers, OnePerKey
    <2>8. QED
      BY <2>5, <2>7 DEF y, Matching
  <1>2. CASE x.mode # "idle"
    <2>. DEFINE bindings == Sources[x.activePrefix].bindings
                possible == {b \in DOMAIN bindings :
                               \A q \in x.carry : logical(q) \in bindings[b].keys}
                c == NewCandidate(x, possible, x.carry)
    <2>1. y = [x EXCEPT !.seq = c, !.mode = "binding"]
      BY <1>2 DEF Start, StartBinding
    <2>2. c.members = x.carry \cap x.physical /\ c.held = x.carry \cap x.physical
      BY DEF NewCandidate, NoCandidate
    <2>. HIDE DEF c, y
    <2>3. /\ y.seq = c /\ y.mode = "binding" /\ y.reuse = x.reuse
          /\ y.carry = x.carry /\ y.physical = x.physical /\ y.active = x.active
          /\ y.route = x.route
      BY <1>0, <2>1 DEF Engines
    <2>4. Tracks(y, A)
      BY <2>2, <2>3 DEF Tracks, Leftovers, OnePerKey
    <2>5. QED
      BY <2>3, <2>4 DEF y, Matching
  <1>3. QED
    BY <1>1, <1>2

-----------------------------------------------------------------------------
(* What the engine holds, and what its candidate believes to be held.      *)
Consistent(x) == Held(x) /\ Tracks(x, x.physical)

LEMMA TracksKeep ==
    ASSUME NEW x \in Engines, NEW A, Tracks(x, A), NEW y, NEW N, Evolves(x, y, N),
           N \cap Referenced(x) = {}, SameMatching(x, y), y.reuse \subseteq x.reuse
    PROVE  Tracks(y, A)
  <1>1. y.seq = x.seq /\ y.mode = x.mode
    BY DEF SameMatching
  <1>2. ASSUME NEW p \in x.seq.members, x.route[p] = "consumed" PROVE y.route[p] = "consumed"
    <2>1. p \in Referenced(x) /\ p \in Referenced(y)
      BY <1>1, ReferencedParts
    <2>2. p \in Press
      BY DEF Engines, Candidate
    <2>3. QED
      BY <1>2, <2>1, <2>2 DEF Evolves
  <1>3. QED
    BY <1>1, <1>2, TracksSame DEF Matching

LEMMA ConsistentKeeps ==
    ASSUME NEW x \in Engines, Consistent(x), NEW y, Evolves(x, y, {}), Retains(x, y),
           SameMatching(x, y)
    PROVE  Consistent(y)
  <1>1. Held(y)
    BY HeldKeeps DEF Consistent
  <1>2. Tracks(y, x.physical)
    BY TracksKeep DEF Consistent, Retains
  <1>3. QED
    BY <1>1, <1>2 DEF Consistent, Retains

LEMMA IdleConsistent ==
    ASSUME NEW x, Held(x), ~Matching(x)
    PROVE  Consistent(x)
  BY DEF Consistent, Tracks

LEMMA FailConsistent ==
    ASSUME NEW x, Sound(x), Held(x)
    PROVE  Consistent(Fail(x))
  <1>1. Evolves(x, Fail(x), {}) /\ x \in Engines
    BY FailKeeps DEF Sound
  <1>2. Held(Fail(x))
    BY <1>1, FailRetains, HeldKeeps
  <1>3. QED
    BY <1>1, <1>2, FailTracks, IdleConsistent

(* A chord is consumed: its held modifiers are what it leaves.             *)
LEMMA ConsumedLeftovers ==
    ASSUME NEW x, Sound(x), Matching(x), Consistent(x), NEW y, y.physical = x.physical,
           y.route = [p \in Press |-> IF p \in x.seq.owned THEN "consumed" ELSE x.route[p]],
           y.reuse \subseteq x.reuse \cup HeldModifiers(x, x.seq),
           y.carry \subseteq HeldModifiers(x, x.seq)
    PROVE  Leftovers(y)
  <1>. DEFINE c == x.seq
              K == HeldModifiers(x, c)
  <1>1. K \subseteq c.members /\ K \subseteq x.physical /\ \A q \in K : IsModifierPress(q)
    BY DEF HeldModifiers
  <1>2. /\ OnePerKey(c.members)
        /\ \A q \in c.members : q \in c.owned \/ x.route[q] = "consumed"
        /\ \A p \in c.members \cap x.physical :
              \A q \in x.reuse : logical(p) = logical(q) => p = q
    BY DEF Consistent, Tracks
  <1>3. /\ x.reuse \subseteq x.physical /\ OnePerKey(x.reuse)
        /\ \A p \in x.reuse : x.route[p] = "consumed" /\ IsModifierPress(p)
    BY DEF Consistent, Held, Leftovers
  <1>4. x.physical \subseteq Press
    BY DEF Sound, Engines
  <1>. HIDE DEF K
  <1>5. \A p \in x.reuse \cup K : p \in Press /\ y.route[p] = "consumed" /\ IsModifierPress(p)
    BY <1>1, <1>2, <1>3, <1>4
  <1>6. OnePerKey(x.reuse \cup K)
    BY <1>1, <1>2, <1>3 DEF OnePerKey
  <1>7. y.reuse \subseteq x.reuse \cup K /\ y.carry \subseteq K
    BY DEF K
  <1>8. QED
    BY <1>1, <1>3, <1>5, <1>6, <1>7 DEF Leftovers, OnePerKey

LEMMA ConsumedRemaps ==
    ASSUME NEW x, Sound(x), Consistent(x), NEW y, y.physical = x.physical,
           y.route = [p \in Press |-> IF p \in x.seq.owned THEN "consumed" ELSE x.route[p]],
           y.active = x.active
    PROVE  Remaps(y)
  <1>1. x.physical \subseteq Press
    BY DEF Sound, Engines
  <1>2. Remaps(x)
    BY DEF Consistent, Held
  <1>3. QED
    BY <1>1, <1>2 DEF Remaps

(* A remap that begins has an owner of its own.                            *)
LEMMA BegunRemaps ==
    ASSUME NEW x, Sound(x), Matching(x), x.mode # "binding", Consistent(x),
           x.seq.matched # 0, Sources[x.seq.matched].mode = "hold", ~x.seq.broken,
           NEW a, \A b \in ToSet(x.active) : b.owner # a.owner,
           a.members = x.seq.matchMembers, a.driver = x.seq.driver,
           NEW y, y.physical = x.physical,
           y.route = [p \in Press |-> IF p \in x.seq.owned THEN "consumed" ELSE x.route[p]],
           y.active = Append(x.active, a)
    PROVE  Remaps(y)
  <1>. DEFINE c == x.seq
              s == x.active
              t == Append(s, a)
  <1>1. x.physical \subseteq Press /\ s \in Seq(Activation)
    BY DEF Sound, Engines
  <1>2. /\ \A b \in ToSet(s) :
              b.members \subseteq x.physical /\ (\A p \in b.members : x.route[p] = "consumed")
                /\ b.driver \in b.members
        /\ OneOwner(s)
    BY DEF Consistent, Held, Remaps
  <1>3. /\ \A q \in c.members : q \in c.owned \/ x.route[q] = "consumed"
        /\ c.matchMembers \subseteq c.members \cap x.physical
        /\ c.driver \in c.matchMembers
    BY DEF Consistent, Tracks, SourceTracks
  <1>4. /\ Len(s) \in Nat /\ DOMAIN s = 1 .. Len(s) /\ DOMAIN t = 1 .. Len(s) + 1
        /\ t[Len(s) + 1] = a /\ \A k \in DOMAIN s : t[k] = s[k]
    BY <1>1
  <1>. HIDE DEF t
  <1>5. OneOwner(t)
    <2>1. \A k \in DOMAIN s : s[k].owner # a.owner
      BY DEF ToSet
    <2>2. QED
      BY <1>2, <1>4, <2>1 DEF OneOwner
  <1>6. ASSUME NEW b \in ToSet(t)
        PROVE  /\ b.members \subseteq y.physical /\ b.driver \in b.members
               /\ \A p \in b.members : y.route[p] = "consumed"
    <2>1. b \in ToSet(s) \/ b = a
      BY <1>4 DEF ToSet
    <2>2. QED
      BY <1>1, <1>2, <1>3, <2>1
  <1>7. y.active = t
    BY DEF t
  <1>8. QED
    BY <1>5, <1>6, <1>7 DEF Remaps

(* What queueing an operation leaves alone.                                *)
LEMMA QueueRetains ==
    ASSUME NEW x \in Engines, NEW outputs
    PROVE  LET y == QueueOutputs(x, outputs) IN
           /\ y.physical = x.physical /\ y.route = x.route /\ y.reuse = x.reuse
           /\ y.carry = x.carry /\ y.active = x.active /\ SameMatching(x, y)
           /\ y = [x EXCEPT !.journal = y.journal]
  <1>. DEFINE j == x.journal \o [k \in DOMAIN outputs |-> OutputFrame(outputs[k])]
              y == QueueOutputs(x, outputs)
  <1>1. y = [x EXCEPT !.journal = j]
    BY DEF QueueOutputs
  <1>. HIDE DEF j, y
  <1>2. QED
    BY <1>1 DEF Engines, SameMatching, y

LEMMA ActivateFields ==
    ASSUME NEW z \in Engines, NEW c \in Candidate, NEW target, NEW owner
    PROVE  LET y == Activate(z, c, target, owner)
               a == [owner |-> owner, target |-> target,
                     members |-> c.matchMembers, driver |-> c.driver]
           IN /\ y.physical = z.physical /\ y.route = z.route /\ y.reuse = z.reuse
              /\ y.carry = z.carry /\ y.mode = z.mode
              /\ y.active = IF c.broken THEN z.active ELSE Append(z.active, a)
  <1>. DEFINE a == [owner |-> owner, target |-> target,
                    members |-> c.matchMembers, driver |-> c.driver]
              u == QueueOutput(z, KeyOutput(owner, target, 1))
              j == u.journal \o [k \in DOMAIN StopOutputs(a) |-> OutputFrame(StopOutputs(a)[k])]
              v == [u EXCEPT !.journal = j]
              w == [u EXCEPT !.active = Append(u.active, a)]
  <1>1. /\ u.physical = z.physical /\ u.route = z.route /\ u.reuse = z.reuse
        /\ u.carry = z.carry /\ u.active = z.active /\ u.mode = z.mode
        /\ u = [z EXCEPT !.journal = u.journal]
    BY QueueRetains DEF QueueOutput, SameMatching
  <1>2. Activate(z, c, target, owner) = IF c.broken THEN v ELSE w
    BY DEF Activate, StopActivation, QueueOutputs
  <1>. HIDE DEF u, j, a
  <1>3. /\ v.physical = z.physical /\ v.route = z.route /\ v.reuse = z.reuse
        /\ v.carry = z.carry /\ v.active = z.active /\ v.mode = z.mode
    BY <1>1 DEF Engines
  <1>4. /\ w.physical = z.physical /\ w.route = z.route /\ w.reuse = z.reuse
        /\ w.carry = z.carry /\ w.active = Append(z.active, a) /\ w.mode = z.mode
    BY <1>1 DEF Engines
  <1>. HIDE DEF v, w
  <1>5. QED
    BY <1>2, <1>3, <1>4 DEF a

LEMMA CompleteBindingConsistent ==
    ASSUME NEW x, Sound(x), x.mode = "binding", x.seq.matched # 0, Consistent(x)
    PROVE  Consistent(CompleteBinding(x))
  <1>. DEFINE r == Resolve(x, "consumed")
              z == Idle(r)
              o == EmitAction(Sources[x.activePrefix].bindings[x.seq.matched].action)
              y == QueueOutput(z, o)
  <1>0. x \in Engines /\ y = CompleteBinding(x)
    BY DEF Sound, CompleteBinding
  <1>1. r \in Engines /\ r = [x EXCEPT !.route = r.route, !.journal = r.journal]
    BY <1>0, ResolveFields DEF Route
  <1>. HIDE DEF r
  <1>2. /\ r.physical = x.physical /\ r.reuse = x.reuse /\ r.active = x.active
    BY <1>0, <1>1 DEF Engines
  <1>3. /\ z \in Engines /\ z.mode = "idle" /\ z.carry = {} /\ z.physical = r.physical
        /\ z.reuse = r.reuse /\ z.active = r.active
    BY <1>1, IdleFields
  <1>. HIDE DEF z, o
  <1>4. /\ y.physical = z.physical /\ y.reuse = z.reuse /\ y.carry = z.carry
        /\ y.active = z.active /\ y.mode = z.mode
    BY <1>3, QueueRetains DEF QueueOutput, SameMatching
  <1>5. Evolves(x, y, {})
    BY <1>0, CompleteBindingKeeps
  <1>. HIDE DEF y
  <1>6. Retains(x, y) /\ ~Matching(y)
    BY <1>2, <1>3, <1>4 DEF Retains, Fewer, Matching
  <1>7. Held(y)
    BY <1>0, <1>5, <1>6, HeldKeeps DEF Consistent
  <1>8. QED
    BY <1>0, <1>6, <1>7, IdleConsistent

LEMMA CompleteSourceConsistent ==
    ASSUME NEW x, Sound(x), x.mode \in {"reserved", "prefix"}, x.seq.matched # 0, Consistent(x),
           NEW owner, \A b \in ToSet(x.active) : b.owner # owner
    PROVE  Consistent(CompleteSource(x, owner))
  <1>. DEFINE c == x.seq
              source == Sources[c.matched]
              K == HeldModifiers(x, c)
              route == [p \in Press |-> IF p \in c.owned THEN "consumed" ELSE x.route[p]]
              r == Resolve(x, "consumed")
              w == [r EXCEPT !.reuse = r.reuse \cup K]
              z == Idle(w)
              y == CompleteSource(x, owner)
  <1>0. x \in Engines /\ c \in Candidate /\ Matching(x) /\ x.mode # "binding"
    BY DEF Sound, Engines, Matching
  <1>1. source.mode \in {"action", "tap", "hold"}
    <2>1. c.matched \in DOMAIN Sources
      BY DEF Sound, Configured, SourceCandidate
    <2>2. QED
      BY <2>1, SourceAt
  <1>2. K \subseteq Press
    BY <1>0 DEF HeldModifiers, Candidate
  <1>3. /\ r \in Engines /\ r = [x EXCEPT !.route = r.route, !.journal = r.journal]
        /\ r.route = route
    <2>1. /\ r \in Engines /\ r = [x EXCEPT !.route = r.route, !.journal = r.journal]
          /\ r.route = [p \in Press |->
               IF Matching(x) /\ p \in x.seq.owned THEN "consumed" ELSE x.route[p]]
      BY <1>0, ResolveFields DEF Route
    <2>2. QED
      BY <1>0, <2>1
  <1>4. y = CASE source.mode = "action" ->
                   [r EXCEPT !.mode = "await", !.activePrefix = c.matched, !.seq = NoCandidate,
                             !.carry = K, !.deadline = TRUE]
              [] source.mode = "hold" -> Activate(z, c, source.target, owner)
              [] source.mode = "tap" ->
                   QueueOutput(QueueOutput(z, KeyOutput(TapDevice, source.target, 1)),
                               KeyOutput(TapDevice, source.target, 0))
    BY DEF CompleteSource
  <1>. HIDE DEF K, r, y
  <1>5. /\ r.physical = x.physical /\ r.reuse = x.reuse /\ r.active = x.active
    BY <1>0, <1>3 DEF Engines
  <1>6. /\ w \in Engines /\ w.physical = x.physical /\ w.route = route
        /\ w.active = x.active /\ w.reuse = x.reuse \cup K
    <2>. HIDE DEF route
    <2>1. QED
      BY <1>2, <1>3, <1>5 DEF Engines
  <1>. HIDE DEF w
  <1>7. /\ z \in Engines /\ z.mode = "idle" /\ z.carry = {}
        /\ z.physical = x.physical /\ z.route = route /\ z.reuse = x.reuse \cup K
        /\ z.active = x.active
    <2>. HIDE DEF route
    <2>1. QED
      BY <1>6, IdleFields
  <1>. HIDE DEF z
  <1>8. SUFFICES /\ y.physical = x.physical /\ y.route = route /\ ~Matching(y)
                 /\ y.reuse \subseteq x.reuse \cup K /\ y.carry \subseteq K
                 /\ Remaps(y)
    <2>1. Leftovers(y)
      BY <1>0, <1>8, ConsumedLeftovers DEF K
    <2>2. QED
      BY <1>8, <2>1, IdleConsistent DEF Held, y
  <1>9. CASE source.mode = "action"
    <2>. DEFINE v == [r EXCEPT !.mode = "await", !.activePrefix = c.matched, !.seq = NoCandidate,
                               !.carry = K, !.deadline = TRUE]
    <2>1. y = v
      BY <1>4, <1>9
    <2>2. /\ v.mode = "await" /\ v.carry = K /\ v.physical = r.physical
          /\ v.route = r.route /\ v.reuse = r.reuse /\ v.active = r.active
      BY <1>3 DEF Engines
    <2>. HIDE DEF v
    <2>3. Remaps(y)
      BY <1>3, <1>5, <2>1, <2>2, ConsumedRemaps
    <2>4. QED
      BY <1>3, <1>5, <2>1, <2>2, <2>3 DEF Matching
  <1>10. CASE source.mode = "hold"
    <2>. DEFINE a == [owner |-> owner, target |-> source.target,
                      members |-> c.matchMembers, driver |-> c.driver]
    <2>1. y = Activate(z, c, source.target, owner)
      BY <1>4, <1>10
    <2>2. /\ y.physical = z.physical /\ y.route = z.route /\ y.reuse = z.reuse
          /\ y.carry = z.carry /\ y.mode = z.mode
          /\ y.active = IF c.broken THEN z.active ELSE Append(z.active, a)
      BY <1>0, <1>7, <2>1, ActivateFields
    <2>3. a.owner = owner /\ a.members = c.matchMembers /\ a.driver = c.driver
      OBVIOUS
    <2>. HIDE DEF a
    <2>4. Remaps(y)
      <3>1. CASE c.broken
        BY <1>7, <2>2, <3>1, ConsumedRemaps
      <3>2. CASE ~c.broken
        <4>1. /\ y.physical = x.physical /\ y.active = Append(x.active, a)
              /\ y.route = [p \in Press |->
                               IF p \in x.seq.owned THEN "consumed" ELSE x.route[p]]
          BY <1>7, <2>2, <3>2
        <4>2. /\ \A b \in ToSet(x.active) : b.owner # a.owner
              /\ a.members = x.seq.matchMembers /\ a.driver = x.seq.driver
          BY <2>3
        <4>3. Sources[x.seq.matched].mode = "hold" /\ ~x.seq.broken
          BY <1>10, <3>2
        <4>. HIDE DEF c, source, route
        <4>4. QED
          BY <1>0, <4>1, <4>2, <4>3, BegunRemaps
      <3>3. QED
        BY <3>1, <3>2
    <2>5. QED
      BY <1>7, <2>2, <2>4 DEF Matching
  <1>11. CASE source.mode = "tap"
    <2>. DEFINE first == KeyOutput(TapDevice, source.target, 1)
                second == KeyOutput(TapDevice, source.target, 0)
                u == QueueOutput(z, first)
                j == u.journal \o [k \in DOMAIN <<second>> |-> OutputFrame(<<second>>[k])]
                v == [u EXCEPT !.journal = j]
    <2>1. y = v
      BY <1>4, <1>11 DEF QueueOutput, QueueOutputs
    <2>2. /\ u.physical = z.physical /\ u.route = z.route /\ u.reuse = z.reuse
          /\ u.carry = z.carry /\ u.active = z.active /\ u.mode = z.mode
          /\ u = [z EXCEPT !.journal = u.journal]
      BY <1>7, QueueRetains DEF QueueOutput, SameMatching
    <2>. HIDE DEF u, j
    <2>3. /\ v.physical = z.physical /\ v.route = z.route /\ v.reuse = z.reuse
          /\ v.carry = z.carry /\ v.active = z.active /\ v.mode = z.mode
      BY <1>7, <2>2 DEF Engines
    <2>. HIDE DEF v
    <2>4. Remaps(y)
      BY <1>7, <2>1, <2>3, ConsumedRemaps
    <2>5. QED
      BY <1>7, <2>1, <2>3, <2>4 DEF Matching
  <1>12. QED
    BY <1>1, <1>9, <1>10, <1>11

LEMMA CompleteFrameConsistent ==
    ASSUME NEW x, Sound(x), Consistent(x), NEW owner, \A b \in ToSet(x.active) : b.owner # owner
    PROVE  Consistent(CompleteFrame(x, owner))
  <1>1. CASE ~Finished(x)
    BY <1>1 DEF CompleteFrame
  <1>2. CASE Finished(x)
    <2>1. Matching(x) /\ x.seq.matched # 0
      BY <1>2 DEF Finished
    <2>2. CASE x.mode = "binding"
      BY <1>2, <2>1, <2>2, CompleteBindingConsistent DEF CompleteFrame
    <2>3. CASE x.mode # "binding"
      <3>1. x.mode \in {"reserved", "prefix"}
        BY <2>1, <2>3 DEF Matching
      <3>2. QED
        BY <1>2, <2>1, <2>3, <3>1, CompleteSourceConsistent DEF CompleteFrame
    <2>4. QED
      BY <2>2, <2>3
  <1>3. QED
    BY <1>1, <1>2

LEMMA ForwardFreshRetains ==
    ASSUME NEW x \in Engines, NEW fresh
    PROVE  LET y == ForwardFresh(x, fresh) IN Retains(x, y) /\ SameMatching(x, y)
  <1>. DEFINE r == [p \in Press |->
                      IF p \in fresh \ x.seq.owned /\ x.route[p] = "undecided"
                        THEN "forwarded" ELSE x.route[p]]
              y == ForwardFresh(x, fresh)
  <1>1. y = [x EXCEPT !.route = r]
    BY DEF ForwardFresh
  <1>. HIDE DEF r, y
  <1>2. QED
    BY <1>1 DEF Engines, Retains, Fewer, SameMatching, y

LEMMA DropChatterRetains ==
    ASSUME NEW x \in Engines, NEW meaningful
    PROVE  LET y == DropChatter(x, meaningful) IN Retains(x, y) /\ SameMatching(x, y)
  <1>. DEFINE j == Front(x.journal)
              y == DropChatter(x, meaningful)
  <1>1. y = [x EXCEPT !.journal = j] \/ y = x
    BY DEF DropChatter
  <1>. HIDE DEF j, y
  <1>2. QED
    BY <1>1 DEF Engines, Retains, Fewer, SameMatching, y

LEMMA DrainConsistent ==
    ASSUME NEW x, Sound(x), Consistent(x)
    PROVE  Consistent(Drain(x))
  <1>1. x \in Engines /\ Evolves(x, Drain(x), {}) /\ SameMatching(x, Drain(x))
    BY DrainKeeps, DrainFields DEF Sound
  <1>2. QED
    BY <1>1, DrainRetains, ConsistentKeeps

=============================================================================
