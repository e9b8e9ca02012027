---------------------------- MODULE DaemonProofs ----------------------------
(***************************************************************************)
(* Proofs about the manager and the main loop, for any paths, descriptors, *)
(* devices, capacity, number of retries and number of failures: that no    *)
(* descriptor is lost or held twice, that the main loop is told what is    *)
(* grabbed, that keyboards show the lock state, and that cleanup is in     *)
(* order.                                                                  *)
(*                                                                         *)
(* DescriptorsOwned is not inductive: that the map entry which a step      *)
(* overwrites holds no descriptor depends on where the goroutine stands.   *)
(* The paths it has yet to visit are untracked while nodes are enumerated, *)
(* are candidates while these are checked, and have a retry while these    *)
(* are processed; the path of a call in progress is untracked until it is  *)
(* a candidate.  Once shutdown has begun a keyboard may be closed and stay *)
(* in byPath; what remains true is that all that is open is tracked, and   *)
(* this is what the cleanup relies on.                                     *)
(*                                                                         *)
(* What is announced and what is lit follow from it: most steps shed       *)
(* descriptors at most (Sheds), and until shutdown one that takes a        *)
(* keyboard away sends its message in the same step (Loses).               *)
(***************************************************************************)
EXTENDS Daemon, TLAPS

Attempt == [generation : Generation, attempts : 0 .. MaxTries, scheduled : BOOLEAN]

State ==
    [byPath : [Path -> Device], candidates : [Path -> Device],
     retries : [Path -> Attempt], latestSequence : [Path -> Nat],
     file : [Fd -> Incarnation \cup {0}], grabs : SUBSET Fd,
     locks : {"unknown", "on", "off"}]

Event ==
    [action : {"add", "remove"}, path : Path,
     devPath : {DevPathOf[i] : i \in Incarnation}, seqNum : Nat]

Message == [kind : {"resync", "removed", "err"}, path : Path]

Calls == {"open", "identify", "floor", "validate", "probe"}

KernelTypes ==
    /\ node \in [Path -> Incarnation \cup {0}] /\ plugs \in 0 .. MaxPlugs
    /\ seqnum \in Nat /\ udevd \in Seq(Event) /\ monitor \in Seq(Event)

Operation ==
    [step : Calls \cup {"none", "acquire"}, path : Path, generation : Generation,
     fd : Fd \cup {0}, startup : BOOLEAN]

OpTypes == op \in Operation

LoopTypes ==
    /\ phase \in {"starting", "enumerate", "check", "retry", "dispatch", "fatal", "close",
                  "closed"}
    /\ todo \subseteq Path /\ batch \in Seq(Event)
    /\ feedback \in Seq({"on", "off"})

ChannelTypes ==
    /\ messages \in Seq(Message) /\ Len(messages) <= MaxMessages
    /\ cancelled \in BOOLEAN
    /\ wake \in {"none", "armed", "running", "written", "stopped"}
    /\ main \in {"running", "returning", "ended"} /\ known \subseteq Path
    /\ virtual \in BOOLEAN

-----------------------------------------------------------------------------
(* Of a state: an entry has a descriptor, and an empty one has none.       *)
Entry(entry) == IF Exists(entry) THEN entry.fd # 0 ELSE entry.fd = 0

Entries(s) ==
    \A p \in Path :
        /\ Entry(s.byPath[p]) /\ Entry(s.candidates[p])
        /\ s.byPath[p].fd = 0 \/ s.candidates[p].fd = 0

(* Whatever is open is tracked, or is among X.                             *)
Covered(s, X) ==
    /\ \A f \in Fd : s.file[f] # 0 =>
          f \in X \/ \E p \in Path : f \in {s.byPath[p].fd, s.candidates[p].fd}
    /\ \A f \in s.grabs : s.file[f] # 0

(* Whatever is tracked, or among X, is open and held once.                 *)
Exact(s, X) ==
    /\ \A f \in X : s.file[f] # 0 /\ f \notin s.grabs
    /\ \A p \in Path : s.byPath[p].fd # 0 =>
          /\ s.file[s.byPath[p].fd] # 0 /\ s.byPath[p].fd \in s.grabs
          /\ \A q \in Path : s.byPath[q].fd = s.byPath[p].fd => q = p
    /\ \A p \in Path : s.candidates[p].fd # 0 =>
          /\ s.file[s.candidates[p].fd] # 0 /\ s.candidates[p].fd \notin s.grabs \cup X
          /\ \A q \in Path : s.candidates[q].fd = s.candidates[p].fd => q = p
    /\ \A f \in s.grabs : \E p \in Path : s.byPath[p].fd = f

(* X are the descriptors of the call in progress; c is that shutdown began. *)
Kept(s, X, c) == Entries(s) /\ Covered(s, X) /\ (~c => Exact(s, X))

Untracked(s, p) == s.byPath[p].fd = 0 /\ s.candidates[p].fd = 0

Tried(s) == \A p \in Path : s.retries[p].scheduled => Exists(s.retries[p])

(* Where the goroutine stands.                                             *)
OpStands ==
    /\ op.step \in Calls => Untracked(m, op.path)
    /\ op.step = "acquire" => m.candidates[op.path].fd = op.fd /\ op.fd # 0
    /\ op.step = "open" => op.fd = 0
    /\ op.step \in {"validate", "probe"} \/ (op.step = "identify" /\ ~op.startup) => op.fd # 0
    /\ op.step = "floor" => op.generation.devPath # 0
    /\ op.step # "none" /\ ~(op.startup /\ op.step \in {"open", "identify"})
          => op.generation # NoGeneration
    /\ op.step # "none" => op.path \notin todo /\ phase \notin {"starting", "fatal", "close", "closed"}

TodoStands ==
    /\ phase = "starting" => \A p \in Path : Untracked(m, p)
    /\ phase = "enumerate" => \A p \in todo : Untracked(m, p)
    /\ phase = "check" => \A p \in todo : m.candidates[p].fd # 0
    /\ phase = "retry" => \A p \in todo : Exists(m.retries[p])
    /\ phase = "dispatch" => todo = {}

EndStands ==
    /\ phase = "closed" =>
          /\ m.grabs = {} /\ \A f \in Fd : m.file[f] = 0
          /\ wake \notin {"armed", "running"}
    /\ ~virtual => phase = "closed"

DaemonInv ==
    /\ m \in State /\ KernelTypes /\ OpTypes /\ LoopTypes /\ ChannelTypes
    /\ Kept(m, BeingOpened, cancelled)
    /\ Tried(m)
    /\ OpStands
    /\ TodoStands
    /\ EndStands

-----------------------------------------------------------------------------
(* What the methods of managerState do to a state                          *)

(* Descriptors, grabs and maps of two states are the same.                 *)
SameMaps(s, t) ==
    /\ t \in State /\ t.byPath = s.byPath /\ t.candidates = s.candidates
    /\ t.file = s.file /\ t.grabs = s.grabs /\ t.locks = s.locks

(* They differ in the entries of one path only.                            *)
OnlyAt(s, t, p) ==
    \A q \in Path \ {p} : /\ t.byPath[q] = s.byPath[q]
                           /\ t.candidates[q] = s.candidates[q]
                           /\ t.retries[q] = s.retries[q]

(* Generations that are there.                                             *)
Known == Generation \ {NoGeneration}

LEMMA Nothing ==
    NoGeneration \in Generation /\ NoDevice \in Device /\ NoRetry \in Attempt
  BY ManagerAssumption DEF NoGeneration, NoDevice, NoRetry, Generation, Device, Attempt

(* Of a state: types pointwise.                                            *)
LEMMA Typed ==
    ASSUME NEW s \in State
    PROVE  /\ \A p \in Path :
                 /\ s.byPath[p] \in Device /\ s.byPath[p].fd \in Fd \cup {0}
                 /\ s.byPath[p].generation \in Generation
                 /\ s.candidates[p] \in Device /\ s.candidates[p].fd \in Fd \cup {0}
                 /\ s.candidates[p].generation \in Generation
                 /\ s.retries[p] \in Attempt /\ s.retries[p].generation \in Generation
           /\ s.grabs \subseteq Fd /\ 0 \notin Fd
  BY ManagerAssumption DEF State, Device, Attempt

LEMMA Retried ==
    ASSUME NEW s \in State, NEW p \in Path, NEW g \in Known
    PROVE  RetryOf(s, p, g) \in Attempt /\ RetryOf(s, p, g).generation = g
<1>1. s.retries[p] \in Attempt
  BY DEF State
<1>2. g \in Generation
  BY DEF Known
<1>3. /\ [NoRetry EXCEPT !.generation = g] \in Attempt
      /\ [NoRetry EXCEPT !.generation = g].generation = g
  BY <1>2, Nothing DEF Attempt
<1> QED
  BY <1>1, <1>3 DEF RetryOf

LEMMA Marked ==
    ASSUME NEW r \in Attempt, NEW b \in BOOLEAN
    PROVE  LET a == [r EXCEPT !.scheduled = b]
           IN a \in Attempt /\ a.generation = r.generation
  BY DEF Attempt

(* scheduleRetry only changes the retry of its path, and that is tracked.  *)
LEMMA Schedules ==
    ASSUME NEW s \in State, NEW p \in Path, NEW g \in Known
    PROVE  LET t == ScheduleRetry(s, p, g)
           IN SameMaps(s, t) /\ OnlyAt(s, t, p) /\ (Tried(s) => Tried(t))
<1> DEFINE r == RetryOf(s, p, g)
           a == [r EXCEPT !.scheduled = r.attempts < MaxTries]
           t == [s EXCEPT !.retries[p] = a]
<1>1. r \in Attempt /\ r.generation = g
  BY Retried
<1> HIDE DEF r
<1>a. (r.attempts < MaxTries) \in BOOLEAN
  OBVIOUS
<1>2. a \in Attempt /\ a.generation = g
  BY <1>1, <1>a, Marked
<1>3. t \in State /\ t.retries = [s.retries EXCEPT ![p] = a]
  BY <1>2 DEF State
<1>4. SameMaps(s, t) /\ OnlyAt(s, t, p)
  BY <1>3 DEF SameMaps, OnlyAt, State
<1>5. Tried(s) => Tried(t)
  BY <1>2, <1>3 DEF Tried, Exists, Known, State
<1>6. t = ScheduleRetry(s, p, g)
  BY DEF ScheduleRetry, r
<1> QED
  BY <1>4, <1>5, <1>6

(* beginRetry, when it may.                                                *)
LEMMA Begins ==
    ASSUME NEW s \in State, NEW p \in Path, NEW g \in Known, MayBegin(s, p, g)
    PROVE  LET t == BeginRetry(s, p, g)
           IN SameMaps(s, t) /\ OnlyAt(s, t, p) /\ (Tried(s) => Tried(t))
<1> DEFINE r == RetryOf(s, p, g)
           a == [r EXCEPT !.attempts = @ + 1, !.scheduled = FALSE]
           t == [s EXCEPT !.retries[p] = a]
<1>1. r \in Attempt /\ r.generation = g /\ r.attempts < MaxTries
  BY Retried DEF MayBegin
<1> HIDE DEF r
<1>a. r.attempts + 1 \in 0 .. MaxTries
  BY <1>1, ManagerAssumption DEF Attempt
<1>2. a \in Attempt /\ a.scheduled = FALSE
  BY <1>1, <1>a DEF Attempt
<1>3. t \in State /\ t.retries = [s.retries EXCEPT ![p] = a]
  BY <1>2 DEF State
<1>4. SameMaps(s, t) /\ OnlyAt(s, t, p) /\ (Tried(s) => Tried(t))
  BY <1>2, <1>3 DEF SameMaps, OnlyAt, Tried, State
<1>5. SameMaps(s, s) /\ OnlyAt(s, s, p)
  BY DEF SameMaps, OnlyAt
<1>6. BeginRetry(s, p, g) = IF ~Exists(s.retries[p]) THEN s ELSE t
  BY DEF BeginRetry, r
<1> QED
  BY <1>4, <1>5, <1>6

LEMMA Forgets ==
    ASSUME NEW s \in State, NEW p \in Path
    PROVE  LET t == ForgetRetry(s, p)
           IN SameMaps(s, t) /\ OnlyAt(s, t, p) /\ (Tried(s) => Tried(t))
<1> DEFINE t == [s EXCEPT !.retries[p] = NoRetry]
<1>1. t \in State /\ t.retries = [s.retries EXCEPT ![p] = NoRetry]
  BY Nothing DEF State
<1>2. SameMaps(s, t) /\ OnlyAt(s, t, p) /\ (Tried(s) => Tried(t))
  BY <1>1 DEF SameMaps, OnlyAt, Tried, State, NoRetry
<1> QED
  BY <1>2 DEF ForgetRetry

(* What a state keeps does not depend on its retries, nor on generations.  *)
LEMMA SameKept ==
    ASSUME NEW s \in State, NEW t \in State, t.file = s.file, t.grabs = s.grabs,
           \A p \in Path : /\ t.byPath[p].fd = s.byPath[p].fd
                           /\ Exists(t.byPath[p]) <=> Exists(s.byPath[p])
                           /\ t.candidates[p].fd = s.candidates[p].fd
                           /\ Exists(t.candidates[p]) <=> Exists(s.candidates[p]),
           NEW X, NEW c, Kept(s, X, c)
    PROVE  Kept(t, X, c)
<1>1. Entries(t)
  BY DEF Kept, Entries, Entry
<1>2. Covered(t, X)
  BY DEF Kept, Covered
<1>3. ~c => Exact(t, X)
  BY DEF Kept, Exact
<1> QED
  BY <1>1, <1>2, <1>3 DEF Kept

LEMMA SameMapsKept ==
    ASSUME NEW s \in State, NEW t, SameMaps(s, t), NEW X, NEW c, Kept(s, X, c)
    PROVE  t \in State /\ Kept(t, X, c)
  BY SameKept DEF SameMaps

LEMMA Closes ==
    ASSUME NEW s \in State, NEW S
    PROVE  LET t == CloseFds(s, S)
           IN /\ t \in State /\ t.byPath = s.byPath /\ t.candidates = s.candidates
              /\ t.retries = s.retries /\ t.locks = s.locks
              /\ \A f \in Fd : t.file[f] = IF f \in S THEN 0 ELSE s.file[f]
              /\ t.grabs = s.grabs \ S
<1> DEFINE file == [f \in Fd |-> IF f \in S THEN 0 ELSE s.file[f]]
<1>1. file \in [Fd -> Incarnation \cup {0}]
  BY DEF State
<1> QED
  BY <1>1 DEF CloseFds, State

(* Another entry of a map.                                                 *)
LEMMA EntersActive ==
    ASSUME NEW s \in State, NEW p \in Path, NEW d \in Device
    PROVE  LET t == [s EXCEPT !.byPath[p] = d]
           IN /\ t \in State
              /\ \A q \in Path : t.byPath[q] = IF q = p THEN d ELSE s.byPath[q]
              /\ t.candidates = s.candidates /\ t.retries = s.retries
              /\ t.file = s.file /\ t.grabs = s.grabs /\ t.locks = s.locks
  BY DEF State

LEMMA EntersCandidate ==
    ASSUME NEW s \in State, NEW p \in Path, NEW d \in Device
    PROVE  LET t == [s EXCEPT !.candidates[p] = d]
           IN /\ t \in State
              /\ \A q \in Path : t.candidates[q] = IF q = p THEN d ELSE s.candidates[q]
              /\ t.byPath = s.byPath /\ t.retries = s.retries
              /\ t.file = s.file /\ t.grabs = s.grabs /\ t.locks = s.locks
  BY DEF State

LEMMA NoEntry == Entry(NoDevice) /\ NoDevice.fd = 0 /\ ~Exists(NoDevice)
  BY DEF Entry, Exists, NoDevice

(* Closing the descriptor of the call in progress.                         *)
LEMMA CloseKept ==
    ASSUME NEW s \in State, NEW fd \in Fd \cup {0}, NEW c, Kept(s, {fd} \ {0}, c)
    PROVE  LET t == CloseFd(s, fd)
           IN /\ t \in State /\ Kept(t, {}, c)
              /\ t.retries = s.retries /\ t.byPath = s.byPath /\ t.candidates = s.candidates
<1> DEFINE t == CloseFds(s, {fd})
<1>1. /\ t \in State /\ t.byPath = s.byPath /\ t.candidates = s.candidates
      /\ t.retries = s.retries
      /\ \A f \in Fd : t.file[f] = IF f = fd THEN 0 ELSE s.file[f]
      /\ t.grabs = s.grabs \ {fd}
  BY Closes
<1> HIDE DEF t
<1>2. Entries(t)
  BY <1>1 DEF Kept, Entries
<1>3. Covered(t, {})
  BY <1>1, Typed DEF Kept, Covered
<1>4. ASSUME ~c PROVE Exact(t, {})
  <2>0. Exact(s, {fd} \ {0})
    BY <1>4 DEF Kept
  <2>1. /\ fd \notin s.grabs
        /\ \A p \in Path : s.candidates[p].fd # 0 => s.candidates[p].fd # fd
    BY <2>0, Typed DEF Exact
  <2>2. \A p \in Path : s.byPath[p].fd # 0 => s.byPath[p].fd # fd
    BY <2>0, <2>1 DEF Exact
  <2>3. \A p \in Path : s.byPath[p].fd # 0 =>
          t.file[s.byPath[p].fd] # 0 /\ s.byPath[p].fd \in t.grabs
    BY <1>1, <2>0, <2>2, Typed DEF Exact
  <2>4. \A p \in Path : s.candidates[p].fd # 0 =>
          t.file[s.candidates[p].fd] # 0 /\ s.candidates[p].fd \notin t.grabs
    BY <1>1, <2>0, <2>1, Typed DEF Exact
  <2>5. \A f \in t.grabs : \E p \in Path : s.byPath[p].fd = f
    BY <1>1, <2>0 DEF Exact
  <2> QED
    BY <1>1, <2>0, <2>3, <2>4, <2>5 DEF Exact
<1>5. Kept(t, {}, c)
  BY <1>2, <1>3, <1>4 DEF Kept
<1> QED
  BY <1>1, <1>5 DEF CloseFd, t

(* removeActive.                                                           *)
LEMMA RemovesActive ==
    ASSUME NEW s \in State, NEW p \in Path, NEW c, Kept(s, {}, c), s.byPath[p].fd # 0
    PROVE  LET t == RemoveActive(s, p)
           IN /\ t \in State /\ Kept(t, {}, c) /\ t.retries = s.retries
              /\ t.byPath[p] = NoDevice /\ t.candidates = s.candidates
              /\ \A q \in Path \ {p} : t.byPath[q] = s.byPath[q]
<1> DEFINE d == s.byPath[p].fd
           r == CloseFds(s, {d})
           t == [r EXCEPT !.byPath[p] = NoDevice]
<1>1. /\ r \in State /\ r.byPath = s.byPath /\ r.candidates = s.candidates
      /\ r.retries = s.retries
      /\ \A f \in Fd : r.file[f] = IF f = d THEN 0 ELSE s.file[f]
      /\ r.grabs = s.grabs \ {d}
  BY Closes
<1> HIDE DEF r
<1>a. /\ t \in State /\ t.candidates = r.candidates /\ t.retries = r.retries
      /\ \A q \in Path : t.byPath[q] = IF q = p THEN NoDevice ELSE r.byPath[q]
      /\ t.file = r.file /\ t.grabs = r.grabs
  BY <1>1, EntersActive, Nothing
<1>2. /\ t \in State /\ t.candidates = s.candidates /\ t.retries = s.retries
      /\ \A q \in Path : t.byPath[q] = IF q = p THEN NoDevice ELSE s.byPath[q]
      /\ \A f \in Fd : t.file[f] = IF f = d THEN 0 ELSE s.file[f]
      /\ t.grabs = s.grabs \ {d}
  BY <1>1, <1>a
<1> HIDE DEF t
<1>3. Entries(t)
  BY <1>2, NoEntry DEF Kept, Entries
<1>4. Covered(t, {})
  <2>1. Covered(s, {})
    BY DEF Kept
  <2>2. ASSUME NEW f \in Fd, t.file[f] # 0
        PROVE  \E q \in Path : f \in {t.byPath[q].fd, t.candidates[q].fd}
    <3>1. f # d /\ s.file[f] # 0
      BY <1>2, <2>2
    <3>2. PICK q \in Path : f \in {s.byPath[q].fd, s.candidates[q].fd}
      BY <2>1, <3>1 DEF Covered
    <3> QED
      BY <1>2, <3>1, <3>2
  <2>3. \A f \in t.grabs : t.file[f] # 0
    BY <1>2, <2>1, Typed DEF Covered
  <2> QED
    BY <2>2, <2>3 DEF Covered
<1>5. ASSUME ~c PROVE Exact(t, {})
  <2>0. Exact(s, {})
    BY <1>5 DEF Kept
  <2>1. \A q \in Path \ {p} : s.byPath[q].fd # d
    BY <2>0 DEF Exact
  <2>2. \A q \in Path : s.candidates[q].fd # 0 => s.candidates[q].fd # d
    BY <2>0 DEF Exact
  <2>3. \A q \in Path : t.byPath[q].fd # 0 =>
          /\ q # p /\ t.byPath[q].fd = s.byPath[q].fd
          /\ t.file[t.byPath[q].fd] # 0 /\ t.byPath[q].fd \in t.grabs
    BY <1>2, <2>0, <2>1, NoEntry, Typed DEF Exact
  <2>4. \A q \in Path : t.byPath[q].fd # 0 =>
          \A o \in Path : t.byPath[o].fd = t.byPath[q].fd => o = q
    BY <2>0, <2>3 DEF Exact
  <2>5. \A q \in Path : t.candidates[q].fd # 0 =>
          /\ t.file[t.candidates[q].fd] # 0 /\ t.candidates[q].fd \notin t.grabs
          /\ \A o \in Path : t.candidates[o].fd = t.candidates[q].fd => o = q
    BY <1>2, <2>0, <2>2, Typed DEF Exact
  <2>6. \A f \in t.grabs : \E q \in Path : t.byPath[q].fd = f
    BY <1>2, <2>0 DEF Exact
  <2> QED
    BY <2>3, <2>4, <2>5, <2>6 DEF Exact
<1>6. Kept(t, {}, c)
  BY <1>3, <1>4, <1>5 DEF Kept
<1> QED
  BY <1>2, <1>6 DEF RemoveActive, CloseFd, t, r
(* removeCandidate.  Once shutdown has begun, the descriptor may have gone *)
(* from the candidate to byPath (see Acquire).                             *)
LEMMA RemovesCandidate ==
    ASSUME NEW s \in State, NEW p \in Path, NEW c, Kept(s, {}, c), NEW fd \in Fd,
           s.candidates[p].fd = fd \/ (c /\ s.candidates[p].fd = 0)
    PROVE  LET t == RemoveCandidate(s, p, fd)
           IN /\ t \in State /\ Kept(t, {}, c) /\ t.retries = s.retries
              /\ t.candidates[p] = NoDevice /\ t.byPath = s.byPath
              /\ \A q \in Path \ {p} : t.candidates[q] = s.candidates[q]
<1> DEFINE r == CloseFds(s, {fd})
           t == [r EXCEPT !.candidates[p] = NoDevice]
<1>1. /\ r \in State /\ r.byPath = s.byPath /\ r.candidates = s.candidates
      /\ r.retries = s.retries
      /\ \A f \in Fd : r.file[f] = IF f = fd THEN 0 ELSE s.file[f]
      /\ r.grabs = s.grabs \ {fd}
  BY Closes
<1> HIDE DEF r
<1>a. /\ t \in State /\ t.byPath = r.byPath /\ t.retries = r.retries
      /\ \A q \in Path : t.candidates[q] = IF q = p THEN NoDevice ELSE r.candidates[q]
      /\ t.file = r.file /\ t.grabs = r.grabs
  BY <1>1, EntersCandidate, Nothing
<1>2. /\ t \in State /\ t.byPath = s.byPath /\ t.retries = s.retries
      /\ \A q \in Path : t.candidates[q] = IF q = p THEN NoDevice ELSE s.candidates[q]
      /\ \A f \in Fd : t.file[f] = IF f = fd THEN 0 ELSE s.file[f]
      /\ t.grabs = s.grabs \ {fd}
  BY <1>1, <1>a
<1> HIDE DEF t
<1>3. Entries(t)
  BY <1>2, NoEntry DEF Kept, Entries
<1>4. Covered(t, {})
  <2>1. Covered(s, {})
    BY DEF Kept
  <2>2. ASSUME NEW f \in Fd, t.file[f] # 0
        PROVE  \E q \in Path : f \in {t.byPath[q].fd, t.candidates[q].fd}
    <3>1. f # fd /\ s.file[f] # 0 /\ f # 0
      BY <1>2, <2>2, Typed
    <3>2. PICK q \in Path : f \in {s.byPath[q].fd, s.candidates[q].fd}
      BY <2>1, <3>1 DEF Covered
    <3> QED
      BY <1>2, <3>1, <3>2
  <2>3. \A f \in t.grabs : t.file[f] # 0
    BY <1>2, <2>1, Typed DEF Covered
  <2> QED
    BY <2>2, <2>3 DEF Covered
<1>5. ASSUME ~c PROVE Exact(t, {})
  <2>0. Exact(s, {}) /\ s.candidates[p].fd = fd /\ fd # 0
    BY <1>5, Typed DEF Kept
  <2>1. /\ fd \notin s.grabs
        /\ \A q \in Path \ {p} : s.candidates[q].fd # fd
    BY <2>0 DEF Exact
  <2>2. \A q \in Path : s.byPath[q].fd # 0 => s.byPath[q].fd # fd
    BY <2>0, <2>1 DEF Exact
  <2>3. \A q \in Path : s.byPath[q].fd # 0 =>
          t.file[s.byPath[q].fd] # 0 /\ s.byPath[q].fd \in t.grabs
    BY <1>2, <2>0, <2>2, Typed DEF Exact
  <2>4. \A q \in Path : t.candidates[q].fd # 0 =>
          /\ q # p /\ t.candidates[q].fd = s.candidates[q].fd
          /\ t.file[t.candidates[q].fd] # 0 /\ t.candidates[q].fd \notin t.grabs
    BY <1>2, <2>0, <2>1, NoEntry, Typed DEF Exact
  <2>5. \A q \in Path : t.candidates[q].fd # 0 =>
          \A o \in Path : t.candidates[o].fd = t.candidates[q].fd => o = q
    BY <2>0, <2>4 DEF Exact
  <2>6. \A f \in t.grabs : \E q \in Path : s.byPath[q].fd = f
    BY <1>2, <2>0 DEF Exact
  <2> QED
    BY <1>2, <2>0, <2>3, <2>4, <2>5, <2>6 DEF Exact
<1>6. Kept(t, {}, c)
  BY <1>3, <1>4, <1>5 DEF Kept
<1> QED
  BY <1>2, <1>6 DEF RemoveCandidate, CloseFd, t, r

(* The grab, and the way from candidates to byPath.                        *)
LEMMA Activates ==
    ASSUME NEW s \in State, NEW p \in Path, NEW c, Kept(s, {}, c),
           s.candidates[p].fd # 0, s.file[s.candidates[p].fd] # 0
    PROVE  LET t == Activated(s, p)
           IN /\ t \in State /\ Kept(t, {}, c) /\ (Tried(s) => Tried(t))
              /\ t.candidates[p] = NoDevice /\ t.byPath[p] = s.candidates[p]
              /\ OnlyAt(s, t, p)
<1> DEFINE d == s.candidates[p]
           r == ForgetRetry(s, p)
           t == [r EXCEPT !.candidates[p] = NoDevice, !.byPath[p] = d,
                          !.grabs = @ \cup {d.fd}]
<1>0. d \in Device /\ d.fd \in Fd /\ d.fd # 0 /\ s.byPath[p].fd = 0
  BY Typed DEF Kept, Entries
<1>1. SameMaps(s, r) /\ OnlyAt(s, r, p) /\ (Tried(s) => Tried(r))
  BY Forgets
<1> HIDE DEF r
<1>a. /\ t \in State /\ t.file = r.file /\ t.retries = r.retries
      /\ \A q \in Path : t.candidates[q] = IF q = p THEN NoDevice ELSE r.candidates[q]
      /\ \A q \in Path : t.byPath[q] = IF q = p THEN d ELSE r.byPath[q]
      /\ t.grabs = r.grabs \cup {d.fd}
  BY <1>0, <1>1, Nothing DEF SameMaps, State
<1>2. /\ t \in State /\ t.file = s.file /\ t.retries = r.retries
      /\ \A q \in Path : t.candidates[q] = IF q = p THEN NoDevice ELSE s.candidates[q]
      /\ \A q \in Path : t.byPath[q] = IF q = p THEN d ELSE s.byPath[q]
      /\ t.grabs = s.grabs \cup {d.fd}
  BY <1>1, <1>a DEF SameMaps
<1> HIDE DEF t
<1>3. Entries(t)
  BY <1>0, <1>2, NoEntry DEF Kept, Entries
<1>4. Covered(t, {})
  <2>1. Covered(s, {})
    BY DEF Kept
  <2>2. ASSUME NEW f \in Fd, t.file[f] # 0
        PROVE  \E q \in Path : f \in {t.byPath[q].fd, t.candidates[q].fd}
    <3>1. s.file[f] # 0 /\ f # 0
      BY <1>2, <2>2, Typed
    <3>2. PICK q \in Path : f \in {s.byPath[q].fd, s.candidates[q].fd}
      BY <2>1, <3>1 DEF Covered
    <3> QED
      BY <1>0, <1>2, <3>1, <3>2
  <2>3. \A f \in t.grabs : t.file[f] # 0
    BY <1>2, <2>1 DEF Covered
  <2> QED
    BY <2>2, <2>3 DEF Covered
<1>5. ASSUME ~c PROVE Exact(t, {})
  <2>0. Exact(s, {})
    BY <1>5 DEF Kept
  <2>1. d.fd \notin s.grabs /\ \A q \in Path \ {p} : s.candidates[q].fd # d.fd
    BY <2>0, <1>0 DEF Exact
  <2>2. \A q \in Path : s.byPath[q].fd # d.fd
    BY <1>0, <2>0, <2>1 DEF Exact
  <2>3. \A q \in Path : t.byPath[q].fd # 0 =>
          t.file[t.byPath[q].fd] # 0 /\ t.byPath[q].fd \in t.grabs
    BY <1>2, <2>0 DEF Exact
  <2>4. \A q \in Path : t.byPath[q].fd # 0 =>
          \A o \in Path : t.byPath[o].fd = t.byPath[q].fd => o = q
    BY <1>2, <2>0, <2>2 DEF Exact
  <2>5. \A q \in Path : t.candidates[q].fd # 0 =>
          /\ q # p /\ t.candidates[q].fd = s.candidates[q].fd
          /\ t.file[t.candidates[q].fd] # 0 /\ t.candidates[q].fd \notin t.grabs
    BY <1>2, <2>0, <2>1, NoEntry DEF Exact
  <2>6. \A q \in Path : t.candidates[q].fd # 0 =>
          \A o \in Path : t.candidates[o].fd = t.candidates[q].fd => o = q
    BY <2>0, <2>5 DEF Exact
  <2>7. ASSUME NEW f \in t.grabs PROVE \E q \in Path : t.byPath[q].fd = f
    <3>1. CASE f = d.fd
      BY <1>2, <3>1
    <3>2. CASE f # d.fd
      <4>1. PICK q \in Path : s.byPath[q].fd = f
        BY <1>2, <2>0, <2>7, <3>2 DEF Exact
      <4>2. f # 0
        BY <1>2, <2>7, <3>2, Typed
      <4> QED
        BY <1>0, <1>2, <4>1, <4>2
    <3> QED
      BY <3>1, <3>2
  <2> QED
    BY <2>3, <2>4, <2>5, <2>6, <2>7 DEF Exact
<1>6. Kept(t, {}, c)
  BY <1>3, <1>4, <1>5 DEF Kept
<1>7. Tried(r) => Tried(t)
  BY <1>2 DEF Tried
<1>8. t = Activated(s, p)
  BY DEF Activated, t, r
<1>9. OnlyAt(s, t, p)
  BY <1>1, <1>2 DEF OnlyAt
<1> QED
  BY <1>1, <1>2, <1>6, <1>7, <1>8, <1>9

(* open(2).                                                                *)
LEMMA OpensFd ==
    ASSUME NEW s \in State, NEW fd \in Fd, s.file[fd] = 0, NEW i \in Incarnation,
           NEW c, Kept(s, {}, c)
    PROVE  LET t == [s EXCEPT !.file[fd] = i]
           IN /\ t \in State /\ Kept(t, {fd}, c)
              /\ t.byPath = s.byPath /\ t.candidates = s.candidates
              /\ t.retries = s.retries
<1> DEFINE t == [s EXCEPT !.file[fd] = i]
<1>1. /\ t \in State /\ t.byPath = s.byPath /\ t.candidates = s.candidates
      /\ t.retries = s.retries /\ t.grabs = s.grabs
      /\ \A f \in Fd : t.file[f] = IF f = fd THEN i ELSE s.file[f]
  BY DEF State
<1>2. i # 0
  BY DEF Incarnation
<1> HIDE DEF t
<1>3. Entries(t)
  BY <1>1 DEF Kept, Entries
<1>4. Covered(t, {fd})
  BY <1>1, <1>2, Typed DEF Kept, Covered
<1>5. ASSUME ~c PROVE Exact(t, {fd})
  <2>0. Exact(s, {}) /\ Covered(s, {})
    BY <1>5 DEF Kept
  <2>1. t.file[fd] # 0 /\ fd \notin t.grabs
    BY <1>1, <1>2, <2>0 DEF Covered
  <2>2. \A p \in Path : s.byPath[p].fd # 0 => t.file[s.byPath[p].fd] # 0
    BY <1>1, <1>2, <2>0, Typed DEF Exact
  <2>3. \A p \in Path : s.candidates[p].fd # 0 =>
          t.file[s.candidates[p].fd] # 0 /\ s.candidates[p].fd # fd
    BY <1>1, <1>2, <2>0, Typed DEF Exact
  <2> QED
    BY <1>1, <2>0, <2>1, <2>2, <2>3 DEF Exact
<1>6. Kept(t, {fd}, c)
  BY <1>3, <1>4, <1>5 DEF Kept
<1> QED
  BY <1>1, <1>6 DEF t

(* The device being opened becomes a candidate.                            *)
LEMMA Probes ==
    ASSUME NEW s \in State, NEW p \in Path, NEW fd \in Fd, NEW g \in Known, NEW c,
           Kept(s, {fd}, c), Untracked(s, p)
    PROVE  LET t == [s EXCEPT !.candidates[p] = [generation |-> g, fd |-> fd]]
           IN /\ t \in State /\ Kept(t, {}, c) /\ t.retries = s.retries
              /\ t.byPath = s.byPath /\ t.candidates[p].fd = fd
              /\ \A q \in Path \ {p} : t.candidates[q] = s.candidates[q]
<1> DEFINE d == [generation |-> g, fd |-> fd]
           t == [s EXCEPT !.candidates[p] = d]
<1>1. d \in Device /\ d.fd = fd /\ Exists(d) /\ fd # 0
  BY Typed DEF Device, Known, Exists
<1> HIDE DEF d
<1>2. /\ t \in State
      /\ \A q \in Path : t.candidates[q] = IF q = p THEN d ELSE s.candidates[q]
      /\ t.byPath = s.byPath /\ t.retries = s.retries
      /\ t.file = s.file /\ t.grabs = s.grabs
  BY <1>1, EntersCandidate
<1> HIDE DEF t
<1>3. Entries(t)
  BY <1>1, <1>2 DEF Kept, Entries, Entry, Untracked
<1>4. Covered(t, {})
  <2>1. Covered(s, {fd})
    BY DEF Kept
  <2>2. ASSUME NEW f \in Fd, t.file[f] # 0
        PROVE  \E q \in Path : f \in {t.byPath[q].fd, t.candidates[q].fd}
    <3>1. CASE f = fd
      BY <1>1, <1>2, <3>1
    <3>2. CASE f # fd
      <4>1. PICK q \in Path : f \in {s.byPath[q].fd, s.candidates[q].fd}
        BY <1>2, <2>1, <2>2, <3>2 DEF Covered
      <4>2. q # p
        BY <4>1, Typed DEF Untracked
      <4> QED
        BY <1>2, <4>1, <4>2
    <3> QED
      BY <3>1, <3>2
  <2> QED
    BY <1>2, <2>1, <2>2 DEF Covered
<1>5. ASSUME ~c PROVE Exact(t, {})
  <2>0. Exact(s, {fd})
    BY <1>5 DEF Kept
  <2>1. s.file[fd] # 0 /\ fd \notin s.grabs
        /\ \A q \in Path : s.candidates[q].fd # fd
    BY <1>1, <2>0 DEF Exact
  <2>2. \A q \in Path : t.candidates[q].fd # 0 =>
          /\ t.file[t.candidates[q].fd] # 0 /\ t.candidates[q].fd \notin t.grabs
          /\ \A o \in Path : t.candidates[o].fd = t.candidates[q].fd => o = q
    BY <1>1, <1>2, <2>0, <2>1 DEF Exact
  <2> QED
    BY <1>2, <2>0, <2>2 DEF Exact
<1>6. Kept(t, {}, c)
  BY <1>3, <1>4, <1>5 DEF Kept
<1> QED
  BY <1>1, <1>2, <1>6 DEF t, d

(* An observed add gives a generation that is there.                       *)
LEMMA Observed ==
    /\ \A event \in Event : GenerationFromEvent(event) \in Known
    /\ \A g \in Generation, o \in Generation : AdoptObservedAdd(g, o) \in Known
<1>1. ASSUME NEW event \in Event PROVE GenerationFromEvent(event) \in Known
  BY DEF Event, GenerationFromEvent, Generation, Known, NoGeneration
<1>2. ASSUME NEW g \in Generation, NEW o \in Generation PROVE AdoptObservedAdd(g, o) \in Known
  BY DEF AdoptObservedAdd, Generation, Known, NoGeneration
<1> QED
  BY <1>1, <1>2

(* Another generation of what is tracked.                                  *)
LEMMA Renames ==
    ASSUME NEW s \in State, NEW p \in Path, NEW g \in Known, NEW X, NEW c
    PROVE  /\ LET t == [s EXCEPT !.byPath[p].generation = g]
              IN Exists(s.byPath[p]) /\ Kept(s, X, c)
                   => t \in State /\ Kept(t, X, c) /\ (Tried(s) => Tried(t))
           /\ LET t == [s EXCEPT !.candidates[p].generation = g]
              IN Exists(s.candidates[p]) /\ Kept(s, X, c)
                   => /\ t \in State /\ Kept(t, X, c) /\ (Tried(s) => Tried(t))
                      /\ t.retries = s.retries
           /\ LET t == [s EXCEPT !.retries[p].generation = g]
              IN /\ t \in State /\ t.byPath = s.byPath /\ t.candidates = s.candidates
                 /\ Kept(s, X, c) => Kept(t, X, c)
                 /\ Tried(s) => Tried(t)
<1>0. g \in Generation /\ g # NoGeneration
  BY DEF Known
<1>1. ASSUME Exists(s.byPath[p]), Kept(s, X, c)
      PROVE  LET t == [s EXCEPT !.byPath[p].generation = g]
             IN t \in State /\ Kept(t, X, c) /\ (Tried(s) => Tried(t))
  <2> DEFINE d == [s.byPath[p] EXCEPT !.generation = g]
             t == [s EXCEPT !.byPath[p] = d]
  <2>1. d \in Device /\ d.fd = s.byPath[p].fd /\ Exists(d)
    BY <1>0, Typed DEF Device, Exists
  <2> HIDE DEF d
  <2>2. /\ t \in State /\ \A q \in Path : t.byPath[q] = IF q = p THEN d ELSE s.byPath[q]
        /\ t.candidates = s.candidates /\ t.retries = s.retries
        /\ t.file = s.file /\ t.grabs = s.grabs
    BY <2>1, EntersActive
  <2> HIDE DEF t
  <2>3. Kept(t, X, c)
    BY <1>1, <2>1, <2>2, SameKept
  <2>4. t = [s EXCEPT !.byPath[p].generation = g]
    BY DEF t, d
  <2> QED
    BY <2>2, <2>3, <2>4 DEF Tried
<1>2. ASSUME Exists(s.candidates[p]), Kept(s, X, c)
      PROVE  LET t == [s EXCEPT !.candidates[p].generation = g]
             IN /\ t \in State /\ Kept(t, X, c) /\ (Tried(s) => Tried(t))
                /\ t.retries = s.retries
  <2> DEFINE d == [s.candidates[p] EXCEPT !.generation = g]
             t == [s EXCEPT !.candidates[p] = d]
  <2>1. d \in Device /\ d.fd = s.candidates[p].fd /\ Exists(d)
    BY <1>0, Typed DEF Device, Exists
  <2> HIDE DEF d
  <2>2. /\ t \in State /\ \A q \in Path : t.candidates[q] = IF q = p THEN d ELSE s.candidates[q]
        /\ t.byPath = s.byPath /\ t.retries = s.retries
        /\ t.file = s.file /\ t.grabs = s.grabs
    BY <2>1, EntersCandidate
  <2> HIDE DEF t
  <2>3. Kept(t, X, c)
    BY <1>2, <2>1, <2>2, SameKept
  <2>4. t = [s EXCEPT !.candidates[p].generation = g]
    BY DEF t, d
  <2> QED
    BY <2>2, <2>3, <2>4 DEF Tried
<1>3. LET t == [s EXCEPT !.retries[p].generation = g]
      IN /\ t \in State /\ t.byPath = s.byPath /\ t.candidates = s.candidates
         /\ Kept(s, X, c) => Kept(t, X, c)
         /\ Tried(s) => Tried(t)
  <2> DEFINE a == [s.retries[p] EXCEPT !.generation = g]
             t == [s EXCEPT !.retries[p] = a]
  <2>1. a \in Attempt /\ a.generation = g
    BY <1>0, Typed DEF Attempt
  <2> HIDE DEF a
  <2>2. /\ SameMaps(s, t)
        /\ \A q \in Path : t.retries[q] = IF q = p THEN a ELSE s.retries[q]
    BY <2>1 DEF SameMaps, State
  <2> HIDE DEF t
  <2>3. t = [s EXCEPT !.retries[p].generation = g]
    BY DEF t, a
  <2>4. Tried(s) => Tried(t)
    BY <1>0, <2>1, <2>2 DEF Tried, Exists
  <2> QED
    BY <2>2, <2>3, <2>4, SameMapsKept DEF SameMaps
<1> QED
  BY <1>1, <1>2, <1>3
-----------------------------------------------------------------------------
(* The steps of a call (module Acquisition)                                *)

LEMMA NoOpTyped ==
    /\ NoOp.step = "none" /\ NoOp.path \in Path /\ NoOp.generation = NoGeneration
    /\ NoOp.fd = 0 /\ NoOp.startup = FALSE
    /\ NoOp \in Operation
<1>1. (CHOOSE p \in Path : TRUE) \in Path
  BY DevPathAssumption
<1> QED
  BY <1>1, Nothing DEF NoOp, Operation

(* The state a call may end with.                                          *)
Safe(t) == t \in State /\ Kept(t, {}, cancelled) /\ Tried(t) /\ OnlyAt(m, t, op.path)

(* A call that fails before there is a candidate closes its descriptor.    *)
LEMMA ClosesSafe ==
    ASSUME DaemonInv, op.step \in Calls
    PROVE  /\ Safe(Closed) /\ Safe(Ignored)
           /\ op.generation # NoGeneration => Safe(ClosedForRetry)
<1>1. /\ m \in State /\ op.path \in Path /\ op.generation \in Generation
      /\ op.fd \in Fd \cup {0} /\ op.step # "none" /\ Tried(m)
  BY DEF DaemonInv, OpTypes, Operation, Calls
<1>2. Kept(m, {op.fd} \ {0}, cancelled)
  <2>1. op.step = "open" => op.fd = 0
    BY DEF DaemonInv, OpStands
  <2>2. BeingOpened = {op.fd} \ {0}
    BY <2>1 DEF BeingOpened, Calls
  <2> QED
    BY <2>2 DEF DaemonInv
<1>3. /\ Closed \in State /\ Kept(Closed, {}, cancelled)
      /\ Closed.retries = m.retries /\ Closed.byPath = m.byPath
      /\ Closed.candidates = m.candidates
  BY <1>1, <1>2, CloseKept DEF Closed
<1>4. Safe(Closed)
  BY <1>1, <1>3 DEF Safe, Tried, OnlyAt
<1>5. ASSUME NEW t, SameMaps(Closed, t), OnlyAt(Closed, t, op.path),
             Tried(Closed) => Tried(t)
      PROVE  Safe(t)
  BY <1>1, <1>3, <1>4, <1>5, SameMapsKept DEF Safe, OnlyAt
<1>6. Safe(ForgetRetry(Closed, op.path))
  BY <1>1, <1>3, <1>5, Forgets
<1>7. op.generation # NoGeneration => Safe(ClosedForRetry)
  BY <1>1, <1>3, <1>5, Schedules DEF ClosedForRetry, Known
<1> QED
  BY <1>4, <1>6, <1>7 DEF Ignored

(* The loops are not disturbed by what happens to a path they have visited. *)
LEMMA TodoKept ==
    ASSUME TodoStands, NEW p \in Path, OnlyAt(m, m', p), p \notin todo,
           phase # "starting", UNCHANGED <<phase, todo>>, todo \subseteq Path
    PROVE  TodoStands'
  BY DEF TodoStands, OnlyAt, Untracked

LEMMA EndsInv ==
    ASSUME DaemonInv, op.step # "none", Safe(m'), op' = NoOp,
           UNCHANGED <<kernelVars, cancelled, wake, feedback, main, known, virtual>>,
           messages' \in Seq(Message), Len(messages') <= MaxMessages,
           \/ UNCHANGED stepVars
           \/ phase' = "fatal" /\ todo' = {} /\ UNCHANGED batch
    PROVE  DaemonInv'
<1> USE DEF DaemonInv
<1>1. op'.step = "none" /\ OpTypes'
  BY NoOpTyped DEF OpTypes, Operation
<1>2. BeingOpened' = {}
  BY <1>1 DEF BeingOpened
<1>3. m' \in State /\ Kept(m', BeingOpened', cancelled') /\ Tried(m')
  BY <1>2 DEF Safe
<1>4. KernelTypes'
  BY DEF KernelTypes, kernelVars
<1>5. LoopTypes' /\ ChannelTypes'
  BY DEF LoopTypes, ChannelTypes, stepVars
<1>6. OpStands'
  BY <1>1 DEF OpStands, Calls
<1>7. op.path \notin todo /\ phase \notin {"starting", "fatal", "close", "closed"}
  BY DEF OpStands
<1>8. TodoStands'
  <2>1. CASE UNCHANGED stepVars
    BY <2>1, <1>7, TodoKept DEF Safe, stepVars, OpTypes, Operation, LoopTypes
  <2>2. CASE phase' = "fatal"
    BY <2>2 DEF TodoStands
  <2> QED
    BY <2>1, <2>2
<1>9. EndStands'
  BY <1>7 DEF EndStands, stepVars
<1> QED
  BY <1>1, <1>3, <1>4, <1>5, <1>6, <1>8, <1>9
(* The call goes on.                                                       *)
LEMMA GoesInv ==
    ASSUME DaemonInv, op.step # "none",
           m' \in State, Kept(m', BeingOpened', cancelled), Tried(m'),
           OnlyAt(m, m', op.path), OpTypes', OpStands',
           UNCHANGED <<kernelVars, stepVars, cancelled, wake, feedback, messages,
                       main, known, virtual>>
    PROVE  DaemonInv'
<1> USE DEF DaemonInv
<1>1. KernelTypes'
  BY DEF KernelTypes, kernelVars
<1>2. LoopTypes' /\ ChannelTypes'
  BY DEF LoopTypes, ChannelTypes, stepVars
<1>3. op.path \notin todo /\ phase \notin {"starting", "fatal", "close", "closed"}
  BY DEF OpStands
<1>4. TodoStands'
  BY <1>3, TodoKept DEF stepVars, OpTypes, Operation, LoopTypes
<1>5. EndStands'
  BY <1>3 DEF EndStands, stepVars
<1> QED
  BY <1>1, <1>2, <1>4, <1>5

(* An incarnation that is there.                                           *)
LEMMA AliveIncarnation ==
    ASSUME KernelTypes, NEW i, Alive(i) PROVE i \in Incarnation
  BY DEF Alive, KernelTypes

(* A step that ends the call and leaves the channel as it is.              *)
LEMMA QuietEnd ==
    ASSUME DaemonInv, op.step # "none", NEW t, Safe(t), Ends(t), Quiet,
           UNCHANGED <<kernelVars, stepVars, cancelled, wake, feedback, main, known, virtual>>
    PROVE  DaemonInv'
<1>1. Safe(m') /\ op' = NoOp
  BY DEF Ends
<1>2. messages' \in Seq(Message) /\ Len(messages') <= MaxMessages
  BY DEF Quiet, DaemonInv, ChannelTypes
<1> QED
  BY <1>1, <1>2, EndsInv

(* A step that only goes on to another call.                               *)
LEMMA QuietGo ==
    ASSUME DaemonInv, op.step \in Calls \ {"open"}, Quiet, m' = m,
           op'.path = op.path, op'.startup = op.startup, op'.fd = op.fd,
           op'.step \in {"floor", "validate", "probe"}, op'.generation \in Known, OpTypes',
           op'.step = "floor" => op'.generation.devPath # 0,
           op'.step \in {"validate", "probe"} => op.fd # 0,
           UNCHANGED <<kernelVars, stepVars, cancelled, wake, feedback, main, known, virtual>>
    PROVE  DaemonInv'
<1>1. BeingOpened' = BeingOpened
  BY DEF BeingOpened, Calls
<1>2. /\ m' \in State /\ Kept(m', BeingOpened', cancelled) /\ Tried(m')
      /\ OnlyAt(m, m', op.path)
  BY <1>1 DEF DaemonInv, OnlyAt
<1>3. OpStands'
  BY DEF DaemonInv, OpStands, Calls, Known, Untracked, stepVars
<1>4. op.step # "none"
  BY DEF Calls
<1> QED
  BY <1>2, <1>3, <1>4, GoesInv DEF Quiet

LEMMA OpenNodeInv ==
    ASSUME DaemonInv, OpenNode, UNCHANGED <<main, known, virtual>> PROVE DaemonInv'
<1> USE DEF OpenNode, Opening
<1>0. /\ op.step = "open" /\ op.step \in Calls /\ op.step # "none" /\ Quiet
      /\ UNCHANGED <<kernelVars, stepVars, cancelled, wake, feedback>>
  BY DEF Calls
<1>1. /\ m \in State /\ op.path \in Path /\ op.fd = 0 /\ BeingOpened = {}
      /\ Kept(m, {}, cancelled) /\ Tried(m) /\ KernelTypes
      /\ OpTypes /\ OpStands
  BY <1>0 DEF DaemonInv, OpTypes, Operation, OpStands, BeingOpened
<1>2. ASSUME NEW fd \in Fd, Alive(node[op.path]), FreeFd(m, fd),
             m' = [m EXCEPT !.file[fd] = node[op.path]],
             op' = [op EXCEPT !.step = "identify", !.fd = fd]
      PROVE  DaemonInv'
  <2>1. m.file[fd] = 0 /\ node[op.path] \in Incarnation
    BY <1>1, <1>2, AliveIncarnation DEF FreeFd
  <2>2. /\ m' \in State /\ Kept(m', {fd}, cancelled) /\ m'.byPath = m.byPath
        /\ m'.candidates = m.candidates /\ m'.retries = m.retries
    BY <1>1, <1>2, <2>1, OpensFd
  <2>3. fd # 0
    BY <1>1, Typed
  <2>4. /\ OpTypes' /\ op'.path = op.path /\ op'.fd = fd /\ op'.step = "identify"
        /\ op'.startup = op.startup /\ op'.generation = op.generation
    BY <1>1, <1>2 DEF OpTypes, Operation, Calls
  <2>5. BeingOpened' = {fd}
    BY <2>3, <2>4 DEF BeingOpened
  <2>6. OpStands'
    BY <1>0, <1>1, <2>2, <2>3, <2>4 DEF OpStands, Calls, Untracked, stepVars
  <2> QED
    BY <1>0, <1>1, <2>2, <2>4, <2>5, <2>6, GoesInv DEF Tried, OnlyAt, Quiet
<1>3. CASE op.startup /\ Goes("identify")
  <2>1. /\ OpTypes' /\ op'.path = op.path /\ op'.fd = 0 /\ op'.step = "identify"
        /\ op'.startup = op.startup /\ op'.generation = op.generation /\ m' = m
    BY <1>1, <1>3 DEF OpTypes, Operation, Calls, Goes
  <2>2. BeingOpened' = {}
    BY <2>1 DEF BeingOpened
  <2>3. OpStands'
    BY <1>0, <1>1, <1>3, <2>1 DEF OpStands, Calls, Untracked, stepVars
  <2> QED
    BY <1>0, <1>1, <2>1, <2>2, <2>3, GoesInv DEF OnlyAt, Quiet
<1>4. CASE ~op.startup /\ Ends(ClosedForRetry)
  <2>1. op.generation # NoGeneration
    BY <1>0, <1>1, <1>4 DEF OpStands
  <2> QED
    BY <1>0, <1>4, <2>1, ClosesSafe, QuietEnd
<1> QED
  BY <1>2, <1>3, <1>4

LEMMA IdentifyInv ==
    ASSUME DaemonInv, Identify, UNCHANGED <<main, known, virtual>> PROVE DaemonInv'
<1> USE DEF Identify, Opening
<1> DEFINE i == node[op.path]
<1>0. /\ op.step = "identify" /\ op.step \in Calls \ {"open"} /\ op.step # "none" /\ Quiet
      /\ UNCHANGED <<kernelVars, stepVars, cancelled, wake, feedback>>
  BY DEF Calls
<1>1. OpTypes /\ KernelTypes /\ (~op.startup => op.generation # NoGeneration /\ op.fd # 0)
  BY <1>0 DEF DaemonInv, OpStands
<1>2. CASE \E t \in {Closed, Ignored} : Ends(t)
  BY <1>0, <1>2, ClosesSafe, QuietEnd
<1>3. CASE ~op.startup /\ Ends(ClosedForRetry)
  BY <1>0, <1>1, <1>3, ClosesSafe, QuietEnd
<1>4. CASE /\ Alive(i) /\ m' = m
           /\ op' = [op EXCEPT !.step = "floor", !.generation.devPath = DevPathOf[i]]
  <2>1. DevPathOf[i] # 0 /\ DevPathOf[i] \in {DevPathOf[j] : j \in Incarnation}
    BY <1>1, <1>4, AliveIncarnation, DevPathAssumption
  <2> DEFINE g == [op.generation EXCEPT !.devPath = DevPathOf[i]]
  <2>2. g \in Known /\ g \in Generation /\ g.devPath # 0
    BY <1>1, <2>1 DEF OpTypes, Operation, Generation, Known, NoGeneration
  <2> HIDE DEF g
  <2>3. op' = [op EXCEPT !.step = "floor", !.generation = g]
    BY <1>4 DEF g
  <2>4. /\ OpTypes' /\ op'.path = op.path /\ op'.startup = op.startup /\ op'.fd = op.fd
        /\ op'.step = "floor" /\ op'.generation = g
    BY <1>1, <2>2, <2>3 DEF OpTypes, Operation, Calls
  <2> QED
    BY <1>0, <1>4, <2>2, <2>4, QuietGo
<1>5. CASE ~op.startup /\ Goes("validate")
  <2>1. /\ OpTypes' /\ op'.path = op.path /\ op'.startup = op.startup /\ op'.fd = op.fd
        /\ op'.step = "validate" /\ op'.generation = op.generation /\ m' = m
    BY <1>1, <1>5 DEF OpTypes, Operation, Calls, Goes
  <2>2. op'.generation \in Known
    BY <1>1, <1>5, <2>1 DEF OpTypes, Operation, Known
  <2> QED
    BY <1>0, <1>1, <1>5, <2>1, <2>2, QuietGo
<1> QED
  BY <1>2, <1>3, <1>4, <1>5
LEMMA SampleFloorInv ==
    ASSUME DaemonInv, SampleFloor, UNCHANGED <<main, known, virtual>> PROVE DaemonInv'
<1> USE DEF SampleFloor
<1> DEFINE g == [op.generation EXCEPT !.sequenceFloor = seqnum]
<1>0. /\ op.step = "floor" /\ op.step \in Calls \ {"open"} /\ op.step # "none" /\ Quiet
      /\ UNCHANGED <<kernelVars, cancelled, wake, feedback>>
  BY DEF Calls
<1>1. /\ OpTypes /\ KernelTypes /\ op.generation.devPath # 0 /\ op.path \in Path
      /\ m \in State /\ Tried(m)
      /\ messages \in Seq(Message) /\ Len(messages) <= MaxMessages
  BY <1>0 DEF DaemonInv, OpStands, OpTypes, Operation, ChannelTypes
<1>2. g \in Known /\ g \in Generation /\ g.devPath # 0
  BY <1>1 DEF OpTypes, Operation, KernelTypes, Generation, Known, NoGeneration
<1> HIDE DEF g
<1>3. CASE /\ UNCHANGED stepVars /\ op.fd = 0
           /\ Ends(ScheduleRetry(m, op.path, g))
  <2>1. BeingOpened = {}
    BY <1>3 DEF BeingOpened
  <2>2. Safe(ScheduleRetry(m, op.path, g))
    BY <1>1, <1>2, <2>1, Schedules, SameMapsKept DEF Safe, DaemonInv
  <2> QED
    BY <1>0, <1>3, <2>2, QuietEnd
<1>4. CASE /\ UNCHANGED stepVars /\ op.fd # 0 /\ m' = m
           /\ op' = [op EXCEPT !.step = "validate", !.generation = g]
  <2>1. /\ OpTypes' /\ op'.path = op.path /\ op'.startup = op.startup /\ op'.fd = op.fd
        /\ op'.step = "validate" /\ op'.generation = g
    BY <1>1, <1>2, <1>4 DEF OpTypes, Operation, Calls
  <2> QED
    BY <1>0, <1>2, <1>4, <2>1, QuietGo
<1>5. CASE Ends(Closed) /\ phase' = "fatal" /\ todo' = {} /\ UNCHANGED <<ready, batch>>
  BY <1>0, <1>1, <1>5, ClosesSafe, EndsInv DEF Ends, Quiet
<1>6. SampleFloor => \/ UNCHANGED stepVars /\ op.fd = 0 /\ Ends(ScheduleRetry(m, op.path, g))
                     \/ /\ UNCHANGED stepVars /\ op.fd # 0 /\ m' = m
                        /\ op' = [op EXCEPT !.step = "validate", !.generation = g]
                     \/ /\ Ends(Closed) /\ phase' = "fatal" /\ todo' = {}
                        /\ UNCHANGED <<ready, batch>>
  BY DEF g
<1> QED
  BY <1>3, <1>4, <1>5, <1>6

LEMMA ValidateInv ==
    ASSUME DaemonInv, Validate, UNCHANGED <<main, known, virtual>> PROVE DaemonInv'
<1> USE DEF Validate, Opening
<1>0. /\ op.step = "validate" /\ op.step \in Calls \ {"open"} /\ op.step # "none" /\ Quiet
      /\ UNCHANGED <<kernelVars, stepVars, cancelled, wake, feedback>>
  BY DEF Calls
<1>1. OpTypes /\ op.generation # NoGeneration /\ op.fd # 0
  BY <1>0 DEF DaemonInv, OpStands
<1>2. CASE \E t \in {Ignored, ClosedForRetry} : Ends(t)
  BY <1>0, <1>1, <1>2, ClosesSafe, QuietEnd
<1>3. CASE Goes("probe")
  <2>1. /\ OpTypes' /\ op'.path = op.path /\ op'.startup = op.startup /\ op'.fd = op.fd
        /\ op'.step = "probe" /\ op'.generation = op.generation /\ m' = m
    BY <1>1, <1>3 DEF OpTypes, Operation, Calls, Goes
  <2>2. op'.generation \in Known
    BY <1>1, <2>1 DEF OpTypes, Operation, Known
  <2> QED
    BY <1>0, <1>1, <2>1, <2>2, QuietGo
<1> QED
  BY <1>2, <1>3

LEMMA ProbeInv ==
    ASSUME DaemonInv, Probe, UNCHANGED <<main, known, virtual>> PROVE DaemonInv'
<1> USE DEF Probe, Opening
<1>0. /\ op.step = "probe" /\ op.step \in Calls \ {"open"} /\ op.step # "none" /\ Quiet
      /\ UNCHANGED <<kernelVars, stepVars, cancelled, wake, feedback>>
  BY DEF Calls
<1>1. /\ OpTypes /\ OpStands /\ m \in State /\ Tried(m) /\ Untracked(m, op.path)
      /\ op.path \in Path /\ op.generation \in Known /\ op.fd \in Fd /\ op.fd # 0
  BY <1>0 DEF DaemonInv, OpStands, OpTypes, Operation, Known
<1>2. CASE \E t \in {Ignored, ClosedForRetry} : Ends(t)
  BY <1>0, <1>1, <1>2, ClosesSafe, QuietEnd DEF Known
<1>3. CASE /\ m' = [m EXCEPT !.candidates[op.path] =
                       [generation |-> op.generation, fd |-> op.fd]]
           /\ op' = [op EXCEPT !.step = "acquire"]
  <2>1. Kept(m, {op.fd}, cancelled)
    <3>1. BeingOpened = {op.fd}
      BY <1>0, <1>1 DEF BeingOpened
    <3> QED
      BY <3>1 DEF DaemonInv
  <2>2. /\ m' \in State /\ Kept(m', {}, cancelled) /\ m'.retries = m.retries
        /\ m'.byPath = m.byPath /\ m'.candidates[op.path].fd = op.fd
        /\ \A q \in Path \ {op.path} : m'.candidates[q] = m.candidates[q]
    BY <1>1, <1>3, <2>1, Probes
  <2>3. /\ OpTypes' /\ op'.path = op.path /\ op'.startup = op.startup /\ op'.fd = op.fd
        /\ op'.step = "acquire" /\ op'.generation = op.generation
    BY <1>1, <1>3 DEF OpTypes, Operation, Calls
  <2>4. BeingOpened' = {}
    BY <2>3 DEF BeingOpened
  <2>5. OpStands'
    BY <1>0, <1>1, <2>2, <2>3 DEF OpStands, Calls, Known, stepVars
  <2> QED
    BY <1>0, <1>1, <2>2, <2>3, <2>4, <2>5, GoesInv DEF Tried, OnlyAt, Quiet
<1> QED
  BY <1>2, <1>3

(* A candidate cannot be acquired, or was just taken for one that cannot.   *)
LEMMA CandidateFailsSafe ==
    ASSUME DaemonInv, op.step = "acquire", NEW s \in State, Kept(s, {}, cancelled),
           Tried(s), OnlyAt(m, s, op.path),
           s.candidates[op.path].fd = op.fd \/ (cancelled /\ s.candidates[op.path].fd = 0)
    PROVE  Safe(CandidateFails(s))
<1> DEFINE r == RemoveCandidate(s, op.path, op.fd)
<1>1. op.path \in Path /\ op.generation \in Known /\ op.fd \in Fd
  BY DEF DaemonInv, OpTypes, Operation, OpStands, Known
<1>2. /\ r \in State /\ Kept(r, {}, cancelled) /\ r.retries = s.retries
      /\ r.byPath = s.byPath /\ \A q \in Path \ {op.path} : r.candidates[q] = s.candidates[q]
  BY <1>1, RemovesCandidate
<1> HIDE DEF r
<1>3. Tried(r) /\ OnlyAt(m, r, op.path)
  BY <1>2 DEF Tried, OnlyAt
<1> DEFINE t == ScheduleRetry(r, op.path, op.generation)
<1>4. SameMaps(r, t) /\ OnlyAt(r, t, op.path) /\ Tried(t)
  BY <1>1, <1>2, <1>3, Schedules
<1> HIDE DEF t
<1>5. Safe(t)
  BY <1>2, <1>3, <1>4, SameMapsKept DEF Safe, OnlyAt
<1> QED
  BY <1>5 DEF CandidateFails, t, r

LEMMA AcquireInv ==
    ASSUME DaemonInv, Acquire \/ NotAcquired, UNCHANGED <<main, known, virtual>>
    PROVE  DaemonInv'
<1> DEFINE s == Activated(m, op.path)
<1>0. /\ op.step = "acquire" /\ op.step # "none"
      /\ UNCHANGED <<kernelVars, stepVars, cancelled, wake, feedback>>
  BY DEF Acquire, NotAcquired, Opening
<1>1. /\ m \in State /\ Kept(m, {}, cancelled) /\ Tried(m) /\ op.path \in Path
      /\ m.candidates[op.path].fd = op.fd /\ op.fd # 0 /\ OnlyAt(m, m, op.path)
      /\ messages \in Seq(Message) /\ Len(messages) <= MaxMessages
  <2>1. BeingOpened = {}
    BY <1>0 DEF BeingOpened
  <2> QED
    BY <1>0, <2>1 DEF DaemonInv, OpStands, OpTypes, Operation, ChannelTypes, OnlyAt
<1>2. CASE Alive(m.file[op.fd])
  <2>1. m.file[op.fd] # 0
    BY <1>2 DEF Alive
  <2>2. /\ s \in State /\ Kept(s, {}, cancelled) /\ Tried(s) /\ OnlyAt(m, s, op.path)
        /\ s.candidates[op.path].fd = 0
    BY <1>1, <2>1, Activates, NoEntry
  <2> HIDE DEF s
  <2>3. CASE Sends("resync", op.path) /\ Ends(s)
    <3>1. [kind |-> "resync", path |-> op.path] \in Message
      BY <1>1 DEF Message
    <3>2. messages' \in Seq(Message) /\ Len(messages') <= MaxMessages
      BY <1>1, <2>3, <3>1, ManagerAssumption DEF Sends
    <3> QED
      BY <1>0, <2>2, <2>3, <3>2, EndsInv DEF Safe, Ends
  <2>4. CASE Aborted /\ Ends(CandidateFails(s))
    BY <1>0, <1>1, <2>2, <2>4, CandidateFailsSafe, EndsInv DEF Ends, Aborted
  <2>5. CASE Quiet /\ Ends(m)
    BY <1>0, <1>1, <2>5, QuietEnd DEF Safe
  <2>6. CASE Quiet /\ Ends(CandidateFails(m))
    BY <1>0, <1>1, <2>6, CandidateFailsSafe, QuietEnd
  <2> QED
    BY <2>3, <2>4, <2>5, <2>6 DEF Acquire, NotAcquired, s
<1>3. CASE ~Alive(m.file[op.fd])
  <2>1. Quiet /\ Ends(CandidateFails(m))
    BY <1>3 DEF Acquire, NotAcquired
  <2> QED
    BY <1>0, <1>1, <2>1, CandidateFailsSafe, QuietEnd
<1> QED
  BY <1>2, <1>3
-----------------------------------------------------------------------------
(* The loop (module Manager)                                               *)

(* No call is in progress, before and after the step.                      *)
LEMMA RestInv ==
    ASSUME op'.step = "none", OpTypes', m' \in State, Kept(m', {}, cancelled'), Tried(m'),
           KernelTypes', LoopTypes', ChannelTypes', TodoStands', EndStands'
    PROVE  DaemonInv'
<1>1. BeingOpened' = {} /\ OpStands'
  BY DEF BeingOpened, OpStands, Calls
<1> QED
  BY <1>1 DEF DaemonInv

(* What is known while the loop is between two calls.                      *)
LEMMA IdleFacts ==
    ASSUME DaemonInv, op.step = "none"
    PROVE  Kept(m, {}, cancelled) /\ m \in State /\ Tried(m) /\ Entries(m)
<1>1. BeingOpened = {}
  BY DEF BeingOpened
<1> QED
  BY <1>1 DEF DaemonInv, Kept

(* consider, in the loop over the retries or for an event.                 *)
LEMMA ConsiderInv ==
    ASSUME NEW p \in Path, NEW g \in Known,
           m' \in State, Kept(m', {}, cancelled'), Tried(m'),
           op' = IF p \in Active(m') \cup Pending(m') THEN NoOp ELSE Call(p, g, FALSE),
           p \notin todo', phase' \in {"retry", "dispatch"},
           KernelTypes', LoopTypes', ChannelTypes', TodoStands', EndStands'
    PROVE  DaemonInv'
<1>1. CASE p \in Active(m') \cup Pending(m')
  <2>1. op' = NoOp
    BY <1>1
  <2>2. op'.step = "none" /\ OpTypes'
    BY <2>1, NoOpTyped DEF OpTypes, Operation
  <2> QED
    BY <2>2, RestInv
<1>2. CASE p \notin Active(m') \cup Pending(m')
  <2>1. op' = Call(p, g, FALSE) /\ g \in Generation /\ g # NoGeneration
    BY <1>2 DEF Known
  <2>2. /\ op'.step = "open" /\ op'.path = p /\ op'.generation = g /\ op'.fd = 0
        /\ OpTypes'
    BY <2>1, NoOpTyped DEF OpTypes, Operation, Call, Calls
  <2>3. Untracked(m', p)
    BY <1>2 DEF Active, Pending, Untracked, Kept, Entries, Entry
  <2>4. BeingOpened' = {} /\ OpStands'
    BY <2>1, <2>2, <2>3 DEF BeingOpened, OpStands, Calls
  <2> QED
    BY <2>2, <2>4 DEF DaemonInv
<1> QED
  BY <1>1, <1>2

LEMMA SubscribeInv ==
    ASSUME DaemonInv, Subscribe, UNCHANGED <<main, known, virtual>> PROVE DaemonInv'
<1> USE DEF Subscribe
<1>1. op.step = "none" /\ op' = op /\ OpTypes'
  BY DEF DaemonInv, OpStands, OpTypes, Operation
<1>2. /\ m' \in State /\ Kept(m', {}, cancelled') /\ Tried(m')
  BY <1>1, IdleFacts
<1>3. KernelTypes' /\ LoopTypes' /\ ChannelTypes'
  BY DEF DaemonInv, KernelTypes, kernelVars, LoopTypes, ChannelTypes, ledVars
<1>4. TodoStands' /\ EndStands'
  BY DEF DaemonInv, TodoStands, EndStands, Untracked
<1> QED
  BY <1>1, <1>2, <1>3, <1>4, RestInv

(* Steps that only choose what the loop does next.                         *)
LEMMA TurnInv ==
    ASSUME DaemonInv, UNCHANGED <<main, known, virtual>>,
           LoopTop(TRUE) \/ LoopTop(FALSE) \/ LoopDone \/ HandleWake \/ Wait
             \/ \E due \in SUBSET Path : Checked(due)
    PROVE  DaemonInv'
<1> DEFINE A == LoopTop(TRUE) \/ LoopTop(FALSE) \/ LoopDone \/ HandleWake \/ Wait
                  \/ \E due \in SUBSET Path : Checked(due)
<1> USE DEF LoopTop, LoopDone, HandleWake, Wait, Checked, TurnOver, LoopIdle, Leave, Turns,
        Waiting, Handles
<1>1. op.step = "none" /\ m' = m /\ op' \in {op, NoOp}
      /\ UNCHANGED <<kernelVars, messages, cancelled, wake, ledVars>>
  OBVIOUS
<1>2. op'.step = "none" /\ OpTypes'
  BY <1>1, NoOpTyped DEF DaemonInv, OpTypes, Operation
<1>3. m' \in State /\ Kept(m', {}, cancelled') /\ Tried(m')
  BY <1>1, IdleFacts
<1>4. KernelTypes' /\ ChannelTypes'
  BY <1>1 DEF DaemonInv, KernelTypes, kernelVars, ChannelTypes
<1>5. /\ todo' \subseteq Path /\ phase' \in {"check", "close", "dispatch", "retry"}
      /\ phase # "closed"
  BY DEF DaemonInv, LoopTypes, Pending
<1>6. batch' \in {batch, <<>>}
  OBVIOUS
<1>7. LoopTypes'
  BY <1>1, <1>5, <1>6 DEF DaemonInv, LoopTypes, ledVars
<1>8. TodoStands'
  <2>1. ASSUME phase' = "check", NEW p \in todo' PROVE m.candidates[p].fd # 0
    <3>1. p \in Pending(m)
      BY <2>1
    <3> QED
      BY <1>1, <3>1, IdleFacts DEF Entries, Entry, Pending
  <2>2. ASSUME phase' = "retry", NEW p \in todo' PROVE Exists(m.retries[p])
    BY <1>1, <2>2, IdleFacts DEF Tried
  <2>3. phase' = "dispatch" => todo' = {}
    BY DEF DaemonInv, TodoStands
  <2> QED
    BY <1>1, <1>5, <2>1, <2>2, <2>3 DEF TodoStands
<1>9. EndStands'
  BY <1>5 DEF DaemonInv, EndStands
<1> QED
  BY <1>2, <1>3, <1>4, <1>7, <1>8, <1>9, RestInv

LEMMA EnumerateInv ==
    ASSUME DaemonInv, NEW p \in Path, EnumerateNode(p), UNCHANGED <<main, known, virtual>>
    PROVE  DaemonInv'
<1> USE DEF EnumerateNode, LoopIdle, Turns
<1>1. op.step = "none" /\ m' = m /\ m \in State /\ Kept(m, {}, cancelled) /\ Tried(m)
  BY IdleFacts
<1>2. /\ op'.step = "open" /\ op'.path = p /\ op'.fd = 0 /\ op'.startup = TRUE
      /\ OpTypes'
  BY Nothing, NoOpTyped DEF OpTypes, Operation, Call, Calls
<1>3. BeingOpened' = {}
  BY <1>2 DEF BeingOpened
<1>4. OpStands'
  BY <1>2 DEF DaemonInv, TodoStands, OpStands, Calls, Untracked
<1>5. KernelTypes' /\ LoopTypes' /\ ChannelTypes'
  BY DEF DaemonInv, KernelTypes, kernelVars, LoopTypes, ChannelTypes, ledVars
<1>6. TodoStands' /\ EndStands'
  BY DEF DaemonInv, TodoStands, EndStands, Untracked
<1> QED
  BY <1>1, <1>2, <1>3, <1>4, <1>5, <1>6 DEF DaemonInv

LEMMA CheckInv ==
    ASSUME DaemonInv, NEW p \in Path, CheckCandidate(p), UNCHANGED <<main, known, virtual>>
    PROVE  DaemonInv'
<1> USE DEF CheckCandidate, LoopIdle
<1> DEFINE device == m.candidates[p]
           closed == RemoveCandidate(m, p, device.fd)
<1>1. op.step = "none" /\ m \in State /\ Kept(m, {}, cancelled) /\ Tried(m) /\ Entries(m)
  BY IdleFacts
<1>2. /\ device.fd # 0 /\ device.fd \in Fd /\ device.generation \in Known
  BY <1>1, Typed DEF DaemonInv, TodoStands, Entries, Entry, Exists, Known
<1>3. KernelTypes' /\ LoopTypes' /\ ChannelTypes' /\ EndStands'
  BY DEF DaemonInv, KernelTypes, kernelVars, LoopTypes, ChannelTypes, EndStands, ledVars
<1>4. CASE /\ m' = m
           /\ op' = [NoOp EXCEPT !.step = "acquire", !.path = p,
                        !.generation = device.generation, !.fd = device.fd]
  <2>1. /\ op'.step = "acquire" /\ op'.path = p /\ op'.fd = device.fd
        /\ op'.generation = device.generation /\ OpTypes'
    BY <1>2, <1>4, NoOpTyped DEF OpTypes, Operation, Known
  <2>2. BeingOpened' = {} /\ OpStands'
    BY <1>2, <1>4, <2>1 DEF BeingOpened, OpStands, Calls, Known
  <2>3. TodoStands'
    BY <1>4 DEF DaemonInv, TodoStands
  <2> QED
    BY <1>1, <1>3, <1>4, <2>1, <2>2, <2>3 DEF DaemonInv
<1>5. CASE m' = closed /\ op' = op
  <2>1. /\ m' \in State /\ Kept(m', {}, cancelled) /\ m'.retries = m.retries
        /\ \A q \in Path \ {p} : m'.candidates[q] = m.candidates[q]
    BY <1>1, <1>2, <1>5, RemovesCandidate
  <2>2. Tried(m')
    BY <1>1, <2>1 DEF Tried
  <2>3. TodoStands'
    BY <2>1 DEF DaemonInv, TodoStands, LoopTypes
  <2>4. OpTypes' /\ op'.step = "none"
    BY <1>1, <1>5 DEF DaemonInv, OpTypes, Operation
  <2> QED
    BY <1>3, <2>1, <2>2, <2>3, <2>4, RestInv
<1> QED
  BY <1>4, <1>5

LEMMA RetryInv ==
    ASSUME DaemonInv, NEW p \in Path, Retry(p), UNCHANGED <<main, known, virtual>>
    PROVE  DaemonInv'
<1> USE DEF Retry, LoopIdle, Turns
<1> DEFINE g == m.retries[p].generation
<1>1. op.step = "none" /\ m \in State /\ Kept(m, {}, cancelled) /\ Tried(m)
  BY IdleFacts
<1>2. g \in Known
  BY <1>1, Typed DEF DaemonInv, TodoStands, Exists, Known
<1>3. KernelTypes' /\ LoopTypes' /\ ChannelTypes' /\ EndStands'
  BY DEF DaemonInv, KernelTypes, kernelVars, LoopTypes, ChannelTypes, EndStands, ledVars
<1> HIDE DEF g
<1>4. CASE MayBegin(m, p, g) /\ Consider(BeginRetry(m, p, g), p, g)
  <2>1. /\ SameMaps(m, m') /\ OnlyAt(m, m', p) /\ Tried(m')
        /\ op' = IF p \in Active(m') \cup Pending(m') THEN NoOp ELSE Call(p, g, FALSE)
    BY <1>1, <1>2, <1>4, Begins DEF Consider
  <2>2. m' \in State /\ Kept(m', {}, cancelled)
    BY <1>1, <2>1, SameMapsKept
  <2>3. TodoStands'
    BY <2>1 DEF DaemonInv, TodoStands, OnlyAt, LoopTypes
  <2> QED
    BY <1>2, <1>3, <2>1, <2>2, <2>3, ConsiderInv
<1>5. CASE UNCHANGED <<m, op>>
  <2>1. TodoStands' /\ OpTypes'
    BY <1>5 DEF DaemonInv, TodoStands, OpTypes, Operation
  <2> QED
    BY <1>1, <1>3, <1>5, <2>1, RestInv
<1> QED
  BY <1>4, <1>5 DEF g
-----------------------------------------------------------------------------
(* The handlers (module Manager)                                           *)

LEMMA SendsTyped ==
    ASSUME messages \in Seq(Message), Len(messages) <= MaxMessages,
           \/ \E kind \in {"resync", "removed", "err"}, p \in Path : Sends(kind, p)
           \/ UNCHANGED messages
    PROVE  messages' \in Seq(Message) /\ Len(messages') <= MaxMessages
<1>1. ASSUME NEW kind \in {"resync", "removed", "err"}, NEW p \in Path, Sends(kind, p)
      PROVE  messages' \in Seq(Message) /\ Len(messages') <= MaxMessages
  <2>1. [kind |-> kind, path |-> p] \in Message
    BY DEF Message
  <2> QED
    BY <1>1, <2>1, ManagerAssumption DEF Sends
<1> QED
  BY <1>1

(* A handler ends, and with it the turn or the loop.                       *)
LEMMA HandlerInv ==
    ASSUME DaemonInv, op.step = "none", phase # "closed", op' \in {op, NoOp},
           m' \in State, Kept(m', {}, cancelled), Tried(m'),
           KernelTypes', batch' \in Seq(Event), feedback' \in Seq({"on", "off"}),
           messages' \in Seq(Message), Len(messages') <= MaxMessages,
           UNCHANGED <<cancelled, wake, main, known, virtual>>,
           \/ phase = "dispatch" /\ UNCHANGED <<phase, todo>>
           \/ phase' \in {"fatal", "close"} /\ todo' \subseteq Path
    PROVE  DaemonInv'
<1>1. op'.step = "none" /\ OpTypes'
  BY NoOpTyped DEF DaemonInv, OpTypes
<1>2. LoopTypes' /\ ChannelTypes'
  BY DEF DaemonInv, LoopTypes, ChannelTypes
<1>3. TodoStands' /\ EndStands'
  BY DEF DaemonInv, TodoStands, EndStands
<1> QED
  BY <1>1, <1>2, <1>3, RestInv

LEMMA ReadInv ==
    ASSUME DaemonInv, ReadMonitor \/ LoopFails, UNCHANGED <<main, known, virtual>>
    PROVE  DaemonInv'
<1> USE DEF ReadMonitor, LoopFails, Handles, LoopIdle, Waiting
<1>1. op.step = "none" /\ op' = op /\ m' = m /\ phase # "closed"
  OBVIOUS
<1>2. m' \in State /\ Kept(m', {}, cancelled) /\ Tried(m')
  BY <1>1, IdleFacts
<1>a. monitor' \in {monitor, <<>>} /\ UNCHANGED <<node, plugs, seqnum, udevd>>
  BY DEF kernelVars
<1>b. monitor' \in Seq(Event)
  <2>1. monitor \in Seq(Event) /\ <<>> \in Seq(Event)
    BY DEF DaemonInv, KernelTypes
  <2> QED
    BY <1>a, <2>1
<1>3. KernelTypes'
  <2>1. KernelTypes
    BY DEF DaemonInv
  <2> QED
    BY <1>a, <1>b, <2>1 DEF KernelTypes
<1>4. /\ batch' \in Seq(Event) /\ feedback' \in Seq({"on", "off"})
      /\ messages' \in Seq(Message) /\ Len(messages') <= MaxMessages
      /\ todo' \subseteq Path
  BY DEF DaemonInv, KernelTypes, LoopTypes, ChannelTypes, ledVars
<1> QED
  BY <1>1, <1>2, <1>3, <1>4, HandlerInv

LEMMA HandleDeviceInv ==
    ASSUME DaemonInv, HandleDevice, UNCHANGED <<main, known, virtual>> PROVE DaemonInv'
<1> USE DEF HandleDevice, Handles, LoopIdle
<1>0. /\ op.step = "none" /\ phase = "dispatch"
      /\ UNCHANGED <<kernelVars, cancelled, wake, ledVars>>
      /\ m \in State /\ Kept(m, {}, cancelled) /\ Tried(m) /\ Entries(m)
      /\ messages \in Seq(Message) /\ Len(messages) <= MaxMessages
  BY IdleFacts DEF DaemonInv, ChannelTypes
<1>1. /\ KernelTypes' /\ feedback' \in Seq({"on", "off"})
      /\ batch \in Seq(Event) /\ todo \subseteq Path
  BY <1>0 DEF DaemonInv, KernelTypes, kernelVars, LoopTypes, ledVars
<1>2. CASE UNCHANGED <<m, messages, phase, todo, batch, op>>
  BY <1>0, <1>1, <1>2, HandlerInv
<1>3. ASSUME NEW p \in Active(m),
             LET device == m.byPath[p]
                 closed == RemoveActive(m, p)
             IN \/ /\ Sends("removed", p)
                   /\ m' = IF Alive(m.file[device.fd])
                             THEN ScheduleRetry(closed, p, device.generation) ELSE closed
                   /\ UNCHANGED <<phase, todo, batch, op>>
                \/ Aborted /\ m' = closed /\ Leave
      PROVE  DaemonInv'
  <2> DEFINE g == m.byPath[p].generation
             closed == RemoveActive(m, p)
  <2>1. p \in Path /\ m.byPath[p].fd # 0 /\ g \in Known
    BY <1>0, Typed DEF Active, Entries, Entry, Exists, Known
  <2>2. closed \in State /\ Kept(closed, {}, cancelled) /\ closed.retries = m.retries
    BY <1>0, <2>1, RemovesActive
  <2> HIDE DEF closed, g
  <2>3. Tried(closed)
    BY <1>0, <2>2 DEF Tried
  <2>4. LET t == ScheduleRetry(closed, p, g)
        IN t \in State /\ Kept(t, {}, cancelled) /\ Tried(t)
    BY <2>1, <2>2, <2>3, Schedules, SameMapsKept
  <2>5. m' \in {closed, ScheduleRetry(closed, p, g)}
    BY <1>3 DEF closed, g
  <2>6. m' \in State /\ Kept(m', {}, cancelled) /\ Tried(m')
    BY <2>2, <2>3, <2>4, <2>5
  <2>7. messages' \in Seq(Message) /\ Len(messages') <= MaxMessages
    BY <1>0, <1>3, <2>1, SendsTyped DEF Aborted
  <2>8. CASE UNCHANGED <<phase, todo, batch, op>>
    BY <1>0, <1>1, <2>6, <2>7, <2>8, HandlerInv
  <2>9. CASE Leave
    BY <1>0, <1>1, <2>6, <2>7, <2>9, HandlerInv DEF Leave
  <2> QED
    BY <1>3, <2>8, <2>9
<1>4. \/ UNCHANGED <<m, messages, phase, todo, batch, op>>
      \/ \E p \in Active(m) :
             LET device == m.byPath[p]
                 closed == RemoveActive(m, p)
             IN \/ /\ Sends("removed", p)
                   /\ m' = IF Alive(m.file[device.fd])
                             THEN ScheduleRetry(closed, p, device.generation) ELSE closed
                   /\ UNCHANGED <<phase, todo, batch, op>>
                \/ Aborted /\ m' = closed /\ Leave
  OBVIOUS
<1> QED
  BY <1>2, <1>3, <1>4

LEMMA HandleFeedbackInv ==
    ASSUME DaemonInv, HandleFeedback, UNCHANGED <<main, known, virtual>> PROVE DaemonInv'
<1> USE DEF HandleFeedback, Handles, LoopIdle
<1> DEFINE value == IF feedback = <<>> THEN m.locks ELSE Last(feedback)
<1>0. /\ op.step = "none" /\ phase = "dispatch" /\ feedback \in Seq({"on", "off"})
      /\ m \in State /\ Kept(m, {}, cancelled) /\ Tried(m)
  BY IdleFacts DEF DaemonInv, LoopTypes
<1>1. value \in {"unknown", "on", "off"}
  BY <1>0 DEF State, Last
<1> HIDE DEF value
<1>2. m' = [m EXCEPT !.locks = value]
  BY DEF value
<1>3. /\ m' \in State /\ m'.byPath = m.byPath /\ m'.candidates = m.candidates
      /\ m'.retries = m.retries /\ m'.file = m.file /\ m'.grabs = m.grabs
  BY <1>0, <1>1, <1>2 DEF State
<1>4. Kept(m', {}, cancelled) /\ Tried(m')
  BY <1>0, <1>3, SameKept DEF Tried
<1>5. /\ KernelTypes' /\ batch' \in Seq(Event) /\ feedback' \in Seq({"on", "off"})
      /\ messages' \in Seq(Message) /\ Len(messages') <= MaxMessages
  BY DEF DaemonInv, KernelTypes, kernelVars, LoopTypes, ChannelTypes
<1> QED
  BY <1>0, <1>3, <1>4, <1>5, HandlerInv
(* The number of an event is all that Noted changes.                       *)
LEMMA EventNoted ==
    ASSUME DaemonInv, op.step = "none", batch # <<>>
    PROVE  /\ Head(batch) \in Event /\ Tail(batch) \in Seq(Event)
           /\ Noted \in State /\ Kept(Noted, {}, cancelled) /\ Tried(Noted)
           /\ Noted.byPath = m.byPath /\ Noted.candidates = m.candidates
           /\ Noted.retries = m.retries
<1>1. Head(batch) \in Event /\ Tail(batch) \in Seq(Event)
  BY DEF DaemonInv, LoopTypes
<1>2. m \in State /\ Kept(m, {}, cancelled) /\ Tried(m)
  BY IdleFacts
<1>3. Head(batch).path \in Path /\ Head(batch).seqNum \in Nat
  BY <1>1 DEF Event
<1>4. SameMaps(m, Noted) /\ Noted.retries = m.retries
  BY <1>2, <1>3 DEF Noted, SameMaps, State
<1> QED
  BY <1>1, <1>2, <1>4, SameMapsKept DEF SameMaps, Tried

LEMMA IgnoreEventInv ==
    ASSUME DaemonInv, IgnoreEvent, UNCHANGED <<main, known, virtual>> PROVE DaemonInv'
<1> USE DEF IgnoreEvent, LoopIdle, EventDone, Turns
<1>1. m' \in State /\ Kept(m', {}, cancelled) /\ Tried(m')
  BY IdleFacts
<1>2. batch' \in Seq(Event)
  BY EventNoted
<1>3. /\ KernelTypes' /\ feedback' \in Seq({"on", "off"})
      /\ messages' \in Seq(Message) /\ Len(messages') <= MaxMessages
  BY DEF DaemonInv, KernelTypes, kernelVars, LoopTypes, ChannelTypes, ledVars
<1> QED
  BY <1>1, <1>2, <1>3, HandlerInv

(* What is common to the handlers of events.                               *)
LEMMA AppliesFacts ==
    ASSUME DaemonInv, NEW action, Applies(action)
    PROVE  /\ op.step = "none" /\ phase = "dispatch" /\ batch # <<>>
           /\ UNCHANGED <<cancelled, wake>>
           /\ KernelTypes' /\ feedback' \in Seq({"on", "off"}) /\ todo \subseteq Path
           /\ messages \in Seq(Message) /\ Len(messages) <= MaxMessages
  BY DEF Applies, LoopIdle, DaemonInv, KernelTypes, kernelVars, LoopTypes, ledVars,
     ChannelTypes

LEMMA HandleRemoveInv ==
    ASSUME DaemonInv, HandleRemove, UNCHANGED <<main, known, virtual>> PROVE DaemonInv'
<1> DEFINE event == Head(batch)
           p == event.path
           matches(entry) == Exists(entry)
                               /\ GenerationMatchesRemoval(entry.generation, event)
           s1 == IF matches(m.retries[p]) THEN ForgetRetry(Noted, p) ELSE Noted
           s2 == IF matches(m.candidates[p])
                   THEN RemoveCandidate(s1, p, m.candidates[p].fd) ELSE s1
           t == RemoveActive(s2, p)
<1>0. /\ Applies("remove") /\ op.step = "none" /\ phase = "dispatch" /\ batch # <<>>
      /\ UNCHANGED <<cancelled, wake>>
      /\ KernelTypes' /\ feedback' \in Seq({"on", "off"}) /\ todo \subseteq Path
      /\ messages \in Seq(Message) /\ Len(messages) <= MaxMessages
  BY AppliesFacts DEF HandleRemove
<1>1. /\ event \in Event /\ Tail(batch) \in Seq(Event) /\ p \in Path
      /\ m \in State /\ Entries(m)
  BY <1>0, EventNoted, IdleFacts DEF Event
<1>2. \/ Exists(m.byPath[p]) /\ Sends("removed", p) /\ EventDone /\ m' = t /\ op' = op
      \/ Exists(m.byPath[p]) /\ Aborted /\ m' = t /\ Leave
      \/ m' = s2 /\ EventDone /\ UNCHANGED <<messages, op>>
  BY DEF HandleRemove
<1>3. /\ s1 \in State /\ Kept(s1, {}, cancelled) /\ Tried(s1)
      /\ s1.byPath = m.byPath /\ s1.candidates = m.candidates
  BY <1>0, <1>1, EventNoted, Forgets, SameMapsKept DEF SameMaps
<1>4. Exists(m.candidates[p]) => m.candidates[p].fd # 0 /\ m.candidates[p].fd \in Fd
  BY <1>1, Typed DEF Entries, Entry
<1>5. matches(m.candidates[p]) => Exists(m.candidates[p])
  OBVIOUS
<1>6. s2 \in {s1, RemoveCandidate(s1, p, m.candidates[p].fd)}
  OBVIOUS
<1>7. s2 = RemoveCandidate(s1, p, m.candidates[p].fd) /\ s2 # s1 => Exists(m.candidates[p])
  BY <1>5
<1> HIDE DEF s1, s2, t, matches, event, p
<1>8. s2 \in State /\ Kept(s2, {}, cancelled) /\ Tried(s2) /\ s2.byPath = m.byPath
  <2>1. CASE s2 = s1
    BY <1>3, <2>1
  <2>2. CASE s2 # s1
    <3>1. s2 = RemoveCandidate(s1, p, m.candidates[p].fd) /\ m.candidates[p].fd \in Fd
      BY <1>4, <1>6, <1>7, <2>2
    <3>2. /\ s2 \in State /\ Kept(s2, {}, cancelled) /\ s2.retries = s1.retries
          /\ s2.byPath = s1.byPath
      BY <1>1, <1>3, <3>1, RemovesCandidate
    <3> QED
      BY <1>3, <3>2 DEF Tried
  <2> QED
    BY <2>1, <2>2
<1>9. Exists(m.byPath[p]) => t \in State /\ Kept(t, {}, cancelled) /\ Tried(t)
  <2>1. Exists(m.byPath[p]) => s2.byPath[p].fd # 0
    BY <1>1, <1>8 DEF Entries, Entry
  <2> QED
    BY <1>1, <1>8, <2>1, RemovesActive DEF Tried, t
<1>10. m' \in State /\ Kept(m', {}, cancelled) /\ Tried(m')
  BY <1>2, <1>8, <1>9
<1>11. messages' \in Seq(Message) /\ Len(messages') <= MaxMessages
  BY <1>0, <1>1, <1>2, SendsTyped DEF Aborted
<1>12. CASE EventDone /\ op' = op
  BY <1>0, <1>1, <1>10, <1>11, <1>12, HandlerInv DEF EventDone
<1>13. CASE Leave
  BY <1>0, <1>1, <1>10, <1>11, <1>13, HandlerInv DEF Leave
<1> QED
  BY <1>2, <1>12, <1>13
LEMMA HandleAddInv ==
    ASSUME DaemonInv, HandleAdd, UNCHANGED <<main, known, virtual>> PROVE DaemonInv'
<1> DEFINE p == Head(batch).path
           seen == GenerationFromEvent(Head(batch))
           same(entry) == /\ Exists(entry)
                          /\ entry.generation.devPath = seen.devPath
                          /\ ~entry.generation.observedAdd
           g == IF same(m.retries[p]) THEN AdoptObservedAdd(m.retries[p].generation, seen)
                                      ELSE seen
           s == IF same(m.retries[p]) THEN [Noted EXCEPT !.retries[p].generation = g]
                                      ELSE Noted
           adopted(entry) == AdoptObservedAdd(entry.generation, g)
           s1 == IF p \in Active(m) THEN RemoveActive(s, p) ELSE s
           s2 == IF p \in Pending(m) THEN RemoveCandidate(s1, p, m.candidates[p].fd) ELSE s1
           opens == IF MayBegin(s2, p, g) THEN Consider(BeginRetry(s2, p, g), p, g)
                                          ELSE m' = s2 /\ UNCHANGED op
           new == adopted(m.candidates[p])
<1>0. /\ Applies("add") /\ op.step = "none" /\ phase = "dispatch" /\ batch # <<>>
      /\ UNCHANGED <<cancelled, wake>>
      /\ KernelTypes' /\ feedback' \in Seq({"on", "off"}) /\ todo \subseteq Path
      /\ messages \in Seq(Message) /\ Len(messages) <= MaxMessages
  BY AppliesFacts DEF HandleAdd
<1>1. /\ Head(batch) \in Event /\ Tail(batch) \in Seq(Event) /\ p \in Path
      /\ m \in State /\ Entries(m)
  BY <1>0, EventNoted, IdleFacts DEF Event
<1> DEFINE found == /\ m' = [s EXCEPT !.byPath[p].generation = adopted(m.byPath[p])]
                   /\ EventDone /\ UNCHANGED <<messages, op>>
           awaited == /\ m' = [s EXCEPT !.candidates[p].generation = new,
                                        !.retries[p].generation =
                                           IF Exists(s.retries[p]) THEN new ELSE @]
                      /\ EventDone /\ UNCHANGED <<messages, op>>
           replaces == Sends("removed", p) /\ EventDone /\ opens
           breaksOff == Aborted /\ m' = s1 /\ Leave
           begins == UNCHANGED messages /\ EventDone /\ opens
<1>2. \/ same(m.byPath[p]) /\ found
      \/ same(m.candidates[p]) /\ awaited
      \/ p \in Active(m) /\ replaces
      \/ breaksOff
      \/ begins
  <2>1. (CASE same(m.byPath[p]) -> found
           [] ~same(m.byPath[p]) /\ same(m.candidates[p]) -> awaited
           [] OTHER -> IF p \in Active(m) THEN replaces \/ breaksOff ELSE begins)
    BY DEF HandleAdd
  <2> HIDE DEF found, awaited, replaces, breaksOff, begins, same, p
  <2>2. CASE same(m.byPath[p])
    BY <2>1, <2>2
  <2>3. CASE ~same(m.byPath[p]) /\ same(m.candidates[p])
    BY <2>1, <2>3
  <2>4. CASE ~same(m.byPath[p]) /\ ~same(m.candidates[p])
    BY <2>1, <2>4
  <2> QED
    BY <2>2, <2>3, <2>4
<1>3. seen \in Known /\ g \in Known
  <2>1. seen \in Known /\ seen \in Generation
    BY <1>1, Observed DEF Known
  <2>2. m.retries[p].generation \in Generation
    BY <1>1, Typed
  <2> QED
    BY <2>1, <2>2, Observed
<1>4. same(m.byPath[p]) => Exists(m.byPath[p])
  OBVIOUS
<1>5. same(m.candidates[p]) => Exists(m.candidates[p])
  OBVIOUS
<1>6. adopted(m.byPath[p]) \in Known /\ new \in Known
  BY <1>1, <1>3, Typed, Observed DEF Known
<1> HIDE DEF seen, g, same, adopted, new, p
<1>7. /\ s \in State /\ Kept(s, {}, cancelled) /\ Tried(s)
      /\ s.byPath = m.byPath /\ s.candidates = m.candidates
  <2>1. /\ Noted \in State /\ Kept(Noted, {}, cancelled) /\ Tried(Noted)
        /\ Noted.byPath = m.byPath /\ Noted.candidates = m.candidates
    BY <1>0, EventNoted
  <2> HIDE DEF Noted
  <2>2. LET t == [Noted EXCEPT !.retries[p].generation = g]
        IN /\ t \in State /\ Kept(t, {}, cancelled) /\ Tried(t)
           /\ t.byPath = m.byPath /\ t.candidates = m.candidates
    BY <1>1, <1>3, <2>1, Renames
  <2> QED
    BY <2>1, <2>2
<1> HIDE DEF s
<1>8. /\ s1 \in State /\ Kept(s1, {}, cancelled) /\ Tried(s1)
      /\ s1.candidates = m.candidates
      /\ p \notin Active(m) => s1.byPath = m.byPath
  <2>1. CASE p \in Active(m)
    <3>1. s.byPath[p].fd # 0
      BY <1>1, <1>7, <2>1 DEF Active, Entries, Entry
    <3>2. LET t == RemoveActive(s, p)
          IN /\ t \in State /\ Kept(t, {}, cancelled) /\ t.retries = s.retries
             /\ t.candidates = s.candidates
      BY <1>1, <1>7, <3>1, RemovesActive
    <3> QED
      BY <1>7, <2>1, <3>2 DEF Tried
  <2>2. CASE p \notin Active(m)
    BY <1>7, <2>2
  <2> QED
    BY <2>1, <2>2
<1> HIDE DEF s1
<1>9. s2 \in State /\ Kept(s2, {}, cancelled) /\ Tried(s2)
  <2>1. CASE p \in Pending(m)
    <3>1. m.candidates[p].fd \in Fd
      BY <1>1, <2>1, Typed DEF Pending, Entries, Entry
    <3>2. LET t == RemoveCandidate(s1, p, m.candidates[p].fd)
          IN t \in State /\ Kept(t, {}, cancelled) /\ t.retries = s1.retries
      BY <1>1, <1>8, <3>1, RemovesCandidate
    <3> QED
      BY <1>8, <2>1, <3>2 DEF Tried
  <2>2. CASE p \notin Pending(m)
    BY <1>8, <2>2
  <2> QED
    BY <2>1, <2>2
<1> HIDE DEF s2
<1>a. EventDone => batch' \in Seq(Event) /\ UNCHANGED <<phase, todo>>
  BY <1>1 DEF EventDone
<1>b. Leave => batch' = <<>> /\ phase' = "close" /\ todo' = {} /\ op' = NoOp
  BY DEF Leave
<1>c. <<>> \in Seq(Event)
  OBVIOUS
<1>10. /\ EventDone => batch' \in Seq(Event) /\ UNCHANGED <<phase, todo>>
       /\ Leave => batch' \in Seq(Event) /\ phase' = "close" /\ todo' = {} /\ op' = NoOp
  BY <1>a, <1>b, <1>c
<1>11. ASSUME EventDone, opens, messages' \in Seq(Message), Len(messages') <= MaxMessages
       PROVE  DaemonInv'
  <2>1. CASE MayBegin(s2, p, g) /\ Consider(BeginRetry(s2, p, g), p, g)
    <3>1. /\ SameMaps(s2, m') /\ Tried(m')
          /\ op' = IF p \in Active(m') \cup Pending(m') THEN NoOp ELSE Call(p, g, FALSE)
      BY <1>1, <1>3, <1>9, <2>1, Begins DEF Consider
    <3>2. m' \in State /\ Kept(m', {}, cancelled')
      BY <1>0, <1>9, <3>1, SameMapsKept
    <3>3. LoopTypes' /\ ChannelTypes' /\ TodoStands' /\ EndStands'
      BY <1>0, <1>10, <1>11 DEF DaemonInv, LoopTypes, ChannelTypes, TodoStands, EndStands
    <3>4. p \notin todo' /\ phase' \in {"retry", "dispatch"}
      BY <1>0, <1>10, <1>11 DEF DaemonInv, TodoStands
    <3> QED
      BY <1>0, <1>1, <1>3, <3>1, <3>2, <3>3, <3>4, ConsiderInv
  <2>2. CASE m' = s2 /\ UNCHANGED op
    BY <1>0, <1>9, <1>10, <1>11, <2>2, HandlerInv
  <2> QED
    BY <1>11, <2>1, <2>2
<1> HIDE DEF opens
<1>12. CASE same(m.byPath[p]) /\ found
  <2>1. m' \in State /\ Kept(m', {}, cancelled) /\ Tried(m')
    BY <1>1, <1>4, <1>6, <1>7, <1>12, Renames
  <2> QED
    BY <1>0, <1>10, <1>12, <2>1, HandlerInv
<1>13. CASE same(m.candidates[p]) /\ awaited
  <2> DEFINE r == [s EXCEPT !.candidates[p].generation = new]
  <2>1. r \in State /\ Kept(r, {}, cancelled) /\ Tried(r) /\ r.retries = s.retries
    BY <1>1, <1>5, <1>6, <1>7, <1>13, Renames
  <2>2. m' = IF Exists(s.retries[p]) THEN [r EXCEPT !.retries[p].generation = new]
             ELSE [r EXCEPT !.retries[p].generation = @]
    BY <1>13
  <2>3. LET t == [r EXCEPT !.retries[p].generation = new]
        IN t \in State /\ Kept(t, {}, cancelled) /\ Tried(t)
    BY <1>1, <1>6, <2>1, Renames
  <2> HIDE DEF r
  <2>4. [r EXCEPT !.retries[p].generation = @] = r
    <3> DEFINE a == r.retries[p]
    <3>1. [a EXCEPT !.generation = a.generation] = a
      BY <1>1, <2>1, Typed DEF Attempt
    <3>2. [r.retries EXCEPT ![p] = a] = r.retries
      BY <1>1, <2>1 DEF State
    <3>3. [r EXCEPT !.retries = r.retries] = r
      BY <2>1 DEF State
    <3> QED
      BY <3>1, <3>2, <3>3
  <2>5. m' \in State /\ Kept(m', {}, cancelled) /\ Tried(m')
    BY <2>1, <2>2, <2>3, <2>4
  <2> QED
    BY <1>0, <1>10, <1>13, <2>5, HandlerInv
<1>14. CASE p \in Active(m) /\ replaces
  BY <1>0, <1>1, <1>11, <1>14, SendsTyped
<1>15. CASE breaksOff
  BY <1>0, <1>8, <1>10, <1>15, HandlerInv DEF Aborted
<1>16. CASE begins
  BY <1>0, <1>11, <1>16
<1> HIDE DEF found, awaited, replaces, breaksOff, begins
<1> QED
  BY <1>2, <1>12, <1>13, <1>14, <1>15, <1>16
-----------------------------------------------------------------------------
(* The end of the manager                                                  *)

LEMMA ReportErrorInv ==
    ASSUME DaemonInv, ReportError, UNCHANGED <<main, known, virtual>> PROVE DaemonInv'
<1> USE DEF ReportError
<1>1. op.step = "none" /\ op' = op /\ phase = "fatal"
  BY DEF DaemonInv, OpStands
<1>2. m' \in State /\ Kept(m', {}, cancelled) /\ Tried(m')
  BY <1>1, IdleFacts
<1>3. /\ KernelTypes' /\ batch' \in Seq(Event) /\ feedback' \in Seq({"on", "off"})
      /\ todo' \subseteq Path /\ messages \in Seq(Message) /\ Len(messages) <= MaxMessages
  BY DEF DaemonInv, KernelTypes, kernelVars, LoopTypes, ChannelTypes, ledVars
<1>4. messages' \in Seq(Message) /\ Len(messages') <= MaxMessages
  BY <1>3, SendsTyped, NoOpTyped DEF Aborted
<1> QED
  BY <1>1, <1>2, <1>3, <1>4, HandlerInv

(* All that is open is tracked, so that nothing stays open.                *)
LEMMA AllIsClosed ==
    ASSUME m \in State, Kept(m, {}, cancelled)
    PROVE  /\ AllClosed \in State /\ AllClosed.retries = m.retries
           /\ AllClosed.grabs = {} /\ \A f \in Fd : AllClosed.file[f] = 0
           /\ \A p \in Path : /\ AllClosed.byPath[p] = NoDevice
                              /\ AllClosed.candidates[p] = NoDevice
<1> DEFINE none == [p \in Path |-> NoDevice]
           fds == {m.byPath[p].fd : p \in Path} \cup {m.candidates[p].fd : p \in Path}
           r == CloseFds(m, fds)
           t == [r EXCEPT !.byPath = none, !.candidates = none]
<1>1. Covered(m, {}) /\ m.grabs \subseteq Fd
  BY Typed DEF Kept
<1>2. \A f \in Fd : m.file[f] # 0 => f \in fds
  BY <1>1 DEF Covered
<1>3. \A f \in m.grabs : f \in fds
  BY <1>1, <1>2 DEF Covered
<1> HIDE DEF fds
<1>4. /\ r \in State /\ r.retries = m.retries /\ r.grabs = {}
      /\ \A f \in Fd : r.file[f] = 0
  BY <1>2, <1>3, Closes
<1> HIDE DEF r
<1>5. none \in [Path -> Device] /\ \A p \in Path : none[p] = NoDevice
  BY Nothing
<1> HIDE DEF none
<1>6. /\ t \in State /\ t.retries = m.retries /\ t.grabs = {}
      /\ \A f \in Fd : t.file[f] = 0
      /\ t.byPath = none /\ t.candidates = none
  BY <1>4, <1>5 DEF State
<1>7. t = AllClosed
  BY DEF AllClosed, t, r, none, fds
<1> QED
  BY <1>5, <1>6, <1>7

LEMMA CloseInv ==
    ASSUME DaemonInv, Close, UNCHANGED <<main, known, virtual>> PROVE DaemonInv'
<1> USE DEF Close
<1>1. op.step = "none" /\ op' = op /\ OpTypes'
  BY DEF DaemonInv, OpStands, OpTypes
<1>2. /\ m' \in State /\ m'.retries = m.retries
      /\ m'.grabs = {} /\ \A f \in Fd : m'.file[f] = 0
      /\ \A p \in Path : m'.byPath[p] = NoDevice /\ m'.candidates[p] = NoDevice
  BY <1>1, IdleFacts, AllIsClosed
<1>3. Kept(m', {}, cancelled')
  <2>1. Entries(m')
    BY <1>2, NoEntry DEF Entries
  <2>2. Covered(m', {})
    BY <1>2 DEF Covered
  <2>3. Exact(m', {})
    BY <1>2, NoEntry DEF Exact
  <2> QED
    BY <2>1, <2>2, <2>3 DEF Kept
<1>4. Tried(m')
  BY <1>2 DEF Tried, DaemonInv
<1>5. KernelTypes' /\ LoopTypes' /\ ChannelTypes'
  BY DEF DaemonInv, KernelTypes, kernelVars, LoopTypes, ChannelTypes, ledVars
<1>6. wake' \notin {"armed", "running"}
  OBVIOUS
<1>7. TodoStands' /\ EndStands'
  BY <1>2, <1>6 DEF TodoStands, EndStands
<1> QED
  BY <1>1, <1>2, <1>3, <1>4, <1>5, <1>7, RestInv

-----------------------------------------------------------------------------
(* What happens around the manager, and the main loop (module Daemon)      *)

(* The manager itself is left alone.                                       *)
LEMMA AroundInv ==
    ASSUME DaemonInv, UNCHANGED <<m, op, phase, todo>>, cancelled => cancelled',
           KernelTypes', LoopTypes', ChannelTypes', EndStands'
    PROVE  DaemonInv'
<1>1. BeingOpened' = BeingOpened
  BY DEF BeingOpened
<1>2. Kept(m', BeingOpened', cancelled')
  BY <1>1 DEF DaemonInv, Kept
<1>3. OpTypes' /\ OpStands' /\ TodoStands' /\ Tried(m') /\ m' \in State
  BY DEF DaemonInv, OpTypes, OpStands, TodoStands
<1> QED
  BY <1>2, <1>3 DEF DaemonInv

LEMMA EventMade ==
    ASSUME NEW p \in Path, NEW i \in Incarnation, NEW n \in Nat
    PROVE  DeviceEvent("add", p, i, n) \in Event /\ DeviceEvent("remove", p, i, n) \in Event
  BY DEF DeviceEvent, Event

LEMMA KernelInv ==
    ASSUME DaemonInv, KernelStep, UNCHANGED <<main, known, virtual>> PROVE DaemonInv'
<1> USE DEF KernelStep
<1>1. PICK p \in Path : Plug(p) \/ Unplug(p)
  OBVIOUS
<1>2. /\ KernelTypes /\ seqnum + 1 \in Nat
  BY DEF DaemonInv, KernelTypes
<1>3. ASSUME Plug(p) PROVE KernelTypes'
  <2>1. plugs + 1 \in Incarnation /\ plugs + 1 \in 0 .. MaxPlugs
    BY <1>2, <1>3, DevPathAssumption DEF Plug, KernelTypes, Incarnation
  <2>2. DeviceEvent("add", p, plugs + 1, seqnum + 1) \in Event
    BY <1>2, <2>1, EventMade
  <2>3. udevd' \in Seq(Event) /\ seqnum' \in Nat
    BY <1>2, <1>3, <2>2 DEF Plug, Emit, KernelTypes
  <2> QED
    BY <1>2, <1>3, <2>1, <2>3 DEF Plug, KernelTypes
<1>4. ASSUME Unplug(p) PROVE KernelTypes'
  <2>1. node[p] \in Incarnation
    BY <1>2, <1>4 DEF Unplug, KernelTypes
  <2>2. DeviceEvent("remove", p, node[p], seqnum + 1) \in Event
    BY <1>2, <2>1, EventMade
  <2>3. udevd' \in Seq(Event) /\ seqnum' \in Nat
    BY <1>2, <1>4, <2>2 DEF Unplug, Emit, KernelTypes
  <2> QED
    BY <1>2, <1>4, <2>3 DEF Unplug, KernelTypes
<1>5. KernelTypes'
  BY <1>1, <1>3, <1>4
<1>6. LoopTypes' /\ ChannelTypes' /\ EndStands'
  BY DEF DaemonInv, LoopTypes, ChannelTypes, EndStands, stepVars, ledVars
<1> QED
  BY <1>5, <1>6, AroundInv DEF stepVars

LEMMA UdevdInv ==
    ASSUME DaemonInv, UdevdStep, UNCHANGED <<main, known, virtual>> PROVE DaemonInv'
<1> USE DEF UdevdStep
<1>1. KernelTypes
  BY DEF DaemonInv
<1>2. PICK i \in DOMAIN udevd :
        /\ udevd' = RemoveAt(udevd, i)
        /\ monitor' \in {monitor, Append(monitor, udevd[i])}
        /\ UNCHANGED <<node, plugs, seqnum>>
  BY DEF SendOn
<1>3. udevd \in Seq(Event) /\ monitor \in Seq(Event) /\ udevd[i] \in Event
      /\ i \in 1 .. Len(udevd)
  BY <1>1, <1>2 DEF KernelTypes
<1>4. udevd' \in Seq(Event)
  <2>1. SubSeq(udevd, 1, i - 1) \in Seq(Event) /\ SubSeq(udevd, i + 1, Len(udevd)) \in Seq(Event)
    BY <1>3
  <2> QED
    BY <1>2, <2>1 DEF RemoveAt
<1>5. Append(monitor, udevd[i]) \in Seq(Event)
  BY <1>3
<1>6. KernelTypes'
  BY <1>1, <1>2, <1>3, <1>4, <1>5 DEF KernelTypes
<1>7. LoopTypes' /\ ChannelTypes' /\ EndStands'
  BY DEF DaemonInv, LoopTypes, ChannelTypes, EndStands, stepVars, ledVars
<1> QED
  BY <1>6, <1>7, AroundInv DEF stepVars

LEMMA NoticedInv ==
    ASSUME DaemonInv, WakeWrites \/ Compositor, UNCHANGED <<main, known, virtual>>
    PROVE  DaemonInv'
<1> USE DEF WakeWrites, Compositor
<1>1. KernelTypes'
  BY DEF DaemonInv, KernelTypes, kernelVars
<1>2. feedback \in Seq({"on", "off"})
  BY DEF DaemonInv, LoopTypes
<1>3. feedback' \in Seq({"on", "off"})
  <2>1. CASE WakeWrites
    BY <1>2, <2>1 DEF ledVars
  <2>2. CASE Compositor
    BY <1>2, <2>2
  <2> QED
    BY <2>1, <2>2
<1>4. LoopTypes'
  BY <1>3 DEF DaemonInv, LoopTypes, stepVars
<1>5. ChannelTypes' /\ EndStands'
  BY DEF DaemonInv, ChannelTypes, EndStands, stepVars, ledVars
<1> QED
  BY <1>1, <1>4, <1>5, AroundInv DEF stepVars

(* The main loop takes a message, or leaves.                               *)
LEMMA MainInv == ASSUME DaemonInv, MainStep \/ Signal PROVE DaemonInv'
<1> USE DEF MainStep, Signal, TakeMessage, LeaveLoop, Return, Others
<1>1. UNCHANGED <<m, op, phase, todo, kernelVars, batch, feedback>>
  BY DEF stepVars, ledVars
<1>2. KernelTypes' /\ LoopTypes'
  BY <1>1 DEF DaemonInv, KernelTypes, kernelVars, LoopTypes
<1>3. /\ messages \in Seq(Message) /\ Len(messages) <= MaxMessages
      /\ known \subseteq Path /\ cancelled \in BOOLEAN /\ virtual \in BOOLEAN
      /\ wake \in {"none", "armed", "running", "written", "stopped"}
      /\ main \in {"running", "returning", "ended"}
  BY DEF DaemonInv, ChannelTypes
<1>4. messages' \in Seq(Message) /\ Len(messages') <= MaxMessages
  <2>1. CASE TakeMessage
    BY <1>3, <2>1, ManagerAssumption
  <2>2. CASE ~TakeMessage
    <3>1. messages' = messages
      BY <2>2
    <3> QED
      BY <1>3, <3>1
  <2> QED
    BY <2>1, <2>2
<1>5. known' \subseteq Path
  <2>1. CASE messages # <<>> /\ known' = Told(known, Head(messages))
    <3>1. Head(messages) \in Message
      BY <1>3, <2>1
    <3>2. Head(messages).path \in Path
      BY <3>1 DEF Message
    <3> QED
      BY <1>3, <2>1, <3>2 DEF Told
  <2>2. CASE known' \in {known, {}}
    BY <1>3, <2>2
  <2>3. known' \in {known, {}} \/ (messages # <<>> /\ known' = Told(known, Head(messages)))
    BY DEF Leaves
  <2> QED
    BY <2>1, <2>2, <2>3
<1>6. \/ UNCHANGED <<cancelled, wake>>
      \/ cancelled' = TRUE /\ wake' = IF wake = "armed" THEN "running" ELSE wake
  BY DEF Leaves, Cancels
<1>7. main' \in {"running", "returning", "ended"} /\ virtual' \in {virtual, FALSE}
  BY <1>3 DEF Leaves
<1>8. ChannelTypes'
  <2>1. /\ cancelled' \in BOOLEAN
        /\ wake' \in {"none", "armed", "running", "written", "stopped"}
    BY <1>3, <1>6
  <2>2. virtual' \in BOOLEAN
    BY <1>3, <1>7
  <2> QED
    BY <1>4, <1>5, <1>7, <2>1, <2>2 DEF ChannelTypes
<1>9. virtual' # virtual => phase = "closed"
  OBVIOUS
<1>10. EndStands'
  BY <1>1, <1>6, <1>7, <1>9 DEF DaemonInv, EndStands
<1>11. cancelled => cancelled'
  BY <1>6
<1> QED
  BY <1>1, <1>2, <1>8, <1>10, <1>11, AroundInv

-----------------------------------------------------------------------------
LEMMA DaemonInvInit == DaemonInit => DaemonInv
<1> SUFFICES ASSUME DaemonInit PROVE DaemonInv
  OBVIOUS
<1> USE DEF DaemonInit, ManagerInit, KernelInit
<1>1. m \in State /\ m = NewState
  BY Nothing DEF NewState, State
<1>2. KernelTypes /\ LoopTypes
  BY DevPathAssumption DEF KernelTypes, LoopTypes
<1>3. ChannelTypes
  <2>1. <<>> \in Seq(Message) /\ Len(<<>>) = 0
    OBVIOUS
  <2>2. messages = <<>> /\ 0 <= MaxMessages
    BY ManagerAssumption
  <2> QED
    BY <2>1, <2>2 DEF ChannelTypes
<1>4. op = NoOp /\ BeingOpened = {}
  BY NoOpTyped DEF BeingOpened
<1>5. OpTypes /\ OpStands
  BY <1>4, NoOpTyped DEF OpTypes, OpStands, Calls
<1>6. Kept(m, {}, cancelled)
  <2>1. /\ \A p \in Path : m.byPath[p] = NoDevice /\ m.candidates[p] = NoDevice
        /\ \A f \in Fd : m.file[f] = 0
        /\ m.grabs = {}
    BY <1>1 DEF NewState
  <2> QED
    BY <2>1, NoEntry DEF Kept, Entries, Covered, Exact
<1>7. Tried(m) /\ TodoStands
  BY <1>1, NoEntry DEF Tried, TodoStands, NewState, NoRetry, NoDevice, Untracked
<1>8. EndStands
  BY DEF EndStands
<1> QED
  BY <1>1, <1>2, <1>3, <1>4, <1>5, <1>6, <1>7, <1>8 DEF DaemonInv

LEMMA DaemonInvStep == DaemonInv /\ [DaemonNext]_daemonVars => DaemonInv'
<1> SUFFICES ASSUME DaemonInv, [DaemonNext]_daemonVars PROVE DaemonInv'
  OBVIOUS
<1>1. ASSUME AcquisitionStep, UNCHANGED <<main, known, virtual>> PROVE DaemonInv'
  BY <1>1, OpenNodeInv, IdentifyInv, SampleFloorInv, ValidateInv, ProbeInv, AcquireInv
     DEF AcquisitionStep
<1>2. ASSUME LoopStep, UNCHANGED <<main, known, virtual>> PROVE DaemonInv'
  <2>1. ASSUME NEW p \in Path, EnumerateNode(p) \/ CheckCandidate(p) \/ Retry(p)
        PROVE  DaemonInv'
    BY <1>2, <2>1, EnumerateInv, CheckInv, RetryInv
  <2> QED
    BY <1>2, <2>1, SubscribeInv, TurnInv DEF LoopStep
<1>3. ASSUME HandlerStep, UNCHANGED <<main, known, virtual>> PROVE DaemonInv'
  <2>1. CASE ReadMonitor \/ LoopFails
    BY <1>3, <2>1, ReadInv
  <2>2. CASE HandleDevice \/ HandleFeedback \/ HandleWake
    BY <1>3, <2>2, HandleDeviceInv, HandleFeedbackInv, TurnInv
  <2>3. CASE IgnoreEvent \/ HandleRemove \/ HandleAdd
    BY <1>3, <2>3, IgnoreEventInv, HandleRemoveInv, HandleAddInv
  <2>4. CASE ReportError \/ Close
    BY <1>3, <2>4, ReportErrorInv, CloseInv
  <2> QED
    BY <1>3, <2>1, <2>2, <2>3, <2>4 DEF HandlerStep
<1>4. CASE Concurrent
  BY <1>1, <1>2, <1>3, <1>4, NoticedInv, KernelInv, UdevdInv DEF Concurrent, ManagerStep
<1>5. CASE MainStep \/ Signal
  BY <1>5, MainInv
<1>6. CASE UNCHANGED daemonVars
  <2>1. UNCHANGED <<kernelVars, m, phase, todo, batch, op, messages, cancelled, wake,
                    feedback, main, known, virtual>>
    BY <1>6 DEF daemonVars, managerVars, stepVars, ledVars
  <2>2. KernelTypes' /\ LoopTypes' /\ ChannelTypes' /\ EndStands'
    BY <2>1 DEF DaemonInv, KernelTypes, kernelVars, LoopTypes, ChannelTypes, EndStands
  <2> QED
    BY <2>1, <2>2, AroundInv
<1> QED
  BY <1>4, <1>5, <1>6 DEF DaemonNext

LEMMA OwnedExactly == DaemonInv => DescriptorsOwned
<1> SUFFICES ASSUME DaemonInv, ~cancelled PROVE
        /\ {f \in Fd : m.file[f] # 0} = (UNION {Owned(p) : p \in Path}) \cup BeingOpened
        /\ Active(m) \cap Pending(m) = {}
        /\ \A p \in Path :
              /\ Owned(p) \cap BeingOpened = {}
              /\ \A q \in Path \ {p} : Owned(p) \cap Owned(q) = {}
        /\ m.grabs = ActiveFd(m)
  BY DEF DescriptorsOwned
<1>1. /\ m \in State /\ Entries(m) /\ Covered(m, BeingOpened) /\ Exact(m, BeingOpened)
  BY DEF DaemonInv, Kept
<1>2. BeingOpened \subseteq Fd
  BY DEF DaemonInv, BeingOpened, OpTypes, Operation
<1>3. \A p \in Path : /\ m.byPath[p].fd \in Fd \cup {0} /\ m.candidates[p].fd \in Fd \cup {0}
                      /\ p \in Active(m) <=> m.byPath[p].fd # 0
                      /\ p \in Pending(m) <=> m.candidates[p].fd # 0
  BY <1>1, Typed DEF Entries, Entry, Active, Pending
<1>4. \A p \in Path : \A f : f \in Owned(p)
         <=> f # 0 /\ (f = m.byPath[p].fd \/ f = m.candidates[p].fd)
  BY DEF Owned
<1>5. 0 \notin Fd
  BY ManagerAssumption
<1>6. {f \in Fd : m.file[f] # 0} = (UNION {Owned(p) : p \in Path}) \cup BeingOpened
  <2>1. ASSUME NEW f \in Fd, m.file[f] # 0
        PROVE  f \in BeingOpened \/ \E p \in Path : f \in Owned(p)
    BY <1>1, <1>4, <1>5, <2>1 DEF Covered
  <2>2. ASSUME NEW p \in Path, NEW f \in Owned(p) PROVE f \in Fd /\ m.file[f] # 0
    BY <1>1, <1>3, <1>4, <2>2 DEF Exact
  <2>3. \A f \in BeingOpened : f \in Fd /\ m.file[f] # 0
    BY <1>1, <1>2 DEF Exact
  <2> QED
    BY <2>1, <2>2, <2>3
<1>7. Active(m) \cap Pending(m) = {}
  <2>1. Active(m) \subseteq Path
    BY DEF Active
  <2> QED
    BY <1>1, <1>3, <2>1 DEF Entries
<1>8. ASSUME NEW p \in Path, NEW f \in Owned(p)
      PROVE  f \notin BeingOpened /\ \A q \in Path \ {p} : f \notin Owned(q)
  <2>1. f # 0 /\ (f = m.byPath[p].fd \/ f = m.candidates[p].fd)
    BY <1>4
  <2>2. f \in m.grabs <=> f = m.byPath[p].fd
    BY <1>1, <2>1 DEF Exact
  <2>3. ASSUME NEW q \in Path, f \in Owned(q) PROVE q = p
    <3>1. f = m.byPath[q].fd \/ f = m.candidates[q].fd
      BY <1>4, <2>3
    <3>2. f \in m.grabs <=> f = m.byPath[q].fd
      BY <1>1, <2>1, <3>1 DEF Exact
    <3> QED
      BY <1>1, <2>1, <2>2, <3>1, <3>2 DEF Exact
  <2>4. f \notin BeingOpened
    BY <1>1, <2>1, <2>2 DEF Exact
  <2> QED
    BY <2>3, <2>4
<1>9. m.grabs = ActiveFd(m)
  <2>1. ASSUME NEW f \in m.grabs PROVE f \in ActiveFd(m)
    <3>1. PICK p \in Path : m.byPath[p].fd = f
      BY <1>1 DEF Exact
    <3>2. f \in Fd
      BY <1>1 DEF State
    <3> QED
      BY <1>3, <1>5, <3>1, <3>2 DEF ActiveFd
  <2>2. ASSUME NEW p \in Active(m) PROVE m.byPath[p].fd \in m.grabs
    <3>1. p \in Path
      BY DEF Active
    <3> QED
      BY <1>1, <1>3, <2>2, <3>1 DEF Exact
  <2> QED
    BY <2>1, <2>2 DEF ActiveFd
<1> QED
  BY <1>6, <1>7, <1>8, <1>9

-----------------------------------------------------------------------------
(* Messages and LEDs (modules Acquisition, Manager and Daemon)             *)

(* Of the queue: a message is taken.                                       *)
LEMMA KnowsTail ==
    ASSUME NEW view, NEW queue \in Seq(Message), queue # <<>>, NEW p \in Path
    PROVE  WillKnow(Told(view, Head(queue)), Tail(queue), p) <=> WillKnow(view, queue, p)
<1> DEFINE About(q, kind) == {i \in DOMAIN q : q[i] = [kind |-> kind, path |-> p]}
           rest == Tail(queue)
<1>1. /\ DOMAIN queue = 1 .. Len(queue) /\ Len(queue) \in Nat \ {0}
      /\ DOMAIN rest = 1 .. Len(queue) - 1
      /\ \A i \in DOMAIN rest : rest[i] = queue[i + 1]
      /\ Head(queue) = queue[1] /\ queue[1] \in Message
  OBVIOUS
<1> HIDE DEF rest
<1>2. ASSUME NEW kind
      PROVE  /\ \A i \in About(rest, kind) : i + 1 \in About(queue, kind)
             /\ \A i \in About(queue, kind) \ {1} : i - 1 \in About(rest, kind)
             /\ 1 \in About(queue, kind) <=> queue[1] = [kind |-> kind, path |-> p]
             /\ About(queue, kind) \subseteq Nat \ {0} /\ About(rest, kind) \subseteq Nat \ {0}
  <2>1. \A i \in About(queue, kind) \ {1} : i - 1 \in DOMAIN rest /\ i = (i - 1) + 1
    BY <1>1
  <2> QED
    BY <1>1, <2>1
<1>3. /\ queue[1] = [kind |-> "resync", path |-> p]
           <=> queue[1].kind = "resync" /\ queue[1].path = p
      /\ queue[1] = [kind |-> "removed", path |-> p]
           <=> queue[1].kind = "removed" /\ queue[1].path = p
  BY <1>1 DEF Message
<1>4. p \in Told(view, queue[1])
        <=> \/ 1 \in About(queue, "resync")
            \/ p \in view /\ 1 \notin About(queue, "removed")
  BY <1>1, <1>2, <1>3 DEF Told
<1> DEFINE R(q) == About(q, "resync")
           D(q) == About(q, "removed")
<1>5. ~(1 \in R(queue) /\ 1 \in D(queue))
  BY <1>2, <1>3
<1>6. D(rest) = {} <=> D(queue) \subseteq {1}
  BY <1>2
<1>7. (\E i \in R(rest) : \A j \in D(rest) : j < i)
        <=> \E i \in R(queue) \ {1} : \A j \in D(queue) : j < i
  <2>1. ASSUME NEW i \in R(rest), \A j \in D(rest) : j < i
        PROVE  i + 1 \in R(queue) \ {1} /\ \A j \in D(queue) : j < i + 1
    <3>1. ASSUME NEW j \in D(queue) PROVE j < i + 1
      <4>1. j = 1 \/ (j - 1 \in D(rest) /\ j - 1 < i)
        BY <1>2, <2>1
      <4> QED
        BY <1>2, <4>1
    <3> QED
      BY <1>2, <3>1
  <2>2. ASSUME NEW i \in R(queue) \ {1}, \A j \in D(queue) : j < i
        PROVE  i - 1 \in R(rest) /\ \A j \in D(rest) : j < i - 1
    <3>1. ASSUME NEW j \in D(rest) PROVE j < i - 1
      <4>1. j + 1 \in D(queue) /\ j + 1 < i
        BY <1>2, <2>2
      <4> QED
        BY <1>2, <4>1
    <3> QED
      BY <1>2, <3>1
  <2> QED
    BY <2>1, <2>2
<1>8. (\E i \in R(queue) : \A j \in D(queue) : j < i)
        <=> \/ 1 \in R(queue) /\ D(queue) \subseteq {1}
            \/ \E i \in R(queue) \ {1} : \A j \in D(queue) : j < i
  <2>1. 1 \in R(queue) => ((\A j \in D(queue) : j < 1) <=> D(queue) \subseteq {1})
    BY <1>2, <1>5
  <2> QED
    BY <2>1
<1>9. WillKnow(view, queue, p)
        <=> (p \in view /\ D(queue) = {}) \/ \E i \in R(queue) : \A j \in D(queue) : j < i
  BY DEF WillKnow
<1>10. WillKnow(Told(view, Head(queue)), rest, p)
        <=> \/ p \in Told(view, queue[1]) /\ D(rest) = {}
            \/ \E i \in R(rest) : \A j \in D(rest) : j < i
  BY <1>1 DEF WillKnow
<1>11. D(queue) = {} <=> D(queue) \subseteq {1} /\ 1 \notin D(queue)
  OBVIOUS
<1> HIDE DEF R, D, About
<1> QED
  BY <1>4, <1>6, <1>7, <1>8, <1>9, <1>10, <1>11 DEF rest, R, D

(* One is sent.                                                            *)
LEMMA KnowsSent ==
    ASSUME NEW view, NEW queue \in Seq(Message), NEW p \in Path, NEW q \in Path,
           NEW kind \in {"resync", "removed", "err"}
    PROVE  WillKnow(view, Append(queue, [kind |-> kind, path |-> q]), p)
             <=> \/ kind = "resync" /\ p = q
                 \/ ~(kind = "removed" /\ p = q) /\ WillKnow(view, queue, p)
<1> DEFINE message == [kind |-> kind, path |-> q]
           longer == Append(queue, message)
           n == Len(queue) + 1
           About(s, k) == {i \in DOMAIN s : s[i] = [kind |-> k, path |-> p]}
<1>1. /\ DOMAIN queue = 1 .. Len(queue) /\ Len(queue) \in Nat /\ DOMAIN longer = 1 .. n
      /\ \A i \in DOMAIN queue : longer[i] = queue[i]
      /\ longer[n] = message
  BY DEF Message
<1>2. message.kind = kind /\ message.path = q
  OBVIOUS
<1> HIDE DEF longer
<1>3. ASSUME NEW k
      PROVE  /\ About(longer, k)
                  = IF k = kind /\ p = q THEN About(queue, k) \cup {n} ELSE About(queue, k)
             /\ About(queue, k) \subseteq 1 .. n - 1
  <2>1. message = [kind |-> k, path |-> p] <=> k = kind /\ p = q
    BY <1>2
  <2>2. \A i : i \in DOMAIN longer <=> i \in DOMAIN queue \/ i = n
    BY <1>1
  <2>3. n \notin DOMAIN queue
    BY <1>1
  <2> HIDE DEF message
  <2> QED
    BY <1>1, <2>1, <2>2, <2>3
<1> HIDE DEF n
<1> DEFINE R(s) == About(s, "resync")
           D(s) == About(s, "removed")
<1>4. WillKnow(view, queue, p)
        <=> (p \in view /\ D(queue) = {}) \/ \E i \in R(queue) : \A j \in D(queue) : j < i
  BY DEF WillKnow
<1>5. WillKnow(view, longer, p)
        <=> (p \in view /\ D(longer) = {}) \/ \E i \in R(longer) : \A j \in D(longer) : j < i
  BY DEF WillKnow
<1>6. R(queue) \subseteq 1 .. n - 1 /\ D(queue) \subseteq 1 .. n - 1 /\ n \in Nat
  BY <1>1, <1>3 DEF n
<1>7. CASE kind = "resync" /\ p = q
  <2>1. R(longer) = R(queue) \cup {n} /\ D(longer) = D(queue)
    BY <1>3, <1>7
  <2>2. \A j \in D(longer) : j < n
    BY <1>6, <2>1
  <2> QED
    BY <1>5, <1>7, <2>1, <2>2 DEF longer, message
<1>8. CASE kind = "removed" /\ p = q
  <2>1. R(longer) = R(queue) /\ D(longer) = D(queue) \cup {n}
    BY <1>3, <1>8
  <2>2. \A i \in R(longer) : ~(n < i)
    BY <1>6, <2>1
  <2> QED
    BY <1>5, <1>8, <2>1, <2>2 DEF longer, message
<1>9. CASE ~(kind \in {"resync", "removed"} /\ p = q)
  <2>1. R(longer) = R(queue) /\ D(longer) = D(queue)
    BY <1>3, <1>9
  <2> QED
    BY <1>4, <1>5, <1>9, <2>1 DEF longer, message
<1> QED
  BY <1>7, <1>8, <1>9

(* What the methods of managerState leave: no file, entry or candidate is  *)
(* new.                                                                    *)
Sheds(s, t) ==
    /\ t.locks = s.locks
    /\ \A f \in Fd : t.file[f] \in {0, s.file[f]}
    /\ \A p \in Path : /\ t.byPath[p].fd \in {0, s.byPath[p].fd}
                       /\ t.candidates[p].fd \in {0, s.candidates[p].fd}

(* All keyboards remain, or all but one.                                   *)
KeepsAll(s, t) == Sheds(s, t) /\ \A p \in Path : t.byPath[p].fd = s.byPath[p].fd

KeepsAllBut(s, t, p) ==
    /\ Sheds(s, t) /\ t.byPath[p].fd = 0
    /\ \A q \in Path \ {p} : t.byPath[q].fd = s.byPath[q].fd

LEMMA KeepsTransitive ==
    ASSUME NEW s, NEW t, NEW u, NEW p \in Path
    PROVE  /\ KeepsAll(s, t) /\ KeepsAll(t, u) => KeepsAll(s, u)
           /\ KeepsAll(s, t) /\ KeepsAllBut(t, u, p) => KeepsAllBut(s, u, p)
           /\ KeepsAllBut(s, t, p) /\ KeepsAll(t, u) => KeepsAllBut(s, u, p)
<1>1. Sheds(s, t) /\ Sheds(t, u) => Sheds(s, u)
  BY DEF Sheds
<1> QED
  BY <1>1 DEF KeepsAll, KeepsAllBut

LEMMA KeepsSame ==
    ASSUME NEW s, NEW t, t.locks = s.locks, t.file = s.file,
           \A p \in Path : /\ t.byPath[p].fd = s.byPath[p].fd
                           /\ t.candidates[p].fd = s.candidates[p].fd
    PROVE  KeepsAll(s, t)
  BY DEF KeepsAll, Sheds

(* Retries.                                                                *)
LEMMA KeepsRetries ==
    ASSUME NEW s \in State, NEW p \in Path, NEW g
    PROVE  /\ KeepsAll(s, ScheduleRetry(s, p, g))
           /\ KeepsAll(s, BeginRetry(s, p, g))
           /\ KeepsAll(s, ForgetRetry(s, p)) /\ ForgetRetry(s, p) \in State
<1>1. \A r : LET t == [s EXCEPT !.retries[p] = r]
             IN KeepsAll(s, t)
  BY KeepsSame DEF State
<1>2. KeepsAll(s, s)
  BY KeepsSame
<1>3. ForgetRetry(s, p) \in State
  BY Nothing DEF ForgetRetry, State
<1> QED
  BY <1>1, <1>2, <1>3 DEF ScheduleRetry, BeginRetry, ForgetRetry

(* Closing.                                                                *)
LEMMA KeepsClosing ==
    ASSUME NEW s \in State, NEW p \in Path, NEW fd
    PROVE  /\ CloseFd(s, fd) \in State /\ KeepsAll(s, CloseFd(s, fd))
           /\ RemoveCandidate(s, p, fd) \in State /\ KeepsAll(s, RemoveCandidate(s, p, fd))
           /\ RemoveActive(s, p) \in State /\ KeepsAllBut(s, RemoveActive(s, p), p)
<1>1. ASSUME NEW f PROVE CloseFd(s, f) \in State /\ KeepsAll(s, CloseFd(s, f))
  <2>1. LET t == CloseFds(s, {f})
        IN /\ t \in State /\ t.byPath = s.byPath /\ t.candidates = s.candidates
           /\ t.locks = s.locks
           /\ \A h \in Fd : t.file[h] = IF h \in {f} THEN 0 ELSE s.file[h]
    BY Closes
  <2> QED
    BY <2>1 DEF CloseFd, KeepsAll, Sheds
<1>2. RemoveCandidate(s, p, fd) \in State /\ KeepsAll(s, RemoveCandidate(s, p, fd))
  <2> DEFINE r == CloseFd(s, fd)
             t == [r EXCEPT !.candidates[p] = NoDevice]
  <2>1. r \in State /\ KeepsAll(s, r)
    BY <1>1
  <2> HIDE DEF r
  <2>2. /\ t \in State /\ t.byPath = r.byPath /\ t.file = r.file /\ t.locks = r.locks
        /\ \A q \in Path : t.candidates[q] = IF q = p THEN NoDevice ELSE r.candidates[q]
    BY <2>1, EntersCandidate, Nothing
  <2> HIDE DEF t
  <2>3. KeepsAll(s, t)
    BY <2>1, <2>2, NoEntry DEF KeepsAll, Sheds
  <2> QED
    BY <2>2, <2>3 DEF RemoveCandidate, t, r
<1>3. RemoveActive(s, p) \in State /\ KeepsAllBut(s, RemoveActive(s, p), p)
  <2> DEFINE r == CloseFd(s, s.byPath[p].fd)
             t == [r EXCEPT !.byPath[p] = NoDevice]
  <2>1. r \in State /\ KeepsAll(s, r)
    BY <1>1
  <2> HIDE DEF r
  <2>2. /\ t \in State /\ t.candidates = r.candidates /\ t.file = r.file /\ t.locks = r.locks
        /\ \A q \in Path : t.byPath[q] = IF q = p THEN NoDevice ELSE r.byPath[q]
    BY <2>1, EntersActive, Nothing
  <2> HIDE DEF t
  <2>3. KeepsAllBut(s, t, p)
    BY <2>1, <2>2, NoEntry DEF KeepsAll, KeepsAllBut, Sheds
  <2> QED
    BY <2>2, <2>3 DEF RemoveActive, t, r
<1> QED
  BY <1>1, <1>2, <1>3

-----------------------------------------------------------------------------
(* A step of the manager that leaves its keyboards, its messages and the   *)
(* LEDs alone, and one that loses a keyboard and says so.                  *)
Steady == KeepsAll(m, m') /\ UNCHANGED <<messages, lit>>
Loses == \E p \in Path : KeepsAllBut(m, m', p) /\ Sends("removed", p) /\ UNCHANGED lit

LEMMA SteadyClosing ==
    ASSUME DaemonInv, op.path \in Path
    PROVE  /\ KeepsAll(m, Closed) /\ KeepsAll(m, ClosedForRetry) /\ KeepsAll(m, Ignored)
           /\ KeepsAll(m, CandidateFails(m))
<1>1. m \in State
  BY DEF DaemonInv
<1>2. KeepsAll(m, Closed) /\ Closed \in State
  BY <1>1, KeepsClosing DEF Closed
<1> HIDE DEF Closed
<1>3. KeepsAll(Closed, ClosedForRetry) /\ KeepsAll(Closed, ForgetRetry(Closed, op.path))
  BY <1>2, KeepsRetries DEF ClosedForRetry
<1> DEFINE r == RemoveCandidate(m, op.path, op.fd)
<1>4. KeepsAll(m, r) /\ r \in State
  BY <1>1, KeepsClosing
<1> HIDE DEF r
<1>5. KeepsAll(r, ScheduleRetry(r, op.path, op.generation))
  BY <1>4, KeepsRetries
<1>6. CandidateFails(m) = ScheduleRetry(r, op.path, op.generation)
  BY DEF CandidateFails, r
<1> QED
  BY <1>2, <1>3, <1>4, <1>5, <1>6, KeepsTransitive DEF Ignored

(* The calls of an acquisition that only go on or end.                     *)
LEMMA CallSteady ==
    ASSUME DaemonInv, Identify \/ SampleFloor \/ Validate \/ NotAcquired
    PROVE  Steady
<1>1. m \in State /\ op.path \in Path /\ KeepsAll(m, m)
  BY KeepsSame DEF DaemonInv, OpTypes, Operation
<1>2. \A g : KeepsAll(m, ScheduleRetry(m, op.path, g))
  BY <1>1, KeepsRetries
<1>3. UNCHANGED <<messages, lit>>
  BY DEF Identify, SampleFloor, Validate, NotAcquired, Quiet
<1>4. \/ m' \in {m, Closed, ClosedForRetry, Ignored, CandidateFails(m)}
      \/ \E g : m' = ScheduleRetry(m, op.path, g)
  <2>1. CASE Identify
    BY <2>1 DEF Identify, Ends, Goes
  <2>2. CASE SampleFloor
    BY <2>2 DEF SampleFloor, Ends, Goes
  <2>3. CASE Validate
    BY <2>3 DEF Validate, Ends, Goes
  <2>4. CASE NotAcquired
    BY <2>4 DEF NotAcquired, Ends, Goes
  <2> QED
    BY <2>1, <2>2, <2>3, <2>4
<1> QED
  BY <1>1, <1>2, <1>3, <1>4, SteadyClosing DEF Steady

(* The steps of the loop.                                                  *)
LEMMA LoopSteady ==
    ASSUME DaemonInv,
           LoopStep \/ ReadMonitor \/ HandleWake \/ LoopFails \/ IgnoreEvent
    PROVE  Steady
<1>1. m \in State /\ KeepsAll(m, m)
  BY KeepsSame DEF DaemonInv
<1>2. ASSUME NEW p \in Path, CheckCandidate(p) PROVE Steady
  <2>1. m' \in {m, RemoveCandidate(m, p, m.candidates[p].fd)} /\ UNCHANGED <<messages, lit>>
    BY <1>2 DEF CheckCandidate, ledVars
  <2> QED
    BY <1>1, <2>1, KeepsClosing DEF Steady
<1>3. ASSUME NEW p \in Path, Retry(p) PROVE Steady
  <2>1. m' \in {m, BeginRetry(m, p, m.retries[p].generation)} /\ UNCHANGED <<messages, lit>>
    BY <1>3 DEF Retry, Consider, Turns, ledVars
  <2> QED
    BY <1>1, <2>1, KeepsRetries DEF Steady
<1>4. CASE IgnoreEvent
  BY <1>1, <1>4 DEF IgnoreEvent, Turns, ledVars, Steady
<1>5. ASSUME NEW p \in Path, EnumerateNode(p) PROVE Steady
  BY <1>1, <1>5 DEF EnumerateNode, Turns, ledVars, Steady
<1>6. ASSUME \/ LoopTop(TRUE) \/ LoopTop(FALSE) \/ LoopDone
             \/ \E due \in SUBSET Path : Checked(due)
      PROVE  Steady
  BY <1>1, <1>6 DEF LoopTop, LoopDone, Checked, Turns, ledVars, Steady
<1>7. CASE Subscribe \/ Wait
  BY <1>1, <1>7 DEF Subscribe, Wait, ledVars, Steady
<1>8. CASE ReadMonitor \/ HandleWake \/ LoopFails
  BY <1>1, <1>8 DEF ReadMonitor, HandleWake, LoopFails, Turns, ledVars, Steady
<1> QED
  BY <1>2, <1>3, <1>4, <1>5, <1>6, <1>7, <1>8 DEF LoopStep

(* The handlers that may lose a keyboard, until shutdown.                  *)
LEMMA HandleDeviceTells ==
    ASSUME DaemonInv, HandleDevice, ~cancelled PROVE Steady \/ Loses
<1>1. m \in State /\ KeepsAll(m, m) /\ UNCHANGED lit /\ Active(m) \subseteq Path
  BY KeepsSame DEF DaemonInv, HandleDevice, ledVars, Active
<1>2. ASSUME NEW p \in Path, Sends("removed", p),
             m' \in {RemoveActive(m, p),
                     ScheduleRetry(RemoveActive(m, p), p, m.byPath[p].generation)}
      PROVE  Loses
  <2> DEFINE t == RemoveActive(m, p)
  <2>1. t \in State /\ KeepsAllBut(m, t, p)
    BY <1>1, KeepsClosing
  <2> HIDE DEF t
  <2>2. KeepsAllBut(m, ScheduleRetry(t, p, m.byPath[p].generation), p)
    BY <2>1, KeepsRetries, KeepsTransitive
  <2>3. KeepsAllBut(m, m', p)
    BY <1>2, <2>1, <2>2 DEF t
  <2> QED
    BY <1>1, <1>2, <2>3 DEF Loses
<1>3. \/ UNCHANGED <<m, messages>>
      \/ \E p \in Active(m) :
            /\ Sends("removed", p)
            /\ m' \in {RemoveActive(m, p),
                       ScheduleRetry(RemoveActive(m, p), p, m.byPath[p].generation)}
  BY DEF HandleDevice, Aborted
<1> QED
  BY <1>1, <1>2, <1>3 DEF Steady

LEMMA NotedKeeps ==
    ASSUME DaemonInv, op.step = "none", batch # <<>>
    PROVE  Noted \in State /\ KeepsAll(m, Noted)
<1>1. Noted \in State /\ Noted.byPath = m.byPath /\ Noted.candidates = m.candidates
  BY EventNoted
<1>2. Noted.file = m.file /\ Noted.locks = m.locks
  BY DEF Noted, DaemonInv, State
<1> QED
  BY <1>1, <1>2, KeepsSame

LEMMA HandleRemoveTells ==
    ASSUME DaemonInv, HandleRemove, ~cancelled PROVE Steady \/ Loses
<1> DEFINE event == Head(batch)
           p == event.path
           matches(entry) == Exists(entry)
                               /\ GenerationMatchesRemoval(entry.generation, event)
           s1 == IF matches(m.retries[p]) THEN ForgetRetry(Noted, p) ELSE Noted
           s2 == IF matches(m.candidates[p])
                   THEN RemoveCandidate(s1, p, m.candidates[p].fd) ELSE s1
           t == RemoveActive(s2, p)
<1>0. op.step = "none" /\ batch # <<>> /\ p \in Path /\ UNCHANGED lit
  <2>1. op.step = "none" /\ batch # <<>> /\ UNCHANGED lit
    BY DEF HandleRemove, Applies, LoopIdle, ledVars
  <2> QED
    BY <2>1, EventNoted DEF Event
<1>1. \/ Sends("removed", p) /\ m' = t
      \/ m' = s2 /\ messages' = messages
  <2>1. \/ Sends("removed", p) /\ m' = t
        \/ Aborted
        \/ m' = s2 /\ messages' = messages
    BY DEF HandleRemove
  <2> HIDE DEF t, s2, p
  <2> QED
    BY <2>1 DEF Aborted
<1> HIDE DEF matches, p, event
<1>2. s1 \in State /\ KeepsAll(m, s1)
  <2>1. Noted \in State /\ KeepsAll(m, Noted)
    BY <1>0, NotedKeeps
  <2> HIDE DEF Noted
  <2>2. ForgetRetry(Noted, p) \in State /\ KeepsAll(m, ForgetRetry(Noted, p))
    BY <1>0, <2>1, KeepsRetries, KeepsTransitive
  <2>3. s1 \in {Noted, ForgetRetry(Noted, p)}
    OBVIOUS
  <2> HIDE DEF s1
  <2> QED
    BY <2>1, <2>2, <2>3
<1> HIDE DEF s1
<1>3. s2 \in State /\ KeepsAll(m, s2)
  <2> DEFINE r == RemoveCandidate(s1, p, m.candidates[p].fd)
  <2>1. r \in State /\ KeepsAll(m, r)
    BY <1>0, <1>2, KeepsClosing, KeepsTransitive
  <2>2. s2 \in {s1, r}
    OBVIOUS
  <2> HIDE DEF s2, r
  <2> QED
    BY <1>2, <2>1, <2>2
<1> HIDE DEF s2
<1>4. KeepsAllBut(m, t, p)
  BY <1>0, <1>3, KeepsClosing, KeepsTransitive
<1> HIDE DEF t
<1> QED
  BY <1>0, <1>1, <1>3, <1>4 DEF Steady, Loses

LEMMA HandleAddTells ==
    ASSUME DaemonInv, HandleAdd, ~cancelled PROVE Steady \/ Loses
<1> DEFINE p == Head(batch).path
           seen == GenerationFromEvent(Head(batch))
           same(entry) == /\ Exists(entry)
                          /\ entry.generation.devPath = seen.devPath
                          /\ ~entry.generation.observedAdd
           g == IF same(m.retries[p]) THEN AdoptObservedAdd(m.retries[p].generation, seen)
                                      ELSE seen
           s == IF same(m.retries[p]) THEN [Noted EXCEPT !.retries[p].generation = g]
                                      ELSE Noted
           adopted(entry) == AdoptObservedAdd(entry.generation, g)
           s1 == IF p \in Active(m) THEN RemoveActive(s, p) ELSE s
           s2 == IF p \in Pending(m) THEN RemoveCandidate(s1, p, m.candidates[p].fd) ELSE s1
           opens == IF MayBegin(s2, p, g) THEN Consider(BeginRetry(s2, p, g), p, g)
                                          ELSE m' = s2 /\ UNCHANGED op
           new == adopted(m.candidates[p])
           old == adopted(m.byPath[p])
<1>0. op.step = "none" /\ batch # <<>> /\ p \in Path /\ Head(batch) \in Event /\ UNCHANGED lit
  <2>1. op.step = "none" /\ batch # <<>> /\ UNCHANGED lit
    BY DEF HandleAdd, Applies, LoopIdle, ledVars
  <2> QED
    BY <2>1, EventNoted DEF Event
<1> DEFINE found == m' = [s EXCEPT !.byPath[p].generation = old] /\ UNCHANGED messages
           awaited == \E r : m' = [s EXCEPT !.candidates[p].generation = new,
                                            !.retries[p].generation = r]
                             /\ UNCHANGED messages
           replaces == Sends("removed", p) /\ opens
           begins == UNCHANGED messages /\ opens
<1>1. found \/ awaited \/ (p \in Active(m) /\ replaces) \/ (p \notin Active(m) /\ begins)
  <2> DEFINE F == /\ m' = [s EXCEPT !.byPath[p].generation = old]
                  /\ EventDone /\ UNCHANGED <<messages, op>>
             A == /\ m' = [s EXCEPT !.candidates[p].generation = new,
                                    !.retries[p].generation =
                                       IF Exists(s.retries[p]) THEN new ELSE @]
                  /\ EventDone /\ UNCHANGED <<messages, op>>
             R == Sends("removed", p) /\ EventDone /\ opens
             C == Aborted /\ m' = s1 /\ Leave
             B == UNCHANGED messages /\ EventDone /\ opens
  <2>1. (CASE same(m.byPath[p]) -> F
           [] ~same(m.byPath[p]) /\ same(m.candidates[p]) -> A
           [] OTHER -> IF p \in Active(m) THEN R \/ C ELSE B)
    BY DEF HandleAdd
  <2>2. F => found
    OBVIOUS
  <2>3. A => awaited
    OBVIOUS
  <2>4. (R => replaces) /\ (B => begins) /\ ~C
    BY DEF Aborted
  <2> HIDE DEF F, A, R, B, C, same, p, found, awaited, replaces, begins
  <2>5. F \/ A \/ (p \in Active(m) /\ (R \/ C)) \/ (p \notin Active(m) /\ B)
    <3>1. CASE same(m.byPath[p])
      BY <2>1, <3>1
    <3>2. CASE ~same(m.byPath[p]) /\ same(m.candidates[p])
      BY <2>1, <3>2
    <3>3. CASE ~same(m.byPath[p]) /\ ~same(m.candidates[p])
      BY <2>1, <3>3
    <3> QED
      BY <3>1, <3>2, <3>3
  <2> QED
    BY <2>2, <2>3, <2>4, <2>5
<1>2. g \in Known
  <2>1. seen \in Known /\ seen \in Generation /\ m \in State
    BY <1>0, Observed DEF Known, DaemonInv
  <2>2. m.retries[p].generation \in Generation
    BY <1>0, <2>1, Typed
  <2> QED
    BY <2>1, <2>2, Observed
<1> HIDE DEF seen, g, same, new, old, p
<1>3. s \in State /\ KeepsAll(m, s)
  <2>1. Noted \in State /\ KeepsAll(m, Noted)
    BY <1>0, NotedKeeps
  <2> HIDE DEF Noted
  <2> DEFINE a == [Noted.retries[p] EXCEPT !.generation = g]
             t == [Noted EXCEPT !.retries[p] = a]
  <2>2. a \in Attempt
    BY <1>0, <1>2, <2>1, Typed DEF Attempt, Known
  <2> HIDE DEF a
  <2>3. /\ t \in State /\ t.byPath = Noted.byPath /\ t.candidates = Noted.candidates
        /\ t.file = Noted.file /\ t.locks = Noted.locks
    BY <1>0, <2>1, <2>2 DEF State
  <2>4. t = [Noted EXCEPT !.retries[p].generation = g]
    BY DEF t, a
  <2> HIDE DEF t
  <2>5. KeepsAll(Noted, t)
    BY <2>3, KeepsSame
  <2> QED
    BY <1>0, <2>1, <2>3, <2>4, <2>5, KeepsTransitive
<1> HIDE DEF s
<1>4. CASE found
  <2> DEFINE d == [s.byPath[p] EXCEPT !.generation = old]
             t == [s EXCEPT !.byPath[p] = d]
  <2>1. d.fd = s.byPath[p].fd
    BY <1>0, <1>3, Typed DEF Device
  <2> HIDE DEF d
  <2>a. t.byPath = [s.byPath EXCEPT ![p] = d] /\ t.candidates = s.candidates
        /\ t.file = s.file /\ t.locks = s.locks
    BY <1>3 DEF State
  <2>b. t = m'
    BY <1>4 DEF t, d
  <2> HIDE DEF t
  <2>c. \A q \in Path : t.byPath[q].fd = s.byPath[q].fd
    BY <1>0, <1>3, <2>1, <2>a DEF State
  <2>2. KeepsAll(s, m')
    BY <2>a, <2>b, <2>c, KeepsSame
  <2> QED
    BY <1>0, <1>3, <1>4, <2>2, KeepsTransitive DEF Steady
<1>5. CASE awaited
  <2> DEFINE d == [s.candidates[p] EXCEPT !.generation = new]
             a(r) == [s.retries[p] EXCEPT !.generation = r]
             t(r) == [s EXCEPT !.candidates[p] = d, !.retries[p] = a(r)]
  <2>1. d.fd = s.candidates[p].fd
    BY <1>0, <1>3, Typed DEF Device
  <2>0. PICK r : /\ m' = [s EXCEPT !.candidates[p].generation = new,
                                   !.retries[p].generation = r]
                 /\ messages' = messages
    BY <1>5
  <2>b. t(r) = m'
    BY <2>0
  <2> HIDE DEF d, a
  <2>a. t(r).candidates = [s.candidates EXCEPT ![p] = d] /\ t(r).byPath = s.byPath
        /\ t(r).file = s.file /\ t(r).locks = s.locks
    BY <1>3 DEF State
  <2> HIDE DEF t, awaited, found, opens
  <2>c. \A q \in Path : t(r).candidates[q].fd = s.candidates[q].fd
    BY <1>0, <1>3, <2>1, <2>a DEF State
  <2>d. KeepsAll(s, t(r))
    <3> DEFINE u == t(r)
    <3>1. u.locks = s.locks /\ u.file = s.file /\ u.byPath = s.byPath
          /\ \A q \in Path : u.candidates[q].fd = s.candidates[q].fd
      BY <2>a, <2>c
    <3> HIDE DEF u
    <3>2. KeepsAll(s, u)
      BY <3>1, KeepsSame
    <3> QED
      BY <3>2 DEF u
  <2>2. KeepsAll(s, m')
    BY <2>b, <2>d
  <2> QED
    BY <1>0, <1>3, <2>0, <2>2, KeepsTransitive DEF Steady
<1>6. s1 \in State /\ IF p \in Active(m) THEN KeepsAllBut(m, s1, p) ELSE KeepsAll(m, s1)
  BY <1>0, <1>3, KeepsClosing, KeepsTransitive
<1> HIDE DEF s1
<1>7. s2 \in State /\ IF p \in Active(m) THEN KeepsAllBut(m, s2, p) ELSE KeepsAll(m, s2)
  <2> DEFINE r == RemoveCandidate(s1, p, m.candidates[p].fd)
  <2>1. r \in State /\ KeepsAll(s1, r)
    BY <1>0, <1>6, KeepsClosing
  <2>2. s2 \in {s1, r}
    OBVIOUS
  <2> HIDE DEF s2, r
  <2> QED
    BY <1>0, <1>6, <2>1, <2>2, KeepsTransitive
<1> HIDE DEF s2
<1>8. opens => IF p \in Active(m) THEN KeepsAllBut(m, m', p) ELSE KeepsAll(m, m')
  <2>1. opens => m' \in {s2, BeginRetry(s2, p, g)}
    BY DEF Consider
  <2> DEFINE r == BeginRetry(s2, p, g)
  <2>2. KeepsAll(s2, r)
    BY <1>0, <1>7, KeepsRetries
  <2>3. IF p \in Active(m) THEN KeepsAllBut(m, r, p) ELSE KeepsAll(m, r)
    BY <1>0, <1>7, <2>2, KeepsTransitive
  <2> HIDE DEF r, opens
  <2> QED
    BY <1>7, <2>1, <2>3 DEF r
<1> HIDE DEF opens
<1>9. CASE p \in Active(m) /\ replaces
  BY <1>0, <1>8, <1>9 DEF Loses
<1>10. CASE p \notin Active(m) /\ begins
  BY <1>0, <1>8, <1>10 DEF Steady
<1> QED
  BY <1>1, <1>4, <1>5, <1>9, <1>10

-----------------------------------------------------------------------------
(* What the main loop is told                                              *)

Announced ==
    ~cancelled /\ phase # "closed" =>
        \A p \in Path : WillKnow(known, messages, p) <=> m.byPath[p].fd # 0

LEMMA ActiveByFd == DaemonInv => \A p \in Path : p \in Active(m) <=> m.byPath[p].fd # 0
  BY DEF DaemonInv, Kept, Entries, Entry, Active

LEMMA StaysAnnounced ==
    ASSUME Announced, ~cancelled' => ~cancelled /\ phase # "closed",
           UNCHANGED <<known, messages>>,
           \A p \in Path : m'.byPath[p].fd = m.byPath[p].fd
    PROVE  Announced'
  BY DEF Announced, WillKnow

LEMMA LosesAnnounced ==
    ASSUME DaemonInv, Announced, ~cancelled /\ phase # "closed", Loses, UNCHANGED known
    PROVE  Announced'
<1>1. PICK q \in Path : KeepsAllBut(m, m', q) /\ Sends("removed", q)
  BY DEF Loses
<1>2. messages \in Seq(Message) /\ messages' = Append(messages, [kind |-> "removed", path |-> q])
  BY <1>1 DEF DaemonInv, ChannelTypes, Sends
<1>3. ASSUME NEW p \in Path
      PROVE  WillKnow(known', messages', p) <=> m'.byPath[p].fd # 0
  <2>1. WillKnow(known, messages', p) <=> p # q /\ WillKnow(known, messages, p)
    BY <1>2, KnowsSent
  <2>2. m'.byPath[p].fd = IF p = q THEN 0 ELSE m.byPath[p].fd
    BY <1>1 DEF KeepsAllBut
  <2> QED
    BY <2>1, <2>2 DEF Announced
<1> QED
  BY <1>3 DEF Announced

LEMMA AcquireAnnounced ==
    ASSUME DaemonInv, Announced, ~cancelled /\ phase # "closed", Acquire, UNCHANGED known
    PROVE  Announced'
<1> DEFINE q == op.path
           s == Activated(m, q)
<1>1. /\ q \in Path /\ m.candidates[q].fd # 0 /\ m.candidates[q].fd = op.fd
      /\ m \in State /\ Kept(m, {}, cancelled) /\ m.file[op.fd] # 0
      /\ op.step = "acquire"
  <2>1. op.step = "acquire" /\ m.file[op.fd] # 0
    BY DEF Acquire, Opening, Alive
  <2>2. BeingOpened = {}
    BY <2>1 DEF BeingOpened
  <2> QED
    BY <2>1, <2>2 DEF DaemonInv, OpStands, OpTypes, Operation
<1>2. Sends("resync", q) /\ m' = s
  BY DEF Acquire, Aborted, Ends
<1>3. s.byPath[q] = m.candidates[q] /\ \A p \in Path \ {q} : s.byPath[p] = m.byPath[p]
  BY <1>1, Activates DEF OnlyAt
<1> HIDE DEF s
<1>4. messages \in Seq(Message) /\ messages' = Append(messages, [kind |-> "resync", path |-> q])
  BY <1>2 DEF DaemonInv, ChannelTypes, Sends
<1>5. ASSUME NEW p \in Path
      PROVE  WillKnow(known', messages', p) <=> m'.byPath[p].fd # 0
  <2>1. WillKnow(known, messages', p) <=> p = q \/ WillKnow(known, messages, p)
    BY <1>1, <1>4, KnowsSent
  <2>2. m'.byPath[p].fd # 0 <=> p = q \/ m.byPath[p].fd # 0
    BY <1>1, <1>2, <1>3
  <2> QED
    BY <2>1, <2>2 DEF Announced
<1> QED
  BY <1>5 DEF Announced

LEMMA ErrorAnnounced ==
    ASSUME DaemonInv, Announced, ~cancelled, ReportError, UNCHANGED known
    PROVE  Announced'
<1>1. /\ messages \in Seq(Message) /\ m' = m /\ phase = "fatal"
      /\ messages' = Append(messages, [kind |-> "err", path |-> NoOp.path])
  BY DEF DaemonInv, ChannelTypes, ReportError, Aborted, Sends
<1>2. \A p \in Path : WillKnow(known, messages', p) <=> WillKnow(known, messages, p)
  BY <1>1, KnowsSent, NoOpTyped
<1> QED
  BY <1>1, <1>2 DEF Announced

(* A message is taken, or the loop left.                                   *)
LEMMA MainAnnounced ==
    ASSUME DaemonInv, Announced, MainStep \/ Signal PROVE Announced'
<1>1. UNCHANGED <<m, phase>>
  BY DEF MainStep, Signal, TakeMessage, LeaveLoop, Return, Others, stepVars
<1>2. CASE cancelled'
  BY <1>2 DEF Announced
<1>3. CASE ~cancelled'
  <2>1. CASE TakeMessage
    <3>1. /\ messages # <<>> /\ messages' = Tail(messages)
          /\ known' = Told(known, Head(messages)) /\ cancelled' = cancelled
      BY <1>3, <2>1 DEF TakeMessage, Leaves, Cancels
    <3>2. messages \in Seq(Message)
      BY DEF DaemonInv, ChannelTypes
    <3>3. \A p \in Path : WillKnow(known', messages', p) <=> WillKnow(known, messages, p)
      BY <3>1, <3>2, KnowsTail
    <3> QED
      BY <1>1, <1>3, <3>1, <3>3 DEF Announced
  <2>2. CASE Return
    BY <1>1, <1>3, <2>2, StaysAnnounced DEF Return, DaemonInv, Announced
  <2>3. ~LeaveLoop /\ ~Signal
    BY <1>3 DEF LeaveLoop, Signal, Leaves, Cancels
  <2> QED
    BY <2>1, <2>2, <2>3 DEF MainStep
<1> QED
  BY <1>2, <1>3

LEMMA OpeningByPath ==
    ASSUME DaemonInv, OpenNode \/ Probe
    PROVE  UNCHANGED messages /\ \A p \in Path : m'.byPath[p].fd = m.byPath[p].fd
<1>1. m \in State /\ op.path \in Path
  BY DEF DaemonInv, OpTypes, Operation
<1>2. UNCHANGED messages
  BY DEF OpenNode, Probe, Quiet
<1>3. m' \in {m, Closed, ClosedForRetry, Ignored} \/ m'.byPath = m.byPath
  <2>1. CASE OpenNode
    BY <1>1, <2>1 DEF OpenNode, Ends, Goes, State
  <2>2. CASE Probe
    BY <1>1, <2>2 DEF Probe, Ends, Goes, State
  <2> QED
    BY <2>1, <2>2
<1>4. \A p \in Path : m'.byPath[p].fd = m.byPath[p].fd
  BY <1>1, <1>3, SteadyClosing, KeepsSame DEF KeepsAll
<1> QED
  BY <1>2, <1>4

(* The manager takes no step once it is done.                              *)
LEMMA OngoingPhase == ASSUME DaemonInv, ManagerStep PROVE phase # "closed"
<1>1. CASE AcquisitionStep
  BY <1>1 DEF AcquisitionStep, OpenNode, Identify, SampleFloor, Validate, Probe, Acquire,
     NotAcquired, Opening, DaemonInv, OpStands
<1>2. CASE LoopStep
  BY <1>2 DEF LoopStep, Subscribe, LoopTop, LoopDone, Wait, EnumerateNode, CheckCandidate,
     Retry, Checked, TurnOver, Waiting
<1>3. CASE HandlerStep
  BY <1>3 DEF HandlerStep, ReadMonitor, HandleDevice, HandleFeedback, HandleWake, LoopFails,
     Handles, Waiting, IgnoreEvent, HandleRemove, HandleAdd, Applies, ReportError, Close
<1> QED
  BY <1>1, <1>2, <1>3 DEF ManagerStep

LEMMA ManagerAnnounced ==
    ASSUME DaemonInv, Announced, ManagerStep, UNCHANGED known PROVE Announced'
<1>1. cancelled' = cancelled
  BY DEF ManagerStep, AcquisitionStep, LoopStep, HandlerStep, OpenNode, Identify, SampleFloor,
     Validate, Probe, Acquire, NotAcquired, Opening, Subscribe, LoopTop, LoopDone, Wait,
     EnumerateNode, CheckCandidate, Retry, Checked, Turns, ReadMonitor, HandleDevice,
     HandleFeedback, HandleWake, LoopFails, IgnoreEvent, HandleRemove, HandleAdd, Applies,
     ReportError, Close
<1>2. CASE cancelled
  BY <1>1, <1>2 DEF Announced
<1>3. CASE ~cancelled
  <2>1. phase # "closed"
    BY OngoingPhase
  <2>2. Steady => Announced'
    BY <1>1, <1>3, <2>1, StaysAnnounced DEF Steady, KeepsAll
  <2>3. Loses => Announced'
    BY <1>3, <2>1, LosesAnnounced
  <2>4. CASE AcquisitionStep
    BY <1>1, <1>3, <2>1, <2>2, <2>4, CallSteady, AcquireAnnounced, OpeningByPath,
       StaysAnnounced DEF AcquisitionStep
  <2>5. CASE LoopStep \/ ReadMonitor \/ HandleWake \/ LoopFails \/ IgnoreEvent
    BY <2>2, <2>5, LoopSteady
  <2>6. CASE HandleDevice \/ HandleRemove \/ HandleAdd
    BY <1>3, <2>2, <2>3, <2>6, HandleDeviceTells, HandleRemoveTells, HandleAddTells
  <2>7. CASE HandleFeedback
    <3>1. m'.byPath = m.byPath /\ UNCHANGED messages
      BY <2>7 DEF HandleFeedback, DaemonInv, State
    <3> QED
      BY <1>1, <1>3, <2>1, <3>1, StaysAnnounced
  <2>8. CASE ReportError
    BY <1>3, <2>8, ErrorAnnounced
  <2>9. CASE Close
    BY <2>9 DEF Close, Announced
  <2> QED
    BY <2>4, <2>5, <2>6, <2>7, <2>8, <2>9 DEF ManagerStep, HandlerStep
<1> QED
  BY <1>2, <1>3

LEMMA AnnouncedInit == DaemonInit => Announced
<1> SUFFICES ASSUME DaemonInit PROVE Announced
  OBVIOUS
<1>1. known = {} /\ messages = <<>> /\ m = NewState
  BY DEF DaemonInit, ManagerInit
<1>2. \A p \in Path : m.byPath[p].fd = 0
  BY <1>1 DEF NewState, NoDevice
<1>3. \A p \in Path : ~WillKnow(known, messages, p)
  BY <1>1 DEF WillKnow
<1> QED
  BY <1>2, <1>3 DEF Announced

LEMMA AnnouncedStep ==
    DaemonInv /\ Announced /\ [DaemonNext]_daemonVars => Announced'
<1> SUFFICES ASSUME DaemonInv, Announced, [DaemonNext]_daemonVars PROVE Announced'
  OBVIOUS
<1>1. ASSUME ManagerStep, UNCHANGED known PROVE Announced'
  BY <1>1, ManagerAnnounced
<1>2. ASSUME UNCHANGED <<m, phase, messages, cancelled, known>> PROVE Announced'
  BY <1>2 DEF Announced, WillKnow
<1>3. CASE Concurrent
  BY <1>1, <1>2, <1>3 DEF Concurrent, WakeWrites, Compositor, KernelStep, UdevdStep, stepVars
<1>4. CASE MainStep \/ Signal
  BY <1>4, MainAnnounced
<1>5. CASE UNCHANGED daemonVars
  BY <1>2, <1>5 DEF daemonVars, managerVars, stepVars
<1> QED
  BY <1>3, <1>4, <1>5 DEF DaemonNext

-----------------------------------------------------------------------------
(* The LEDs.  Only what probeCandidate accepted is ever grabbed, so that a  *)
(* change of the lock state is written to every keyboard; and no number of *)
(* an incarnation comes back, so that a keyboard which is gone stays gone. *)

Shows(locks, i) ==
    Alive(i) => (locks = "on" => i \in lit) /\ (locks = "off" => i \notin lit)

LedInv ==
    /\ faults \in Nat
    /\ \A p \in Path : node[p] <= plugs
    /\ ~cancelled =>
          /\ \A f \in Fd : m.file[f] <= plugs
          /\ \A p \in Path : m.candidates[p].fd # 0 => m.file[m.candidates[p].fd] \in Keyboards
          /\ \A p \in Path : m.byPath[p].fd # 0 =>
                /\ m.file[m.byPath[p].fd] \in Keyboards
                /\ faults = 0 => Shows(m.locks, m.file[m.byPath[p].fd])

(* What is tracked is open.                                                *)
LEMMA TrackedOpen ==
    ASSUME NEW s \in State, NEW X, Exact(s, X), NEW p \in Path
    PROVE  /\ s.byPath[p].fd # 0 => s.byPath[p].fd \in Fd /\ s.file[s.byPath[p].fd] # 0
           /\ s.candidates[p].fd # 0
                => s.candidates[p].fd \in Fd /\ s.file[s.candidates[p].fd] # 0
  BY Typed DEF Exact

(* No step takes a failure back.                                           *)
LEMMA FaultsGrow ==
    ASSUME [DaemonNext]_daemonVars, faults \in Nat
    PROVE  faults' \in Nat /\ (faults' = 0 => faults = 0)
<1>1. faults' \in {faults, faults + 1}
  <2>1. CASE AcquisitionStep
    BY <2>1 DEF AcquisitionStep, OpenNode, Identify, SampleFloor, Validate, Probe, Acquire,
       NotAcquired, SyncLEDs, CallFails, Works, Fails
  <2>2. CASE LoopStep
    BY <2>2 DEF LoopStep, Subscribe, LoopTop, LoopDone, Wait, EnumerateNode, CheckCandidate,
       Retry, Checked, Turns, Works, Fails
  <2>3. CASE HandlerStep
    BY <2>3 DEF HandlerStep, ReadMonitor, HandleDevice, HandleFeedback, HandleWake, LoopFails,
       IgnoreEvent, HandleRemove, HandleAdd, Applies, ReportError, Close, Turns, SyncLEDs,
       Works, Fails
  <2>4. CASE WakeWrites \/ Compositor \/ KernelStep \/ UdevdStep \/ Signal
    BY <2>4 DEF WakeWrites, Compositor, KernelStep, UdevdStep, Signal
  <2>5. CASE MainStep
    BY <2>5 DEF MainStep, TakeMessage, LeaveLoop, Return, Works, Fails
  <2>6. CASE UNCHANGED daemonVars
    BY <2>6 DEF daemonVars, managerVars
  <2> QED
    BY <2>1, <2>2, <2>3, <2>4, <2>5, <2>6 DEF DaemonNext, Concurrent, ManagerStep
<1> QED
  BY <1>1

(* The manager loses what it held, or nothing.                             *)
LEMMA ShedsLed ==
    ASSUME DaemonInv, DaemonInv', LedInv, ~cancelled' => ~cancelled /\ Sheds(m, m'),
           UNCHANGED <<node, plugs, lit>>, faults' \in Nat, faults' = 0 => faults = 0
    PROVE  LedInv'
<1>1. CASE ~cancelled'
  <2>0. ~cancelled /\ Sheds(m, m') /\ m \in State /\ m' \in State /\ Exact(m', BeingOpened')
    BY <1>1 DEF DaemonInv, Kept
  <2>1. \A i : Alive(i)' <=> Alive(i)
    BY DEF Alive
  <2>2. plugs \in Nat /\ \A f \in Fd : m'.file[f] <= plugs
    <3>1. plugs \in Nat
      BY DevPathAssumption DEF DaemonInv, KernelTypes
    <3>2. \A f \in Fd : m'.file[f] \in {0, m.file[f]} /\ m.file[f] <= plugs
      BY <2>0 DEF LedInv, Sheds
    <3> QED
      BY <3>1, <3>2
  <2>3. ASSUME NEW p \in Path, m'.byPath[p].fd # 0
        PROVE  /\ m.byPath[p].fd = m'.byPath[p].fd
               /\ m'.file[m'.byPath[p].fd] = m.file[m.byPath[p].fd]
    <3>1. m'.byPath[p].fd \in Fd /\ m'.file[m'.byPath[p].fd] # 0
      BY <2>0, <2>3, TrackedOpen
    <3> QED
      BY <2>0, <2>3, <3>1 DEF Sheds
  <2>4. ASSUME NEW p \in Path, m'.candidates[p].fd # 0
        PROVE  /\ m.candidates[p].fd = m'.candidates[p].fd
               /\ m'.file[m'.candidates[p].fd] = m.file[m.candidates[p].fd]
    <3>1. m'.candidates[p].fd \in Fd /\ m'.file[m'.candidates[p].fd] # 0
      BY <2>0, <2>4, TrackedOpen
    <3> QED
      BY <2>0, <2>4, <3>1 DEF Sheds
  <2>5. m'.locks = m.locks
    BY <2>0 DEF Sheds
  <2>6. \A p \in Path : m'.byPath[p].fd # 0 =>
          /\ m'.file[m'.byPath[p].fd] \in Keyboards
          /\ faults' = 0 => Shows(m.locks, m.file[m.byPath[p].fd])
    BY <2>0, <2>3 DEF LedInv
  <2>7. \A p \in Path : m'.byPath[p].fd # 0 /\ faults' = 0
          => Shows(m.locks, m.file[m.byPath[p].fd])'
    BY <2>1, <2>3, <2>5, <2>6 DEF Shows
  <2> QED
    BY <2>0, <2>2, <2>4, <2>6, <2>7 DEF LedInv
<1>2. CASE cancelled'
  BY <1>2 DEF LedInv
<1> QED
  BY <1>1, <1>2

LEMMA LedOpen ==
    ASSUME DaemonInv, DaemonInv', LedInv, OpenNode \/ Probe,
           faults' \in Nat, faults' = 0 => faults = 0
    PROVE  LedInv'
<1>1. /\ m \in State /\ op.path \in Path /\ KernelTypes
      /\ UNCHANGED <<node, plugs, cancelled, lit>>
  BY DEF DaemonInv, OpTypes, Operation, OpenNode, Probe, Opening, Quiet, kernelVars
<1>2. CASE KeepsAll(m, m')
  BY <1>1, <1>2, ShedsLed DEF KeepsAll
<1>3. CASE cancelled
  BY <1>1, <1>3 DEF LedInv
<1> DEFINE i == node[op.path]
<1>4. ASSUME ~cancelled, NEW fd \in Fd, m.file[fd] = 0, Alive(i), m' = [m EXCEPT !.file[fd] = i]
      PROVE  LedInv'
  <2>1. /\ m'.locks = m.locks /\ m'.byPath = m.byPath /\ m'.candidates = m.candidates
        /\ m'.file[fd] = i /\ \A f \in Fd \ {fd} : m'.file[f] = m.file[f]
    BY <1>1, <1>4 DEF State
  <2>2. i <= plugs
    BY <1>1 DEF LedInv
  <2>3. Exact(m, BeingOpened)
    BY <1>4 DEF DaemonInv, Kept
  <2>4. \A p \in Path :
          /\ m.byPath[p].fd # 0 => m'.file[m.byPath[p].fd] = m.file[m.byPath[p].fd]
          /\ m.candidates[p].fd # 0
               => m'.file[m.candidates[p].fd] = m.file[m.candidates[p].fd]
    BY <1>1, <1>4, <2>1, <2>3, TrackedOpen
  <2>5. \A f \in Fd : m'.file[f] <= plugs
    BY <1>4, <2>1, <2>2 DEF LedInv
  <2>6. \A j : Alive(j)' <=> Alive(j)
    BY <1>1 DEF Alive
  <2>7. \A p \in Path : m.byPath[p].fd # 0 /\ faults' = 0
          => Shows(m.locks, m.file[m.byPath[p].fd])'
    BY <1>1, <1>4, <2>1, <2>4, <2>6 DEF Shows, LedInv
  <2> QED
    BY <1>1, <1>4, <2>1, <2>4, <2>5, <2>7 DEF LedInv
<1>5. ASSUME ~cancelled, m.file[op.fd] \in Keyboards, op.step = "probe",
             m' = [m EXCEPT !.candidates[op.path] =
                      [generation |-> op.generation, fd |-> op.fd]]
      PROVE  LedInv'
  <2>1. /\ m'.locks = m.locks /\ m'.byPath = m.byPath /\ m'.file = m.file
        /\ m'.candidates[op.path].fd = op.fd
        /\ \A p \in Path \ {op.path} : m'.candidates[p] = m.candidates[p]
    BY <1>1, <1>5 DEF State
  <2>2. \A j : Alive(j)' <=> Alive(j)
    BY <1>1 DEF Alive
  <2>3. \A p \in Path : m.byPath[p].fd # 0 /\ faults' = 0
          => Shows(m.locks, m.file[m.byPath[p].fd])'
    BY <1>1, <1>5, <2>1, <2>2 DEF Shows, LedInv
  <2> QED
    BY <1>1, <1>5, <2>1, <2>3 DEF LedInv
<1>6. CASE OpenNode
  <2>1. \/ m' \in {m, ClosedForRetry}
        \/ \E fd \in Fd : m.file[fd] = 0 /\ Alive(i) /\ m' = [m EXCEPT !.file[fd] = i]
    BY <1>6 DEF OpenNode, Ends, Goes, FreeFd
  <2> QED
    BY <1>1, <1>2, <1>3, <1>4, <2>1, SteadyClosing, KeepsSame
<1>7. CASE Probe
  <2>1. \/ m' \in {Ignored, ClosedForRetry}
        \/ /\ m.file[op.fd] \in Keyboards /\ op.step = "probe"
           /\ m' = [m EXCEPT !.candidates[op.path] =
                        [generation |-> op.generation, fd |-> op.fd]]
    BY <1>7 DEF Probe, Opening, Ends
  <2> QED
    BY <1>1, <1>2, <1>3, <1>5, <2>1, SteadyClosing
<1> QED
  BY <1>6, <1>7

(* Without a failure the LEDs of S are as the lock state says, and what    *)
(* showed it before still does.                                            *)
LEMMA WrittenShows ==
    ASSUME NEW locks, NEW S, NEW i, lit' = Written(locks, S), UNCHANGED node,
           i \in S \/ Shows(locks, i)
    PROVE  Shows(locks, i)'
<1>1. Alive(i)' <=> Alive(i)
  BY DEF Alive
<1>2. CASE locks = "on"
  <2>1. lit' = lit \cup S
    BY <1>2 DEF Written
  <2> QED
    BY <1>1, <1>2, <2>1 DEF Shows
<1>3. CASE locks = "off"
  <2>1. lit' = lit \ S
    BY <1>3 DEF Written
  <2> QED
    BY <1>1, <1>3, <2>1 DEF Shows
<1>4. CASE locks \notin {"on", "off"}
  BY <1>4 DEF Shows
<1> QED
  BY <1>2, <1>3, <1>4

LEMMA SyncWrites ==
    ASSUME NEW locks, NEW S, SyncLEDs(locks, S), faults \in Nat, faults' = 0
    PROVE  lit' = Written(locks, S)
<1>1. ~Fails
  BY DEF Fails
<1> QED
  BY <1>1 DEF SyncLEDs

LEMMA LedAcquire ==
    ASSUME DaemonInv, DaemonInv', LedInv, Acquire, faults' \in Nat, faults' = 0 => faults = 0
    PROVE  LedInv'
<1> DEFINE q == op.path
           i == m.file[op.fd]
           s == Activated(m, q)
<1>1. /\ m \in State /\ q \in Path /\ m.candidates[q].fd = op.fd /\ op.fd # 0
      /\ SyncLEDs(m.locks, {i}) /\ faults \in Nat
      /\ UNCHANGED <<node, plugs, cancelled>>
  BY DEF DaemonInv, OpTypes, Operation, OpStands, Acquire, Opening, LedInv, kernelVars
<1>2. CASE cancelled
  BY <1>1, <1>2 DEF LedInv
<1>3. CASE ~cancelled
  <2>1. m' = s
    BY <1>3 DEF Acquire, Aborted, Ends
  <2>2. /\ m'.locks = m.locks /\ m'.file = m.file
        /\ m'.candidates[q] = NoDevice /\ m'.byPath[q].fd = op.fd
        /\ \A p \in Path \ {q} : /\ m'.byPath[p] = m.byPath[p]
                                /\ m'.candidates[p] = m.candidates[p]
    BY <1>1, <2>1 DEF Activated, ForgetRetry, State
  <2>3. ASSUME NEW p \in Path, m'.byPath[p].fd # 0
        PROVE  /\ m'.file[m'.byPath[p].fd] \in Keyboards
               /\ faults' = 0 => Shows(m.locks, m.file[m.byPath[p].fd])'
    <3> DEFINE j == m.file[m'.byPath[p].fd]
    <3>1. CASE p = q
      <4>1. j = i
        BY <2>2, <3>1
      <4>2. j \in Keyboards
        BY <1>1, <1>3, <4>1 DEF LedInv
      <4>3. ASSUME faults' = 0 PROVE Shows(m.locks, m.file[m.byPath[p].fd])'
        <5>1. lit' = Written(m.locks, {i}) /\ i \in {i}
          BY <1>1, <4>3, SyncWrites
        <5>2. ASSUME NEW locks, NEW k, lit' = Written(locks, {k}) PROVE Shows(locks, k)'
          BY <1>1, <5>2, WrittenShows
        <5> QED
          BY <2>2, <3>1, <5>1, <5>2 DEF Shows
      <4> QED
        BY <2>2, <4>1, <4>2, <4>3
    <3>2. CASE p # q
      <4>1. m'.byPath[p].fd = m.byPath[p].fd /\ j = m.file[m.byPath[p].fd] /\ j \in Keyboards
        BY <1>3, <2>2, <2>3, <3>2 DEF LedInv
      <4>2. ASSUME faults' = 0 PROVE Shows(m.locks, m.file[m.byPath[p].fd])'
        <5>1. lit' = Written(m.locks, {i}) /\ Shows(m.locks, j)
          BY <1>1, <1>3, <2>3, <4>1, <4>2, SyncWrites DEF LedInv
        <5>2. ASSUME NEW locks, NEW S, NEW k, lit' = Written(locks, S), Shows(locks, k)
              PROVE  Shows(locks, k)'
          BY <1>1, <5>2, WrittenShows
        <5> QED
          BY <2>2, <4>1, <5>1, <5>2 DEF Shows
      <4> QED
        BY <2>2, <4>1, <4>2
    <3> QED
      BY <3>1, <3>2
  <2>4. NoDevice.fd = 0
    BY NoEntry
  <2> QED
    BY <1>1, <1>3, <2>2, <2>3, <2>4 DEF LedInv
<1> QED
  BY <1>2, <1>3

LEMMA LedFeedback ==
    ASSUME DaemonInv, LedInv, HandleFeedback, faults' \in Nat, faults' = 0 => faults = 0
    PROVE  LedInv'
<1> DEFINE value == IF feedback = <<>> THEN m.locks ELSE Last(feedback)
           S == {i \in Keyboards : Alive(i) /\ \E f \in ActiveFd(m) : m.file[f] = i}
<1>1. /\ m \in State /\ faults \in Nat /\ UNCHANGED <<node, plugs, cancelled>>
      /\ m' = [m EXCEPT !.locks = value]
      /\ IF value = m.locks THEN UNCHANGED lit ELSE SyncLEDs(value, S)
  BY DEF DaemonInv, LedInv, HandleFeedback, SetLED, kernelVars
<1> HIDE DEF value
<1>2. /\ m'.locks = value /\ m'.file = m.file
      /\ m'.byPath = m.byPath /\ m'.candidates = m.candidates
  BY <1>1 DEF State
<1>3. CASE cancelled
  BY <1>1, <1>3 DEF LedInv
<1>4. CASE ~cancelled
  <2>1. ASSUME NEW p \in Path, m.byPath[p].fd # 0, faults' = 0
        PROVE  Shows(m.locks, m.file[m.byPath[p].fd])'
    <3> DEFINE j == m.file[m.byPath[p].fd]
    <3>1. j \in Keyboards /\ Shows(m.locks, j)
      BY <1>4, <2>1 DEF LedInv
    <3>2. m.byPath[p].fd \in ActiveFd(m)
      BY <2>1, ActiveByFd DEF ActiveFd
    <3>3. Alive(j) => j \in S
      BY <3>1, <3>2
    <3>4. Alive(j)' <=> Alive(j)
      BY <1>1, <1>2 DEF Alive
    <3> HIDE DEF S
    <3>5. ASSUME NEW locks, NEW T, NEW k, lit' = Written(locks, T), k \in T
          PROVE  Shows(locks, k)'
      BY <1>1, <3>5, WrittenShows
    <3>6. CASE value = m.locks
      BY <1>1, <1>2, <3>1, <3>4, <3>6 DEF Shows
    <3>7. CASE value # m.locks /\ Alive(j)
      <4>1. lit' = Written(value, S)
        BY <1>1, <2>1, <3>7, SyncWrites
      <4> QED
        BY <1>2, <3>3, <3>5, <3>7, <4>1 DEF Shows
    <3>8. CASE ~Alive(j)
      BY <1>2, <3>4, <3>8 DEF Shows
    <3> QED
      BY <3>6, <3>7, <3>8
  <2> QED
    BY <1>1, <1>2, <1>4, <2>1 DEF LedInv
<1> QED
  BY <1>3, <1>4

(* Numbers of incarnations only grow, so that none is there again.         *)
LEMMA LedKernel ==
    ASSUME DaemonInv, LedInv, KernelStep PROVE LedInv'
<1>1. /\ KernelTypes /\ m \in State /\ plugs \in Nat
      /\ UNCHANGED <<m, cancelled, faults, lit>>
  BY DevPathAssumption DEF DaemonInv, KernelTypes, KernelStep, ledVars
<1>2. /\ plugs <= plugs' /\ \A p \in Path : node'[p] <= plugs'
      /\ \A j \in Nat : j <= plugs /\ Alive(j)' => Alive(j)
  <2>1. PICK p \in Path : Plug(p) \/ Unplug(p)
    BY DEF KernelStep
  <2>2. \A q \in Path : node[q] \in Nat /\ node[q] <= plugs
    BY <1>1 DEF KernelTypes, Incarnation, LedInv
  <2>3. CASE Plug(p)
    <3>1. plugs' = plugs + 1 /\ \A q \in Path : node'[q] = IF q = p THEN plugs + 1 ELSE node[q]
      BY <1>1, <2>3 DEF Plug, KernelTypes
    <3> QED
      BY <1>1, <2>2, <3>1 DEF Alive
  <2>4. CASE Unplug(p)
    <3>1. plugs' = plugs /\ \A q \in Path : node'[q] = IF q = p THEN 0 ELSE node[q]
      BY <1>1, <2>4 DEF Unplug, KernelTypes
    <3> QED
      BY <1>1, <2>2, <3>1 DEF Alive
  <2> QED
    BY <2>1, <2>3, <2>4
<1>3. CASE ~cancelled
  <2>1. Exact(m, BeingOpened)
    BY <1>3 DEF DaemonInv, Kept
  <2>2. ASSUME NEW p \in Path, m.byPath[p].fd # 0, faults' = 0
        PROVE  Shows(m.locks, m.file[m.byPath[p].fd])'
    <3> DEFINE j == m.file[m.byPath[p].fd]
    <3>1. m.byPath[p].fd \in Fd
      BY <1>1, <2>1, <2>2, TrackedOpen
    <3>2. j \in Nat /\ j <= plugs
      BY <1>1, <1>3, <3>1 DEF State, Incarnation, LedInv
    <3>3. Shows(m.locks, j)
      BY <1>1, <1>3, <2>2 DEF LedInv
    <3>4. Alive(j)' => Alive(j)
      <4>1. \A k \in Nat : k <= plugs /\ Alive(k)' => Alive(k)
        BY <1>2
      <4> QED
        BY <1>1, <3>2, <4>1 DEF Alive
    <3> QED
      BY <1>1, <3>3, <3>4 DEF Shows
  <2>3. \A f \in Fd : m.file[f] \in Nat /\ m.file[f] <= plugs /\ plugs' \in Nat
    BY <1>1, <1>2, <1>3, DevPathAssumption DEF State, Incarnation, LedInv, KernelStep, Plug, Unplug
  <2>4. \A f \in Fd : m.file[f] <= plugs'
    BY <1>1, <1>2, <2>3
  <2> QED
    BY <1>1, <1>2, <1>3, <2>2, <2>4 DEF LedInv
<1>4. CASE cancelled
  BY <1>1, <1>2, <1>4 DEF LedInv
<1> QED
  BY <1>3, <1>4

LEMMA AllClosedSheds == m \in State => Sheds(m, AllClosed)
<1> DEFINE none == [p \in Path |-> NoDevice]
           fds == {m.byPath[p].fd : p \in Path} \cup {m.candidates[p].fd : p \in Path}
           r == CloseFds(m, fds)
           t == [r EXCEPT !.byPath = none, !.candidates = none]
<1> SUFFICES ASSUME m \in State PROVE Sheds(m, t)
  BY DEF AllClosed
<1> HIDE DEF fds
<1>1. /\ r \in State /\ r.locks = m.locks
      /\ \A f \in Fd : r.file[f] = IF f \in fds THEN 0 ELSE m.file[f]
  BY Closes
<1> HIDE DEF r
<1>2. t.locks = r.locks /\ t.file = r.file /\ t.byPath = none /\ t.candidates = none
  BY <1>1 DEF State
<1> QED
  BY <1>1, <1>2, NoEntry DEF Sheds

LEMMA LedInit == DaemonInit => LedInv
<1> SUFFICES ASSUME DaemonInit PROVE LedInv
  OBVIOUS
<1>1. /\ m = NewState /\ faults = 0 /\ plugs = 0 /\ \A p \in Path : node[p] = 0
  BY DEF DaemonInit, ManagerInit, KernelInit
<1>2. /\ \A p \in Path : m.byPath[p].fd = 0 /\ m.candidates[p].fd = 0
      /\ \A f \in Fd : m.file[f] = 0
  BY <1>1 DEF NewState, NoDevice
<1> QED
  BY <1>1, <1>2 DEF LedInv

LEMMA LedStep ==
    DaemonInv /\ DaemonInv' /\ LedInv /\ [DaemonNext]_daemonVars => LedInv'
<1> SUFFICES ASSUME DaemonInv, DaemonInv', LedInv, [DaemonNext]_daemonVars PROVE LedInv'
  OBVIOUS
<1>1. m \in State /\ KeepsAll(m, m) /\ faults' \in Nat /\ (faults' = 0 => faults = 0)
  BY FaultsGrow, KeepsSame DEF DaemonInv, LedInv
<1>2. ASSUME UNCHANGED <<node, plugs, m, lit>>, cancelled => cancelled' PROVE LedInv'
  BY <1>1, <1>2, ShedsLed DEF KeepsAll
<1>3. ASSUME UNCHANGED <<node, plugs, cancelled>>, cancelled \/ Steady \/ Loses PROVE LedInv'
  <2>1. CASE cancelled
    BY <1>1, <1>3, <2>1 DEF LedInv
  <2>2. CASE Steady \/ Loses
    BY <1>1, <1>3, <2>2, ShedsLed DEF Steady, Loses, KeepsAll, KeepsAllBut
  <2> QED
    BY <1>3, <2>1, <2>2
<1>4. ManagerStep => UNCHANGED <<node, plugs, cancelled>>
  BY DEF ManagerStep, AcquisitionStep, LoopStep, HandlerStep, OpenNode, Identify, SampleFloor,
     Validate, Probe, Acquire, NotAcquired, Opening, Subscribe, LoopTop, LoopDone, Wait,
     EnumerateNode, CheckCandidate, Retry, Checked, Turns, ReadMonitor, HandleDevice,
     HandleFeedback, HandleWake, LoopFails, IgnoreEvent, HandleRemove, HandleAdd, Applies,
     ReportError, Close, kernelVars
<1>5. ASSUME ManagerStep PROVE LedInv'
  <2>1. CASE OpenNode \/ Probe
    BY <1>1, <2>1, LedOpen
  <2>2. CASE Acquire
    BY <1>1, <2>2, LedAcquire
  <2>3. CASE Identify \/ SampleFloor \/ Validate \/ NotAcquired
    BY <1>3, <1>4, <1>5, <2>3, CallSteady
  <2>4. CASE LoopStep \/ ReadMonitor \/ HandleWake \/ LoopFails \/ IgnoreEvent
    BY <1>3, <1>4, <1>5, <2>4, LoopSteady
  <2>5. CASE HandleDevice \/ HandleRemove \/ HandleAdd
    BY <1>3, <1>4, <1>5, <2>5, HandleDeviceTells, HandleRemoveTells, HandleAddTells
  <2>6. CASE HandleFeedback
    BY <1>1, <2>6, LedFeedback
  <2>7. CASE ReportError
    BY <1>2, <2>7 DEF ReportError, kernelVars, ledVars
  <2>8. CASE Close
    <3>1. Sheds(m, m') /\ UNCHANGED <<node, plugs, lit, cancelled>>
      BY <1>1, <2>8, AllClosedSheds DEF Close, kernelVars, ledVars
    <3> QED
      BY <1>1, <3>1, ShedsLed
  <2> QED
    BY <1>5, <2>1, <2>2, <2>3, <2>4, <2>5, <2>6, <2>7, <2>8
       DEF ManagerStep, AcquisitionStep, HandlerStep
<1>6. CASE Concurrent
  BY <1>2, <1>5, <1>6, LedKernel
     DEF Concurrent, WakeWrites, Compositor, UdevdStep, SendOn, kernelVars, ledVars
<1>7. CASE MainStep \/ Signal
  BY <1>2, <1>7 DEF MainStep, Signal, TakeMessage, LeaveLoop, Return, Others, kernelVars, ledVars,
     Leaves, Cancels
<1>8. CASE UNCHANGED daemonVars
  BY <1>2, <1>8 DEF daemonVars, managerVars, kernelVars, ledVars
<1> QED
  BY <1>6, <1>7, <1>8 DEF DaemonNext

-----------------------------------------------------------------------------
(* The state of the manager and of the main loop keeps its types, and the  *)
(* channel never holds more messages than there is room for.               *)
THEOREM DaemonTypes == DaemonSpec => []DaemonTypeOK
<1>1. DaemonInv => DaemonTypeOK
  BY DEF DaemonInv, DaemonTypeOK, State, Attempt, ChannelTypes
<1> QED
  BY DaemonInvInit, DaemonInvStep, <1>1, PTL DEF DaemonSpec

(* Until shutdown the manager holds each open descriptor exactly once, as  *)
(* a keyboard, as a candidate or in the call in progress, and has grabbed  *)
(* its keyboards only: whatever calls fail, keyboards do and udevd orders  *)
(* (handleAdd, handleRemove, openCandidate, activate, the retries).        *)
THEOREM DaemonDescriptors == DaemonSpec => []DescriptorsOwned
  BY DaemonInvInit, DaemonInvStep, OwnedExactly, PTL DEF DaemonSpec

(* The virtual keyboard outlives every grab and every descriptor, and the  *)
(* callback of the context is over when the manager is, wherever in its    *)
(* work shutdown or an error meets it (close, initWake and run's defers).  *)
THEOREM DaemonCleanup == DaemonSpec => []CleanupOrder
<1>1. DaemonInv => CleanupOrder
  BY DEF DaemonInv, EndStands, CleanupOrder
<1> QED
  BY DaemonInvInit, DaemonInvStep, <1>1, PTL DEF DaemonSpec

(* Whatever the order of plugging, udevd's news, failing calls and the     *)
(* main loop's reading, and however full the channel is: the last message  *)
(* about a path says whether it is grabbed, until shutdown (activate,      *)
(* handleAdd, handleRemove, handleDeviceReady and the main loop).          *)
THEOREM DaemonAnnounced == DaemonSpec => []AnnouncedAgrees
<1>1. DaemonInv /\ Announced => AnnouncedAgrees
  BY ActiveByFd DEF Announced, AnnouncedAgrees
<1> QED
  BY DaemonInvInit, DaemonInvStep, AnnouncedInit, AnnouncedStep, <1>1, PTL DEF DaemonSpec

(* Until shutdown and a failed write, every grabbed keyboard that is there *)
(* shows the lock state of the compositor: whether it was told before the  *)
(* keyboard was acquired or after (handleFeedbackReady, syncDeviceLEDs and *)
(* activate).                                                              *)
THEOREM DaemonLeds == DaemonSpec => []LedsFollow
<1>1. DaemonInv /\ LedInv => LedsFollow
  <2> SUFFICES ASSUME DaemonInv, LedInv, faults = 0, ~cancelled, NEW p \in Active(m),
                      Alive(m.file[m.byPath[p].fd])
               PROVE  LET i == m.file[m.byPath[p].fd]
                      IN (m.locks = "on" => i \in lit) /\ (m.locks = "off" => i \notin lit)
    BY DEF LedsFollow
  <2>1. p \in Path /\ m.byPath[p].fd # 0
    BY ActiveByFd DEF Active
  <2>2. Shows(m.locks, m.file[m.byPath[p].fd])
    BY <2>1 DEF LedInv
  <2> QED
    BY <2>2 DEF Shows
<1> QED
  BY DaemonInvInit, DaemonInvStep, LedInit, LedStep, <1>1, PTL DEF DaemonSpec
=============================================================================
