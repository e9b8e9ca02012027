---------------------------- MODULE HandoffProofs ---------------------------
(***************************************************************************)
(* Proof that a keyboard is taken over cleanly, and that the engine knows  *)
(* its keys, for any keys, any size of the queue and of a read and any     *)
(* number of moves and failures.                                           *)
(*                                                                         *)
(* CleanHandoff is not inductive.  What the display server took is a part  *)
(* of what is pressed, so that the query after the grab, finding nothing   *)
(* pressed, shows that the display server holds nothing: this is where     *)
(* Prompt is needed.  The same query empties the queue of what was seen,   *)
(* and from then on the keyboard is grabbed, so that no event is seen any  *)
(* more.  That buffer and frame hold nothing seen needs that they are      *)
(* empty while the keyboard is not read.                                   *)
(*                                                                         *)
(* BelievedAgrees is not inductive either.  What the engine will believe   *)
(* when it has handled the messages under way, and then the events of the  *)
(* frame, of the buffer and of the queue, is what is pressed, but for the  *)
(* keys that were overtaken.  From an overflow up to the query that        *)
(* follows it, the last events of each key that are left say what is       *)
(* pressed.  The query keeps the first of them, those in the buffer, and   *)
(* takes the others, those in the queue: of a key with events in both, and *)
(* of no other, the rest of the buffer may say the contrary of the answer. *)
(***************************************************************************)
EXTENDS Handoff, SequenceTheorems, TLAPS

Event ==
    [kind : {"key"}, key : Key, down : BOOLEAN, seen : BOOLEAN]
        \cup [kind : {"report", "dropped"}]

Active == step \in {"read", "state?"}

EventLists == queue \in Seq(Event) /\ buffer \in Seq(Event) /\ frame \in Seq(Event)

(* The display server has taken no key that is up, if keys stay down from  *)
(* the grab to the query that follows.                                     *)
DirectDown == pressed \subseteq Key /\ (Prompt => direct \subseteq pressed)

GrabbedInStep == grabbed \in BOOLEAN /\ (grabbed <=> Active \/ step = "after?")

NothingRead == ~Active => buffer = <<>> /\ frame = <<>>

(* The two parts of CleanHandoff; only the second needs Prompt.             *)
NothingSeen == Active => Unseen(queue) /\ Unseen(buffer) /\ Unseen(frame)
NothingHeld == Prompt /\ Active => direct = {}

HandoffInv ==
    /\ EventLists
    /\ DirectDown
    /\ GrabbedInStep
    /\ NothingRead
    /\ NothingSeen
    /\ NothingHeld

-----------------------------------------------------------------------------
(* The events the kernel makes are events, and a key moved while the        *)
(* keyboard is grabbed is not seen by anyone else.                          *)
LEMMA EventsMade ==
    ASSUME grabbed \in BOOLEAN
    PROVE  /\ Report \in Event /\ Dropped \in Event
           /\ Report.kind # "key" /\ Dropped.kind # "key"
           /\ \A k \in Key, down \in BOOLEAN :
                 KeyEvent(k, down) \in Event /\ (grabbed => ~KeyEvent(k, down).seen)
  BY DEF Report, Dropped, KeyEvent, Event

(* Queueing an event, also when it overflows the queue, adds no event that *)
(* was seen, if it was not seen itself.                                    *)
LEMMA QueuedEvents ==
    ASSUME NEW q \in Seq(Event), NEW event \in Event
    PROVE  /\ Queued(q, event) \in Seq(Event)
           /\ Unseen(q) /\ (event.kind = "key" => ~event.seen) => Unseen(Queued(q, event))
<1>1. Dropped \in Event /\ Dropped.kind # "key"
  BY DEF Dropped, Event
<1>2. CASE Len(q) < QueueSize
  <2>1. Queued(q, event) = Append(q, event)
    BY <1>2 DEF Queued
  <2> QED
    BY <2>1 DEF Unseen
<1>3. CASE ~(Len(q) < QueueSize)
  <2>1. Queued(q, event) = <<Dropped, event>>
    BY <1>3 DEF Queued
  <2> QED
    BY <2>1, <1>1 DEF Unseen
<1> QED
  BY <1>2, <1>3

(* What a query leaves of the queue holds no key event.                    *)
LEMMA FlushedEvents == Flushed \in Seq(Event) /\ Unseen(Flushed)
<1>1. /\ Report \in Event /\ Dropped \in Event
      /\ Report.kind # "key" /\ Dropped.kind # "key"
  BY DEF Report, Dropped, Event
<1> QED
  BY <1>1 DEF Flushed, Unseen

(* A part of a list holds nothing seen if the list does not.               *)
LEMMA PartUnseen ==
    ASSUME NEW q \in Seq(Event), NEW m \in 1 .. Len(q) + 1, NEW n \in 0 .. Len(q)
    PROVE  /\ SubSeq(q, m, n) \in Seq(Event)
           /\ Unseen(q) => Unseen(SubSeq(q, m, n))
  BY DEF Unseen

LEMMA TailUnseen ==
    ASSUME NEW q \in Seq(Event), q # <<>>
    PROVE  /\ Tail(q) \in Seq(Event) /\ Head(q) \in Event
           /\ Unseen(q) => Unseen(Tail(q)) /\ (Head(q).kind = "key" => ~Head(q).seen)
  BY DEF Unseen

LEMMA EmptyUnseen == <<>> \in Seq(Event) /\ Unseen(<<>>)
  BY DEF Unseen

-----------------------------------------------------------------------------
(* Nothing is open at first, and the display server holds what is pressed. *)
LEMMA HandoffInvInit == HandoffInit => HandoffInv
  BY EmptyUnseen DEF HandoffInit, HandoffInv, EventLists, DirectDown, GrabbedInStep,
     NothingRead, NothingSeen, NothingHeld, Active

(* While a key moves the queue grows by events; those of a grabbed keyboard *)
(* are seen by nobody else, and those of another follow to the display      *)
(* server, which therefore still holds nothing that is up.                  *)
LEMMA MoveInv ==
    ASSUME HandoffInv, NEW k \in Key, Move(k) PROVE HandoffInv'
<1> USE DEF HandoffInv
<1> DEFINE down == k \notin pressed
           first == Queued(queue, KeyEvent(k, down))
<1>1. queue' \in Seq(Event) /\ (grabbed /\ Unseen(queue) => Unseen(queue'))
  <2>1. grabbed \in BOOLEAN
    BY DEF GrabbedInStep
  <2>2. /\ KeyEvent(k, down) \in Event /\ (grabbed => ~KeyEvent(k, down).seen)
        /\ Report \in Event /\ Report.kind # "key"
    BY <2>1, EventsMade
  <2>3. first \in Seq(Event) /\ (grabbed /\ Unseen(queue) => Unseen(first))
    BY <2>2, QueuedEvents DEF EventLists
  <2>4. Queued(first, Report) \in Seq(Event) /\ (Unseen(first) => Unseen(Queued(first, Report)))
    BY <2>2, <2>3, QueuedEvents
  <2>5. queue' = queue \/ queue' = Queued(first, Report)
    BY DEF Move
  <2> QED
    BY <2>3, <2>4, <2>5 DEF EventLists
<1>2. EventLists' /\ GrabbedInStep' /\ NothingRead'
  BY <1>1 DEF Move, deviceVars, EventLists, GrabbedInStep, NothingRead, Active
<1>3. DirectDown'
  <2> SUFFICES ASSUME Prompt PROVE pressed' \subseteq Key /\ direct' \subseteq pressed'
    BY DEF DirectDown, Move
  <2>1. ~(step = "after?" /\ k \in pressed)
    BY DEF Move
  <2>2. CASE grabbed
    <3>1. direct' = direct /\ (Active => direct = {})
      BY <2>2 DEF Move, NothingHeld
    <3>2. Active \/ k \notin pressed
      BY <2>1, <2>2 DEF GrabbedInStep
    <3> QED
      BY <3>1, <3>2 DEF Move, DirectDown
  <2>3. CASE ~grabbed
    BY <2>3 DEF Move, DirectDown
  <2> QED
    BY <2>2, <2>3
<1>4. NothingSeen' /\ NothingHeld'
  <2> SUFFICES ASSUME Active PROVE NothingSeen' /\ NothingHeld'
    BY DEF NothingSeen, NothingHeld, Active, Move, deviceVars
  <2>1. grabbed /\ NothingSeen /\ NothingHeld
    BY DEF GrabbedInStep
  <2>2. UNCHANGED <<direct, buffer, frame>>
    BY <2>1 DEF Move, deviceVars
  <2> QED
    BY <1>1, <2>1, <2>2 DEF NothingSeen, NothingHeld, Active, Unseen
<1> QED
  BY <1>2, <1>3, <1>4

(* The calls up to EVIOCGRAB: the keyboard is the display server's.         *)
LEMMA CandidateInv ==
    ASSUME HandoffInv, Open \/ QueryIdle \/ Drain \/ QueryStillIdle \/ Grab
    PROVE  HandoffInv'
<1> USE DEF HandoffInv, EventLists, DirectDown, GrabbedInStep, NothingRead, NothingSeen, NothingHeld,
            Active, Manager
<1>1. CASE Open
  BY <1>1 DEF Open
<1>2. CASE QueryIdle
  BY <1>2, FlushedEvents DEF QueryIdle, Query
<1>3. CASE Drain
  BY <1>3, EmptyUnseen DEF Drain
<1>4. CASE QueryStillIdle
  BY <1>4, FlushedEvents DEF QueryStillIdle, Query
<1>5. CASE Grab
  BY <1>5 DEF Grab
<1> QED
  BY <1>1, <1>2, <1>3, <1>4, <1>5

(* The query after the grab: if it finds no key down the display server     *)
(* holds none, and nothing that it has seen is left in the queue.           *)
LEMMA AfterGrabInv == ASSUME HandoffInv, AfterGrab PROVE HandoffInv'
<1> USE DEF HandoffInv, AfterGrab, Manager
<1>1. queue' \in Seq(Event) /\ Unseen(queue')
  BY FlushedEvents
<1>2. EventLists' /\ DirectDown'
  BY <1>1 DEF EventLists, DirectDown
<1>3. GrabbedInStep' /\ NothingRead'
  BY DEF GrabbedInStep, NothingRead, Active
<1>4. NothingSeen' /\ NothingHeld'
  <2>1. CASE pressed = {}
    <3>1. Prompt => direct' = {}
      BY <2>1 DEF DirectDown
    <3>2. buffer' = <<>> /\ frame' = <<>>
      BY DEF NothingRead, Active
    <3> QED
      BY <1>1, <3>1, <3>2, EmptyUnseen DEF NothingSeen, NothingHeld
  <2>2. CASE pressed # {}
    BY <2>2 DEF NothingSeen, NothingHeld, Active
  <2> QED
    BY <2>1, <2>2
<1> QED
  BY <1>2, <1>3, <1>4

(* A keyboard that is closed is not grabbed and nothing of it is left.      *)
LEMMA FailureInv ==
    ASSUME HandoffInv, AcquisitionFails \/ DeviceFails PROVE HandoffInv'
<1>1. NoDevice /\ UNCHANGED <<pressed, direct>>
  BY DEF AcquisitionFails, DeviceFails, Manager
<1> QED
  BY <1>1, EmptyUnseen DEF NoDevice, HandoffInv, EventLists, DirectDown, GrabbedInStep,
     NothingRead, NothingSeen, NothingHeld, Active

(* A read moves events from the queue to the buffer.                        *)
LEMMA ReadInv == ASSUME HandoffInv, Read PROVE HandoffInv'
<1> DEFINE count == IF Len(queue) < ReadSize THEN Len(queue) ELSE ReadSize
<1>1. queue \in Seq(Event) /\ frame \in Seq(Event)
  BY DEF HandoffInv, EventLists
<1>2. Len(queue) \in Nat /\ count \in 0 .. Len(queue) /\ count + 1 \in 1 .. Len(queue) + 1
  BY <1>1, HandoffAssumption
<1>3. /\ buffer' = SubSeq(queue, 1, count)
      /\ queue' = SubSeq(queue, count + 1, Len(queue))
  BY DEF Read
<1>4. Active /\ Unseen(queue)
  BY DEF Read, Manager, HandoffInv, NothingSeen, NothingHeld, Active
<1> HIDE DEF count
<1>5. buffer' \in Seq(Event) /\ Unseen(buffer')
  BY <1>1, <1>2, <1>3, <1>4, PartUnseen
<1>6. queue' \in Seq(Event) /\ Unseen(queue')
  <2> DEFINE first == count + 1
             last == Len(queue)
  <2>1. first \in 1 .. Len(queue) + 1 /\ last \in 0 .. Len(queue)
    BY <1>2
  <2> HIDE DEF first, last
  <2>2. SubSeq(queue, first, last) \in Seq(Event) /\ Unseen(SubSeq(queue, first, last))
    BY <1>1, <1>4, <2>1, PartUnseen
  <2> QED
    BY <1>3, <2>2 DEF first, last
<1> QED
  BY <1>1, <1>5, <1>6 DEF Read, Manager, HandoffInv, EventLists, DirectDown, GrabbedInStep,
     NothingRead, NothingSeen, NothingHeld, Active

(* Looking at an event of the buffer takes it to the frame or drops it.     *)
LEMMA HandleInv ==
    ASSUME HandoffInv, HandleDropped \/ HandleKey \/ HandleReport PROVE HandoffInv'
<1> USE DEF HandoffInv
<1>1. /\ step = "read" /\ buffer # <<>> /\ buffer' = Tail(buffer)
      /\ UNCHANGED <<queue, grabbed, pressed, direct>>
  BY DEF HandleDropped, HandleKey, HandleReport, Handles, Manager
<1>2. /\ buffer' \in Seq(Event) /\ Unseen(buffer')
      /\ Head(buffer) \in Event /\ (Head(buffer).kind = "key" => ~Head(buffer).seen)
  BY <1>1, TailUnseen DEF EventLists, NothingSeen, Active
<1>3. frame' \in Seq(Event) /\ Unseen(frame')
  <2>1. frame \in Seq(Event) /\ Unseen(frame)
    BY <1>1 DEF EventLists, NothingSeen, Active
  <2>2. Append(frame, Head(buffer)) \in Seq(Event) /\ Unseen(Append(frame, Head(buffer)))
    BY <1>2, <2>1 DEF Unseen
  <2>3. frame' \in {frame, <<>>, Append(frame, Head(buffer))}
    BY DEF HandleDropped, HandleKey, HandleReport
  <2> QED
    BY <2>1, <2>2, <2>3, EmptyUnseen
<1>4. step' \in {"read", "state?"}
  BY <1>1 DEF HandleDropped, HandleKey, HandleReport
<1> QED
  BY <1>1, <1>2, <1>3, <1>4 DEF EventLists, DirectDown, GrabbedInStep, NothingRead,
     NothingSeen, NothingHeld, Active

(* The query after SYN_DROPPED only takes events out of the queue.          *)
LEMMA QueryStateInv == ASSUME HandoffInv, QueryState PROVE HandoffInv'
  BY FlushedEvents DEF QueryState, Manager, HandoffInv, EventLists, DirectDown,
     GrabbedInStep, NothingRead, NothingSeen, NothingHeld, Active

(* Every step keeps it.                                                    *)
LEMMA HandoffInvNext ==
    ASSUME HandoffInv, [HandoffNext]_handoffVars
    PROVE  HandoffInv'
<1>1. ASSUME NEW k \in Key, Move(k) PROVE HandoffInv'
  BY <1>1, MoveInv
<1>2. CASE Open \/ QueryIdle \/ Drain \/ QueryStillIdle \/ Grab
  BY <1>2, CandidateInv
<1>3. CASE AfterGrab
  BY <1>3, AfterGrabInv
<1>4. CASE AcquisitionFails \/ DeviceFails
  BY <1>4, FailureInv
<1>5. CASE Read
  BY <1>5, ReadInv
<1>6. CASE HandleDropped \/ HandleKey \/ HandleReport
  BY <1>6, HandleInv
<1>7. CASE QueryState
  BY <1>7, QueryStateInv
<1>8. CASE Send \/ Receive \/ UNCHANGED handoffVars
  <2>1. UNCHANGED <<pressed, direct, queue, grabbed, step, buffer, frame>>
    BY <1>8 DEF Send, Receive, handoffVars, kernelVars, deviceVars
  <2> QED
    BY <2>1 DEF HandoffInv, EventLists, DirectDown, GrabbedInStep, NothingRead,
       NothingSeen, NothingHeld, Active, Unseen
<1> QED
  BY <1>1, <1>2, <1>3, <1>4, <1>5, <1>6, <1>7, <1>8 DEF HandoffNext

-----------------------------------------------------------------------------
(* Whenever keys move, no event of a keyboard that is read was seen by the *)
(* display server, so that the virtual keyboard repeats none.              *)
THEOREM HandoffSeenOnce == HandoffSpec => []NothingSeen
<1>1. HandoffInv /\ [HandoffNext]_handoffVars => HandoffInv'
  BY HandoffInvNext
<1>2. HandoffInv => NothingSeen
  BY DEF HandoffInv
<1> QED
  BY HandoffInvInit, <1>1, <1>2, PTL DEF HandoffSpec

(* Once a keyboard is taken over the display server holds no key of it and *)
(* nothing that the display server has seen is passed on, whatever the     *)
(* keys, the sizes of queue and read, and the calls that fail, provided    *)
(* that a key which is down at EVIOCGRAB stays down up to the query that   *)
(* follows (acquireIdleDevice); without that it is false.                  *)
THEOREM HandoffClean == ASSUME Prompt PROVE HandoffSpec => []CleanHandoff
<1>1. HandoffInv /\ [HandoffNext]_handoffVars => HandoffInv'
  BY HandoffInvNext
<1>2. HandoffInv => CleanHandoff
  BY DEF HandoffInv, NothingSeen, NothingHeld, CleanHandoff, Active
<1> QED
  BY HandoffInvInit, <1>1, <1>2, PTL DEF HandoffSpec

-----------------------------------------------------------------------------
(* What the engine comes to believe.                                       *)

(* The keys that events say nothing about stay what they were.             *)
LEMMA IngestedOnce ==
    ASSUME NEW K \in SUBSET Key, NEW events \in Seq(Event)
    PROVE  /\ Ingested(K, events) \in SUBSET Key
           /\ (\A i \in DOMAIN events : events[i].kind # "key") => Ingested(K, events) = K
  BY DEF Ingested, Mentions, About

(* No event changes nothing.                                               *)
LEMMA IngestedNone ==
    ASSUME NEW K \in SUBSET Key
    PROVE  Ingested(K, <<>>) = K
<1>1. <<>> \in Seq(Event) /\ DOMAIN <<>> = {}
  OBVIOUS
<1>2. QED
  BY <1>1, IngestedOnce

(* Handling one list after the other is handling both in one.              *)
LEMMA IngestedConcat ==
    ASSUME NEW K \in SUBSET Key, NEW s \in Seq(Event), NEW t \in Seq(Event)
    PROVE  Ingested(K, s \o t) = Ingested(Ingested(K, s), t)
<1>. DEFINE m == Len(s)
            n == Len(t)
            u == s \o t
            Late(v, i, k) == \A j \in DOMAIN v : About(v[j], k) => j <= i
<1>1. /\ m \in Nat /\ n \in Nat
      /\ DOMAIN s = 1 .. m /\ DOMAIN t = 1 .. n /\ DOMAIN u = 1 .. m + n
      /\ \A i \in 1 .. m : u[i] = s[i]
      /\ \A i \in 1 .. n : u[m + i] = t[i]
  OBVIOUS
<1>. HIDE DEF m, n, u
<1>2. \A j \in 1 .. m + n : j \in 1 .. m \/ \E i \in 1 .. n : j = m + i
  <2>1. SUFFICES ASSUME NEW j \in 1 .. m + n, j \notin 1 .. m
                 PROVE  \E i \in 1 .. n : j = m + i
    OBVIOUS
  <2>2. j - m \in 1 .. n /\ j = m + (j - m)
    BY <1>1, <2>1
  <2>3. QED
    BY <2>2
<1>3. \A i \in 1 .. n : m + i \in 1 .. m + n
  BY <1>1
<1>4. \A i \in 1 .. m : i \in 1 .. m + n
  BY <1>1
<1>5. ASSUME NEW k \in Key, NEW i \in DOMAIN t, About(t[i], k)
      PROVE  k \in Ingested(K, u) <=> k \in Ingested(Ingested(K, s), t)
  <2>1. \A h \in 1 .. n : Late(u, m + h, k) <=> Late(t, h, k)
    <3>1. ASSUME NEW h \in 1 .. n, Late(u, m + h, k) PROVE Late(t, h, k)
      <4>1. ASSUME NEW j \in DOMAIN t, About(t[j], k) PROVE j <= h
        <5>1. m + j \in DOMAIN u /\ About(u[m + j], k)
          BY <1>1, <1>3, <4>1
        <5>2. m + j <= m + h
          BY <3>1, <5>1
        <5>3. QED
          BY <1>1, <5>2
      <4>2. QED
        BY <4>1
    <3>2. ASSUME NEW h \in 1 .. n, Late(t, h, k) PROVE Late(u, m + h, k)
      <4>1. ASSUME NEW j \in DOMAIN u, About(u[j], k) PROVE j <= m + h
        <5>1. CASE j \in 1 .. m
          BY <1>1, <5>1
        <5>2. CASE j \notin 1 .. m
          <6>1. PICK g \in 1 .. n : j = m + g
            BY <1>1, <1>2, <5>2
          <6>2. g <= h
            BY <1>1, <3>2, <4>1, <6>1
          <6>3. QED
            BY <1>1, <6>1, <6>2
        <5>3. QED
          BY <5>1, <5>2
      <4>2. QED
        BY <4>1
    <3>. HIDE DEF Late
    <3>3. QED
      BY <3>1, <3>2
  <2>2. \A h \in 1 .. m : ~Late(u, h, k)
    <3>1. m + i \in DOMAIN u /\ About(u[m + i], k)
      BY <1>1, <1>3, <1>5
    <3>2. \A h \in 1 .. m : ~(m + i <= h)
      BY <1>1
    <3>3. QED
      BY <3>1, <3>2
  <2>3. /\ ~\A j \in DOMAIN u : ~About(u[j], k)
        /\ ~\A j \in DOMAIN t : ~About(t[j], k)
    BY <1>1, <1>3, <1>5
  <2>4. k \in Ingested(K, u) <=>
          \E h \in DOMAIN u : About(u[h], k) /\ u[h].down /\ Late(u, h, k)
    BY <2>3 DEF Ingested, Mentions
  <2>5. k \in Ingested(Ingested(K, s), t) <=>
          \E h \in DOMAIN t : About(t[h], k) /\ t[h].down /\ Late(t, h, k)
    BY <2>3 DEF Ingested, Mentions
  <2>. HIDE DEF Late
  <2>6. ASSUME NEW h \in DOMAIN u, About(u[h], k), u[h].down, Late(u, h, k)
        PROVE  \E g \in DOMAIN t : About(t[g], k) /\ t[g].down /\ Late(t, g, k)
    <3>1. h \in 1 .. m + n /\ h \notin 1 .. m
      BY <1>1, <2>2, <2>6
    <3>2. PICK g \in 1 .. n : h = m + g
      BY <1>2, <3>1
    <3>3. g \in DOMAIN t /\ u[h] = t[g] /\ Late(t, g, k)
      BY <1>1, <2>1, <2>6, <3>2
    <3>4. QED
      BY <2>6, <3>3
  <2>7. ASSUME NEW g \in DOMAIN t, About(t[g], k), t[g].down, Late(t, g, k)
        PROVE  \E h \in DOMAIN u : About(u[h], k) /\ u[h].down /\ Late(u, h, k)
    <3>1. m + g \in DOMAIN u /\ u[m + g] = t[g] /\ Late(u, m + g, k)
      BY <1>1, <1>3, <2>1, <2>7
    <3>2. QED
      BY <2>7, <3>1
  <2>8. QED
    BY <2>4, <2>5, <2>6, <2>7
<1>6. ASSUME NEW k \in Key, \A i \in DOMAIN t : ~About(t[i], k)
      PROVE  k \in Ingested(K, u) <=> k \in Ingested(Ingested(K, s), t)
  <2>1. \A j \in DOMAIN u : About(u[j], k) => j \in 1 .. m
    BY <1>1, <1>2, <1>6
  <2>2. \A h \in 1 .. m : Late(u, h, k) <=> Late(s, h, k)
    BY <1>1, <1>4, <2>1
  <2>3. (\A j \in DOMAIN u : ~About(u[j], k)) <=> (\A j \in DOMAIN s : ~About(s[j], k))
    BY <1>1, <1>4, <2>1
  <2>4. k \in Ingested(Ingested(K, s), t) <=> k \in Ingested(K, s)
    BY <1>6 DEF Ingested, Mentions
  <2>5. k \in Ingested(K, u) <=>
          \/ \E h \in DOMAIN u : About(u[h], k) /\ u[h].down /\ Late(u, h, k)
          \/ k \in K /\ \A j \in DOMAIN u : ~About(u[j], k)
    BY DEF Ingested, Mentions
  <2>6. k \in Ingested(K, s) <=>
          \/ \E h \in DOMAIN s : About(s[h], k) /\ s[h].down /\ Late(s, h, k)
          \/ k \in K /\ \A j \in DOMAIN s : ~About(s[j], k)
    BY DEF Ingested, Mentions
  <2>. HIDE DEF Late
  <2>7. (\E h \in DOMAIN u : About(u[h], k) /\ u[h].down /\ Late(u, h, k))
          <=> (\E h \in DOMAIN s : About(s[h], k) /\ s[h].down /\ Late(s, h, k))
    BY <1>1, <1>4, <2>1, <2>2
  <2>8. QED
    BY <2>3, <2>4, <2>5, <2>6, <2>7
<1>7. Ingested(K, u) \subseteq Key /\ Ingested(Ingested(K, s), t) \subseteq Key
  BY DEF Ingested, Mentions
<1>8. QED
  BY <1>5, <1>6, <1>7 DEF u

(* One event more.                                                         *)
LEMMA IngestedOne ==
    ASSUME NEW K \in SUBSET Key, NEW event \in Event
    PROVE  Ingested(K, <<event>>) =
             IF event.kind # "key" THEN K
             ELSE IF event.down THEN K \cup {event.key} ELSE K \ {event.key}
<1>. DEFINE s == <<event>>
<1>1. s \in Seq(Event) /\ DOMAIN s = {1} /\ s[1] = event
  OBVIOUS
<1>. HIDE DEF s
<1>2. event.kind = "key" => event.key \in Key /\ event.down \in BOOLEAN
  BY DEF Event
<1>3. \A k \in Key : k \in Ingested(K, s) <=>
         \/ About(event, k) /\ event.down
         \/ k \in K /\ ~About(event, k)
  BY <1>1 DEF Ingested, Mentions
<1>4. Ingested(K, s) \subseteq Key
  BY DEF Ingested, Mentions
<1>5. QED
  BY <1>2, <1>3, <1>4 DEF About, s

(* The messages that the main loop handles one by one.                     *)
Message ==
    [kind : {"frame"}, events : Seq(Event)] \cup [kind : {"resync"}, keys : SUBSET Key]
        \cup [kind : {"removed"}]

Leads(A, sent, B) ==
    \E P \in Seq(SUBSET Key) :
        /\ Len(P) = Len(sent) + 1 /\ P[1] = A /\ P[Len(P)] = B
        /\ \A i \in DOMAIN sent : P[i + 1] = Told(P[i], sent[i])

(* What a message tells is a set of keys.                                  *)
LEMMA ToldType ==
    ASSUME NEW K \in SUBSET Key, NEW message \in Message
    PROVE  Told(K, message) \in SUBSET Key
  BY IngestedOnce DEF Told, Message

(* With no message left the engine believes what it will believe.         *)
LEMMA LeadsNone ==
    ASSUME NEW A, NEW B, Leads(A, <<>>, B)
    PROVE  A = B
  BY DEF Leads

(* A message sent is told last, and the first message is told first.       *)
LEMMA LeadsAppend ==
    ASSUME NEW A, NEW B \in SUBSET Key, NEW sent \in Seq(Message), Leads(A, sent, B),
           NEW message \in Message
    PROVE  Leads(A, Append(sent, message), Told(B, message))
<1>1. PICK P \in Seq(SUBSET Key) :
         /\ Len(P) = Len(sent) + 1 /\ P[1] = A /\ P[Len(P)] = B
         /\ \A i \in DOMAIN sent : P[i + 1] = Told(P[i], sent[i])
  BY DEF Leads
<1>. DEFINE C == Told(B, message)
            Q == Append(P, C)
            us == Append(sent, message)
            n == Len(sent)
<1>2. n \in Nat /\ DOMAIN sent = 1 .. n
  OBVIOUS
<1>3. C \in SUBSET Key
  BY ToldType
<1>. HIDE DEF C
<1>4. /\ Q \in Seq(SUBSET Key) /\ Len(Q) = n + 2 /\ Q[n + 2] = C
      /\ \A k \in 1 .. n + 1 : Q[k] = P[k]
  BY <1>1, <1>2, <1>3
<1>5. /\ Len(us) = n + 1 /\ DOMAIN us = 1 .. n + 1 /\ us[n + 1] = message
      /\ \A k \in 1 .. n : us[k] = sent[k]
  BY <1>2
<1>. HIDE DEF Q, us, n
<1>6. ASSUME NEW i \in DOMAIN us PROVE Q[i + 1] = Told(Q[i], us[i])
  <2>1. CASE i \in 1 .. n
    <3>1. i + 1 \in 1 .. n + 1 /\ i \in 1 .. n + 1
      BY <1>2, <2>1
    <3>2. QED
      BY <1>1, <1>2, <1>4, <1>5, <2>1, <3>1
  <2>2. CASE i = n + 1
    <3>1. i + 1 = n + 2 /\ i \in 1 .. n + 1
      BY <1>2, <2>2
    <3>2. Q[i] = B /\ Q[i + 1] = C
      BY <1>1, <1>2, <1>4, <2>2, <3>1 DEF n
    <3>3. QED
      BY <1>5, <2>2, <3>2 DEF C
  <2>3. QED
    BY <1>2, <1>5, <2>1, <2>2
<1>7. 1 \in 1 .. n + 1
  BY <1>2
<1>8. Q[1] = A /\ Len(Q) = Len(us) + 1 /\ Q[Len(Q)] = C
  BY <1>1, <1>2, <1>4, <1>5, <1>7
<1>9. Leads(A, us, C)
  BY <1>4, <1>6, <1>8 DEF Leads
<1>10. QED
  BY <1>9 DEF us, C

(* The first message that is handled is the first that tells something.    *)
LEMMA LeadsTail ==
    ASSUME NEW A, NEW B, NEW sent \in Seq(Message), sent # <<>>, Leads(A, sent, B)
    PROVE  Leads(Told(A, Head(sent)), Tail(sent), B)
<1>1. PICK P \in Seq(SUBSET Key) :
         /\ Len(P) = Len(sent) + 1 /\ P[1] = A /\ P[Len(P)] = B
         /\ \A i \in DOMAIN sent : P[i + 1] = Told(P[i], sent[i])
  BY DEF Leads
<1>. DEFINE Q == Tail(P)
            us == Tail(sent)
            n == Len(us)
<1>2. /\ n \in Nat /\ Len(sent) = n + 1 /\ DOMAIN sent = 1 .. n + 1 /\ DOMAIN us = 1 .. n
      /\ Head(sent) = sent[1] /\ \A k \in 1 .. n : us[k] = sent[k + 1]
  OBVIOUS
<1>3. /\ Len(P) = n + 2 /\ Q \in Seq(SUBSET Key) /\ Len(Q) = n + 1
      /\ \A k \in 1 .. n + 1 : Q[k] = P[k + 1]
  BY <1>1, <1>2
<1>. HIDE DEF Q, us, n
<1>4. ASSUME NEW i \in DOMAIN us PROVE Q[i + 1] = Told(Q[i], us[i])
  <2>1. i + 1 \in DOMAIN sent /\ i \in 1 .. n + 1 /\ i + 1 \in 1 .. n + 1
    BY <1>2
  <2>2. P[(i + 1) + 1] = Told(P[i + 1], sent[i + 1])
    BY <1>1, <2>1
  <2>3. QED
    BY <1>2, <1>3, <2>1, <2>2
<1>5. Q[1] = Told(A, Head(sent))
  <2>1. 1 \in DOMAIN sent /\ 1 \in 1 .. n + 1
    BY <1>2
  <2>2. P[1 + 1] = Told(P[1], sent[1])
    BY <1>1, <2>1
  <2>3. QED
    BY <1>1, <1>2, <1>3, <2>1, <2>2
<1>6. Q[Len(Q)] = B /\ Len(Q) = Len(us) + 1
  <2>1. Len(P) = (n + 1) + 1 /\ n + 1 \in 1 .. n + 1
    BY <1>2, <1>3
  <2>2. QED
    BY <1>1, <1>3, <2>1 DEF n
<1>7. QED
  BY <1>3, <1>4, <1>5, <1>6 DEF Leads, us

(* What a list of events says of the keys it is about is B, whatever was    *)
(* thought of them before.                                                 *)
LEMMA IngestedSettled ==
    ASSUME NEW A \in SUBSET Key, NEW s \in Seq(Event), NEW B \in SUBSET Key,
           Ingested(A, s) = B
    PROVE  Ingested(B, s) = B
<1>1. ASSUME NEW k \in Key PROVE k \in Ingested(B, s) <=> k \in B
  <2>1. CASE \A i \in DOMAIN s : ~About(s[i], k)
    BY <2>1 DEF Ingested, Mentions
  <2>2. CASE \E i \in DOMAIN s : About(s[i], k)
    BY <2>2 DEF Ingested, Mentions
  <2>3. QED
    BY <2>1, <2>2
<1>2. Ingested(B, s) \subseteq Key
  BY DEF Ingested, Mentions
<1>3. QED
  BY <1>1, <1>2

(* The same for the message that is being sent.                            *)
LEMMA LeadsSent ==
    ASSUME NEW A, NEW B \in SUBSET Key, NEW sent \in Seq(Message), Leads(A, sent \o <<>>, B),
           NEW message \in Message
    PROVE  Leads(A, sent \o <<message>>, Told(B, message))
<1>1. sent \o <<>> = sent /\ sent \o <<message>> = Append(sent, message)
  OBVIOUS
<1>2. QED
  BY <1>1, LeadsAppend

-----------------------------------------------------------------------------
(* The invariant behind BelievedAgrees.                                    *)
HasDropped(events) == \E i \in DOMAIN events : events[i] = Dropped
HasReport(events) == \E i \in DOMAIN events : events[i] = Report
Keyless(events) == \A i \in DOMAIN events : events[i].kind # "key"

SentTypes ==
    /\ messages \in Seq(Message) /\ outgoing \in Seq(Message) /\ believed \in SUBSET Key

(* SYN_DROPPED comes first, and the next report with it in one read.        *)
QueueShape(q) ==
    \A i \in DOMAIN q :
        q[i] = Dropped => i = 1 /\ \E j \in DOMAIN q : j <= 3 /\ q[j] = Report

BufferShape(b) == \A i \in DOMAIN b : b[i] = Dropped => i = 1 /\ HasReport(b)

(* Reads cut frames apart, but the rest of a frame is always on its way.    *)
Whole(q, b, f) ==
    /\ q # <<>> => Last(q) = Report
    /\ q = <<>> /\ b # <<>> => Last(b) = Report
    /\ q = <<>> /\ b = <<>> => f = <<>>

DroppingEnds ==
    /\ dropping => /\ frame = <<>> /\ ~HasDropped(buffer)
                   /\ step = "state?" \/ (step = "read" /\ HasReport(buffer))
    /\ step = "state?" => dropping

(* Two sets agree on the keys that are not in but.                          *)
AgreeBut(A, B, but) == \A k \in Key \ but : k \in A <=> k \in B

(* K is what the engine will believe when it has handled what was sent.     *)
Agrees(K) ==
    /\ HasDropped(queue) => Ingested(pressed, queue) = pressed
    /\ ~HasDropped(queue) /\ (dropping \/ HasDropped(buffer)) =>
          Ingested(pressed, buffer \o queue) = pressed
    /\ ~HasDropped(queue) /\ ~dropping /\ ~HasDropped(buffer) =>
          AgreeBut(Ingested(K, frame \o (buffer \o queue)), pressed, overtaken)

Believes ==
    \E K \in SUBSET Key :
        Leads(believed, messages \o outgoing, K) /\ (Active => Agrees(K))

BelieveInv ==
    /\ SentTypes
    /\ QueueShape(queue)
    /\ BufferShape(buffer)
    /\ Whole(queue, buffer, frame)
    /\ DroppingEnds
    /\ Believes

(* The kinds tell the events apart.                                        *)
LEMMA EventKinds ==
    /\ Report \in Event /\ Dropped \in Event /\ Report # Dropped
    /\ Report.kind # "key" /\ Dropped.kind # "key"
    /\ \A x \in Event : (x.kind = "dropped" <=> x = Dropped)
                          /\ (x.kind = "report" <=> x = Report)
  BY DEF Event, Report, Dropped

(* Nothing queued and nothing read has every shape.                        *)
LEMMA NothingShapes ==
    /\ <<>> \in Seq(Event) /\ QueueShape(<<>>) /\ BufferShape(<<>>) /\ Whole(<<>>, <<>>, <<>>)
    /\ ~HasDropped(<<>>) /\ ~HasReport(<<>>)
<1>1. <<>> \in Seq(Event) /\ DOMAIN <<>> = {}
  OBVIOUS
<1>2. QED
  BY <1>1, Zenon DEF QueueShape, BufferShape, Whole, HasDropped, HasReport

(* A list without key events tells nothing.                                *)
LEMMA KeylessIngested ==
    ASSUME NEW K \in SUBSET Key, NEW s \in Seq(Event), Keyless(s)
    PROVE  Ingested(K, s) = K
  BY IngestedOnce DEF Keyless

(* What a query leaves of the queue.                                       *)
LEMMA FlushedShape ==
    ASSUME queue \in Seq(Event)
    PROVE  /\ Flushed \in Seq(Event) /\ Keyless(Flushed) /\ QueueShape(Flushed)
           /\ Flushed # <<>> => Last(Flushed) = Report
           /\ Flushed = <<>> <=> queue = <<>>
           /\ HasDropped(Flushed) => HasDropped(queue)
           /\ QueueShape(queue) /\ HasDropped(queue) => HasDropped(Flushed)
<1>1. /\ <<Dropped, Report>> \in Seq(Event) /\ <<Report>> \in Seq(Event)
      /\ DOMAIN <<Dropped, Report>> = {1, 2} /\ DOMAIN <<Report>> = {1}
      /\ Len(<<Dropped, Report>>) = 2 /\ Len(<<Report>>) = 1
      /\ <<Dropped, Report>>[1] = Dropped /\ <<Dropped, Report>>[2] = Report
      /\ <<Report>>[1] = Report /\ <<Dropped, Report>> # <<>> /\ <<Report>> # <<>>
  BY EventKinds
<1>. DEFINE u == <<Dropped, Report>>
            v == <<Report>>
<1>2. Keyless(u) /\ Keyless(v) /\ Last(u) = Report /\ Last(v) = Report
  BY <1>1, EventKinds DEF Keyless, Last
<1>3. QueueShape(u) /\ QueueShape(v) /\ HasDropped(u) /\ ~HasDropped(v)
  <2>. HIDE DEF u, v
  <2>1. QED
    BY <1>1, EventKinds DEF QueueShape, HasDropped, u, v
<1>4. Keyless(<<>>)
  BY DEF Keyless
<1>5. Flushed = (IF queue = <<>> THEN <<>> ELSE IF Head(queue).kind = "dropped" THEN u ELSE v)
  BY DEF Flushed
<1>. HIDE DEF u, v
<1>6. /\ queue # <<>> /\ Head(queue).kind = "dropped" => HasDropped(queue)
      /\ QueueShape(queue) /\ HasDropped(queue) => queue # <<>> /\ Head(queue).kind = "dropped"
  <2>1. queue # <<>> => 1 \in DOMAIN queue /\ Head(queue) = queue[1] /\ Head(queue) \in Event
    OBVIOUS
  <2>2. ~HasDropped(<<>>)
    BY NothingShapes
  <2>3. QED
    BY <2>1, <2>2, EventKinds DEF HasDropped, QueueShape
<1>7. QED
  BY <1>1, <1>2, <1>3, <1>4, <1>5, <1>6, NothingShapes DEF u, v

(* Three events make the same list, however they are put together.         *)
LEMMA ShortLists ==
    ASSUME NEW a \in Event, NEW b \in Event, NEW c \in Event
    PROVE  Append(<<a, b>>, c) = <<a, b, c>> /\ <<a>> \o <<b, c>> = <<a, b, c>>
<1>. DEFINE u == Append(<<a, b>>, c)
            v == <<a>> \o <<b, c>>
            w == <<a, b, c>>
<1>1. /\ u \in Seq(Event) /\ Len(u) = 3 /\ u[1] = a /\ u[2] = b /\ u[3] = c
      /\ v \in Seq(Event) /\ Len(v) = 3 /\ v[1] = a /\ v[2] = b /\ v[3] = c
      /\ w \in Seq(Event) /\ Len(w) = 3 /\ w[1] = a /\ w[2] = b /\ w[3] = c
  OBVIOUS
<1>. HIDE DEF u, v, w
<1>2. \A i \in 1 .. 3 : i = 1 \/ i = 2 \/ i = 3
  OBVIOUS
<1>3. u = w /\ v = w
  BY <1>1, <1>2, SeqEqual
<1>4. QED
  BY <1>3 DEF u, v, w

(* What a key that moves adds to the queue.                                *)
Moved(x) == <<x, Report>>

(* It is a list of events, also after SYN_DROPPED.                         *)
LEMMA MovedType ==
    ASSUME NEW x \in Event
    PROVE  Moved(x) \in Seq(Event) /\ <<Dropped>> \o Moved(x) = <<Dropped, x, Report>>
<1>1. Moved(x) \in Seq(Event)
  BY EventKinds DEF Moved
<1>2. <<Dropped>> \o <<x, Report>> = <<Dropped, x, Report>>
  BY EventKinds, ShortLists, Zenon
<1>3. QED
  BY <1>1, <1>2, Zenon DEF Moved

(* A key event and its report enter the queue, or replace it.               *)
LEMMA MovedQueue ==
    ASSUME NEW q \in Seq(Event), QueueShape(q), NEW x \in Event, x.kind = "key"
    PROVE  LET r == Queued(Queued(q, x), Report) IN
           /\ r \in Seq(Event) /\ r # <<>> /\ Last(r) = Report
           /\ QueueShape(r)
           /\ r \in {q \o Moved(x), <<Dropped, x, Report>>, <<Dropped, Report>>}
           /\ r # q \o Moved(x) => HasDropped(r)
           /\ r = q \o Moved(x) => (HasDropped(r) <=> HasDropped(q))
<1>. DEFINE r == Queued(Queued(q, x), Report)
            n == Len(q)
            u == q \o Moved(x)
            v == <<Dropped, x, Report>>
            w == <<Dropped, Report>>
<1>1. QueueSize \in Nat /\ QueueSize >= 2 /\ n \in Nat /\ DOMAIN q = 1 .. n
  BY HandoffAssumption
<1>2. x # Dropped /\ x # Report /\ Report # Dropped /\ Report \in Event /\ Dropped \in Event
  BY EventKinds
<1>3. /\ u \in Seq(Event) /\ Len(u) = n + 2 /\ DOMAIN u = 1 .. n + 2
      /\ u[n + 1] = x /\ u[n + 2] = Report /\ \A i \in 1 .. n : u[i] = q[i]
  BY <1>2 DEF Moved
<1>4. /\ v \in Seq(Event) /\ Len(v) = 3 /\ DOMAIN v = {1, 2, 3}
      /\ v[1] = Dropped /\ v[2] = x /\ v[3] = Report
  BY <1>2
<1>5. w \in Seq(Event) /\ Len(w) = 2 /\ DOMAIN w = {1, 2} /\ w[1] = Dropped /\ w[2] = Report
  BY <1>2
<1>6. r \in {u, v, w}
  <2>1. CASE n < QueueSize
    <3>1. Queued(q, x) = Append(q, x)
      BY <2>1 DEF Queued
    <3>2. Len(Append(q, x)) = n + 1 /\ Append(Append(q, x), Report) = u
      BY DEF Moved
    <3>3. QED
      BY <3>1, <3>2 DEF Queued
  <2>2. CASE ~(n < QueueSize)
    <3>1. Queued(q, x) = <<Dropped, x>>
      BY <2>2 DEF Queued
    <3>2. Append(<<Dropped, x>>, Report) = v
      BY <1>2, ShortLists
    <3>. HIDE DEF v
    <3>3. QED
      BY <3>1, <3>2 DEF Queued
  <2>3. QED
    BY <2>1, <2>2
<1>. HIDE DEF r, u, v, w, n
<1>7. HasDropped(v) /\ HasDropped(w)
  BY <1>4, <1>5 DEF HasDropped
<1>8. HasDropped(u) <=> HasDropped(q)
  <2>1. ASSUME NEW i \in 1 .. n + 2, u[i] = Dropped PROVE i \in 1 .. n
    <3>1. i \in 1 .. n \/ i = n + 1 \/ i = n + 2
      BY <1>1
    <3>2. QED
      BY <1>2, <1>3, <2>1, <3>1
  <2>2. \A i \in 1 .. n : i \in 1 .. n + 2
    BY <1>1
  <2>3. QED
    BY <1>1, <1>3, <2>1, <2>2 DEF HasDropped
<1>9. /\ u # <<>> /\ Last(u) = Report /\ v # <<>> /\ Last(v) = Report
      /\ w # <<>> /\ Last(w) = Report
  <2>1. n + 2 # 0 /\ 3 # 0 /\ 2 # 0 /\ Len(<<>>) = 0
    BY <1>1
  <2>2. u # <<>> /\ v # <<>> /\ w # <<>>
    BY <1>3, <1>4, <1>5, <2>1, Zenon
  <2>3. Last(u) = Report
    BY <1>3 DEF Last
  <2>4. Last(v) = Report
    BY <1>4 DEF Last
  <2>5. Last(w) = Report
    BY <1>5 DEF Last
  <2>6. QED
    BY <2>2, <2>3, <2>4, <2>5
<1>10. QueueShape(u)
  <2>1. SUFFICES ASSUME NEW i \in 1 .. n + 2, u[i] = Dropped
                 PROVE  i = 1 /\ \E j \in 1 .. n + 2 : j <= 3 /\ u[j] = Report
    BY <1>3 DEF QueueShape
  <2>2. i \in 1 .. n
    <3>1. i \in 1 .. n \/ i = n + 1 \/ i = n + 2
      BY <1>1
    <3>2. QED
      BY <1>2, <1>3, <2>1, <3>1
  <2>3. q[i] = Dropped
    BY <1>3, <2>1, <2>2
  <2>4. PICK j \in 1 .. n : j <= 3 /\ q[j] = Report
    BY <1>1, <2>2, <2>3 DEF QueueShape
  <2>5. i = 1
    BY <1>1, <2>2, <2>3 DEF QueueShape
  <2>6. j \in 1 .. n + 2 /\ u[j] = Report
    BY <1>1, <1>3, <2>4
  <2>7. QED
    BY <2>4, <2>5, <2>6
<1>11. QueueShape(v) /\ QueueShape(w)
  BY <1>2, <1>4, <1>5 DEF QueueShape
<1>12. QED
  BY <1>3, <1>4, <1>5, <1>6, <1>7, <1>8, <1>9, <1>10, <1>11 DEF r, u, v, w

(* Its key event tells how the key has moved.                              *)
LEMMA IngestedMove ==
    ASSUME NEW A \in SUBSET Key, NEW s \in Seq(Event), NEW x \in Event, x.kind = "key"
    PROVE  Ingested(A, s \o Moved(x)) =
             IF x.down THEN Ingested(A, s) \cup {x.key} ELSE Ingested(A, s) \ {x.key}
<1>. DEFINE B == Ingested(A, s)
            C == IF x.down THEN B \cup {x.key} ELSE B \ {x.key}
            one == <<x>>
            two == <<Report>>
<1>1. /\ one \in Seq(Event) /\ two \in Seq(Event) /\ Moved(x) = one \o two
      /\ Report \in Event /\ Report.kind # "key"
  BY EventKinds DEF Moved
<1>2. B \in SUBSET Key
  BY IngestedOnce
<1>3. C \in SUBSET Key
  BY <1>2 DEF Event
<1>4. Ingested(B, one) = C
  <2>. HIDE DEF B
  <2>1. QED
    BY <1>2, IngestedOne
<1>5. Ingested(C, two) = C
  <2>. HIDE DEF C
  <2>1. QED
    BY <1>1, <1>3, IngestedOne
<1>. HIDE DEF one, two, B, C
<1>6. Ingested(B, one \o two) = C
  BY <1>1, <1>2, <1>4, <1>5, IngestedConcat
<1>7. Ingested(A, s \o Moved(x)) = Ingested(B, Moved(x))
  BY MovedType, IngestedConcat DEF B
<1>8. QED
  BY <1>1, <1>6, <1>7 DEF B, C

(* A list that tells what is pressed still does so when a key has moved.    *)
LEMMA IngestedFollows ==
    ASSUME NEW A \in SUBSET Key, NEW s \in Seq(Event), NEW B \in SUBSET Key, Ingested(A, s) = B,
           NEW x \in Event, x.kind = "key",
           NEW C, C = IF x.down THEN B \cup {x.key} ELSE B \ {x.key}
    PROVE  Ingested(C, s \o Moved(x)) = C
<1>. DEFINE u == s \o Moved(x)
<1>1. Ingested(A, u) = C
  BY IngestedMove
<1>2. C \in SUBSET Key
  BY DEF Event
<1>3. u \in Seq(Event)
  BY MovedType
<1>. HIDE DEF u
<1>4. Ingested(C, u) = C
  BY <1>1, <1>2, <1>3, IngestedSettled
<1>5. QED
  BY <1>4 DEF u

(* A key that moves is told by its event, behind everything else queued,   *)
(* or its event comes with SYN_DROPPED and the query tells it.  Whatever   *)
(* overtook its last event, this one has not been overtaken.               *)
LEMMA MoveBelieves ==
    ASSUME HandoffInv, BelieveInv, NEW k \in Key, Move(k)
    PROVE  BelieveInv'
<1>. DEFINE down == k \notin pressed
            x == KeyEvent(k, down)
            r == Queued(Queued(queue, x), Report)
<1>1. /\ UNCHANGED <<step, buffer, frame, dropping, outgoing, messages, believed>>
      /\ queue' = IF step = "closed" THEN queue ELSE r
      /\ overtaken' = overtaken \ {k}
  BY DEF Move, deviceVars
<1>3. /\ queue \in Seq(Event) /\ buffer \in Seq(Event) /\ frame \in Seq(Event)
      /\ pressed \in SUBSET Key /\ grabbed \in BOOLEAN
      /\ ~Active => buffer = <<>> /\ frame = <<>>
  BY DEF HandoffInv, EventLists, DirectDown, GrabbedInStep, NothingRead
<1>4. x \in Event /\ x.kind = "key" /\ x.key = k /\ x.down = down
  BY <1>3, EventsMade DEF KeyEvent
<1>5. pressed' = IF x.down THEN pressed \cup {x.key} ELSE pressed \ {x.key}
  BY <1>4 DEF Move
<1>6. pressed' \in SUBSET Key
  BY <1>3, <1>4, <1>5
<1>. HIDE DEF x, r
<1>7. /\ r \in Seq(Event) /\ r # <<>> /\ Last(r) = Report
      /\ QueueShape(r)
      /\ r \in {queue \o Moved(x), <<Dropped, x, Report>>, <<Dropped, Report>>}
      /\ r # queue \o Moved(x) => HasDropped(r)
      /\ r = queue \o Moved(x) => (HasDropped(r) <=> HasDropped(queue))
  BY <1>3, <1>4, MovedQueue DEF BelieveInv, r
<1>8. SentTypes' /\ BufferShape(buffer') /\ DroppingEnds'
  BY <1>1 DEF BelieveInv, SentTypes, DroppingEnds
<1>9. QueueShape(queue') /\ Whole(queue', buffer', frame')
  BY <1>1, <1>7 DEF BelieveInv, Whole
<1>10. PICK K \in SUBSET Key : Leads(believed, messages \o outgoing, K) /\ (Active => Agrees(K))
  BY DEF BelieveInv, Believes
<1>t. Moved(x) \in Seq(Event)
  BY <1>4, MovedType
<1>11. ASSUME Active PROVE Agrees(K)'
  <2>1. queue' = r /\ Agrees(K)
    BY <1>1, <1>10, <1>11 DEF Active
  <2>2. CASE HasDropped(r)
    <3>1. Ingested(pressed', r) = pressed'
      <4>1. CASE r = queue \o Moved(x)
        <5>1. Ingested(pressed, queue) = pressed
          BY <1>7, <2>1, <2>2, <4>1 DEF Agrees
        <5>. HIDE DEF down
        <5>2. Ingested(pressed', queue \o Moved(x)) = pressed'
          BY <1>3, <1>4, <1>5, <5>1, IngestedFollows
        <5>3. QED
          BY <4>1, <5>2, Zenon
      <4>2. CASE r = <<Dropped, x, Report>>
        <5>. DEFINE s == <<Dropped>>
        <5>1. s \in Seq(Event) /\ DOMAIN s = {1} /\ s[1] = Dropped
          BY EventKinds
        <5>2. s \o Moved(x) = r
          BY <1>4, <4>2, MovedType, Zenon
        <5>. HIDE DEF s, down
        <5>3. Ingested(pressed, s) = pressed
          BY <1>3, <5>1, EventKinds, KeylessIngested DEF Keyless
        <5>4. Ingested(pressed', s \o Moved(x)) = pressed'
          BY <1>3, <1>4, <1>5, <5>1, <5>3, IngestedFollows
        <5>5. QED
          BY <5>2, <5>4, Zenon
      <4>3. CASE r = <<Dropped, Report>>
        <5>1. Keyless(r)
          BY <4>3, EventKinds DEF Keyless
        <5>2. QED
          BY <1>6, <1>7, <5>1, KeylessIngested
      <4>4. QED
        BY <1>7, <4>1, <4>2, <4>3
    <3>2. QED
      BY <1>1, <2>1, <2>2, <3>1 DEF Agrees
  <2>3. CASE ~HasDropped(r) /\ (dropping \/ HasDropped(buffer))
    <3>1. r = queue \o Moved(x) /\ ~HasDropped(queue)
      BY <1>7, <2>3
    <3>. DEFINE s == buffer \o queue
                t == Moved(x)
    <3>2. s \in Seq(Event) /\ t \in Seq(Event)
      BY <1>3, <1>t
    <3>3. Ingested(pressed, s) = pressed
      BY <2>1, <2>3, <3>1 DEF Agrees
    <3>4. s \o t = buffer \o r
      <4>. HIDE DEF t
      <4>1. QED
        BY <1>3, <3>1, <3>2 DEF t
    <3>. HIDE DEF s, down
    <3>5. Ingested(pressed', s \o t) = pressed'
      BY <1>3, <1>4, <1>5, <3>2, <3>3, IngestedFollows
    <3>6. QED
      BY <1>1, <2>1, <2>3, <3>4, <3>5 DEF Agrees
  <2>4. CASE ~HasDropped(r) /\ ~dropping /\ ~HasDropped(buffer)
    <3>1. r = queue \o Moved(x) /\ ~HasDropped(queue)
      BY <1>7, <2>4
    <3>. DEFINE s == frame \o (buffer \o queue)
                t == Moved(x)
    <3>2. s \in Seq(Event) /\ t \in Seq(Event)
      BY <1>3, <1>t
    <3>3. AgreeBut(Ingested(K, s), pressed, overtaken)
      BY <2>1, <2>4, <3>1 DEF Agrees
    <3>4. s \o t = frame \o (buffer \o r)
      <4>. HIDE DEF t
      <4>1. QED
        BY <1>3, <3>1, <3>2 DEF t
    <3>. HIDE DEF s, down
    <3>5. Ingested(K, s \o t) =
            IF x.down THEN Ingested(K, s) \cup {x.key} ELSE Ingested(K, s) \ {x.key}
      BY <1>4, <3>2, IngestedMove
    <3>. HIDE DEF t
    <3>6. AgreeBut(Ingested(K, s \o t), pressed', overtaken')
      BY <1>1, <1>4, <1>5, <3>3, <3>5 DEF AgreeBut
    <3>7. QED
      BY <1>1, <2>1, <2>4, <3>4, <3>6 DEF Agrees
  <2>5. QED
    BY <2>2, <2>3, <2>4
<1>12. Believes'
  <2>1. Leads(believed', messages' \o outgoing', K) /\ (Active' <=> Active)
    BY <1>1, <1>10 DEF Active
  <2>2. QED
    BY <1>11, <2>1 DEF Believes
<1>13. QED
  BY <1>8, <1>9, <1>12 DEF BelieveInv

-----------------------------------------------------------------------------
(* A read moves the head of the queue to the buffer.                       *)
LEMMA SplitParts ==
    ASSUME NEW q \in Seq(Event), NEW c \in 0 .. Len(q)
    PROVE  LET b == SubSeq(q, 1, c)
               r == SubSeq(q, c + 1, Len(q))
           IN /\ b \in Seq(Event) /\ r \in Seq(Event)
              /\ Len(b) = c /\ DOMAIN b = 1 .. c /\ \A i \in 1 .. c : b[i] = q[i]
              /\ Len(r) = Len(q) - c /\ DOMAIN r = 1 .. Len(q) - c
              /\ \A i \in 1 .. Len(q) - c : r[i] = q[c + i]
              /\ b \o r = q
<1>. DEFINE b == SubSeq(q, 1, c)
            n == Len(q)
            r == SubSeq(q, c + 1, n)
<1>1. n \in Nat /\ c \in Nat /\ c <= n /\ n - c \in Nat
  OBVIOUS
<1>2. b \in Seq(Event) /\ Len(b) = c /\ DOMAIN b = 1 .. c /\ \A i \in 1 .. c : b[i] = q[i]
  BY <1>1
<1>3. /\ r \in Seq(Event) /\ Len(r) = n - c /\ DOMAIN r = 1 .. n - c
      /\ \A i \in 1 .. n - c : r[i] = q[c + i]
  BY <1>1
<1>. HIDE DEF b, r
<1>4. /\ b \o r \in Seq(Event) /\ Len(b \o r) = n
      /\ \A i \in 1 .. c : (b \o r)[i] = q[i]
      /\ \A i \in c + 1 .. n : (b \o r)[i] = r[i - c]
  BY <1>1, <1>2, <1>3
<1>5. ASSUME NEW i \in 1 .. n PROVE (b \o r)[i] = q[i]
  <2>1. CASE i \in 1 .. c
    BY <1>4, <2>1
  <2>2. CASE i \in c + 1 .. n
    <3>1. i - c \in 1 .. n - c /\ c + (i - c) = i
      BY <1>1, <2>2
    <3>2. QED
      BY <1>3, <1>4, <2>2, <3>1
  <2>3. i \in 1 .. c \/ i \in c + 1 .. n
    <3>. HIDE DEF n
    <3>1. QED
      BY <1>1
  <2>4. QED
    BY <2>1, <2>2, <2>3
<1>6. b \o r = q
  BY <1>4, <1>5, SeqEqual DEF n
<1>7. QED
  BY <1>2, <1>3, <1>6 DEF b, r

(* A read takes with SYN_DROPPED the report that follows it.               *)
LEMMA ReadBelieves ==
    ASSUME HandoffInv, BelieveInv, Read
    PROVE  BelieveInv'
<1>. DEFINE c == IF Len(queue) < ReadSize THEN Len(queue) ELSE ReadSize
            n == Len(queue)
<1>1. /\ step = "read" /\ buffer = <<>> /\ queue # <<>>
      /\ UNCHANGED <<pressed, step, frame, dropping, outgoing, messages, believed, overtaken>>
      /\ buffer' = SubSeq(queue, 1, c) /\ queue' = SubSeq(queue, c + 1, n)
  BY DEF Read, Manager
<1>2. queue \in Seq(Event) /\ frame \in Seq(Event) /\ pressed \in SUBSET Key
  BY DEF HandoffInv, EventLists, DirectDown
<1>3. /\ n \in Nat /\ n >= 1 /\ DOMAIN queue = 1 .. n /\ ReadSize \in Nat /\ ReadSize >= 3
      /\ c \in 0 .. n /\ c >= 1 /\ c <= ReadSize /\ (c = n \/ c = ReadSize)
  BY <1>1, <1>2, HandoffAssumption
<1>. HIDE DEF c
<1>4. /\ buffer' \in Seq(Event) /\ queue' \in Seq(Event)
      /\ Len(buffer') = c /\ DOMAIN buffer' = 1 .. c
      /\ \A i \in 1 .. c : buffer'[i] = queue[i]
      /\ Len(queue') = n - c /\ DOMAIN queue' = 1 .. n - c
      /\ \A i \in 1 .. n - c : queue'[i] = queue[c + i]
      /\ buffer' \o queue' = queue
  BY <1>1, <1>2, <1>3, SplitParts
<1>. HIDE DEF n
<1>5. ~dropping /\ ~HasDropped(buffer)
  BY <1>1, NothingShapes DEF BelieveInv, DroppingEnds
<1>6. \A i \in 1 .. n - c : c + i \in 1 .. n /\ c + i # 1
  BY <1>3
<1>7. ~HasDropped(queue')
  <2>1. SUFFICES ASSUME NEW i \in 1 .. n - c, queue[c + i] = Dropped PROVE FALSE
    BY <1>4 DEF HasDropped
  <2>2. c + i = 1
    BY <1>3, <1>6, <2>1 DEF BelieveInv, QueueShape
  <2>3. QED
    BY <1>6, <2>2
<1>8. QueueShape(queue')
  BY <1>7 DEF QueueShape, HasDropped
<1>9. HasDropped(queue) => queue[1] = Dropped /\ HasDropped(buffer') /\ HasReport(buffer')
  <2>1. SUFFICES ASSUME NEW i \in 1 .. n, queue[i] = Dropped
                 PROVE  queue[1] = Dropped /\ HasDropped(buffer') /\ HasReport(buffer')
    BY <1>3 DEF HasDropped
  <2>2. i = 1 /\ \E j \in 1 .. n : j <= 3 /\ queue[j] = Report
    BY <1>3, <2>1 DEF BelieveInv, QueueShape
  <2>3. PICK j \in 1 .. n : j <= 3 /\ queue[j] = Report
    BY <2>2
  <2>4. 1 \in 1 .. c /\ j \in 1 .. c
    BY <1>3, <2>3
  <2>5. QED
    BY <1>4, <2>1, <2>2, <2>3, <2>4 DEF HasDropped, HasReport
<1>10. HasDropped(buffer') => HasDropped(queue)
  <2>1. \A i \in 1 .. c : i \in 1 .. n
    BY <1>3
  <2>2. QED
    BY <1>3, <1>4, <2>1 DEF HasDropped
<1>11. BufferShape(buffer')
  <2>1. \A i \in 1 .. c : i \in 1 .. n
    BY <1>3
  <2>2. QED
    BY <1>3, <1>4, <1>9, <2>1 DEF BufferShape, HasDropped, BelieveInv, QueueShape
<1>12. Whole(queue', buffer', frame')
  <2>1. Last(queue) = Report /\ queue[n] = Report
    BY <1>1 DEF BelieveInv, Whole, Last, n
  <2>2. queue' # <<>> => Last(queue') = Report
    <3>1. SUFFICES ASSUME n - c # 0 PROVE queue'[n - c] = Report
      BY <1>4 DEF Last
    <3>2. n - c \in 1 .. n - c /\ c + (n - c) = n
      BY <1>3, <3>1
    <3>3. QED
      BY <1>4, <2>1, <3>2
  <2>3. buffer' # <<>>
    BY <1>3, <1>4
  <2>4. queue' = <<>> => Last(buffer') = Report
    <3>1. SUFFICES ASSUME n - c = 0 PROVE buffer'[c] = Report
      BY <1>4 DEF Last
    <3>2. n = c /\ c \in 1 .. c
      BY <1>3, <3>1
    <3>3. QED
      BY <1>4, <2>1, <3>2
  <2>5. QED
    BY <2>2, <2>3, <2>4 DEF Whole
<1>13. SentTypes' /\ DroppingEnds'
  BY <1>1, <1>5 DEF BelieveInv, SentTypes, DroppingEnds
<1>14. PICK K \in SUBSET Key : Leads(believed, messages \o outgoing, K) /\ Agrees(K)
  BY <1>1 DEF BelieveInv, Believes, Active
<1>15. Agrees(K)'
  <2>1. CASE HasDropped(queue)
    <3>1. HasDropped(buffer')
      BY <1>9, <2>1
    <3>2. Ingested(pressed, buffer' \o queue') = pressed
      BY <1>4, <1>14, <2>1 DEF Agrees
    <3>3. QED
      BY <1>1, <1>7, <3>1, <3>2 DEF Agrees
  <2>2. CASE ~HasDropped(queue)
    <3>1. AgreeBut(Ingested(K, frame \o (buffer \o queue)), pressed, overtaken)
      BY <1>5, <1>14, <2>2 DEF Agrees
    <3>2. buffer \o queue = queue
      BY <1>1, <1>2
    <3>3. AgreeBut(Ingested(K, frame \o (buffer' \o queue')), pressed, overtaken)
      BY <1>4, <3>1, <3>2
    <3>4. QED
      BY <1>1, <1>5, <1>7, <1>10, <2>2, <3>3 DEF Agrees
  <2>3. QED
    BY <2>1, <2>2
<1>16. Believes'
  <2>1. Leads(believed', messages' \o outgoing', K)
    BY <1>1, <1>14
  <2>2. QED
    BY <1>15, <2>1 DEF Believes
<1>17. QED
  BY <1>8, <1>11, <1>12, <1>13, <1>16 DEF BelieveInv

(* Looking at one event of the buffer.                                     *)
LEMMA TailParts ==
    ASSUME NEW b \in Seq(Event), b # <<>>, BufferShape(b)
    PROVE  LET t == Tail(b) IN
           /\ t \in Seq(Event) /\ Head(b) \in Event /\ b = <<Head(b)>> \o t
           /\ ~HasDropped(t) /\ BufferShape(t)
           /\ HasDropped(b) <=> Head(b) = Dropped
           /\ HasReport(b) /\ Head(b) # Report => HasReport(t)
           /\ t # <<>> => Last(t) = Last(b)
           /\ t = <<>> => Last(b) = Head(b)
<1>. DEFINE t == Tail(b)
            n == Len(t)
<1>1. /\ t \in Seq(Event) /\ Head(b) \in Event /\ Head(b) = b[1]
      /\ n \in Nat /\ Len(b) = n + 1 /\ DOMAIN b = 1 .. n + 1 /\ DOMAIN t = 1 .. n
      /\ \A i \in 1 .. n : t[i] = b[i + 1]
  OBVIOUS
<1>2. b = <<Head(b)>> \o t
  OBVIOUS
<1>. HIDE DEF t
<1>3. t = <<>> <=> n = 0
  BY <1>1
<1>. HIDE DEF n
<1>4. \A i \in 1 .. n : i + 1 \in 1 .. n + 1 /\ i + 1 # 1
  BY <1>1
<1>5. ~HasDropped(t)
  BY <1>1, <1>4 DEF HasDropped, BufferShape
<1>6. HasDropped(b) <=> Head(b) = Dropped
  <2>1. 1 \in 1 .. n + 1
    BY <1>1
  <2>2. QED
    BY <1>1, <2>1 DEF HasDropped, BufferShape
<1>7. HasReport(b) /\ Head(b) # Report => HasReport(t)
  <2>1. SUFFICES ASSUME NEW i \in 1 .. n + 1, b[i] = Report, Head(b) # Report
                 PROVE  HasReport(t)
    BY <1>1 DEF HasReport
  <2>2. i # 1
    BY <1>1, <2>1
  <2>3. i - 1 \in 1 .. n /\ (i - 1) + 1 = i
    BY <1>1, <2>2
  <2>4. QED
    BY <1>1, <2>1, <2>3 DEF HasReport
<1>8. /\ t # <<>> => Last(t) = Last(b)
      /\ t = <<>> => Last(b) = Head(b)
  <2>1. CASE n = 0
    BY <1>1, <1>3, <2>1 DEF Last
  <2>2. CASE n # 0
    <3>1. n \in 1 .. n
      BY <1>1, <2>2
    <3>2. Last(t) = t[n] /\ Last(b) = b[n + 1]
      BY <1>1 DEF Last, n
    <3>3. QED
      BY <1>1, <1>3, <2>2, <3>1, <3>2
  <2>3. QED
    BY <2>1, <2>2
<1>9. QED
  BY <1>1, <1>2, <1>5, <1>6, <1>7, <1>8 DEF BufferShape, HasDropped, t

(* A key event goes from what was read to the frame, in its place.         *)
LEMMA FrameGrows ==
    ASSUME NEW f \in Seq(Event), NEW h \in Event, NEW t \in Seq(Event), NEW q \in Seq(Event)
    PROVE  Append(f, h) \o (t \o q) = f \o ((<<h>> \o t) \o q)
<1>. DEFINE one == <<h>>
            tq == t \o q
<1>1. one \in Seq(Event) /\ Append(f, h) = f \o one
  OBVIOUS
<1>2. tq \in Seq(Event)
  BY ConcatProperties
<1>. HIDE DEF one
<1>3. (one \o t) \o q = one \o tq
  BY <1>1
<1>. HIDE DEF tq
<1>4. (f \o one) \o tq = f \o (one \o tq)
  BY <1>1, <1>2
<1>5. f \o (one \o tq) = f \o ((one \o t) \o q)
  BY <1>3, Zenon
<1>6. QED
  BY <1>1, <1>4, <1>5, Zenon DEF one, tq

(* The events that were read, one by one.                                  *)
LEMMA HandleBelieves ==
    ASSUME HandoffInv, BelieveInv, HandleDropped \/ HandleKey \/ HandleReport
    PROVE  BelieveInv'
<1>. DEFINE h == Head(buffer)
            t == Tail(buffer)
            head == <<h>>
<1>1. /\ step = "read" /\ outgoing = <<>> /\ buffer # <<>> /\ buffer' = t
      /\ UNCHANGED <<queue, pressed, messages, believed, overtaken>>
  BY DEF HandleDropped, HandleKey, HandleReport, Handles, Manager
<1>2. /\ queue \in Seq(Event) /\ buffer \in Seq(Event) /\ frame \in Seq(Event)
      /\ pressed \in SUBSET Key
  BY DEF HandoffInv, EventLists, DirectDown
<1>3. /\ t \in Seq(Event) /\ h \in Event /\ buffer = head \o t
      /\ ~HasDropped(t) /\ BufferShape(t)
      /\ HasDropped(buffer) <=> h = Dropped
      /\ HasReport(buffer) /\ h # Report => HasReport(t)
      /\ t # <<>> => Last(t) = Last(buffer)
      /\ t = <<>> => Last(buffer) = h
  BY <1>1, <1>2, TailParts DEF BelieveInv
<1>4. head \in Seq(Event)
  BY <1>3
<1>5. \/ /\ h = Dropped /\ HandleDropped
      \/ /\ h.kind = "key" /\ HandleKey
      \/ /\ h = Report /\ HandleReport
  BY <1>3, EventKinds DEF HandleDropped, HandleKey, HandleReport, Handles
<1>6. h.kind = "key" => h # Report /\ h # Dropped
  BY EventKinds
<1>7. frame' \in Seq(Event)
  <2>1. frame' \in {frame, <<>>, Append(frame, h)}
    BY DEF HandleDropped, HandleKey, HandleReport
  <2>. HIDE DEF h
  <2>2. Append(frame, h) \in Seq(Event) /\ <<>> \in Seq(Event)
    BY <1>2, <1>3
  <2>3. QED
    BY <1>2, <2>1, <2>2
<1>. HIDE DEF h, t, head
<1>8. Whole(queue', buffer', frame')
  <2>1. ASSUME queue = <<>>, t = <<>> PROVE frame' = <<>>
    <3>1. HandleReport
      BY <1>1, <1>3, <1>5, <1>6, <2>1, EventKinds DEF BelieveInv, Whole
    <3>2. QED
      BY <3>1 DEF HandleReport, BelieveInv, DroppingEnds
  <2>2. QED
    BY <1>1, <1>3, <2>1 DEF BelieveInv, Whole
<1>9. PICK K \in SUBSET Key : Leads(believed, messages \o outgoing, K) /\ Agrees(K)
  BY <1>1 DEF BelieveInv, Believes, Active
(* What is left to look at says of its keys what all of it says.           *)
<1>10. Ingested(pressed, buffer \o queue) = pressed => Ingested(pressed, t \o queue) = pressed
  <2>. DEFINE v == t \o queue
  <2>1. v \in Seq(Event)
    BY <1>2, <1>3
  <2>2. buffer \o queue = head \o v
    BY <1>2, <1>3, <1>4
  <2>. HIDE DEF v
  <2>3. Ingested(pressed, head \o v) = Ingested(Ingested(pressed, head), v)
    BY <1>2, <1>4, <2>1, IngestedConcat
  <2>4. Ingested(pressed, head) \in SUBSET Key
    BY <1>2, <1>4, IngestedOnce
  <2>5. Ingested(pressed, head \o v) = pressed => Ingested(pressed, v) = pressed
    BY <1>2, <2>1, <2>3, <2>4, IngestedSettled
  <2>6. QED
    BY <2>2, <2>5 DEF v
<1>11. QueueShape(queue') /\ BufferShape(buffer') /\ ~HasDropped(buffer')
  BY <1>1, <1>3 DEF BelieveInv
<1>12. CASE h = Dropped /\ HandleDropped
  <2>1. dropping' /\ frame' = <<>> /\ UNCHANGED <<step, outgoing>>
    BY <1>12 DEF HandleDropped, BelieveInv, DroppingEnds
  <2>2. HasDropped(buffer) /\ HasReport(buffer)
    <3>1. HasDropped(buffer)
      BY <1>3, <1>12
    <3>2. QED
      BY <3>1 DEF BelieveInv, BufferShape, HasDropped
  <2>3. HasReport(t)
    BY <1>3, <1>12, <2>2, EventKinds
  <2>4. DroppingEnds'
    BY <1>1, <1>11, <2>1, <2>3 DEF DroppingEnds
  <2>5. Agrees(K)'
    BY <1>1, <1>9, <1>10, <2>1, <2>2 DEF Agrees
  <2>6. SentTypes' /\ Believes'
    BY <1>1, <1>9, <2>1, <2>5 DEF BelieveInv, SentTypes, Believes
  <2>7. QED
    BY <1>8, <1>11, <2>4, <2>6 DEF BelieveInv
<1>13. CASE h.kind = "key" /\ HandleKey
  <2>1. /\ frame' = IF dropping THEN frame ELSE Append(frame, h)
        /\ UNCHANGED <<step, dropping, outgoing>>
    BY <1>13 DEF HandleKey, h
  <2>2. ~HasDropped(buffer) /\ (HasReport(buffer) => HasReport(t))
    BY <1>3, <1>6, <1>13
  <2>3. DroppingEnds'
    BY <1>1, <1>11, <2>1, <2>2 DEF BelieveInv, DroppingEnds
  <2>4. Agrees(K)'
    <3>1. CASE dropping
      BY <1>1, <1>9, <1>10, <2>1, <3>1 DEF Agrees
    <3>2. CASE ~dropping
      <4>1. Append(frame, h) \o (t \o queue) = frame \o ((head \o t) \o queue)
        BY <1>2, <1>3, FrameGrows DEF head
      <4>2. frame' \o (buffer' \o queue') = frame \o (buffer \o queue)
        BY <1>1, <1>3, <2>1, <3>2, <4>1
      <4>3. QED
        BY <1>1, <1>9, <1>11, <2>1, <2>2, <3>2, <4>2 DEF Agrees
    <3>3. QED
      BY <3>1, <3>2
  <2>5. SentTypes' /\ Believes'
    BY <1>1, <1>9, <2>1, <2>4 DEF BelieveInv, SentTypes, Believes
  <2>6. QED
    BY <1>8, <1>11, <2>3, <2>5 DEF BelieveInv
<1>14. CASE h = Report /\ HandleReport /\ dropping
  <2>1. step' = "state?" /\ UNCHANGED <<frame, outgoing, dropping>>
    BY <1>14 DEF HandleReport
  <2>2. DroppingEnds'
    BY <1>11, <1>14, <2>1 DEF BelieveInv, DroppingEnds
  <2>3. Agrees(K)'
    BY <1>1, <1>9, <1>10, <1>14, <2>1 DEF Agrees
  <2>4. SentTypes' /\ Believes'
    BY <1>1, <1>9, <2>1, <2>3 DEF BelieveInv, SentTypes, Believes
  <2>5. QED
    BY <1>8, <1>11, <2>2, <2>4 DEF BelieveInv
<1>15. CASE h = Report /\ HandleReport /\ ~dropping
  <2>. DEFINE message == [kind |-> "frame", events |-> frame]
  <2>1. outgoing' = <<message>> /\ frame' = <<>> /\ UNCHANGED <<step, dropping>>
    BY <1>15 DEF HandleReport
  <2>2. message \in Message /\ Told(K, message) = Ingested(K, frame)
    BY <1>2 DEF Message, Told
  <2>. HIDE DEF message
  <2>3. PICK L \in SUBSET Key : L = Ingested(K, frame)
    BY <1>2, IngestedOnce
  <2>4. Leads(believed', messages' \o outgoing', L)
    <3>1. Leads(believed, messages \o <<message>>, Told(K, message))
      BY <1>1, <1>9, <2>2, LeadsSent DEF BelieveInv, SentTypes
    <3>2. QED
      BY <1>1, <2>1, <2>2, <2>3, <3>1
  <2>5. ~HasDropped(buffer)
    BY <1>3, <1>15, EventKinds
  <2>6. Agrees(L)'
    <3>1. CASE HasDropped(queue)
      BY <1>1, <1>9, <1>11, <1>15, <2>1, <2>5, <3>1 DEF Agrees
    <3>2. CASE ~HasDropped(queue)
      <4>. DEFINE u == buffer \o queue
                  v == t \o queue
      <4>1. u \in Seq(Event) /\ v \in Seq(Event)
        BY <1>2, <1>3
      <4>2. AgreeBut(Ingested(K, frame \o u), pressed, overtaken)
        BY <1>9, <1>15, <2>5, <3>2 DEF Agrees
      <4>3. u = head \o v
        BY <1>2, <1>3, <1>4
      <4>4. frame' \o (buffer' \o queue') = v
        BY <1>1, <1>2, <1>3, <2>1
      <4>. HIDE DEF u, v
      <4>5. AgreeBut(Ingested(L, u), pressed, overtaken)
        BY <1>2, <2>3, <4>1, <4>2, IngestedConcat
      <4>6. Ingested(L, head \o v) = Ingested(Ingested(L, head), v)
        BY <1>4, <4>1, IngestedConcat
      <4>7. Ingested(L, head) = L
        BY <1>3, <1>15, EventKinds, IngestedOne DEF head
      <4>8. AgreeBut(Ingested(L, v), pressed, overtaken)
        BY <4>3, <4>5, <4>6, <4>7
      <4>9. QED
        BY <1>1, <1>11, <1>15, <2>1, <3>2, <4>4, <4>8 DEF Agrees
    <3>3. QED
      BY <3>1, <3>2
  <2>7. SentTypes'
    BY <1>1, <2>1, <2>2 DEF BelieveInv, SentTypes
  <2>8. DroppingEnds'
    BY <1>1, <1>15, <2>1 DEF BelieveInv, DroppingEnds
  <2>9. Believes'
    BY <2>4, <2>6 DEF Believes
  <2>10. QED
    BY <1>8, <1>11, <2>7, <2>8, <2>9 DEF BelieveInv
<1>16. QED
  BY <1>5, <1>12, <1>13, <1>14, <1>15

(* A resynchronization tells what is pressed, and what is still buffered    *)
(* says the same, but of the keys that were overtaken.                     *)
LEMMA ResyncBelieves ==
    ASSUME HandoffInv, BelieveInv, outgoing = <<>>, outgoing' = <<Resync>>,
           queue' = Flushed, ~dropping', step' = "read", ~HasDropped(buffer), frame = <<>>,
           ~HasDropped(queue) => AgreeBut(Ingested(pressed, buffer), pressed, overtaken'),
           UNCHANGED <<pressed, messages, believed, buffer, frame>>
    PROVE  BelieveInv'
<1>1. queue \in Seq(Event) /\ buffer \in Seq(Event) /\ pressed \in SUBSET Key
  BY DEF HandoffInv, EventLists, DirectDown
<1>2. /\ Flushed \in Seq(Event) /\ Keyless(Flushed) /\ QueueShape(Flushed)
      /\ Flushed # <<>> => Last(Flushed) = Report
      /\ Flushed = <<>> <=> queue = <<>>
      /\ HasDropped(Flushed) <=> HasDropped(queue)
  BY <1>1, FlushedShape DEF BelieveInv
<1>3. Resync \in Message /\ \A K : Told(K, Resync) = pressed
  BY <1>1 DEF Resync, Message, Told
<1>4. PICK K \in SUBSET Key : Leads(believed, messages \o outgoing, K)
  BY DEF BelieveInv, Believes
<1>5. SentTypes' /\ messages \in Seq(Message)
  BY <1>3 DEF BelieveInv, SentTypes
<1>. HIDE DEF Resync
<1>6. Leads(believed', messages' \o outgoing', pressed)
  <2>1. Leads(believed, messages \o <<Resync>>, Told(K, Resync))
    BY <1>3, <1>4, <1>5, LeadsSent
  <2>2. QED
    BY <1>3, <2>1
<1>7. Agrees(pressed)'
  <2>1. Ingested(pressed, Flushed) = pressed
    BY <1>1, <1>2, KeylessIngested
  <2>2. Ingested(pressed, buffer) \in SUBSET Key
    BY <1>1, IngestedOnce
  <2>3. Ingested(pressed, buffer \o Flushed) = Ingested(pressed, buffer)
    <3>1. Ingested(pressed, buffer \o Flushed) = Ingested(Ingested(pressed, buffer), Flushed)
      BY <1>1, <1>2, IngestedConcat
    <3>2. QED
      BY <1>2, <2>2, <3>1, KeylessIngested
  <2>4. frame' \o (buffer' \o queue') = buffer \o Flushed
    BY <1>1, <1>2
  <2>5. QED
    BY <1>2, <2>1, <2>3, <2>4 DEF Agrees
<1>8. QED
  BY <1>1, <1>2, <1>5, <1>6, <1>7 DEF BelieveInv, Believes, Whole, DroppingEnds

(* What the buffer says of a key that no later event is about is what      *)
(* buffer and queue say of it.                                             *)
LEMMA IngestedBefore ==
    ASSUME NEW K \in SUBSET Key, NEW s \in Seq(Event), NEW t \in Seq(Event), NEW k \in Key,
           ~Mentions(t, k)
    PROVE  k \in Ingested(K, s) <=> k \in Ingested(K, s \o t)
<1>1. k \in Ingested(Ingested(K, s), t) <=> k \in Ingested(K, s)
  BY DEF Ingested, Mentions
<1>2. QED
  BY <1>1, IngestedConcat

(* The query after SYN_DROPPED: what was read since agrees with it, but    *)
(* for the keys of which it took the last event from the queue.            *)
LEMMA QueryStateBelieves == ASSUME HandoffInv, BelieveInv, QueryState PROVE BelieveInv'
<1>1. /\ step = "state?" /\ outgoing = <<>> /\ outgoing' = <<Resync>> /\ queue' = Flushed
      /\ ~dropping' /\ step' = "read"
      /\ overtaken' = {k \in Key : Mentions(buffer, k) /\ Mentions(queue, k)}
      /\ UNCHANGED <<pressed, messages, believed, buffer, frame>>
  BY DEF QueryState, Manager
<1>2. dropping /\ ~HasDropped(buffer) /\ frame = <<>>
  BY <1>1 DEF BelieveInv, DroppingEnds
<1>3. queue \in Seq(Event) /\ buffer \in Seq(Event) /\ pressed \in SUBSET Key
  BY DEF HandoffInv, EventLists, DirectDown
<1>4. ASSUME ~HasDropped(queue)
      PROVE  AgreeBut(Ingested(pressed, buffer), pressed, overtaken')
  <2>1. Ingested(pressed, buffer \o queue) = pressed
    BY <1>1, <1>2, <1>4 DEF BelieveInv, Believes, Active, Agrees
  <2>2. ASSUME NEW k \in Key, k \notin overtaken'
        PROVE  k \in Ingested(pressed, buffer) <=> k \in pressed
    <3>1. CASE ~Mentions(buffer, k)
      BY <1>3, <3>1 DEF Ingested, Mentions
    <3>2. CASE ~Mentions(queue, k)
      BY <1>3, <2>1, <3>2, IngestedBefore
    <3>3. QED
      BY <1>1, <2>2, <3>1, <3>2
  <2>3. QED
    BY <2>2 DEF AgreeBut
<1>5. QED
  BY <1>1, <1>2, <1>4, ResyncBelieves

(* While a device is not read, nothing of it is half handled.              *)
LEMMA StillUnread ==
    ASSUME HandoffInv, BelieveInv, ~Active
    PROVE  buffer = <<>> /\ frame = <<>> /\ ~dropping
  BY DEF HandoffInv, NothingRead, BelieveInv, DroppingEnds, Active

(* The steps of a candidate; the last one tells that no key is down.       *)
LEMMA CandidateBelieves ==
    ASSUME HandoffInv, BelieveInv,
           Open \/ QueryIdle \/ Drain \/ QueryStillIdle \/ Grab \/ AfterGrab
    PROVE  BelieveInv'
<1>1. /\ ~Active /\ outgoing = <<>>
      /\ UNCHANGED <<pressed, messages, believed, buffer, frame, dropping>>
  BY DEF Open, QueryIdle, Drain, QueryStillIdle, Grab, AfterGrab, Query, Manager, Active
<1>2. buffer = <<>> /\ frame = <<>> /\ ~dropping
  BY <1>1, StillUnread
<1>3. queue \in Seq(Event) /\ pressed \in SUBSET Key
  BY DEF HandoffInv, EventLists, DirectDown
<1>4. CASE Active'
  <2>1. AfterGrab /\ outgoing' = <<Resync>> /\ queue' = Flushed /\ step' = "read"
    BY <1>4 DEF Open, QueryIdle, Drain, QueryStillIdle, Grab, AfterGrab, Query, Active
  <2>2. AgreeBut(Ingested(pressed, buffer), pressed, overtaken') /\ ~HasDropped(buffer)
    BY <1>2, <1>3, IngestedNone, NothingShapes DEF AgreeBut
  <2>3. QED
    BY <1>1, <1>2, <2>1, <2>2, ResyncBelieves
<1>5. CASE ~Active'
  <2>1. queue' \in {queue, Flushed, <<>>} /\ outgoing' = outgoing
    BY <1>5 DEF Open, QueryIdle, Drain, QueryStillIdle, Grab, AfterGrab, Query, Active
  <2>2. QueueShape(queue') /\ Whole(queue', buffer', frame')
    BY <1>1, <1>2, <1>3, <2>1, FlushedShape, NothingShapes DEF BelieveInv, Whole
  <2>3. SentTypes' /\ BufferShape(buffer') /\ DroppingEnds'
    BY <1>1, <1>2, <1>5, <2>1 DEF BelieveInv, SentTypes, DroppingEnds, Active
  <2>4. Believes'
    BY <1>1, <1>5, <2>1 DEF BelieveInv, Believes
  <2>5. QED
    BY <2>2, <2>3, <2>4 DEF BelieveInv
<1>6. QED
  BY <1>4, <1>5

(* A keyboard that is closed leaves nothing; if it was read, "removed"      *)
(* follows what was sent.                                                  *)
LEMMA FailureBelieves ==
    ASSUME HandoffInv, BelieveInv, AcquisitionFails \/ DeviceFails
    PROVE  BelieveInv'
<1>. DEFINE removed == [kind |-> "removed"]
<1>1. /\ NoDevice /\ outgoing = <<>> /\ outgoing' \in {outgoing, <<removed>>}
      /\ UNCHANGED <<messages, believed>>
  BY DEF AcquisitionFails, DeviceFails, Manager
<1>2. removed \in Message /\ \A K : Told(K, removed) = {}
  BY DEF Message, Told
<1>. HIDE DEF removed
<1>3. QueueShape(queue') /\ BufferShape(buffer') /\ Whole(queue', buffer', frame')
  BY <1>1, NothingShapes DEF NoDevice
<1>4. SentTypes' /\ DroppingEnds' /\ ~Active'
  <2>1. DroppingEnds' /\ ~Active'
    BY <1>1 DEF NoDevice, DroppingEnds, Active
  <2>2. <<removed>> \in Seq(Message)
    BY <1>2
  <2>3. QED
    BY <1>1, <2>1, <2>2 DEF BelieveInv, SentTypes
<1>5. \E K \in SUBSET Key : Leads(believed', messages' \o outgoing', K)
  <2>1. PICK K \in SUBSET Key : Leads(believed, messages \o <<>>, K)
    BY <1>1 DEF BelieveInv, Believes
  <2>2. Leads(believed, messages \o <<removed>>, Told(K, removed))
    BY <1>2, <2>1, LeadsSent DEF BelieveInv, SentTypes
  <2>3. Told(K, removed) \in SUBSET Key
    BY <1>2
  <2>4. QED
    BY <1>1, <2>1, <2>2, <2>3
<1>6. QED
  BY <1>3, <1>4, <1>5 DEF BelieveInv, Believes

(* Messages are handed on in order.                                        *)
LEMMA SendBelieves == ASSUME BelieveInv, Send PROVE BelieveInv'
<1>1. /\ messages' = messages \o outgoing /\ outgoing' = <<>>
      /\ UNCHANGED <<pressed, queue, step, buffer, frame, dropping, believed, overtaken>>
  BY DEF Send, kernelVars
<1>2. messages \in Seq(Message) /\ outgoing \in Seq(Message)
  BY DEF BelieveInv, SentTypes
<1>3. messages' \o outgoing' = messages \o outgoing
  BY <1>1, <1>2
<1>4. SentTypes'
  BY <1>1, <1>2 DEF BelieveInv, SentTypes
<1>5. Believes'
  BY <1>1, <1>3 DEF BelieveInv, Believes, Active, Agrees
<1>6. QED
  BY <1>1, <1>4, <1>5 DEF BelieveInv, DroppingEnds

(* The main loop handles the next message.                                 *)
LEMMA ReceiveBelieves == ASSUME BelieveInv, Receive PROVE BelieveInv'
<1>1. /\ messages # <<>> /\ messages' = Tail(messages)
      /\ believed' = Told(believed, Head(messages))
      /\ UNCHANGED <<pressed, queue, step, buffer, frame, dropping, outgoing, overtaken>>
  BY DEF Receive, kernelVars, deviceVars
<1>2. messages \in Seq(Message) /\ outgoing \in Seq(Message) /\ believed \in SUBSET Key
  BY DEF BelieveInv, SentTypes
<1>3. /\ messages' \o outgoing' = Tail(messages \o outgoing)
      /\ messages \o outgoing \in Seq(Message) /\ messages \o outgoing # <<>>
      /\ Head(messages \o outgoing) = Head(messages) /\ Head(messages) \in Message
      /\ messages' \in Seq(Message)
  BY <1>1, <1>2
<1>4. SentTypes'
  BY <1>1, <1>2, <1>3, ToldType DEF SentTypes
<1>5. Believes'
  <2>1. PICK K \in SUBSET Key :
          Leads(believed, messages \o outgoing, K) /\ (Active => Agrees(K))
    BY DEF BelieveInv, Believes
  <2>2. Leads(believed', messages' \o outgoing', K)
    BY <1>1, <1>3, <2>1, LeadsTail
  <2>3. QED
    BY <1>1, <2>1, <2>2 DEF Believes, Active, Agrees
<1>6. QED
  BY <1>1, <1>4, <1>5 DEF BelieveInv, DroppingEnds

(* In the beginning the engine knows of no key of the keyboard.            *)
LEMMA BelieveInit == HandoffInit => BelieveInv
<1>. SUFFICES ASSUME HandoffInit PROVE BelieveInv
  OBVIOUS
<1>1. /\ queue = <<>> /\ buffer = <<>> /\ frame = <<>> /\ dropping = FALSE
      /\ outgoing = <<>> /\ messages = <<>> /\ believed = {} /\ step = "closed"
  BY DEF HandoffInit
<1>2. Leads({}, <<>>, {})
  <2>. DEFINE P == <<{}>>
  <2>1. P \in Seq(SUBSET Key) /\ Len(P) = 1 /\ P[1] = {} /\ Len(<<>>) = 0 /\ DOMAIN <<>> = {}
    OBVIOUS
  <2>. HIDE DEF P
  <2>2. QED
    BY <2>1 DEF Leads
<1>3. messages \o outgoing = <<>>
  BY <1>1
<1>4. Believes
  BY <1>1, <1>2, <1>3 DEF Believes, Active
<1>5. QED
  BY <1>1, <1>4, NothingShapes DEF BelieveInv, SentTypes, DroppingEnds

-----------------------------------------------------------------------------
(* Both invariants are inductive together.                                 *)

(* Every step keeps it.                                                    *)
LEMMA BelieveInvNext ==
    ASSUME HandoffInv, BelieveInv, [HandoffNext]_handoffVars
    PROVE  BelieveInv'
<1>1. ASSUME NEW k \in Key, Move(k) PROVE BelieveInv'
  BY <1>1, MoveBelieves
<1>2. CASE Open \/ QueryIdle \/ Drain \/ QueryStillIdle \/ Grab \/ AfterGrab
  BY <1>2, CandidateBelieves
<1>3. CASE AcquisitionFails \/ DeviceFails
  BY <1>3, FailureBelieves
<1>4. CASE Read
  BY <1>4, ReadBelieves
<1>5. CASE HandleDropped \/ HandleKey \/ HandleReport
  BY <1>5, HandleBelieves
<1>6. CASE QueryState
  BY <1>6, QueryStateBelieves
<1>7. CASE Send
  BY <1>7, SendBelieves
<1>8. CASE Receive
  BY <1>8, ReceiveBelieves
<1>9. CASE UNCHANGED handoffVars
  <2>1. UNCHANGED <<pressed, queue, step, buffer, frame, dropping, outgoing, messages, believed,
                    overtaken>>
    BY <1>9 DEF handoffVars, kernelVars, deviceVars
  <2> QED
    BY <2>1 DEF BelieveInv, SentTypes, DroppingEnds, Believes, Agrees, Active
<1> QED
  BY <1>1, <1>2, <1>3, <1>4, <1>5, <1>6, <1>7, <1>8, <1>9 DEF HandoffNext

(* When nothing is queued, read or sent any more, what the engine will     *)
(* believe is what it believes.                                            *)
LEMMA BelieveInvAgrees == ASSUME HandoffInv, BelieveInv PROVE BelievedAgrees
<1> SUFFICES ASSUME step = "read", queue = <<>>, buffer = <<>>, outgoing = <<>>, messages = <<>>
             PROVE  /\ frame = <<>> /\ ~dropping
                    /\ AgreeBut(believed, pressed, overtaken)
  BY DEF BelievedAgrees, Handled, AgreeBut
<1>1. ~HasDropped(buffer) /\ ~HasReport(buffer) /\ ~HasDropped(queue)
  BY NothingShapes
<1>2. frame = <<>> /\ ~dropping
  BY <1>1 DEF BelieveInv, Whole, DroppingEnds
<1>3. PICK K \in SUBSET Key : Leads(believed, messages \o outgoing, K) /\ Agrees(K)
  BY DEF BelieveInv, Believes, Active
<1>4. messages \o outgoing = <<>> /\ frame \o (buffer \o queue) = <<>>
  BY <1>2
<1>5. believed = K
  BY <1>3, <1>4, LeadsNone
<1>6. AgreeBut(Ingested(K, <<>>), pressed, overtaken)
  BY <1>1, <1>2, <1>3, <1>4 DEF Agrees
<1> QED
  BY <1>2, <1>5, <1>6, IngestedNone

(* "Prevents a lost release from leaving a virtual modifier permanently    *)
(* held" (docs/eakd-design.md, of the query in readReady): through         *)
(* overflows, frames cut apart, failures and new acquisitions the engine   *)
(* knows, once everything has been handled, which keys are down, all but   *)
(* those that were overtaken in the last recovery and have not moved since.*)
(* Nothing is assumed of the moment at which a key moves.                  *)
THEOREM HandoffBelieved == HandoffSpec => []BelievedAgrees
<1>1. HandoffInit => HandoffInv /\ BelieveInv
  BY HandoffInvInit, BelieveInit
<1>2. HandoffInv /\ BelieveInv /\ [HandoffNext]_handoffVars => HandoffInv' /\ BelieveInv'
  BY HandoffInvNext, BelieveInvNext
<1>3. HandoffInv /\ BelieveInv => BelievedAgrees
  BY BelieveInvAgrees
<1> QED
  BY <1>1, <1>2, <1>3, PTL DEF HandoffSpec
=============================================================================
