------------------------- MODULE ActionClientProofs -------------------------
(***************************************************************************)
(* Proofs about eakc, for any number of workers and actions, any capacity   *)
(* of the channel and any delays.                                          *)
(***************************************************************************)
EXTENDS ActionClient, SequenceLemmas

(* What the goroutines know of each other.  The client and the dispatcher   *)
(* only end once the context is done, and main only gets past the runner    *)
(* once the dispatcher and every worker have ended.                         *)
Ending ==
    /\ client = "done" => cancelled
    /\ dispatcher = "returned" => cancelled
    /\ client # "send" => sending = <<>>
    /\ Len(sending) <= 1
    /\ dispatcher # "hand" => task = <<>>
    /\ main # "running" => dispatcher = "returned" /\ \A w \in Worker : worker[w] = "done"
    /\ main = "returned" => client = "done"

ClientInv == ClientTypeOK /\ Ending

-----------------------------------------------------------------------------
LEMMA NoActions == <<>> \in Seq(Action) /\ <<>> \in Seq(Configured)
  OBVIOUS

LEMMA OneAction == \A a \in Action : <<a>> \in Seq(Action)
  OBVIOUS

LEMMA OneConfigured == \A a \in Configured : <<a>> \in Seq(Configured)
  OBVIOUS

LEMMA ClientInvInit == ClientInit => ClientInv
<1> SUFFICES ASSUME ClientInit PROVE ClientInv
  OBVIOUS
<1>1. ClientTypeOK
  <2>1. delay \in InitialDelay .. MaximumDelay /\ Len(queue) <= QueueSize
    BY ClientAssumption DEF ClientInit
  <2>2. worker \in [Worker -> {"idle", "running", "done"}]
    BY DEF ClientInit
  <2> QED
    BY <2>1, <2>2, NoActions DEF ClientInit, ClientTypeOK
<1>2. Ending
  BY DEF ClientInit, Ending
<1> QED
  BY <1>1, <1>2 DEF ClientInv

(* The delay is doubled up to its bound.                                   *)
LEMMA DelayBounded ==
    ASSUME NEW d \in InitialDelay .. MaximumDelay
    PROVE  Smaller(2 * d, MaximumDelay) \in InitialDelay .. MaximumDelay
  BY ClientAssumption DEF Smaller

LEMMA ClientTypeStep == ClientInv /\ [ClientNext]_allVars => ClientTypeOK'
<1> SUFFICES ASSUME ClientInv, [ClientNext]_allVars PROVE ClientTypeOK'
  OBVIOUS
<1> USE ClientAssumption, ConfiguredAssumption DEF ClientInv, ClientTypeOK, clientVars, runnerVars
<1>1. ASSUME WaitAborted \/ ReadEnds \/ Signal \/ RunnerReturns \/ MainReturns
             \/ UNCHANGED allVars
      PROVE  ClientTypeOK'
  BY <1>1 DEF WaitAborted, ReadEnds, Signal, RunnerReturns, MainReturns, allVars
<1>0. CASE Dial
  <2>1. delay' \in InitialDelay .. MaximumDelay
    BY <1>0 DEF Dial
  <2> QED
    BY <1>0, <2>1 DEF Dial
<1>2. CASE Wake
  <2>1. delay' \in InitialDelay .. MaximumDelay
    BY <1>2, DelayBounded DEF Wake
  <2> QED
    BY <1>2, <2>1 DEF Wake
<1>3. ASSUME NEW a \in Action, Receive(a) PROVE ClientTypeOK'
  <2>1. sending' \in Seq(Action) /\ received' \in Seq(Action)
    BY <1>3, OneAction DEF Receive
  <2> QED
    BY <1>3, <2>1 DEF Receive
<1>4. CASE Send
  <2>1. Len(sending) <= 1 /\ Len(queue) < QueueSize /\ queue' = queue \o sending
    BY <1>4 DEF Ending, Send
  <2>2. queue' \in Seq(Action) /\ Len(queue') <= QueueSize /\ sending' \in Seq(Action)
    BY <1>4, <2>1, NoActions DEF Send
  <2> QED
    BY <1>4, <2>2 DEF Send
<1>5. CASE SendAborted
  BY <1>5, NoActions DEF SendAborted
<1>6. CASE Take
  <2>1. Head(queue) \in Action /\ Tail(queue) \in Seq(Action) /\ Len(Tail(queue)) <= QueueSize
    BY <1>6 DEF Take
  <2>2. task' \in Seq(Configured)
    BY <1>6, OneConfigured DEF Take
  <2> QED
    BY <1>6, <2>1, <2>2 DEF Take
<1>7. ASSUME NEW w \in Worker, Hand(w) PROVE ClientTypeOK'
  <2>1. started' \in Seq(Configured) /\ task' \in Seq(Configured)
    BY <1>7, NoActions DEF Hand
  <2> QED
    BY <1>7, <2>1 DEF Hand
<1>8. ASSUME NEW w \in Worker, Finish(w) \/ WorkerEnds(w) PROVE ClientTypeOK'
  BY <1>8 DEF Finish, WorkerEnds
<1>9. CASE DispatcherReturns
  BY <1>9, NoActions DEF DispatcherReturns
<1> QED
  BY <1>0, <1>1, <1>2, <1>3, <1>4, <1>5, <1>6, <1>7, <1>8, <1>9 DEF ClientNext

LEMMA EndingStep == ClientInv /\ [ClientNext]_allVars => Ending'
<1> SUFFICES ASSUME ClientInv, [ClientNext]_allVars PROVE Ending'
  OBVIOUS
<1> USE DEF ClientInv, Ending, clientVars, runnerVars
<1>1. CASE Dial
  BY <1>1 DEF Dial
<1>2. ASSUME Wake \/ WaitAborted PROVE Ending'
  BY <1>2 DEF Wake, WaitAborted
<1>3. ASSUME NEW a \in Action, Receive(a) PROVE Ending'
  BY <1>3 DEF Receive
<1>4. ASSUME ReadEnds \/ Send \/ SendAborted PROVE Ending'
  BY <1>4 DEF ReadEnds, Send, SendAborted
<1>5. CASE Take
  BY <1>5 DEF Take
<1>6. ASSUME NEW w \in Worker, Hand(w) \/ Finish(w) \/ WorkerEnds(w) PROVE Ending'
  BY <1>6 DEF Hand, Finish, WorkerEnds, ClientTypeOK
<1>7. ASSUME DispatcherReturns \/ Signal PROVE Ending'
  BY <1>7 DEF DispatcherReturns, Signal
<1>8. ASSUME RunnerReturns \/ MainReturns PROVE Ending'
  BY <1>8 DEF RunnerReturns, MainReturns
<1>9. CASE UNCHANGED allVars
  BY <1>9 DEF allVars
<1> QED
  BY <1>1, <1>2, <1>3, <1>4, <1>5, <1>6, <1>7, <1>8, <1>9 DEF ClientNext

LEMMA ClientInvariant == ClientSpec => []ClientInv
<1>1. ClientInv /\ [ClientNext]_allVars => ClientInv'
  BY ClientTypeStep, EndingStep DEF ClientInv
<1> QED
  BY <1>1, ClientInvInit, PTL DEF ClientSpec

(* The client's state is well typed, the channel holds no more than its     *)
(* capacity, and the delay doubles without exceeding its bound.             *)
THEOREM ClientTypes == ClientSpec => []ClientTypeOK
<1>1. ClientInv => ClientTypeOK
  BY DEF ClientInv
<1> QED
  BY <1>1, ClientInvariant, PTL

(* main returns after the dispatcher, the workers with their commands and   *)
(* the client, whichever of them ends first.                               *)
THEOREM ClientEndsLast == ClientSpec => []NothingOutlivesMain
<1>1. ClientInv => NothingOutlivesMain
  BY DEF ClientInv, Ending, NothingOutlivesMain
<1> QED
  BY <1>1, ClientInvariant, PTL

-----------------------------------------------------------------------------
(* Known of received, of what waits in the channel and with the client.     *)
LEMMA KnownType == \A s \in Seq(Action) : Known(s) \in Seq(Configured)
<1> TAKE s \in Seq(Action)
<1>1. Action \cap Configured = Configured
  BY ConfiguredAssumption
<1> QED
  BY <1>1, KeptType, Zenon DEF Known

LEMMA KnownConcat == \A s, t \in Seq(Action) : Known(s \o t) = Known(s) \o Known(t)
  BY KeptConcat DEF Known

LEMMA KnownEmpty == Known(<<>>) = <<>>
  BY KeptEmpty DEF Known

LEMMA KnownOne == \A a \in Action : Known(<<a>>) = IF a \in Configured THEN <<a>> ELSE <<>>
  BY KeptOne DEF Known

LEMMA Associative == \A s, t, u \in Seq(Configured) : (s \o t) \o u = s \o (t \o u)
  OBVIOUS

LEMMA Concatenated == \A s, t \in Seq(Configured) : s \o t \in Seq(Configured)
  OBVIOUS

LEMMA EmptyRight == \A s \in Seq(Configured) : s \o <<>> = s /\ <<>> \o s = s
  OBVIOUS

(* The configured actions on their way to the workers: started, offered,    *)
(* waiting.  As long as neither the dispatcher nor the client has ended,    *)
(* these are all that were received; what the client gives up when it ends  *)
(* is the end of them, and so is what the dispatcher gives up.              *)
Waiting == Known(queue \o sending)

OnTheWay == started \o (task \o Waiting)

Ordered ==
    /\ dispatcher # "returned" /\ client # "done" => Known(received) = OnTheWay
    /\ dispatcher # "returned" => \E u \in Seq(Configured) : Known(received) = OnTheWay \o u
    /\ \E u \in Seq(Configured) : Known(received) = started \o u

LEMMA WayType ==
    ASSUME ClientTypeOK
    PROVE  /\ started \in Seq(Configured) /\ task \in Seq(Configured)
           /\ Waiting \in Seq(Configured) /\ task \o Waiting \in Seq(Configured)
           /\ OnTheWay \in Seq(Configured) /\ Known(received) \in Seq(Configured)
<1>1. started \in Seq(Configured) /\ task \in Seq(Configured) /\ received \in Seq(Action)
      /\ queue \o sending \in Seq(Action)
  BY DEF ClientTypeOK
<1>2. Waiting \in Seq(Configured) /\ Known(received) \in Seq(Configured)
  BY <1>1, KnownType DEF Waiting
<1>3. task \o Waiting \in Seq(Configured)
  BY <1>1, <1>2, Concatenated
<1>4. OnTheWay \in Seq(Configured)
  BY <1>1, <1>3, Concatenated DEF OnTheWay
<1> QED
  BY <1>1, <1>2, <1>3, <1>4

(* A prefix of what is on the way starts with what was started.             *)
LEMMA WayStarts ==
    ASSUME ClientTypeOK, NEW u \in Seq(Configured), Known(received) = OnTheWay \o u
    PROVE  \E v \in Seq(Configured) : Known(received) = started \o v
<1>1. started \in Seq(Configured) /\ task \o Waiting \in Seq(Configured)
  BY WayType
<1>2. (started \o (task \o Waiting)) \o u = started \o ((task \o Waiting) \o u)
  BY <1>1, Associative, Zenon
<1>3. (task \o Waiting) \o u \in Seq(Configured)
  BY <1>1, Concatenated
<1>4. Known(received) = started \o ((task \o Waiting) \o u)
  BY <1>2, Zenon DEF OnTheWay
<1> QED
  BY <1>3, <1>4

(* What is left to show of a step while the dispatcher runs.               *)
AllOnTheWay ==
    /\ client # "done" => Known(received) = OnTheWay
    /\ \E u \in Seq(Configured) : Known(received) = OnTheWay \o u

LEMMA OrderedFromWay == ClientTypeOK /\ AllOnTheWay => Ordered
  BY WayStarts DEF Ordered, AllOnTheWay

LEMMA OrderedFromWayNext == ClientTypeOK' /\ AllOnTheWay' => Ordered'
  BY OrderedFromWay, PTL

LEMMA OrderedKept ==
    ASSUME Ordered, OnTheWay' = OnTheWay, UNCHANGED <<received, started>>,
           dispatcher' # "returned" => dispatcher # "returned",
           client' # "done" => client # "done"
    PROVE  Ordered'
<1>1. Known(received)' = Known(received)
  BY DEF Known
<1> QED
  BY <1>1 DEF Ordered

LEMMA OrderedInit == ClientInit => Ordered
<1> SUFFICES ASSUME ClientInit PROVE Ordered
  OBVIOUS
<1>1. started = <<>> /\ task = <<>> /\ queue \o sending = <<>> /\ received = <<>>
  BY DEF ClientInit
<1>2. Waiting = <<>> /\ Known(received) = <<>>
  BY <1>1, KnownEmpty DEF Waiting
<1>3. OnTheWay = <<>>
  BY <1>1, <1>2 DEF OnTheWay
<1>4. <<>> = <<>> \o <<>> /\ <<>> \in Seq(Configured)
  OBVIOUS
<1> QED
  BY <1>1, <1>2, <1>3, <1>4 DEF Ordered

(* readNotifications: what is received now is on its way behind the rest.   *)
LEMMA OrderedReceive ==
    ASSUME ClientInv, ClientTypeOK', Ordered, NEW a \in Action, Receive(a)
    PROVE  Ordered'
<1> DEFINE t == Known(<<a>>)
<1>1. /\ received' = Append(received, a) /\ sending' = <<a>> /\ client' = "send"
      /\ UNCHANGED <<queue, task, started, dispatcher>>
  BY DEF Receive, runnerVars
<1>2. sending = <<>> /\ client = "read" /\ queue \in Seq(Action) /\ received \in Seq(Action)
  BY DEF Receive, ClientInv, Ending, ClientTypeOK
<1>3. <<a>> \in Seq(Action) /\ t \in Seq(Configured)
  BY OneAction, KnownType
<1>4. Known(received') = Known(received) \o t
  <2>1. received' = received \o <<a>>
    BY <1>1, <1>2, AppendIsConcat
  <2> QED
    BY <1>2, <1>3, <2>1, KnownConcat
<1>5. Waiting' = Waiting \o t
  <2>1. queue \o sending = queue
    BY <1>2
  <2>2. queue' \o sending' = queue \o <<a>>
    BY <1>1
  <2>3. Known(queue \o <<a>>) = Known(queue) \o t
    BY <1>2, <1>3, KnownConcat
  <2> QED
    BY <2>1, <2>2, <2>3, Zenon DEF Waiting, Known
<1> HIDE DEF t
<1>6. OnTheWay' = OnTheWay \o t
  <2>1. started \in Seq(Configured) /\ task \in Seq(Configured) /\ Waiting \in Seq(Configured)
    BY WayType DEF ClientInv
  <2>2. task \o Waiting \in Seq(Configured)
    BY <2>1, Concatenated
  <2>3. (task \o Waiting) \o t = task \o (Waiting \o t)
    BY <1>3, <2>1, Associative, Zenon
  <2>4. (started \o (task \o Waiting)) \o t = started \o ((task \o Waiting) \o t)
    BY <1>3, <2>1, <2>2, Associative, Zenon
  <2> QED
    BY <1>1, <1>5, <2>3, <2>4, Zenon DEF OnTheWay
<1>7. CASE dispatcher # "returned"
  <2>1. Known(received') = OnTheWay'
    BY <1>2, <1>4, <1>6, <1>7, Zenon DEF Ordered
  <2>2. Known(received') = OnTheWay' \o <<>>
    <3>1. OnTheWay \in Seq(Configured)
      BY WayType DEF ClientInv
    <3>2. OnTheWay \o t \in Seq(Configured)
      BY <1>3, <3>1, Concatenated
    <3>3. (OnTheWay \o t) \o <<>> = OnTheWay \o t
      BY <3>2, EmptyRight
    <3> QED
      BY <1>6, <2>1, <3>3, Zenon
  <2>3. AllOnTheWay'
    BY <2>1, <2>2, NoActions DEF AllOnTheWay, Known
  <2> QED
    BY <2>3, OrderedFromWayNext
<1>8. CASE dispatcher = "returned"
  <2>1. PICK u \in Seq(Configured) : Known(received) = started \o u
    BY DEF Ordered
  <2>2. started \in Seq(Configured)
    BY WayType DEF ClientInv
  <2>3. (started \o u) \o t = started \o (u \o t)
    BY <1>3, <2>2, Associative, Zenon
  <2>4. u \o t \in Seq(Configured)
    BY <1>3, Concatenated
  <2>5. Known(received') = started' \o (u \o t)
    BY <1>1, <1>4, <2>1, <2>3, Zenon
  <2> QED
    BY <1>1, <1>8, <2>4, <2>5 DEF Ordered, Known
<1> QED
  BY <1>7, <1>8

(* A hand-over that the context ends loses the last action on its way.      *)
LEMMA OrderedSendAborted ==
    ASSUME ClientInv, ClientTypeOK', Ordered, SendAborted
    PROVE  Ordered'
<1> DEFINE t == Known(sending)
<1>1. /\ sending' = <<>> /\ client' = "done" /\ client = "send"
      /\ UNCHANGED <<queue, received, task, started, dispatcher>>
  BY DEF SendAborted, runnerVars
<1>2. sending \in Seq(Action) /\ queue \in Seq(Action)
  BY DEF ClientInv, ClientTypeOK
<1>3. t \in Seq(Configured) /\ Known(queue) \in Seq(Configured)
  BY <1>2, KnownType
<1>4. Waiting = Waiting' \o t
  <2>1. queue' \o sending' = queue
    BY <1>1, <1>2
  <2>2. Known(queue \o sending) = Known(queue) \o t
    BY <1>2, KnownConcat
  <2> QED
    BY <2>1, <2>2, Zenon DEF Waiting, Known
<1>5. Waiting' = Known(queue)
  <2>1. queue' \o sending' = queue
    BY <1>1, <1>2
  <2> QED
    BY <2>1, Zenon DEF Waiting, Known
<1> HIDE DEF t
<1>6. OnTheWay = OnTheWay' \o t
  <2>1. started \in Seq(Configured) /\ task \in Seq(Configured)
    BY WayType DEF ClientInv
  <2>2. Waiting' \in Seq(Configured)
    BY <1>3, <1>5, Zenon
  <2>3. task \o Waiting' \in Seq(Configured)
    BY <2>1, <2>2, Concatenated
  <2>4. (task \o Waiting') \o t = task \o (Waiting' \o t)
    BY <1>3, <2>1, <2>2, Associative, Zenon
  <2>5. (started \o (task \o Waiting')) \o t = started \o ((task \o Waiting') \o t)
    BY <1>3, <2>1, <2>3, Associative, Zenon
  <2> QED
    BY <1>1, <1>4, <2>4, <2>5, Zenon DEF OnTheWay
<1>7. dispatcher # "returned" => Known(received) = OnTheWay' \o t
  BY <1>1, <1>6, Zenon DEF Ordered
<1>8. Known(received)' = Known(received)
  BY <1>1 DEF Known
<1> QED
  BY <1>1, <1>3, <1>7, <1>8 DEF Ordered

(* The dispatcher takes an action from the channel: it keeps its place.     *)
LEMMA TakeKeepsWay ==
    ASSUME ClientInv, Take
    PROVE  OnTheWay' = OnTheWay
<1> DEFINE h == Head(queue)
           rest == Tail(queue) \o sending
<1>1. h \in Action /\ <<h>> \in Seq(Action) /\ Tail(queue) \in Seq(Action)
      /\ sending \in Seq(Action) /\ queue = <<h>> \o Tail(queue)
  BY HeadTail, OneAction DEF Take, ClientInv, ClientTypeOK
<1>2. rest \in Seq(Action) /\ queue \o sending = <<h>> \o rest
  BY <1>1
<1>3. Known(queue \o sending) = Known(<<h>>) \o Known(rest) /\ Known(rest) \in Seq(Configured)
  BY <1>1, <1>2, KnownConcat, KnownType
<1>4. queue' \o sending' = rest /\ started' = started
  BY DEF Take, clientVars
<1>5. Waiting' = Known(rest)
  BY <1>4, Zenon DEF Waiting, Known
<1>6. task = <<>>
  BY DEF Take, ClientInv, Ending
<1>7. task' = IF h \in Configured THEN <<h>> ELSE <<>>
  BY <1>6 DEF Take
<1>8. task' = Known(<<h>>)
  BY <1>1, <1>7, KnownOne
<1>9. task \o Waiting = Waiting
  BY <1>6, WayType, EmptyRight DEF ClientInv
<1> HIDE DEF h, rest
<1>10. task' \o Waiting' = task \o Waiting
  BY <1>3, <1>5, <1>8, <1>9, Zenon DEF Waiting
<1> QED
  BY <1>4, <1>10, Zenon DEF OnTheWay

(* A worker takes what the dispatcher offers.                              *)
LEMMA HandKeepsWay ==
    ASSUME ClientInv, NEW w \in Worker, Hand(w)
    PROVE  OnTheWay' = OnTheWay
<1>1. started' = started \o task /\ task' = <<>> /\ UNCHANGED <<queue, sending>>
  BY DEF Hand, clientVars
<1>2. Waiting' = Waiting
  BY <1>1 DEF Waiting, Known
<1>3. started \in Seq(Configured) /\ task \in Seq(Configured) /\ Waiting \in Seq(Configured)
  BY WayType DEF ClientInv
<1>4. (started \o task) \o Waiting = started \o (task \o Waiting)
  BY <1>3, Associative, Zenon
<1>5. <<>> \o Waiting = Waiting
  BY <1>3, EmptyRight
<1> QED
  BY <1>1, <1>2, <1>4, <1>5, Zenon DEF OnTheWay

LEMMA OrderedStep == ClientInv /\ ClientTypeOK' /\ Ordered /\ [ClientNext]_allVars => Ordered'
<1> SUFFICES ASSUME ClientInv, ClientTypeOK', Ordered, [ClientNext]_allVars PROVE Ordered'
  OBVIOUS
<1>0. ASSUME UNCHANGED <<queue, sending, task, started>> PROVE OnTheWay' = OnTheWay
  BY <1>0 DEF OnTheWay, Waiting, Known
<1> USE DEF clientVars, runnerVars
<1>1. ASSUME Dial \/ Wake \/ WaitAborted \/ ReadEnds PROVE Ordered'
  BY <1>0, <1>1, OrderedKept DEF Dial, Wake, WaitAborted, ReadEnds
<1>2. ASSUME Signal \/ RunnerReturns \/ MainReturns \/ UNCHANGED allVars PROVE Ordered'
  BY <1>0, <1>2, OrderedKept DEF Signal, RunnerReturns, MainReturns, allVars
<1>3. ASSUME NEW w \in Worker, Finish(w) \/ WorkerEnds(w) PROVE Ordered'
  BY <1>0, <1>3, OrderedKept DEF Finish, WorkerEnds
<1>4. ASSUME NEW a \in Action, Receive(a) PROVE Ordered'
  BY <1>4, OrderedReceive
<1>5. CASE Send
  <2>1. queue' \o sending' = queue \o sending
    BY <1>5 DEF Send, ClientInv, ClientTypeOK
  <2>2. OnTheWay' = OnTheWay
    BY <1>5, <2>1 DEF Send, OnTheWay, Waiting, Known
  <2> QED
    BY <1>5, <2>2, OrderedKept DEF Send
<1>6. CASE SendAborted
  BY <1>6, OrderedSendAborted
<1>7. CASE Take
  BY <1>7, TakeKeepsWay, OrderedKept DEF Take
<1>8. ASSUME NEW w \in Worker, Hand(w) PROVE Ordered'
  <2>1. dispatcher = "hand" /\ UNCHANGED <<received, client>>
    BY <1>8 DEF Hand
  <2>2. Known(received)' = Known(received) /\ OnTheWay' = OnTheWay
    BY <1>8, <2>1, HandKeepsWay DEF Known
  <2>3. AllOnTheWay'
    BY <2>1, <2>2 DEF Ordered, AllOnTheWay
  <2> QED
    BY <2>3, OrderedFromWayNext
<1>9. CASE DispatcherReturns
  BY <1>9 DEF DispatcherReturns, Ordered, Known
<1> QED
  BY <1>1, <1>2, <1>3, <1>4, <1>5, <1>6, <1>7, <1>8, <1>9 DEF ClientNext

LEMMA OrderedGivesStarted == ClientInv /\ Ordered => StartedInOrder
<1> SUFFICES ASSUME ClientInv, Ordered PROVE StartedInOrder
  OBVIOUS
<1>1. PICK u \in Seq(Configured) : Known(received) = started \o u
  BY DEF Ordered
<1>2. started \in Seq(Configured) /\ task \in Seq(Configured) /\ Waiting \in Seq(Configured)
  BY WayType DEF ClientInv
<1>3. IsPrefix(started, Known(received))
  BY <1>1, <1>2, PrefixOfConcat
<1>4. ~cancelled => Known(received) = OnTheWay
  BY DEF Ordered, ClientInv, Ending
<1>5. (started \o task) \o Waiting = OnTheWay
  BY <1>2, Associative, Zenon DEF OnTheWay
<1> QED
  BY <1>3, <1>4, <1>5, Zenon DEF StartedInOrder, Waiting

(* Commands are started in the order of the notifications, over any number  *)
(* of reconnections, and until shutdown begins none is lost or repeated.    *)
THEOREM ClientStartsInOrder == ClientSpec => []StartedInOrder
<1>1. ClientInv /\ [ClientNext]_allVars => ClientTypeOK'
  BY ClientTypeStep
<1>2. ClientSpec => []Ordered
  BY <1>1, OrderedInit, OrderedStep, ClientInvariant, PTL DEF ClientSpec
<1> QED
  BY <1>2, OrderedGivesStarted, ClientInvariant, PTL
=============================================================================
