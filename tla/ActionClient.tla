---------------------------- MODULE ActionClient ----------------------------
(***************************************************************************)
(* eakc: the goroutine of action.Client, which keeps a connection to the   *)
(* action server and passes action IDs into a bounded channel, and         *)
(* executor.Runner, whose dispatcher hands the configured ones to a pool   *)
(* of workers; main waits for both.                                        *)
(*                                                                         *)
(* The server and the commands are external: a dial succeeds or fails, the *)
(* connection delivers IDs and ends at any time, a command runs as long as *)
(* it likes until the context kills it.                                    *)
(***************************************************************************)
EXTENDS Naturals, Lists

CONSTANTS
    Worker,         \* the max_parallel worker goroutines
    Action,
    Configured,     \* the actions in cfg.Actions
    QueueSize,      \* capacity of the channel actions
    InitialDelay,   \* initialReconnectDelay
    MaximumDelay,   \* maximumReconnectDelay
    MaxReceived     \* bound on the number of notifications

ASSUME ConfiguredAssumption == Configured \subseteq Action

ASSUME ClientAssumption ==
    /\ QueueSize \in Nat \ {0} /\ MaxReceived \in Nat
    /\ InitialDelay \in Nat \ {0} /\ MaximumDelay \in Nat
    /\ InitialDelay <= MaximumDelay

VARIABLES
    cancelled,  \* ctx is done
    client,     \* Client.Run: "dial", "retry" and "lost" (waiting after a failed
                \* dial, a lost connection), "read", "send", "done"
    delay,      \* its reconnection delay
    sending,    \* the ID that readNotifications hands over
    queue,      \* the channel actions; closed once client is "done"
    dispatcher, \* Runner.Run: "select", "hand", "returned" (jobs is closed)
    task,       \* the job the dispatcher offers
    worker,     \* "idle", "running", "done"
    main,       \* "running", "waiting" (for clientErrors), "returned"
    received,   \* history: IDs the connections have delivered
    started     \* history: IDs handed to a worker

clientVars == <<client, delay, sending>>
runnerVars == <<dispatcher, task, worker, started>>
allVars == <<cancelled, clientVars, queue, runnerVars, main, received>>

ClientInit ==
    /\ cancelled = FALSE
    /\ client = "dial" /\ delay = InitialDelay /\ sending = <<>>
    /\ queue = <<>>
    /\ dispatcher = "select" /\ task = <<>>
    /\ worker = [w \in Worker |-> "idle"]
    /\ main = "running"
    /\ received = <<>> /\ started = <<>>

Known(ids) == Kept(ids, Configured)

-----------------------------------------------------------------------------
(* Client.Run                                                              *)

(* dial: it fails when the context is done, and may fail anyhow.            *)
Dial ==
    /\ client = "dial"
    /\ \/ ~cancelled /\ client' = "read" /\ delay' = InitialDelay
       \/ ~cancelled /\ client' = "retry" /\ UNCHANGED delay
       \/ cancelled /\ client' = "done" /\ UNCHANGED delay
    /\ UNCHANGED <<cancelled, sending, queue, runnerVars, main, received>>

Smaller(m, n) == IF m <= n THEN m ELSE n

(* Mutant: the delay is doubled after it was bounded.                      *)
WakeUnbounded ==
    /\ client \in {"retry", "lost"}
    /\ client' = "dial"
    /\ delay' = IF client = "retry" THEN 2 * Smaller(delay, MaximumDelay) ELSE delay
    /\ UNCHANGED <<cancelled, sending, queue, runnerVars, main, received>>

(* waitForRetry: the timer fires.  After a failed dial the delay doubles.   *)
Wake ==
    /\ client \in {"retry", "lost"}
    /\ client' = "dial"
    /\ delay' = IF client = "retry" THEN Smaller(2 * delay, MaximumDelay) ELSE delay
    /\ UNCHANGED <<cancelled, sending, queue, runnerVars, main, received>>

(* waitForRetry: the context is done.  The select may prefer the timer.     *)
WaitAborted ==
    /\ client \in {"retry", "lost"} /\ cancelled
    /\ client' = "done"
    /\ UNCHANGED <<cancelled, delay, sending, queue, runnerVars, main, received>>

(* readNotifications: the scanner returns a line.                          *)
Receive(a) ==
    /\ client = "read" /\ Len(received) < MaxReceived
    /\ client' = "send" /\ sending' = <<a>>
    /\ received' = Append(received, a)
    /\ UNCHANGED <<cancelled, delay, queue, runnerVars, main>>

(* The end of the connection, a malformed line, or the context closed it.  *)
ReadEnds ==
    /\ client = "read"
    /\ client' = IF cancelled THEN "done" ELSE "lost"
    /\ UNCHANGED <<cancelled, delay, sending, queue, runnerVars, main, received>>

Send ==
    /\ client = "send" /\ Len(queue) < QueueSize
    /\ queue' = queue \o sending /\ sending' = <<>>
    /\ client' = "read"
    /\ UNCHANGED <<cancelled, delay, runnerVars, main, received>>

(* Mutant: the hand-over does not watch the context.                       *)
SendNeverAborted == FALSE

SendAborted ==
    /\ client = "send" /\ cancelled
    /\ client' = "done" /\ sending' = <<>>
    /\ UNCHANGED <<cancelled, delay, queue, runnerVars, main, received>>

-----------------------------------------------------------------------------
(* Runner.Run                                                              *)

(* Mutant: an ID that is not configured ends the dispatcher.               *)
TakeStops ==
    /\ dispatcher = "select" /\ queue # <<>>
    /\ queue' = Tail(queue)
    /\ IF Head(queue) \in Configured
         THEN dispatcher' = "hand" /\ task' = <<Head(queue)>>
         ELSE dispatcher' = "returned" /\ UNCHANGED task
    /\ UNCHANGED <<cancelled, clientVars, worker, started, main, received>>

(* An ID that is not configured is logged and dropped.                     *)
Take ==
    /\ dispatcher = "select" /\ queue # <<>>
    /\ queue' = Tail(queue)
    /\ IF Head(queue) \in Configured
         THEN dispatcher' = "hand" /\ task' = <<Head(queue)>>
         ELSE UNCHANGED <<dispatcher, task>>
    /\ UNCHANGED <<cancelled, clientVars, worker, started, main, received>>

(* Mutant: a job offered while every worker is busy is given up.           *)
HandOrDrop(w) ==
    /\ dispatcher = "hand"
    /\ IF worker[w] = "idle"
         THEN worker' = [worker EXCEPT ![w] = "running"] /\ started' = started \o task
         ELSE UNCHANGED <<worker, started>>
    /\ dispatcher' = "select" /\ task' = <<>>
    /\ UNCHANGED <<cancelled, clientVars, queue, main, received>>

(* The channel of jobs is unbuffered: a worker that is idle takes the job.  *)
Hand(w) ==
    /\ dispatcher = "hand" /\ worker[w] = "idle"
    /\ worker' = [worker EXCEPT ![w] = "running"]
    /\ started' = started \o task
    /\ dispatcher' = "select" /\ task' = <<>>
    /\ UNCHANGED <<cancelled, clientVars, queue, main, received>>

(* The context is done, or the channel of actions is closed and empty.     *)
DispatcherReturns ==
    /\ \/ dispatcher \in {"select", "hand"} /\ cancelled
       \/ dispatcher = "select" /\ client = "done" /\ queue = <<>>
    /\ dispatcher' = "returned" /\ task' = <<>>
    /\ UNCHANGED <<cancelled, clientVars, queue, worker, started, main, received>>

(* execute: the command ends, by itself or killed by the context.          *)
Finish(w) ==
    /\ worker[w] = "running"
    /\ worker' = [worker EXCEPT ![w] = "idle"]
    /\ UNCHANGED <<cancelled, clientVars, queue, dispatcher, task, started, main, received>>

WorkerEnds(w) ==
    /\ worker[w] = "idle" /\ dispatcher = "returned"
    /\ worker' = [worker EXCEPT ![w] = "done"]
    /\ UNCHANGED <<cancelled, clientVars, queue, dispatcher, task, started, main, received>>

-----------------------------------------------------------------------------
(* main                                                                    *)

Signal ==
    /\ ~cancelled /\ cancelled' = TRUE
    /\ UNCHANGED <<clientVars, queue, runnerVars, main, received>>

(* Mutant: the workers are not waited for.                                 *)
RunnerLeaves ==
    /\ main = "running" /\ dispatcher = "returned"
    /\ main' = "waiting" /\ cancelled' = TRUE
    /\ UNCHANGED <<clientVars, queue, runnerVars, received>>

(* workers.Wait, then stop().                                              *)
RunnerReturns ==
    /\ main = "running" /\ dispatcher = "returned"
    /\ \A w \in Worker : worker[w] = "done"
    /\ main' = "waiting" /\ cancelled' = TRUE
    /\ UNCHANGED <<clientVars, queue, runnerVars, received>>

MainReturns ==
    /\ main = "waiting" /\ client = "done"
    /\ main' = "returned"
    /\ UNCHANGED <<cancelled, clientVars, queue, runnerVars, received>>

ClientNext ==
    \/ Dial
    \/ Wake
    \/ WaitAborted
    \/ \E a \in Action : Receive(a)
    \/ ReadEnds
    \/ Send
    \/ SendAborted
    \/ Take
    \/ \E w \in Worker : Hand(w) \/ Finish(w) \/ WorkerEnds(w)
    \/ DispatcherReturns
    \/ Signal
    \/ RunnerReturns
    \/ MainReturns

ClientSpec == ClientInit /\ [][ClientNext]_allVars

(* Runnable goroutines run; nobody promises that a signal comes, that the   *)
(* server sends anything or closes, or that a command ends by itself.       *)
ClientFairness ==
    /\ WF_allVars(Dial)
    /\ WF_allVars(cancelled /\ WaitAborted)
    /\ WF_allVars(cancelled /\ ReadEnds)
    /\ WF_allVars(Send \/ SendAborted)
    /\ WF_allVars(Take \/ (\E w \in Worker : Hand(w)) \/ DispatcherReturns)
    /\ \A w \in Worker : WF_allVars((cancelled /\ Finish(w)) \/ WorkerEnds(w))
    /\ WF_allVars(RunnerReturns \/ MainReturns)

FairClientSpec == ClientSpec /\ ClientFairness

-----------------------------------------------------------------------------
(* Types, the capacity of the queue and the range of the delay.             *)
ClientTypeOK ==
    /\ cancelled \in BOOLEAN
    /\ client \in {"dial", "retry", "lost", "read", "send", "done"}
    /\ delay \in InitialDelay .. MaximumDelay
    /\ sending \in Seq(Action) /\ task \in Seq(Configured)
    /\ queue \in Seq(Action) /\ Len(queue) <= QueueSize
    /\ dispatcher \in {"select", "hand", "returned"}
    /\ worker \in [Worker -> {"idle", "running", "done"}]
    /\ main \in {"running", "waiting", "returned"}
    /\ received \in Seq(Action) /\ started \in Seq(Configured)

(* Actions are started in the order in which they were received, across     *)
(* reconnections; none is lost or started twice until shutdown begins, and  *)
(* then only the last ones are ("further received actions wait in the       *)
(* bounded channel").                                                       *)
StartedInOrder ==
    /\ IsPrefix(started, Known(received))
    /\ ~cancelled => started \o task \o Known(queue \o sending) = Known(received)

(* "the client waits for workers to exit": no command runs, nobody is about *)
(* to start one, and nobody will send to the runner when main has returned. *)
NothingOutlivesMain ==
    main = "returned" => client = "done" /\ \A w \in Worker : worker[w] = "done"

(* While a worker is free, no received action waits for ever, even behind   *)
(* others that hang.                                                        *)
FreeWorkerIsUsed ==
    \A n \in 1 .. MaxReceived :
        Len(Known(received)) >= n
          ~> \/ Len(started) >= n
             \/ cancelled
             \/ \A w \in Worker : worker[w] = "running"

(* Shutdown completes: dispatcher, client and workers never wait for each   *)
(* other in a circle, with the queue full and every worker busy.            *)
ClientShutdown == cancelled ~> main = "returned"
=============================================================================
