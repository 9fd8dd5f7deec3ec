------------------------------- MODULE JobQueue -------------------------------
(***************************************************************************)
(* The in-memory job worker, pkg/jobs/memory.go: two bounded channels, a   *)
(* pool of goroutines on each, the two counters that Stats reports, the    *)
(* goroutine that turns an interrupt into a cancellation, and Stop.        *)
(*                                                                         *)
(* A step is what one goroutine does between two points at which another   *)
(* goroutine can see the difference: a channel operation, an atomic add,   *)
(* one cancel function, the call or the return of a handler.               *)
(***************************************************************************)
EXTENDS Integers, Sequences, FiniteSets

CONSTANTS
    Jobs,           \* the calls of Enqueue with a job; each has its own caller
    FastJobs,       \* the jobs with Queue = FastQueue, the others go to qS
    HandledJobs,    \* the jobs whose Type has handlers registered
    FastWorkers,    \* the goroutines of dequeueLoop on qF ...
    SlowWorkers,    \* ... and on qS
    StatsLoop,      \* the goroutine of statsLoop
    SignalLoop,     \* the goroutine that waits for the interrupt
    FastQueueSize,  \* the capacity of the channel qF ...
    SlowQueueSize,  \* ... and of qS
    NoJob           \* a worker that holds no job

Workers == FastWorkers \cup SlowWorkers
Members == Workers \cup {StatsLoop}            \* what wg counts
Cancellable == Members \cup {SignalLoop}       \* what w.cf cancels

ASSUME JobAssumption ==
    /\ FastJobs \subseteq Jobs
    /\ HandledJobs \subseteq Jobs
    /\ NoJob \notin Jobs

ASSUME WorkerAssumption ==
    /\ IsFiniteSet(Workers)
    /\ FastWorkers \cap SlowWorkers = {}
    /\ StatsLoop \notin Workers
    /\ SignalLoop \notin Members

ASSUME SizeAssumption ==
    /\ FastQueueSize \in Nat \ {0}
    /\ SlowQueueSize \in Nat \ {0}

VARIABLES
    queue,      \* queue["fast"], queue["slow"]: what the channels qF and qS hold
    closed,     \* the channels that were closed
    caller,     \* caller[j]: where the call of Enqueue(j) is
    sen,        \* the atomic counter of enqueued jobs
    sac,        \* the atomic counter of active jobs
    pc,         \* pc[w]: where the goroutine of w is
    cur,        \* cur[w]: the job that worker w holds
    result,     \* result[w]: how the handler that w ran ended
    expired,    \* the workers whose job ran past cfg.Timeout
    cancelled,  \* the goroutines whose context is cancelled
    toCancel,   \* toCancel[c]: what the cancelAll of c has still to cancel
    stop,       \* where the call of Stop is
    ended       \* ended[j]: how the processing of job j ended (history)

callerVars == <<queue, closed, caller, sen>>
workerVars == <<pc, cur, result, expired, sac, ended>>
stopVars == <<cancelled, toCancel, stop>>
vars == <<queue, closed, caller, sen, sac, pc, cur, result, expired,
          cancelled, toCancel, stop, ended>>

Channels == {"fast", "slow"}
Capacity == [c \in Channels |-> IF c = "fast" THEN FastQueueSize ELSE SlowQueueSize]
ChannelOfJob(j) == IF j \in FastJobs THEN "fast" ELSE "slow"
ChannelOfWorker(w) == IF w \in FastWorkers THEN "fast" ELSE "slow"

CallerStates == {"idle", "sending", "sent", "returned", "panicked"}
WorkerStates == {"new", "select", "received", "counted", "running", "deferred",
                 "failing", "ending", "cancelling", "exited"}
StopStates == {"no", "closeSlow", "cancel", "wait", "done"}
EndStates == {"no", "succeeded", "failed", "unhandled"}

\* The workers between the two additions to sac in processJob.
InJob == {"running", "deferred", "failing", "ending"}

Init ==
    /\ queue = [c \in Channels |-> <<>>]
    /\ closed = {}
    /\ caller = [j \in Jobs |-> "idle"]
    /\ sen = 0
    /\ sac = 0
    /\ pc = [p \in Cancellable |-> "new"]
    /\ cur = [w \in Workers |-> NoJob]
    /\ result = [w \in Workers |-> "none"]
    /\ expired = {}
    /\ cancelled = {}
    /\ toCancel = [p \in {"stop", "signal"} |-> {}]
    /\ stop = "no"
    /\ ended = [j \in Jobs |-> "no"]

-------------------------------------------------------------------------------
(* Enqueue.  A nil job is refused with ErrJobNotFound before anything else *)
(* and changes nothing, so Jobs holds none.                                *)

Enqueue(j) ==
    /\ caller[j] = "idle"
    /\ caller' = [caller EXCEPT ![j] = "sending"]
    /\ UNCHANGED <<queue, closed, sen, workerVars, stopVars>>

\* Mutation of Send: an unbounded channel.
SendUnbounded(j) ==
    LET c == ChannelOfJob(j) IN
    /\ caller[j] = "sending"
    /\ c \notin closed
    /\ queue' = [queue EXCEPT ![c] = Append(@, j)]
    /\ caller' = [caller EXCEPT ![j] = "sent"]
    /\ UNCHANGED <<closed, sen, workerVars, stopVars>>

\* The channel operation blocks while the channel is full.
Send(j) ==
    LET c == ChannelOfJob(j) IN
    /\ caller[j] = "sending"
    /\ c \notin closed
    /\ Len(queue[c]) < Capacity[c]
    /\ queue' = [queue EXCEPT ![c] = Append(@, j)]
    /\ caller' = [caller EXCEPT ![j] = "sent"]
    /\ UNCHANGED <<closed, sen, workerVars, stopVars>>

\* A send on a closed channel panics in the caller, and so does one that was
\* blocked when the channel was closed.
SendOnClosed(j) ==
    /\ caller[j] = "sending"
    /\ ChannelOfJob(j) \in closed
    /\ caller' = [caller EXCEPT ![j] = "panicked"]
    /\ UNCHANGED <<queue, closed, sen, workerVars, stopVars>>

\* w.sen.Add(1) comes after the send: a worker may hold the job by then.
CountEnqueued(j) ==
    /\ caller[j] = "sent"
    /\ caller' = [caller EXCEPT ![j] = "returned"]
    /\ sen' = sen + 1
    /\ UNCHANGED <<queue, closed, workerVars, stopVars>>

-------------------------------------------------------------------------------
(* Start: the goroutines are spawned under cfm.  main.go calls it once,    *)
(* right after creating the worker.                                        *)

Start ==
    /\ \A p \in Cancellable : pc[p] = "new"
    /\ pc' = [p \in Cancellable |-> "select"]
    /\ UNCHANGED <<callerVars, cur, result, expired, sac, ended, stopVars>>

-------------------------------------------------------------------------------
(* dequeueLoop.  When several cases of the select are ready Go takes any:  *)
(* a cancelled worker may still take a job, and a closed channel still     *)
(* delivers what it holds.                                                 *)

\* Mutation of Receive: the job is looked at and left in the channel.
ReceivePeek(w) ==
    LET c == ChannelOfWorker(w) IN
    /\ pc[w] = "select"
    /\ queue[c] # <<>>
    /\ cur' = [cur EXCEPT ![w] = Head(queue[c])]
    /\ pc' = [pc EXCEPT ![w] = "received"]
    /\ UNCHANGED <<callerVars, result, expired, sac, ended, stopVars>>

Receive(w) ==
    LET c == ChannelOfWorker(w) IN
    /\ pc[w] = "select"
    /\ queue[c] # <<>>
    /\ cur' = [cur EXCEPT ![w] = Head(queue[c])]
    /\ queue' = [queue EXCEPT ![c] = Tail(@)]
    /\ pc' = [pc EXCEPT ![w] = "received"]
    /\ UNCHANGED <<closed, caller, sen, result, expired, sac, ended, stopVars>>

\* Mutation of ReceiveNil: the loop ends on an empty channel too.
ReceiveNothing(w) ==
    /\ pc[w] = "select"
    /\ queue[ChannelOfWorker(w)] = <<>>
    /\ pc' = [pc EXCEPT ![w] = "exited"]
    /\ UNCHANGED <<callerVars, cur, result, expired, sac, ended, stopVars>>

ReceiveNil(w) ==
    /\ pc[w] = "select"
    /\ ChannelOfWorker(w) \in closed
    /\ queue[ChannelOfWorker(w)] = <<>>
    /\ pc' = [pc EXCEPT ![w] = "exited"]
    /\ UNCHANGED <<callerVars, cur, result, expired, sac, ended, stopVars>>

\* The same case of the select in statsLoop and in the signal goroutine.
ContextDone(p) ==
    /\ pc[p] = "select"
    /\ p \in cancelled
    /\ pc' = [pc EXCEPT ![p] = "exited"]
    /\ UNCHANGED <<callerVars, cur, result, expired, sac, ended, stopVars>>

\* Mutation of CountDequeued: the context is tested again after the receive.
CountDequeuedUnlessDone(w) ==
    /\ pc[w] = "received"
    /\ sen' = sen - 1
    /\ pc' = [pc EXCEPT ![w] = IF w \in cancelled THEN "exited" ELSE "counted"]
    /\ UNCHANGED <<queue, closed, caller, cur, result, expired, sac, ended, stopVars>>

CountDequeued(w) ==
    /\ pc[w] = "received"
    /\ sen' = sen - 1
    /\ pc' = [pc EXCEPT ![w] = "counted"]
    /\ UNCHANGED <<queue, closed, caller, cur, result, expired, sac, ended, stopVars>>

-------------------------------------------------------------------------------
(* processJob.                                                             *)

\* The handler is called with a context that derives from the worker's and
\* has its own deadline.  Without a handler an error is logged.
BeginJob(w) ==
    /\ pc[w] = "counted"
    /\ sac' = sac + 1
    /\ result' = [result EXCEPT ![w] = "none"]
    /\ expired' = expired \ {w}
    /\ \/ /\ cur[w] \in HandledJobs
          /\ pc' = [pc EXCEPT ![w] = "running"]
          /\ UNCHANGED ended
       \/ /\ cur[w] \notin HandledJobs
          /\ pc' = [pc EXCEPT ![w] = "ending"]
          /\ ended' = [ended EXCEPT ![cur[w]] = "unhandled"]
    /\ UNCHANGED <<callerVars, cur, stopVars>>

HandlerEnds(w, r) ==
    /\ pc[w] = "running"
    /\ pc' = [pc EXCEPT ![w] = "deferred"]
    /\ result' = [result EXCEPT ![w] = r]
    /\ UNCHANGED <<callerVars, cur, expired, sac, ended, stopVars>>

\* The deadline only ends the context: nothing stops a handler that runs on.
Deadline(w) ==
    /\ pc[w] \in {"running", "deferred"}
    /\ w \notin expired
    /\ expired' = expired \cup {w}
    /\ UNCHANGED <<callerVars, pc, cur, result, sac, ended, stopVars>>

Disturbed(w) ==
    \/ result[w] = "panicked"
    \/ w \in cancelled
    \/ w \in expired

RecoverWhen(w, failure) ==
    /\ pc[w] = "deferred"
    /\ \/ /\ failure
          /\ pc' = [pc EXCEPT ![w] = "failing"]
          /\ UNCHANGED ended
       \/ /\ ~failure
          /\ pc' = [pc EXCEPT ![w] = "ending"]
          /\ ended' = [ended EXCEPT ![cur[w]] = "succeeded"]
    /\ UNCHANGED <<callerVars, cur, result, expired, sac, stopVars>>

\* Mutation of Recover: the failure handler is for the context only.
RecoverNotPanicked(w) == RecoverWhen(w, w \in cancelled \/ w \in expired)

\* The deferred function: recover() or ctx.Err() decides on the failure handler.
Recover(w) == RecoverWhen(w, Disturbed(w))

FailureHandlerReturns(w) ==
    /\ pc[w] = "failing"
    /\ pc' = [pc EXCEPT ![w] = "ending"]
    /\ ended' = [ended EXCEPT ![cur[w]] = "failed"]
    /\ UNCHANGED <<callerVars, cur, result, expired, sac, stopVars>>

\* Mutation of EndJob: sac goes down only after a handler that returned.
EndJobCountsReturns(w) ==
    /\ pc[w] = "ending"
    /\ sac' = IF result[w] = "panicked" THEN sac ELSE sac - 1
    /\ cur' = [cur EXCEPT ![w] = NoJob]
    /\ pc' = [pc EXCEPT ![w] = "select"]
    /\ UNCHANGED <<callerVars, result, expired, ended, stopVars>>

\* The deferred w.sac.Add(-1), and back to the select.
EndJob(w) ==
    /\ pc[w] = "ending"
    /\ sac' = sac - 1
    /\ cur' = [cur EXCEPT ![w] = NoJob]
    /\ pc' = [pc EXCEPT ![w] = "select"]
    /\ UNCHANGED <<callerVars, result, expired, ended, stopVars>>

-------------------------------------------------------------------------------
(* The interrupt and Stop.  cancelAll calls the cancel functions one after *)
(* the other.                                                              *)

Interrupt ==
    /\ pc[SignalLoop] = "select"
    /\ pc' = [pc EXCEPT ![SignalLoop] = "cancelling"]
    /\ toCancel' = [toCancel EXCEPT !["signal"] = Workers]
    /\ UNCHANGED <<callerVars, cur, result, expired, sac, ended, cancelled, stop>>

Cancel(c, w) ==
    /\ w \in toCancel[c]
    /\ toCancel' = [toCancel EXCEPT ![c] = @ \ {w}]
    /\ cancelled' = cancelled \cup {w}
    /\ UNCHANGED <<callerVars, workerVars, stop>>

\* The last two functions in w.cf are those of the stats loop and of the signal
\* goroutine itself.
SignalCancelled ==
    /\ pc[SignalLoop] = "cancelling"
    /\ toCancel["signal"] = {}
    /\ cancelled' = cancelled \cup {StatsLoop, SignalLoop}
    /\ pc' = [pc EXCEPT ![SignalLoop] = "exited"]
    /\ UNCHANGED <<callerVars, cur, result, expired, sac, ended, toCancel, stop>>

\* Mutation of StopCloseFast: only the slow channel is closed.
StopLeavesFastOpen ==
    /\ stop = "no"
    /\ pc[StatsLoop] # "new"
    /\ stop' = "closeSlow"
    /\ UNCHANGED <<callerVars, workerVars, cancelled, toCancel>>

\* sync.Once lets one caller in; main.go defers Stop after Start.
StopCloseFast ==
    /\ stop = "no"
    /\ pc[StatsLoop] # "new"
    /\ closed' = closed \cup {"fast"}
    /\ stop' = "closeSlow"
    /\ UNCHANGED <<queue, caller, sen, workerVars, cancelled, toCancel>>

StopCloseSlow ==
    /\ stop = "closeSlow"
    /\ closed' = closed \cup {"slow"}
    /\ stop' = "cancel"
    /\ toCancel' = [toCancel EXCEPT !["stop"] = Workers]
    /\ UNCHANGED <<queue, caller, sen, workerVars, cancelled>>

\* Mutation of StopCancelled: the cancel function of the stats loop is not in cf.
StopForgetsStats ==
    /\ stop = "cancel"
    /\ toCancel["stop"] = {}
    /\ cancelled' = cancelled \cup {SignalLoop}
    /\ stop' = "wait"
    /\ UNCHANGED <<callerVars, workerVars, toCancel>>

StopCancelled ==
    /\ stop = "cancel"
    /\ toCancel["stop"] = {}
    /\ cancelled' = cancelled \cup {StatsLoop, SignalLoop}
    /\ stop' = "wait"
    /\ UNCHANGED <<callerVars, workerVars, toCancel>>

\* w.wg.Wait() returns: Stop is done.
StopReturns ==
    /\ stop = "wait"
    /\ \A p \in Members : pc[p] = "exited"
    /\ stop' = "done"
    /\ UNCHANGED <<callerVars, workerVars, cancelled, toCancel>>

-------------------------------------------------------------------------------
CallerStep(j) == Enqueue(j) \/ Send(j) \/ SendOnClosed(j) \/ CountEnqueued(j)

LoopStep(w) == Receive(w) \/ ReceiveNil(w) \/ CountDequeued(w)

JobStep(w) == BeginJob(w) \/ Recover(w) \/ EndJob(w)

HandlerStep(w) ==
    \/ \E r \in {"returned", "panicked"} : HandlerEnds(w, r)
    \/ FailureHandlerReturns(w)

StopStep == StopCloseFast \/ StopCloseSlow \/ StopCancelled \/ StopReturns

CancelStep ==
    \/ \E c \in {"stop", "signal"}, w \in Workers : Cancel(c, w)
    \/ SignalCancelled

Next ==
    \/ \E j \in Jobs : CallerStep(j)
    \/ Start
    \/ \E w \in Workers : LoopStep(w) \/ JobStep(w) \/ HandlerStep(w) \/ Deadline(w)
    \/ \E p \in Cancellable : ContextDone(p)
    \/ Interrupt
    \/ CancelStep
    \/ StopStep

\* The program ends some time after Stop returned.
Terminated ==
    /\ stop = "done"
    /\ \A j \in Jobs : caller[j] \in {"returned", "panicked"}
    /\ UNCHANGED vars

Spec == Init /\ [][Next \/ Terminated]_vars

(***************************************************************************)
(* The Go scheduler runs every goroutine that can run; a handler returns   *)
(* or panics in the end; the signal that cancels the workers also wakes    *)
(* main, which goes on to Stop (main.go).  Nothing obliges a caller to     *)
(* call Enqueue, a deadline to pass or an interrupt to arrive.             *)
(***************************************************************************)
Fairness ==
    /\ WF_vars(Start)
    /\ \A j \in Jobs :
          WF_vars(Send(j)) /\ WF_vars(SendOnClosed(j)) /\ WF_vars(CountEnqueued(j))
    /\ \A w \in Workers : WF_vars(LoopStep(w) \/ JobStep(w)) /\ WF_vars(HandlerStep(w))
    /\ \A p \in Cancellable : WF_vars(ContextDone(p))
    /\ WF_vars(CancelStep)
    /\ WF_vars(pc[SignalLoop] = "exited" /\ StopCloseFast)
    /\ WF_vars(StopCloseSlow) /\ WF_vars(StopCancelled) /\ WF_vars(StopReturns)

FairSpec == Spec /\ Fairness

-------------------------------------------------------------------------------
(* Properties.                                                             *)

TypeOK ==
    /\ queue \in [Channels -> Seq(Jobs)]
    /\ \A c \in Channels : Len(queue[c]) <= Capacity[c]
    /\ closed \subseteq Channels
    /\ caller \in [Jobs -> CallerStates]
    /\ sen \in Int
    /\ sac \in Int
    /\ pc \in [Cancellable -> WorkerStates]
    /\ cur \in [Workers -> Jobs \cup {NoJob}]
    /\ result \in [Workers -> {"none", "returned", "panicked"}]
    /\ expired \subseteq Workers
    /\ cancelled \subseteq Cancellable
    /\ toCancel \in [{"stop", "signal"} -> SUBSET Workers]
    /\ stop \in StopStates
    /\ ended \in [Jobs -> EndStates]

Queued(j) == \E c \in Channels : \E i \in 1..Len(queue[c]) : queue[c][i] = j
Held(j) == \E w \in Workers : cur[w] = j

\* A job is handled at most once: it waits at one place of one channel or one
\* worker holds it, never both, and a finished job is neither queued again nor
\* handled again, whatever the callers, the workers, the interrupt and Stop do.
HandledAtMostOnce ==
    \A j \in Jobs :
        /\ \A c, d \in Channels : \A i \in 1..Len(queue[c]), k \in 1..Len(queue[d]) :
               queue[c][i] = j /\ queue[d][k] = j => c = d /\ i = k
        /\ \A v, w \in Workers : cur[v] = j /\ cur[w] = j => v = w
        /\ Queued(j) => ~Held(j) /\ ended[j] = "no"
        /\ \A w \in Workers : cur[w] = j /\ pc[w] # "ending" => ended[j] = "no"

\* An accepted job is never lost by the worker: until its processing has ended
\* it is in a channel or in the hands of a worker that has not exited, and a job
\* whose Enqueue panicked on the closed channel is nowhere.
AcceptedIsKept ==
    \A j \in Jobs :
        /\ caller[j] \in {"sent", "returned"} /\ ended[j] = "no" => Queued(j) \/ Held(j)
        /\ caller[j] = "panicked" => ~Queued(j) /\ ~Held(j) /\ ended[j] = "no"
        /\ \A w \in Workers : pc[w] = "exited" => cur[w] # j

\* Stats.Active is the number of jobs inside processJob, panics and missing
\* handlers included.
ActiveIsAccounted ==
    sac = Cardinality({w \in Workers : pc[w] \in InJob})

\* When Stop has returned no goroutine of the worker is left, no job is active
\* and no caller can add one.
StoppedIsQuiet ==
    stop = "done" =>
        /\ \A p \in Members : pc[p] = "exited"
        /\ sac = 0
        /\ closed = Channels
        /\ \A w \in Workers : cur[w] = NoJob

\* Once Stop has cancelled every worker no job ends as if nothing had happened:
\* each one still active, and each one taken from the queue after that, goes to
\* its failure handler ("on graceful shutdown", job.go).
NoSuccessAfterCancel ==
    [][\A j \in Jobs :
          stop = "wait" /\ ended'[j] = "succeeded" => ended[j] = "succeeded"]_vars

\* A job that was accepted is processed to its end, unless the shutdown begins.
AcceptedIsProcessed ==
    \A j \in Jobs :
        caller[j] = "sent" ~>
            ended[j] # "no" \/ stop # "no" \/ pc[SignalLoop] = "exited"

\* A call of Enqueue never blocks for ever on a full channel, not even after an
\* interrupt made all workers exit: it returns, or panics when Stop closes it.
EnqueueEnds ==
    \A j \in Jobs : caller[j] = "sending" ~> caller[j] \in {"returned", "panicked"}

\* Stop terminates, with full channels and with jobs active.
StopTerminates == stop # "no" ~> stop = "done"

-------------------------------------------------------------------------------
(* The implementation of JobLifecycle.                                     *)

HeldIn(j, states) == \E w \in Workers : cur[w] = j /\ pc[w] \in states

PhaseOf(j) ==
    IF ended[j] # "no" THEN ended[j]
    ELSE IF HeldIn(j, {"running", "deferred"}) THEN "handling"
    ELSE IF HeldIn(j, {"failing"}) THEN "failing"
    ELSE CASE caller[j] \in {"idle", "sending"} -> "new"
           [] caller[j] = "panicked" -> "rejected"
           [] OTHER -> "waiting"

ServiceState ==
    CASE stop = "no" -> "up" [] stop = "done" -> "down" [] OTHER -> "stopping"

Lifecycle == INSTANCE JobLifecycle WITH
    phase <- [j \in Jobs |-> PhaseOf(j)],
    disturbed <- {cur[w] : w \in {v \in Workers :
                        pc[v] \in {"running", "deferred"} /\ Disturbed(v)}},
    service <- ServiceState

\* The queue, the workers and Stop together keep the promise of JobLifecycle.
ImplementsLifecycle == Lifecycle!Spec
===============================================================================
