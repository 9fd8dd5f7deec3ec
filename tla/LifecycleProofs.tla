---------------------------- MODULE LifecycleProofs ----------------------------
(***************************************************************************)
(* The worker implements JobLifecycle: every step of JobQueue is a step of *)
(* the life of one job or of the service under the mapping Lifecycle, or   *)
(* changes neither.                                                        *)
(***************************************************************************)
EXTENDS JobQueueProofs

Phases == [j \in Jobs |-> PhaseOf(j)]
Busy == {"running", "deferred"}
DisturbedJobs == {cur[w] : w \in {v \in Workers : pc[v] \in Busy /\ Disturbed(v)}}

\* What the mapping needs beside the places of the jobs: the channels are open until Stop is
\* called, and a handler that runs has not ended.
RunInv ==
    /\ stop = "no" => closed = {}
    /\ \A w \in Workers : pc[w] = "running" => result[w] = "none"

LEMMA InitRun == Init => RunInv
BY DEF Init, RunInv, Cancellable, Members

LEMMA NextRun == TypeOK /\ RunInv /\ [Next \/ Terminated]_vars => RunInv'
<1> SUFFICES ASSUME TypeOK, RunInv, AtomicStep  PROVE RunInv'
    BY AtomicSteps
<1> USE DEF TypeOK, RunInv, callerVars, workerVars, stopVars, Cancellable, Members
<1>1. CASE UNCHANGED <<closed, stop, pc, result>>
    BY <1>1
<1>2. ASSUME NEW w \in Workers, Receive(w) \/ ReceiveNil(w) \/ CountDequeued(w) \/ BeginJob(w)
      PROVE  RunInv'
    BY <1>2 DEF Receive, ReceiveNil, CountDequeued, BeginJob
<1>3. ASSUME NEW w \in Workers, Recover(w) \/ EndJob(w) \/ FailureHandlerReturns(w)
      PROVE  RunInv'
    BY <1>3 DEF Recover, RecoverWhen, EndJob, FailureHandlerReturns
<1>4. ASSUME NEW w \in Workers, NEW r \in {"returned", "panicked"}, HandlerEnds(w, r)
      PROVE  RunInv'
    BY <1>4 DEF HandlerEnds
<1>5. ASSUME NEW p \in Cancellable, ContextDone(p)
      PROVE  RunInv'
    BY <1>5 DEF ContextDone
<1>6. CASE Start \/ Interrupt \/ SignalCancelled
    BY <1>6, WorkerAssumption DEF Start, Interrupt, SignalCancelled
<1>7. CASE StopCloseFast \/ StopCloseSlow \/ StopCancelled \/ StopReturns
    BY <1>7 DEF StopCloseFast, StopCloseSlow, StopCancelled, StopReturns
<1> QED
    BY <1>1, <1>2, <1>3, <1>4, <1>5, <1>6, <1>7
       DEF AtomicStep, Enqueue, Send, SendOnClosed, CountEnqueued, Deadline, Cancel, vars

Inv == TypeOK /\ PlacesInv /\ ShutdownInv /\ RunInv

LEMMA InvCorrect == Spec => []Inv
<1>1. Spec => []RunInv
    BY TypeCorrect, InitRun, NextRun, PTL DEF Spec
<1> QED
    BY <1>1, Places, Shutdown, PTL DEF Inv

-------------------------------------------------------------------------------
(* What a step does to the phase of a job.                                 *)

\* The phase depends on how the job ended, on who holds it and on its caller.
LEMMA SamePhase ==
    ASSUME NEW j \in Jobs, ended'[j] = ended[j],
           caller'[j] \in {"idle", "sending"} <=> caller[j] \in {"idle", "sending"},
           caller'[j] = "panicked" <=> caller[j] = "panicked",
           HeldIn(j, Busy)' <=> HeldIn(j, Busy),
           HeldIn(j, {"failing"})' <=> HeldIn(j, {"failing"})
    PROVE  PhaseOf(j)' = PhaseOf(j)
BY DEF PhaseOf, Busy

LEMMA PhasesMove ==
    ASSUME NEW j \in Jobs, NEW to, PhaseOf(j)' = to,
           \A k \in Jobs \ {j} : PhaseOf(k)' = PhaseOf(k)
    PROVE  Phases' = [Phases EXCEPT ![j] = to]
BY DEF Phases

LEMMA PhasesStay ==
    ASSUME \A k \in Jobs : PhaseOf(k)' = PhaseOf(k)
    PROVE  Phases' = Phases
BY DEF Phases

\* Workers that neither take up nor lay down a handling.
LEMMA SameHeld ==
    ASSUME \A w \in Workers :
               /\ pc'[w] \in Busy <=> pc[w] \in Busy
               /\ pc'[w] = "failing" <=> pc[w] = "failing"
               /\ pc[w] \in Busy \cup {"failing"} => cur'[w] = cur[w]
    PROVE  \A j \in Jobs :
               /\ HeldIn(j, Busy)' <=> HeldIn(j, Busy)
               /\ HeldIn(j, {"failing"})' <=> HeldIn(j, {"failing"})
BY DEF HeldIn, Busy

LEMMA SameDisturbed ==
    ASSUME \A w \in Workers :
               /\ pc'[w] \in Busy <=> pc[w] \in Busy
               /\ pc[w] \in Busy => cur'[w] = cur[w] /\ (Disturbed(w)' <=> Disturbed(w))
    PROVE  DisturbedJobs' = DisturbedJobs
BY DEF DisturbedJobs

\* A worker is the only one to hold its job.
LEMMA OneHolder ==
    ASSUME Inv, NEW w \in Workers, pc[w] \notin {"new", "select", "exited"}
    PROVE  \E j \in Jobs : /\ j = cur[w] /\ Accepted(j)
                           /\ ended[j] = "no" <=> pc[w] # "ending"
                           /\ \A v \in Workers : cur[v] = j => v = w
                           /\ \A S : HeldIn(j, S) <=> pc[w] \in S
<1>1. cur[w] \in Jobs /\ cur[w] # NoJob
    BY JobAssumption DEF Inv, TypeOK, PlacesInv, WorkerPlaces
<1>2. /\ Accepted(cur[w])
      /\ ended[cur[w]] = "no" <=> pc[w] # "ending"
      /\ \A v \in Workers : cur[v] = cur[w] => v = w
    BY <1>1 DEF Inv, PlacesInv, WorkerPlaces
<1> QED
    BY <1>1, <1>2 DEF HeldIn

\* A step of one worker that keeps its job.
LEMMA WorkerStep ==
    ASSUME Inv, NEW w \in Workers, pc[w] \notin {"new", "select", "exited"},
           NEW j \in Jobs, j = cur[w], cur' = cur, caller' = caller,
           \A v \in Workers \ {w} : pc'[v] = pc[v],
           \A k \in Jobs \ {j} : ended'[k] = ended[k]
    PROVE  /\ \A k \in Jobs \ {j} : PhaseOf(k)' = PhaseOf(k)
           /\ \A S : HeldIn(j, S)' <=> pc'[w] \in S
<1>1. \A v \in Workers : cur[v] = j => v = w
    BY OneHolder
<1>2. ASSUME NEW k \in Jobs, k # j  PROVE PhaseOf(k)' = PhaseOf(k)
  <2>1. \A v \in Workers : cur[v] = k => v # w
      BY <1>2
  <2>2. HeldIn(k, Busy)' <=> HeldIn(k, Busy)
      BY <2>1 DEF HeldIn, Busy
  <2>3. HeldIn(k, {"failing"})' <=> HeldIn(k, {"failing"})
      BY <2>1 DEF HeldIn
  <2> QED
      BY <1>2, <2>2, <2>3, SamePhase
<1>3. ASSUME NEW S  PROVE (\E v \in Workers : cur'[v] = j /\ pc'[v] \in S) <=> pc'[w] \in S
    BY <1>1
<1> QED
    BY <1>2, <1>3 DEF HeldIn

-------------------------------------------------------------------------------
(* The simulation.                                                         *)

LEMMA Mapping ==
    Lifecycle!vars = <<Phases, DisturbedJobs, ServiceState>>
BY DEF Lifecycle!vars, Phases, DisturbedJobs, Busy

LEMMA InitSimulation == Init => Lifecycle!Init
<1> SUFFICES ASSUME Init  PROVE Lifecycle!Init
    OBVIOUS
<1>1. \A w \in Workers : pc[w] = "new"
    BY DEF Init, Cancellable, Members
<1>2. \A j \in Jobs : PhaseOf(j) = "new"
    BY <1>1 DEF Init, PhaseOf, HeldIn
<1>3. DisturbedJobs = {}
    BY <1>1 DEF DisturbedJobs, Busy
<1>4. ServiceState = "up"
    BY DEF Init, ServiceState
<1> QED
    BY <1>2, <1>3, <1>4 DEF Lifecycle!Init, DisturbedJobs, Busy

\* The steps of the abstract specification in the words of the mapping.
Moved(j, from, to) == PhaseOf(j) = from /\ Phases' = [Phases EXCEPT ![j] = to]
SameService == ServiceState' = ServiceState

LEMMA AbstractMove ==
    ASSUME NEW j \in Jobs, NEW from, NEW to, Moved(j, from, to)
    PROVE  Lifecycle!Move(j, from, to)
BY DEF Moved, Lifecycle!Move, Phases

LEMMA Stutter ==
    ASSUME Phases' = Phases, DisturbedJobs' = DisturbedJobs, SameService
    PROVE  UNCHANGED Lifecycle!vars
BY Mapping DEF Lifecycle!vars, Phases, DisturbedJobs, Busy, SameService

\* Steps of callers.  A job that is not accepted is held by nobody.
LEMMA CallerSimulation ==
    ASSUME Inv, NEW j \in Jobs,
           Enqueue(j) \/ Send(j) \/ SendOnClosed(j) \/ CountEnqueued(j)
    PROVE  Lifecycle!Next \/ UNCHANGED Lifecycle!vars
<1>1. UNCHANGED <<pc, cur, result, expired, cancelled, ended, stop>>
    BY DEF Enqueue, Send, SendOnClosed, CountEnqueued, workerVars, stopVars
<1>2. DisturbedJobs' = DisturbedJobs /\ SameService
    BY <1>1 DEF DisturbedJobs, Disturbed, SameService, ServiceState
<1>3. \A k \in Jobs \ {j} : caller'[k] = caller[k]
    BY DEF Enqueue, Send, SendOnClosed, CountEnqueued, Inv, TypeOK
<1>4. \A k \in Jobs : /\ HeldIn(k, Busy)' <=> HeldIn(k, Busy)
                      /\ HeldIn(k, {"failing"})' <=> HeldIn(k, {"failing"})
    BY <1>1 DEF HeldIn
<1>5. \A k \in Jobs \ {j} : PhaseOf(k)' = PhaseOf(k)
    BY <1>1, <1>3, <1>4, SamePhase
<1>6. CASE Enqueue(j) \/ CountEnqueued(j)
  <2>1. /\ caller'[j] \in {"idle", "sending"} <=> caller[j] \in {"idle", "sending"}
        /\ caller'[j] = "panicked" <=> caller[j] = "panicked"
      BY <1>6 DEF Enqueue, CountEnqueued, Inv, TypeOK
  <2>2. PhaseOf(j)' = PhaseOf(j)
      BY <1>1, <1>4, <2>1, SamePhase
  <2> QED
      BY <1>2, <1>5, <2>2, PhasesStay, Stutter
<1>7. CASE Send(j) \/ SendOnClosed(j)
  <2>1. caller[j] = "sending" /\ ~ Accepted(j)
      BY <1>7 DEF Send, SendOnClosed, Accepted
  <2>2. ended[j] = "no" /\ \A w \in Workers : cur[w] # j
      BY <2>1, JobAssumption DEF Inv, PlacesInv, JobPlaces, WorkerPlaces
  <2>3. PhaseOf(j) = "new"
      BY <2>1, <2>2 DEF PhaseOf, HeldIn
  <2>4. CASE Send(j)
    <3>1. PhaseOf(j)' = "waiting"
        BY <1>1, <2>2, <2>4 DEF Send, PhaseOf, HeldIn, Inv, TypeOK
    <3>2. Moved(j, "new", "waiting")
        BY <1>5, <2>3, <3>1, PhasesMove DEF Moved
    <3>3. stop # "done"
        BY <2>4, ChannelsOfJobsAndWorkers DEF Send, Inv, ShutdownInv
    <3>4. Lifecycle!Submit(j)
        BY <1>2, <3>2, <3>3, AbstractMove
           DEF Lifecycle!Submit, ServiceState, SameService, DisturbedJobs, Busy
    <3> QED
        BY <3>4 DEF Lifecycle!Next
  <2>5. CASE SendOnClosed(j)
    <3>1. PhaseOf(j)' = "rejected"
        BY <1>1, <2>2, <2>5 DEF SendOnClosed, PhaseOf, HeldIn, Inv, TypeOK
    <3>2. Moved(j, "new", "rejected")
        BY <1>5, <2>3, <3>1, PhasesMove DEF Moved
    <3>3. stop # "no"
        BY <2>5 DEF SendOnClosed, Inv, RunInv
    <3>4. Lifecycle!Reject(j)
        BY <1>2, <3>2, <3>3, AbstractMove
           DEF Lifecycle!Reject, ServiceState, SameService, DisturbedJobs, Busy
    <3> QED
        BY <3>4 DEF Lifecycle!Next
  <2> QED
      BY <1>7, <2>4, <2>5
<1> QED
    BY <1>6, <1>7

\* Steps that neither begin nor end nor disturb a handling.
LEMMA IdleSimulation ==
    ASSUME Inv, UNCHANGED <<caller, ended, stop>>,
           \A w \in Workers :
               /\ pc'[w] \in Busy <=> pc[w] \in Busy
               /\ pc'[w] = "failing" <=> pc[w] = "failing"
               /\ pc[w] \in Busy \cup {"failing"} => cur'[w] = cur[w]
               /\ pc[w] \in Busy => (Disturbed(w)' <=> Disturbed(w))
    PROVE  UNCHANGED Lifecycle!vars
<1>1. DisturbedJobs' = DisturbedJobs
    BY SameDisturbed
<1>2. \A j \in Jobs : PhaseOf(j)' = PhaseOf(j)
    BY SameHeld, SamePhase
<1>3. SameService
    BY DEF SameService, ServiceState
<1> QED
    BY <1>1, <1>2, <1>3, PhasesStay, Stutter

\* A handling is disturbed by its deadline, a cancellation or a panic: the set of disturbed
\* workers grows by one that is busy, or not at all.
LEMMA DisturbSimulation ==
    ASSUME Inv, UNCHANGED <<caller, ended, stop, cur>>, NEW w \in Workers, pc[w] \in Busy,
           \A v \in Workers : /\ pc'[v] \in Busy <=> pc[v] \in Busy
                              /\ pc'[v] = "failing" <=> pc[v] = "failing"
                              /\ v # w => (Disturbed(v)' <=> Disturbed(v)),
           Disturbed(w)'
    PROVE  Lifecycle!Next
<1>1. PICK j \in Jobs : j = cur[w] /\ HeldIn(j, Busy) /\ ended[j] = "no"
    BY OneHolder DEF Busy
<1>2. PhaseOf(j) = "handling"
    BY <1>1 DEF PhaseOf, Busy
<1>3. \A k \in Jobs : PhaseOf(k)' = PhaseOf(k)
    BY SameHeld, SamePhase
<1>4. DisturbedJobs' = DisturbedJobs \cup {j}
  <2>1. DisturbedJobs' = {cur[v] : v \in {u \in Workers : pc[u] \in Busy /\ Disturbed(u)'}}
      BY DEF DisturbedJobs
  <2> QED
      BY <1>1, <2>1 DEF DisturbedJobs
<1>5. SameService
    BY DEF SameService, ServiceState
<1>6. Lifecycle!Disturb(j)
    BY <1>1, <1>2, <1>3, <1>4, <1>5, PhasesStay
       DEF Lifecycle!Disturb, Phases, DisturbedJobs, Busy, SameService
<1> QED
    BY <1>1, <1>6 DEF Lifecycle!Next

LEMMA LoopSimulation ==
    ASSUME Inv, NEW w \in Workers, Receive(w) \/ ReceiveNil(w) \/ CountDequeued(w)
    PROVE  UNCHANGED Lifecycle!vars
<1>1. pc[w] \in {"select", "received"} /\ pc'[w] \in {"received", "exited", "counted"}
    BY DEF Receive, ReceiveNil, CountDequeued, Inv, TypeOK, Cancellable, Members
<1>2. \A v \in Workers \ {w} : pc'[v] = pc[v] /\ cur'[v] = cur[v]
    BY DEF Receive, ReceiveNil, CountDequeued, Inv, TypeOK, Cancellable, Members
<1>3. UNCHANGED <<caller, ended, stop, result, expired, cancelled>>
    BY DEF Receive, ReceiveNil, CountDequeued, callerVars, stopVars
<1> QED
    BY <1>1, <1>2, <1>3, IdleSimulation DEF Busy, Disturbed

\* Begin, or Ignore when no handler is registered.
LEMMA BeginSimulation ==
    ASSUME Inv, NEW w \in Workers, BeginJob(w)
    PROVE  Lifecycle!Next
<1>1. pc[w] = "counted" /\ UNCHANGED <<caller, cur, stop, cancelled>>
    BY DEF BeginJob, callerVars, stopVars
<1>2. PICK j \in Jobs :
          /\ j = cur[w] /\ \A v \in Workers : cur[v] = j => v = w
          /\ Accepted(j) /\ ended[j] = "no" /\ ~ HeldIn(j, Busy) /\ ~ HeldIn(j, {"failing"})
    BY <1>1, OneHolder DEF Busy
<1>3. PhaseOf(j) = "waiting"
    BY <1>2 DEF PhaseOf, Busy, Accepted
<1>4. /\ \A v \in Workers \ {w} : pc'[v] = pc[v] /\ (Disturbed(v)' <=> Disturbed(v))
      /\ \A k \in Jobs \ {j} : ended'[k] = ended[k]
    BY <1>2 DEF BeginJob, Disturbed, stopVars, Inv, TypeOK, Cancellable, Members
<1>5. /\ \A k \in Jobs \ {j} : PhaseOf(k)' = PhaseOf(k)
      /\ \A S : HeldIn(j, S)' <=> pc'[w] \in S
    BY <1>1, <1>2, <1>4, WorkerStep
<1>6. stop # "done" /\ SameService
  <2>1. w \in Members
      BY DEF Members
  <2> QED
      BY <1>1, <2>1 DEF Inv, ShutdownInv, SameService, ServiceState
<1>7. j \notin DisturbedJobs
    BY <1>1, <1>2 DEF DisturbedJobs, Busy
<1>8. CASE pc' = [pc EXCEPT ![w] = "running"] /\ UNCHANGED ended
  <2>1. pc'[w] = "running"
      BY <1>8 DEF Inv, TypeOK, Cancellable, Members
  <2>2. HeldIn(j, Busy)'
      BY <1>5, <2>1 DEF Busy
  <2>3. PhaseOf(j)' = "handling"
    <3>1. HeldIn(j, {"running", "deferred"})' /\ ended'[j] = "no"
        BY <1>2, <1>8, <2>2 DEF Busy
    <3> QED
        BY <1>1, <3>1 DEF PhaseOf
  <2>4. Moved(j, "waiting", "handling")
      BY <1>2, <1>3, <1>5, <2>3, PhasesMove DEF Moved
  <2>5. DisturbedJobs' \in {DisturbedJobs, DisturbedJobs \cup {j}}
    <3>1. DisturbedJobs' = {cur[v] : v \in {u \in Workers : pc'[u] \in Busy /\ Disturbed(u)'}}
        BY <1>1 DEF DisturbedJobs
    <3>2. CASE Disturbed(w)'
      <4>1. {u \in Workers : pc'[u] \in Busy /\ Disturbed(u)'}
                = {u \in Workers : pc[u] \in Busy /\ Disturbed(u)} \cup {w}
          BY <1>1, <1>4, <2>1, <3>2 DEF Busy
      <4> QED
          BY <1>2, <3>1, <4>1 DEF DisturbedJobs
    <3>3. CASE ~ Disturbed(w)'
      <4>1. {u \in Workers : pc'[u] \in Busy /\ Disturbed(u)'}
                = {u \in Workers : pc[u] \in Busy /\ Disturbed(u)}
          BY <1>1, <1>4, <3>3 DEF Busy
      <4> QED
          BY <1>2, <3>1, <4>1 DEF DisturbedJobs
    <3> QED
        BY <3>2, <3>3
  <2>6. Lifecycle!Begin(j)
      BY <1>2, <1>6, <2>4, <2>5, AbstractMove
         DEF Lifecycle!Begin, ServiceState, SameService, DisturbedJobs, Busy
  <2> QED
      BY <1>2, <2>6 DEF Lifecycle!Next
<1>9. CASE pc' = [pc EXCEPT ![w] = "ending"] /\ ended' = [ended EXCEPT ![cur[w]] = "unhandled"]
  <2>1. pc'[w] = "ending" /\ ended'[j] = "unhandled"
      BY <1>2, <1>9 DEF Inv, TypeOK, Cancellable, Members
  <2>2. PhaseOf(j)' = "unhandled"
      BY <1>1, <2>1 DEF PhaseOf
  <2>3. Moved(j, "waiting", "unhandled")
      BY <1>2, <1>3, <1>5, <2>2, PhasesMove DEF Moved
  <2>4. DisturbedJobs' = DisturbedJobs
    <3>1. \A v \in Workers : /\ pc'[v] \in Busy <=> pc[v] \in Busy
                             /\ pc[v] \in Busy => cur'[v] = cur[v] /\ (Disturbed(v)' <=> Disturbed(v))
        BY <1>1, <1>4, <2>1 DEF Busy
    <3> QED
        BY <3>1, SameDisturbed
  <2>5. Lifecycle!Ignore(j)
      BY <1>2, <1>6, <2>3, <2>4, AbstractMove
         DEF Lifecycle!Ignore, ServiceState, SameService, DisturbedJobs, Busy
  <2> QED
      BY <1>2, <2>5 DEF Lifecycle!Next
<1> QED
    BY <1>8, <1>9 DEF BeginJob

\* Succeed or Fail.
LEMMA RecoverSimulation ==
    ASSUME Inv, NEW w \in Workers, Recover(w)
    PROVE  Lifecycle!Next
<1>1. pc[w] = "deferred" /\ UNCHANGED <<caller, cur, stop, cancelled, result, expired>>
    BY DEF Recover, RecoverWhen, callerVars, stopVars
<1>2. PICK j \in Jobs : /\ j = cur[w] /\ \A v \in Workers : cur[v] = j => v = w
                       /\ ended[j] = "no" /\ HeldIn(j, Busy)
    BY <1>1, OneHolder DEF Busy
<1>3. PhaseOf(j) = "handling"
    BY <1>2 DEF PhaseOf, Busy
<1>4. /\ \A v \in Workers \ {w} : pc'[v] = pc[v]
      /\ \A v \in Workers : Disturbed(v)' <=> Disturbed(v)
      /\ \A k \in Jobs \ {j} : ended'[k] = ended[k]
    BY <1>1, <1>2 DEF Recover, RecoverWhen, Disturbed, Inv, TypeOK, Cancellable, Members
<1>5. /\ \A k \in Jobs \ {j} : PhaseOf(k)' = PhaseOf(k)
      /\ \A S : HeldIn(j, S)' <=> pc'[w] \in S
    BY <1>1, <1>2, <1>4, WorkerStep
<1>6. SameService
    BY <1>1 DEF SameService, ServiceState
<1>7. j \in DisturbedJobs <=> Disturbed(w)
    BY <1>1, <1>2 DEF DisturbedJobs, Busy
<1>8. pc'[w] \notin Busy => DisturbedJobs' = DisturbedJobs \ {j}
  <2> SUFFICES ASSUME pc'[w] \notin Busy  PROVE DisturbedJobs' = DisturbedJobs \ {j}
      OBVIOUS
  <2>1. DisturbedJobs' = {cur[v] : v \in {u \in Workers : pc'[u] \in Busy /\ Disturbed(u)}}
      BY <1>1, <1>4 DEF DisturbedJobs
  <2>2. {u \in Workers : pc'[u] \in Busy /\ Disturbed(u)}
            = {u \in Workers : pc[u] \in Busy /\ Disturbed(u)} \ {w}
      BY <1>4
  <2> QED
      BY <1>2, <2>1, <2>2 DEF DisturbedJobs
<1>9. CASE Disturbed(w) /\ pc' = [pc EXCEPT ![w] = "failing"] /\ UNCHANGED ended
  <2>1. pc'[w] = "failing"
      BY <1>9 DEF Inv, TypeOK, Cancellable, Members
  <2>2. HeldIn(j, {"failing"})' /\ ~ HeldIn(j, {"running", "deferred"})' /\ ended'[j] = "no"
      BY <1>2, <1>5, <1>9, <2>1
  <2>3. PhaseOf(j)' = "failing"
      BY <1>1, <2>2 DEF PhaseOf
  <2>4. Moved(j, "handling", "failing")
      BY <1>2, <1>3, <1>5, <2>3, PhasesMove DEF Moved
  <2>5. Lifecycle!Fail(j)
      BY <1>2, <1>6, <1>7, <1>8, <1>9, <2>1, <2>4, AbstractMove
         DEF Lifecycle!Fail, SameService, DisturbedJobs, Busy
  <2> QED
      BY <1>2, <2>5 DEF Lifecycle!Next
<1>10. CASE ~ Disturbed(w) /\ pc' = [pc EXCEPT ![w] = "ending"]
            /\ ended' = [ended EXCEPT ![cur[w]] = "succeeded"]
  <2>1. pc'[w] = "ending" /\ ended'[j] = "succeeded"
      BY <1>2, <1>10 DEF Inv, TypeOK, Cancellable, Members
  <2>2. PhaseOf(j)' = "succeeded"
      BY <1>1, <2>1 DEF PhaseOf
  <2>3. Moved(j, "handling", "succeeded")
      BY <1>2, <1>3, <1>5, <2>2, PhasesMove DEF Moved
  <2>4. DisturbedJobs' = DisturbedJobs /\ j \notin DisturbedJobs
      BY <1>7, <1>8, <1>10, <2>1 DEF Busy
  <2>5. Lifecycle!Succeed(j)
      BY <1>2, <1>6, <2>3, <2>4, AbstractMove
         DEF Lifecycle!Succeed, SameService, DisturbedJobs, Busy
  <2> QED
      BY <1>2, <2>5 DEF Lifecycle!Next
<1> QED
    BY <1>9, <1>10 DEF Recover, RecoverWhen

LEMMA FailureSimulation ==
    ASSUME Inv, NEW w \in Workers, FailureHandlerReturns(w)
    PROVE  Lifecycle!Next
<1>1. pc[w] = "failing" /\ UNCHANGED <<caller, cur, stop, cancelled, result, expired>>
    BY DEF FailureHandlerReturns, callerVars, stopVars
<1>2. PICK j \in Jobs : /\ j = cur[w] /\ ended[j] = "no"
                       /\ HeldIn(j, {"failing"}) /\ ~ HeldIn(j, {"running", "deferred"})
    BY <1>1, OneHolder
<1>3. PhaseOf(j) = "failing"
    BY <1>2 DEF PhaseOf
<1>4. /\ \A v \in Workers \ {w} : pc'[v] = pc[v]
      /\ \A k \in Jobs \ {j} : ended'[k] = ended[k]
      /\ pc'[w] = "ending" /\ ended'[j] = "failed"
    BY <1>2 DEF FailureHandlerReturns, Inv, TypeOK, Cancellable, Members
<1>5. \A k \in Jobs \ {j} : PhaseOf(k)' = PhaseOf(k)
    BY <1>1, <1>2, <1>4, WorkerStep
<1>6. SameService
    BY <1>1 DEF SameService, ServiceState
<1>7. DisturbedJobs' = DisturbedJobs
  <2>1. \A v \in Workers : /\ pc'[v] \in Busy <=> pc[v] \in Busy
                           /\ pc[v] \in Busy => cur'[v] = cur[v] /\ (Disturbed(v)' <=> Disturbed(v))
      BY <1>1, <1>4 DEF Busy, Disturbed
  <2> QED
      BY <2>1, SameDisturbed
<1>8. PhaseOf(j)' = "failed"
    BY <1>1, <1>4 DEF PhaseOf
<1>9. Moved(j, "failing", "failed")
    BY <1>2, <1>3, <1>5, <1>8, PhasesMove DEF Moved
<1>10. Lifecycle!FailureHandled(j)
    BY <1>2, <1>6, <1>7, <1>9, AbstractMove
       DEF Lifecycle!FailureHandled, SameService, DisturbedJobs, Busy
<1> QED
    BY <1>2, <1>10 DEF Lifecycle!Next

\* A job that has ended is laid down.
LEMMA EndSimulation ==
    ASSUME Inv, NEW w \in Workers, EndJob(w)
    PROVE  UNCHANGED Lifecycle!vars
<1>1. pc[w] = "ending" /\ pc'[w] = "select"
    BY DEF EndJob, Inv, TypeOK, Cancellable, Members
<1>2. \A v \in Workers \ {w} : pc'[v] = pc[v] /\ cur'[v] = cur[v]
    BY DEF EndJob, Inv, TypeOK, Cancellable, Members
<1>3. UNCHANGED <<caller, ended, stop, result, expired, cancelled>>
    BY DEF EndJob, callerVars, stopVars
<1> QED
    BY <1>1, <1>2, <1>3, IdleSimulation DEF Busy, Disturbed

\* A handler that returns or panics, and one that runs past its deadline.
LEMMA HandlerSimulation ==
    ASSUME Inv, NEW w \in Workers,
           (\E r \in {"returned", "panicked"} : HandlerEnds(w, r)) \/ Deadline(w)
    PROVE  Lifecycle!Next \/ UNCHANGED Lifecycle!vars
<1>1. /\ pc[w] \in Busy /\ pc'[w] \in Busy /\ \A v \in Workers \ {w} : pc'[v] = pc[v]
      /\ UNCHANGED <<caller, ended, stop, cur, cancelled>>
    BY DEF HandlerEnds, Deadline, callerVars, stopVars, Busy, Inv, TypeOK, Cancellable, Members
<1>2. \A v \in Workers \ {w} : Disturbed(v)' <=> Disturbed(v)
    BY DEF HandlerEnds, Deadline, stopVars, Disturbed, Inv, TypeOK
<1>3. Disturbed(w) => Disturbed(w)'
    BY DEF HandlerEnds, Deadline, stopVars, Disturbed, Inv, TypeOK, RunInv
<1>4. \A v \in Workers : /\ pc'[v] \in Busy <=> pc[v] \in Busy
                         /\ pc'[v] = "failing" <=> pc[v] = "failing"
    BY <1>1 DEF Busy
<1>5. CASE Disturbed(w)'
    BY <1>1, <1>2, <1>4, <1>5, DisturbSimulation
<1>6. CASE ~ Disturbed(w)'
    BY <1>1, <1>2, <1>3, <1>4, <1>6, IdleSimulation
<1> QED
    BY <1>5, <1>6

\* A cancellation disturbs a handling of that worker.
LEMMA CancelSimulation ==
    ASSUME Inv, NEW c \in {"stop", "signal"}, NEW w \in Workers, Cancel(c, w)
    PROVE  Lifecycle!Next \/ UNCHANGED Lifecycle!vars
<1>1. UNCHANGED <<caller, ended, stop, cur, pc, result, expired>> /\ cancelled' = cancelled \cup {w}
    BY DEF Cancel, callerVars, workerVars
<1>2. Disturbed(w)' /\ \A v \in Workers \ {w} : Disturbed(v)' <=> Disturbed(v)
    BY <1>1 DEF Disturbed
<1>3. CASE pc[w] \in Busy
    BY <1>1, <1>2, <1>3, DisturbSimulation
<1>4. CASE pc[w] \notin Busy
    BY <1>1, <1>2, <1>4, IdleSimulation
<1> QED
    BY <1>3, <1>4

LEMMA OtherSimulation ==
    ASSUME Inv, Start \/ Interrupt \/ SignalCancelled \/ \E p \in Cancellable : ContextDone(p)
    PROVE  UNCHANGED Lifecycle!vars
<1>1. UNCHANGED <<caller, ended, stop, cur, result, expired>>
    BY DEF Start, Interrupt, SignalCancelled, ContextDone, callerVars, stopVars
<1>2. \A w \in Workers : w \in cancelled' <=> w \in cancelled
    BY WorkerAssumption DEF Start, Interrupt, SignalCancelled, ContextDone, stopVars, Members
<1>3. \A w \in Workers : pc'[w] = pc[w] \/ {pc[w], pc'[w]} \cap (Busy \cup {"failing"}) = {}
    BY WorkerAssumption DEF Start, Interrupt, SignalCancelled, ContextDone, Busy,
                            Inv, TypeOK, Cancellable, Members
<1>4. \A w \in Workers : /\ pc'[w] \in Busy <=> pc[w] \in Busy
                         /\ pc'[w] = "failing" <=> pc[w] = "failing"
    BY <1>3 DEF Busy
<1> QED
    BY <1>1, <1>2, <1>4, IdleSimulation DEF Disturbed

\* Stop, Down, and the steps of Stop between them.
LEMMA StopSimulation ==
    ASSUME Inv, StopStep
    PROVE  Lifecycle!Next \/ UNCHANGED Lifecycle!vars
<1>1. UNCHANGED <<caller, ended, cur, pc, result, expired>>
    BY DEF StopStep, StopCloseFast, StopCloseSlow, StopCancelled, StopReturns, callerVars, workerVars
<1>2. \A w \in Workers : w \in cancelled' <=> w \in cancelled
    BY WorkerAssumption
       DEF StopStep, StopCloseFast, StopCloseSlow, StopCancelled, StopReturns, Members
<1>3. DisturbedJobs' = DisturbedJobs
    BY <1>1, <1>2, SameDisturbed DEF Disturbed
<1>4. Phases' = Phases
    BY <1>1, SameHeld, SamePhase, PhasesStay
<1>5. CASE StopCloseFast
  <2>1. ServiceState = "up" /\ ServiceState' = "stopping"
      BY <1>5 DEF StopCloseFast, ServiceState
  <2>2. Lifecycle!Stop
      BY <1>3, <1>4, <2>1 DEF Lifecycle!Stop, Phases, DisturbedJobs, Busy
  <2> QED
      BY <2>2 DEF Lifecycle!Next
<1>6. CASE StopCloseSlow \/ StopCancelled
    BY <1>3, <1>4, <1>6, Stutter DEF StopCloseSlow, StopCancelled, SameService, ServiceState
<1>7. CASE StopReturns
  <2>1. ServiceState = "stopping" /\ ServiceState' = "down"
      BY <1>7 DEF StopReturns, ServiceState
  <2>2. \A w \in Workers : pc[w] = "exited"
      BY <1>7 DEF StopReturns, Members
  <2>3. \A j \in Jobs : PhaseOf(j) \notin {"handling", "failing"}
      BY <2>2 DEF PhaseOf, HeldIn, Inv, TypeOK, EndStates
  <2>4. Lifecycle!Down
      BY <1>3, <1>4, <2>1, <2>3 DEF Lifecycle!Down, Phases, DisturbedJobs, Busy
  <2> QED
      BY <2>4 DEF Lifecycle!Next
<1> QED
    BY <1>5, <1>6, <1>7 DEF StopStep

LEMMA StepSimulation ==
    Inv /\ [Next \/ Terminated]_vars => Lifecycle!Next \/ UNCHANGED Lifecycle!vars
<1> SUFFICES ASSUME Inv, AtomicStep
             PROVE  Lifecycle!Next \/ UNCHANGED Lifecycle!vars
    BY AtomicSteps
<1>1. CASE UNCHANGED vars
    BY <1>1, IdleSimulation DEF vars, Disturbed
<1> QED
    BY <1>1, CallerSimulation, LoopSimulation, BeginSimulation, RecoverSimulation, EndSimulation,
       HandlerSimulation, FailureSimulation, CancelSimulation, OtherSimulation, StopSimulation
       DEF AtomicStep, StopStep

\* The worker, its channels, its counters, the interrupt and Stop together keep the promise
\* of JobLifecycle, for any number of jobs and workers and any capacity.
THEOREM ImplementsLifecycleCorrect == Spec => ImplementsLifecycle
<1>1. Inv /\ [Next \/ Terminated]_vars => [Lifecycle!Next]_(Lifecycle!vars)
    BY StepSimulation
<1> QED
    BY <1>1, InvCorrect, InitSimulation, PTL DEF Spec, ImplementsLifecycle, Lifecycle!Spec
===============================================================================
