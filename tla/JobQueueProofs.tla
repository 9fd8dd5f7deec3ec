---------------------------- MODULE JobQueueProofs ----------------------------
(***************************************************************************)
(* Theorems of JobQueue for every set of jobs, every pool of workers and   *)
(* every capacity of the channels.                                         *)
(***************************************************************************)
EXTENDS JobQueue, FiniteSetTheorems, TLAPS

\* The names of the goroutines and of the channels are told apart everywhere.
USE DEF Workers, Members, Cancellable, Channels

LEMMA ChannelsOfJobsAndWorkers ==
    /\ \A j \in Jobs : ChannelOfJob(j) \in Channels
    /\ \A w \in Workers : ChannelOfWorker(w) \in Channels
    /\ Capacity \in [Channels -> Nat \ {0}]
BY SizeAssumption DEF ChannelOfJob, ChannelOfWorker, Capacity

-------------------------------------------------------------------------------
(* Type correctness.                                                       *)

LEMMA InitTypeOK == Init => TypeOK
BY ChannelsOfJobsAndWorkers, SizeAssumption
   DEF Init, TypeOK, CallerStates, WorkerStates, StopStates, EndStates

LEMMA NextTypeOK == TypeOK /\ [Next \/ Terminated]_vars => TypeOK'
<1> SUFFICES ASSUME TypeOK, [Next \/ Terminated]_vars
             PROVE  TypeOK'
    OBVIOUS
<1> USE ChannelsOfJobsAndWorkers
    DEF TypeOK, callerVars, workerVars, stopVars,
        CallerStates, WorkerStates, StopStates, EndStates
<1>1. ASSUME NEW j \in Jobs, CallerStep(j)
      PROVE  TypeOK'
    <2>1. CASE Enqueue(j)
        BY <2>1 DEF Enqueue
    <2>2. CASE Send(j)
        BY <2>2 DEF Send
    <2>3. CASE SendOnClosed(j)
        BY <2>3 DEF SendOnClosed
    <2>4. CASE CountEnqueued(j)
        BY <2>4 DEF CountEnqueued
    <2>5. QED
        BY <1>1, <2>1, <2>2, <2>3, <2>4 DEF CallerStep
<1>2. CASE Start
    BY <1>2 DEF Start
<1>3. ASSUME NEW w \in Workers, LoopStep(w)
      PROVE  TypeOK'
    <2>1. CASE Receive(w)
        BY <2>1 DEF Receive
    <2>2. CASE ReceiveNil(w)
        BY <2>2 DEF ReceiveNil
    <2>3. CASE CountDequeued(w)
        BY <2>3 DEF CountDequeued
    <2>4. QED
        BY <1>3, <2>1, <2>2, <2>3 DEF LoopStep
<1>4. ASSUME NEW w \in Workers, JobStep(w)
      PROVE  TypeOK'
    <2>1. CASE BeginJob(w)
        BY <2>1, SMTT(20) DEF BeginJob
    <2>2. CASE Recover(w)
        BY <2>2 DEF Recover, RecoverWhen
    <2>3. CASE EndJob(w)
        BY <2>3 DEF EndJob
    <2>4. QED
        BY <1>4, <2>1, <2>2, <2>3 DEF JobStep
<1>5. ASSUME NEW w \in Workers, HandlerStep(w)
      PROVE  TypeOK'
    <2>1. ASSUME NEW r \in {"returned", "panicked"}, HandlerEnds(w, r)
          PROVE  TypeOK'
        BY <2>1 DEF HandlerEnds
    <2>2. CASE FailureHandlerReturns(w)
        BY <2>2 DEF FailureHandlerReturns
    <2>3. QED
        BY <1>5, <2>1, <2>2 DEF HandlerStep
<1>6. ASSUME NEW w \in Workers, Deadline(w)
      PROVE  TypeOK'
    BY <1>6 DEF Deadline
<1>7. ASSUME NEW p \in Cancellable, ContextDone(p)
      PROVE  TypeOK'
    BY <1>7 DEF ContextDone
<1>8. CASE Interrupt
    BY <1>8 DEF Interrupt
<1>9. CASE CancelStep
    <2>1. ASSUME NEW c \in {"stop", "signal"}, NEW w \in Workers, Cancel(c, w)
          PROVE  TypeOK'
        BY <2>1 DEF Cancel
    <2>2. CASE SignalCancelled
        BY <2>2 DEF SignalCancelled
    <2>3. QED
        BY <1>9, <2>1, <2>2 DEF CancelStep
<1>10. CASE StopStep
    <2>1. CASE StopCloseFast
        BY <2>1 DEF StopCloseFast
    <2>2. CASE StopCloseSlow
        BY <2>2 DEF StopCloseSlow
    <2>3. CASE StopCancelled
        BY <2>3 DEF StopCancelled
    <2>4. CASE StopReturns
        BY <2>4 DEF StopReturns
    <2>5. QED
        BY <1>10, <2>1, <2>2, <2>3, <2>4 DEF StopStep
<1>11. CASE Terminated \/ UNCHANGED vars
    BY <1>11 DEF Terminated, vars
<1>12. QED
    BY <1>1, <1>2, <1>3, <1>4, <1>5, <1>6, <1>7, <1>8, <1>9, <1>10, <1>11 DEF Next

\* The variables keep their types, and no channel of the worker ever holds more
\* jobs than its capacity.
THEOREM TypeCorrect == Spec => []TypeOK
BY InitTypeOK, NextTypeOK, PTL DEF Spec

-------------------------------------------------------------------------------
(* The steps of Next, one by one.  A proof that a formula is preserved has a *)
(* step for each.                                                            *)

AtomicStep ==
    \/ \E j \in Jobs : Enqueue(j)
    \/ \E j \in Jobs : Send(j)
    \/ \E j \in Jobs : SendOnClosed(j)
    \/ \E j \in Jobs : CountEnqueued(j)
    \/ Start
    \/ \E w \in Workers : Receive(w)
    \/ \E w \in Workers : ReceiveNil(w)
    \/ \E w \in Workers : CountDequeued(w)
    \/ \E w \in Workers : BeginJob(w)
    \/ \E w \in Workers : Recover(w)
    \/ \E w \in Workers : EndJob(w)
    \/ \E w \in Workers, r \in {"returned", "panicked"} : HandlerEnds(w, r)
    \/ \E w \in Workers : FailureHandlerReturns(w)
    \/ \E w \in Workers : Deadline(w)
    \/ \E p \in Cancellable : ContextDone(p)
    \/ Interrupt
    \/ \E c \in {"stop", "signal"}, w \in Workers : Cancel(c, w)
    \/ SignalCancelled
    \/ StopCloseFast
    \/ StopCloseSlow
    \/ StopCancelled
    \/ StopReturns
    \/ UNCHANGED vars

LEMMA AtomicSteps == [Next \/ Terminated]_vars => AtomicStep
BY Zenon DEF Next, Terminated, CallerStep, LoopStep, JobStep, HandlerStep, StopStep,
             CancelStep, AtomicStep

-------------------------------------------------------------------------------
(* The shutdown.  Stop closes both channels and then cancels every worker  *)
(* before it waits; a worker that is not processing a job holds none.      *)

ShutdownInv ==
    /\ stop = "closeSlow" => "fast" \in closed
    /\ stop \in {"cancel", "wait", "done"} => closed = Channels
    /\ stop = "cancel" => Workers \subseteq cancelled \cup toCancel["stop"]
    /\ stop \in {"wait", "done"} => Workers \subseteq cancelled
    /\ stop = "done" => \A p \in Members : pc[p] = "exited"
    /\ \A w \in Workers : pc[w] \in {"new", "select", "exited"} => cur[w] = NoJob

LEMMA InitShutdown == Init => ShutdownInv
BY DEF Init, ShutdownInv

LEMMA BothClosed ==
    ASSUME NEW C, C \subseteq Channels, "fast" \in C
    PROVE  C \cup {"slow"} = Channels
OBVIOUS

LEMMA NextShutdown ==
    TypeOK /\ ShutdownInv /\ [Next \/ Terminated]_vars => ShutdownInv'
<1> SUFFICES ASSUME TypeOK, ShutdownInv, AtomicStep
             PROVE  ShutdownInv'
    BY AtomicSteps
<1> USE WorkerAssumption DEF TypeOK, ShutdownInv, callerVars, workerVars, stopVars
<1>1. ASSUME NEW j \in Jobs, Enqueue(j) \/ Send(j) \/ SendOnClosed(j) \/ CountEnqueued(j)
      PROVE  ShutdownInv'
    BY <1>1 DEF Enqueue, Send, SendOnClosed, CountEnqueued
<1>2. CASE Start
    BY <1>2 DEF Start
<1>3. ASSUME NEW w \in Workers, Receive(w)
      PROVE  ShutdownInv'
    BY <1>3 DEF Receive
<1>4. ASSUME NEW w \in Workers, ReceiveNil(w) \/ CountDequeued(w)
      PROVE  ShutdownInv'
    BY <1>4 DEF ReceiveNil, CountDequeued
<1>5. ASSUME NEW w \in Workers, BeginJob(w) \/ Recover(w)
      PROVE  ShutdownInv'
    BY <1>5 DEF BeginJob, Recover, RecoverWhen
<1>6. ASSUME NEW w \in Workers, EndJob(w)
      PROVE  ShutdownInv'
    BY <1>6 DEF EndJob
<1>7. ASSUME NEW w \in Workers, NEW r \in {"returned", "panicked"}, HandlerEnds(w, r)
      PROVE  ShutdownInv'
    BY <1>7 DEF HandlerEnds
<1>8. ASSUME NEW w \in Workers, FailureHandlerReturns(w) \/ Deadline(w)
      PROVE  ShutdownInv'
    BY <1>8 DEF FailureHandlerReturns, Deadline
<1>9. ASSUME NEW p \in Cancellable, ContextDone(p)
      PROVE  ShutdownInv'
    BY <1>9 DEF ContextDone
<1>10. CASE Interrupt \/ SignalCancelled
    BY <1>10 DEF Interrupt, SignalCancelled
<1>11. ASSUME NEW c \in {"stop", "signal"}, NEW w \in Workers, Cancel(c, w)
       PROVE  ShutdownInv'
    BY <1>11 DEF Cancel
<1>12. CASE StopCloseFast \/ StopCloseSlow
    <2>1. CASE StopCloseFast
        BY <2>1 DEF StopCloseFast
    <2>2. CASE StopCloseSlow
        <3>1. closed' = Channels
            BY <2>2, BothClosed DEF StopCloseSlow
        <3>2. toCancel'["stop"] = Workers /\ stop' = "cancel"
            BY <2>2 DEF StopCloseSlow
        <3>3. pc' = pc /\ cur' = cur
            BY <2>2 DEF StopCloseSlow
        <3>4. QED
            BY <3>1, <3>2, <3>3
    <2>3. QED
        BY <1>12, <2>1, <2>2
<1>13. CASE StopCancelled \/ StopReturns
    BY <1>13 DEF StopCancelled, StopReturns
<1>14. CASE UNCHANGED vars
    BY <1>14 DEF vars
<1>15. QED
    BY <1>1, <1>2, <1>3, <1>4, <1>5, <1>6, <1>7, <1>8, <1>9, <1>10, <1>11, <1>12,
       <1>13, <1>14 DEF AtomicStep

LEMMA Shutdown == Spec => [](TypeOK /\ ShutdownInv)
BY InitTypeOK, NextTypeOK, InitShutdown, NextShutdown, PTL DEF Spec

-------------------------------------------------------------------------------
(* After the cancellation no job succeeds.                                 *)

LEMMA SuccessStep ==
    TypeOK /\ ShutdownInv /\ [Next \/ Terminated]_vars =>
        [\A j \in Jobs :
            stop = "wait" /\ ended'[j] = "succeeded" => ended[j] = "succeeded"]_vars
<1> SUFFICES ASSUME TypeOK, ShutdownInv, AtomicStep, NEW j \in Jobs,
                    stop = "wait", ended'[j] = "succeeded"
             PROVE  ended[j] = "succeeded"
    BY AtomicSteps
<1>1. Workers \subseteq cancelled
    BY DEF ShutdownInv
<1>2. ASSUME NEW w \in Workers, Recover(w)
      PROVE  ended' = ended
    BY <1>1, <1>2 DEF Recover, RecoverWhen, Disturbed
<1>3. ASSUME NEW w \in Workers, BeginJob(w) \/ FailureHandlerReturns(w)
      PROVE  ended[j] = "succeeded"
    BY <1>3 DEF BeginJob, FailureHandlerReturns, TypeOK
<1>4. CASE ended' = ended
    BY <1>4
<1>5. QED
    BY <1>2, <1>3, <1>4
       DEF AtomicStep, vars, workerVars, stopVars, callerVars, Enqueue, Send, SendOnClosed,
           CountEnqueued, Start, Receive, ReceiveNil, CountDequeued, EndJob, HandlerEnds,
           Deadline, ContextDone, Interrupt, Cancel, SignalCancelled, StopCloseFast,
           StopCloseSlow, StopCancelled, StopReturns

\* Once Stop has cancelled the workers, no job, whether it was active or is taken
\* from the queue afterwards, ends without its failure handler.
THEOREM ShutdownIsReported == Spec => NoSuccessAfterCancel
BY Shutdown, SuccessStep, PTL DEF Spec, NoSuccessAfterCancel

-------------------------------------------------------------------------------
(* The counter of active jobs.                                             *)

Active == {w \in Workers : pc[w] \in InJob}

LEMMA ActiveStep ==
    TypeOK /\ ActiveIsAccounted /\ [Next \/ Terminated]_vars => ActiveIsAccounted'
<1> SUFFICES ASSUME TypeOK, sac = Cardinality(Active), AtomicStep
             PROVE  sac' = Cardinality(Active')
    BY AtomicSteps DEF ActiveIsAccounted, Active
<1> USE DEF TypeOK
<1>1. IsFiniteSet(Active)
    BY FS_Subset, WorkerAssumption DEF Active
<1>2. ASSUME NEW w \in Workers, BeginJob(w)
      PROVE  sac' = Cardinality(Active')
    <2>1. w \notin Active /\ Active' = Active \cup {w}
        BY <1>2 DEF BeginJob, Active, InJob
    <2>2. Cardinality(Active \cup {w}) = Cardinality(Active) + 1
        BY <1>1, <2>1, FS_AddElement
    <2>3. QED
        BY <1>2, <2>1, <2>2 DEF BeginJob
<1>3. ASSUME NEW w \in Workers, EndJob(w)
      PROVE  sac' = Cardinality(Active')
    <2>1. w \in Active /\ Active' = Active \ {w}
        BY <1>3 DEF EndJob, Active, InJob
    <2>2. Cardinality(Active \ {w}) = Cardinality(Active) - 1
        BY <1>1, <2>1, FS_RemoveElement
    <2>3. QED
        BY <1>3, <2>1, <2>2 DEF EndJob
<1>4. ASSUME NEW w \in Workers,
             \/ Receive(w) \/ ReceiveNil(w) \/ CountDequeued(w) \/ Recover(w)
             \/ FailureHandlerReturns(w)
             \/ \E r \in {"returned", "panicked"} : HandlerEnds(w, r)
      PROVE  sac' = sac /\ Active' = Active
    BY <1>4 DEF Receive, ReceiveNil, CountDequeued, Recover, RecoverWhen,
                FailureHandlerReturns, HandlerEnds, Active, InJob
<1>5. ASSUME NEW p \in Cancellable, ContextDone(p)
      PROVE  sac' = sac /\ Active' = Active
    BY <1>5 DEF ContextDone, Active, InJob
<1>6. CASE Start \/ Interrupt \/ SignalCancelled
    BY <1>6, WorkerAssumption DEF Start, Interrupt, SignalCancelled, Active, InJob
<1>7. CASE pc' = pc /\ sac' = sac
    BY <1>7 DEF Active
<1>8. QED
    BY <1>2, <1>3, <1>4, <1>5, <1>6, <1>7
       DEF AtomicStep, vars, workerVars, stopVars, callerVars, Enqueue, Send, SendOnClosed,
           CountEnqueued, Deadline, Cancel, StopCloseFast, StopCloseSlow, StopCancelled,
           StopReturns

\* Stats.Active is exact at every moment: panics, missing handlers and failure
\* handlers leave no job counted and count none twice.
THEOREM ActiveCorrect == Spec => []ActiveIsAccounted
<1>1. Init => ActiveIsAccounted
    <2>1. Init => {w \in Workers : pc[w] \in InJob} = {}
        BY DEF Init, InJob
    <2>2. QED
        BY <2>1, FS_EmptySet DEF Init, ActiveIsAccounted
<1>2. QED
    BY <1>1, TypeCorrect, ActiveStep, PTL DEF Spec

\* When Stop has returned, no goroutine of the worker is left, nothing is active
\* and both channels are closed.
THEOREM StoppedIsQuietCorrect == Spec => []StoppedIsQuiet
<1>1. TypeOK /\ ShutdownInv /\ ActiveIsAccounted => StoppedIsQuiet
    <2> SUFFICES ASSUME ShutdownInv, ActiveIsAccounted, stop = "done"
                 PROVE  StoppedIsQuiet
        BY DEF StoppedIsQuiet
    <2>1. {w \in Workers : pc[w] \in InJob} = {}
        BY DEF ShutdownInv, InJob
    <2>2. sac = 0
        BY <2>1, FS_EmptySet DEF ActiveIsAccounted
    <2>3. QED
        BY <2>2 DEF StoppedIsQuiet, ShutdownInv
<1>2. QED
    BY <1>1, Shutdown, ActiveCorrect, PTL

-------------------------------------------------------------------------------
(* Where the jobs are.  A job in a channel is there once, was accepted, has *)
(* not been processed and is held by no worker; a job that a worker holds   *)
(* is held by that worker only; and an accepted job that is in neither      *)
(* place has been processed.                                                *)

Accepted(j) == caller[j] \in {"sent", "returned"}

QueuePlaces ==
    \A c \in Channels : \A i \in 1..Len(queue[c]) :
        /\ ChannelOfJob(queue[c][i]) = c
        /\ Accepted(queue[c][i])
        /\ ended[queue[c][i]] = "no"
        /\ \A k \in 1..Len(queue[c]) : queue[c][i] = queue[c][k] => i = k
        /\ \A w \in Workers : cur[w] # queue[c][i]

WorkerPlaces ==
    \A w \in Workers :
        /\ cur[w] = NoJob <=> pc[w] \in {"new", "select", "exited"}
        /\ cur[w] # NoJob =>
              /\ Accepted(cur[w])
              /\ ended[cur[w]] = "no" <=> pc[w] # "ending"
              /\ \A v \in Workers : cur[v] = cur[w] => v = w

JobPlaces ==
    \A j \in Jobs :
        /\ ended[j] # "no" => Accepted(j)
        /\ Accepted(j) /\ ended[j] = "no" => Queued(j) \/ Held(j)

PlacesInv == QueuePlaces /\ WorkerPlaces /\ JobPlaces

LEMMA AppendElements ==
    ASSUME NEW S, NEW s \in Seq(S), NEW e \in S
    PROVE  /\ Append(s, e) \in Seq(S)
           /\ Len(Append(s, e)) = Len(s) + 1
           /\ \A i \in 1..Len(s) : Append(s, e)[i] = s[i]
           /\ Append(s, e)[Len(s) + 1] = e
OBVIOUS

LEMMA TailElements ==
    ASSUME NEW S, NEW s \in Seq(S), s # <<>>
    PROVE  /\ Head(s) = s[1]
           /\ Head(s) \in S
           /\ Len(s) \in Nat \ {0}
           /\ Len(Tail(s)) = Len(s) - 1
           /\ \A i \in 1..Len(Tail(s)) : Tail(s)[i] = s[i + 1]
OBVIOUS

LEMMA InitPlaces == Init => PlacesInv
BY DEF Init, PlacesInv, QueuePlaces, WorkerPlaces, JobPlaces, Accepted

LEMMA QueueTypes ==
    TypeOK => /\ caller \in [Jobs -> CallerStates]
              /\ ended \in [Jobs -> EndStates]
              /\ cur \in [Workers -> Jobs \cup {NoJob}]
              /\ pc \in [Cancellable -> WorkerStates]
              /\ DOMAIN queue = Channels
              /\ \A d \in Channels :
                    /\ queue[d] \in Seq(Jobs)
                    /\ Len(queue[d]) \in Nat
                    /\ \A i \in 1..Len(queue[d]) : queue[d][i] \in Jobs
BY DEF TypeOK

LEMMA SendPlaces ==
    ASSUME TypeOK, PlacesInv, NEW j \in Jobs, Send(j)
    PROVE  PlacesInv'
<1> DEFINE c == ChannelOfJob(j)
<1>1. /\ c \in Channels
      /\ queue'[c] = Append(queue[c], j)
      /\ \A d \in Channels : d # c => queue'[d] = queue[d]
      /\ caller' = [caller EXCEPT ![j] = "sent"]
      /\ caller[j] = "sending"
      /\ ended' = ended /\ cur' = cur /\ pc' = pc
    BY ChannelsOfJobsAndWorkers DEF Send, workerVars, TypeOK
<1> HIDE DEF c
<1>2. /\ Len(queue'[c]) = Len(queue[c]) + 1
      /\ \A i \in 1..Len(queue[c]) : queue'[c][i] = queue[c][i]
      /\ queue'[c][Len(queue[c]) + 1] = j
    BY <1>1, QueueTypes, AppendElements
<1>3. ~Accepted(j)
    BY <1>1 DEF Accepted
<1>4. ended[j] = "no"
    BY <1>3 DEF PlacesInv, JobPlaces
<1>5. \A w \in Workers : cur[w] # j
    BY <1>3, JobAssumption DEF PlacesInv, WorkerPlaces
<1>6. \A d \in Channels : \A i \in 1..Len(queue[d]) : queue[d][i] # j
    BY <1>3 DEF PlacesInv, QueuePlaces
<1>7. \A k \in Jobs : k # j => caller'[k] = caller[k]
    BY <1>1, QueueTypes
<1>8. caller'[j] = "sent"
    BY <1>1, QueueTypes
<1>9. QueuePlaces'
    <2> SUFFICES ASSUME NEW d \in Channels, NEW i \in 1..Len(queue'[d])
                 PROVE  /\ ChannelOfJob(queue'[d][i]) = d
                        /\ caller'[queue'[d][i]] \in {"sent", "returned"}
                        /\ ended'[queue'[d][i]] = "no"
                        /\ \A k \in 1..Len(queue'[d]) :
                               queue'[d][i] = queue'[d][k] => i = k
                        /\ \A w \in Workers : cur'[w] # queue'[d][i]
        BY DEF QueuePlaces, Accepted
    <2>1. ASSUME i \in 1..Len(queue[d]), queue'[d][i] = queue[d][i]
          PROVE  /\ ChannelOfJob(queue'[d][i]) = d
                 /\ caller'[queue'[d][i]] \in {"sent", "returned"}
                 /\ ended'[queue'[d][i]] = "no"
                 /\ \A k \in 1..Len(queue[d]) : queue[d][i] = queue[d][k] => i = k
                 /\ \A w \in Workers : cur'[w] # queue'[d][i]
        BY <1>1, <1>6, <1>7, <2>1, QueueTypes DEF PlacesInv, QueuePlaces, Accepted
    <2>2. CASE d # c
        <3>1. queue'[d] = queue[d]
            BY <1>1, <2>2
        <3>2. QED
            BY <2>1, <3>1
    <2>3. CASE d = c
        <3>1. Len(queue[c]) \in Nat
            BY <1>1, QueueTypes
        <3>2. CASE i \in 1..Len(queue[c])
            BY <1>2, <1>6, <2>1, <2>3, <3>1, <3>2
        <3>3. CASE i = Len(queue[c]) + 1
            <4>1. queue'[d][i] = j
                BY <1>2, <2>3, <3>3
            <4>2. ASSUME NEW k \in 1..Len(queue'[d]), queue'[d][k] = j
                  PROVE  i = k
                <5>1. k \in 1..Len(queue[c]) \/ k = Len(queue[c]) + 1
                    BY <1>2, <2>3, <3>1
                <5>2. k \in 1..Len(queue[c]) => queue'[c][k] # j
                    BY <1>1, <1>2, <1>6
                <5>3. QED
                    BY <2>3, <3>3, <4>2, <5>1, <5>2
            <4>3. QED
                BY <1>1, <1>4, <1>5, <1>8, <2>3, <4>1, <4>2 DEF c
        <3>4. QED
            BY <1>2, <2>3, <3>1, <3>2, <3>3
    <2>4. QED
        BY <2>2, <2>3
<1>10. WorkerPlaces'
    BY <1>1, <1>5, <1>7, QueueTypes DEF PlacesInv, WorkerPlaces, Accepted
<1>11. JobPlaces'
    <2>1. Queued(j)'
        <3>1. Len(queue[c]) + 1 \in 1..Len(queue'[c])
            BY <1>1, <1>2, QueueTypes
        <3>2. QED
            BY <1>1, <1>2, <3>1 DEF Queued
    <2>2. ASSUME NEW k \in Jobs, Queued(k)
          PROVE  Queued(k)'
        <3>1. PICK d \in Channels : \E i \in 1..Len(queue[d]) : queue[d][i] = k
            BY <2>2 DEF Queued
        <3>2. PICK i \in 1..Len(queue[d]) : queue[d][i] = k
            BY <3>1
        <3>3. CASE d = c
            <4>1. i \in 1..Len(queue'[c]) /\ queue'[c][i] = k
                BY <1>1, <1>2, <3>2, <3>3, QueueTypes
            <4>2. QED
                BY <1>1, <4>1 DEF Queued
        <3>4. CASE d # c
            BY <1>1, <3>2, <3>4 DEF Queued
        <3>5. QED
            BY <3>3, <3>4
    <2>3. QED
        BY <1>1, <1>4, <1>7, <1>8, <2>1, <2>2 DEF PlacesInv, JobPlaces, Held, Accepted
<1>12. QED
    BY <1>9, <1>10, <1>11 DEF PlacesInv

LEMMA ReceivePlaces ==
    ASSUME TypeOK, PlacesInv, NEW w \in Workers, Receive(w)
    PROVE  PlacesInv'
<1> DEFINE c == ChannelOfWorker(w)
           h == Head(queue[c])
<1>1. /\ c \in Channels
      /\ queue[c] # <<>>
      /\ queue'[c] = Tail(queue[c])
      /\ \A d \in Channels : d # c => queue'[d] = queue[d]
      /\ cur'[w] = h
      /\ \A v \in Workers : v # w => cur'[v] = cur[v] /\ pc'[v] = pc[v]
      /\ pc'[w] = "received"
      /\ pc[w] = "select"
      /\ ended' = ended /\ caller' = caller
    BY ChannelsOfJobsAndWorkers DEF Receive, TypeOK
<1>2. /\ h = queue[c][1] /\ h \in Jobs
      /\ Len(queue[c]) \in Nat \ {0}
      /\ Len(queue'[c]) = Len(queue[c]) - 1
      /\ \A i \in 1..Len(queue'[c]) : queue'[c][i] = queue[c][i + 1]
    BY <1>1, QueueTypes, TailElements
<1> HIDE DEF c, h
<1>3. 1 \in 1..Len(queue[c])
    BY <1>2
<1>4. /\ Accepted(h)
      /\ ended[h] = "no"
      /\ \A v \in Workers : cur[v] # h
    BY <1>1, <1>2, <1>3 DEF PlacesInv, QueuePlaces
<1>5. h # NoJob
    BY <1>2, JobAssumption
<1>6. cur[w] = NoJob
    BY <1>1 DEF PlacesInv, WorkerPlaces
<1>7. \A d \in Channels : \A i \in 1..Len(queue[d]) :
          d # c \/ i # 1 => queue[d][i] # h
    <2> SUFFICES ASSUME NEW d \in Channels, NEW i \in 1..Len(queue[d]),
                        queue[d][i] = h
                 PROVE  d = c /\ i = 1
        OBVIOUS
    <2>1. d = c
        BY <1>1, <1>2, <1>3 DEF PlacesInv, QueuePlaces
    <2>2. QED
        BY <1>1, <1>2, <1>3, <2>1 DEF PlacesInv, QueuePlaces
<1>8. QueuePlaces'
    <2> SUFFICES ASSUME NEW d \in Channels, NEW i \in 1..Len(queue'[d])
                 PROVE  /\ ChannelOfJob(queue'[d][i]) = d
                        /\ caller'[queue'[d][i]] \in {"sent", "returned"}
                        /\ ended'[queue'[d][i]] = "no"
                        /\ \A k \in 1..Len(queue'[d]) :
                               queue'[d][i] = queue'[d][k] => i = k
                        /\ \A v \in Workers : cur'[v] # queue'[d][i]
        BY DEF QueuePlaces, Accepted
    <2>1. ASSUME NEW n \in 1..Len(queue[d]), queue'[d][i] = queue[d][n],
                 queue[d][n] # h
          PROVE  /\ ChannelOfJob(queue'[d][i]) = d
                 /\ caller'[queue'[d][i]] \in {"sent", "returned"}
                 /\ ended'[queue'[d][i]] = "no"
                 /\ \A m \in 1..Len(queue[d]) : queue[d][n] = queue[d][m] => n = m
                 /\ \A v \in Workers : cur'[v] # queue'[d][i]
        BY <1>1, <2>1 DEF PlacesInv, QueuePlaces, Accepted
    <2>2. CASE d # c
        <3>1. queue'[d] = queue[d]
            BY <1>1, <2>2
        <3>2. queue[d][i] # h
            BY <1>7, <2>2, <3>1
        <3>3. QED
            BY <2>1, <3>1, <3>2
    <2>3. CASE d = c
        <3>1. i + 1 \in 1..Len(queue[d]) /\ i + 1 # 1 /\ queue'[d][i] = queue[d][i + 1]
            BY <1>2, <2>3
        <3>2. queue[d][i + 1] # h
            BY <1>7, <3>1
        <3>3. ASSUME NEW k \in 1..Len(queue'[d]), queue'[d][i] = queue'[d][k]
              PROVE  i = k
            <4>1. k + 1 \in 1..Len(queue[d]) /\ queue[d][i + 1] = queue[d][k + 1]
                BY <1>2, <2>3, <3>1, <3>3
            <4>2. i + 1 = k + 1
                BY <2>1, <3>1, <3>2, <4>1
            <4>3. QED
                BY <4>2
        <3>4. QED
            BY <2>1, <3>1, <3>2, <3>3
    <2>4. QED
        BY <2>2, <2>3
<1>9. WorkerPlaces'
    BY <1>1, <1>4, <1>5, <1>6 DEF PlacesInv, WorkerPlaces, Accepted
<1>10. JobPlaces'
    <2>1. ASSUME NEW k \in Jobs, Queued(k), k # h
          PROVE  Queued(k)'
        <3>1. PICK d \in Channels : \E i \in 1..Len(queue[d]) : queue[d][i] = k
            BY <2>1 DEF Queued
        <3>2. PICK i \in 1..Len(queue[d]) : queue[d][i] = k
            BY <3>1
        <3>3. CASE d # c
            BY <1>1, <3>2, <3>3 DEF Queued
        <3>4. CASE d = c
            <4>1. i # 1
                BY <1>2, <2>1, <3>2, <3>4
            <4>2. i - 1 \in 1..Len(queue'[c]) /\ queue'[c][i - 1] = k
                BY <1>2, <3>2, <3>4, <4>1
            <4>3. QED
                BY <1>1, <4>2 DEF Queued
        <3>5. QED
            BY <3>3, <3>4
    <2>2. \E v \in Workers : cur'[v] = h
        BY <1>1
    <2>3. ASSUME NEW k \in Jobs, NEW v \in Workers, cur[v] = k
          PROVE  \E u \in Workers : cur'[u] = k
        BY <1>1, <1>6, <2>3, JobAssumption
    <2>4. QED
        BY <1>1, <2>1, <2>2, <2>3 DEF PlacesInv, JobPlaces, Held, Accepted
<1>11. QED
    BY <1>8, <1>9, <1>10 DEF PlacesInv

\* A step that moves no job, lets no call of Enqueue out of its state and ends no
\* processing keeps the places.
LEMMA UnmovedPlaces ==
    ASSUME PlacesInv, queue' = queue, cur' = cur, ended' = ended,
           \A j \in Jobs : Accepted(j)' <=> Accepted(j),
           TypeOK,
           \A w \in Workers :
               /\ pc'[w] = "ending" <=> pc[w] = "ending"
               /\ pc'[w] \in {"new", "select", "exited"}
                      <=> pc[w] \in {"new", "select", "exited"}
    PROVE  PlacesInv'
<1>1. QueuePlaces'
    <2> SUFFICES ASSUME NEW c \in Channels, NEW i \in 1..Len(queue[c])
                 PROVE  /\ ChannelOfJob(queue[c][i]) = c
                        /\ caller'[queue[c][i]] \in {"sent", "returned"}
                        /\ ended[queue[c][i]] = "no"
                        /\ \A k \in 1..Len(queue[c]) : queue[c][i] = queue[c][k] => i = k
                        /\ \A w \in Workers : cur[w] # queue[c][i]
        BY DEF QueuePlaces, Accepted
    <2>1. queue[c][i] \in Jobs
        BY QueueTypes
    <2>2. caller'[queue[c][i]] \in {"sent", "returned"}
        BY <2>1 DEF PlacesInv, QueuePlaces, Accepted
    <2>3. QED
        BY <2>2 DEF PlacesInv, QueuePlaces
<1>2. WorkerPlaces'
    <2>1. \A w \in Workers : cur[w] # NoJob => cur[w] \in Jobs
        BY QueueTypes
    <2>2. QED
        BY <2>1 DEF PlacesInv, WorkerPlaces, Accepted
<1>3. JobPlaces'
    BY DEF PlacesInv, JobPlaces, Queued, Held, Accepted
<1>4. QED
    BY <1>1, <1>2, <1>3 DEF PlacesInv

\* The end of the processing of the job that w holds.
LEMMA EndingPlaces ==
    ASSUME TypeOK, PlacesInv, NEW w \in Workers,
           queue' = queue, cur' = cur, caller' = caller,
           cur[w] \in Jobs,
           ended'[cur[w]] # "no",
           \A j \in Jobs : j # cur[w] => ended'[j] = ended[j],
           pc'[w] = "ending",
           \A v \in Workers : v # w => pc'[v] = pc[v]
    PROVE  PlacesInv'
<1>1. QueuePlaces'
    <2> SUFFICES ASSUME NEW c \in Channels, NEW i \in 1..Len(queue[c])
                 PROVE  /\ ChannelOfJob(queue[c][i]) = c
                        /\ caller[queue[c][i]] \in {"sent", "returned"}
                        /\ ended'[queue[c][i]] = "no"
                        /\ \A k \in 1..Len(queue[c]) : queue[c][i] = queue[c][k] => i = k
                        /\ \A v \in Workers : cur[v] # queue[c][i]
        BY DEF QueuePlaces, Accepted
    <2>1. queue[c][i] \in Jobs /\ queue[c][i] # cur[w]
        BY QueueTypes DEF PlacesInv, QueuePlaces
    <2>2. QED
        BY <2>1 DEF PlacesInv, QueuePlaces, Accepted
<1>2. WorkerPlaces'
    <2>1. \A v \in Workers : cur[v] # NoJob => cur[v] \in Jobs
        BY QueueTypes
    <2>2. cur[w] # NoJob
        BY JobAssumption
    <2>3. QED
        BY <2>1, <2>2 DEF PlacesInv, WorkerPlaces, Accepted
<1>3. Accepted(cur[w])
    BY JobAssumption DEF PlacesInv, WorkerPlaces
<1>4. JobPlaces'
    BY <1>3 DEF PlacesInv, JobPlaces, Queued, Held, Accepted
<1>5. QED
    BY <1>1, <1>2, <1>4 DEF PlacesInv

LEMMA EndJobPlaces ==
    ASSUME TypeOK, PlacesInv, NEW w \in Workers, EndJob(w)
    PROVE  PlacesInv'
<1>1. /\ queue' = queue /\ caller' = caller /\ ended' = ended
      /\ cur'[w] = NoJob /\ pc'[w] = "select" /\ pc[w] = "ending"
      /\ \A v \in Workers : v # w => cur'[v] = cur[v] /\ pc'[v] = pc[v]
    BY QueueTypes DEF EndJob, callerVars, Cancellable, Members
<1>2. /\ cur[w] \in Jobs
      /\ ended[cur[w]] # "no"
    BY <1>1, QueueTypes DEF PlacesInv, WorkerPlaces
<1>3. QueuePlaces'
    <2> SUFFICES ASSUME NEW c \in Channels, NEW i \in 1..Len(queue[c])
                 PROVE  /\ ChannelOfJob(queue[c][i]) = c
                        /\ caller[queue[c][i]] \in {"sent", "returned"}
                        /\ ended[queue[c][i]] = "no"
                        /\ \A k \in 1..Len(queue[c]) : queue[c][i] = queue[c][k] => i = k
                        /\ \A v \in Workers : cur'[v] # queue[c][i]
        BY <1>1 DEF QueuePlaces, Accepted
    <2>1. queue[c][i] # NoJob
        BY QueueTypes, JobAssumption
    <2>2. QED
        BY <1>1, <2>1 DEF PlacesInv, QueuePlaces, Accepted
<1>4. WorkerPlaces'
    BY <1>1 DEF PlacesInv, WorkerPlaces, Accepted
<1>5. JobPlaces'
    BY <1>1, <1>2 DEF PlacesInv, JobPlaces, Queued, Held, Accepted
<1>6. QED
    BY <1>3, <1>4, <1>5 DEF PlacesInv

LEMMA NextPlaces ==
    TypeOK /\ PlacesInv /\ [Next \/ Terminated]_vars => PlacesInv'
<1> SUFFICES ASSUME TypeOK, PlacesInv, AtomicStep
             PROVE  PlacesInv'
    BY AtomicSteps
<1> USE DEF callerVars, workerVars, stopVars
<1>1. ASSUME NEW j \in Jobs, Enqueue(j) \/ SendOnClosed(j) \/ CountEnqueued(j)
      PROVE  PlacesInv'
    <2>1. \A k \in Jobs : Accepted(k)' <=> Accepted(k)
        BY <1>1, QueueTypes DEF Enqueue, SendOnClosed, CountEnqueued, Accepted
    <2>2. QED
        BY <1>1, <2>1, UnmovedPlaces DEF Enqueue, SendOnClosed, CountEnqueued
<1>2. ASSUME NEW w \in Workers,
             ReceiveNil(w) \/ CountDequeued(w)
             \/ \E r \in {"returned", "panicked"} : HandlerEnds(w, r)
      PROVE  PlacesInv'
    <2>1. \A v \in Workers :
              /\ pc'[v] = "ending" <=> pc[v] = "ending"
              /\ pc'[v] \in {"new", "select", "exited"}
                     <=> pc[v] \in {"new", "select", "exited"}
        BY <1>2, QueueTypes DEF ReceiveNil, CountDequeued, HandlerEnds, Cancellable, Members
    <2>2. queue' = queue /\ cur' = cur /\ ended' = ended /\ caller' = caller
        BY <1>2 DEF ReceiveNil, CountDequeued, HandlerEnds
    <2>3. QED
        BY <2>1, <2>2, UnmovedPlaces DEF Accepted
<1>3. ASSUME NEW p \in Cancellable, ContextDone(p)
      PROVE  PlacesInv'
    <2>1. \A v \in Workers :
              /\ pc'[v] = "ending" <=> pc[v] = "ending"
              /\ pc'[v] \in {"new", "select", "exited"}
                     <=> pc[v] \in {"new", "select", "exited"}
        BY <1>3, QueueTypes DEF ContextDone, Cancellable, Members
    <2>2. QED
        BY <1>3, <2>1, UnmovedPlaces DEF Accepted, ContextDone
<1>4. CASE Start \/ Interrupt \/ SignalCancelled
    <2>1. \A v \in Workers :
              /\ pc'[v] = "ending" <=> pc[v] = "ending"
              /\ pc'[v] \in {"new", "select", "exited"}
                     <=> pc[v] \in {"new", "select", "exited"}
        BY <1>4, QueueTypes, WorkerAssumption
           DEF Start, Interrupt, SignalCancelled, Cancellable, Members
    <2>2. queue' = queue /\ cur' = cur /\ ended' = ended /\ caller' = caller
        BY <1>4 DEF Start, Interrupt, SignalCancelled
    <2>3. QED
        BY <2>1, <2>2, UnmovedPlaces DEF Accepted
<1>5. ASSUME NEW w \in Workers, BeginJob(w) \/ Recover(w) \/ FailureHandlerReturns(w)
      PROVE  PlacesInv'
    <2>1. cur[w] \in Jobs
        BY <1>5, QueueTypes DEF BeginJob, Recover, RecoverWhen, FailureHandlerReturns,
                                PlacesInv, WorkerPlaces
    <2>2. queue' = queue /\ cur' = cur /\ caller' = caller
        BY <1>5 DEF BeginJob, Recover, RecoverWhen, FailureHandlerReturns
    <2>3. CASE ended' = ended
        <3>1. ended[cur[w]] = "no"
            BY <1>5, <2>1, JobAssumption
               DEF BeginJob, Recover, RecoverWhen, FailureHandlerReturns,
                   PlacesInv, WorkerPlaces
        <3>2. \A v \in Workers :
                  /\ pc'[v] = "ending" <=> pc[v] = "ending"
                  /\ pc'[v] \in {"new", "select", "exited"}
                         <=> pc[v] \in {"new", "select", "exited"}
            BY <1>5, <2>1, <2>3, <3>1, QueueTypes
               DEF BeginJob, Recover, RecoverWhen, FailureHandlerReturns, Cancellable, Members
        <3>3. QED
            BY <2>2, <2>3, <3>2, UnmovedPlaces DEF Accepted
    <2>4. CASE ended' # ended
        <3>1. /\ ended'[cur[w]] # "no"
              /\ \A j \in Jobs : j # cur[w] => ended'[j] = ended[j]
              /\ pc'[w] = "ending"
              /\ \A v \in Workers : v # w => pc'[v] = pc[v]
            BY <1>5, <2>1, <2>4, QueueTypes
               DEF BeginJob, Recover, RecoverWhen, FailureHandlerReturns, Cancellable, Members
        <3>2. QED
            BY <2>1, <2>2, <3>1, EndingPlaces
    <2>5. QED
        BY <2>3, <2>4
<1>6. CASE queue' = queue /\ cur' = cur /\ caller' = caller /\ ended' = ended /\ pc' = pc
    BY <1>6, UnmovedPlaces DEF Accepted
<1>7. QED
    BY <1>1, <1>2, <1>3, <1>4, <1>5, <1>6, SendPlaces, ReceivePlaces, EndJobPlaces
       DEF AtomicStep, vars, Deadline, Cancel, StopCloseFast, StopCloseSlow, StopCancelled,
           StopReturns

LEMMA Places == Spec => [](TypeOK /\ PlacesInv)
BY InitTypeOK, InitPlaces, NextTypeOK, NextPlaces, PTL DEF Spec

\* Each job is at one place only, and no job is handled twice.
THEOREM HandledAtMostOnceCorrect == Spec => []HandledAtMostOnce
<1>1. TypeOK /\ PlacesInv => HandledAtMostOnce
    <2> SUFFICES ASSUME TypeOK, PlacesInv, NEW j \in Jobs
                 PROVE  /\ \A c, d \in Channels :
                               \A i \in 1..Len(queue[c]), k \in 1..Len(queue[d]) :
                                   queue[c][i] = j /\ queue[d][k] = j => c = d /\ i = k
                        /\ \A v, w \in Workers : cur[v] = j /\ cur[w] = j => v = w
                        /\ Queued(j) => ~Held(j) /\ ended[j] = "no"
                        /\ \A w \in Workers :
                               cur[w] = j /\ pc[w] # "ending" => ended[j] = "no"
        BY DEF HandledAtMostOnce
    <2>1. \A c, d \in Channels : \A i \in 1..Len(queue[c]), k \in 1..Len(queue[d]) :
              queue[c][i] = j /\ queue[d][k] = j => c = d /\ i = k
        BY DEF PlacesInv, QueuePlaces
    <2>2. /\ \A v, w \in Workers : cur[v] = j /\ cur[w] = j => v = w
          /\ \A w \in Workers : cur[w] = j /\ pc[w] # "ending" => ended[j] = "no"
        BY JobAssumption DEF PlacesInv, WorkerPlaces
    <2>3. Queued(j) => ~Held(j) /\ ended[j] = "no"
        BY DEF PlacesInv, QueuePlaces, Queued, Held
    <2>4. QED
        BY <2>1, <2>2, <2>3
<1>2. QED
    BY <1>1, Places, PTL

\* No accepted job is lost.
THEOREM AcceptedIsKeptCorrect == Spec => []AcceptedIsKept
<1>1. TypeOK /\ PlacesInv => AcceptedIsKept
    <2> SUFFICES ASSUME TypeOK, PlacesInv, NEW j \in Jobs
                 PROVE  /\ Accepted(j) /\ ended[j] = "no" => Queued(j) \/ Held(j)
                        /\ caller[j] = "panicked" =>
                               ~Queued(j) /\ ~Held(j) /\ ended[j] = "no"
                        /\ \A w \in Workers : pc[w] = "exited" => cur[w] # j
        BY DEF AcceptedIsKept, Accepted
    <2>1. Accepted(j) /\ ended[j] = "no" => Queued(j) \/ Held(j)
        BY DEF PlacesInv, JobPlaces
    <2>2. \A w \in Workers : pc[w] = "exited" => cur[w] # j
        BY JobAssumption DEF PlacesInv, WorkerPlaces
    <2>3. ASSUME caller[j] = "panicked"
          PROVE  ~Queued(j) /\ ~Held(j) /\ ended[j] = "no"
        <3>1. ~Accepted(j)
            BY <2>3 DEF Accepted
        <3>2. QED
            BY <3>1, JobAssumption DEF PlacesInv, QueuePlaces, WorkerPlaces, JobPlaces,
                                       Queued, Held
    <2>4. QED
        BY <2>1, <2>2, <2>3
<1>2. QED
    BY <1>1, Places, PTL
===============================================================================
