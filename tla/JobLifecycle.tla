----------------------------- MODULE JobLifecycle -----------------------------
(***************************************************************************)
(* What the background job service (pkg/jobs) promises to its callers,     *)
(* with no queues, workers or contexts in it: the life of each job, and    *)
(* the life of the service.                                                *)
(*                                                                         *)
(* A job that was submitted is handled at most once.  A handling that was  *)
(* disturbed (the handler panicked, or its context was cancelled or        *)
(* expired before the handler was seen to return) is handed to the failure *)
(* handler, once; one that was not disturbed never is.  When the service   *)
(* is down nothing runs any more and nothing is taken in; what was still   *)
(* waiting then is lost.                                                   *)
(***************************************************************************)
CONSTANT Jobs

VARIABLES
    phase,      \* phase[j]: how far job j got
    disturbed,  \* the jobs being handled whose handling was disturbed
    service     \* the life of the service

vars == <<phase, disturbed, service>>

Phase == {"new", "rejected", "waiting", "handling", "failing",
          "succeeded", "failed", "unhandled"}

Service == {"up", "stopping", "down"}

Init ==
    /\ phase = [j \in Jobs |-> "new"]
    /\ disturbed = {}
    /\ service = "up"

Move(j, from, to) ==
    /\ phase[j] = from
    /\ phase' = [phase EXCEPT ![j] = to]

\* The service takes the job.  Once stopping it may refuse it instead.
Submit(j) ==
    /\ service # "down"
    /\ Move(j, "new", "waiting")
    /\ UNCHANGED <<disturbed, service>>

Reject(j) ==
    /\ service # "up"
    /\ Move(j, "new", "rejected")
    /\ UNCHANGED <<disturbed, service>>

\* A handling may be disturbed from its first moment: a worker whose context
\* is cancelled still takes jobs.
Begin(j) ==
    /\ service # "down"
    /\ Move(j, "waiting", "handling")
    /\ disturbed' \in {disturbed, disturbed \cup {j}}
    /\ UNCHANGED service

\* No handler is registered for the type of the job.
Ignore(j) ==
    /\ service # "down"
    /\ Move(j, "waiting", "unhandled")
    /\ UNCHANGED <<disturbed, service>>

Disturb(j) ==
    /\ phase[j] = "handling"
    /\ disturbed' = disturbed \cup {j}
    /\ UNCHANGED <<phase, service>>

Succeed(j) ==
    /\ j \notin disturbed
    /\ Move(j, "handling", "succeeded")
    /\ UNCHANGED <<disturbed, service>>

Fail(j) ==
    /\ j \in disturbed
    /\ Move(j, "handling", "failing")
    /\ disturbed' = disturbed \ {j}
    /\ UNCHANGED service

FailureHandled(j) ==
    /\ Move(j, "failing", "failed")
    /\ UNCHANGED <<disturbed, service>>

Stop ==
    /\ service = "up"
    /\ service' = "stopping"
    /\ UNCHANGED <<phase, disturbed>>

Down ==
    /\ service = "stopping"
    /\ \A j \in Jobs : phase[j] \notin {"handling", "failing"}
    /\ service' = "down"
    /\ UNCHANGED <<phase, disturbed>>

Next ==
    \/ \E j \in Jobs :
          \/ Submit(j) \/ Reject(j) \/ Begin(j) \/ Ignore(j)
          \/ Disturb(j) \/ Succeed(j) \/ Fail(j) \/ FailureHandled(j)
    \/ Stop
    \/ Down

Spec == Init /\ [][Next]_vars
===============================================================================
