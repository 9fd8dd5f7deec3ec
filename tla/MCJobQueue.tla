------------------------------ MODULE MCJobQueue ------------------------------
(***************************************************************************)
(* TLC instance of JobQueue: two workers share the fast channel, which     *)
(* holds one job as in memory_test.go, so that jobs overtake each other    *)
(* and a caller blocks.  One of the two jobs has no handler.               *)
(***************************************************************************)
EXTENDS JobQueue, TLC

CONSTANTS f1, f2, wf1, wf2

MCJobs == {f1, f2}
MCWorkers == {wf1, wf2}
MCNone == {}
===============================================================================
