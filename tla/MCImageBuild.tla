----------------------------- MODULE MCImageBuild -----------------------------
(***************************************************************************)
(* The TLC instance of ImageBuild: an image with two attempts, the one     *)
(* that creates it and one more.                                           *)
(***************************************************************************)
EXTENDS ImageBuild, TLC

CONSTANTS i1, a1, a2

MCImages == {i1}
MCAttempts == {a1, a2}
MCImageOf == [a \in MCAttempts |-> i1]
MCFirstAttempt == [i \in MCImages |-> a1]
MCRetryable == {"ERROR"}
===============================================================================
