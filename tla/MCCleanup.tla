------------------------------- MODULE MCCleanup -------------------------------
(***************************************************************************)
(* TLC instance of Cleanup: an image with an installer and one without,    *)
(* in one set; a device with an update to the first, and an old update     *)
(* that its dispatch record links to it.                                   *)
(***************************************************************************)
EXTENDS Cleanup

CONSTANTS i1, i2, s1, d1, u1, u2

MCSetOf == [i \in Images |-> s1]
MCCommitOf == [u \in Updates |-> IF u = u1 THEN i1 ELSE i2]
MCDeviceOf == [u \in Updates |-> d1]
===============================================================================
