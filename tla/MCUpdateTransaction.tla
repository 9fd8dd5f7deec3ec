------------------------- MODULE MCUpdateTransaction -------------------------
(***************************************************************************)
(* TLC instances of UpdateTransaction.  In the first, two requests update  *)
(* one device to two commits at the same time.  In the second a group is   *)
(* updated by one request: a connected device, a disconnected one, and one *)
(* that runs the commit already.                                           *)
(***************************************************************************)
EXTENDS UpdateTransaction, TLC

CONSTANTS c0, c1, c2, r1, r2, d1, d2, d3, u1, u2, u3

MCCommits == {c0, c1, c2}

MCPairUpdates == {u1, u2}
MCPairRequests == {r1, r2}
MCPairDevices == {d1}
MCPairFirstCommit == [d \in MCPairDevices |-> c0]
MCPairRequestOf == (u1 :> r1) @@ (u2 :> r2)
MCPairDeviceOf == [u \in MCPairUpdates |-> d1]
MCPairCommitOf == (r1 :> c1) @@ (r2 :> c2)

MCGroupUpdates == {u1, u2, u3}
MCGroupRequests == {r1}
MCGroupDevices == {d1, d2, d3}
MCGroupDisconnected == {d2}
MCGroupFirstCommit == (d1 :> c0) @@ (d2 :> c0) @@ (d3 :> c1)
MCGroupRequestOf == [u \in MCGroupUpdates |-> r1]
MCGroupDeviceOf == (u1 :> d1) @@ (u2 :> d2) @@ (u3 :> d3)
MCGroupCommitOf == [r \in MCGroupRequests |-> c1]

MCNone == {}

\* The two requests of the pair, each with its update and its commit, are alike.
MCPairSymmetry == {(u1 :> u2) @@ (u2 :> u1) @@ (r1 :> r2) @@ (r2 :> r1)
                   @@ (c1 :> c2) @@ (c2 :> c1)}
===============================================================================
