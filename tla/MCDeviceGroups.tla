----------------------------- MODULE MCDeviceGroups -----------------------------
(***************************************************************************)
(* TLC instance of DeviceGroups: requests, names, devices and image sets   *)
(* can be exchanged for others of their kind.                              *)
(***************************************************************************)
EXTENDS DeviceGroups, TLC

Symmetry ==
    Permutations(Requests) \cup Permutations(Names) \cup Permutations(Devices)
        \cup Permutations(Sets)
===============================================================================
