--------------------------- MODULE MCDeviceInventory ---------------------------
(***************************************************************************)
(* TLC instances of DeviceInventory: devices of one organization, the      *)
(* consumer of their events and one synchronisation.                       *)
(***************************************************************************)
EXTENDS DeviceInventory
===============================================================================
