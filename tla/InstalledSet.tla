---------------------------- MODULE InstalledSet ----------------------------
(***************************************************************************)
(* What the device registry promises an operator: the board keeps a set of *)
(* configured devices, and each request adds one device or removes one     *)
(* device.  A power cut loses nothing and does nothing by halves.          *)
(***************************************************************************)
CONSTANT Devices

VARIABLE installed

Init == installed = {}

Add(v) ==
  /\ v \in Devices \ installed
  /\ installed' = installed \union {v}

Remove(v) ==
  /\ v \in installed
  /\ installed' = installed \ {v}

Next == \E v \in Devices : Add(v) \/ Remove(v)

Spec == Init /\ [][Next]_installed
=============================================================================
