------------------------------ MODULE MCDevices ------------------------------
(***************************************************************************)
(* FieldDevices for TLC: small windows, short ages, few requests.          *)
(***************************************************************************)
EXTENDS FieldDevices

MCKinds == {"wl", "sdi", "flow", "accel", "relay", "video", "ipcam", "tunnel", "soil", "settings"}
WlOnly == {"wl"}
MCOffsets == {-1, 1, 2, 3, 5, 7}
MCParam == [s \in 1 .. Sensors |-> IF s = 1 THEN "median" ELSE "sum"]
MCNoValue == -1
MCZones == {-12, 12}
MCLowPowers == {-1, 0, 15}
=============================================================================
