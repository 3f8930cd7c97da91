-------------------------- MODULE MCDeviceRegistry --------------------------
(* Three slots, four devices of two kinds, one kind limited to two: removal  *)
(* at the head, in the middle and at the end, a full table, a full kind, and *)
(* every cut between two writes.                                             *)
EXTENDS DeviceRegistry

CONSTANTS rain1, rain2, rain3, relay1, rain_gauge, relay

MCDevices == {rain1, rain2, rain3, relay1}
MCKinds == {rain_gauge, relay}
MCKindOf == [v \in MCDevices |-> IF v = relay1 THEN relay ELSE rain_gauge]
MCLimit == [k \in MCKinds |-> IF k = relay THEN 3 ELSE 1]
=============================================================================
