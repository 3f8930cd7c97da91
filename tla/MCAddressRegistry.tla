------------------------- MODULE MCAddressRegistry -------------------------
(* A table of two, four names: two that machineName reduces to one number,   *)
(* two more, all of one size, so that a table overflows and a configuration  *)
(* can be mistaken for another's.                                            *)
EXTENDS AddressRegistry

CONSTANTS soil12, soil21, flow, level

MCNames == {soil12, soil21, flow, level}
MCMachineName == [n \in MCNames |-> CASE n = flow -> 1 [] n = level -> 2 [] OTHER -> 3]
MCSizeOf == [n \in MCNames |-> 1]
=============================================================================
