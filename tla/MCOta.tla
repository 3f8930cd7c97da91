------------------------------- MODULE MCOta -------------------------------
(* One build and one message that is refused, two tasks, an image of one    *)
(* buffer.  Messages, cuts and changes of the network come without a bound.  *)
EXTENDS Ota
=============================================================================
