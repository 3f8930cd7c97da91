---------------------------- MODULE OfflineQueue ----------------------------
(***************************************************************************)
(* What the payload store is for: a record that was accepted while the     *)
(* board was offline waits until it is delivered.  A fault of the hardware *)
(* may drop a waiting record or make a delivered one wait again; nothing   *)
(* else may.                                                               *)
(***************************************************************************)
EXTENDS FiniteSets

CONSTANT Records

VARIABLES
  waiting,    \* accepted and not delivered since
  delivered   \* delivered at least once

Init == waiting = {} /\ delivered = {}

Accept(r) ==
  /\ r \in Records \ (waiting \union delivered)
  /\ waiting' = waiting \union {r}
  /\ UNCHANGED delivered

Deliver(r) ==
  /\ r \in waiting
  /\ waiting' = waiting \ {r}
  /\ delivered' = delivered \union {r}

Next == \E r \in Records : Accept(r) \/ Deliver(r)

Spec == Init /\ [][Next]_<<waiting, delivered>>
=============================================================================
