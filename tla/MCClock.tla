------------------------------- MODULE MCClock -------------------------------
(***************************************************************************)
(* Clock for TLC: a build with a timestamp and one without, an interval of *)
(* two ticks, an answer that may be one tick old, two restarts.            *)
(***************************************************************************)
EXTENDS Clock
=============================================================================
