----------------------------- MODULE MCWatchdog -----------------------------
(* Ticks of half a feeder period.  Every timeout is longer than a period and *)
(* shorter than the clock's range, which a healthy board passes many times.  *)
EXTENDS Watchdog
=============================================================================
