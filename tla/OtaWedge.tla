------------------------------ MODULE OtaWedge ------------------------------
(***************************************************************************)
(* An update beside the watchdog: a read or a write of the download that   *)
(* never returns.  The stamp of the watchdog is left by the main loop at   *)
(* every pass, by the task at every pass of the download; the chip resets  *)
(* a board that leaves none for too long.                                  *)
(***************************************************************************)
EXTENDS Ota

CONSTANT Liveness  \* ticks without a stamp until the chip resets the board

VARIABLE silent    \* ticks since the last stamp

InitWedge == Init /\ silent = 0

\* A call of the download blocks for good.
Wedges(t) ==
  /\ pc[t] = "download"
  /\ Goes(t, "wedged")
  /\ UNCHANGED <<mailVars, running, reportVars, local, netVars, flash, debt, torn, silent>>

\* loop() of main.cpp stamps before it looks whether an update runs.
MainLoop == silent' = 0 /\ UNCHANGED vars

Tick ==
  /\ silent < Liveness
  /\ silent' = silent + 1
  /\ UNCHANGED vars

ChipResets ==
  /\ silent = Liveness
  /\ silent' = 0
  /\ Restart
  /\ UNCHANGED torn

UpdateStep ==
  /\ Next
  /\ silent' = IF \E t \in Tasks : pc[t] = "download" /\ local'[t] # local[t] THEN 0 ELSE silent

NextWedge ==
  \/ UpdateStep
  \/ \E t \in Tasks : Wedges(t)
  \/ MainLoop
  \/ Tick
  \/ ChipResets

\* The main loop keeps running, at its own priority, while the task is blocked;
\* time passes, and the chip does what it is there for.
FairnessWedge ==
  /\ WF_<<vars, silent>>(MainLoop)
  /\ WF_<<vars, silent>>(Tick)
  /\ WF_<<vars, silent>>(ChipResets)

SpecWedge == InitWedge /\ [][NextWedge]_<<vars, silent>> /\ FairnessWedge

Wedged == \E t \in Tasks : pc[t] = "wedged"

-----------------------------------------------------------------------------
\* "an OTA that keeps making progress stays alive, but one that truly wedges
\* stops heartbeating and the hardware watchdog resets the board": the comment
\* takes the download to own the main loop, but it is in a task of its own.
WedgeIsReset == Wedged ~> ~Wedged
=============================================================================
