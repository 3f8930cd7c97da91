------------------------------ MODULE FlowMeter ------------------------------
(***************************************************************************)
(* The flow meter counts pulses in an interrupt handler.  Once a second    *)
(* the loop turns the count into a volume with the interrupt detached, or, *)
(* when there were too many pulses to be true, throws the count away with  *)
(* the interrupt attached.  The running total is stored with every         *)
(* publication.  A tick is a second; a step of the loop may be late.       *)
(***************************************************************************)
EXTENDS Integers

CONSTANTS
  PulseMod,     \* pulseCount is a byte: 256
  Disconnect,   \* the count that is taken for a broken wire
  Unit,         \* volume of a pulse per second, divisible by 1 .. MaxLag
  Difference,   \* calibrationDifference, as a volume
  MaxLag,       \* bound on how late the loop is, in seconds
  MaxPulses,    \* bound on the pulses
  Junk          \* what a storage nobody has written holds for the total

ASSUME FlowAssumption ==
  /\ PulseMod \in Nat \ {0} /\ Disconnect \in 1 .. PulseMod - 1
  /\ Unit \in Nat /\ Difference \in Nat
  /\ MaxLag \in Nat \ {0}
  /\ MaxPulses \in Nat
  /\ Junk \in Nat

VARIABLES
  pulseCount, attached,
  elapsed,       \* seconds since lastTime
  step,          \* of processRead: "idle", "discard" or "count"
  currentFlow, total,
  flash,         \* the stored structure: version and total
  arrived,       \* history: pulses of the sensor
  counted,       \* history: pulses turned into volume
  missed,        \* history: pulses that came while nobody listened
  thrown,        \* history: pulses thrown away as a broken wire's
  reported,      \* history: the total last published or cleared
  blind          \* history: a calibration was stored over a total nobody wrote

flowVars == <<pulseCount, attached, elapsed, step, currentFlow, total, flash,
              arrived, counted, missed, thrown, reported, blind>>

\* pulseCounter, the interrupt handler; a pulse while it is detached is lost.
Pulse ==
  /\ arrived < MaxPulses
  /\ arrived' = arrived + 1
  /\ IF attached
     THEN /\ pulseCount' = (pulseCount + 1) % PulseMod
          /\ missed' = missed + (IF pulseCount = PulseMod - 1 THEN PulseMod ELSE 0)
     ELSE missed' = missed + 1 /\ UNCHANGED pulseCount
  /\ UNCHANGED <<attached, elapsed, step, currentFlow, total, flash, counted, thrown, reported, blind>>

FlowTick ==
  /\ step = "idle"
  /\ elapsed < MaxLag
  /\ elapsed' = elapsed + 1
  /\ UNCHANGED <<pulseCount, attached, step, currentFlow, total, flash, arrived, counted,
                 missed, thrown, reported, blind>>

\* processRead: too many pulses, or the interrupt is detached.
ProcessRead ==
  /\ step = "idle"
  /\ elapsed >= 1
  /\ IF pulseCount >= Disconnect
     THEN step' = "discard" /\ UNCHANGED attached
     ELSE step' = "count" /\ attached' = FALSE
  /\ UNCHANGED <<pulseCount, elapsed, currentFlow, total, flash, arrived, counted, missed,
                 thrown, reported, blind>>

\* The count is logged and cleared while pulses go on coming.
Discard ==
  /\ step = "discard"
  /\ thrown' = thrown + pulseCount
  /\ pulseCount' = 0
  /\ elapsed' = 0
  /\ step' = "idle"
  /\ UNCHANGED <<attached, currentFlow, total, flash, arrived, counted, missed, reported, blind>>

\* The volume of a second at the rate of the time that has passed.
Volume(pulses, seconds) ==
  IF pulses = 0 THEN 0 ELSE (Unit * pulses) \div seconds + Difference

\* Slip: the count goes on into the next second.
CountKeepsPulses ==
  /\ step = "count"
  /\ currentFlow' = currentFlow + Volume(pulseCount, elapsed)
  /\ total' = total + Volume(pulseCount, elapsed)
  /\ counted' = counted + pulseCount
  /\ attached' = TRUE
  /\ elapsed' = 0
  /\ step' = "idle"
  /\ UNCHANGED <<pulseCount, flash, arrived, missed, thrown, reported, blind>>

Count ==
  /\ step = "count"
  /\ currentFlow' = currentFlow + Volume(pulseCount, elapsed)
  /\ total' = total + Volume(pulseCount, elapsed)
  /\ counted' = counted + pulseCount
  /\ pulseCount' = 0
  /\ attached' = TRUE
  /\ elapsed' = 0
  /\ step' = "idle"
  /\ UNCHANGED <<flash, arrived, missed, thrown, reported, blind>>

\* setFlow: nothing is written when the stored total is the same.
SetFlow == flash' = IF flash.total = total THEN flash ELSE [version |-> 1, total |-> total]

\* publish, then the manager's clear.
FlowPublish ==
  /\ step = "idle"
  /\ SetFlow
  /\ reported' = total
  /\ UNCHANGED <<pulseCount, attached, elapsed, step, total, arrived, counted, missed, thrown, blind>>

FlowClear == currentFlow' = 0

\* clearTotalCount.
ClearTotal ==
  /\ step = "idle"
  /\ flash' = [version |-> 1, total |-> 0]
  /\ total' = 0
  /\ reported' = 0
  /\ UNCHANGED <<pulseCount, attached, elapsed, step, currentFlow, arrived, counted, missed, thrown, blind>>

\* setCalibrationFactor and setCalibrationDifference: the structure is read,
\* whatever it holds, and written back as valid.
Calibrate ==
  /\ step = "idle"
  /\ flash' = [flash EXCEPT !.version = 1]
  /\ blind' = (blind \/ flash.version # 1)
  /\ UNCHANGED <<pulseCount, attached, elapsed, step, currentFlow, total, arrived, counted,
                 missed, thrown, reported>>

\* The constructor and init.
FlowRestart ==
  /\ total' = IF flash.version = 1 THEN flash.total ELSE 0
  /\ reported' = total'
  /\ pulseCount' = 0
  /\ missed' = missed + pulseCount
  /\ attached' = TRUE
  /\ elapsed' = 0
  /\ step' = "idle"
  /\ currentFlow' = 0
  /\ UNCHANGED <<flash, arrived, counted, thrown, blind>>

FlowFresh ==
  /\ pulseCount = 0 /\ attached = TRUE /\ elapsed = 0 /\ step = "idle"
  /\ currentFlow = 0 /\ total = 0
  /\ flash = [version |-> 0, total |-> Junk]
  /\ arrived = 0 /\ counted = 0 /\ missed = 0 /\ thrown = 0 /\ reported = 0
  /\ blind = FALSE

FlowStep == ProcessRead \/ Discard \/ Count

-----------------------------------------------------------------------------
(* Properties *)

FlowTypeOK ==
  /\ pulseCount \in 0 .. PulseMod - 1
  /\ attached \in BOOLEAN
  /\ elapsed \in 0 .. MaxLag
  /\ step \in {"idle", "discard", "count"}
  /\ currentFlow \in Nat /\ total \in Nat
  /\ flash \in [version : {0, 1}, total : Nat]
  /\ arrived \in 0 .. MaxPulses
  /\ counted \in Nat /\ missed \in Nat /\ thrown \in Nat
  /\ reported \in Nat /\ blind \in BOOLEAN

\* Every pulse is counted once, or waits, or was lost in a way the code has:
\* while the interrupt was detached, by a wrap of the byte, by a restart, or
\* as a broken wire's; the handler runs between any two steps of processRead.
PulsesCountedOnce == arrived = counted + pulseCount + missed + thrown

\* The total that a restart loads is the one last published, unless it was
\* cleared since: a total that is the same is not written (setFlow), be it that
\* of a storage nobody has written.  Excepted is a calibration stored before the
\* first total.
RestartKeepsReported ==
  ~blind => IF flash.version = 1 THEN flash.total = reported ELSE reported \in {0, Junk}
=============================================================================
