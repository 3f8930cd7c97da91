------------------------------ MODULE Watchdog ------------------------------
(***************************************************************************)
(* The feeder of the external hardware watchdog.  A task of its own reads  *)
(* the clock and the stamps that the main loop leaves, and pulses the pin  *)
(* while they are fresh; the watchdog chip resets a board that it has not  *)
(* seen a pulse of for HwWindow.                                           *)
(*                                                                         *)
(* Time passes in ticks, and every stamp is a reading of millis(), which   *)
(* wraps.  The ages of what the stamps stand for are kept beside them as   *)
(* history, so that the wrapped arithmetic can be held against real time.  *)
(***************************************************************************)
EXTENDS Integers

CONSTANTS
  Wrap,          \* millis() counts modulo Wrap
  Liveness,      \* _livenessTimeoutMs
  Grace,         \* _bootGraceMs
  Productivity,  \* the values _productivityTimeoutMs may be built with, 0: off
  Period,        \* _periodTicks
  HwWindow,      \* external: how long the chip waits for a pulse
  MaxBarren      \* bound: saturation of the age of the last publication

ASSUME WatchdogAssumption ==
  /\ {Liveness, Grace, Period, HwWindow} \subseteq Nat \ {0}
  /\ Liveness > 1
  /\ Productivity \subseteq Nat
  /\ MaxBarren \in Nat
  /\ MaxBarren > Grace + HwWindow
  /\ Wrap \in Nat
  /\ Wrap > Liveness + HwWindow + 1
  /\ Wrap > Grace + HwWindow + 1
  /\ \A p \in Productivity \ {0} : /\ p >= Grace + HwWindow
                                   /\ Wrap > p + HwWindow + 1
                                   /\ MaxBarren > p + HwWindow

Stamps == 0 .. Wrap - 1

VARIABLES
  clock,         \* millis()
  armed, lastHeartbeat, graceStart, lastProductive,
  productivity,  \* _productivityTimeoutMs of this build
  main,          \* the main task: in setup(), inside start(), in loop()
  feeder,        \* the feeder task: asleep, or between its reads
  inArmed, inNow,\* in.armed and in.now of the feeder
  due,           \* ticks until the feeder wakes
  unfed,         \* external: ticks since the chip saw a pulse
  silent,        \* history: ticks since the main task last left a stamp
  booting,       \* history: ticks since automatic()
  barren,        \* history: ticks since the last publication
  fresh,         \* history: a stamp was left after the feeder read the clock
  reasons,       \* history: why pulses were late or skipped since the last one
  races          \* history: how many were for a fresh stamp only

stamps == <<armed, lastHeartbeat, graceStart, lastProductive>>
feederVars == <<feeder, inArmed, inNow, due>>
ages == <<silent, booting, barren>>
skips == <<reasons, races>>
vars == <<clock, stamps, productivity, main, feederVars, unfed, ages, fresh, skips>>

Excuses == {"silent", "boot", "barren", "restart"}
Reasons == Excuses \union {"race", "none"}

TypeOK ==
  /\ {clock, lastHeartbeat, graceStart, lastProductive, inNow} \subseteq Stamps
  /\ armed \in BOOLEAN
  /\ inArmed \in BOOLEAN
  /\ productivity \in Productivity
  /\ main \in {"setup", "start", "loop"}
  /\ feeder \in {"asleep", "decide"}
  /\ due \in 0 .. Period
  /\ unfed \in 0 .. HwWindow
  /\ silent \in Nat
  /\ booting \in 0 .. MaxBarren
  /\ barren \in 0 .. MaxBarren
  /\ fresh \in BOOLEAN
  /\ reasons \subseteq Reasons
  /\ races \in 0 .. HwWindow

\* Power-on: setup() has called automatic(), millis() is near zero.
Init ==
  /\ clock = 0
  /\ armed = FALSE
  /\ lastHeartbeat = 0
  /\ graceStart = 0
  /\ lastProductive = 0
  /\ main = "setup"
  /\ feeder = "asleep"
  /\ inArmed = FALSE
  /\ inNow = 0
  /\ due = 0
  /\ silent = 0
  /\ booting = 0
  /\ barren = 0
  /\ fresh = FALSE
  /\ reasons = {}
  /\ races = 0
  /\ unfed = 0
  /\ productivity \in Productivity

\* The same after a reset, but for what the chip knows.
Boots ==
  /\ clock' = 0
  /\ armed' = FALSE
  /\ lastHeartbeat' = 0
  /\ graceStart' = 0
  /\ lastProductive' = 0
  /\ main' = "setup"
  /\ feeder' = "asleep"
  /\ inArmed' = FALSE
  /\ inNow' = 0
  /\ due' = 0
  /\ silent' = 0
  /\ booting' = 0
  /\ barren' = 0
  /\ fresh' = FALSE
  /\ races' = 0
  /\ UNCHANGED productivity

-----------------------------------------------------------------------------
(* The policy (timing.h, watchdog_policy.h) *)

Elapsed(since, now) == (now - since) % Wrap

\* Slip: a sum that wraps.
TimedOutBySum(since, now, limit) == now >= since + limit

TimedOut(since, now, limit) == Elapsed(since, now) >= limit

ShouldFeed ==
  IF inArmed
  THEN /\ ~TimedOut(lastHeartbeat, inNow, Liveness)
       /\ productivity # 0 => ~TimedOut(lastProductive, inNow, productivity)
  ELSE ~TimedOut(graceStart, inNow, Grace)

-----------------------------------------------------------------------------
(* The main task *)

\* Slip: start() does not seed the heartbeat.
SeedNothing ==
  /\ main = "setup"
  /\ main' = "start"
  /\ silent' = 0
  /\ UNCHANGED <<clock, stamps, productivity, feederVars, unfed, booting, barren, fresh, skips>>

\* start() seeds the heartbeat first ...
Seed ==
  /\ main = "setup"
  /\ main' = "start"
  /\ lastHeartbeat' = clock
  /\ silent' = 0
  /\ fresh' = TRUE
  /\ UNCHANGED <<clock, armed, graceStart, lastProductive, productivity,
                 feederVars, unfed, booting, barren, skips>>

\* ... and arms the gating then.
Arm ==
  /\ main = "start"
  /\ main' = "loop"
  /\ armed' = TRUE
  /\ UNCHANGED <<clock, lastHeartbeat, graceStart, lastProductive, productivity,
                 feederVars, unfed, ages, fresh, skips>>

\* Slip: a stamp ahead of the clock.
HeartbeatAhead ==
  /\ main = "loop"
  /\ lastHeartbeat' = clock + 1
  /\ silent' = 0
  /\ fresh' = TRUE
  /\ UNCHANGED <<clock, armed, graceStart, lastProductive, productivity, main,
                 feederVars, unfed, booting, barren, skips>>

\* loop() of the main loop, heartbeat() of an OTA download.
Heartbeat ==
  /\ main = "loop"
  /\ lastHeartbeat' = clock
  /\ silent' = 0
  /\ fresh' = TRUE
  /\ UNCHANGED <<clock, armed, graceStart, lastProductive, productivity, main,
                 feederVars, unfed, booting, barren, skips>>

\* productive(), after a publication.
Productive ==
  /\ main = "loop"
  /\ lastProductive' = clock
  /\ barren' = 0
  /\ fresh' = TRUE
  /\ UNCHANGED <<clock, armed, lastHeartbeat, graceStart, productivity, main,
                 feederVars, unfed, silent, booting, skips>>

-----------------------------------------------------------------------------
(* The feeder task *)

\* It wakes and reads _armed and the clock ...
FeederReads ==
  /\ feeder = "asleep"
  /\ due = 0
  /\ feeder' = "decide"
  /\ inArmed' = armed
  /\ inNow' = clock
  /\ fresh' = FALSE
  /\ UNCHANGED <<clock, stamps, productivity, main, due, unfed, ages, skips>>

\* What the real ages say of a pulse that is not given.
SkipReason ==
  LET real == (IF inArmed /\ silent >= Liveness THEN {"silent"} ELSE {})
        \union (IF ~inArmed /\ booting >= Grace THEN {"boot"} ELSE {})
        \union (IF inArmed /\ productivity # 0 /\ barren >= productivity
                THEN {"barren"} ELSE {})
  IN IF real # {} THEN real ELSE IF fresh THEN {"race"} ELSE {"none"}

\* Slip: after a skip it sleeps twice.
FeederDecidesLazily ==
  /\ feeder = "decide"
  /\ feeder' = "asleep"
  /\ IF ShouldFeed
     THEN unfed' = 0 /\ reasons' = {} /\ races' = 0 /\ due' = Period
     ELSE /\ reasons' = reasons \union SkipReason
          /\ races' = races + (IF SkipReason = {"race"} THEN 1 ELSE 0)
          /\ due' = 2 * Period
          /\ UNCHANGED unfed
  /\ UNCHANGED <<clock, stamps, productivity, main, inArmed, inNow, ages, fresh>>

\* ... and then the stamps, which may be newer; it pulses or not and sleeps.
FeederDecides ==
  /\ feeder = "decide"
  /\ feeder' = "asleep"
  /\ due' = Period
  /\ IF ShouldFeed
     THEN unfed' = 0 /\ reasons' = {} /\ races' = 0
     ELSE /\ reasons' = reasons \union SkipReason
          /\ races' = races + (IF SkipReason = {"race"} THEN 1 ELSE 0)
          /\ UNCHANGED unfed
  /\ UNCHANGED <<clock, stamps, productivity, main, inArmed, inNow, ages, fresh>>

-----------------------------------------------------------------------------
(* Time and the chip *)

Older(age) == IF age < MaxBarren THEN age + 1 ELSE age

\* The scheduler wakes the feeder in time: it shares core 1 with the loop task
\* at the same priority.  One tick may pass between its reads, and one inside
\* start().
Tick ==
  /\ unfed < HwWindow
  /\ main = "start" => silent = 0
  /\ \/ feeder = "asleep" /\ due > 0 /\ due' = due - 1
     \/ feeder = "decide" /\ inNow = clock /\ UNCHANGED due
  /\ clock' = (clock + 1) % Wrap
  /\ unfed' = unfed + 1
  /\ silent' = silent + 1
  /\ booting' = Older(booting)
  /\ barren' = Older(barren)
  /\ UNCHANGED <<stamps, productivity, main, feeder, inArmed, inNow, fresh, skips>>

ChipResets ==
  /\ unfed = HwWindow
  /\ Boots
  /\ unfed' = 0
  /\ reasons' = {}

\* Hyphen.reset, a reboot request, an update: the chip does not notice.
SoftwareReset ==
  /\ main = "loop"
  /\ unfed < HwWindow
  /\ Boots
  /\ reasons' = reasons \union {"restart"}
  /\ UNCHANGED unfed

-----------------------------------------------------------------------------
Next ==
  \/ Seed
  \/ Arm
  \/ Heartbeat
  \/ Productive
  \/ FeederReads
  \/ FeederDecides
  \/ Tick
  \/ ChipResets
  \/ SoftwareReset

Spec == Init /\ [][Next]_vars

-----------------------------------------------------------------------------
(* Properties *)

\* "Never hang": whatever the main task does or stops doing, and wherever
\* millis() wraps meanwhile, the board does not stay for longer than a timeout
\* and one window of the chip in a loop that leaves no stamp, in a start-up, or
\* (where the backstop is built in) without a publication.
HangIsBounded ==
  /\ armed => silent <= Liveness + HwWindow
  /\ ~armed => booting <= Grace + HwWindow
  /\ armed /\ productivity # 0 => barren <= productivity + HwWindow

\* The feeder skips a pulse for what a timeout is there for, or because a stamp
\* was left between its two reads, which then lies in the future of in.now and
\* looks ages old; a start() on the way from grace to gating is no such reason.
SkipsAreExplained == "none" \notin reasons

\* One such race does not reset a healthy board: the chip's window outlasts the
\* pulse it costs (here HwWindow > 2 * (Period + 1)), unless the board happens
\* to restart in the same window.
OneRaceIsHarmless ==
  [][ChipResets => reasons \intersect Excuses # {} \/ races > 1]_vars
=============================================================================
