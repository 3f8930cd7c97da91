-------------------------------- MODULE Relay --------------------------------
(***************************************************************************)
(* A relay on an output pin, switched by cloud functions, with a run time  *)
(* after which the loop switches it off.  The clock is the age of the last *)
(* switching on; a relay that is switched on in the very millisecond in    *)
(* which millis() is 0 has startTime 0, which also means "not running".    *)
(* The age does not wrap: a run time of 2^32 milliseconds or more, and a   *)
(* negative one, are outside the model.                                    *)
(***************************************************************************)
EXTENDS Integers

CONSTANTS
  MaxRun,       \* bound on run times and ages, in seconds
  MaxCommands   \* bound on the commands of an operator

ASSUME RelayAssumption == MaxRun \in Nat /\ MaxCommands \in Nat

VARIABLES
  pin,       \* the level of the pin
  invert,
  isOn,
  runTime,   \* 0: until it is switched off
  started,   \* startTime # 0
  age,       \* seconds since startTime
  commands,  \* how many commands were given
  inverted   \* history: setInvert was used since the relay was last switched

relayVars == <<pin, invert, isOn, runTime, started, age, commands, inverted>>

PowOn == ~invert
PowOff == invert

\* Slip: the run time is left behind.
RelayOffKeepsRun ==
  /\ pin' = PowOff
  /\ isOn' = FALSE
  /\ started' = FALSE
  /\ inverted' = FALSE
  /\ UNCHANGED <<invert, runTime, age>>

\* off.
RelayOff ==
  /\ pin' = PowOff
  /\ isOn' = FALSE
  /\ started' = FALSE
  /\ runTime' = 0
  /\ inverted' = FALSE
  /\ UNCHANGED <<invert, age>>

\* on; one millisecond in 2^32 gives a startTime of 0.
RelayOn ==
  /\ pin' = PowOn
  /\ isOn' = TRUE
  /\ started' \in BOOLEAN
  /\ age' = 0
  /\ inverted' = FALSE
  /\ UNCHANGED invert

Command ==
  /\ commands < MaxCommands
  /\ commands' = commands + 1

TurnOn ==
  /\ Command
  /\ \E seconds \in 0 .. MaxRun : runTime' = seconds
  /\ RelayOn

TurnOff == Command /\ RelayOff

\* toggle: on for as long as the last run time says.
Toggle ==
  /\ Command
  /\ IF isOn THEN RelayOff ELSE RelayOn /\ UNCHANGED runTime

\* init: the outputs for the wiring, and the pin is released.
RelayInit(inversion) ==
  /\ invert' = inversion
  /\ pin' = inversion

\* setInvert runs init again and leaves isOn and the timer as they are.
SetInvert ==
  /\ Command
  /\ \E inversion \in BOOLEAN : RelayInit(inversion)
  /\ inverted' = TRUE
  /\ UNCHANGED <<isOn, runTime, started, age>>

\* Slip: the run time has to be exceeded within the second.
ExpiredAtOnce == isOn /\ runTime # 0 /\ started /\ age = runTime + 1

\* shouldToggleOff.
Expired == isOn /\ runTime # 0 /\ started /\ age >= runTime

RelayLoop == Expired /\ RelayOff /\ UNCHANGED commands

\* A second goes by; the age is kept up to the bound.
RelayTick ==
  /\ isOn
  /\ age <= MaxRun
  /\ age' = age + 1
  /\ UNCHANGED <<pin, invert, isOn, runTime, started, commands, inverted>>

RelayRestart ==
  /\ RelayInit(FALSE)
  /\ isOn' = FALSE
  /\ runTime' = 0
  /\ started' = FALSE
  /\ age' = 0
  /\ inverted' = FALSE
  /\ UNCHANGED commands

RelayFresh ==
  /\ pin = FALSE
  /\ invert = FALSE
  /\ isOn = FALSE
  /\ runTime = 0
  /\ started = FALSE
  /\ age = 0
  /\ commands = 0
  /\ inverted = FALSE

-----------------------------------------------------------------------------
(* Properties *)

RelayTypeOK ==
  /\ pin \in BOOLEAN /\ invert \in BOOLEAN /\ isOn \in BOOLEAN
  /\ runTime \in 0 .. MaxRun
  /\ started \in BOOLEAN
  /\ age \in 0 .. MaxRun + 1
  /\ commands \in 0 .. MaxCommands
  /\ inverted \in BOOLEAN

\* The state that is reported to the cloud is the state of the pin, and what
\* is off has no run time left over; excepted is a relay whose wiring was
\* inverted since it was last switched, whose pin setInvert releases while
\* isOn stays (setInvert, init).
RelayReportsPin ==
  /\ ~inverted => (isOn <=> pin = PowOn)
  /\ inverted => pin = PowOff
  /\ ~isOn => runTime = 0

\* A relay that was switched on for a time goes off, or is switched on without
\* one, however late the loop looks at it; excepted is a startTime of 0.
TimedRelayGoesOff == (isOn /\ runTime # 0 /\ started) ~> (~isOn \/ runTime = 0 \/ ~started)
=============================================================================
