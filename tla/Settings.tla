------------------------------- MODULE Settings -------------------------------
(***************************************************************************)
(* The board's own settings: Bootstrap keeps them in fields and, as one    *)
(* structure, in storage.  A cloud function changes one field and reads,   *)
(* changes and writes the structure; a start loads it.                     *)
(***************************************************************************)
EXTENDS Integers

CONSTANTS
  Intervals,    \* publication intervals an operator sends, of 1 .. 15 minutes
  Zones,        \* time zones an operator sends, of -12 .. 12
  DefaultZone,  \* TIMEZONE
  LowPowers     \* low-power modes an operator sends; 0 is the default

ASSUME SettingsAssumption ==
  /\ Intervals \subseteq 1 .. 15
  /\ Zones \subseteq -12 .. 12 /\ DefaultZone \in -12 .. 12
  /\ LowPowers \subseteq Int

VARIABLES
  pub,        \* publicationIntervalInMinutes, and the period of both timers
  zone,       \* localTimezone
  lowPower,   \* lowPowerMode
  maintained, \* maintenaceMode
  config,     \* EpromStruct in storage
  defaulted   \* history: restoreDefaults has run since the zone was set or loaded

settingsVars == <<pub, zone, lowPower, maintained, config, defaulted>>

DefaultPub == 1
Defaults(low) == [version |-> 1, pub |-> DefaultPub, zone |-> DefaultZone, low |-> low]

\* getsavedConfig
SavedConfig(low) == IF config.version = 1 THEN config ELSE Defaults(low)

\* buildSendInterval: timers and structure.
BuildSendInterval(interval) ==
  /\ pub' = interval
  /\ config' = [SavedConfig(lowPower) EXCEPT !.pub = interval]
  /\ UNCHANGED <<zone, lowPower, maintained, defaulted>>

\* Slip: the structure is built from the defaults.
SetTimeZoneOverDefaults ==
  \E val \in Zones :
    /\ zone' = val
    /\ config' = [Defaults(lowPower) EXCEPT !.zone = val]
    /\ defaulted' = FALSE
    /\ UNCHANGED <<pub, lowPower, maintained>>

\* setTimeZone
SetTimeZone ==
  \E val \in Zones :
    /\ zone' = val
    /\ config' = [SavedConfig(lowPower) EXCEPT !.zone = val]
    /\ defaulted' = FALSE
    /\ UNCHANGED <<pub, lowPower, maintained>>

\* setLowPowerMode
SetLowPower ==
  \E val \in LowPowers :
    /\ lowPower' = val
    /\ config' = [SavedConfig(lowPower) EXCEPT !.low = val]
    /\ UNCHANGED <<pub, zone, maintained, defaulted>>

SetMaintenanceMode ==
  /\ maintained' \in BOOLEAN
  /\ UNCHANGED <<pub, zone, lowPower, config, defaulted>>

\* Bootstrap::restoreDefaults keeps the low-power mode, and the zone in use.
RestoreDefaults ==
  /\ pub' = DefaultPub
  /\ config' = Defaults(lowPower)
  /\ defaulted' = TRUE
  /\ UNCHANGED <<zone, lowPower, maintained>>

\* bootstrap
SettingsRestart ==
  LET values == SavedConfig(0)
  IN  /\ pub' = values.pub
      /\ config' = values
      /\ zone' = values.zone
      /\ lowPower' = values.low
      /\ maintained' = FALSE
      /\ defaulted' = FALSE

SettingsFresh ==
  /\ pub = DefaultPub
  /\ zone = DefaultZone
  /\ lowPower = 0
  /\ maintained = FALSE
  /\ config = Defaults(0)
  /\ defaulted = FALSE

-----------------------------------------------------------------------------
(* Properties *)

SettingsTypeOK ==
  /\ pub \in {DefaultPub} \cup Intervals
  /\ zone \in {DefaultZone} \cup Zones
  /\ lowPower \in {0} \cup LowPowers
  /\ maintained \in BOOLEAN

\* What a start would load is what runs: no cloud function loses what another
\* has stored.  Excepted is the zone after restoreDefaults, which is in use
\* until the next start.
BoardSettingsSurvive ==
  /\ config.version = 1
  /\ pub = config.pub
  /\ lowPower = config.low
  /\ ~defaulted => zone = config.zone
===============================================================================
