---------------------------- MODULE PublishCycle ----------------------------
(***************************************************************************)
(* DeviceManager's publisher, its offline check and its radio: what cannot *)
(* be published goes to the payload store, the network's failures put the  *)
(* radio to sleep or restart the board, and the low-power mode of the      *)
(* operator puts the radio to sleep once nothing is left in the store.     *)
(*                                                                         *)
(* The main loop runs one call at a time; the low-power timer, the network *)
(* and the hardware act between any two steps of a call.  The store is     *)
(* PayloadStore itself.                                                    *)
(***************************************************************************)
EXTENDS Integers, Sequences

CONSTANTS
  MaxRecords, MaxFaults, MaxLines, Nothing,   \* of PayloadStore
  MinAttempts,  \* CONNECTION_MIN_ATTEMPT_THRESHOLD
  MaxAttempts,  \* CONNECTION_MAX_ATTEMPT_THRESHOLD
  Minutes       \* a low-power interval of the operator

ASSUME CycleAssumption ==
  /\ MaxRecords \in Nat \ {0}
  /\ MaxFaults \in Nat
  /\ MaxLines \in Nat
  /\ Nothing \notin 1 .. MaxRecords
  /\ MinAttempts \in Nat
  /\ MaxAttempts \in Nat
  /\ MinAttempts < MaxAttempts
  /\ Minutes \in Nat \ {0}

VARIABLES
  file, popKey, card, mount, pc, position, hand, offered, accepted, sent, faults,
  records,   \* storedRecords
  down,      \* lowPowerModeSet: the radio was put down
  save,      \* powerSaveMode: and it was for radio silence
  timer,     \* lowPowerTimer is running
  ready,     \* lowPowerReady
  setting,   \* lowPowerMode: 0 never, -1 by the battery, or minutes (persisted)
  link,      \* external: is there a session with the broker
  attempts,  \* external: failed connections since the last session
  synced,    \* external: Time.isSynced
  phase,     \* step of publisher
  silenced   \* history: radio silence has zeroed storedRecords since start-up

storeVars == <<file, popKey, card, mount, pc, position, hand, offered, accepted,
               sent, faults>>
radioVars == <<down, save, timer, ready>>
netVars == <<link, attempts, synced>>
vars == <<storeVars, records, radioVars, setting, netVars, phase, silenced>>

Store == INSTANCE PayloadStore

\* countEntries: the lines behind the position.
Entries == Len(file) - popKey

TypeOK ==
  /\ Store!TypeOK
  /\ records \in Nat
  /\ down \in BOOLEAN
  /\ save \in BOOLEAN
  /\ timer \in BOOLEAN
  /\ ready \in BOOLEAN
  /\ setting \in {-1, 0, Minutes}
  /\ link \in BOOLEAN
  /\ attempts \in 0 .. MaxAttempts
  /\ synced \in BOOLEAN
  /\ phase \in {"idle", "store", "recommend", "check"}
  /\ silenced \in BOOLEAN

Init ==
  /\ Store!Init
  /\ records = 0
  /\ down = FALSE
  /\ save = FALSE
  /\ timer = FALSE
  /\ ready = FALSE
  /\ setting \in {-1, 0, Minutes}
  /\ link = FALSE
  /\ attempts = 0
  /\ synced = FALSE
  /\ phase = "idle"
  /\ silenced = FALSE

Idle == phase = "idle" /\ pc = "idle"

-----------------------------------------------------------------------------
(* The radio *)

\* radioDown with applyLowPowerMode; connectionOff ends the session.
RadioDown(minutes) ==
  IF down \/ minutes = 0
  THEN UNCHANGED <<radioVars, link>>
  ELSE /\ down' = TRUE
       /\ IF minutes > 0
          THEN timer' = TRUE /\ ready' = FALSE
          ELSE UNCHANGED <<timer, ready>>
       /\ link' = FALSE

\* Slip: resetPowerCheck is not called.
RadioUpKeepsFlag ==
  IF ~down
  THEN UNCHANGED <<radioVars, link>>
  ELSE /\ down' = FALSE
       /\ save' = FALSE
       /\ UNCHANGED <<timer, ready, link>>

\* radioUp with resetPowerCheck.
RadioUp ==
  IF ~down
  THEN UNCHANGED <<radioVars, link>>
  ELSE /\ down' = FALSE
       /\ save' = FALSE
       /\ ready' = FALSE
       /\ timer' = FALSE
       /\ UNCHANGED link

\* releaseLowPower, the callback of the one-shot timer.
TimerFires ==
  /\ timer
  /\ timer' = FALSE
  /\ ready' = TRUE
  /\ UNCHANGED <<storeVars, records, down, save, setting, netVars, phase, silenced>>

\* Slip: the radio goes down whatever is stored.
ToggleRadioEager(minutes) ==
  CASE minutes # 0 /\ down /\ ready -> RadioUp /\ UNCHANGED records
    [] minutes > 0 /\ link /\ ~down -> RadioDown(minutes) /\ UNCHANGED save /\ records' = 0
    [] OTHER -> UNCHANGED <<radioVars, link, records>>

\* toggleRadio: up again when the interval is over, down when all is sent.
ToggleRadio(minutes) ==
  CASE minutes # 0 /\ down /\ ready -> RadioUp /\ UNCHANGED records
    [] /\ minutes > 0
       /\ link
       /\ ~down
       /\ records <= 0 -> RadioDown(minutes) /\ UNCHANGED save /\ records' = 0
    [] OTHER -> UNCHANGED <<radioVars, link, records>>

\* autoLowPowerMode: minutes by the state of the battery, or a value that can
\* only wake the radio when sun or battery are strong.
AutoMinutes == {IF down THEN -1 ELSE 0, Minutes}

-----------------------------------------------------------------------------
(* publisher *)

\* The reading is sent, unless the radio is down.  A maintenance payload that
\* is not sent is dropped.
Publish ==
  /\ Idle
  /\ \E success, maintenance \in BOOLEAN :
       /\ success => link /\ ~down
       /\ success \/ maintenance \/ offered < MaxRecords
       /\ phase' = IF success \/ maintenance THEN "check" ELSE "store"
  /\ UNCHANGED <<storeVars, records, radioVars, setting, netVars, silenced>>

\* Slip: counted whether it was stored or not.
StorePayloadCountsAll ==
  /\ phase = "store"
  /\ \E ok \in BOOLEAN : Store!Push(ok)
  /\ records' = records + 1
  /\ phase' = IF down THEN "check" ELSE "recommend"
  /\ UNCHANGED <<radioVars, setting, netVars, silenced>>

\* storePayload
StorePayload ==
  /\ phase = "store"
  /\ \E ok \in BOOLEAN :
       /\ Store!Push(ok)
       /\ records' = IF ok THEN records + 1 ELSE records
  /\ phase' = IF down THEN "check" ELSE "recommend"
  /\ UNCHANGED <<radioVars, setting, netVars, silenced>>

\* Slip: the stored records are not recounted.
RestartWithoutCount ==
  /\ records' = 0
  /\ down' = FALSE
  /\ save' = FALSE
  /\ timer' = FALSE
  /\ ready' = FALSE
  /\ link' = FALSE
  /\ attempts' = 0
  /\ synced' = FALSE
  /\ phase' = "idle"
  /\ silenced' = FALSE
  /\ UNCHANGED setting

\* Start-up after a loss of power or Hyphen.reset: RAM is gone, init recounts
\* the stored records.
Restart ==
  /\ records' = IF card = "in" THEN Entries' ELSE 0
  /\ down' = FALSE
  /\ save' = FALSE
  /\ timer' = FALSE
  /\ ready' = FALSE
  /\ link' = FALSE
  /\ attempts' = 0
  /\ synced' = FALSE
  /\ phase' = "idle"
  /\ silenced' = FALSE
  /\ UNCHANGED setting

Silence == MinAttempts <= attempts /\ attempts < MaxAttempts
LastDitch == attempts >= MaxAttempts

\* recommendMaintenance
RecommendNothing ==
  /\ phase = "recommend"
  /\ ~Silence
  /\ ~LastDitch
  /\ phase' = "check"
  /\ UNCHANGED <<storeVars, records, radioVars, setting, netVars, silenced>>

\* Slip: powerSaveMode is not set.
RecommendSilenceUnsaved ==
  /\ phase = "recommend"
  /\ Silence
  /\ records' = 0
  /\ RadioDown(Minutes)
  /\ silenced' = TRUE
  /\ phase' = "check"
  /\ UNCHANGED <<storeVars, save, setting, attempts, synced>>

\* LOW_POWER_MODE_CHECK_INTERVAL is as good an interval as the operator's.
RecommendSilence ==
  /\ phase = "recommend"
  /\ Silence
  /\ records' = 0
  /\ save' = TRUE
  /\ RadioDown(Minutes)
  /\ silenced' = TRUE
  /\ phase' = "check"
  /\ UNCHANGED <<storeVars, setting, attempts, synced>>

RecommendPatience ==
  /\ phase = "recommend"
  /\ LastDitch
  /\ ~synced
  /\ attempts' = 0
  /\ phase' = "check"
  /\ UNCHANGED <<storeVars, records, radioVars, setting, link, synced, silenced>>

RecommendReset ==
  /\ phase = "recommend"
  /\ LastDitch
  /\ synced
  /\ mount' = IF card = "in" THEN "live" ELSE "none"
  /\ UNCHANGED <<file, popKey, card, pc, position, hand, offered, accepted, sent, faults>>
  /\ Restart

\* Slip: radio silence is left to the low-power setting.
OfflineModeCheckBySetting ==
  /\ phase = "check"
  /\ phase' = "idle"
  /\ IF setting = -1
     THEN \E minutes \in AutoMinutes : ToggleRadio(minutes)
     ELSE ToggleRadio(setting)
  /\ UNCHANGED <<storeVars, setting, attempts, synced, silenced>>

\* offlineModeCheck, the end of publisher.
OfflineModeCheck ==
  /\ phase = "check"
  /\ phase' = "idle"
  /\ CASE save /\ ready -> RadioUp /\ UNCHANGED records
       [] ~(save /\ ready) /\ setting = -1 ->
            \E minutes \in AutoMinutes : ToggleRadio(minutes)
       [] OTHER -> ToggleRadio(setting)
  /\ UNCHANGED <<storeVars, setting, attempts, synced, silenced>>

-----------------------------------------------------------------------------
(* runOfflineCheck and the steps of popOneOffline *)

\* Slip: storedRecords is not looked at.
OfflineCheckAlways ==
  /\ Idle
  /\ synced
  /\ ~down
  /\ link
  /\ Store!PopBegin
  /\ UNCHANGED <<records, radioVars, setting, netVars, phase, silenced>>

OfflineCheck ==
  /\ Idle
  /\ synced
  /\ ~down
  /\ records > 0
  /\ link
  /\ Store!PopBegin
  /\ UNCHANGED <<records, radioVars, setting, netVars, phase, silenced>>

PopRead ==
  /\ Store!PopLine \/ Store!PopNoCard \/ Store!PopEnd \/ Store!PopReadFault
  /\ UNCHANGED <<records, radioVars, setting, netVars, phase, silenced>>

PopSettle ==
  /\ Store!PopTruncate \/ Store!PopAdvance \/ Store!PublishFailed \/ Store!PutBack
  /\ UNCHANGED <<records, radioVars, setting, netVars, phase, silenced>>

\* Slip: the count of popOneOffline is dropped.
PopSentUncounted ==
  /\ link
  /\ Store!PublishDone
  /\ UNCHANGED <<records, radioVars, setting, netVars, phase, silenced>>

PopSent ==
  /\ link
  /\ Store!PublishDone
  /\ records' = records - 1
  /\ UNCHANGED <<radioVars, setting, netVars, phase, silenced>>

-----------------------------------------------------------------------------
(* The operator, the network, the hardware *)

\* setLowPowerMode, from the cloud: processor->loop runs it, so the radio is on.
SetLowPowerMode ==
  /\ Idle
  /\ link
  /\ setting' \in {-1, 0, Minutes} \ {setting}
  /\ UNCHANGED <<storeVars, records, radioVars, netVars, phase, silenced>>

LinkUp ==
  /\ ~link
  /\ ~down
  /\ link' = TRUE
  /\ attempts' = 0
  /\ UNCHANGED <<storeVars, records, radioVars, setting, synced, phase, silenced>>

LinkLost ==
  /\ link
  /\ link' = FALSE
  /\ UNCHANGED <<storeVars, records, radioVars, setting, attempts, synced, phase, silenced>>

\* The count saturates: the code only compares it with the thresholds.
ConnectFails ==
  /\ ~link
  /\ ~down
  /\ attempts < MaxAttempts
  /\ attempts' = attempts + 1
  /\ UNCHANGED <<storeVars, records, radioVars, setting, link, synced, phase, silenced>>

ClockSyncs ==
  /\ link
  /\ ~synced
  /\ synced' = TRUE
  /\ UNCHANGED <<storeVars, records, radioVars, setting, link, attempts, phase, silenced>>

PowerCut == Store!PowerCut /\ Restart

CardMoves ==
  /\ Store!Eject \/ Store!Insert
  /\ UNCHANGED <<records, radioVars, setting, netVars, phase, silenced>>

-----------------------------------------------------------------------------
Publisher ==
  \/ StorePayload
  \/ RecommendNothing
  \/ RecommendSilence
  \/ RecommendPatience
  \/ RecommendReset
  \/ OfflineModeCheck

Next ==
  \/ TimerFires
  \/ Publish
  \/ Publisher
  \/ OfflineCheck
  \/ PopRead
  \/ PopSettle
  \/ PopSent
  \/ SetLowPowerMode
  \/ LinkUp
  \/ LinkLost
  \/ ConnectFails
  \/ ClockSyncs
  \/ PowerCut
  \/ CardMoves

\* The periodic timers keep asking for a publication and an offline check, the
\* main loop finishes what it began, the one-shot timer fires; a network that
\* keeps being tried accepts a record again and again.
Fairness ==
  /\ WF_vars(TimerFires)
  /\ SF_vars(Publish)
  /\ WF_vars(Publisher)
  /\ SF_vars(OfflineCheck)
  /\ WF_vars(PopRead)
  /\ WF_vars(PopSettle)
  /\ SF_vars(PopSent)
  /\ WF_vars(ClockSyncs)

Spec == Init /\ [][Next]_vars /\ Fairness

-----------------------------------------------------------------------------
(* Properties *)

CardFaults == faults["eject"] + faults["read"] + faults["write"]

\* While the radio is down exactly one thing will wake it, the timer that runs
\* or the flag it has set; while it is up neither is left over from an earlier
\* sleep, which would end the next one at once.
WakeUpArmed ==
  /\ down => timer # ready
  /\ ~down => ~timer /\ ~ready

\* ... and offlineModeCheck will look at that flag: a sleeping radio is either
\* in radio silence or under a low-power setting that is not 0, for 0 returns
\* before the flag is read.
WakePathOpen == down => save \/ setting # 0

\* A radio that is down wakes up: the wake-up is armed and its path is open.
WakeUpIsSure == WakeUpArmed /\ WakePathOpen

\* storedRecords, counted by hand at every push and pop in four functions, is
\* the number of records behind the position, across failed publications,
\* put-backs, resets of the file, cuts and restarts.
CountIsExact ==
  Idle /\ CardFaults = 0 /\ ~silenced => records = Entries

\* A fault of the card leaves the count too high by at most one, and radio
\* silence only too low.  A count that is too high never gets back to zero: the
\* low-power mode of the operator would not be entered before the next restart.
\* (A failing read empties the file and leaves the whole count behind.)
OvercountBounded ==
  Idle /\ faults["read"] = 0 => records <= Entries + CardFaults

\* The count by which the board decides whether to pop and whether to sleep is
\* the store's, but for faults of the card and radio silence.
CountIsKept == CountIsExact /\ OvercountBounded

\* A radio that is down comes back, whichever way it was put down and whatever
\* becomes of the battery.
RadioComesBack == down ~> ~down

\* With a network that stays, a low-power interval of the operator is obeyed in
\* the end: the stored records are drained and the radio goes down.
EventuallySleeps ==
  (/\ <>[](link \/ down)
   /\ <>[](setting = Minutes)
   /\ [](CardFaults = 0)) => []<>down
=============================================================================
