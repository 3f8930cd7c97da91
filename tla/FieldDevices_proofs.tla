------------------------- MODULE FieldDevices_proofs -------------------------
(***************************************************************************)
(* What FieldDevices states of readings, settings, outputs and camera      *)
(* sessions, and its types, proved for every bound, buffer, timeout and    *)
(* modulus.  Each device has an inductive invariant of its own: a step of  *)
(* the board is a step of one of its devices and leaves the others alone.  *)
(***************************************************************************)
EXTENDS FieldDevices, FiniteSetTheorems, WellFoundedInduction, TLAPS

-----------------------------------------------------------------------------
(* A step of the board, seen by one device *)

WlNext ==
  \/ WlRead \/ WlSetDigital \/ WlSetCalibration \/ WlRestart
  \/ WlClear /\ UNCHANGED WlSettings
  \/ WlDefaults /\ UNCHANGED <<hold, cleared, window, lastGood>>
SdiNext ==
  \/ SdiPublish \/ SdiStep \/ SdiRestart
  \/ SdiClear /\ UNCHANGED <<asked, onWire, heard, sdiOut, rounds, late, cut, spoiled>>
AccelNext ==
  \/ AccelRead \/ AccelRestart
  \/ AccelClear /\ UNCHANGED <<detected, taken>>
FlowNext ==
  \/ FlowPublish /\ FlowClear
  \/ ClearTotal \/ Calibrate \/ FlowRestart
  \/ FlowClear /\ UNCHANGED <<pulseCount, attached, elapsed, step, total, flash, arrived, counted,
                              missed, thrown, reported, blind>>
  \/ Pulse \/ FlowTick \/ FlowStep
RelayNext == TurnOn \/ TurnOff \/ Toggle \/ SetInvert \/ RelayRestart \/ RelayLoop \/ RelayTick
VideoNext == VideoPublish \/ SetOffset \/ VideoRestart \/ VideoStep
IpNext == IpPublish \/ SnapNow \/ SetSendOffset \/ IpRestart \/ IpStep
TunnelNext == TunnelRestart \/ TunnelStep
SoilNext == SetMoistureCalibration \/ SetMineralSoil \/ SoilDefaults \/ SoilRestart
SettingsNext ==
  \/ \E interval \in Intervals : BuildSendInterval(interval)
  \/ SetTimeZone \/ SetLowPower \/ SetMaintenanceMode \/ RestoreDefaults \/ SettingsRestart

LEMMA StepOfOne ==
  ASSUME [Next]_vars
  PROVE  /\ [WlNext]_wlVars /\ [SdiNext]_sdiVars /\ [AccelNext]_accelVars
         /\ [FlowNext]_flowVars /\ [RelayNext]_relayVars
         /\ [VideoNext]_videoVars /\ [IpNext]_ipVars /\ [TunnelNext]_tunnelVars
         /\ [SoilNext]_soilVars /\ [SettingsNext]_settingsVars
         /\ UNCHANGED kind
<1>1. CASE UNCHANGED vars
  BY <1>1 DEF vars
<1>2. CASE Read
  BY <1>2 DEF Read, Only, WlNext, AccelNext
<1>3. CASE Publish
  BY <1>3 DEF Publish, Only, WlNext, SdiNext, AccelNext, FlowNext, VideoNext, IpNext
<1>4. CASE SetSendInterval
  BY <1>4 DEF SetSendInterval, Only, WlNext, SdiNext, AccelNext, FlowNext, SettingsNext
<1>5. CASE Restore
  BY <1>5 DEF Restore, Only, WlNext, SoilNext, SettingsNext
<1>6. CASE CloudFunction
  BY <1>6 DEF CloudFunction, Only, WlNext, FlowNext, RelayNext, VideoNext, IpNext, SoilNext,
              SettingsNext
<1>7. CASE Restart
  BY <1>7 DEF Restart, Only, WlNext, SdiNext, AccelNext, FlowNext, RelayNext, VideoNext, IpNext,
              TunnelNext, SoilNext, SettingsNext
<1>8. CASE DeviceStep
  BY <1>8 DEF DeviceStep, Only, SdiNext, FlowNext, RelayNext, VideoNext, IpNext, TunnelNext
<1> QED BY <1>1, <1>2, <1>3, <1>4, <1>5, <1>6, <1>7, <1>8 DEF Next

-----------------------------------------------------------------------------
(* Least and greatest *)

\* A set of numbers has a least one: the strict subset ordering is well-founded.
LEMMA Least ==
  ASSUME NEW S \in SUBSET Nat, S # {}
  PROVE  \E n \in S : \A m \in S : n <= m
<1> DEFINE T == {0 .. n : n \in S}
           R == StrictSubsetOrdering(Nat)
<1>1. T \subseteq FiniteSubsetsOf(Nat) /\ T # {}
  <2>1. \A n \in S : n \in Int /\ 0 .. n \subseteq Nat
    OBVIOUS
  <2>2. \A n \in S : IsFiniteSet(0 .. n)
    <3> 0 \in Int
      OBVIOUS
    <3> QED BY <2>1, FS_Interval, Zenon
  <2> QED BY <2>1, <2>2, Zenon DEF FiniteSubsetsOf
<1>2. PICK x \in T : \A y \in T : <<y, x>> \notin R
  BY <1>1, FS_StrictSubsetOrderingWellFounded, WFMin, Zenon
<1>3. PICK n \in S : x = 0 .. n
  BY <1>2
<1>4. ASSUME NEW m \in S, m < n
      PROVE  FALSE
  <2>1. 0 .. m \in T /\ 0 .. m \subseteq 0 .. n /\ n \in 0 .. n /\ n \notin 0 .. m
    BY <1>4
  <2>2. <<0 .. m, x>> \in R
    BY <1>3, <2>1 DEF StrictSubsetOrdering
  <2> QED BY <1>2, <2>1, <2>2
<1> QED BY <1>4
\* A set that is bounded has a greatest one.
LEMMA Greatest ==
  ASSUME NEW top \in Int, NEW S \in SUBSET Int, S # {}, \A m \in S : m <= top
  PROVE  \E n \in S : \A m \in S : m <= n
<1> DEFINE T == {top - m : m \in S}
<1>1. T \in SUBSET Nat /\ T # {}
  <2>1. \A m \in S : top - m \in Nat
    OBVIOUS
  <2> QED BY <2>1
<1>2. PICK t \in T : \A u \in T : t <= u
  BY <1>1, Least, Zenon
<1>3. PICK n \in S : t = top - n
  BY <1>2
<1>4. \A m \in S : top - n <= top - m
  BY <1>2, <1>3
<1> QED BY <1>4

-----------------------------------------------------------------------------
(* Settings *)

\* A change of one of the water level's settings writes the other as it is.
LEMMA WlKeeps == WlSettingsStored /\ [WlNext]_wlVars => WlSettingsStored'
<1> SUFFICES ASSUME WlSettingsStored, [WlNext]_wlVars
             PROVE  WlSettingsStored'
  OBVIOUS
<1>1. CASE WlSetDigital
  BY <1>1 DEF WlSettingsStored, WlSetDigital
<1>2. CASE WlSetCalibration
  BY <1>2 DEF WlSettingsStored, WlSetCalibration
<1>3. CASE WlDefaults
  BY <1>3 DEF WlSettingsStored, WlDefaults, DefaultConfig
<1>4. CASE UNCHANGED <<digital, factor, stored>>
  BY <1>4 DEF WlSettingsStored
<1>5. CASE WlRestart
  <2>1. CASE WlDefaults
    BY <1>3, <2>1
  <2>2. CASE digital' = stored.digital /\ factor' = stored.factor /\ UNCHANGED stored
    BY <2>2 DEF WlSettingsStored
  <2> QED BY <1>5, <2>1, <2>2 DEF WlRestart, WlInit
<1> QED BY <1>1, <1>2, <1>3, <1>4, <1>5 DEF WlNext, wlVars, WlRead, WlSettings

LEMMA SoilKeeps == SoilSurvives /\ [SoilNext]_soilVars => SoilSurvives'
<1> SUFFICES ASSUME SoilSurvives, [SoilNext]_soilVars
             PROVE  SoilSurvives'
  OBVIOUS
<1>1. CASE SetMoistureCalibration
  BY <1>1 DEF SoilSurvives, SetMoistureCalibration
<1>2. CASE SetMineralSoil
  BY <1>2 DEF SoilSurvives, SetMineralSoil
<1>3. CASE SoilDefaults
  BY <1>3 DEF SoilSurvives, SoilDefaults
<1>4. CASE SoilRestart
  BY <1>4 DEF SoilSurvives, SoilRestart
<1>5. CASE UNCHANGED soilVars
  BY <1>5 DEF SoilSurvives, soilVars
<1> QED BY <1>1, <1>2, <1>3, <1>4, <1>5 DEF SoilNext

\* What is stored is a structure with all four settings.
SettingsInv ==
  /\ config \in [version : {1}, pub : {config.pub}, zone : {config.zone}, low : {config.low}]
  /\ BoardSettingsSurvive

LEMMA SettingsKeep == SettingsInv /\ [SettingsNext]_settingsVars => SettingsInv'
BY DEF SettingsInv, BoardSettingsSurvive, SettingsNext, settingsVars, BuildSendInterval,
       SetTimeZone, SetLowPower, SetMaintenanceMode, RestoreDefaults, SettingsRestart,
       SavedConfig, Defaults

\* A storage nobody has written holds Junk: a total that happens to be Junk is
\* not written, and the restart that loses it is excepted for that reason only.
FlowInv ==
  /\ flash \in [version : {0, 1}, total : {flash.total}]
  /\ flash.version = 0 => flash.total = Junk
  /\ RestartKeepsReported

LEMMA FlowKeeps == FlowInv /\ [FlowNext]_flowVars => FlowInv'
<1> SUFFICES ASSUME FlowInv, [FlowNext]_flowVars
             PROVE  FlowInv'
  OBVIOUS
<1>1. CASE FlowPublish
  BY <1>1 DEF FlowInv, RestartKeepsReported, FlowPublish, SetFlow
<1>2. CASE ClearTotal
  BY <1>2 DEF FlowInv, RestartKeepsReported, ClearTotal
<1>3. CASE Calibrate
  BY <1>3 DEF FlowInv, RestartKeepsReported, Calibrate
<1>4. CASE FlowRestart
  BY <1>4 DEF FlowInv, RestartKeepsReported, FlowRestart
<1>5. CASE UNCHANGED <<flash, reported, blind>>
  BY <1>5 DEF FlowInv, RestartKeepsReported
<1>6. CASE FlowStep
  BY <1>5, <1>6 DEF FlowStep, ProcessRead, Discard, Count
<1> QED
  BY <1>1, <1>2, <1>3, <1>4, <1>5, <1>6 DEF FlowNext, flowVars, Pulse, FlowTick

-----------------------------------------------------------------------------
(* Outputs *)

RelayInv ==
  /\ pin \in BOOLEAN /\ invert \in BOOLEAN /\ isOn \in BOOLEAN /\ inverted \in BOOLEAN
  /\ RelayReportsPin

LEMMA RelayKeeps == RelayInv /\ [RelayNext]_relayVars => RelayInv'
<1> SUFFICES ASSUME RelayInv, [RelayNext]_relayVars
             PROVE  RelayInv'
  OBVIOUS
<1> USE DEF RelayInv, RelayReportsPin, PowOn, PowOff
<1>1. CASE RelayOff
  BY <1>1 DEF RelayOff
<1>2. CASE TurnOn
  BY <1>2 DEF TurnOn, RelayOn
<1>3. CASE Toggle
  BY <1>1, <1>3 DEF Toggle, RelayOn
<1>4. CASE SetInvert
  BY <1>4 DEF SetInvert, RelayInit
<1>5. CASE RelayRestart
  BY <1>5 DEF RelayRestart, RelayInit
<1>6. CASE RelayTick \/ UNCHANGED relayVars
  BY <1>6 DEF RelayTick, relayVars
<1> QED BY <1>1, <1>2, <1>3, <1>4, <1>5, <1>6 DEF RelayNext, TurnOff, RelayLoop

\* The camera's offsets fit the byte that counts, and are stored as they are.
\* Quotient and remainder are the only ones.
LEMMA OneRemainder ==
  ASSUME NEW n \in Nat \ {0}, NEW q \in Int, NEW r \in 0 .. n - 1
  PROVE  ((n * q) + r) % n = r
OBVIOUS

LEMMA Remainder ==
  ASSUME NEW n \in Nat \ {0}, NEW c \in Int
  PROVE  c % n \in 0 .. n - 1
OBVIOUS

\* What fits is its own remainder.
LEMMA SmallRemainder ==
  ASSUME NEW n \in Nat \ {0}, NEW r \in 0 .. n - 1
  PROVE  r % n = r
<1>1. (n * 0) + r = r
  OBVIOUS
<1> QED BY <1>1, OneRemainder

LEMMA CadenceIsByte ==
  ASSUME NEW setting \in Int
  PROVE  /\ Cadence(setting) \in 0 .. CountMod - 1
         /\ setting \in 0 .. CountMod - 1 => Cadence(setting) = setting
<1>1. CountMod \in Nat \ {0}
  BY VideoAssumption
<1> QED BY <1>1, Remainder, SmallRemainder, Zenon DEF Cadence

CadenceInv ==
  /\ offset \in Int
  /\ storedOffset \in -1 .. CountMod - 1
  /\ VideoOffsetStored

LEMMA CadenceKeeps == CadenceInv /\ [VideoNext]_videoVars => CadenceInv'
<1> SUFFICES ASSUME CadenceInv, [VideoNext]_videoVars
             PROVE  CadenceInv'
  OBVIOUS
<1> USE DEF CadenceInv, VideoOffsetStored
<1>1. CASE SetOffset
  <2> PICK value \in Offsets : offset' = value /\ storedOffset' = Cadence(value)
    BY <1>1 DEF SetOffset
  <2>1. value \in Int
    BY VideoAssumption
  <2>2. Cadence(value) \in 0 .. CountMod - 1
    BY <2>1, CadenceIsByte
  <2> HIDE DEF CadenceInv, VideoOffsetStored
  <2>3. Cadence(offset') = storedOffset' /\ storedOffset' # -1
    BY <2>2, VideoAssumption
  <2>4. offset' \in Int /\ storedOffset' \in -1 .. CountMod - 1
    BY <2>1, <2>2, VideoAssumption
  <2> QED BY <2>3, <2>4, Zenon DEF CadenceInv, VideoOffsetStored
<1>2. CASE VideoRestart
  <2>1. storedOffset' = storedOffset
        /\ offset' = IF storedOffset = -1 THEN DefaultOffset ELSE storedOffset
    BY <1>2 DEF VideoRestart
  <2>2. offset' \in 0 .. CountMod - 1 /\ offset' \in Int
    BY <2>1, VideoAssumption
  <2>3. Cadence(offset') = offset'
    BY <2>2, CadenceIsByte, Zenon
  <2>4. Cadence(offset') = IF storedOffset' = -1 THEN DefaultOffset ELSE storedOffset'
    BY <2>1, <2>3, Zenon
  <2> QED BY <2>1, <2>2, <2>4, Zenon
<1>3. CASE UNCHANGED <<offset, storedOffset>>
  BY <1>3
<1> QED
  BY <1>1, <1>2, <1>3 DEF VideoNext, VideoStep, videoVars, VideoPublish, VideoCounts, PowerOn,
                          Connect, Snap, Transmit, Fails, GiveUp, Finish, ShotOver

\* A picture has been sent only while the shot is about to finish: a connection
\* left open behind a shot is one of a shot that failed.
ShotInv ==
  /\ CameraIsDark
  /\ shot \in {"idle", "power", "connect", "snap", "head", "giveup", "finish", "counted"}
  /\ client \in BOOLEAN
  /\ shot = "connect" => frame = "nothing"
  /\ shot # "finish" /\ client => frame \notin {"picture", "end"}

LEMMA ShotKeeps == ShotInv /\ [VideoNext]_videoVars => ShotInv'
<1> SUFFICES ASSUME ShotInv, [VideoNext]_videoVars
             PROVE  ShotInv'
  OBVIOUS
<1> USE DEF ShotInv, CameraIsDark
<1>1. CASE VideoCounts
  BY <1>1 DEF VideoCounts
<1>2. CASE PowerOn
  BY <1>2 DEF PowerOn
<1>3. CASE Connect
  BY <1>3 DEF Connect
<1>4. CASE Snap
  BY <1>4 DEF Snap
<1>5. CASE Transmit
  BY <1>5 DEF Transmit
<1>6. CASE Fails
  BY <1>6 DEF Fails, GiveUp, Off
<1>7. CASE Finish
  BY <1>7 DEF Finish, Off
<1>8. CASE ShotOver
  BY <1>8 DEF ShotOver
<1>9. CASE VideoRestart
  BY <1>9 DEF VideoRestart
<1>10. CASE UNCHANGED <<shot, powered, client, frame>>
  BY <1>10
<1> QED
  BY <1>1, <1>2, <1>3, <1>4, <1>5, <1>6, <1>7, <1>8, <1>9, <1>10
     DEF VideoNext, VideoStep, VideoPublish, SetOffset, videoVars

\* Counting on by one, modulo n.
LEMMA NextCount ==
  ASSUME NEW n \in Nat \ {0}, NEW c \in Nat, (c + 1) % n # 0
  PROVE  (c + 1) % n = (c % n) + 1
<1> DEFINE q == c \div n
           r == c % n
<1>1. q \in Int /\ r \in 0 .. n - 1 /\ c = (n * q) + r
  OBVIOUS
<1> HIDE DEF q, r
<1>2. CASE r + 1 < n
  <2>1. c + 1 = (n * q) + (r + 1) /\ r + 1 \in 0 .. n - 1
    BY <1>1, <1>2
  <2> QED BY <1>1, <2>1, OneRemainder DEF r
<1>3. CASE r + 1 = n
  <2>1. c + 1 = (n * (q + 1)) + 0
    BY <1>1, <1>3
  <2> QED BY <1>1, <2>1, OneRemainder
<1> QED BY <1>1, <1>2, <1>3

\* The publications that have waited are counted, modulo the setting; the wrap
\* of the count is a multiple of every cadence, and so a shot.
WaitInv ==
  /\ offsetCount \in 0 .. CountMod - 1
  /\ waited \in Nat
  /\ shot = "idle" /\ Cadence(offset) # 0 => waited <= offsetCount % Cadence(offset)

LEMMA WaitKeeps == CadenceInv /\ WaitInv /\ [VideoNext]_videoVars => WaitInv'
<1> SUFFICES ASSUME CadenceInv, WaitInv, [VideoNext]_videoVars
             PROVE  WaitInv'
  OBVIOUS
<1> USE VideoAssumption
<1>0. CadenceInv'
  BY CadenceKeeps
<1>1. CASE VideoCounts
  <2> DEFINE count == (offsetCount + 1) % CountMod
             each == Cadence(offset)
  <2>0. each \in 0 .. CountMod - 1
    BY CadenceIsByte DEF CadenceInv
  <2>1. /\ count \in 0 .. CountMod - 1
        /\ offsetCount' = count /\ waited' = waited + 1 /\ offset' = offset /\ shot = "idle"
        /\ shot' = IF count % each = 0 THEN "power" ELSE "idle"
        /\ each # 0
    BY <1>1 DEF VideoCounts, WaitInv
  <2> HIDE DEF each
  <2>2. CASE count % each = 0
    BY <2>1, <2>2 DEF WaitInv
  <2>3. CASE count % each # 0
    <3>1. count # 0
      BY <2>0, <2>1, <2>3
    <3>2. count = offsetCount + 1
      <4>1. CASE offsetCount + 1 = CountMod
        BY <3>1, <4>1
      <4>2. CASE offsetCount + 1 < CountMod
        BY <4>2 DEF WaitInv
      <4> QED BY <4>1, <4>2 DEF WaitInv
    <3> HIDE DEF count
    <3>3. each \in Nat \ {0} /\ offsetCount \in Nat
      BY <2>0, <2>1 DEF WaitInv
    <3>4. (offsetCount + 1) % each = (offsetCount % each) + 1
      BY <2>3, <3>2, <3>3, NextCount, Zenon
    <3>5. offsetCount % each \in 0 .. each - 1
      BY <3>3, Remainder
    <3>6. waited <= offsetCount % each
      BY <2>1, Zenon DEF WaitInv, each
    <3>7. waited' <= offsetCount' % each
      BY <2>1, <3>2, <3>4, <3>5, <3>6 DEF WaitInv
    <3>8. Cadence(offset') = each
      BY <2>1, Zenon DEF each
    <3>9. offsetCount' \in 0 .. CountMod - 1 /\ waited' \in Nat
      BY <2>1 DEF WaitInv
    <3> QED BY <3>7, <3>8, <3>9, Zenon DEF WaitInv
  <2> QED BY <2>2, <2>3
<1>2. CASE waited' = 0 /\ offsetCount' \in {0, offsetCount}
  <2> DEFINE each == Cadence(offset')
             rest == offsetCount' % each
  <2>1. each \in Int /\ 0 <= each /\ offsetCount' \in Nat
    BY <1>0, <1>2, CadenceIsByte DEF CadenceInv, WaitInv
  <2> HIDE DEF each
  <2>2. ASSUME each # 0
        PROVE  rest \in 0 .. each - 1
    <3>1. each \in Nat \ {0} /\ offsetCount' \in Int
      BY <2>1, <2>2
    <3> QED BY <3>1, Remainder, Zenon
  <2> HIDE DEF rest
  <2>3. offsetCount' \in 0 .. CountMod - 1 /\ waited' \in Nat
    BY <1>2 DEF WaitInv
  <2>4. each # 0 => waited' <= rest
    BY <1>2, <2>1, <2>2
  <2> QED BY <2>3, <2>4, Zenon DEF WaitInv, rest, each
<1>3. CASE UNCHANGED <<waited, offsetCount, offset>> /\ (shot' = "idle" => shot = "idle")
  BY <1>3 DEF WaitInv
<1>4. SetOffset \/ ShotOver \/ VideoRestart => waited' = 0 /\ offsetCount' \in {0, offsetCount}
  BY DEF SetOffset, ShotOver, VideoRestart
<1>5. PowerOn \/ Connect \/ Snap \/ Transmit \/ Fails \/ Finish \/ UNCHANGED videoVars
      => UNCHANGED <<waited, offsetCount, offset>> /\ (shot' = "idle" => shot = "idle")
  BY DEF PowerOn, Connect, Snap, Transmit, Fails, GiveUp, Finish, Off, videoVars
<1> QED BY <1>1, <1>2, <1>3, <1>4, <1>5 DEF VideoNext, VideoStep, VideoPublish

LEMMA WaitMeans == CadenceInv /\ WaitInv => ShotsInTime
<1> SUFFICES ASSUME CadenceInv, WaitInv, shot = "idle", Cadence(offset) # 0
             PROVE  waited < Cadence(offset)
  BY DEF ShotsInTime
<1> DEFINE each == Cadence(offset)
           rest == offsetCount % each
<1>1. each \in Nat \ {0}
  BY CadenceIsByte, VideoAssumption DEF CadenceInv
<1>2. waited <= rest /\ waited \in Nat /\ offsetCount \in Int
  BY DEF WaitInv
<1> HIDE DEF each
<1>3. rest \in 0 .. each - 1
  BY <1>1, <1>2, Remainder
<1> HIDE DEF rest
<1>4. waited < each
  BY <1>1, <1>2, <1>3
<1> QED BY <1>4 DEF each

-----------------------------------------------------------------------------
(* Sessions *)

\* A job is in one of four states of the worker: waiting for the next, about to
\* start, pumping its own session, or having found the remains of another.
Waits == job = "none" /\ ~cam /\ ~tls
Starts == job = "start" /\ ~cam /\ ~tls /\ ~stale /\ got = "nothing"
Pumps ==
  /\ job = "pump" /\ ~stale /\ ~stopping
  /\ tunAge <= jobAge
  /\ cam => authed
  /\ state = "DONE" \/ bytesUp => got # "nothing"
Finds == job = "pump" /\ stale /\ ~wasted /\ stopping /\ ~cam /\ ~tls

LeftOver == state \in {"WSS_CONNECTING", "TUNNELING"}

TunnelTypes ==
  /\ jobAge \in 0 .. JobTimeout /\ tunAge \in Nat
  /\ stopping \in BOOLEAN /\ authed \in BOOLEAN /\ tls \in BOOLEAN /\ cam \in BOOLEAN
  /\ bytesUp \in BOOLEAN /\ ok \in BOOLEAN /\ stale \in BOOLEAN /\ wasted \in BOOLEAN
  /\ state \in {"IDLE", "WSS_CONNECTING", "TUNNELING", "DONE", "ERROR"}

\* A state that is left over when the worker waits was stopped; it costs the
\* next job alone, as no time goes by before that job ends.
TunnelInv ==
  /\ TunnelTypes
  /\ Waits \/ Starts \/ Pumps \/ Finds
  /\ job # "pump" /\ LeftOver => stopping
  /\ job = "start" /\ LeftOver => jobAge = 0 /\ ~wasted
  /\ Finds /\ LeftOver => jobAge = 0
  /\ Waits /\ LeftOver => ~stale
  /\ OkIsOfThisJob
  /\ OneJobWasted

LEMMA TunnelTyped == TunnelTypes /\ [TunnelNext]_tunnelVars => TunnelTypes'
<1> SUFFICES ASSUME TunnelTypes, [TunnelNext]_tunnelVars
             PROVE  TunnelTypes'
  OBVIOUS
<1> USE TunnelAssumption DEF TunnelTypes
<1>1. CASE TakeJob \/ StartFails \/ StartFresh \/ StartStale
  <2>1. jobAge' \in 0 .. JobTimeout /\ tunAge' \in Nat
    BY <1>1 DEF TakeJob, StartFails, StartFresh, StartStale
  <2>2. CASE TakeJob
    BY <2>1, <2>2 DEF TakeJob
  <2>3. CASE StartFails
    BY <2>1, <2>3 DEF StartFails
  <2>4. CASE StartFresh \/ StartStale
    BY <2>1, <2>4 DEF StartFresh, StartStale
  <2> QED BY <1>1, <2>2, <2>3, <2>4
<1>2. CASE Report
  BY <1>2 DEF Report, IsOk
<1>3. CASE TunnelTick
  BY <1>3 DEF TunnelTick
<1>4. CASE TimesOut \/ Disconnected \/ ConnectionLost
  BY <1>4 DEF TimesOut, Disconnected, ConnectionLost, Close, Same, Unchanged
<1>5. CASE Challenge \/ AuthOk \/ AuthFail \/ Open
  BY <1>5 DEF Challenge, AuthOk, AuthFail, Open, Close, Same, Unchanged
<1>6. CASE ServerCloses \/ Data \/ CamToServer \/ CameraGone
  BY <1>6 DEF ServerCloses, Data, CamToServer, CameraGone, Close, Same
<1>7. CASE TunnelRestart
  <2>1. jobAge' \in 0 .. JobTimeout /\ tunAge' \in Nat
    BY <1>7 DEF TunnelRestart
  <2> QED BY <1>7, <2>1 DEF TunnelRestart
<1>8. CASE UNCHANGED tunnelVars
  BY <1>8 DEF tunnelVars
<1> QED
  BY <1>1, <1>2, <1>3, <1>4, <1>5, <1>6, <1>7, <1>8 DEF TunnelNext, TunnelStep

LEMMA TunnelKeeps == TunnelInv /\ [TunnelNext]_tunnelVars => TunnelInv'
<1> SUFFICES ASSUME TunnelInv, [TunnelNext]_tunnelVars
             PROVE  TunnelInv'
  OBVIOUS
<1>0. TunnelTypes'
  BY TunnelTyped DEF TunnelInv
<1> USE <1>0, TunnelAssumption
        DEF TunnelInv, Waits, Starts, Pumps, Finds, LeftOver, Finished, OkIsOfThisJob, OneJobWasted,
            TunnelTypes
<1>1. CASE TakeJob
  BY <1>1 DEF TakeJob
<1>2. CASE StartFails
  BY <1>2 DEF StartFails
<1>3. CASE StartFresh
  BY <1>3 DEF StartFresh
<1>4. CASE StartStale
  BY <1>4 DEF StartStale
<1>5. CASE Report
  BY <1>5 DEF Report, JobIsOver, IsOk
<1>6. CASE TunnelTick
  BY <1>6 DEF TunnelTick, FindsRemains, Pumping
<1>7. CASE TimesOut
  BY <1>7 DEF TimesOut, Pumping, Close, Same, Unchanged
<1>8. CASE Disconnected
  BY <1>8 DEF Disconnected, Pumping, Same, Unchanged
<1>9. CASE ConnectionLost
  BY <1>9 DEF ConnectionLost, Pumping, Same, Unchanged
<1>10. CASE Challenge
  <2>1. CASE nonce' = TRUE /\ UNCHANGED <<state, cam, tls, up>>
    BY <1>10, <2>1 DEF Challenge, Frame, Pumping, Same
  <2>2. CASE Close("ERROR")
    BY <1>10, <2>2 DEF Challenge, Frame, Pumping, Close, Same
  <2> QED BY <1>10, <2>1, <2>2 DEF Challenge
<1>11. CASE AuthOk
  BY <1>11 DEF AuthOk, Frame, Pumping, Same
<1>12. CASE AuthFail
  BY <1>12 DEF AuthFail, Frame, Pumping, Close, Same, Unchanged
<1>13. CASE Open
  BY <1>13 DEF Open, Frame, Pumping, Close, Same, Unchanged
<1>14. CASE ServerCloses
  BY <1>14 DEF ServerCloses, Frame, Pumping, Close, Same
<1>15. CASE Data
  BY <1>15 DEF Data, Frame, Pumping, Close, Same
<1>16. CASE CamToServer
  BY <1>16 DEF CamToServer, Pumping, Same
<1>17. CASE CameraGone
  BY <1>17 DEF CameraGone
<1>18. CASE TunnelRestart
  BY <1>18 DEF TunnelRestart
<1>19. CASE UNCHANGED tunnelVars
  BY <1>19 DEF tunnelVars
<1> QED
  BY <1>1, <1>2, <1>3, <1>4, <1>5, <1>6, <1>7, <1>8, <1>9, <1>10, <1>11,
     <1>12, <1>13, <1>14, <1>15, <1>16, <1>17, <1>18, <1>19 DEF TunnelNext, TunnelStep

\* A sum on the clock's face.
LEMMA ClockSum ==
  ASSUME NEW n \in Nat \ {0}, NEW c \in 0 .. n - 1, NEW d \in 0 .. n - 1
  PROVE  (c + d) % n = IF c + d < n THEN c + d ELSE (c + d) - n
OBVIOUS

BackoffTypes ==
  /\ clock \in 0 .. ClockMod - 1 /\ nextStart \in 0 .. ClockMod - 1
  /\ backoff \in MinBackoff .. MaxBackoff
  /\ sinceFailure \in 0 .. MaxBackoff
  /\ wrapped \in BOOLEAN

\* What is left of a refusal and what has passed since its failure are
\* MaxBackoff at most, until the clock wraps.
Remaining == clock < nextStart => (nextStart - clock) + sinceFailure <= MaxBackoff

BackoffInv == BackoffTypes /\ (wrapped \/ Remaining)

\* A second off what remains, and one at most on what has passed.
LEMMA OneLess ==
  ASSUME NEW next \in Int, NEW now \in Int, NEW old \in Int, NEW new \in Int, NEW max \in Int,
         new <= old + 1, (next - now) + old <= max
  PROVE  (next - (now + 1)) + new <= max
OBVIOUS

LEMMA BackoffKeeps == BackoffInv /\ [IpNext]_ipVars => BackoffInv'
<1> SUFFICES ASSUME BackoffInv, [IpNext]_ipVars
             PROVE  BackoffInv'
  OBVIOUS
<1>0. /\ ClockMod \in Nat /\ MinBackoff \in Nat /\ MaxBackoff \in Nat
      /\ 0 < ClockMod /\ MinBackoff <= MaxBackoff /\ MaxBackoff < ClockMod
  BY IPCameraAssumption
<1> USE <1>0
<1>5. /\ 0 \in 0 .. MaxBackoff /\ MaxBackoff \in 0 .. MaxBackoff
      /\ MinBackoff \in MinBackoff .. MaxBackoff /\ 0 \in 0 .. ClockMod - 1
  OBVIOUS
<1>1. CASE IpDone
  <2>1. CASE IpFails
    <3>1. ClockMod \in Nat \ {0} /\ clock \in 0 .. ClockMod - 1 /\ backoff \in 0 .. ClockMod - 1
      BY DEF BackoffInv, BackoffTypes
    <3> DEFINE next == (clock + backoff) % ClockMod
    <3>2. next = IF clock + backoff < ClockMod THEN clock + backoff
                                               ELSE (clock + backoff) - ClockMod
      BY <3>1, ClockSum, Zenon
    <3>3. /\ nextStart' = next /\ clock' = clock
          /\ backoff' \in MinBackoff .. MaxBackoff
          /\ sinceFailure' = 0 /\ wrapped' = FALSE
      BY <1>1, <2>1 DEF IpFails, IpDone, BackoffInv, BackoffTypes
    <3> HIDE DEF next
    <3>4. next \in 0 .. ClockMod - 1
      BY <3>1, <3>2
    <3>5. clock < next => (next - clock) + 0 <= MaxBackoff
      BY <3>1, <3>2 DEF BackoffInv, BackoffTypes
    <3>6. BackoffTypes'
      BY <1>5, <3>1, <3>3, <3>4 DEF BackoffTypes
    <3> QED BY <3>3, <3>5, <3>6 DEF BackoffInv, Remaining
  <2>2. CASE nextStart' = 0 /\ backoff' = MinBackoff /\ UNCHANGED <<sinceFailure, wrapped>>
    <3>1. BackoffTypes'
      BY <1>1, <2>2 DEF IpDone, BackoffInv, BackoffTypes
    <3>2. ~(clock' < nextStart')
      BY <2>2, <3>1 DEF BackoffTypes
    <3> QED BY <3>1, <3>2 DEF BackoffInv, Remaining
  <2> QED BY <1>1, <2>1, <2>2 DEF IpDone
<1>2. CASE IpTick
  <2>1. clock' = (clock + 1) % ClockMod
    BY <1>2 DEF IpTick
  <2>2. clock' = IF clock + 1 < ClockMod THEN clock + 1 ELSE 0
    BY <2>1 DEF BackoffInv, BackoffTypes
  <2>3. /\ sinceFailure' \in {sinceFailure, sinceFailure + 1}
        /\ sinceFailure' \in 0 .. MaxBackoff
        /\ wrapped' = (wrapped \/ clock' = 0)
        /\ UNCHANGED <<nextStart, backoff>>
    BY <1>2 DEF IpTick, BackoffInv, BackoffTypes
  <2>4. BackoffTypes'
    BY <2>2, <2>3 DEF BackoffInv, BackoffTypes
  <2>5. CASE clock' = 0
    BY <2>3, <2>4, <2>5 DEF BackoffInv
  <2>6. CASE clock' = clock + 1
    <3>1. clock < nextStart /\ Remaining => (nextStart - (clock + 1)) + sinceFailure' <= MaxBackoff
      <4>1. /\ sinceFailure' \in Int /\ sinceFailure \in Int
            /\ nextStart \in Int /\ clock \in Int
            /\ sinceFailure' <= sinceFailure + 1
        BY <2>3 DEF BackoffInv, BackoffTypes
      <4>2. MaxBackoff \in Int
        OBVIOUS
      <4> QED BY <4>1, <4>2, OneLess, Zenon DEF Remaining
    <3>2. clock + 1 < nextStart => clock < nextStart
      BY DEF BackoffInv, BackoffTypes
    <3>3. CASE wrapped
      BY <2>3, <2>4, <3>3 DEF BackoffInv
    <3>4. CASE Remaining
      BY <2>3, <2>4, <2>6, <3>1, <3>2, <3>4 DEF BackoffInv, Remaining
    <3> QED BY <3>3, <3>4 DEF BackoffInv
  <2> QED BY <2>2, <2>5, <2>6
<1>3. CASE IpRestart
  <2>1. BackoffTypes'
    BY <1>3, <1>5 DEF IpRestart, BackoffTypes
  <2>2. ~(clock' < nextStart')
    BY <1>3 DEF IpRestart
  <2> QED BY <2>1, <2>2 DEF BackoffInv, Remaining
<1>4. CASE UNCHANGED <<clock, nextStart, backoff, sinceFailure, wrapped>>
  BY <1>4 DEF BackoffInv, BackoffTypes, Remaining
<1> QED
  BY <1>1, <1>2, <1>3, <1>4 DEF IpNext, IpStep, ipVars, backoffVars, IpPublish, SnapNow,
                                IpCounts, SetSendOffset, IpLoop, IpTake

LEMMA ByteIsSmall ==
  ASSUME NEW setting \in Nat
  PROVE  /\ Byte(setting) \in 0 .. SendMod - 1
         /\ setting \in 0 .. SendMod - 1 => Byte(setting) = setting
<1>1. SendMod \in Nat \ {0}
  BY IPCameraAssumption
<1>2. setting \in Int
  OBVIOUS
<1> QED BY <1>1, <1>2, Remainder, SmallRemainder, Zenon DEF Byte

SendInv == storedSend \in 0 .. SendMod - 1 /\ SendOffsetStored

LEMMA SendOffsetKeeps == SendInv /\ [IpNext]_ipVars => SendInv'
<1> SUFFICES ASSUME SendInv, [IpNext]_ipVars
             PROVE  SendInv'
  OBVIOUS
<1>0. SendMod \in Nat /\ 1 < SendMod /\ SnapOffsets \subseteq Nat
  BY IPCameraAssumption
<1>1. CASE SetSendOffset
  <2> PICK value \in SnapOffsets : sendOffset' = value /\ storedSend' = Byte(value)
    BY <1>1 DEF SetSendOffset
  <2>1. storedSend' \in 0 .. SendMod - 1
    BY <1>0, ByteIsSmall
  <2>2. Byte(sendOffset') = storedSend'
    OBVIOUS
  <2> QED BY <2>1, <2>2, Zenon DEF SendInv, SendOffsetStored
<1>2. CASE IpRestart
  <2>1. /\ storedSend' = storedSend
        /\ sendOffset' = IF storedSend = 0 THEN 1 ELSE storedSend
    BY <1>2 DEF IpRestart
  <2>2. sendOffset' \in 0 .. SendMod - 1 /\ sendOffset' \in Nat
    BY <1>0, <2>1 DEF SendInv
  <2>3. Byte(sendOffset') = sendOffset'
    BY <2>2, ByteIsSmall, Zenon
  <2> QED BY <2>1, <2>3, Zenon DEF SendInv, SendOffsetStored
<1>3. CASE UNCHANGED <<sendOffset, storedSend>>
  BY <1>3 DEF SendInv, SendOffsetStored
<1> QED
  BY <1>1, <1>2, <1>3
     DEF IpNext, IpStep, ipVars, IpPublish, IpCounts, SnapNow, IpLoop, IpTake, IpDone, IpTick

-----------------------------------------------------------------------------
(* Readings *)

\* The slots of the window that hold a value, and a window that is in order.
At(v, arr) == {j \in 0 .. MaxVal - 1 : arr[j] = v}

Ordered(arr) ==
  \A i, j \in 0 .. MaxVal - 1 :
    i < j /\ arr[j] # NoValue => arr[i] # NoValue /\ arr[i] <= arr[j]

\* insertValue finds its index: the last slot always stops it.
LEMMA StopIsFound ==
  ASSUME NEW value \in Int, NEW arr \in [Slots -> Int]
  PROVE  /\ IndexFor(value, arr) \in Slots
         /\ StopsAt(value, arr, IndexFor(value, arr))
         /\ \A k \in 0 .. IndexFor(value, arr) - 1 : ~StopsAt(value, arr, k)
<1> DEFINE S == {j \in Slots : StopsAt(value, arr, j)}
<1>1. S \in SUBSET Nat /\ MaxVal \in S
  BY ReadingsAssumption DEF Slots, StopsAt
<1>2. PICK n \in S : \A m \in S : n <= m
  BY <1>1, Least, Zenon
<1>3. n \in Slots /\ StopsAt(value, arr, n)
  BY <1>2
<1>4. ASSUME NEW k \in 0 .. n - 1, StopsAt(value, arr, k)
      PROVE  FALSE
  <2>1. k \in Slots /\ ~(n <= k)
    BY <1>3, ReadingsAssumption DEF Slots
  <2> QED BY <1>2, <1>4, <2>1
<1> QED BY <1>3, <1>4, Zenon DEF IndexFor

\* A set but for one of its elements.
Without(S, x) == S \ {x}

\* A shift moves the occurrences of a value up; the new slot and the dropped
\* one aside there are as many as before.
LEMMA ShiftCounts ==
  ASSUME NEW value \in Int, NEW arr \in [Slots -> Int], NEW index \in 0 .. MaxVal - 1, NEW v \in Int
  PROVE  /\ IsFiniteSet(At(v, arr)) /\ IsFiniteSet(At(v, Shift(value, index, arr)))
         /\ Cardinality(Without(At(v, Shift(value, index, arr)), index))
              = Cardinality(Without(At(v, arr), MaxVal - 1))
<1> DEFINE old == At(v, arr)
           next == Shift(value, index, arr)
           new == At(v, next)
           f == [j \in old \ {MaxVal - 1} |-> IF j < index THEN j ELSE j + 1]
<1>1. MaxVal \in Nat \ {0}
  BY ReadingsAssumption
<1>2. /\ \A j \in 0 .. MaxVal - 1 : j < index => next[j] = arr[j]
      /\ \A j \in 0 .. MaxVal - 1 : j > index => next[j] = arr[j - 1]
  BY <1>1 DEF Shift, Slots
<1>3. IsFiniteSet(old) /\ IsFiniteSet(new)
  <2>1. IsFiniteSet(0 .. MaxVal - 1)
    BY <1>1, FS_Interval
  <2> QED BY <2>1, FS_Subset DEF At
<1>4. IsFiniteSet(old \ {MaxVal - 1})
  BY <1>3, FS_RemoveElement
<1>5. f \in Bijection(old \ {MaxVal - 1}, new \ {index})
  <2> HIDE DEF next
  <2>1. ASSUME NEW j \in old \ {MaxVal - 1}
        PROVE  f[j] \in new \ {index}
    BY <1>1, <1>2, <2>1 DEF At
  <2>2. ASSUME NEW j \in old \ {MaxVal - 1}, NEW k \in old \ {MaxVal - 1}, f[j] = f[k]
        PROVE  j = k
    BY <2>2 DEF At
  <2>3. ASSUME NEW j \in new \ {index}
        PROVE  \E k \in old \ {MaxVal - 1} : f[k] = j
    <3>1. CASE j < index
      <4>1. j \in old \ {MaxVal - 1}
        BY <1>1, <1>2, <3>1 DEF At
      <4> QED BY <3>1, <4>1
    <3>2. CASE j > index
      <4>1. j - 1 \in old \ {MaxVal - 1}
        BY <1>1, <1>2, <3>2 DEF At
      <4>2. f[j - 1] = j
        BY <3>2, <4>1 DEF At
      <4> QED BY <4>1, <4>2
    <3> QED BY <3>1, <3>2 DEF At
  <2>4. f \in [old \ {MaxVal - 1} -> new \ {index}]
    BY <2>1
  <2> HIDE DEF f
  <2>5. f \in Injection(old \ {MaxVal - 1}, new \ {index})
    BY <2>2, <2>4, Zenon DEF Injection, IsInjective
  <2>6. f \in Surjection(old \ {MaxVal - 1}, new \ {index})
    BY <2>3, <2>4, Zenon DEF Surjection
  <2> QED BY <2>5, <2>6 DEF Bijection
<1>6. Cardinality(new \ {index}) = Cardinality(old \ {MaxVal - 1})
  <2> HIDE DEF f, old, new
  <2>1. ExistsBijection(old \ {MaxVal - 1}, new \ {index})
    BY <1>5, Zenon DEF ExistsBijection
  <2> QED BY <1>4, <2>1, FS_Bijection, Zenon
<1> QED BY <1>3, <1>6 DEF Without

\* No distance is the number that marks a free slot.
LEMMA DistancesAreValues == Distances \subseteq Int /\ NoValue \in Int /\ NoValue \notin Distances
<1>1. NoValue \in Int /\ NoValue # 0
  BY ReadingsAssumption
<1>2. \A p \in Pulses, f \in WlFactors : p * f \in Int /\ p * f # NoValue
  <2>1. \A p \in Pulses, f \in WlFactors : p \in Int /\ f \in Int
    BY WlAssumption
  <2> QED BY <2>1, WlAssumption
<1> QED BY <1>1, <1>2 DEF Distances

LEMMA InsertIsArray ==
  ASSUME NEW value \in Int, NEW arr \in [Slots -> Int]
  PROVE  Insert(value, arr) \in [Slots -> Int]
<1>1. IndexFor(value, arr) \in Slots /\ MaxVal \in Nat
  BY StopIsFound, ReadingsAssumption
<1>2. Insert(value, arr) = Shift(value, IndexFor(value, arr), arr)
  BY DEF Insert
<1> QED BY <1>1, <1>2 DEF Shift, Slots

\* What an insertion does to an ordered window that has room: the slots below
\* the index stay, those behind move up, the last value is dropped.
LEMMA InsertShifts ==
  ASSUME NEW value \in Int, value # NoValue, NEW arr \in [Slots -> Int], Ordered(arr)
  PROVE  LET next == Insert(value, arr)
             last == MaxVal - 1
         IN  /\ next \in [Slots -> Int]
             /\ Ordered(next)
             /\ \A j \in 0 .. last : next[j] = value \/ \E k \in 0 .. last : next[j] = arr[k]
             /\ arr[last] # NoValue => next[last] # NoValue /\ next[last] <= arr[last]
<1> DEFINE index == IndexFor(value, arr)
           next == Insert(value, arr)
           last == MaxVal - 1
<1>1. /\ index \in Slots
      /\ StopsAt(value, arr, index)
      /\ \A k \in 0 .. index - 1 : ~StopsAt(value, arr, k)
  BY StopIsFound, Zenon
<1>2. MaxVal \in Nat /\ MaxVal > 0 /\ NoValue \in Int
  BY ReadingsAssumption
<1> HIDE DEF index
<1>3. next = Shift(value, index, arr)
  BY DEF Insert, index
<1>4. next \in [Slots -> Int]
  BY <1>1, <1>2, <1>3 DEF Shift, Slots
<1>5. /\ \A j \in 0 .. last : j < index => next[j] = arr[j]
      /\ \A j \in 0 .. last : j = index => next[j] = value
      /\ \A j \in 0 .. last : j > index => next[j] = arr[j - 1]
  BY <1>1, <1>2, <1>3 DEF Shift, Slots
<1>6. index \in 0 .. MaxVal /\ \A j \in 0 .. last : arr[j] \in Int
  BY <1>1, <1>2 DEF Slots
<1>7. /\ \A k \in 0 .. index - 1 : arr[k] # NoValue /\ arr[k] <= value
      /\ index \in 0 .. last => arr[index] = NoValue \/ value < arr[index]
  BY <1>1, <1>2, <1>6 DEF StopsAt
<1> HIDE DEF next
<1>8. Ordered(next)
  <2> SUFFICES ASSUME NEW i \in 0 .. last, NEW j \in 0 .. last, i < j, next[j] # NoValue
               PROVE  next[i] # NoValue /\ next[i] <= next[j]
    BY DEF Ordered
  <2>1. CASE j < index
    BY <1>2, <1>5, <1>6, <2>1 DEF Ordered
  <2>2. CASE j = index
    BY <1>2, <1>5, <1>6, <1>7, <2>2
  <2>3. CASE j > index /\ i < index
    <3>1. i \in 0 .. last /\ j - 1 \in 0 .. last /\ i < j - 1
      BY <1>2, <1>6, <2>3
    <3> QED BY <1>5, <2>3, <3>1 DEF Ordered
  <2>4. CASE j > index /\ i = index
    <3>1. i \in 0 .. last /\ j - 1 \in 0 .. last /\ (i < j - 1 \/ i = j - 1)
      BY <1>2, <1>6, <2>4
    <3>2. arr[j - 1] # NoValue /\ next[j] = arr[j - 1] /\ next[i] = value
      BY <1>5, <2>4
    <3>3. arr[i] # NoValue /\ arr[i] <= arr[j - 1]
      BY <1>6, <3>1, <3>2 DEF Ordered
    <3> QED BY <1>6, <1>7, <2>4, <3>1, <3>2, <3>3
  <2>5. CASE i > index
    <3>1. i - 1 \in 0 .. last /\ j - 1 \in 0 .. last /\ i - 1 < j - 1
      BY <1>2, <1>6, <2>5
    <3> QED BY <1>5, <1>6, <2>5, <3>1 DEF Ordered
  <2> QED BY <1>6, <2>1, <2>2, <2>3, <2>4, <2>5
<1>9. ASSUME NEW j \in 0 .. last
      PROVE  next[j] = value \/ \E k \in 0 .. last : next[j] = arr[k]
  <2>1. CASE j > index
    <3>1. j - 1 \in 0 .. last
      BY <1>2, <1>6, <2>1
    <3> QED BY <1>5, <2>1, <3>1
  <2> QED BY <1>5, <1>6, <2>1
<1>10. ASSUME arr[last] # NoValue
       PROVE  next[last] # NoValue /\ next[last] <= arr[last]
  <2>0. last \in 0 .. last
    BY <1>2
  <2>1. CASE last < index
    BY <1>5, <1>6, <1>10, <2>0, <2>1
  <2>2. CASE last = index
    BY <1>5, <1>6, <1>7, <1>10, <2>0, <2>2
  <2>3. CASE last > index
    <3>1. last - 1 \in 0 .. last /\ last - 1 < last
      BY <1>2, <1>6, <2>3
    <3>2. next[last] = arr[last - 1]
      BY <1>5, <2>0, <2>3
    <3> QED BY <1>10, <2>0, <3>1, <3>2 DEF Ordered
  <2> QED BY <1>2, <1>6, <2>1, <2>2, <2>3
<1> QED BY <1>4, <1>8, <1>9, <1>10 DEF next

\* How often a value is held after an insertion: as often as before, once more
\* if it was inserted and once less if it was dropped.
LEMMA InsertCounts ==
  ASSUME NEW value \in Int, NEW arr \in [Slots -> Int], NEW v \in Int
  PROVE  LET old == At(v, arr)
             new == At(v, Insert(value, arr))
             last == MaxVal - 1
         IN  /\ Cardinality(old) \in Nat /\ Cardinality(new) \in Nat
             /\ \/ /\ IndexFor(value, arr) = MaxVal
                   /\ new = old
                \/ /\ IndexFor(value, arr) \in 0 .. last
                   /\ Cardinality(new) - (IF v = value THEN 1 ELSE 0)
                        = Cardinality(old) - (IF arr[last] = v THEN 1 ELSE 0)
<1> DEFINE index == IndexFor(value, arr)
           old == At(v, arr)
           next == Insert(value, arr)
           new == At(v, next)
           last == MaxVal - 1
<1>1. index \in Slots
  BY StopIsFound, Zenon
<1>2. MaxVal \in Nat /\ MaxVal > 0
  BY ReadingsAssumption
<1> HIDE DEF index
<1>3. next = Shift(value, index, arr)
  BY DEF Insert, index
<1>4. CASE index = MaxVal
  <2>1. \A j \in 0 .. last : next[j] = arr[j]
    BY <1>2, <1>3, <1>4 DEF Shift, Slots
  <2>2. new = old
    BY <2>1 DEF At
  <2>3. IsFiniteSet(old)
    <3>1. IsFiniteSet(0 .. last)
      BY <1>2, FS_Interval
    <3> QED BY <3>1, FS_Subset DEF At
  <2> QED BY <1>4, <2>2, <2>3, FS_CardinalityType DEF index
<1>5. CASE index \in 0 .. last
  <2>1. /\ IsFiniteSet(old) /\ IsFiniteSet(new)
        /\ Cardinality(new \ {index}) = Cardinality(old \ {last})
    <3>0. index \in 0 .. MaxVal - 1
      BY <1>5
    <3>1. /\ IsFiniteSet(At(v, arr)) /\ IsFiniteSet(At(v, Shift(value, index, arr)))
          /\ Cardinality(Without(At(v, Shift(value, index, arr)), index))
               = Cardinality(Without(At(v, arr), MaxVal - 1))
      BY <3>0, ShiftCounts, Zenon
    <3> HIDE DEF next
    <3> QED BY <1>3, <3>1 DEF Without
  <2>2. next[index] = value
    BY <1>2, <1>3, <1>5 DEF Shift, Slots
  <2>3. index \in new <=> v = value
    BY <1>5, <2>2 DEF At
  <2>4. last \in old <=> arr[last] = v
    BY <1>2 DEF At
  <2> HIDE DEF old, new
  <2>5. Cardinality(new \ {index})
          = IF index \in new THEN Cardinality(new) - 1 ELSE Cardinality(new)
    BY <2>1, FS_RemoveElement, Zenon
  <2>6. Cardinality(old \ {last}) = IF last \in old THEN Cardinality(old) - 1 ELSE Cardinality(old)
    BY <2>1, FS_RemoveElement, Zenon
  <2>7. Cardinality(old) \in Nat /\ Cardinality(new) \in Nat
    BY <2>1, FS_CardinalityType
  <2>8. Cardinality(new) - (IF v = value THEN 1 ELSE 0)
          = Cardinality(old) - (IF arr[last] = v THEN 1 ELSE 0)
    BY <2>1, <2>3, <2>4, <2>5, <2>6, <2>7
  <2> QED BY <1>5, <2>7, <2>8 DEF old, new, index
<1> QED BY <1>1, <1>2, <1>4, <1>5 DEF Slots

\* The window, its history, and their types.
WindowInv ==
  /\ hold \in [Slots -> Int]
  /\ window \in [Distances -> Nat]
  /\ cleared \in BOOLEAN
  /\ WindowIsSorted

WindowFresh ==
  /\ \A j \in 0 .. MaxVal - 1 : hold[j] = NoValue
  /\ window = [v \in Distances |-> 0]

LEMMA WindowEmpty == WindowFresh => WindowIsSorted
<1> SUFFICES ASSUME WindowFresh
             PROVE  WindowIsSorted
  OBVIOUS
<1>1. ASSUME NEW v \in Distances
      PROVE  Cardinality(Holding(v)) = window[v]
  <2>1. Holding(v) = {}
    BY DistancesAreValues DEF WindowFresh, Holding
  <2> QED BY <2>1, FS_EmptySet DEF WindowFresh
<1> QED BY <1>1 DEF WindowFresh, WindowIsSorted

LEMMA WindowEmptyNext == WindowFresh' => WindowIsSorted'
BY WindowEmpty, PTL

\* A read in a cleared window: the value is held, or nothing smaller than what
\* is held was left out.
LEMMA WindowReads ==
  ASSUME WindowInv, cleared, NEW cm \in Distances,
         hold' = Insert(cm, hold), window' = [window EXCEPT ![cm] = @ + 1], cleared' = cleared
  PROVE  WindowInv'
<1> DEFINE last == MaxVal - 1
           d == hold[last]
<1>1. /\ cm \in Int /\ cm # NoValue /\ NoValue \in Int
      /\ MaxVal \in Nat /\ MaxVal > 0
      /\ hold \in [Slots -> Int]
      /\ Ordered(hold)
      /\ last \in 0 .. last /\ last \in Slots
  BY DistancesAreValues, ReadingsAssumption DEF WindowInv, WindowIsSorted, Ordered, Slots
<1>2. /\ hold' \in [Slots -> Int]
      /\ Ordered(hold')
      /\ \A j \in 0 .. last : hold'[j] = cm \/ \E k \in 0 .. last : hold'[j] = hold[k]
      /\ d # NoValue => hold'[last] # NoValue /\ hold'[last] <= d
  BY <1>1, InsertShifts, Zenon
<1>3. window' \in [Distances -> Nat]
  BY DEF WindowInv
<1>4. \A j \in 0 .. last : hold'[j] \in Distances \cup {NoValue}
  BY <1>2 DEF WindowInv, WindowIsSorted
<1>5. ASSUME NEW v \in Distances
      PROVE  \/ Cardinality(Holding(v)') = window'[v]
             \/ /\ Cardinality(Holding(v)') < window'[v]
                /\ hold'[last] # NoValue
                /\ hold'[last] <= v
  <2> DEFINE old == Cardinality(Holding(v))
             new == Cardinality(Holding(v)')
  <2>1. v \in Int /\ v # NoValue /\ d \in Int /\ hold'[last] \in Int
    BY <1>1, <1>2, DistancesAreValues
  <2>2. Holding(v) = At(v, hold) /\ Holding(v)' = At(v, Insert(cm, hold))
    BY DEF Holding, At
  <2>3. /\ old \in Nat /\ new \in Nat
        /\ \/ IndexFor(cm, hold) = MaxVal /\ new = old
           \/ /\ IndexFor(cm, hold) \in 0 .. last
              /\ new - (IF v = cm THEN 1 ELSE 0) = old - (IF d = v THEN 1 ELSE 0)
    <3>1. hold \in [Slots -> Int] /\ cm \in Int /\ v \in Int
      BY <1>1, <2>1
    <3>2. LET o == At(v, hold)
              n == At(v, Insert(cm, hold))
          IN  /\ Cardinality(o) \in Nat /\ Cardinality(n) \in Nat
              /\ \/ IndexFor(cm, hold) = MaxVal /\ n = o
                 \/ /\ IndexFor(cm, hold) \in 0 .. MaxVal - 1
                    /\ Cardinality(n) - (IF v = cm THEN 1 ELSE 0)
                         = Cardinality(o) - (IF hold[MaxVal - 1] = v THEN 1 ELSE 0)
      BY <3>1, InsertCounts, Zenon
    <3> QED BY <2>2, <3>2
  <2>4. window[v] \in Nat /\ window'[v] = window[v] + (IF v = cm THEN 1 ELSE 0)
    BY DEF WindowInv
  <2>5. \/ old = window[v]
        \/ old < window[v] /\ d # NoValue /\ d <= v
    BY DEF WindowInv, WindowIsSorted
  <2> HIDE DEF old, new, d, last
  <2>6. CASE IndexFor(cm, hold) = MaxVal /\ new = old
    <3>1. ~StopsAt(cm, hold, last)
      BY <1>1, <2>6, StopIsFound DEF last
    <3>2. d # NoValue /\ d <= cm
      BY <1>1, <2>1, <3>1 DEF StopsAt, d
    <3>3. hold'[last] # NoValue /\ hold'[last] <= cm /\ hold'[last] <= d
      BY <1>1, <1>2, <2>1, <3>2
    <3> QED BY <1>1, <2>1, <2>3, <2>4, <2>5, <2>6, <3>3 DEF new
  <2>7. CASE new - (IF v = cm THEN 1 ELSE 0) = old - (IF d = v THEN 1 ELSE 0)
    <3>1. CASE d = v
      BY <1>2, <2>1, <2>3, <2>4, <2>5, <2>7, <3>1 DEF new
    <3>2. CASE d # v
      BY <1>2, <2>1, <2>3, <2>4, <2>5, <2>7, <3>2 DEF new
    <3> QED BY <3>1, <3>2
  <2> QED BY <2>3, <2>6, <2>7
<1> QED BY <1>2, <1>3, <1>4, <1>5 DEF WindowInv, WindowIsSorted, Ordered

LEMMA WindowKeeps == WindowInv /\ [WlNext]_wlVars => WindowInv'
<1> SUFFICES ASSUME WindowInv, [WlNext]_wlVars
             PROVE  WindowInv'
  OBVIOUS
<1>1. CASE WlRead
  <2>1. PICK cm \in Distances : /\ hold' = Insert(cm, hold)
                                /\ window' = [window EXCEPT ![cm] = @ + 1]
                                /\ cleared' = cleared
    BY <1>1 DEF WlRead
  <2>2. CASE cleared
    BY <2>1, <2>2, WindowReads, Zenon
  <2>3. CASE ~cleared
    <3>1. hold' \in [Slots -> Int]
      BY <2>1, DistancesAreValues, InsertIsArray DEF WindowInv
    <3>2. window' \in [Distances -> Nat]
      BY <2>1 DEF WindowInv
    <3> QED BY <2>1, <2>3, <3>1, <3>2 DEF WindowInv, WindowIsSorted
  <2> QED BY <2>2, <2>3
<1>2. CASE WlClear \/ WlRestart
  <2>1. /\ hold' \in [Slots -> Int]
        /\ \A j \in 0 .. MaxVal - 1 : hold'[j] = NoValue
        /\ window' = [v \in Distances |-> 0]
        /\ cleared' = TRUE
    BY <1>2, ReadingsAssumption DEF WlClear, WlRestart, WindowInv, Empty, Slots
  <2>2. WindowIsSorted'
    BY <2>1, WindowEmptyNext DEF WindowFresh
  <2>3. window' \in [Distances -> Nat]
    BY <2>1
  <2> QED BY <2>1, <2>2, <2>3 DEF WindowInv
<1>3. CASE UNCHANGED <<hold, cleared, window>>
  BY <1>3 DEF WindowInv, WindowIsSorted, Holding
<1> QED
  BY <1>1, <1>2, <1>3 DEF WlNext, wlVars, WlSetDigital, WlSetCalibration, WlDefaults

\* The accelerometer: the reads since the last reset, up to the buffer's size.
AccelInv ==
  /\ detected \in BOOLEAN
  /\ samples \in Seq(Nat)
  /\ taken \in Nat /\ since \in Nat /\ since <= taken
  /\ SamplesAreFirst

LEMMA AccelKeeps == AccelInv /\ [AccelNext]_accelVars => AccelInv'
<1> SUFFICES ASSUME AccelInv, [AccelNext]_accelVars
             PROVE  AccelInv'
  OBVIOUS
<1> USE AccelAssumption DEF AccelInv, SamplesAreFirst
<1>1. CASE AccelRead /\ detected /\ Len(samples) < SampleBuffer
  <2>1. /\ samples' = Append(samples, taken + 1) /\ taken' = taken + 1
        /\ UNCHANGED <<detected, since>>
    BY <1>1 DEF AccelRead
  <2>2. /\ Len(samples) = taken - since
        /\ Len(samples') = Len(samples) + 1
        /\ samples' \in Seq(Nat)
    BY <1>1, <2>1
  <2>3. \A i \in DOMAIN samples' : samples'[i] = since' + i
    <3> SUFFICES ASSUME NEW i \in DOMAIN samples'
                 PROVE  samples'[i] = since + i
      BY <2>1
    <3>1. i \in 1 .. Len(samples) + 1
      BY <2>2
    <3>2. CASE i \in 1 .. Len(samples)
      BY <2>1, <3>2
    <3>3. CASE i = Len(samples) + 1
      BY <2>1, <2>2, <3>3
    <3> QED BY <3>1, <3>2, <3>3
  <2> QED BY <1>1, <2>1, <2>2, <2>3
<1>2. CASE AccelRead /\ ~(detected /\ Len(samples) < SampleBuffer)
  BY <1>2 DEF AccelRead
<1>3. CASE samples' = <<>> /\ since' = taken /\ taken' = taken /\ detected' \in BOOLEAN
  BY <1>3
<1>4. CASE UNCHANGED <<detected, samples, taken, since>>
  BY <1>4
<1> QED BY <1>1, <1>2, <1>3, <1>4 DEF AccelNext, AccelRestart, AccelClear, accelVars

\* The flow meter's pulses, each in one place.
PulsesInv ==
  /\ pulseCount \in 0 .. PulseMod - 1
  /\ counted \in Nat /\ missed \in Nat /\ thrown \in Nat
  /\ PulsesCountedOnce

LEMMA PulsesKeep == PulsesInv /\ [FlowNext]_flowVars => PulsesInv'
<1> SUFFICES ASSUME PulsesInv, [FlowNext]_flowVars
             PROVE  PulsesInv'
  OBVIOUS
<1> USE FlowAssumption DEF PulsesInv, PulsesCountedOnce
<1>1. CASE Pulse
  <2>1. CASE attached /\ pulseCount = PulseMod - 1
    <3>1. (pulseCount + 1) % PulseMod = 0
      BY <2>1
    <3> QED BY <1>1, <2>1, <3>1 DEF Pulse
  <2>2. CASE attached /\ pulseCount # PulseMod - 1
    <3>1. (pulseCount + 1) % PulseMod = pulseCount + 1
      BY <2>2
    <3> QED BY <1>1, <2>2, <3>1 DEF Pulse
  <2>3. CASE ~attached
    BY <1>1, <2>3 DEF Pulse
  <2> QED BY <2>1, <2>2, <2>3
<1>2. CASE Discard
  BY <1>2 DEF Discard
<1>3. CASE Count
  BY <1>3 DEF Count
<1>4. CASE FlowRestart
  BY <1>4 DEF FlowRestart
<1>5. CASE UNCHANGED <<pulseCount, arrived, counted, missed, thrown>>
  BY <1>5
<1> QED
  BY <1>1, <1>2, <1>3, <1>4, <1>5
     DEF FlowNext, flowVars, FlowStep, FlowPublish, ClearTotal, Calibrate, FlowTick, ProcessRead

\* The late answers that no reading has taken are on the wire or in the buffer.
LateInv ==
  /\ onWire \in Seq(Answers) /\ heard \in Seq(Answers)
  /\ late \in Nat /\ cut \in Nat /\ spoiled \in Nat
  /\ late = 0 => cut = 0
  /\ LateSpoilsFew

\* What has come before a drain ends, the part that comes last and the rest.
LEMMA PiecesOf ==
  ASSUME NEW inBuffer \in Seq(Answers), NEW coming \in Seq(Answers),
         NEW n \in 0 .. Len(coming), NEW broken \in {0, 1}, n + broken <= Len(coming)
  PROVE  LET before == inBuffer \o SubSeq(coming, 1, n)
             part == SubSeq(coming, n + 1, n + broken)
             rest == SubSeq(coming, n + broken + 1, Len(coming))
         IN  /\ before \in Seq(Answers) /\ Len(before) = Len(inBuffer) + n
             /\ part \in Seq(Answers) /\ Len(part) = broken
             /\ rest \in Seq(Answers) /\ Len(rest) = (Len(coming) - n) - broken
             /\ before \o part \in Seq(Answers)
             /\ Len(before \o part) = Len(inBuffer) + n + broken
<1> DEFINE first == SubSeq(coming, 1, n)
           part == SubSeq(coming, n + 1, n + broken)
           rest == SubSeq(coming, n + broken + 1, Len(coming))
<1>1. first \in Seq(Answers) /\ Len(first) = n
  OBVIOUS
<1>2. part \in Seq(Answers) /\ Len(part) = broken
  OBVIOUS
<1>3. rest \in Seq(Answers) /\ Len(rest) = (Len(coming) - n) - broken
  OBVIOUS
<1> HIDE DEF first, part, rest
<1>4. inBuffer \o first \in Seq(Answers) /\ Len(inBuffer \o first) = Len(inBuffer) + n
  BY <1>1
<1> DEFINE before == inBuffer \o first
<1> HIDE DEF before
<1>5. before \o part \in Seq(Answers) /\ Len(before \o part) = Len(inBuffer) + n + broken
  <2>1. before \in Seq(Answers) /\ Len(before) = Len(inBuffer) + n
    BY <1>4 DEF before
  <2>2. before \o part \in Seq(Answers) /\ Len(before \o part) = Len(before) + Len(part)
    BY <1>2, <2>1
  <2> QED BY <1>2, <2>1, <2>2
<1> QED BY <1>2, <1>3, <1>4, <1>5, Zenon DEF before, first, part, rest

\* A text costs its sensor a reading at most, and none if it is empty.
LEMMA SpoilsAtMost ==
  ASSUME LateInv, NEW text \in Seq(Answers), Spoils(text)
  PROVE  spoiled' \in Nat /\ spoiled' <= spoiled + Len(text) /\ spoiled' <= spoiled + 1
<1>1. text = <<>> \/ 1 <= Len(text)
  OBVIOUS
<1> QED BY <1>1 DEF LateInv, Spoils

\* What leaves the wire and the buffer is what the reading may have spoiled.
LEMMA Balance ==
  ASSUME NEW s \in Nat, NEW w \in Nat, NEW h \in Nat, NEW l \in Nat, NEW c \in Nat,
         NEW n \in Nat, NEW broken \in {0, 1}, NEW s1 \in Nat, NEW d \in {0, 1},
         s + w + h <= l + c, s1 <= s + (h + n + broken)
  PROVE  s1 + (((w - n) - broken) + d) + broken <= (l + d) + (c + broken)
OBVIOUS

\* A reading takes some text of answers, and pays for it.
LEMMA ReadingCosts ==
  ASSUME LateInv, ReadWire
  PROVE  \E text, follows \in Seq(Answers) :
           /\ Take(text, follows)
           /\ onWire' \in Seq(Answers)
           /\ late' \in Nat /\ cut' \in Nat /\ spoiled' \in Nat
           /\ late' = 0 => cut' = 0
           /\ spoiled' + Len(onWire') + Len(follows) <= late' + cut'
<1>0. /\ onWire \in Seq(Answers) /\ heard \in Seq(Answers)
      /\ late \in Nat /\ cut \in Nat /\ spoiled \in Nat
      /\ Len(onWire) \in Nat /\ Len(heard) \in Nat
      /\ late = 0 => cut = 0
      /\ spoiled + Len(onWire) + Len(heard) <= late + cut
  BY DEF LateInv, LateSpoilsFew
<1>1. asked \in 1 .. Sensors
  BY DEF ReadWire
<1> DEFINE before(n) == heard \o SubSeq(onWire, 1, n)
           part(n, broken) == SubSeq(onWire, n + 1, n + broken)
           rest(n, broken) == SubSeq(onWire, n + broken + 1, Len(onWire))
           own(value) == [of |-> asked, value |-> value]
<1>2. PICK n \in 0 .. Len(onWire), broken \in {0, 1}, value \in Values :
        /\ n + broken <= Len(onWire)
        /\ \/ /\ Take(before(n) \o <<own(value)>> \o part(n, broken), part(n, broken))
              /\ Spoils(before(n))
              /\ onWire' = rest(n, broken) /\ late' = late
              /\ cut' = cut + broken
           \/ /\ Take(before(n) \o part(n, broken), part(n, broken))
              /\ Spoils(before(n) \o part(n, broken))
              /\ \/ onWire' = rest(n, broken) /\ late' = late
                 \/ onWire' = Append(rest(n, broken), own(value)) /\ late' = late + 1
              /\ cut' = cut + broken
           \/ /\ broken = 0
              /\ Take(before(n) \o <<own(value)>>, <<own(value)>>)
              /\ Spoils(before(n) \o <<own(value)>>)
              /\ onWire' = rest(n, broken) /\ late' = late + 1
              /\ cut' = cut + 1
  BY Zenon DEF ReadWire
<1> DEFINE b == before(n)
           p == part(n, broken)
           r == rest(n, broken)
           o == own(value)
<1>3. /\ b \in Seq(Answers) /\ Len(b) = Len(heard) + n
      /\ p \in Seq(Answers) /\ Len(p) = broken
      /\ r \in Seq(Answers) /\ Len(r) = (Len(onWire) - n) - broken
      /\ b \o p \in Seq(Answers) /\ Len(b \o p) = Len(heard) + n + broken
  BY <1>0, <1>2, PiecesOf
<1>4. o \in Answers
  BY <1>1, <1>2 DEF Answers
<1>5. \/ /\ Take(b \o <<o>> \o p, p) /\ Spoils(b)
         /\ onWire' = r /\ late' = late /\ cut' = cut + broken
      \/ /\ Take(b \o p, p) /\ Spoils(b \o p)
         /\ \/ onWire' = r /\ late' = late
            \/ onWire' = Append(r, o) /\ late' = late + 1
         /\ cut' = cut + broken
      \/ /\ broken = 0 /\ Take(b \o <<o>>, <<o>>) /\ Spoils(b \o <<o>>)
         /\ onWire' = r /\ late' = late + 1 /\ cut' = cut + 1
  BY <1>2
<1>6. n \in Nat /\ broken \in {0, 1} /\ n + broken <= Len(onWire)
  BY <1>0, <1>2
<1> HIDE DEF b, p, r, o
<1>7. <<o>> \in Seq(Answers) /\ Len(<<o>>) = 1 /\ b \o <<o>> \in Seq(Answers)
  BY <1>3, <1>4
<1>8. b \o <<o>> \o p \in Seq(Answers)
  BY <1>3, <1>7
<1>9. Append(r, o) \in Seq(Answers) /\ Len(Append(r, o)) = Len(r) + 1
  BY <1>3, <1>4
<1> DEFINE Paid(follows) ==
      /\ onWire' \in Seq(Answers)
      /\ late' \in Nat /\ cut' \in Nat /\ spoiled' \in Nat
      /\ late' = 0 => cut' = 0
      /\ spoiled' + Len(onWire') + Len(follows) <= late' + cut'
<1>10. CASE /\ Take(b \o <<o>> \o p, p) /\ Spoils(b)
            /\ onWire' = r /\ late' = late /\ cut' = cut + broken
  <2>1. spoiled' \in Nat /\ spoiled' <= spoiled + Len(b)
    BY <1>3, <1>10, SpoilsAtMost
  <2>2. Paid(p)
    BY <1>0, <1>3, <1>6, <1>10, <2>1
  <2> QED BY <1>3, <1>8, <1>10, <2>2
<1>11. CASE /\ Take(b \o p, p) /\ Spoils(b \o p)
            /\ \/ onWire' = r /\ late' = late
               \/ onWire' = Append(r, o) /\ late' = late + 1
            /\ cut' = cut + broken
  <2>1. spoiled' \in Nat /\ spoiled' <= spoiled + Len(b \o p)
    BY <1>3, <1>11, SpoilsAtMost
  <2>2. \/ onWire' \in Seq(Answers) /\ Len(onWire') = Len(r) /\ late' = late
        \/ onWire' \in Seq(Answers) /\ Len(onWire') = Len(r) + 1 /\ late' = late + 1
    BY <1>3, <1>9, <1>11, Zenon
  <2>3. late' = 0 => cut' = 0
    BY <1>0, <1>6, <1>11
  <2>4. late' \in Nat /\ cut' \in Nat /\ cut' = cut + broken /\ spoiled' \in Nat
    BY <1>0, <1>6, <1>11, <2>1
  <2>5. spoiled' <= spoiled + (Len(heard) + n + broken) /\ Len(p) = broken
    BY <1>3, <2>1
  <2>6. PICK d \in {0, 1} : Len(onWire') = ((Len(onWire) - n) - broken) + d /\ late' = late + d
    <3>1. CASE Len(onWire') = Len(r) /\ late' = late
      <4>1. Len(onWire') = ((Len(onWire) - n) - broken) + 0 /\ late' = late + 0
        BY <1>0, <1>3, <1>6, <3>1
      <4> QED BY <4>1, Zenon
    <3>2. CASE Len(onWire') = Len(r) + 1 /\ late' = late + 1
      BY <1>3, <3>2, Zenon
    <3> QED BY <2>2, <3>1, <3>2
  <2>7. spoiled' + (((Len(onWire) - n) - broken) + d) + broken <= (late + d) + (cut + broken)
    BY <1>0, <1>6, <2>4, <2>5, Balance
  <2>8. spoiled' + Len(onWire') + Len(p) <= late' + cut'
    BY <2>4, <2>5, <2>6, <2>7, Zenon
  <2>9. Paid(p)
    BY <2>2, <2>3, <2>4, <2>8
  <2> QED BY <1>3, <1>11, <2>9
<1>12. CASE /\ broken = 0 /\ Take(b \o <<o>>, <<o>>) /\ Spoils(b \o <<o>>)
            /\ onWire' = r /\ late' = late + 1 /\ cut' = cut + 1
  <2>1. spoiled' \in Nat /\ spoiled' <= spoiled + 1
    BY <1>7, <1>12, SpoilsAtMost
  <2>2. Paid(<<o>>)
    BY <1>0, <1>3, <1>6, <1>7, <1>12, <2>1
  <2> QED BY <1>7, <1>12, <2>2
<1> QED BY <1>5, <1>10, <1>11, <1>12, Zenon

LEMMA LateKeeps == LateInv /\ [SdiNext]_sdiVars => LateInv'
<1> SUFFICES ASSUME LateInv, [SdiNext]_sdiVars
             PROVE  LateInv'
  OBVIOUS
<1>1. CASE ReadWire
  <2> PICK text, follows \in Seq(Answers) :
        /\ Take(text, follows)
        /\ onWire' \in Seq(Answers)
        /\ late' \in Nat /\ cut' \in Nat /\ spoiled' \in Nat
        /\ late' = 0 => cut' = 0
        /\ spoiled' + Len(onWire') + Len(follows) <= late' + cut'
    BY <1>1, ReadingCosts
  <2>1. heard' = <<>> \o follows
    BY DEF Take, Drain
  <2>2. heard' = follows
    BY <2>1
  <2> QED BY <2>2 DEF LateInv, LateSpoilsFew
<1> USE DEF LateInv, LateSpoilsFew
<1>2. CASE LateAnswer
  BY <1>2 DEF LateAnswer
<1>3. CASE SdiRestart
  BY <1>3 DEF SdiRestart
<1>4. CASE UNCHANGED <<onWire, heard, late, cut, spoiled>>
  BY <1>4
<1> HIDE DEF LateInv, LateSpoilsFew
<1> QED
  BY <1>1, <1>2, <1>3, <1>4
     DEF SdiNext, SdiStep, SdiPublish, SdiPublished, SdiClear, sdiVars

-----------------------------------------------------------------------------
(* Types *)

\* What is taken of an array is a number.
LEMMA LastIsInt ==
  ASSUME NEW arr \in [Slots -> Int], NEW top \in Int, top <= MaxVal
  PROVE  LastUpTo(top, arr) \in Int
<1> DEFINE held == {j \in 0 .. top : arr[j] # NoValue}
<1>1. CASE held = {}
  BY <1>1, ReadingsAssumption DEF LastUpTo
<1>2. CASE held # {}
  <2>1. held \in SUBSET Int /\ \A m \in held : m <= top
    OBVIOUS
  <2>2. \E n \in held : \A m \in held : m <= n
    BY <1>2, <2>1, Greatest, Zenon
  <2>3. PICK n \in held : n = CHOOSE j \in held : \A k \in held : k <= j
    BY <2>2, Zenon
  <2>4. n \in Slots
    BY ReadingsAssumption DEF Slots
  <2>5. LastUpTo(top, arr) = arr[n]
    BY <1>2, <2>3, Zenon DEF LastUpTo
  <2> QED BY <2>4, <2>5
<1> QED BY <1>1, <1>2

\* A sum over one slot: one step of the recursion.
LEMMA SumOfOne ==
  ASSUME NEW arr \in [Slots -> Int]
  PROVE  SumIn(arr, 1) \in {arr[0], NoValue}
<1> DEFINE none == [sum |-> 0, last |-> 0, has |-> FALSE]
           Next1(t, v) ==
             LET far == v - t.last > Threshold \/ t.last - v > Threshold
             IN  IF v = NoValue \/ far THEN t
                 ELSE [sum |-> t.sum + v, last |-> v, has |-> TRUE]
           Body(f) == [j \in -1 .. 1 - 1 |-> IF j = -1 THEN none ELSE Next1(f[j - 1], arr[j])]
           folded == CHOOSE f : f = Body(f)
           g == [j \in -1 .. 1 - 1 |-> IF j = -1 THEN none ELSE Next1(none, arr[j])]
<1>1. g = Body(g)
  <2>1. \A j \in -1 .. 1 - 1 : j = -1 \/ j - 1 = -1
    OBVIOUS
  <2>2. g[-1] = none
    OBVIOUS
  <2> HIDE DEF none, Next1
  <2> QED BY <2>1, <2>2
<1>2. folded = Body(folded)
  <2> HIDE DEF Body, g
  <2> QED BY <1>1, Zenon
<1>3. SumIn(arr, 1) = IF folded[0].has THEN folded[0].sum ELSE NoValue
  BY DEF SumIn
<1>4. folded[0] = Next1(none, arr[0])
  <2> HIDE DEF none, Next1, folded
  <2>1. folded[-1] = none
    BY <1>2
  <2> QED BY <1>2, <2>1
<1>5. arr[0] \in Int
  BY ReadingsAssumption DEF Slots
<1>6. folded[0] = none \/ folded[0] = [sum |-> 0 + arr[0], last |-> arr[0], has |-> TRUE]
  BY <1>4
<1> HIDE DEF folded
<1> QED BY <1>3, <1>5, <1>6, ReadingsAssumption

\* A read settles on one of its pulses: a largest cluster exists, its samples
\* are no more than there are places behind its first, and so its middle is a
\* sample.
LEMMA SettledIsPulse ==
  ASSUME NEW s \in Readouts, s # <<>>, NEW last \in {0} \cup Pulses
  PROVE  Settled(s, last) \in Pulses
<1> DEFINE Size(j) == Cardinality(Cluster(s, j))
           best == {j \in DOMAIN s : \A k \in DOMAIN s : Size(k) <= Size(j)}
           close == {j \in best : \A k \in best : Distance(s[j], last) <= Distance(s[k], last)}
           won == IF last = 0 THEN best ELSE close
           centre == Best(s, last)
<1>20. Pulses \subseteq Nat /\ Tolerance \in Nat
  BY WlAssumption
<1>1. s \in Seq(Pulses) /\ Len(s) \in Nat \ {0} /\ DOMAIN s = 1 .. Len(s)
  <2>1. s \in UNION {[1 .. n -> Pulses] : n \in 0 .. Samples}
    BY DEF Readouts, BoundedSeq, SeqOf
  <2>2. PICK n \in 0 .. Samples : s \in [1 .. n -> Pulses]
    BY <2>1
  <2>3. n \in Nat /\ s \in Seq(Pulses) /\ Len(s) = n /\ DOMAIN s = 1 .. n
    BY <2>2, WlAssumption
  <2> QED BY <2>3
<1>21. \A j \in DOMAIN s : s[j] \in Pulses
  BY <1>1
<1>2. \A j \in DOMAIN s : /\ Cluster(s, j) \subseteq 1 .. Len(s)
                          /\ IsFiniteSet(Cluster(s, j))
                          /\ Size(j) \in Nat /\ Size(j) <= Len(s)
  <2>1. IsFiniteSet(1 .. Len(s)) /\ Cardinality(1 .. Len(s)) = Len(s)
    BY <1>1, FS_Interval
  <2> SUFFICES ASSUME NEW j \in DOMAIN s
               PROVE  /\ Cluster(s, j) \subseteq 1 .. Len(s)
                      /\ IsFiniteSet(Cluster(s, j))
                      /\ Size(j) \in Nat /\ Size(j) <= Len(s)
    OBVIOUS
  <2>2. Cluster(s, j) \in SUBSET (1 .. Len(s))
    BY <1>1 DEF Cluster
  <2>3. /\ IsFiniteSet(Cluster(s, j))
        /\ Cardinality(Cluster(s, j)) <= Cardinality(1 .. Len(s))
    BY <2>1, <2>2, FS_Subset, Zenon
  <2> QED BY <2>1, <2>2, <2>3, FS_CardinalityType
<1>3. best # {}
  <2> DEFINE sizes == {Size(j) : j \in DOMAIN s}
  <2> HIDE DEF Size
  <2>0. 1 \in DOMAIN s /\ Len(s) \in Int
    BY <1>1
  <2>1. sizes \in SUBSET Int /\ sizes # {} /\ Len(s) \in Int /\ \A m \in sizes : m <= Len(s)
    <3>1. \A j \in DOMAIN s : Size(j) \in Int /\ Size(j) <= Len(s)
      BY <1>2
    <3> QED BY <2>0, <3>1, Zenon
  <2>2. PICK n \in sizes : \A m \in sizes : m <= n
    BY <2>1, Greatest, Zenon
  <2>3. PICK j \in DOMAIN s : n = Size(j)
    BY <2>2
  <2>4. j \in best
    BY <2>2, <2>3
  <2> QED BY <2>4
<1> HIDE DEF Size
<1>4. won # {} /\ won \subseteq DOMAIN s
  <2>1. best \subseteq DOMAIN s /\ close \subseteq best
    OBVIOUS
  <2>2. close # {}
    <3> DEFINE gaps == {Distance(s[j], last) : j \in best}
    <3>1. \A j \in best : Distance(s[j], last) \in Nat
      <4>1. last \in Nat
        BY <1>20
      <4>2. \A j \in DOMAIN s : s[j] \in Nat
        BY <1>20, <1>21
      <4> QED BY <4>1, <4>2 DEF Distance
    <3> HIDE DEF best
    <3>2. gaps \in SUBSET Nat /\ gaps # {}
      BY <1>3, <3>1
    <3>3. PICK n \in gaps : \A m \in gaps : n <= m
      BY <3>2, Least, Zenon
    <3>4. PICK j \in best : n = Distance(s[j], last)
      BY <3>3
    <3>5. j \in close
      BY <3>3, <3>4
    <3> QED BY <3>5
  <2> QED BY <1>3, <2>1, <2>2
<1>5. centre \in DOMAIN s
  <2>1. centre = CHOOSE j \in won : \A k \in won : j <= k
    BY Zenon DEF Best, Size
  <2> HIDE DEF won, centre
  <2>2. won \in SUBSET Nat
    BY <1>1, <1>4
  <2>3. \E j \in won : \A k \in won : j <= k
    BY <1>4, <2>2, Least, Zenon
  <2>4. centre \in won
    BY <2>1, <2>3, Zenon
  <2> QED BY <1>4, <2>4
<1> HIDE DEF centre
<1> DEFINE c == Cluster(s, centre)
           first == CHOOSE k \in c : \A l \in c : k <= l
           m == Cardinality(c)
<1>6. centre \in c
  <2>1. s[centre] \in Nat /\ Tolerance \in Nat
    BY <1>21, <1>5, <1>20
  <2>2. Near(s[centre], s[centre])
    BY <2>1 DEF Near
  <2> QED BY <1>5, <2>2 DEF Cluster
<1>7. first \in c /\ \A l \in c : first <= l
  <2>1. c \in SUBSET Nat /\ c # {}
    BY <1>2, <1>5, <1>6
  <2>2. \E k \in c : \A l \in c : k <= l
    BY <2>1, Least, Zenon
  <2> QED BY <2>2, Zenon
<1>8. Settled(s, last) = s[first + m \div 2]
  BY Zenon DEF Settled, centre
<1>9. first \in 1 .. Len(s) /\ IsFiniteSet(c) /\ m \in Nat
  BY <1>2, <1>5, <1>7 DEF Size
<1>10. m <= (Len(s) - first) + 1
  <2>1. c \in SUBSET (first .. Len(s))
    BY <1>2, <1>5, <1>7, <1>9
  <2>2. first \in Int /\ Len(s) \in Int /\ ~(first > Len(s))
    BY <1>1, <1>9
  <2>3. IsFiniteSet(first .. Len(s)) /\ Cardinality(first .. Len(s)) = (Len(s) - first) + 1
    BY <2>2, FS_Interval
  <2> HIDE DEF c, first
  <2>4. Cardinality(c) <= Cardinality(first .. Len(s))
    BY <2>1, <2>3, FS_Subset, Zenon
  <2> QED BY <2>3, <2>4
<1> HIDE DEF c, first, m
<1>11. first + m \div 2 \in 1 .. Len(s)
  BY <1>1, <1>9, <1>10
<1> QED BY <1>1, <1>8, <1>11

WlTypes ==
  /\ lastGood \in {0} \cup Pulses
  /\ digital \in BOOLEAN
  /\ factor \in WlFactors
  /\ stored \in [version : {0, 1}, digital : BOOLEAN, factor : {0} \cup WlFactors]

LEMMA WlTyped == WlTypes /\ [WlNext]_wlVars => WlTypes'
<1> SUFFICES ASSUME WlTypes, [WlNext]_wlVars
             PROVE  WlTypes'
  OBVIOUS
<1> USE DEF WlTypes
<1>0. 1 \in WlFactors /\ DigitalFactors \subseteq WlFactors /\ AnalogFactors \subseteq WlFactors
  BY WlAssumption
<1>1. CASE WlRead
  <2>1. PICK s \in Readouts, cm \in Distances : ReadWL(s, cm)
    BY <1>1 DEF WlRead
  <2>2. \/ UNCHANGED lastGood
        \/ s # <<>> /\ lastGood' = Settled(s, lastGood)
    BY <2>1, Zenon DEF ReadWL
  <2>3. lastGood' \in {0} \cup Pulses
    BY <2>2, SettledIsPulse
  <2> QED BY <1>1, <2>3 DEF WlRead
<1>2. CASE WlDefaults /\ lastGood' \in {0} \cup Pulses
  BY <1>0, <1>2 DEF WlDefaults, DefaultConfig
<1>3. CASE WlRestart
  <2>1. lastGood' \in {0} \cup Pulses
    BY <1>3 DEF WlRestart
  <2>2. CASE stored.version = 1 /\ Sane(stored)
    BY <1>0, <1>3, <2>1, <2>2 DEF WlRestart, WlInit, Sane
  <2>3. CASE ~(stored.version = 1 /\ Sane(stored))
    BY <1>2, <1>3, <2>1, <2>3 DEF WlRestart, WlInit
  <2> QED BY <2>2, <2>3
<1>4. CASE WlSetDigital
  BY <1>4 DEF WlSetDigital
<1>5. CASE WlSetCalibration
  BY <1>5 DEF WlSetCalibration
<1>6. CASE UNCHANGED <<lastGood, digital, factor, stored>>
  BY <1>6
<1> QED BY <1>1, <1>2, <1>3, <1>4, <1>5, <1>6 DEF WlNext, wlVars, WlSettings

SdiTypes ==
  /\ asked \in 0 .. Sensors + 1
  /\ values \in [1 .. Sensors -> [Slots -> Int]]
  /\ sdiOut \in [1 .. Sensors -> Int]
  /\ rounds \in 0 .. MaxRounds

LEMMA ExtractIsInt ==
  ASSUME NEW sensor \in 1 .. Sensors, NEW arr \in [Slots -> Int]
  PROVE  Extract(sensor, arr) \in Int
<1>1. 1 <= MaxVal /\ (1 + 1) \div 2 = 1 /\ 1 - 1 = 0
  BY ReadingsAssumption
<1>2. MedianIn(arr, 1) \in Int
  BY <1>1, LastIsInt, ReadingsAssumption DEF MedianIn
<1>3. LastIn(arr, 1) \in Int
  BY <1>1, LastIsInt, ReadingsAssumption DEF LastIn
<1>4. Param[sensor] \in {"median", "max", "sum"}
  BY SdiAssumption
<1>5. SumIn(arr, 1) \in Int
  BY <1>1, SumOfOne, ReadingsAssumption DEF Slots
<1> QED BY <1>2, <1>3, <1>4, <1>5 DEF Extract

LEMMA ParsedIsInt ==
  ASSUME NEW text \in Seq(Answers)
  PROVE  Parsed(text) \in Int
<1>1. \A a \in Answers : a.value \in Int
  <2>1. \A a \in Answers : a.value \in Values
    BY DEF Answers
  <2>2. Values \subseteq Int
    BY SdiAssumption
  <2> QED BY <2>1, <2>2
<1>2. text # <<>> => text[1] \in Answers
  OBVIOUS
<1> QED BY <1>1, <1>2, ReadingsAssumption DEF Parsed

LEMMA SdiTyped == LateInv /\ SdiTypes /\ [SdiNext]_sdiVars => SdiTypes'
<1> SUFFICES ASSUME LateInv, SdiTypes, [SdiNext]_sdiVars
             PROVE  SdiTypes'
  OBVIOUS
<1> USE DEF SdiTypes
<1>0. Sensors \in Nat \ {0} /\ MaxRounds \in Nat /\ MaxVal \in Nat /\ NoValue \in Int
  BY SdiAssumption, ReadingsAssumption
<1>1. CASE ReadWire
  <2>1. asked \in 1 .. Sensors /\ asked' = asked + 1 /\ UNCHANGED rounds
    BY <1>1 DEF ReadWire
  <2>4. PICK text, follows \in Seq(Answers) : Take(text, follows)
    BY <1>1, ReadingCosts
  <2>5. Parsed(text) \in Int
    BY ParsedIsInt
  <2> DEFINE arr == Insert(Parsed(text), values[asked])
  <2>6. arr \in [Slots -> Int]
    BY <2>1, <2>5, InsertIsArray
  <2> HIDE DEF arr
  <2>7. Extract(asked, arr) \in Int
    BY <2>1, <2>6, ExtractIsInt
  <2>8. /\ values' = [values EXCEPT ![asked] = arr]
        /\ sdiOut' = [sdiOut EXCEPT ![asked] = Extract(asked, arr)]
    BY <2>4 DEF Take, arr
  <2>9. values' \in [1 .. Sensors -> [Slots -> Int]] /\ sdiOut' \in [1 .. Sensors -> Int]
    BY <2>6, <2>7, <2>8
  <2>10. asked' \in 0 .. Sensors + 1 /\ rounds' \in 0 .. MaxRounds
    BY <1>0, <2>1
  <2> QED BY <2>9, <2>10
<1>2. CASE SdiClear /\ asked' \in {0, asked} /\ UNCHANGED <<sdiOut, rounds>>
  <2>1. \A arr \in [Slots -> Int] : Cleared(arr) \in [Slots -> Int]
    BY <1>0 DEF Cleared
  <2>2. values' \in [1 .. Sensors -> [Slots -> Int]]
    BY <1>2, <2>1 DEF SdiClear
  <2>3. asked' \in 0 .. Sensors + 1
    BY <1>0, <1>2
  <2> QED BY <1>2, <2>2, <2>3
<1>3. CASE SdiRestart
  <2>1. Empty \in [Slots -> Int]
    BY <1>0 DEF Empty
  <2>2. values' \in [1 .. Sensors -> [Slots -> Int]] /\ sdiOut' \in [1 .. Sensors -> Int]
    BY <1>0, <1>3, <2>1 DEF SdiRestart
  <2>3. asked' \in 0 .. Sensors + 1 /\ rounds' = rounds
    BY <1>0, <1>3 DEF SdiRestart
  <2> QED BY <2>2, <2>3
<1>4. CASE SdiPublish
  <2>1. asked' \in 0 .. Sensors + 1 /\ rounds' \in 0 .. MaxRounds
    BY <1>0, <1>4 DEF SdiPublish
  <2> QED BY <1>4, <2>1 DEF SdiPublish
<1>5. CASE UNCHANGED <<asked, values, sdiOut, rounds>>
  BY <1>5
<1> QED
  BY <1>1, <1>2, <1>3, <1>4, <1>5 DEF SdiNext, SdiStep, SdiPublished, LateAnswer, sdiVars

\* Pulses, volumes and totals; a count is made after a second at least.
LEMMA VolumeIsNat ==
  ASSUME NEW pulses \in Nat, NEW seconds \in Nat \ {0}
  PROVE  Volume(pulses, seconds) \in Nat
<1>1. \A n \in Nat : n \div seconds \in Nat
  OBVIOUS
<1>2. Unit * pulses \in Nat /\ Difference \in Nat
  BY FlowAssumption
<1> QED BY <1>1, <1>2 DEF Volume

FlowTypes ==
  /\ FlowTypeOK
  /\ step = "count" => elapsed >= 1

LEMMA FlowTyped == FlowTypes /\ [FlowNext]_flowVars => FlowTypes'
<1> SUFFICES ASSUME FlowTypes, [FlowNext]_flowVars
             PROVE  FlowTypes'
  OBVIOUS
<1> USE DEF FlowTypes, FlowTypeOK
<1>0. /\ PulseMod \in Nat \ {0} /\ MaxLag \in Nat /\ MaxPulses \in Nat
      /\ 0 \in 0 .. PulseMod - 1 /\ 0 \in 0 .. MaxLag
  BY FlowAssumption
<1>1. CASE Pulse
  <2>1. (pulseCount + 1) % PulseMod \in 0 .. PulseMod - 1
    BY <1>0
  <2>2. pulseCount' \in 0 .. PulseMod - 1
    BY <1>1, <2>1 DEF Pulse
  <2>3. missed' \in Nat
    BY <1>0, <1>1 DEF Pulse
  <2>4. arrived' \in 0 .. MaxPulses
    BY <1>0, <1>1 DEF Pulse
  <2> QED BY <1>1, <2>2, <2>3, <2>4 DEF Pulse
<1>2. CASE FlowTick
  <2>1. elapsed' \in 0 .. MaxLag
    BY <1>0, <1>2 DEF FlowTick
  <2> QED BY <1>2, <2>1 DEF FlowTick
<1>3. CASE ProcessRead
  BY <1>3 DEF ProcessRead
<1>4. CASE Discard
  <2>1. thrown' \in Nat
    BY <1>4 DEF Discard
  <2> QED BY <1>0, <1>4, <2>1 DEF Discard
<1>5. CASE Count
  <2> DEFINE volume == Volume(pulseCount, elapsed)
  <2>1. volume \in Nat
    <3>1. pulseCount \in Nat /\ elapsed \in Nat \ {0}
      BY <1>5 DEF Count
    <3> QED BY <3>1, VolumeIsNat
  <2>2. currentFlow' = currentFlow + volume /\ total' = total + volume
    BY <1>5 DEF Count
  <2> HIDE DEF volume
  <2>3. currentFlow' \in Nat /\ total' \in Nat
    BY <2>1, <2>2
  <2>4. counted' \in Nat
    BY <1>5 DEF Count
  <2> QED BY <1>0, <1>5, <2>3, <2>4 DEF Count
<1>6. CASE FlowRestart
  <2>1. total' \in Nat /\ reported' \in Nat
    BY <1>6 DEF FlowRestart
  <2>2. missed' \in Nat
    BY <1>6 DEF FlowRestart
  <2> QED BY <1>0, <1>6, <2>1, <2>2 DEF FlowRestart
<1>7. CASE FlowPublish /\ FlowClear
  <2>1. flash' \in [version : {0, 1}, total : Nat] /\ currentFlow' \in Nat
    BY <1>7 DEF FlowPublish, SetFlow, FlowClear
  <2> QED BY <1>7, <2>1 DEF FlowPublish
<1>9. CASE ClearTotal
  BY <1>9 DEF ClearTotal
<1>10. CASE Calibrate
  BY <1>10 DEF Calibrate
<1>11. CASE /\ FlowClear
            /\ UNCHANGED <<pulseCount, attached, elapsed, step, total, flash, arrived, counted,
                           missed, thrown, reported, blind>>
  BY <1>11 DEF FlowClear
<1>8. CASE UNCHANGED flowVars
  BY <1>8 DEF flowVars
<1> QED
  BY <1>1, <1>2, <1>3, <1>4, <1>5, <1>6, <1>7, <1>8, <1>9, <1>10,
     <1>11 DEF FlowNext, FlowStep

RelayTypes ==
  /\ runTime \in 0 .. MaxRun
  /\ age \in 0 .. MaxRun + 1
  /\ commands \in 0 .. MaxCommands
  /\ started \in BOOLEAN

LEMMA RelayTyped == RelayTypes /\ [RelayNext]_relayVars => RelayTypes'
<1> SUFFICES ASSUME RelayTypes, [RelayNext]_relayVars
             PROVE  RelayTypes'
  OBVIOUS
<1> USE DEF RelayTypes
<1>0. MaxRun \in Nat /\ MaxCommands \in Nat /\ 0 \in 0 .. MaxRun /\ 0 \in 0 .. MaxRun + 1
  BY RelayAssumption
<1>1. Command => commands' \in 0 .. MaxCommands
  BY <1>0 DEF Command
<1>2. RelayOff => UNCHANGED age /\ runTime' \in 0 .. MaxRun /\ started' \in BOOLEAN
  BY <1>0 DEF RelayOff
<1>3. RelayOn => age' \in 0 .. MaxRun + 1 /\ started' \in BOOLEAN
  BY <1>0 DEF RelayOn
<1>4. CASE TurnOn
  BY <1>1, <1>3, <1>4 DEF TurnOn
<1>5. CASE TurnOff \/ RelayLoop
  BY <1>1, <1>2, <1>5 DEF TurnOff, RelayLoop
<1>6. CASE Toggle
  BY <1>1, <1>2, <1>3, <1>6 DEF Toggle
<1>7. CASE SetInvert
  BY <1>1, <1>7 DEF SetInvert
<1>8. CASE RelayRestart
  BY <1>0, <1>8 DEF RelayRestart
<1>9. CASE RelayTick
  <2>1. age' \in 0 .. MaxRun + 1
    BY <1>0, <1>9 DEF RelayTick
  <2> QED BY <1>9, <2>1 DEF RelayTick
<1>10. CASE UNCHANGED relayVars
  BY <1>10 DEF relayVars
<1> QED BY <1>4, <1>5, <1>6, <1>7, <1>8, <1>9, <1>10 DEF RelayNext

VideoTypes ==
  /\ powered \in BOOLEAN
  /\ frame \in {"nothing", "head", "picture", "empty", "end"}
  /\ offset \in Offsets \cup {DefaultOffset} \cup 0 .. CountMod - 1
  /\ storedOffset \in -1 .. CountMod - 1

LEMMA VideoTyped == VideoTypes /\ [VideoNext]_videoVars => VideoTypes'
<1> SUFFICES ASSUME VideoTypes, [VideoNext]_videoVars
             PROVE  VideoTypes'
  OBVIOUS
<1> USE DEF VideoTypes
<1>1. CASE SetOffset
  <2> PICK value \in Offsets : offset' = value /\ storedOffset' = Cadence(value)
    BY <1>1 DEF SetOffset
  <2>1. Cadence(value) \in 0 .. CountMod - 1
    BY CadenceIsByte, VideoAssumption
  <2>2. storedOffset' \in -1 .. CountMod - 1
    BY <2>1, VideoAssumption
  <2> QED BY <1>1, <2>2 DEF SetOffset
<1>2. CASE VideoRestart
  <2>1. offset' \in {DefaultOffset} \cup 0 .. CountMod - 1
    BY <1>2, VideoAssumption DEF VideoRestart
  <2> QED BY <1>2, <2>1 DEF VideoRestart
<1>3. CASE PowerOn \/ Transmit
  BY <1>3 DEF PowerOn, Transmit
<1>4. CASE Fails \/ Finish
  BY <1>4 DEF Fails, GiveUp, Finish, Off
<1>5. CASE UNCHANGED <<powered, frame, offset, storedOffset>>
  BY <1>5
<1> QED
  BY <1>1, <1>2, <1>3, <1>4, <1>5 DEF VideoNext, VideoStep, videoVars, VideoPublish, VideoCounts,
                                      Connect, Snap, ShotOver

IpTypes ==
  /\ queued \in 0 .. QueueSize
  /\ working \in BOOLEAN /\ snapRequested \in BOOLEAN
  /\ sendOffset \in SnapOffsets \cup 1 .. SendMod - 1
  /\ storedSend \in 0 .. SendMod - 1
  /\ sendCount \in 0 .. SendMod - 1
  /\ snaps \in 0 .. MaxSnaps

LEMMA IpTyped == IpTypes /\ [IpNext]_ipVars => IpTypes'
<1> SUFFICES ASSUME IpTypes, [IpNext]_ipVars
             PROVE  IpTypes'
  OBVIOUS
<1> USE DEF IpTypes
<1>0. /\ QueueSize \in Nat \ {0} /\ MaxSnaps \in Nat /\ 0 \in 0 .. QueueSize
      /\ SendMod \in Nat /\ 1 < SendMod /\ SnapOffsets \subseteq Nat
      /\ 0 \in 0 .. SendMod - 1 /\ 1 \in 1 .. SendMod - 1
  BY IPCameraAssumption
<1>1. Enqueue => queued' \in 0 .. QueueSize
  BY <1>0 DEF Enqueue
<1>2. snaps < MaxSnaps => snaps + 1 \in 0 .. MaxSnaps
  BY <1>0
<1>3. CASE IpCounts
  <2>1. Byte(sendCount + 1) \in 0 .. SendMod - 1
    BY <1>0, ByteIsSmall
  <2>2. sendCount' \in {0, Byte(sendCount + 1)}
    BY <1>3 DEF IpCounts
  <2>3. sendCount' \in 0 .. SendMod - 1
    BY <1>0, <2>1, <2>2
  <2>4. queued' \in 0 .. QueueSize
    BY <1>1, <1>3 DEF IpCounts
  <2> QED BY <1>2, <1>3, <2>3, <2>4 DEF IpCounts, backoffVars
<1>4. CASE SnapNow
  BY <1>2, <1>4 DEF SnapNow, backoffVars
<1>5. CASE IpLoop
  BY <1>1, <1>5 DEF IpLoop, backoffVars
<1>6. CASE IpTake
  <2>1. queued' \in 0 .. QueueSize
    BY <1>0, <1>6 DEF IpTake
  <2> QED BY <1>6, <2>1 DEF IpTake
<1>7. CASE IpDone \/ IpTick
  BY <1>7 DEF IpDone, IpTick
<1>8. CASE SetSendOffset
  <2> PICK value \in SnapOffsets : sendOffset' = value /\ storedSend' = Byte(value)
    BY <1>8 DEF SetSendOffset
  <2>1. storedSend' \in 0 .. SendMod - 1
    BY <1>0, ByteIsSmall
  <2> QED BY <1>0, <1>8, <2>1 DEF SetSendOffset, backoffVars
<1>9. CASE IpRestart
  <2>1. sendOffset' \in 1 .. SendMod - 1
    BY <1>0, <1>9 DEF IpRestart
  <2> QED BY <1>0, <1>9, <2>1 DEF IpRestart
<1>10. CASE UNCHANGED ipVars
  BY <1>10 DEF ipVars
<1> QED
  BY <1>3, <1>4, <1>5, <1>6, <1>7, <1>8, <1>9, <1>10
     DEF IpNext, IpStep, IpPublish

SessionTypes ==
  /\ job \in {"none", "start", "pump"}
  /\ tunAge \in 0 .. TunnelTimeout + 1
  /\ nonce \in BOOLEAN /\ up \in BOOLEAN
  /\ header \in -1 .. HeaderMax
  /\ got \in {"nothing", "bytes", "close"}

LEMMA SessionTyped == SessionTypes /\ [TunnelNext]_tunnelVars => SessionTypes'
<1> SUFFICES ASSUME SessionTypes, [TunnelNext]_tunnelVars
             PROVE  SessionTypes'
  OBVIOUS
<1> USE DEF SessionTypes
<1>0. /\ TunnelTimeout \in Nat /\ HeaderMax \in Nat
      /\ 0 \in 0 .. TunnelTimeout + 1 /\ 0 \in -1 .. HeaderMax /\ -1 \in -1 .. HeaderMax
  BY TunnelAssumption
<1>1. CASE TakeJob
  BY <1>1 DEF TakeJob
<1>2. CASE StartFails
  BY <1>0, <1>2 DEF StartFails
<1>3. CASE StartFresh \/ StartStale
  BY <1>0, <1>3 DEF StartFresh, StartStale
<1>4. CASE Report
  BY <1>4 DEF Report
<1>5. CASE TunnelTick
  <2>1. tunAge' \in 0 .. TunnelTimeout + 1
    BY <1>0, <1>5 DEF TunnelTick
  <2> QED BY <1>5, <2>1 DEF TunnelTick
<1>6. CASE TimesOut \/ Disconnected \/ ConnectionLost
  BY <1>6 DEF TimesOut, Disconnected, ConnectionLost, Close, Same, Unchanged
<1>7. CASE Challenge \/ AuthOk \/ AuthFail \/ Open
  BY <1>7 DEF Challenge, AuthOk, AuthFail, Open, Close, Same, Unchanged
<1>8. CASE ServerCloses \/ CamToServer \/ CameraGone
  BY <1>8 DEF ServerCloses, CamToServer, CameraGone, Close, Same
<1>9. CASE Data
  <2>1. \/ header + 1 < HeaderMax /\ header' = header + 1
        \/ header' = -1
        \/ UNCHANGED header
    BY <1>9, Zenon DEF Data
  <2>3. header' \in -1 .. HeaderMax
    BY <1>0, <2>1
  <2>2. up' \in BOOLEAN /\ UNCHANGED <<job, tunAge, nonce, got>>
    BY <1>9 DEF Data, Close, Same
  <2> QED BY <2>2, <2>3
<1>10. CASE TunnelRestart
  BY <1>0, <1>10 DEF TunnelRestart
<1>11. CASE UNCHANGED tunnelVars
  BY <1>11 DEF tunnelVars
<1> QED
  BY <1>1, <1>2, <1>3, <1>4, <1>5, <1>6, <1>7, <1>8, <1>9, <1>10, <1>11 DEF TunnelNext, TunnelStep

BoardTypes ==
  /\ pub \in {DefaultPub} \cup Intervals
  /\ zone \in {DefaultZone} \cup Zones
  /\ lowPower \in {0} \cup LowPowers
  /\ maintained \in BOOLEAN
  /\ config \in [version : {1}, pub : {DefaultPub} \cup Intervals,
                 zone : {DefaultZone} \cup Zones, low : {0} \cup LowPowers]

LEMMA BoardTyped == BoardTypes /\ [SettingsNext]_settingsVars => BoardTypes'
<1> SUFFICES ASSUME BoardTypes, [SettingsNext]_settingsVars
             PROVE  BoardTypes'
  OBVIOUS
<1> USE DEF BoardTypes
<1>1. CASE \E interval \in Intervals : BuildSendInterval(interval)
  BY <1>1 DEF BuildSendInterval, SavedConfig
<1>2. CASE SetTimeZone
  BY <1>2 DEF SetTimeZone, SavedConfig
<1>3. CASE SetLowPower
  BY <1>3 DEF SetLowPower, SavedConfig
<1>4. CASE SetMaintenanceMode
  BY <1>4 DEF SetMaintenanceMode
<1>5. CASE RestoreDefaults
  BY <1>5 DEF RestoreDefaults, Defaults
<1>6. CASE SettingsRestart
  BY <1>6 DEF SettingsRestart, SavedConfig
<1>7. CASE UNCHANGED settingsVars
  BY <1>7 DEF settingsVars
<1> QED BY <1>1, <1>2, <1>3, <1>4, <1>5, <1>6, <1>7 DEF SettingsNext

-----------------------------------------------------------------------------
(* Answers *)

\* An array that holds nothing behind its first slot.
OneAtMost(arr) == \A j \in Slots \ {0} : arr[j] = NoValue

LEMMA EmptyHoldsNothing == OneAtMost(Empty) /\ Empty[MaxVal] = NoValue
BY ReadingsAssumption DEF OneAtMost, Empty, Slots

\* One value inserted into it never comes near the slot that a clear leaves.
LEMMA InsertStaysLow ==
  ASSUME MaxVal > 1, NEW value \in Int, NEW arr \in [Slots -> Int], OneAtMost(arr)
  PROVE  Insert(value, arr)[MaxVal] = NoValue
<1>1. MaxVal \in Nat /\ 1 \in Slots \ {0} /\ MaxVal \in Slots \ {0}
  BY ReadingsAssumption DEF Slots
<1>2. /\ IndexFor(value, arr) \in Slots
      /\ \A k \in 0 .. IndexFor(value, arr) - 1 : ~StopsAt(value, arr, k)
  BY StopIsFound
<1> DEFINE index == IndexFor(value, arr)
<1> HIDE DEF index
<1>3. StopsAt(value, arr, 1)
  BY <1>1 DEF StopsAt, OneAtMost
<1>4. index < MaxVal
  BY <1>1, <1>2, <1>3 DEF Slots, index
<1>5. Insert(value, arr) = Shift(value, index, arr)
  BY DEF Insert, index
<1> QED BY <1>1, <1>4, <1>5 DEF Shift, OneAtMost

\* Inserted into an empty array it is the first.
LEMMA InsertFirst ==
  ASSUME NEW value \in Int
  PROVE  Insert(value, Empty) = [Empty EXCEPT ![0] = value]
<1>1. MaxVal \in Nat /\ MaxVal > 0 /\ NoValue \in Int /\ 0 \in Slots
  BY ReadingsAssumption DEF Slots
<1>2. Empty \in [Slots -> Int]
  BY <1>1 DEF Empty
<1>3. /\ IndexFor(value, Empty) \in Slots
      /\ \A k \in 0 .. IndexFor(value, Empty) - 1 : ~StopsAt(value, Empty, k)
  BY <1>2, StopIsFound
<1>4. StopsAt(value, Empty, 0)
  BY <1>1 DEF StopsAt, Empty
<1>5. IndexFor(value, Empty) = 0
  <2> DEFINE index == IndexFor(value, Empty)
  <2>1. index \in Slots /\ \A k \in 0 .. index - 1 : ~StopsAt(value, Empty, k)
    BY <1>3
  <2> HIDE DEF index
  <2>2. ~(0 \in 0 .. index - 1)
    BY <1>4, <2>1
  <2>3. index \in Nat
    BY <1>1, <2>1 DEF Slots
  <2>4. index = 0
    BY <2>2, <2>3
  <2> QED BY <2>4 DEF index
<1>6. Insert(value, Empty) = Shift(value, 0, Empty)
  BY <1>5, Zenon DEF Insert
<1>7. \A j \in Slots : j # 0 /\ j < MaxVal => j - 1 \in Slots
  BY <1>1 DEF Slots
<1>8. \A j \in Slots : Shift(value, 0, Empty)[j] = IF j = 0 THEN value ELSE NoValue
  BY <1>7 DEF Shift, Empty
<1>9. \A j \in Slots : [Empty EXCEPT ![0] = value][j] = IF j = 0 THEN value ELSE NoValue
  BY DEF Empty
<1>10. /\ Shift(value, 0, Empty) = [j \in Slots |-> Shift(value, 0, Empty)[j]]
       /\ [Empty EXCEPT ![0] = value] = [j \in Slots |-> [Empty EXCEPT ![0] = value][j]]
  BY DEF Shift, Empty
<1> QED BY <1>6, <1>8, <1>9, <1>10

\* Of an array with one value that value is published, or a failure.
LEMMA ExtractOfOne ==
  ASSUME NEW sensor \in 1 .. Sensors, NEW value \in Int, MaxVal > 1
  PROVE  LET arr == [Empty EXCEPT ![0] = value]
         IN  Extract(sensor, arr) \in {value, NoValue}
<1> DEFINE arr == [Empty EXCEPT ![0] = value]
<1>1. MaxVal \in Nat /\ NoValue \in Int /\ 0 \in Slots
  BY ReadingsAssumption DEF Slots
<1>2. arr \in [Slots -> Int] /\ arr[0] = value /\ OneAtMost(arr)
  BY <1>1 DEF Empty, OneAtMost
<1> HIDE DEF arr
<1>3. ASSUME NEW top \in 0 .. 1
      PROVE  LastUpTo(top, arr) \in {value, NoValue}
  <2> DEFINE held == {j \in 0 .. top : arr[j] # NoValue}
  <2>1. \A j \in 1 .. top : j \in Slots \ {0}
    BY <1>1 DEF Slots
  <2>2. \A j \in held : j = 0
    BY <2>1, <1>2 DEF OneAtMost
  <2>3. CASE held = {}
    BY <2>3 DEF LastUpTo
  <2>4. CASE held # {}
    <3>1. 0 \in held /\ \A k \in held : k <= 0
      BY <2>2, <2>4
    <3> DEFINE n == CHOOSE j \in held : \A k \in held : k <= j
    <3>2. n \in held
      BY <3>1
    <3>3. n = 0
      BY <2>2, <3>2
    <3>4. LastUpTo(top, arr) = arr[n]
      BY <2>4, Zenon DEF LastUpTo
    <3> HIDE DEF n
    <3> QED BY <1>2, <3>3, <3>4
  <2> QED BY <2>3, <2>4
<1>4. MedianIn(arr, 1) \in {value, NoValue}
  <2>1. (1 + 1) \div 2 = 1
    OBVIOUS
  <2> QED BY <1>3, <2>1 DEF MedianIn
<1>5. LastIn(arr, 1) \in {value, NoValue}
  BY <1>3 DEF LastIn
<1>6. SumIn(arr, 1) \in {value, NoValue}
  BY <1>2, SumOfOne
<1>7. Param[sensor] \in {"median", "max", "sum"}
  BY SdiAssumption
<1> QED BY <1>4, <1>5, <1>6, <1>7 DEF Extract, arr

\* Until its turn comes a sensor's array is as the last clear left it; before
\* the first one it may hold what was in memory, in its first slot.
TurnInv ==
  /\ \A s \in 1 .. Sensors : values[s][MaxVal] = NoValue
  /\ \A s \in 1 .. Sensors :
       asked <= s => OneAtMost(values[s]) /\ (wiped => values[s] = Empty)

LEMMA TurnKeeps ==
  ASSUME MaxVal > 1, LateInv, SdiTypes, TurnInv, [SdiNext]_sdiVars
  PROVE  TurnInv'
<1>0. Sensors \in Nat \ {0} /\ MaxVal \in Nat /\ NoValue \in Int /\ asked \in Int
  BY SdiAssumption, ReadingsAssumption DEF SdiTypes
<1>1. CASE ReadWire
  <2>1. asked \in 1 .. Sensors /\ asked' = asked + 1 /\ UNCHANGED wiped
    BY <1>1 DEF ReadWire
  <2>2. PICK text, follows \in Seq(Answers) : Take(text, follows)
    BY <1>1, ReadingCosts
  <2>3. values' = [values EXCEPT ![asked] = Insert(Parsed(text), values[asked])]
    BY <2>2 DEF Take
  <2>4. Parsed(text) \in Int
    BY ParsedIsInt
  <2>5. values[asked] \in [Slots -> Int] /\ OneAtMost(values[asked])
    BY <1>0, <2>1 DEF SdiTypes, TurnInv
  <2>6. Insert(Parsed(text), values[asked])[MaxVal] = NoValue
    BY <2>4, <2>5, InsertStaysLow
  <2>7. \A s \in 1 .. Sensors : s # asked => values'[s] = values[s]
    BY <2>3 DEF SdiTypes
  <2>8. values'[asked] = Insert(Parsed(text), values[asked])
    BY <2>1, <2>3 DEF SdiTypes
  <2>9. \A s \in 1 .. Sensors : values'[s][MaxVal] = NoValue
    BY <2>6, <2>7, <2>8 DEF TurnInv
  <2>10. \A s \in 1 .. Sensors : asked' <= s => asked <= s /\ s # asked
    BY <1>0, <2>1
  <2> QED BY <2>1, <2>7, <2>9, <2>10 DEF TurnInv
<1>2. CASE SdiClear
  <2>1. \A s \in 1 .. Sensors : Cleared(values[s]) = Empty
    <3> SUFFICES ASSUME NEW s \in 1 .. Sensors
                 PROVE  Cleared(values[s]) = Empty
      OBVIOUS
    <3>1. values[s][MaxVal] = NoValue
      BY DEF TurnInv
    <3>2. \A j \in Slots : j < MaxVal \/ j = MaxVal
      BY <1>0 DEF Slots
    <3> QED BY <3>1, <3>2 DEF Cleared, Empty
  <2>2. \A s \in 1 .. Sensors : values'[s] = Empty
    BY <1>2, <2>1 DEF SdiClear
  <2> QED BY <2>2, EmptyHoldsNothing DEF TurnInv
<1>3. CASE SdiRestart
  <2>1. \A s \in 1 .. Sensors : values'[s] = Empty
    BY <1>3 DEF SdiRestart
  <2> QED BY <2>1, EmptyHoldsNothing DEF TurnInv
<1>4. CASE SdiPublish
  <2>1. asked = 0 /\ asked' = 1 /\ UNCHANGED <<values, wiped>>
    BY <1>4 DEF SdiPublish
  <2>2. \A s \in 1 .. Sensors : asked <= s
    BY <2>1
  <2> QED BY <2>1, <2>2 DEF TurnInv
<1>5. CASE UNCHANGED <<asked, values, wiped>>
  BY <1>5 DEF TurnInv
<1> QED
  BY <1>1, <1>2, <1>3, <1>4, <1>5 DEF SdiNext, SdiStep, SdiPublished, LateAnswer, sdiVars

\* PublishesOwnAnswer of one step.
OwnStep ==
  late' = 0 /\ wiped /\ asked \in 1 .. Sensors /\ asked' = asked + 1
  => /\ sdiOut'[asked] \in Values \cup {NoValue}
     /\ sdiOut'[asked] # NoValue => values'[asked][0] = sdiOut'[asked]
     /\ \A j \in Slots \ {0} : values'[asked][j] = NoValue

LEMMA OwnAnswer ==
  ASSUME MaxVal > 1, LateInv, SdiTypes, TurnInv, [SdiNext]_sdiVars
  PROVE  OwnStep
<1> SUFFICES ASSUME late' = 0, wiped, asked \in 1 .. Sensors, asked' = asked + 1
             PROVE  /\ sdiOut'[asked] \in Values \cup {NoValue}
                    /\ sdiOut'[asked] # NoValue => values'[asked][0] = sdiOut'[asked]
                    /\ \A j \in Slots \ {0} : values'[asked][j] = NoValue
  BY Zenon DEF OwnStep
<1>0. /\ Sensors \in Nat \ {0} /\ Values \subseteq Int
      /\ MaxVal \in Nat /\ NoValue \in Int /\ 0 \in Slots
  BY SdiAssumption, ReadingsAssumption DEF Slots
<1>1. ReadWire
  <2>1. asked \in Int /\ asked' # asked /\ asked' # 0 /\ asked # 0
    BY <1>0
  <2> QED
    BY <2>1
       DEF SdiNext, SdiStep, SdiPublish, SdiPublished, LateAnswer, SdiRestart, SdiClear, sdiVars
<1>2. PICK n \in 0 .. Len(onWire), broken \in {0, 1}, value \in Values :
        LET before == heard \o SubSeq(onWire, 1, n)
            part == SubSeq(onWire, n + 1, n + broken)
            rest == SubSeq(onWire, n + broken + 1, Len(onWire))
            own == [of |-> asked, value |-> value]
        IN  /\ n + broken <= Len(onWire)
            /\ \/ /\ Take(before \o <<own>> \o part, part)
                  /\ Spoils(before)
                  /\ onWire' = rest /\ late' = late
                  /\ cut' = cut + broken
               \/ /\ Take(before \o part, part)
                  /\ Spoils(before \o part)
                  /\ \/ onWire' = rest /\ late' = late
                     \/ onWire' = Append(rest, own) /\ late' = late + 1
                  /\ cut' = cut + broken
               \/ /\ broken = 0
                  /\ Take(before \o <<own>>, <<own>>)
                  /\ Spoils(before \o <<own>>)
                  /\ onWire' = rest /\ late' = late + 1
                  /\ cut' = cut + 1
  BY <1>1, Zenon DEF ReadWire
<1> DEFINE before == heard \o SubSeq(onWire, 1, n)
           part == SubSeq(onWire, n + 1, n + broken)
           own == [of |-> asked, value |-> value]
<1>3. late = 0
  <2>1. late' = late \/ late' = late + 1
    BY <1>2, Zenon
  <2>2. late \in Nat
    BY DEF LateInv
  <2> QED BY <2>1, <2>2
<1>4. onWire = <<>> /\ heard = <<>>
  <2>1. Len(onWire) = 0 /\ Len(heard) = 0
    BY <1>3 DEF LateInv, LateSpoilsFew
  <2> QED BY <2>1 DEF LateInv
<1>5. before = <<>> /\ part = <<>>
  <2>1. n = 0 /\ broken = 0
    BY <1>2, <1>4
  <2> QED BY <1>4, <2>1
<1>6. own \in Answers
  BY <1>2 DEF Answers
<1>7. PICK text \in {<<>>, <<own>>}, follows \in Seq(Answers) : Take(text, follows)
  <2>1. late' # late + 1
    BY <1>3
  <2>2. \/ Take(before \o <<own>> \o part, part)
        \/ Take(before \o part, part)
    BY <1>2, <2>1
  <2> HIDE DEF before, part, own
  <2>3. before \o <<own>> \o part = <<own>> /\ before \o part = <<>> /\ part \in Seq(Answers)
    BY <1>5, <1>6
  <2> QED BY <2>2, <2>3
<1> DEFINE read == Parsed(text)
<1>8. read \in Values \cup {NoValue}
  BY <1>7 DEF Parsed
<1>9. read \in Int
  <2> HIDE DEF read
  <2> QED BY <1>0, <1>8
<1>10. values[asked] = Empty
  BY <1>0 DEF TurnInv
<1>11. /\ values' = [values EXCEPT ![asked] = Insert(read, values[asked])]
       /\ sdiOut' = [sdiOut EXCEPT ![asked] = Extract(asked, Insert(read, values[asked]))]
  BY <1>7 DEF Take
<1> HIDE DEF read, before, part, own
<1> DEFINE arr == [Empty EXCEPT ![0] = read]
<1>12. Insert(read, values[asked]) = arr
  BY <1>9, <1>10, InsertFirst
<1>13. Extract(asked, arr) \in {read, NoValue}
  BY <1>9, ExtractOfOne
<1>14. arr[0] = read /\ \A j \in Slots \ {0} : arr[j] = NoValue
  BY <1>0 DEF Empty
<1> HIDE DEF arr
<1>15. values'[asked] = arr /\ sdiOut'[asked] = Extract(asked, arr)
  BY <1>11, <1>12 DEF SdiTypes
<1> QED BY <1>8, <1>13, <1>14, <1>15

LEMMA TurnInit == ASSUME MaxVal > 1, Init PROVE TurnInv
<1>0. /\ MaxVal \in Nat /\ NoValue \in Int /\ 0 \in Slots /\ MaxVal \in Slots \ {0}
  BY ReadingsAssumption DEF Slots
<1>1. PICK junk \in SUBSET Leftovers : SdiAdded(junk)
  BY DEF Init
<1>2. values \in [1 .. Sensors -> {[Empty EXCEPT ![0] = v] : v \in junk \cup {NoValue}}]
  BY <1>1 DEF SdiAdded
<1>3. \A v \in junk \cup {NoValue} : OneAtMost([Empty EXCEPT ![0] = v])
  BY <1>0 DEF OneAtMost, Empty
<1>4. \A s \in 1 .. Sensors : OneAtMost(values[s])
  <2> SUFFICES ASSUME NEW s \in 1 .. Sensors
               PROVE  OneAtMost(values[s])
    OBVIOUS
  <2>1. values[s] \in {[Empty EXCEPT ![0] = v] : v \in junk \cup {NoValue}}
    BY <1>2
  <2>2. PICK v \in junk \cup {NoValue} : values[s] = [Empty EXCEPT ![0] = v]
    BY <2>1, Zenon
  <2> QED BY <1>3, <2>2, Zenon
<1>5. \A s \in 1 .. Sensors : values[s][MaxVal] = NoValue
  BY <1>0, <1>4 DEF OneAtMost
<1>6. wiped = (values = [s \in 1 .. Sensors |-> Empty])
  BY <1>1 DEF SdiAdded
<1>7. wiped => \A s \in 1 .. Sensors : values[s] = Empty
  BY <1>6
<1> QED BY <1>4, <1>5, <1>7 DEF TurnInv

-----------------------------------------------------------------------------
(* The board *)

SettingsInvs ==
  WlSettingsStored /\ FlowInv /\ SoilSurvives /\ SettingsInv /\ CadenceInv /\ SendInv

OutputsInv == RelayInv /\ ShotInv /\ CadenceInv /\ WaitInv

SessionsInv == TunnelInv /\ BackoffInv

LEMMA SettingsInit == Init => SettingsInvs
<1> SUFFICES ASSUME Init
             PROVE  SettingsInvs
  OBVIOUS
<1>1. WlSettingsStored
  <2>1. stored = DefaultConfig /\ digital = TRUE /\ factor = 1
    BY Zenon DEF Init, WlAdded
  <2> QED BY <2>1 DEF WlSettingsStored, DefaultConfig
<1>2. FlowInv
  BY DEF Init, FlowFresh, FlowInv, RestartKeepsReported
<1>3. SoilSurvives
  BY DEF Init, SoilFresh, SoilSurvives, SoilDefault
<1>4. SettingsInv
  BY DEF Init, SettingsFresh, Defaults, SettingsInv, BoardSettingsSurvive
<1>5. CadenceInv
  <2>1. offset = DefaultOffset /\ storedOffset = -1
    BY DEF Init, VideoFresh
  <2>2. DefaultOffset \in 0 .. CountMod - 1 /\ DefaultOffset \in Int /\ -1 \in -1 .. CountMod - 1
    BY VideoAssumption
  <2>3. Cadence(DefaultOffset) = DefaultOffset
    BY <2>2, CadenceIsByte
  <2> QED BY <2>1, <2>2, <2>3, Zenon DEF CadenceInv, VideoOffsetStored
<1>6. SendInv
  <2>1. SendMod \in Nat /\ 1 < SendMod
    BY IPCameraAssumption
  <2>2. Byte(1) = 1
    BY <2>1, ByteIsSmall
  <2>3. sendOffset = 1 /\ storedSend = 0
    BY DEF Init, IpFresh
  <2> QED BY <2>1, <2>2, <2>3 DEF SendInv, SendOffsetStored
<1> QED BY <1>1, <1>2, <1>3, <1>4, <1>5, <1>6 DEF SettingsInvs

LEMMA OutputsInit == Init => OutputsInv
<1> SUFFICES ASSUME Init
             PROVE  OutputsInv
  OBVIOUS
<1>1. RelayInv
  BY DEF Init, RelayFresh, RelayInv, RelayReportsPin, PowOn, PowOff
<1>2. ShotInv
  BY DEF Init, VideoFresh, ShotInv, CameraIsDark
<1>3. CadenceInv
  BY SettingsInit DEF SettingsInvs
<1>4. WaitInv
  <2> DEFINE each == Cadence(offset)
             rest == 0 % each
  <2>1. each \in 0 .. CountMod - 1 /\ 0 \in Int /\ 0 \in Nat /\ 0 \in 0 .. CountMod - 1
    BY <1>3, CadenceIsByte, VideoAssumption DEF CadenceInv
  <2>2. offsetCount = 0 /\ waited = 0
    BY DEF Init, VideoFresh
  <2> HIDE DEF each
  <2>3. ASSUME each # 0
        PROVE  rest \in 0 .. each - 1
    <3>1. each \in Nat \ {0}
      BY <2>1, <2>3
    <3> QED BY <2>1, <3>1, Remainder, Zenon
  <2> HIDE DEF rest
  <2>4. each # 0 => 0 <= rest
    BY <2>1, <2>3
  <2> QED BY <2>1, <2>2, <2>4, Zenon DEF WaitInv, rest, each
<1> QED BY <1>1, <1>2, <1>3, <1>4 DEF OutputsInv

LEMMA SessionsInit == Init => SessionsInv
<1> SUFFICES ASSUME Init
             PROVE  SessionsInv
  OBVIOUS
<1>1. TunnelInv
  <2>1. 0 \in 0 .. JobTimeout
    BY TunnelAssumption
  <2> QED
    BY <2>1 DEF Init, TunnelFresh, TunnelInv, TunnelTypes, Waits, Finds, LeftOver, OkIsOfThisJob,
                OneJobWasted
<1>2. BackoffInv
  <2>1. /\ 0 \in 0 .. ClockMod - 1 /\ MinBackoff \in MinBackoff .. MaxBackoff
        /\ MaxBackoff \in 0 .. MaxBackoff
    BY IPCameraAssumption
  <2>2. clock = 0 /\ nextStart = 0 /\ backoff = MinBackoff /\ sinceFailure = MaxBackoff /\ ~wrapped
        /\ wrapped \in BOOLEAN
    BY DEF Init, IpFresh
  <2>3. BackoffTypes
    BY <2>1, <2>2 DEF BackoffTypes
  <2> QED BY <2>2, <2>3 DEF BackoffInv, Remaining
<1> QED BY <1>1, <1>2 DEF SessionsInv

\* What is in use is what a restart loads, and no total is lost: the setters of
\* WlDevice, SoilMoisture, VideoCapture, IPCamera and Bootstrap, and the flow
\* meter's clear and publish, in any order and for settings of any size; of the
\* cameras' settings it is the byte.
THEOREM SettingsAlwaysSurvive == Spec => []SettingsSurvive
<1>1. SettingsInvs /\ [Next]_vars => SettingsInvs'
  BY StepOfOne, WlKeeps, FlowKeeps, SoilKeeps, SettingsKeep, CadenceKeeps, SendOffsetKeeps
     DEF SettingsInvs
<1>2. SettingsInvs => SettingsSurvive
  BY DEF SettingsInvs, SettingsSurvive, FlowInv, SettingsInv, CadenceInv, SendInv
<1> QED BY SettingsInit, <1>1, <1>2, PTL DEF Spec

\* The relay's pin is what is reported of it, the serial camera is powered in a
\* shot only and left connected only without a picture, and no more publications
\* go by without a shot than the byte of its setting says, unless that is 0
\* (Relay, VideoCapture::takeShot, transmitImageData, readySend).
THEOREM OutputsAreAlwaysKnown == Spec => []OutputsAreKnown
<1>1. OutputsInv /\ [Next]_vars => OutputsInv'
  BY StepOfOne, RelayKeeps, ShotKeeps, CadenceKeeps, WaitKeeps DEF OutputsInv
<1>2. OutputsInv => OutputsAreKnown
  BY WaitMeans DEF OutputsInv, OutputsAreKnown, RelayInv, ShotInv
<1> QED BY OutputsInit, <1>1, <1>2, PTL DEF Spec

\* A camera session is its job's: the camera is connected in it only, a success
\* rests on bytes the camera gave in it or on the server's close, the remains of
\* one cost one job, and the refusal after a failure ends (WssRtspTunnel,
\* IPCamera::taskMain, enqueueSnap).
THEOREM SessionsAreAlwaysOwn == Spec => []SessionsAreOwn
<1>1. SessionsInv /\ [Next]_vars => SessionsInv'
  BY StepOfOne, TunnelKeeps, BackoffKeeps DEF SessionsInv
<1>2. SessionsInv => SessionsAreOwn
  <2>1. TunnelInv => CameraOnlyInSession /\ OkIsOfThisJob /\ OneJobWasted
    BY DEF TunnelInv, TunnelTypes, Waits, Starts, Pumps, Finds, CameraOnlyInSession
  <2>2. BackoffInv => BackoffEnds
    BY IPCameraAssumption DEF BackoffInv, BackoffTypes, Remaining, BackoffEnds
  <2> QED BY <2>1, <2>2 DEF SessionsInv, SessionsAreOwn
<1> QED BY SessionsInit, <1>1, <1>2, PTL DEF Spec

ReadingsInv == WindowInv /\ AccelInv /\ PulsesInv /\ LateInv

LEMMA ReadingsInit == Init => ReadingsInv
<1> SUFFICES ASSUME Init
             PROVE  ReadingsInv
  OBVIOUS
<1>0. MaxVal \in Nat /\ MaxVal > 0 /\ NoValue \in Int /\ Leftovers \subseteq Int
  BY ReadingsAssumption, FieldAssumption
<1>1. WindowInv
  <2>1. /\ hold \in [Slots -> Leftovers \cup {NoValue}]
        /\ cleared = (hold = Empty)
        /\ window = [v \in Distances |-> 0]
    BY DEF Init, WlAdded, Arrays
  <2>2. hold \in [Slots -> Int]
    BY <1>0, <2>1
  <2>3. window \in [Distances -> Nat]
    BY <2>1
  <2>4. WindowIsSorted
    <3>1. CASE cleared
      <4>1. \A j \in 0 .. MaxVal - 1 : hold[j] = NoValue
        <5>1. hold = Empty
          BY <2>1, <3>1, Zenon
        <5> QED BY <1>0, <5>1 DEF Empty, Slots
      <4> QED BY <2>1, <4>1, WindowEmpty DEF WindowFresh
    <3>2. CASE ~cleared
      BY <3>2 DEF WindowIsSorted
    <3> QED BY <3>1, <3>2
  <2> QED BY <2>1, <2>2, <2>3, <2>4 DEF WindowInv
<1>2. AccelInv
  <2>1. AccelFresh
    BY DEF Init
  <2> QED BY <2>1, AccelAssumption DEF AccelFresh, AccelInv, SamplesAreFirst
<1>3. PulsesInv
  BY FlowAssumption DEF Init, FlowFresh, PulsesInv, PulsesCountedOnce
<1>4. LateInv
  <2>1. onWire = <<>> /\ heard = <<>> /\ late = 0 /\ cut = 0 /\ spoiled = 0
    BY DEF Init, SdiAdded
  <2> QED BY <2>1 DEF LateInv, LateSpoilsFew
<1> QED BY <1>1, <1>2, <1>3, <1>4 DEF ReadingsInv

LEMMA ReadingsKeep == ReadingsInv /\ [Next]_vars => ReadingsInv'
BY StepOfOne, WindowKeeps, AccelKeeps, PulsesKeep, LateKeeps DEF ReadingsInv

\* Nothing that was read is lost, doubled or out of place but by the rules of
\* its buffer (Utils::insertValue and shift, Accelerometer::read, the flow
\* meter's interrupt and processRead), and a late answer on the shared wire
\* spoils one reading, or two if a drain ends in its middle (SDI12::readSDI).
THEOREM ReadingsAlwaysKept == Spec => []ReadingsAreKept
<1>1. ReadingsInv => ReadingsAreKept
  BY DEF ReadingsInv, WindowInv, AccelInv, PulsesInv, LateInv, ReadingsAreKept
<1> QED BY ReadingsInit, ReadingsKeep, <1>1, PTL DEF Spec

TypesInv ==
  /\ kind \in Kinds
  /\ ReadingsInv /\ OutputsInv /\ SessionsInv
  /\ WlTypes /\ SdiTypes /\ FlowTypes /\ RelayTypes /\ VideoTypes /\ IpTypes /\ SessionTypes
  /\ BoardTypes

LEMMA TypesInit == Init => TypesInv
<1> SUFFICES ASSUME Init
             PROVE  TypesInv
  OBVIOUS
<1>1. WlTypes
  <2>1. stored = DefaultConfig /\ digital = TRUE /\ factor = 1 /\ lastGood = 0
    BY Zenon DEF Init, WlAdded
  <2>2. 1 \in WlFactors
    BY WlAssumption
  <2> QED BY <2>1, <2>2 DEF WlTypes, DefaultConfig
<1>2. SdiTypes
  <2>0. /\ MaxVal \in Nat /\ NoValue \in Int /\ Leftovers \subseteq Int
        /\ Sensors \in Nat /\ MaxRounds \in Nat
    BY ReadingsAssumption, FieldAssumption, SdiAssumption
  <2>1. values \in [1 .. Sensors -> {[Empty EXCEPT ![0] = v] : v \in Leftovers \cup {NoValue}}]
    <3>1. PICK junk \in SUBSET Leftovers : SdiAdded(junk)
      BY DEF Init
    <3>2. \A v \in junk \cup {NoValue} : v \in Leftovers \cup {NoValue}
      OBVIOUS
    <3>3. {[Empty EXCEPT ![0] = v] : v \in junk \cup {NoValue}}
            \subseteq {[Empty EXCEPT ![0] = v] : v \in Leftovers \cup {NoValue}}
      BY <3>2, Zenon
    <3> QED BY <3>1, <3>3 DEF SdiAdded
  <2>2. \A v \in Leftovers \cup {NoValue} : [Empty EXCEPT ![0] = v] \in [Slots -> Int]
    BY <2>0 DEF Empty, Slots
  <2>3. values \in [1 .. Sensors -> [Slots -> Int]]
    BY <2>1, <2>2
  <2>4. /\ asked = 0 /\ rounds = 0
        /\ sdiOut = [s \in 1 .. Sensors |-> NoValue]
    BY DEF Init, SdiAdded
  <2>5. sdiOut \in [1 .. Sensors -> Int]
    BY <2>0, <2>4
  <2>6. 0 \in 0 .. Sensors + 1 /\ 0 \in 0 .. MaxRounds
    BY <2>0
  <2> QED BY <2>3, <2>4, <2>5, <2>6 DEF SdiTypes
<1>3. FlowTypes
  <2>1. 0 \in 0 .. PulseMod - 1 /\ 0 \in 0 .. MaxLag /\ 0 \in 0 .. MaxPulses /\ Junk \in Nat
    BY FlowAssumption
  <2> QED BY <2>1 DEF Init, FlowFresh, FlowTypes, FlowTypeOK
<1>4. RelayTypes
  <2>1. 0 \in 0 .. MaxRun /\ 0 \in 0 .. MaxRun + 1 /\ 0 \in 0 .. MaxCommands
    BY RelayAssumption
  <2> QED BY <2>1 DEF Init, RelayFresh, RelayTypes
<1>5. VideoTypes
  <2>1. -1 \in -1 .. CountMod - 1
    BY VideoAssumption
  <2> QED BY <2>1 DEF Init, VideoFresh, VideoTypes
<1>6. IpTypes
  <2>1. /\ 0 \in 0 .. QueueSize /\ 0 \in 0 .. MaxSnaps
        /\ 0 \in 0 .. SendMod - 1 /\ 1 \in 1 .. SendMod - 1
    BY IPCameraAssumption
  <2> QED BY <2>1 DEF Init, IpFresh, IpTypes
<1>7. SessionTypes
  <2>1. 0 \in 0 .. TunnelTimeout + 1 /\ 0 \in -1 .. HeaderMax
    BY TunnelAssumption
  <2> QED BY <2>1 DEF Init, TunnelFresh, SessionTypes
<1>8. BoardTypes
  BY DEF Init, SettingsFresh, Defaults, BoardTypes
<1>9. kind \in Kinds
  BY DEF Init
<1> QED
  BY <1>1, <1>2, <1>3, <1>4, <1>5, <1>6, <1>7, <1>8, <1>9, ReadingsInit, OutputsInit, SessionsInit
     DEF TypesInv

LEMMA TypesKeep == TypesInv /\ [Next]_vars => TypesInv'
<1> SUFFICES ASSUME TypesInv, [Next]_vars
             PROVE  TypesInv'
  OBVIOUS
<1>1. kind' \in Kinds /\ ReadingsInv'
  BY StepOfOne, ReadingsKeep DEF TypesInv
<1>2. OutputsInv' /\ SessionsInv'
  BY StepOfOne, RelayKeeps, ShotKeeps, CadenceKeeps, WaitKeeps, TunnelKeeps, BackoffKeeps
     DEF TypesInv, OutputsInv, SessionsInv
<1>3. WlTypes' /\ SdiTypes' /\ FlowTypes' /\ RelayTypes'
  BY StepOfOne, WlTyped, SdiTyped, FlowTyped, RelayTyped DEF TypesInv, ReadingsInv
<1>4. VideoTypes' /\ IpTypes' /\ SessionTypes' /\ BoardTypes'
  BY StepOfOne, VideoTyped, IpTyped, SessionTyped, BoardTyped DEF TypesInv
<1> QED BY <1>1, <1>2, <1>3, <1>4 DEF TypesInv

\* The state of every device stays in its types: a reading's pulse is one the
\* sensor answered, an index stays in its array, a count in its width (the
\* fields of the device classes and what their handlers write to them).
THEOREM TypeCorrect == Spec => []TypeOK
<1>1. TypesInv => TypeOK
  <2> SUFFICES ASSUME TypesInv
               PROVE  TypeOK
    OBVIOUS
  <2>1. WlTypeOK
    BY DEF TypesInv, ReadingsInv, WindowInv, WlTypes, WlTypeOK
  <2>2. SdiTypeOK
    BY DEF TypesInv, ReadingsInv, LateInv, SdiTypes, SdiTypeOK
  <2>3. FlowTypeOK
    BY DEF TypesInv, FlowTypes
  <2>4. RelayTypeOK
    BY DEF TypesInv, OutputsInv, RelayInv, RelayTypes, RelayTypeOK
  <2>5. VideoTypeOK
    BY DEF TypesInv, OutputsInv, ShotInv, WaitInv, VideoTypes, VideoTypeOK
  <2>6. IpTypeOK
    BY DEF TypesInv, SessionsInv, BackoffInv, BackoffTypes, IpTypes, IpTypeOK
  <2>7. TunnelTypeOK
    BY DEF TypesInv, SessionsInv, TunnelInv, TunnelTypes, SessionTypes, TunnelTypeOK
  <2>8. SettingsTypeOK
    BY DEF TypesInv, BoardTypes, SettingsTypeOK
  <2> QED BY <2>1, <2>2, <2>3, <2>4, <2>5, <2>6, <2>7, <2>8 DEF TypesInv, TypeOK
<1> QED BY TypesInit, TypesKeep, <1>1, PTL DEF Spec

\* What an operator's sensor publishes is what it answered now: as long as no
\* answer is late or cut, nothing of an earlier publication and nothing of another
\* sensor is in the array it is extracted from (SDI12::readWire, parseSerial,
\* clear).  There must be a slot between the first and the one no clear empties.
THEOREM AnswersAlwaysOwn == ASSUME MaxVal > 1 PROVE Spec => AnswersAreOwn
<1> DEFINE AnswersInv == LateInv /\ SdiTypes /\ TurnInv
<1>1. Init => AnswersInv
  BY ReadingsInit, TypesInit, TurnInit DEF ReadingsInv, TypesInv
<1>2. AnswersInv /\ [Next]_vars => AnswersInv'
  BY StepOfOne, LateKeeps, SdiTyped, TurnKeeps
<1>3. AnswersInv /\ [Next]_vars => [OwnStep]_sdiVars
  BY StepOfOne, OwnAnswer
<1>4. [][OwnStep]_sdiVars => AnswersAreOwn
  BY DEF OwnStep, AnswersAreOwn, PublishesOwnAnswer
<1> QED BY <1>1, <1>2, <1>3, <1>4, PTL DEF Spec
=============================================================================
