---------------------------- MODULE FieldDevices ----------------------------
(***************************************************************************)
(* The devices under the DeviceManager: its timers let it read and publish *)
(* them, publication ends with a clear, a new interval clears, defaults are *)
(* restored on all, and a restart starts them all again.  The manager      *)
(* treats its devices one after the other and they share no state, so the  *)
(* board of a behaviour carries the devices of one kind; the sensors on    *)
(* the shared wire are one kind.                                           *)
(***************************************************************************)
EXTENDS WlDevice, Sdi12, FlowMeter, Accelerometer, Relay, VideoCapture, IPCamera,
        Tunnel, SoilSettings, Settings

CONSTANTS
  Kinds,   \* the kinds of boards
  Leftovers   \* what an array nobody has written may hold

ASSUME FieldAssumption == Leftovers \subseteq Int

VARIABLE kind

vars == <<kind, wlVars, sdiVars, flowVars, accelVars, relayVars, videoVars, ipVars,
          tunnelVars, soilVars, settingsVars>>

\* What is on the board is all that changes.
Only(k) ==
  /\ kind = k
  /\ UNCHANGED kind
  /\ IF k = "wl" THEN TRUE ELSE UNCHANGED wlVars
  /\ IF k = "sdi" THEN TRUE ELSE UNCHANGED sdiVars
  /\ IF k = "flow" THEN TRUE ELSE UNCHANGED flowVars
  /\ IF k = "accel" THEN TRUE ELSE UNCHANGED accelVars
  /\ IF k = "relay" THEN TRUE ELSE UNCHANGED relayVars
  /\ IF k = "video" THEN TRUE ELSE UNCHANGED videoVars
  /\ IF k = "ipcam" THEN TRUE ELSE UNCHANGED ipVars
  /\ IF k = "tunnel" THEN TRUE ELSE UNCHANGED tunnelVars
  /\ IF k = "soil" THEN TRUE ELSE UNCHANGED soilVars
  /\ IF k = "settings" THEN TRUE ELSE UNCHANGED settingsVars

Init ==
  /\ kind \in Kinds
  /\ IF kind = "wl" THEN WlAdded(Leftovers) ELSE WlAdded({})
  /\ IF kind = "sdi" THEN SdiAdded(Leftovers) ELSE SdiAdded({})
  /\ FlowFresh
  /\ IF kind = "accel" THEN AccelFresh ELSE AccelFresh /\ ~detected
  /\ RelayFresh
  /\ VideoFresh
  /\ IpFresh
  /\ TunnelFresh
  /\ SoilFresh
  /\ SettingsFresh

-----------------------------------------------------------------------------
(* The manager *)

\* The main loop is in none of its devices.
Free ==
  CASE kind = "sdi" -> asked = 0
    [] kind = "flow" -> step = "idle"
    [] kind = "video" -> shot = "idle"
    [] OTHER -> TRUE

\* read, when the read timer's flag says so: the devices that do something.
Read ==
  \/ Only("wl") /\ WlRead
  \/ Only("accel") /\ AccelRead

WlSettings == <<lastGood, digital, factor, stored>>

\* publish, when the publication timer's flag says so and the board has a
\* time, and the clear that ends it; a kind that takes its time over it is
\* cleared when it is done.  Without a time nothing is published or cleared.
Publish ==
  /\ Free
  /\ \/ Only("wl") /\ WlClear /\ UNCHANGED WlSettings
     \/ Only("sdi") /\ SdiPublish
     \/ Only("flow") /\ FlowPublish /\ FlowClear
     \/ Only("accel") /\ AccelPublish /\ AccelClear /\ UNCHANGED <<detected, taken>>
     \/ Only("video") /\ VideoPublish
     \/ Only("ipcam") /\ IpPublish

\* setSendInterval: a value out of 1 .. 15 is refused; all devices are cleared.
SetSendInterval ==
  /\ Free
  /\ \/ Only("settings") /\ \E interval \in Intervals : BuildSendInterval(interval)
     \/ Only("wl") /\ WlClear /\ UNCHANGED WlSettings
     \/ /\ Only("sdi")
        /\ SdiClear
        /\ UNCHANGED <<asked, onWire, heard, sdiOut, rounds, late, cut, spoiled>>
     \/ /\ Only("flow")
        /\ FlowClear
        /\ UNCHANGED <<pulseCount, attached, elapsed, step, total, flash, arrived, counted,
                       missed, thrown, reported, blind>>
     \/ Only("accel") /\ AccelClear /\ UNCHANGED <<detected, taken, accelOut>>

\* restoreDefaults: Bootstrap's, and those of the devices that have any.
Restore ==
  /\ Free
  /\ \/ Only("settings") /\ RestoreDefaults
     \/ Only("wl") /\ WlDefaults /\ UNCHANGED <<hold, cleared, window, lastGood>>
     \/ Only("soil") /\ SoilDefaults

\* The cloud functions of the devices and of the board.
CloudFunction ==
  /\ Free
  /\ \/ Only("wl") /\ (WlSetDigital \/ WlSetCalibration)
     \/ Only("flow") /\ (ClearTotal \/ Calibrate)
     \/ Only("relay") /\ (TurnOn \/ TurnOff \/ Toggle \/ SetInvert)
     \/ Only("video") /\ SetOffset
     \/ Only("ipcam") /\ (SnapNow \/ SetSendOffset)
     \/ Only("soil") /\ (SetMoistureCalibration \/ SetMineralSoil)
     \/ Only("settings") /\ (SetTimeZone \/ SetLowPower \/ SetMaintenanceMode)

\* A restart, in the middle of whatever goes on: init of every device, and
\* the manager's first clear.
Restart ==
  \/ Only("wl") /\ WlRestart
  \/ Only("sdi") /\ SdiRestart
  \/ Only("flow") /\ FlowRestart
  \/ Only("accel") /\ AccelRestart
  \/ Only("relay") /\ RelayRestart
  \/ Only("video") /\ VideoRestart
  \/ Only("ipcam") /\ IpRestart
  \/ Only("tunnel") /\ TunnelRestart
  \/ Only("soil") /\ SoilRestart
  \/ Only("settings") /\ SettingsRestart

-----------------------------------------------------------------------------
(* What the devices do by themselves *)

DeviceStep ==
  \/ Only("sdi") /\ SdiStep
  \/ Only("flow") /\ (Pulse \/ FlowTick \/ FlowStep)
  \/ Only("relay") /\ (RelayLoop \/ RelayTick)
  \/ Only("video") /\ VideoStep
  \/ Only("ipcam") /\ IpStep
  \/ Only("tunnel") /\ TunnelStep

Next == Read \/ Publish \/ SetSendInterval \/ Restore \/ CloudFunction \/ Restart \/ DeviceStep

\* The main loop comes round, time passes, the worker task is scheduled.
Fairness ==
  /\ WF_vars(Only("relay") /\ RelayLoop)
  /\ WF_vars(Only("relay") /\ RelayTick)
  /\ WF_vars(Only("tunnel") /\ TunnelTick)
  /\ WF_vars(Only("tunnel") /\ (StartFails \/ StartFresh \/ StartStale))
  /\ WF_vars(Only("tunnel") /\ (TimesOut \/ Disconnected))
  /\ WF_vars(Only("tunnel") /\ Report)
  /\ WF_vars(Only("ipcam") /\ (IpTake \/ IpDone))

Spec == Init /\ [][Next]_vars /\ Fairness

-----------------------------------------------------------------------------
(* Properties *)

TypeOK ==
  /\ kind \in Kinds
  /\ WlTypeOK /\ SdiTypeOK /\ FlowTypeOK /\ RelayTypeOK /\ VideoTypeOK /\ IpTypeOK
  /\ TunnelTypeOK /\ SettingsTypeOK

\* Nothing that was read is lost, doubled or out of place but by the rules of
\* its buffer: the water level's window, the accelerometer's samples, the flow
\* meter's pulses; and an answer that comes late on the shared wire spoils one
\* reading, or two if a drain ends in its middle.
ReadingsAreKept == WindowIsSorted /\ SamplesAreFirst /\ PulsesCountedOnce /\ LateSpoilsFew

\* As long as no answer is late or cut every sensor publishes its own answer.
AnswersAreOwn == PublishesOwnAnswer

\* A session with the camera's server is the session of its job, what it reports
\* happened in it, and after a failed one the camera refuses jobs for a bounded
\* time.
SessionsAreOwn == CameraOnlyInSession /\ OkIsOfThisJob /\ OneJobWasted /\ BackoffEnds

\* The calibrations, the board's settings and the cadences of the cameras, each
\* as its byte, are in use as a restart loads them, and no total is below the one
\* reported, whatever is set in whatever order; exceptions stand with the parts.
\* The relay's setInvert is never stored and is not meant.
SettingsSurvive ==
  /\ kind = "wl" => WlSettingsStored
  /\ RestartKeepsReported
  /\ SoilSurvives
  /\ BoardSettingsSurvive
  /\ VideoOffsetStored
  /\ SendOffsetStored

\* What the outputs do is what is said of them: the relay's pin, the camera's
\* supply, the cadence of its shots.
OutputsAreKnown == RelayReportsPin /\ CameraIsDark /\ ShotsInTime

\* What was begun ends: a relay's run time, a camera job, a wait in its queue.
WorkEnds == TimedRelayGoesOff /\ JobEnds /\ JobsAreTaken
=============================================================================
