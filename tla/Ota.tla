-------------------------------- MODULE Ota --------------------------------
(***************************************************************************)
(* Updates over the air.  The main loop takes an update message from the   *)
(* cloud and leaves it in receivedPayload; a one-shot timer sets           *)
(* updateReady; the main loop then starts a task, which parses the         *)
(* message, downloads the image, writes it and restarts the board.  While  *)
(* otaRunning is set the main loop does nothing but keep the connection.   *)
(*                                                                         *)
(* Main loop, timer, tasks and the supply interleave.  Two tasks can       *)
(* exist: otaRunning is cleared before the connection is resumed.          *)
(***************************************************************************)
EXTENDS Integers

CONSTANTS
  Builds,     \* builds the cloud can offer
  Bad,        \* messages that are refused: signature, host, device, form
  NoMessage,  \* the empty receivedPayload
  NoBuild,    \* no last_build_id; also the build the board came with
  Tasks,      \* bound: tasks that exist at the same time
  Size        \* bound: buffers of a download

ASSUME OtaAssumption ==
  /\ NoMessage \notin Builds \union Bad
  /\ NoBuild \notin Builds
  /\ Builds \intersect Bad = {}
  /\ Size \in Nat \ {0}

Messages == Builds \union Bad

VARIABLES
  inbox,     \* receivedPayload
  tick,      \* the one-shot timer runs
  ready,     \* updateReady
  cooled,    \* retryInterval has passed since lastAttempt
  running,   \* otaRunning
  reported,  \* persistenceInitialized
  clearing,  \* the complete report was sent, its build is about to be cleared
  pc,        \* step of each task
  local,     \* and its variables: build, maintainConn, buffers written
  paused,    \* external: hyConnect().pause
  link,      \* external: there is a session with the broker
  wifi,      \* external: the connection class is WIFI
  marker,    \* persisted last_build_id
  next,      \* external: the image that a restart boots
  image,     \* external: the image that runs
  told,      \* history: the build reported complete since the start
  owed,      \* history: a message came that no task has parsed since
  dropped,   \* history: it was thrown away, or its trigger was
  torn       \* history: the supply failed between Update.end and Persist.put

mailVars == <<inbox, tick, ready, cooled>>
reportVars == <<reported, clearing, told>>
taskVars == <<pc, local>>
netVars == <<paused, link, wifi>>
flash == <<marker, next, image>>
debt == <<owed, dropped>>
vars == <<mailVars, running, reportVars, taskVars, netVars, flash, debt, torn>>

Steps == {"none", "parse", "take", "announce", "request", "download", "end",
          "mark", "reset", "release", "resume"}

Locals == [build : Builds \union {NoBuild}, keep : BOOLEAN, written : 0 .. Size]

TypeOK ==
  /\ inbox \in Messages \union {NoMessage}
  /\ {tick, ready, cooled, running, reported, clearing, paused, link, wifi,
      owed, dropped, torn} \subseteq BOOLEAN
  /\ pc \in [Tasks -> Steps]
  /\ local \in [Tasks -> Locals]
  /\ {marker, next, image, told} \subseteq Builds \union {NoBuild}

Idle == [t \in Tasks |-> "none"]
Fresh == [build |-> NoBuild, keep |-> FALSE, written |-> 0]

Init ==
  /\ inbox = NoMessage
  /\ tick = FALSE
  /\ ready = FALSE
  /\ cooled = FALSE
  /\ running = FALSE
  /\ reported = FALSE
  /\ clearing = FALSE
  /\ pc = Idle
  /\ local = [t \in Tasks |-> Fresh]
  /\ paused = FALSE
  /\ link = FALSE
  /\ wifi \in BOOLEAN
  /\ marker = NoBuild
  /\ next = NoBuild
  /\ image = NoBuild
  /\ told = NoBuild
  /\ owed = FALSE
  /\ dropped = FALSE
  /\ torn = FALSE

\* RAM is gone, the bootloader starts the image that was selected last.
Restart ==
  /\ inbox' = NoMessage
  /\ tick' = FALSE
  /\ ready' = FALSE
  /\ cooled' = FALSE
  /\ running' = FALSE
  /\ reported' = FALSE
  /\ clearing' = FALSE
  /\ pc' = Idle
  /\ local' = [t \in Tasks |-> Fresh]
  /\ paused' = FALSE
  /\ link' = FALSE
  /\ image' = next
  /\ told' = NoBuild
  /\ owed' = FALSE
  /\ dropped' = FALSE
  /\ UNCHANGED <<wifi, marker, next>>

-----------------------------------------------------------------------------
(* The main loop and the timer *)

\* processor->loop runs, during an update only over WIFI.
Serving == ~running \/ wifi

\* onUpdateMessage: an earlier message that waits is overwritten.
OnUpdateMessage(m) ==
  /\ link
  /\ ~paused
  /\ Serving
  /\ inbox' = m
  /\ tick' = TRUE
  /\ owed' = TRUE
  /\ dropped' = FALSE
  /\ UNCHANGED <<ready, cooled, running, reportVars, taskVars, netVars, flash, torn>>

RunUpdateCallback ==
  /\ tick
  /\ tick' = FALSE
  /\ ready' = TRUE
  /\ UNCHANGED <<inbox, cooled, running, reportVars, taskVars, netVars, flash, debt, torn>>

\* loop, first session since the start: report the build that was installed ...
ReportComplete ==
  /\ ~running
  /\ ~reported
  /\ link /\ ~paused
  /\ reported' = TRUE
  /\ IF marker = NoBuild
     THEN UNCHANGED <<clearing, told>>
     ELSE clearing' = TRUE /\ told' \in {marker, told}
  /\ UNCHANGED <<mailVars, running, taskVars, netVars, flash, debt, torn>>

\* ... and forget it, whether the report was sent or not.
ClearMarker ==
  /\ clearing
  /\ clearing' = FALSE
  /\ marker' = NoBuild
  /\ UNCHANGED <<mailVars, running, reported, told, taskVars, netVars, next, image, debt, torn>>

\* xTaskCreatePinnedToCore, whose result nobody reads: without memory for the
\* stack there is no task, and the trigger is gone.
Creates(t) ==
  \/ pc' = [pc EXCEPT ![t] = "parse"] /\ UNCHANGED dropped
  \/ UNCHANGED pc /\ dropped' = (dropped \/ owed)

\* Slip: a trigger that comes too early is dropped.
LoopDropsEarly ==
  /\ ~running
  /\ ~clearing
  /\ reported \/ ~link \/ paused
  /\ ready
  /\ ready' = FALSE
  /\ cooled' = FALSE
  /\ IF cooled
     THEN \E t \in Tasks : pc[t] = "none" /\ Creates(t)
     ELSE UNCHANGED <<pc, dropped>>
  /\ UNCHANGED <<inbox, tick, running, reportVars, local, netVars, flash, owed, torn>>

\* loop with startOtaTask: at most one start per retryInterval.
Loop ==
  /\ ~running
  /\ ~clearing
  /\ reported \/ ~link \/ paused
  /\ ready
  /\ cooled
  /\ ready' = FALSE
  /\ cooled' = FALSE
  /\ \E t \in Tasks : pc[t] = "none" /\ Creates(t)
  /\ UNCHANGED <<inbox, tick, running, reportVars, local, netVars, flash, owed, torn>>

\* Slip: retryInterval is shorter than a parse and its acknowledgement.
CoolsAnyTime ==
  /\ ~cooled
  /\ cooled' = TRUE
  /\ UNCHANGED <<inbox, tick, ready, running, reportVars, taskVars, netVars, flash, debt, torn>>

\* retryInterval is longer than what a task does before it sets otaRunning: a
\* parse and a publication (MQTT_SOCKET_TIMEOUT).
Cools ==
  /\ ~cooled
  /\ \A t \in Tasks : pc[t] \notin {"parse", "take", "announce"}
  /\ cooled' = TRUE
  /\ UNCHANGED <<inbox, tick, ready, running, reportVars, taskVars, netVars, flash, debt, torn>>

-----------------------------------------------------------------------------
(* A task *)

Goes(t, step) == pc' = [pc EXCEPT ![t] = step]

Ends(t) ==
  /\ Goes(t, "none")
  /\ local' = [local EXCEPT ![t] = Fresh]

\* parseDetailsAndSendUpdate reads the message; one that is refused, or was
\* cleared meanwhile, is acknowledged as failed and left where it is.
Parse(t) ==
  /\ pc[t] = "parse"
  /\ ready' = FALSE
  /\ owed' = (owed /\ inbox = NoMessage)
  /\ IF inbox \in Builds
     THEN Goes(t, "take") /\ local' = [local EXCEPT ![t].build = inbox]
     ELSE Ends(t)
  /\ UNCHANGED <<inbox, tick, cooled, running, reportVars, netVars, flash, dropped, torn>>

\* It was verified: the message is cleared, or a later one that has come since
\* and is read by nobody then.
Take(t) ==
  /\ pc[t] = "take"
  /\ Goes(t, "announce")
  /\ inbox' = NoMessage
  /\ dropped' = (dropped \/ owed)
  /\ UNCHANGED <<tick, ready, cooled, running, reportVars, local, netVars, flash, owed, torn>>

\* downloadAndUpdate: otaRunning, maintainConn, pause.
Announce(t) ==
  /\ pc[t] = "announce"
  /\ Goes(t, "request")
  /\ running' = TRUE
  /\ local' = [local EXCEPT ![t].keep = wifi]
  /\ paused' = (paused \/ ~wifi)
  /\ UNCHANGED <<mailVars, reportVars, link, wifi, flash, debt, torn>>

\* Slip: the early returns leave the connection paused.
RefusedPaused(t) ==
  /\ pc[t] = "request"
  /\ Ends(t)
  /\ running' = FALSE
  /\ UNCHANGED <<mailVars, reportVars, netVars, flash, debt, torn>>

\* The three early returns: status, length, space.
Refused(t) ==
  /\ pc[t] = "request"
  /\ IF local[t].keep THEN Ends(t) ELSE Goes(t, "resume") /\ UNCHANGED local
  /\ running' = FALSE
  /\ UNCHANGED <<mailVars, reportVars, netVars, flash, debt, torn>>

\* ... which resume the connection last.
Resume(t) ==
  /\ pc[t] = "resume"
  /\ Ends(t)
  /\ paused' = FALSE
  /\ UNCHANGED <<mailVars, running, reportVars, link, wifi, flash, debt, torn>>

\* Slip: the build is recorded before it is there.
AcceptedMarks(t) ==
  /\ pc[t] = "request"
  /\ Goes(t, "download")
  /\ marker' = local[t].build
  /\ UNCHANGED <<mailVars, running, reportVars, local, netVars, next, image, debt, torn>>

Accepted(t) ==
  /\ pc[t] = "request"
  /\ Goes(t, "download")
  /\ UNCHANGED <<mailVars, running, reportVars, local, netVars, flash, debt, torn>>

\* Slip: what is left to read is not looked at.
DownloadOverruns(t) ==
  /\ pc[t] = "download"
  /\ local' = [local EXCEPT ![t].written = @ + 1]
  /\ UNCHANGED <<mailVars, running, reportVars, pc, netVars, flash, debt, torn>>

\* One buffer.
Download(t) ==
  /\ pc[t] = "download"
  /\ local[t].written < Size
  /\ local' = [local EXCEPT ![t].written = @ + 1]
  /\ UNCHANGED <<mailVars, running, reportVars, pc, netVars, flash, debt, torn>>

\* The loop ends: all is read, the host hangs up, or 30 s pass without data.
DownloadEnds(t) ==
  /\ pc[t] = "download"
  /\ Goes(t, "end")
  /\ UNCHANGED <<mailVars, running, reportVars, local, netVars, flash, debt, torn>>

\* Update.end selects the new image when all of it is there and good.
UpdateEnds(t) ==
  /\ pc[t] = "end"
  /\ local[t].written = Size
  /\ Goes(t, "mark")
  /\ next' = local[t].build
  /\ UNCHANGED <<mailVars, running, reportVars, local, netVars, marker, image, debt, torn>>

UpdateFails(t) ==
  /\ pc[t] = "end"
  /\ Goes(t, "release")
  /\ paused' = (paused /\ local[t].keep)
  /\ UNCHANGED <<mailVars, running, reportVars, local, link, wifi, flash, debt, torn>>

\* Slip: a failed update leaves otaRunning set.
ReleaseKeepsRunning(t) ==
  /\ pc[t] = "release"
  /\ Ends(t)
  /\ UNCHANGED <<mailVars, running, reportVars, netVars, flash, debt, torn>>

\* After the failure is published.
Release(t) ==
  /\ pc[t] = "release"
  /\ Ends(t)
  /\ running' = FALSE
  /\ UNCHANGED <<mailVars, reportVars, netVars, flash, debt, torn>>

Mark(t) ==
  /\ pc[t] = "mark"
  /\ Goes(t, "reset")
  /\ marker' = local[t].build
  /\ UNCHANGED <<mailVars, running, reportVars, local, netVars, next, image, debt, torn>>

Reset(t) ==
  /\ pc[t] = "reset"
  /\ Restart
  /\ torn' = FALSE

-----------------------------------------------------------------------------
(* The supply and the network *)

PowerCut ==
  /\ Restart
  /\ torn' = (torn \/ \E t \in Tasks : pc[t] = "mark")

LinkChanges ==
  /\ link' = ~link
  /\ UNCHANGED <<mailVars, running, reportVars, taskVars, paused, wifi, flash, debt, torn>>

ClassChanges ==
  /\ wifi' = ~wifi
  /\ UNCHANGED <<mailVars, running, reportVars, taskVars, paused, link, flash, debt, torn>>

-----------------------------------------------------------------------------
TaskStep(t) ==
  \/ Parse(t)
  \/ Take(t)
  \/ Announce(t)
  \/ Refused(t)
  \/ Resume(t)
  \/ Accepted(t)
  \/ Download(t)
  \/ DownloadEnds(t)
  \/ UpdateEnds(t)
  \/ UpdateFails(t)
  \/ Release(t)
  \/ Mark(t)
  \/ Reset(t)

Next ==
  \/ \E m \in Messages : OnUpdateMessage(m)
  \/ RunUpdateCallback
  \/ ReportComplete
  \/ ClearMarker
  \/ Loop
  \/ Cools
  \/ \E t \in Tasks : TaskStep(t)
  \/ PowerCut
  \/ LinkChanges
  \/ ClassChanges

\* The main loop and the timer run, and so does a task: the calls it makes
\* return, if only by their timeouts (30 s without data end a download).
Fairness ==
  /\ WF_vars(RunUpdateCallback)
  /\ WF_vars(ReportComplete \/ ClearMarker \/ Loop)
  /\ WF_vars(Cools)
  /\ \A t \in Tasks : WF_vars(TaskStep(t))

Spec == Init /\ [][Next]_vars /\ Fairness

-----------------------------------------------------------------------------
(* Properties *)

Updating == {t \in Tasks : pc[t] \in {"request", "download", "end", "mark", "reset", "release"}}

\* Update, last_build_id and the pause are global, otaRunning guards the main
\* loop only: it is retryInterval that keeps two updates from running at once.
OneUpdate == \A t, u \in Updating : t = u

\* Whatever way an update ends, it leaves neither the main loop nor the
\* connection suspended: while one is, a task is there that will release it.
SuspensionHasOwner ==
  /\ running => Updating # {}
  /\ paused => \E t \in Tasks : pc[t] # "none" /\ ~local[t].keep

\* What the board reports complete after a restart is the build it runs, unless
\* the supply failed between the two writes that end an update.
ReportIsTrue ==
  ~torn /\ told # NoBuild => told = image

\* An update message is not forgotten while the board is up, whatever else is
\* under way when it comes: a task parses it, or a later one.  Two ways out are
\* in the code: the task before clears receivedPayload after it has verified its
\* own message, and the task for this one is not created.
MessageIsConsidered == owed ~> ~owed \/ dropped

\* The board goes back to its readings, updated or not.
UpdateIsOver == running ~> ~running
=============================================================================
