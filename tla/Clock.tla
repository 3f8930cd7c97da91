-------------------------------- MODULE Clock --------------------------------
(***************************************************************************)
(* The board's clock: seeded at boot by the last time that was stored (or  *)
(* by the time of the build), corrected by the cloud's answers, stored     *)
(* every so often by a publication and by a reset.  A threaded build asks  *)
(* the cloud every few seconds until it has an answer; the other build     *)
(* looks for the time once, at boot.  Network and cloud are external: an   *)
(* answer carries the time at which it was asked for.                      *)
(***************************************************************************)
EXTENDS Integers

CONSTANTS
  Start,        \* when the board is switched on first
  BuildTimes,   \* BUILD_TIMESTAMP, or 0 when the build does not define it
  Interval,     \* TIME_PERSIST_INTERVAL_MS
  Gap,          \* bound on the time between two publications
  MaxDelay,     \* bound on the age of an answer that still comes
  MaxTime,      \* bound on the time
  MaxRestarts   \* bound on the restarts

ASSUME ClockAssumption ==
  /\ Start \in Nat \ {0}
  /\ BuildTimes \subseteq 0 .. Start
  /\ Interval \in Nat /\ Gap \in Nat /\ MaxDelay \in Nat
  /\ MaxTime \in Nat /\ MaxRestarts \in Nat

VARIABLES
  threaded, build,   \* the build: HYPHEN_THREADED, BUILD_TIMESTAMP
  now,               \* the true time
  clock,             \* the system time, 0 when it is not set
  synced, restored,  \* isSynced; volatileTimeRestored
  savedUnix, timeValid,   \* in the non-volatile storage
  pc,                \* "off", "running", or between the two puts of a store:
                     \* "storing", "resetting"
  lastStore, lastPublish,  \* when, in this boot; 0 for never
  timeCheck, subscribed, unsubscribe,
  connected,
  replies,           \* answers on their way
  writtenAt, complete,     \* history: when savedUnix was put; a store was whole
  restarts

storage == <<savedUnix, timeValid, writtenAt, complete>>
cloud == <<timeCheck, subscribed, unsubscribe, replies>>
vars == <<threaded, build, now, clock, synced, restored, storage, pc, lastStore,
          lastPublish, cloud, connected, restarts>>

hasTime == synced \/ restored

-----------------------------------------------------------------------------
(* Boot: setup, then Bootstrap's init *)

\* Slip: a restored time is as good as a synced one.
RestoreAsSynced ==
  /\ timeValid /\ savedUnix # 0
  /\ clock' = savedUnix
  /\ synced' = TRUE
  /\ restored' = TRUE
  /\ UNCHANGED storage

\* Slip: the stored time is good for one boot.
RestoreOnce ==
  /\ timeValid /\ savedUnix # 0
  /\ clock' = savedUnix
  /\ synced' = FALSE
  /\ restored' = TRUE
  /\ timeValid' = FALSE
  /\ UNCHANGED <<savedUnix, writtenAt, complete>>

\* Slip: the uptime since the store is added, as if the restart had kept it.
RestoreElapsed ==
  /\ timeValid /\ savedUnix # 0
  /\ clock' = savedUnix + (0 - lastStore)
  /\ synced' = FALSE
  /\ restored' = TRUE
  /\ UNCHANGED storage

\* restoreTimeFromPersist: the clock goes on from the last time stored.
Restore ==
  /\ timeValid /\ savedUnix # 0
  /\ clock' = savedUnix
  /\ synced' = FALSE
  /\ restored' = TRUE
  /\ UNCHANGED storage

\* Nothing to restore: the time of the build, or what a reset has left.
Seed ==
  /\ ~(timeValid /\ savedUnix # 0)
  /\ restored' = FALSE
  /\ synced' = FALSE
  /\ IF build # 0 THEN clock' = build ELSE clock' \in {0, clock}
  /\ UNCHANGED storage

\* requestTime: nothing is asked without a connection.
Request == replies' = IF connected THEN replies \cup {now} ELSE replies

Booted ==
  /\ pc' = "running"
  /\ lastStore' = 0
  /\ lastPublish' = now
  /\ timeCheck' = FALSE
  /\ unsubscribe' = FALSE
  /\ UNCHANGED <<threaded, build, now, connected, restarts>>

BootThreaded ==
  /\ pc = "off" /\ threaded
  /\ Restore \/ Seed
  /\ subscribed' = TRUE
  /\ Request
  /\ Booted

\* Time.init: the connection's time, else any time the clock has, else NTP or
\* HTTP; UPDATE_ATTEMPS is 1.
SyncTime(seeded) ==
  \/ connected /\ clock' = now /\ synced' = TRUE
  \/ connected /\ seeded # 0 /\ clock' = seeded /\ synced' = TRUE
  \/ (connected => seeded = 0) /\ clock' = seeded /\ synced' = FALSE

BootPlain ==
  /\ pc = "off" /\ ~threaded
  /\ \/ /\ timeValid /\ savedUnix # 0
        /\ restored' = TRUE
        /\ SyncTime(savedUnix)
     \/ /\ ~(timeValid /\ savedUnix # 0)
        /\ restored' = FALSE
        /\ \E left \in IF build # 0 THEN {build} ELSE {0, clock} : SyncTime(left)
  /\ UNCHANGED <<storage, subscribed, replies>>
  /\ Booted

-----------------------------------------------------------------------------
(* The cloud's answers *)

\* checkSystemTime, the callback of the timer timeSync, in a threaded build.
TimerFires ==
  /\ pc = "running" /\ threaded
  /\ timeCheck' = TRUE
  /\ UNCHANGED <<threaded, build, now, clock, synced, restored, storage, pc, lastStore,
                 lastPublish, subscribed, unsubscribe, replies, connected, restarts>>

\* Slip: a board that has any time does not ask for a better one.
UpdateReadyWithoutTime == timeCheck /\ ~hasTime

isTimerUpdateReady == timeCheck /\ ~synced

\* timeCheckPoll.
TimeCheckPoll ==
  /\ pc = "running" /\ threaded
  /\ isTimerUpdateReady
  /\ timeCheck' = FALSE
  /\ Request
  /\ UNCHANGED <<threaded, build, now, clock, synced, restored, storage, pc, lastStore,
                 lastPublish, subscribed, unsubscribe, connected, restarts>>

\* The subscription's handler and parseMessage, on the network's task; answers
\* to earlier requests may come after later ones.
Deliver(r) ==
  /\ pc # "off" /\ connected /\ subscribed
  /\ r \in replies
  /\ replies' = replies \ {r}
  /\ clock' = r
  /\ synced' = TRUE
  /\ unsubscribe' = TRUE
  /\ UNCHANGED <<threaded, build, now, restored, storage, pc, lastStore, lastPublish,
                 timeCheck, subscribed, connected, restarts>>

\* Hyphen.process, in the main loop.
Process ==
  /\ pc = "running" /\ unsubscribe
  /\ unsubscribe' = FALSE
  /\ subscribed' = FALSE
  /\ UNCHANGED <<threaded, build, now, clock, synced, restored, storage, pc, lastStore,
                 lastPublish, timeCheck, replies, connected, restarts>>

-----------------------------------------------------------------------------
(* Storing *)

\* storeTimeToPersist up to its first put.
StoreDue == synced /\ clock # 0 /\ ~(lastStore # 0 /\ now - lastStore < Interval)

Put ==
  /\ savedUnix' = clock
  /\ writtenAt' = now
  /\ UNCHANGED <<timeValid, complete>>

\* publish of the DeviceManager; a board without a time does not publish.
Publish ==
  /\ pc = "running"
  /\ lastPublish' = now
  /\ \/ StoreDue /\ Put /\ pc' = "storing"
     \/ ~StoreDue /\ UNCHANGED <<storage, pc>>
  /\ UNCHANGED <<threaded, build, now, clock, synced, restored, lastStore, cloud,
                 connected, restarts>>

\* reset of Hyphen: a store, then the restart.
Reset ==
  /\ pc = "running"
  /\ restarts < MaxRestarts
  /\ restarts' = restarts + 1
  /\ \/ StoreDue /\ Put /\ pc' = "resetting"
     \/ ~StoreDue /\ pc' = "off" /\ UNCHANGED storage
  /\ UNCHANGED <<threaded, build, now, clock, synced, restored, lastStore, lastPublish,
                 cloud, connected>>

\* The second put.
StoreEnds ==
  /\ pc \in {"storing", "resetting"}
  /\ timeValid' = TRUE
  /\ complete' = TRUE
  /\ lastStore' = now
  /\ pc' = IF pc = "storing" THEN "running" ELSE "off"
  /\ UNCHANGED <<threaded, build, now, clock, synced, restored, savedUnix, writtenAt,
                 lastPublish, cloud, connected, restarts>>

-----------------------------------------------------------------------------
(* Time, power and network *)

Tick ==
  /\ now < MaxTime
  /\ pc \in {"off", "running"}
  /\ pc = "running" => now - lastPublish < Gap
  /\ \A r \in replies : now - r < MaxDelay
  /\ now' = now + 1
  /\ clock' = IF clock = 0 THEN 0 ELSE clock + 1
  /\ UNCHANGED <<threaded, build, synced, restored, storage, pc, lastStore, lastPublish,
                 cloud, connected, restarts>>

\* A power cut, a brownout or the watchdog: also between two puts.
PowerCut ==
  /\ pc # "off"
  /\ restarts < MaxRestarts
  /\ restarts' = restarts + 1
  /\ pc' = "off"
  /\ UNCHANGED <<threaded, build, now, clock, synced, restored, storage, lastStore,
                 lastPublish, cloud, connected>>

Lose ==
  /\ \E r \in replies : replies' = replies \ {r}
  /\ UNCHANGED <<threaded, build, now, clock, synced, restored, storage, pc, lastStore,
                 lastPublish, timeCheck, subscribed, unsubscribe, connected, restarts>>

Connection ==
  /\ connected' = ~connected
  /\ UNCHANGED <<threaded, build, now, clock, synced, restored, storage, pc, lastStore,
                 lastPublish, cloud, restarts>>

Init ==
  /\ threaded \in BOOLEAN
  /\ build \in BuildTimes
  /\ now = Start
  /\ clock = 0
  /\ synced = FALSE /\ restored = FALSE
  /\ savedUnix = 0 /\ timeValid = FALSE
  /\ pc = "off"
  /\ lastStore = 0 /\ lastPublish = 0
  /\ timeCheck = FALSE /\ subscribed = FALSE /\ unsubscribe = FALSE
  /\ connected \in BOOLEAN
  /\ replies = {}
  /\ writtenAt = 0 /\ complete = FALSE
  /\ restarts = 0

Next ==
  \/ BootThreaded \/ BootPlain
  \/ TimerFires \/ TimeCheckPoll \/ (\E r \in replies : Deliver(r)) \/ Process
  \/ Publish \/ Reset \/ StoreEnds
  \/ Tick \/ PowerCut \/ Lose \/ Connection

\* The board starts, the main loop and the timer run, and of answers that are
\* asked for again and again one comes.
Fairness ==
  /\ WF_vars(BootThreaded) /\ WF_vars(TimerFires) /\ WF_vars(TimeCheckPoll)
  /\ WF_vars(StoreEnds)
  /\ SF_vars(\E r \in replies : Deliver(r))

Spec == Init /\ [][Next]_vars /\ Fairness

-----------------------------------------------------------------------------
(* Properties *)

ClockTypeOK ==
  /\ threaded \in BOOLEAN /\ build \in BuildTimes
  /\ now \in Nat /\ clock \in Nat
  /\ synced \in BOOLEAN /\ restored \in BOOLEAN
  /\ savedUnix \in Nat /\ timeValid \in BOOLEAN
  /\ pc \in {"off", "running", "storing", "resetting"}
  /\ lastStore \in 0 .. now /\ lastPublish \in 0 .. now
  /\ timeCheck \in BOOLEAN /\ subscribed \in BOOLEAN /\ unsubscribe \in BOOLEAN
  /\ connected \in BOOLEAN
  /\ replies \subseteq 0 .. now
  /\ writtenAt \in 0 .. now /\ complete \in BOOLEAN
  /\ restarts \in Nat

\* The clock and the stored time are never ahead of the true time; in a
\* threaded build a clock that says it is synced is at most an answer's delay
\* behind, even when answers come out of order, and so was every time that was
\* stored ("only writes authoritative time", publish).
SyncedIsAuthoritative ==
  /\ clock <= now
  /\ savedUnix <= writtenAt
  /\ threaded /\ synced /\ pc # "off" => now - clock <= MaxDelay
  /\ threaded => writtenAt - savedUnix <= MaxDelay

\* Once a time was stored whole, every boot has a time to publish with, after
\* any string of power cuts, also in the middle of a store ("EVERY reboot ...
\* restores a usable clock", restoreTimeFromPersist); and while a threaded
\* board publishes, the time it would restore is recent.
RestoredIsRecent ==
  /\ complete /\ pc # "off" => hasTime /\ clock # 0
  /\ threaded /\ synced /\ pc = "running" /\ lastStore # 0
     => now - savedUnix <= Interval + Gap + MaxDelay

\* A threaded board that stays connected is synced in the end, whatever answers
\* were lost and whatever time it had restored (timeCheckPoll).
EventuallySynced == threaded /\ <>[]connected => <>[]synced
=============================================================================
