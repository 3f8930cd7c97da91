----------------------------- MODULE Clock_proofs -----------------------------
(***************************************************************************)
(* What Clock states of the time a board runs on, stores and restores,     *)
(* proved for every interval, every delay of an answer and any number of   *)
(* restarts.                                                               *)
(***************************************************************************)
EXTENDS Clock, TLAPS

Storing == pc \in {"storing", "resetting"}

\* Where the clock can come from: an answer, the storage or the build, and none
\* of them is later than now.
Sources ==
  /\ now >= Start
  /\ clock <= now
  /\ savedUnix <= writtenAt
  /\ \A r \in replies : r # 0 /\ now - r <= MaxDelay

\* How far a time that counts as synced, or was stored, can be behind.
Behind ==
  /\ threaded /\ synced /\ pc # "off" => clock # 0 /\ now - clock <= MaxDelay
  /\ threaded => writtenAt - savedUnix <= MaxDelay

\* What is stored is a time, also between the two puts of a store.
Kept ==
  /\ complete => timeValid
  /\ timeValid => savedUnix # 0
  /\ Storing => synced /\ clock # 0 /\ savedUnix # 0 /\ writtenAt = now
  /\ complete /\ pc # "off" => hasTime /\ clock # 0

\* No time goes by during a store, so the stored time ages with the last store,
\* and the last publication found that store recent or made it.
Aging ==
  /\ pc \in {"running", "storing"} => now - lastPublish <= Gap
  /\ pc = "storing" => lastPublish = now
  /\ pc = "running" /\ lastStore # 0 =>
       /\ synced /\ clock # 0
       /\ writtenAt = lastStore
       /\ lastPublish - lastStore <= Interval

Numbers ==
  /\ now \in Nat /\ clock \in Nat /\ savedUnix \in Nat /\ restarts \in Nat
  /\ lastStore \in 0 .. now /\ lastPublish \in 0 .. now /\ writtenAt \in 0 .. now
  /\ replies \subseteq 0 .. now

Flags ==
  /\ threaded \in BOOLEAN /\ build \in BuildTimes
  /\ synced \in BOOLEAN /\ restored \in BOOLEAN
  /\ timeValid \in BOOLEAN /\ complete \in BOOLEAN
  /\ pc \in {"off", "running", "storing", "resetting"}
  /\ timeCheck \in BOOLEAN /\ subscribed \in BOOLEAN /\ unsubscribe \in BOOLEAN
  /\ connected \in BOOLEAN

TInv == Numbers /\ Sources /\ Behind /\ Kept /\ Aging

CInv == Flags /\ TInv

-----------------------------------------------------------------------------
(* The steps *)

\* The two halves of the type invariant.
LEMMA Halves == ClockTypeOK <=> Numbers /\ Flags
BY Zenon DEF ClockTypeOK, Numbers, Flags

\* A board that was never switched on satisfies the invariant.
LEMMA ClockInit == Init => CInv
<1> SUFFICES ASSUME Init
             PROVE  CInv
  OBVIOUS
<1>1. Flags
  BY Zenon DEF Init, Flags
<1>2. TInv
  BY ClockAssumption
  DEF Init, TInv, Numbers, Sources, Behind, Kept, Aging, Storing, hasTime
<1> QED BY <1>1, <1>2 DEF CInv

\* Flags are only set to truth values.
LEMMA FlagsNext == Flags /\ [Next]_vars => Flags'
<1> SUFFICES ASSUME Flags, [Next]_vars
             PROVE  Flags'
  OBVIOUS
<1> USE DEF Flags, storage, cloud
<1>1. CASE BootThreaded
  BY <1>1, Zenon DEF BootThreaded, Booted, Restore, Seed
<1>2. CASE BootPlain
  BY <1>2, Zenon DEF BootPlain, Booted, SyncTime
<1>3. CASE TimerFires
  BY <1>3, Zenon DEF TimerFires
<1>4. CASE TimeCheckPoll
  BY <1>4, Zenon DEF TimeCheckPoll
<1>5. ASSUME NEW r \in replies, Deliver(r)
      PROVE  Flags'
  BY <1>5, Zenon DEF Deliver
<1>6. CASE Process
  BY <1>6, Zenon DEF Process
<1>7. CASE Publish
  BY <1>7, Zenon DEF Publish, Put
<1>8. CASE Reset
  BY <1>8, Zenon DEF Reset, Put
<1>9. CASE StoreEnds
  BY <1>9, Zenon DEF StoreEnds
<1>10. CASE Tick
  BY <1>10, Zenon DEF Tick
<1>11. CASE PowerCut
  BY <1>11, Zenon DEF PowerCut
<1>12. CASE Lose
  BY <1>12, Zenon DEF Lose
<1>13. CASE Connection
  BY <1>13, Zenon DEF Connection
<1>14. CASE UNCHANGED vars
  BY <1>14, Zenon DEF vars
<1> QED
  BY <1>1, <1>2, <1>3, <1>4, <1>5, <1>6, <1>7, <1>8, <1>9, <1>10, <1>11, <1>12,
     <1>13, <1>14
  DEF Next

\* What the steps of a boot have in common: the clock they leave is no later
\* than now, and it is set if a time was stored.
LEMMA AfterBoot ==
  ASSUME TInv, pc' = "running", lastStore' = 0, lastPublish' = now,
         UNCHANGED <<savedUnix, timeValid, writtenAt, complete, threaded, build, now, restarts>>,
         clock' \in Nat, clock' <= now, timeValid => restored' /\ clock' # 0,
         replies' \subseteq replies \cup {now}, threaded => ~synced'
  PROVE  TInv'
<1>1. Numbers' /\ Sources'
  BY ClockAssumption DEF TInv, Numbers, Sources
<1>2. Behind'
  BY DEF TInv, Behind
<1>3. Kept'
  BY DEF TInv, Kept, Storing, hasTime
<1>4. Aging'
  BY ClockAssumption DEF TInv, Numbers, Aging
<1> QED BY <1>1, <1>2, <1>3, <1>4 DEF TInv

\* The start of a threaded build takes a time that is not ahead, and counts it
\* as restored, not as synced.
LEMMA ByBootThreaded == TInv /\ Flags /\ BootThreaded => TInv'
<1> SUFFICES ASSUME TInv, Flags, BootThreaded
             PROVE  TInv'
  OBVIOUS
<1>1. /\ pc' = "running" /\ lastStore' = 0 /\ lastPublish' = now /\ ~synced'
      /\ UNCHANGED <<savedUnix, timeValid, writtenAt, complete, threaded, build, now, restarts>>
  BY DEF BootThreaded, Booted, Restore, Seed, storage
<1>2. replies' \subseteq replies \cup {now}
  BY DEF BootThreaded, Request
<1>3. now \in Nat /\ clock \in Nat /\ savedUnix \in Nat /\ build \in Nat
  BY ClockAssumption DEF TInv, Numbers, Flags
<1>4. clock' \in Nat /\ clock' <= now
  <2>1. clock <= now /\ savedUnix <= now /\ build <= now
    BY ClockAssumption DEF TInv, Numbers, Sources, Flags
  <2> QED BY <1>3, <2>1 DEF BootThreaded, Restore, Seed
<1>5. timeValid => restored' /\ clock' # 0
  BY DEF TInv, Kept, BootThreaded, Restore, Seed
<1> QED BY <1>1, <1>2, <1>4, <1>5, AfterBoot

\* The other build looks for the time once, and finds the true one or keeps the
\* one it has restored.
LEMMA ByBootPlain == TInv /\ Flags /\ BootPlain => TInv'
<1> SUFFICES ASSUME TInv, Flags, BootPlain
             PROVE  TInv'
  OBVIOUS
<1>1. /\ pc' = "running" /\ lastStore' = 0 /\ lastPublish' = now /\ ~threaded
      /\ UNCHANGED <<savedUnix, timeValid, writtenAt, complete, threaded, build, now, restarts>>
      /\ replies' = replies
  BY DEF BootPlain, Booted, storage
<1>2. /\ now \in Nat /\ now # 0
      /\ clock \in Nat /\ clock <= now
      /\ savedUnix \in Nat /\ savedUnix <= now
      /\ build \in Nat /\ build <= now
  BY ClockAssumption DEF TInv, Numbers, Sources, Flags
<1>3. CASE timeValid /\ savedUnix # 0
  <2>1. restored' = TRUE /\ SyncTime(savedUnix)
    BY <1>3 DEF BootPlain
  <2>2. clock' \in {now, savedUnix}
    BY <2>1 DEF SyncTime
  <2> QED BY <1>1, <1>2, <1>3, <2>1, <2>2, AfterBoot
<1>4. CASE ~(timeValid /\ savedUnix # 0)
  <2>1. PICK left \in IF build # 0 THEN {build} ELSE {0, clock} : SyncTime(left)
    BY <1>4 DEF BootPlain
  <2>2. clock' \in {now, left}
    BY <2>1 DEF SyncTime
  <2>3. clock' \in Nat /\ clock' <= now
    BY <1>2, <2>1, <2>2
  <2>4. ~timeValid
    BY <1>4 DEF TInv, Kept
  <2> QED BY <1>1, <2>3, <2>4, AfterBoot
<1> QED BY <1>3, <1>4

\* Every answer on its way is young, so the clock it sets is.
LEMMA ByDeliver == \A r \in replies : TInv /\ Deliver(r) => TInv'
<1> SUFFICES ASSUME NEW r \in replies, TInv, Deliver(r)
             PROVE  TInv'
  OBVIOUS
<1>1. r \in Nat /\ r # 0 /\ r <= now /\ now - r <= MaxDelay
  BY DEF TInv, Numbers, Sources
<1>2. /\ pc # "off" /\ clock' = r /\ synced' = TRUE
      /\ replies' \subseteq replies
      /\ UNCHANGED <<threaded, now, restored, savedUnix, timeValid, writtenAt, complete, pc,
                     lastStore, lastPublish, restarts>>
  BY DEF Deliver, storage
<1>3. Numbers' /\ Sources'
  BY <1>1, <1>2 DEF TInv, Numbers, Sources
<1>4. Behind'
  BY <1>1, <1>2 DEF TInv, Behind
<1>5. Kept' /\ Aging'
  BY <1>1, <1>2 DEF TInv, Kept, Aging, Storing, hasTime
<1> QED BY <1>3, <1>4, <1>5 DEF TInv

\* A store puts the clock, and only a clock that is synced; the restart may
\* come before its second put.
LEMMA ByPut == TInv /\ (Publish \/ Reset) => TInv'
<1> SUFFICES ASSUME TInv, Publish \/ Reset
             PROVE  TInv'
  OBVIOUS
<1>1. /\ pc = "running" /\ pc' \in {"running", "storing", "resetting", "off"}
      /\ UNCHANGED <<threaded, now, clock, synced, restored, timeValid, complete, lastStore,
                     replies>>
      /\ pc' \in {"storing", "running"} => lastPublish' = now
      /\ lastPublish' \in {lastPublish, now}
      /\ restarts' \in {restarts, restarts + 1}
  BY DEF Publish, Reset, Put, storage, cloud
<1>2. \/ /\ StoreDue /\ savedUnix' = clock /\ writtenAt' = now
         /\ pc' \in {"storing", "resetting"}
      \/ ~StoreDue /\ UNCHANGED <<savedUnix, writtenAt>> /\ pc' \in {"running", "off"}
  BY DEF Publish, Reset, Put, storage
<1>3. Numbers' /\ Sources'
  BY <1>1, <1>2 DEF TInv, Numbers, Sources
<1>4. Behind'
  BY <1>1, <1>2, ClockAssumption DEF TInv, Numbers, Behind, StoreDue
<1>5. Kept'
  BY <1>1, <1>2 DEF TInv, Kept, Storing, hasTime, StoreDue
<1>6. Aging'
  <2>1. lastStore \in Nat /\ now \in Nat /\ Gap \in Nat /\ Interval \in Nat
    BY ClockAssumption DEF TInv, Numbers
  <2>2. CASE pc' = "running"
    <3>1. ~StoreDue /\ writtenAt' = writtenAt /\ lastPublish' = now
      BY <1>1, <1>2, <2>2
    <3>2. ASSUME lastStore # 0
          PROVE  synced /\ clock # 0 /\ writtenAt = lastStore
      BY <1>1, <3>2 DEF TInv, Aging
    <3>3. lastStore # 0 => now - lastStore < Interval
      BY <3>1, <3>2 DEF StoreDue
    <3> QED BY <1>1, <2>1, <2>2, <3>1, <3>2, <3>3 DEF Aging
  <2>3. CASE pc' # "running"
    BY <1>1, <2>1, <2>3 DEF Aging
  <2> QED BY <2>2, <2>3
<1> QED BY <1>3, <1>4, <1>5, <1>6 DEF TInv

\* The second put makes the stored time valid; it was put in this very instant.
LEMMA ByStoreEnds == TInv /\ StoreEnds => TInv'
<1> SUFFICES ASSUME TInv, StoreEnds
             PROVE  TInv'
  OBVIOUS
<1>1. /\ Storing
      /\ timeValid' = TRUE /\ complete' = TRUE /\ lastStore' = now
      /\ pc' = IF pc = "storing" THEN "running" ELSE "off"
      /\ UNCHANGED <<threaded, now, clock, synced, restored, savedUnix, writtenAt, lastPublish,
                     replies, restarts>>
  BY DEF StoreEnds, Storing, cloud
<1>2. Numbers' /\ Sources' /\ Behind'
  BY <1>1 DEF TInv, Numbers, Sources, Behind, Storing
<1>3. Kept' /\ Aging'
  BY <1>1, ClockAssumption DEF TInv, Numbers, Kept, Aging, Storing, hasTime
<1> QED BY <1>2, <1>3 DEF TInv

\* A second goes by: the clock follows, and the guards bound every age.
LEMMA ByTick == TInv /\ Tick => TInv'
<1> SUFFICES ASSUME TInv, Tick
             PROVE  TInv'
  OBVIOUS
<1>1. /\ now' = now + 1
      /\ clock' = IF clock = 0 THEN 0 ELSE clock + 1
      /\ pc \in {"off", "running"}
      /\ pc = "running" => now - lastPublish < Gap
      /\ \A r \in replies : now - r < MaxDelay
      /\ UNCHANGED <<threaded, synced, restored, savedUnix, timeValid, writtenAt, complete, pc,
                     lastStore, lastPublish, replies, restarts>>
  BY DEF Tick, storage, cloud
<1>2. /\ now \in Nat /\ clock \in Nat
      /\ \A r \in replies : r \in Nat
      /\ Start \in Nat /\ MaxDelay \in Nat /\ Gap \in Nat /\ Interval \in Nat
  BY ClockAssumption DEF TInv, Numbers
<1>3. Numbers'
  BY <1>1, <1>2 DEF TInv, Numbers
<1>4. Sources'
  BY <1>1, <1>2 DEF TInv, Sources
<1>5. Behind' /\ Kept'
  BY <1>1, <1>2 DEF TInv, Behind, Kept, Storing, hasTime
<1>6. Aging'
  BY <1>1, <1>2 DEF TInv, Numbers, Aging
<1> QED BY <1>3, <1>4, <1>5, <1>6 DEF TInv

\* The steps that touch neither the clock nor the storage.
LEMMA ByOthers ==
  ASSUME TInv, \/ TimerFires \/ TimeCheckPoll \/ Process \/ PowerCut \/ Lose \/ Connection
               \/ UNCHANGED vars
  PROVE  TInv'
<1>1. /\ UNCHANGED <<threaded, now, clock, synced, restored, savedUnix, timeValid, writtenAt,
                     complete, lastStore, lastPublish>>
      /\ pc' \in {pc, "off"}
      /\ replies' \subseteq replies \cup {now}
      /\ restarts' \in {restarts, restarts + 1}
  BY DEF TimerFires, TimeCheckPoll, Request, Process, PowerCut, Lose, Connection, vars,
         storage, cloud
<1>2. Numbers' /\ Sources'
  BY <1>1, ClockAssumption DEF TInv, Numbers, Sources
<1>3. Behind' /\ Kept' /\ Aging'
  BY <1>1 DEF TInv, Behind, Kept, Aging, Storing, hasTime
<1> QED BY <1>2, <1>3 DEF TInv

\* Every step keeps the invariant.
LEMMA ClockNext == CInv /\ [Next]_vars => CInv'
<1> SUFFICES ASSUME CInv, [Next]_vars
             PROVE  CInv'
  OBVIOUS
<1>1. Flags'
  BY FlagsNext DEF CInv
<1>2. TInv'
  BY ByBootThreaded, ByBootPlain, ByDeliver, ByPut, ByStoreEnds, ByTick, ByOthers
  DEF CInv, Next
<1> QED BY <1>1, <1>2 DEF CInv

-----------------------------------------------------------------------------
(* What follows *)

\* Times are times, and none that is compared with now is later than now.
THEOREM ClockTypeCorrect == Spec => []ClockTypeOK
<1>1. CInv => ClockTypeOK
  BY Halves DEF CInv, TInv
<1> QED BY <1>1, ClockInit, ClockNext, PTL DEF Spec

\* The clock is never ahead, and a synced one is as late as an answer at most:
\* neither an order of answers nor a cut between two puts breaks it.
THEOREM SyncedClockIsTrue == Spec => []SyncedIsAuthoritative
<1>1. CInv => SyncedIsAuthoritative
  BY DEF CInv, TInv, Sources, Behind, SyncedIsAuthoritative
<1> QED BY <1>1, ClockInit, ClockNext, PTL DEF Spec

\* After one whole store every boot has a time, and the time a running board
\* would restore is no older than interval, gap and delay together.
THEOREM RestoredClockIsRecent == Spec => []RestoredIsRecent
<1>1. CInv => RestoredIsRecent
  <2> SUFFICES ASSUME CInv
               PROVE  RestoredIsRecent
    OBVIOUS
  <2>1. complete /\ pc # "off" => hasTime /\ clock # 0
    BY DEF CInv, TInv, Kept
  <2>2. threaded /\ synced /\ pc = "running" /\ lastStore # 0
          => now - savedUnix <= Interval + Gap + MaxDelay
    BY ClockAssumption DEF CInv, TInv, Numbers, Behind, Aging
  <2> QED BY <2>1, <2>2 DEF RestoredIsRecent
<1> QED BY <1>1, ClockInit, ClockNext, PTL DEF Spec
=============================================================================
