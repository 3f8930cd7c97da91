------------------------- MODULE PublishCycle_proofs -------------------------
(***************************************************************************)
(* A radio that is down has its wake-up armed and its wake path open, and  *)
(* the count of stored records kept by hand is the store's but for faults  *)
(* of the card, proved for every threshold, interval and size of the store *)
(* with what PayloadStore_proofs shows of the store's steps.               *)
(***************************************************************************)
EXTENDS PublishCycle, TLAPS

Kept == INSTANCE PayloadStore_proofs

-----------------------------------------------------------------------------
(* The radio *)

Flags ==
  /\ down \in BOOLEAN
  /\ save \in BOOLEAN
  /\ timer \in BOOLEAN
  /\ ready \in BOOLEAN
  /\ link \in BOOLEAN
  /\ setting \in {-1, 0, Minutes}

\* Neither property is inductive alone: recommendMaintenance must find the
\* radio up, and no request may reach a board whose radio is down.
RadioInv ==
  /\ Flags
  /\ WakeUpArmed
  /\ WakePathOpen
  /\ save => down
  /\ down => ~link
  /\ phase = "recommend" => ~down

\* A board that starts up has its radio on and nothing armed.
LEMMA RadioInit == Init => RadioInv
BY DEF Init, RadioInv, Flags, WakeUpArmed, WakePathOpen

\* What toggleRadio does to the radio, for any interval the setting can name.
LEMMA ToggleKeeps ==
  ASSUME RadioInv, NEW minutes \in Int, ToggleRadio(minutes),
         minutes > 0 => setting # 0, UNCHANGED setting, phase' = "idle"
  PROVE  RadioInv'
<1> USE CycleAssumption DEF RadioInv, Flags, WakeUpArmed, WakePathOpen, radioVars
<1>1. CASE minutes # 0 /\ down /\ ready
  BY <1>1 DEF ToggleRadio, RadioUp
<1>2. CASE minutes > 0 /\ link /\ ~down /\ records <= 0 /\ ~(minutes # 0 /\ down /\ ready)
  <2>1. RadioDown(minutes) /\ UNCHANGED save
    BY <1>2 DEF ToggleRadio
  <2>2. minutes # 0 /\ setting # 0
    BY <1>2
  <2>3. down' /\ timer' /\ ~ready' /\ ~link' /\ save' = save
    BY <1>2, <2>1, <2>2 DEF RadioDown
  <2>4. timer' = TRUE /\ ready' = FALSE /\ down' = TRUE /\ link' = FALSE
    BY <1>2, <2>1, <2>2 DEF RadioDown
  <2>5. phase' # "recommend" /\ setting' # 0 /\ setting' \in {-1, 0, Minutes}
    BY <2>2
  <2> QED BY <2>3, <2>4, <2>5, Zenon
<1>3. CASE /\ ~(minutes # 0 /\ down /\ ready)
           /\ ~(minutes > 0 /\ link /\ ~down /\ records <= 0)
  BY <1>3 DEF ToggleRadio
<1> QED BY <1>1, <1>2, <1>3

\* Every step of the publisher, the timer, the network and the hardware.
LEMMA RadioNext == RadioInv /\ [Next]_vars => RadioInv'
<1> SUFFICES ASSUME RadioInv, [Next]_vars
             PROVE  RadioInv'
  OBVIOUS
<1> USE CycleAssumption DEF RadioInv, Flags, WakeUpArmed, WakePathOpen, radioVars, netVars
<1>1. CASE TimerFires
  BY <1>1 DEF TimerFires
<1>2. CASE Publish
  BY <1>2 DEF Publish
<1>3. CASE StorePayload
  BY <1>3 DEF StorePayload
<1>4. CASE RecommendNothing
  BY <1>4 DEF RecommendNothing
<1>5. CASE RecommendSilence
  <2>1. ~down /\ Minutes > 0 /\ Minutes # 0
    BY <1>5 DEF RecommendSilence
  <2>2. save' = TRUE /\ down' = TRUE /\ timer' = TRUE /\ ready' = FALSE /\ link' = FALSE
    BY <1>5, <2>1 DEF RecommendSilence, RadioDown
  <2>3. phase' # "recommend" /\ UNCHANGED setting
    BY <1>5 DEF RecommendSilence
  <2> QED BY <2>2, <2>3, Zenon
<1>6. CASE RecommendPatience
  BY <1>6 DEF RecommendPatience
<1>7. CASE RecommendReset
  BY <1>7 DEF RecommendReset, Restart
<1>8. CASE OfflineModeCheck
  <2>1. phase' = "idle" /\ UNCHANGED setting
    BY <1>8 DEF OfflineModeCheck
  <2>2. CASE save /\ ready
    BY <1>8, <2>1, <2>2 DEF OfflineModeCheck, RadioUp
  <2>3. CASE ~(save /\ ready) /\ setting = -1
    <3>1. PICK minutes \in AutoMinutes : ToggleRadio(minutes)
      BY <1>8, <2>3 DEF OfflineModeCheck
    <3>2. minutes \in Int
      BY <3>1 DEF AutoMinutes
    <3> QED BY <2>1, <2>3, <3>1, <3>2, ToggleKeeps
  <2>4. CASE ~(save /\ ready) /\ setting # -1
    <3>1. ToggleRadio(setting)
      BY <1>8, <2>4 DEF OfflineModeCheck
    <3>2. setting \in Int /\ (setting > 0 => setting # 0)
      OBVIOUS
    <3> QED BY <2>1, <3>1, <3>2, ToggleKeeps
  <2> QED BY <2>2, <2>3, <2>4
<1>9. CASE OfflineCheck \/ PopRead \/ PopSettle \/ PopSent
  BY <1>9 DEF OfflineCheck, PopRead, PopSettle, PopSent
<1>10. CASE SetLowPowerMode
  BY <1>10 DEF SetLowPowerMode
<1>11. CASE LinkUp \/ LinkLost \/ ConnectFails \/ ClockSyncs
  <2>1. /\ down' = down /\ save' = save /\ timer' = timer /\ ready' = ready
        /\ setting' = setting /\ phase' = phase
    BY <1>11 DEF LinkUp, LinkLost, ConnectFails, ClockSyncs
  <2>2. link' \in BOOLEAN /\ (down => ~link')
    BY <1>11 DEF LinkUp, LinkLost, ConnectFails, ClockSyncs
  <2>3. Flags' /\ WakeUpArmed' /\ WakePathOpen'
    BY <2>1, <2>2
  <2> QED BY <2>1, <2>2, <2>3, Zenon
<1>12. CASE PowerCut
  BY <1>12 DEF PowerCut, Restart
<1>13. CASE CardMoves
  BY <1>13 DEF CardMoves
<1>14. CASE UNCHANGED vars
  BY <1>14 DEF vars
<1> QED
  BY <1>1, <1>2, <1>3, <1>4, <1>5, <1>6, <1>7, <1>8, <1>9, <1>10, <1>11, <1>12,
     <1>13, <1>14
  DEF Next, Publisher

\* A radio that is down wakes up: the timer or its flag will wake it, and it is
\* in radio silence or under a setting that lets offlineModeCheck look at the
\* flag; while it is up nothing is left armed.
THEOREM RadioWakes == Spec => []WakeUpIsSure
<1>1. RadioInv => WakeUpIsSure
  BY DEF RadioInv, WakeUpIsSure
<1> QED BY <1>1, RadioInit, RadioNext, PTL DEF Spec

-----------------------------------------------------------------------------
(* The steps of the store *)

StoreInv == Kept!TypeOK /\ Kept!Control /\ Kept!Sessions

\* The store of the cycle is the store whose steps are proved about.
LEMMA SameSteps ==
  /\ \A ok \in BOOLEAN : Store!Push(ok) => Kept!Push(ok)
  /\ Store!PopBegin => Kept!PopBegin
  /\ Store!PopLine => Kept!PopLine
  /\ Store!PopNoCard => Kept!PopNoCard
  /\ Store!PopEnd => Kept!PopEnd
  /\ Store!PopReadFault => Kept!PopReadFault
  /\ Store!PopTruncate => Kept!PopTruncate
  /\ Store!PopAdvance => Kept!PopAdvance
  /\ Store!PublishDone => Kept!PublishDone
  /\ Store!PublishFailed => Kept!PublishFailed
  /\ Store!PutBack => Kept!PutBack
  /\ Store!PowerCut => Kept!PowerCut
  /\ Store!Eject => Kept!Eject
  /\ Store!Insert => Kept!Insert
<1> USE DEF Store!Usable, Kept!Usable, Store!MountOnUse, Kept!MountOnUse, Store!Fault, Kept!Fault,
            Store!TotalFaults, Kept!TotalFaults, Store!cardVars, Kept!cardVars,
            Store!popVars, Kept!popVars, Store!ReadNothing, Kept!ReadNothing
<1>0. ASSUME NEW r, NEW ok \in BOOLEAN PROVE Store!Append1(r, ok) => Kept!Append1(r, ok)
  BY DEF Store!Append1, Kept!Append1
<1>1. \A ok \in BOOLEAN : Store!Push(ok) => Kept!Push(ok)
  BY <1>0 DEF Store!Push, Kept!Push
<1>2. /\ Store!PopBegin => Kept!PopBegin
      /\ Store!PopLine => Kept!PopLine
      /\ Store!PopNoCard => Kept!PopNoCard
  BY DEF Store!PopBegin, Kept!PopBegin, Store!PopLine, Kept!PopLine,
         Store!PopNoCard, Kept!PopNoCard
<1>3. Store!PopEnd => Kept!PopEnd
  BY DEF Store!PopEnd, Kept!PopEnd
<1>4. Store!PopReadFault => Kept!PopReadFault
  BY DEF Store!PopReadFault, Kept!PopReadFault
<1>5. /\ Store!PopTruncate => Kept!PopTruncate
      /\ Store!PopAdvance => Kept!PopAdvance
      /\ Store!PublishFailed => Kept!PublishFailed
  BY DEF Store!PopTruncate, Kept!PopTruncate, Store!PopAdvance, Kept!PopAdvance,
         Store!PublishFailed, Kept!PublishFailed
<1>6. Store!PublishDone => Kept!PublishDone
  BY DEF Store!PublishDone, Kept!PublishDone
<1>7. Store!PutBack => Kept!PutBack
  BY <1>0 DEF Store!PutBack, Kept!PutBack
<1>8. Store!PowerCut => Kept!PowerCut
  BY DEF Store!PowerCut, Kept!PowerCut
<1>9. /\ Store!Eject => Kept!Eject
      /\ Store!Insert => Kept!Insert
  BY DEF Store!Eject, Kept!Eject, Store!Insert, Kept!Insert
<1> QED BY <1>1, <1>2, <1>3, <1>4, <1>5, <1>6, <1>7, <1>8, <1>9

LEMMA SameType == Store!TypeOK <=> Kept!TypeOK
BY DEF Store!TypeOK, Kept!TypeOK, Store!Records, Kept!Records, Store!FaultKinds, Kept!FaultKinds

\* A step of the cycle takes a step of the store, leaves it alone, or restarts
\* the board and with it the session of the card.
LEMMA StepOfStore ==
  [Next]_vars => Kept!Next \/ UNCHANGED storeVars \/ RecommendReset
<1> SUFFICES ASSUME [Next]_vars
             PROVE  Kept!Next \/ UNCHANGED storeVars \/ RecommendReset
  OBVIOUS
<1>1. CASE StorePayload
  <2>1. PICK ok \in BOOLEAN : Store!Push(ok)
    BY <1>1 DEF StorePayload
  <2> QED BY <2>1, SameSteps DEF Kept!Next
<1>2. CASE OfflineCheck
  BY <1>2, SameSteps DEF OfflineCheck, Kept!Next
<1>3. CASE PopRead \/ PopSettle \/ PopSent
  BY <1>3, SameSteps DEF PopRead, PopSettle, PopSent, Kept!Next, Kept!PopStep
<1>4. CASE PowerCut \/ CardMoves
  BY <1>4, SameSteps DEF PowerCut, CardMoves, Kept!Next, Kept!Hardware
<1>5. CASE TimerFires \/ Publish \/ RecommendNothing \/ RecommendSilence \/ RecommendPatience
           \/ OfflineModeCheck
  BY <1>5 DEF TimerFires, Publish, RecommendNothing, RecommendSilence, RecommendPatience,
              OfflineModeCheck
<1>6. CASE SetLowPowerMode \/ LinkUp \/ LinkLost \/ ConnectFails \/ ClockSyncs \/ UNCHANGED vars
  BY <1>6 DEF SetLowPowerMode, LinkUp, LinkLost, ConnectFails, ClockSyncs, vars
<1> QED BY <1>1, <1>2, <1>3, <1>4, <1>5, <1>6 DEF Next, Publisher

LEMMA StoreInit == Init => StoreInv
<1> SUFFICES ASSUME Init
             PROVE  StoreInv
  OBVIOUS
<1>1. Kept!Init
  BY DEF Init, Store!Init, Kept!Init, Store!Records, Kept!Records, Store!FaultKinds,
         Kept!FaultKinds
<1>2. Kept!IInv
  BY <1>1, Kept!IInvInit, CycleAssumption
<1> QED BY <1>2 DEF StoreInv, Kept!IInv
\* The restart that recommendMaintenance asks for finds no pop under way.
LEMMA StoreKeeps ==
  StoreInv /\ (phase = "recommend" => pc = "idle") /\ [Next]_vars => StoreInv'
<1> SUFFICES ASSUME StoreInv, phase = "recommend" => pc = "idle", [Next]_vars
             PROVE  StoreInv'
  OBVIOUS
<1>0. Kept!TypeOK /\ Kept!Control /\ Kept!Sessions
  BY DEF StoreInv
<1>1. CASE Kept!Next \/ UNCHANGED storeVars
  <2>1. [Kept!Next]_(Kept!vars)
    BY <1>1 DEF Kept!vars, storeVars
  <2>2. Kept!TypeOK'
    BY <1>0, <2>1, Kept!TypeKeeps, CycleAssumption
  <2>3. Kept!Control'
    BY <1>0, <2>1, Kept!ControlKeeps, CycleAssumption
  <2>4. Kept!Sessions'
    BY <1>0, <2>1, Kept!SessionsKeep, CycleAssumption
  <2> QED BY <2>2, <2>3, <2>4 DEF StoreInv
<1>2. CASE RecommendReset
  <2>1. /\ pc = "idle" /\ mount' = IF card = "in" THEN "live" ELSE "none"
        /\ UNCHANGED <<file, popKey, card, pc, position, hand, offered, accepted, sent, faults>>
    BY <1>2 DEF RecommendReset
  <2>2. Kept!TypeOK'
    BY <1>0, <2>1 DEF Kept!TypeOK
  <2>3. Kept!Control'
    BY <1>0, <2>1 DEF Kept!Control, Kept!PositionInFile
  <2>4. Kept!Sessions'
    BY <2>1 DEF Kept!Sessions
  <2> QED BY <2>2, <2>3, <2>4 DEF StoreInv
<1> QED BY <1>1, <1>2, StepOfStore

-----------------------------------------------------------------------------
(* The count *)

\* What a count can rely on: the lines that no pop has taken yet and the record
\* that one has in hand, as long as there is a card for it to go back to.
Left == IF pc = "truncate" /\ Kept!Usable THEN 0 ELSE Len(file) - Kept!Behind
Held == IF Kept!Usable /\ hand # Nothing THEN 1 ELSE 0
Room == Left + Held

\* A pop runs between two runs of the publisher, and only when something is
\* counted.
Turn ==
  /\ records \in Nat
  /\ phase # "idle" => pc = "idle"
  /\ pc # "idle" => records >= 1

Over == faults["read"] = 0 => records <= Room + CardFaults

\* Without a fault of the card no pop comes to the end of the file.
Unfailing ==
  /\ card = "in" /\ mount = "live"
  /\ pc = "read" => position = popKey
  /\ pc = "advance" => position = popKey + 1 /\ hand # Nothing
  /\ ~silenced => records = Room /\ pc # "truncate"

Exact == CardFaults = 0 => Unfailing

Counted == Turn /\ Over /\ Exact

SizesKnown ==
  /\ Len(file) \in Nat /\ popKey \in Nat /\ position \in Nat
  /\ Kept!Behind \in Nat /\ Left \in Nat /\ (Held = 0 \/ Held = 1) /\ Room \in Nat
  /\ popKey <= Len(file) /\ CardFaults \in Nat

LEMMA Sizes == StoreInv => SizesKnown
<1> SUFFICES ASSUME StoreInv
             PROVE  SizesKnown
  OBVIOUS
<1>1. /\ Len(file) \in Nat /\ popKey \in Nat /\ position \in Nat
      /\ popKey <= Len(file)
      /\ pc = "advance" => position <= Len(file)
  BY DEF StoreInv, Kept!TypeOK, Kept!Control, Kept!PositionInFile
<1>2. /\ Kept!Behind \in Nat /\ Kept!Behind <= Len(file)
  BY <1>1 DEF Kept!Behind
<1>3. Left \in Nat
  BY <1>1, <1>2 DEF Left
<1>4. Held = 0 \/ Held = 1
  BY DEF Held
<1>5. Room \in Nat
  BY <1>3, <1>4 DEF Room
<1>6. /\ faults["eject"] \in Nat /\ faults["read"] \in Nat /\ faults["write"] \in Nat
  BY DEF StoreInv, Kept!TypeOK, Kept!FaultKinds
<1>7. CardFaults \in Nat
  BY <1>6 DEF CardFaults
<1> QED BY <1>1, <1>2, <1>3, <1>4, <1>5, <1>7 DEF SizesKnown

LEMMA SizesNext == StoreInv' => SizesKnown'
BY Sizes, PTL

\* A fault of the card is counted, a loss of power is not.
LEMMA FaultCounts ==
  ASSUME StoreInv, NEW k \in Kept!FaultKinds, Kept!Fault(k)
  PROVE  /\ faults'["read"] = 0 => faults["read"] = 0 /\ k # "read"
         /\ CardFaults' = IF k \in {"eject", "read", "write"} THEN CardFaults + 1 ELSE CardFaults
<1>1. /\ faults \in [Kept!FaultKinds -> Nat]
      /\ faults' = [faults EXCEPT ![k] = faults[k] + 1]
  BY DEF StoreInv, Kept!TypeOK, Kept!Fault
<1>2. \A j \in Kept!FaultKinds : faults'[j] = IF j = k THEN faults[j] + 1 ELSE faults[j]
  BY <1>1
<1>3. /\ faults["eject"] \in Nat /\ faults["read"] \in Nat /\ faults["write"] \in Nat
  BY <1>1 DEF Kept!FaultKinds
<1>4. /\ faults'["eject"] = IF "eject" = k THEN faults["eject"] + 1 ELSE faults["eject"]
      /\ faults'["read"] = IF "read" = k THEN faults["read"] + 1 ELSE faults["read"]
      /\ faults'["write"] = IF "write" = k THEN faults["write"] + 1 ELSE faults["write"]
  BY <1>2 DEF Kept!FaultKinds
<1>5. faults'["read"] = 0 => faults["read"] = 0 /\ k # "read"
  BY <1>3, <1>4
<1>6. CASE k \in {"eject", "read", "write"}
  BY <1>3, <1>4, <1>5, <1>6 DEF CardFaults
<1>7. CASE k \notin {"eject", "read", "write"}
  BY <1>3, <1>4, <1>5, <1>7 DEF CardFaults
<1> QED BY <1>5, <1>6, <1>7

LEMMA SameCounts == ASSUME UNCHANGED faults PROVE CardFaults' = CardFaults
BY DEF CardFaults

LEMMA RoomSums ==
  \A n, n1 \in Int : \A room, room1, c, c1 \in Nat :
    n <= room + c /\ n1 - n <= (room1 - room) + (c1 - c) => n1 <= room1 + c1
OBVIOUS

LEMMA SameSums ==
  \A n, n1 \in Int : \A room, room1, c \in Nat :
    n <= room + c /\ n1 - n <= room1 - room => n1 <= room1 + c
OBVIOUS

LEMMA DifferenceAtMost ==
  \A n, n1 \in Int : \A room, room1 \in Nat :
    n1 - n = room1 - room => n1 - n <= room1 - room
OBVIOUS

LEMMA RoomDifference ==
  \A n1 \in Int : \A room, room1 \in Nat : n1 - room = room1 - room => n1 = room1
OBVIOUS

\* When a step's room grows with the count, up to one per fault of the card.
LEMMA OverKeeps ==
  ASSUME StoreInv, StoreInv', Turn, records' \in Int, Over,
         faults'["read"] = 0 =>
           /\ faults["read"] = 0
           /\ records' - records <= (Room' - Room) + (CardFaults' - CardFaults)
  PROVE  Over'
<1>1. /\ Room \in Nat /\ CardFaults \in Nat /\ records \in Nat
  BY Sizes DEF SizesKnown, Turn
<1>2. Room' \in Nat /\ CardFaults' \in Nat
  BY SizesNext DEF SizesKnown
<1> SUFFICES ASSUME faults'["read"] = 0
             PROVE  records' <= Room' + CardFaults'
  BY DEF Over
<1>0. /\ faults["read"] = 0
      /\ records' - records <= (Room' - Room) + (CardFaults' - CardFaults)
  OBVIOUS
<1>3. records <= Room + CardFaults
  BY <1>0 DEF Over
<1>4. records \in Int /\ records' \in Int
  BY <1>1
<1> QED BY <1>0, <1>1, <1>2, <1>3, <1>4, RoomSums, Zenon

LEMMA CountedStep ==
  ASSUME StoreInv, StoreInv', Counted, Turn', faults' = faults,
         records' - records <= Room' - Room,
         CardFaults = 0 /\ Unfailing => Unfailing'
  PROVE  Counted'
<1>1. CardFaults' = CardFaults /\ CardFaults \in Nat
  BY SameCounts, Sizes DEF SizesKnown
<1>2. /\ Turn /\ Over /\ records' \in Int /\ records \in Int /\ Room \in Nat /\ Room' \in Nat
  BY Sizes, SizesNext DEF SizesKnown, Counted, Turn
<1>3. ASSUME faults'["read"] = 0
      PROVE  records' <= Room' + CardFaults'
  <2>1. records <= Room + CardFaults
    BY <1>2, <1>3 DEF Over
  <2> QED BY <1>1, <1>2, <2>1, SameSums, Zenon
<1>4. Over'
  BY <1>3 DEF Over
<1>5. Exact'
  BY <1>1 DEF Counted, Exact
<1> QED BY <1>4, <1>5 DEF Counted

\* A fault of the card may leave the count one too high.
LEMMA CountedFault ==
  ASSUME StoreInv, StoreInv', Counted, Turn', NEW k \in {"eject", "write"}, Kept!Fault(k),
         records' - records <= (Room' - Room) + 1
  PROVE  Counted'
<1>1. k \in Kept!FaultKinds
  BY DEF Kept!FaultKinds
<1>2. /\ faults'["read"] = 0 => faults["read"] = 0
      /\ CardFaults' = CardFaults + 1
  BY <1>1, FaultCounts
<1>3. CardFaults \in Nat /\ Turn /\ Over /\ records' \in Int
  BY Sizes DEF SizesKnown, Counted, Turn
<1>4. CardFaults' - CardFaults = 1 /\ CardFaults' # 0
  BY <1>2, <1>3
<1>5. records' - records <= (Room' - Room) + (CardFaults' - CardFaults)
  BY <1>4, Zenon
<1>6. Over'
  BY <1>2, <1>3, <1>5, OverKeeps
<1> QED BY <1>4, <1>6 DEF Counted, Exact

LEMMA CountedInit == Init => Counted
<1> SUFFICES ASSUME Init
             PROVE  Counted
  OBVIOUS
<1>1. /\ file = <<>> /\ popKey = 0 /\ card = "in" /\ mount = "live" /\ pc = "idle"
      /\ hand = Nothing /\ records = 0 /\ phase = "idle"
  BY DEF Init, Store!Init
<1>2. Left = 0 /\ Held = 0
  BY <1>1 DEF Left, Held, Kept!Behind
<1>3. Room = 0 /\ CardFaults \in Nat
  BY <1>2, StoreInit, Sizes DEF SizesKnown, Room
<1> QED BY <1>1, <1>3 DEF Counted, Turn, Over, Exact, Unfailing

\* A record that was stored counts, one that was not does not, and one that
\* appendln only seems to have stored is a fault of the card.
LEMMA CountedPush ==
  ASSUME StoreInv, StoreInv', Counted, NEW ok \in BOOLEAN, Kept!Push(ok),
         records' = IF ok THEN records + 1 ELSE records, UNCHANGED silenced
  PROVE  Counted'
<1>1. /\ pc = "idle" /\ UNCHANGED <<popKey, card, pc, position, hand>>
      /\ mount' \in {"none", "live", "stale"} /\ (Kept!Usable' <=> Kept!Usable)
      /\ mount # "none" => mount' = mount
      /\ \/ Kept!Usable /\ ok /\ file' = Append(file, offered + 1) /\ faults' = faults
         \/ Kept!Usable /\ file' = file /\ Kept!Fault("write")
         \/ ~Kept!Usable /\ ~ok /\ file' = file /\ faults' = faults
  BY Kept!PushIs, CycleAssumption DEF StoreInv
<1>2. hand = Nothing /\ records \in Nat
  BY <1>1 DEF StoreInv, Kept!Control, Counted, Turn
<1>3. Held = 0 /\ Held' = 0 /\ Left = Len(file) - popKey /\ Left' = Len(file)' - popKey
  BY <1>1, <1>2 DEF Held, Left, Kept!Behind
<1>4. /\ Room = Len(file) - popKey /\ Room' = Len(file)' - popKey
      /\ Len(file) \in Nat /\ popKey \in Nat /\ CardFaults \in Nat
  BY <1>3, Sizes DEF SizesKnown, Room
<1>5. Turn'
  <2>1. records' \in Nat
    BY <1>2
  <2> QED BY <1>1, <2>1 DEF Turn
<1>6. CASE Kept!Usable /\ file' = file /\ Kept!Fault("write")
  <2>1. records' - records <= (Room' - Room) + 1
    BY <1>2, <1>4, <1>6
  <2> QED BY <1>5, <1>6, <2>1, CountedFault
<1>7. ASSUME faults' = faults, records' - records = Room' - Room
      PROVE  Counted'
  <2>1. Room' \in Nat /\ Room \in Nat /\ records' \in Int /\ records \in Int
    BY <1>2, <1>5, Sizes, SizesNext DEF SizesKnown, Turn
  <2>2. records' - records <= Room' - Room
    BY <1>7, <2>1, DifferenceAtMost, Zenon
  <2>3. ASSUME records = Room
        PROVE  records' = Room'
    <3>1. records' - Room = Room' - Room
      BY <1>7, <2>3
    <3> QED BY <2>1, <3>1, RoomDifference, Zenon
  <2>4. Unfailing => Unfailing'
    BY <1>1, <2>3 DEF Unfailing
  <2> QED BY <1>5, <1>7, <2>2, <2>4, CountedStep
<1>8. CASE Kept!Usable /\ ok /\ file' = Append(file, offered + 1) /\ faults' = faults
  <2>1. Len(file)' = Len(file) + 1
    BY <1>8 DEF StoreInv, Kept!TypeOK
  <2> QED BY <1>2, <1>4, <1>7, <1>8, <2>1
<1>9. CASE ~Kept!Usable /\ ~ok /\ file' = file /\ faults' = faults
  BY <1>2, <1>4, <1>7, <1>9
<1> QED BY <1>1, <1>6, <1>8, <1>9

LEMMA GrowthAtLeast ==
  \A n \in Int : \A room, room1 \in Nat : room <= room1 => n - n <= room1 - room
OBVIOUS

\* A step that leaves the count alone and the room no smaller.
LEMMA CountedSame ==
  ASSUME StoreInv, StoreInv', Counted, UNCHANGED <<faults, records, silenced>>,
         phase' # "idle" => pc' = "idle", pc' # "idle" => records >= 1,
         Room <= Room',
         CardFaults = 0 /\ Unfailing =>
           /\ card' = "in" /\ mount' = "live"
           /\ pc' = "read" => position' = popKey'
           /\ pc' = "advance" => position' = popKey' + 1 /\ hand' # Nothing
           /\ ~silenced => Room' = Room /\ pc' # "truncate"
  PROVE  Counted'
<1>1. records \in Nat /\ records \in Int /\ records' = records
  BY DEF Counted, Turn
<1>2. Room \in Nat /\ Room' \in Nat
  BY Sizes, SizesNext DEF SizesKnown
<1>3. Turn'
  BY <1>1 DEF Turn
<1>4. records' - records <= Room' - Room
  BY <1>1, <1>2, GrowthAtLeast, Zenon
<1>5. CardFaults = 0 /\ Unfailing => Unfailing'
  BY <1>1 DEF Unfailing
<1> QED BY <1>3, <1>4, <1>5, CountedStep

\* With a card that never failed the file can be used.
LEMMA UnfailingUsable == Unfailing => Kept!Usable
BY DEF Unfailing, Kept!Usable

LEMMA CountedBegin ==
  ASSUME StoreInv, StoreInv', Counted, Kept!PopBegin, records >= 1, phase = "idle",
         UNCHANGED <<records, phase, silenced>>
  PROVE  Counted'
<1>1. /\ pc = "idle" /\ pc' = "read" /\ hand' = Nothing
      /\ position' = IF card = "in" THEN popKey ELSE 0
      /\ UNCHANGED <<file, popKey, card, mount, faults>>
  BY DEF Kept!PopBegin, Kept!cardVars
<1>2. hand = Nothing
  BY <1>1 DEF StoreInv, Kept!Control
<1>3. Room' = Room
  BY <1>1, <1>2 DEF Room, Left, Held, Kept!Behind, Kept!Usable
<1>4. Room <= Room'
  BY <1>3, Sizes DEF SizesKnown
<1>5. Unfailing =>
        /\ card' = "in" /\ mount' = "live"
        /\ pc' = "read" => position' = popKey'
        /\ pc' # "advance" /\ pc' # "truncate"
  BY <1>1 DEF Unfailing
<1> QED BY <1>1, <1>3, <1>4, <1>5, CountedSame

\* The line that was read leaves the lines and is in hand.
LEMMA CountedLine ==
  ASSUME StoreInv, StoreInv', Counted, Kept!PopLine, UNCHANGED <<records, phase, silenced>>
  PROVE  Counted'
<1>1. /\ pc = "read" /\ Kept!Usable /\ position < Len(file) /\ pc' = "advance"
      /\ position' = position + 1 /\ hand' \in Kept!Records
      /\ Kept!Usable' /\ (mount # "none" => mount' = mount)
      /\ UNCHANGED <<file, popKey, card, faults>>
  BY Kept!PopLineIs, CycleAssumption DEF StoreInv
<1>2. hand = Nothing /\ hand' # Nothing /\ (position = 0 \/ position = popKey)
  BY <1>1, CycleAssumption DEF StoreInv, Kept!Control, Kept!Records
<1>3. Len(file) \in Nat /\ popKey \in Nat /\ position \in Nat
  BY Sizes DEF SizesKnown
<1>4. Room = Len(file) - popKey
  BY <1>1, <1>2, <1>3 DEF Room, Left, Held, Kept!Behind
<1>5. Room' = (IF position + 1 > popKey THEN Len(file) - (position + 1) ELSE Len(file) - popKey) + 1
  BY <1>1, <1>2, <1>3 DEF Room, Left, Held, Kept!Behind
<1>6. Room <= Room'
  BY <1>2, <1>3, <1>4, <1>5
<1>7. position = popKey => Room' = Room
  BY <1>3, <1>4, <1>5
<1>8. Unfailing =>
        /\ card' = "in" /\ mount' = "live"
        /\ pc' = "advance" => position' = popKey' + 1 /\ hand' # Nothing
        /\ pc' # "read" /\ pc' # "truncate" /\ Room' = Room
  BY <1>1, <1>2, <1>7 DEF Unfailing
<1>9. phase' = "idle" /\ records >= 1
  BY <1>1 DEF Counted, Turn
<1> QED BY <1>1, <1>6, <1>8, <1>9, CountedSame

LEMMA CountedNoCard ==
  ASSUME StoreInv, StoreInv', Counted, Kept!PopNoCard, UNCHANGED <<records, phase, silenced>>
  PROVE  Counted'
<1>1. /\ pc = "read" /\ card = "out" /\ pc' = "advance"
      /\ UNCHANGED <<file, popKey, card, mount, position, hand, faults>>
  BY DEF Kept!PopNoCard, Kept!cardVars
<1>2. position = 0 \/ position = popKey
  BY <1>1 DEF StoreInv, Kept!Control
<1>3. Kept!Behind = popKey /\ Kept!Behind' = popKey
  BY <1>1, <1>2, Sizes DEF SizesKnown, Kept!Behind
<1>4. Room' = Room
  BY <1>1, <1>3 DEF Room, Left, Held, Kept!Usable
<1>5. Room <= Room' /\ ~Unfailing
  BY <1>1, <1>4, Sizes DEF SizesKnown, Unfailing
<1>6. phase' = "idle" /\ records >= 1
  BY <1>1 DEF Counted, Turn
<1> QED BY <1>1, <1>5, <1>6, CountedSame

\* A pop that something was counted for comes to the end of the file only after
\* a fault of the card.
LEMMA CountedEnd ==
  ASSUME StoreInv, StoreInv', Counted, Kept!PopEnd, UNCHANGED <<records, phase, silenced>>
  PROVE  Counted'
<1>1. /\ pc = "read" /\ card = "in" /\ (Kept!Usable => position >= Len(file))
      /\ Kept!ReadNothing /\ UNCHANGED faults
  BY DEF Kept!PopEnd
<1>2. /\ position = 0 => pc' = "idle" /\ popKey' = popKey
      /\ position # 0 => pc' = "truncate" /\ popKey' = 0
      /\ UNCHANGED <<file, card, hand>>
      /\ (Kept!Usable' <=> Kept!Usable) /\ (mount # "none" => mount' = mount)
  BY <1>1, Kept!ReadNothingIs, CycleAssumption DEF StoreInv
<1>3. hand = Nothing /\ (position = 0 \/ position = popKey)
  BY <1>1 DEF StoreInv, Kept!Control
<1>4. Len(file) \in Nat /\ popKey \in Nat /\ position \in Nat /\ popKey <= Len(file)
  BY Sizes DEF SizesKnown
<1>5. Room = Len(file) - popKey
  BY <1>1, <1>3, <1>4 DEF Room, Left, Held, Kept!Behind
<1>6. position = 0 => Room' = Len(file) - popKey
  BY <1>2, <1>3, <1>4 DEF Room, Left, Held, Kept!Behind
<1>7. position # 0 => Room' = IF Kept!Usable THEN 0 ELSE Len(file)
  BY <1>2, <1>3, <1>4 DEF Room, Left, Held, Kept!Behind
<1>8. Room <= Room'
  <2>1. CASE position = 0
    BY <1>4, <1>5, <1>6, <2>1
  <2>2. CASE position # 0 /\ Kept!Usable
    <3>1. position = popKey /\ position >= Len(file)
      BY <1>1, <1>3, <2>2
    <3> QED BY <1>4, <1>5, <1>7, <2>2, <3>1
  <2>3. CASE position # 0 /\ ~Kept!Usable
    BY <1>4, <1>5, <1>7, <2>3
  <2> QED BY <2>1, <2>2, <2>3
<1>9. Unfailing => silenced
  <2> SUFFICES ASSUME Unfailing, ~silenced
               PROVE  FALSE
    OBVIOUS
  <2>1. position = popKey /\ records = Room /\ position >= Len(file)
    BY <1>1, UnfailingUsable DEF Unfailing
  <2>2. Room = 0
    BY <1>4, <1>5, <2>1
  <2>3. records >= 1
    BY <1>1 DEF Counted, Turn
  <2> QED BY <2>1, <2>2, <2>3
<1>10. pc' = "idle" \/ pc' = "truncate"
  BY <1>2
<1>11. Unfailing => card' = "in" /\ mount' = "live"
  BY <1>2 DEF Unfailing
<1>12. phase' = "idle" /\ records >= 1
  BY <1>1 DEF Counted, Turn
<1> QED BY <1>1, <1>8, <1>9, <1>10, <1>11, <1>12, CountedSame

LEMMA CountedReadFault ==
  ASSUME StoreInv, Counted, Kept!PopReadFault, UNCHANGED <<records, phase, silenced>>
  PROVE  Counted'
<1>1. pc = "read" /\ Kept!Fault("read")
  BY DEF Kept!PopReadFault
<1>2. "read" \in Kept!FaultKinds
  BY DEF Kept!FaultKinds
<1>3. faults'["read"] # 0 /\ CardFaults' = CardFaults + 1
  BY <1>1, <1>2, FaultCounts
<1>4. CardFaults' # 0
  BY <1>3, Sizes DEF SizesKnown
<1>5. Turn'
  BY <1>1 DEF Counted, Turn
<1> QED BY <1>3, <1>4, <1>5 DEF Counted, Over, Exact

LEMMA CountedTruncate ==
  ASSUME StoreInv, StoreInv', Counted, Kept!PopTruncate, UNCHANGED <<records, phase, silenced>>
  PROVE  Counted'
<1>1. /\ pc = "truncate" /\ pc' = "idle" /\ Kept!MountOnUse
      /\ file' = IF Kept!Usable THEN <<>> ELSE file
      /\ UNCHANGED <<popKey, card, hand, faults>>
  BY DEF Kept!PopTruncate
<1>2. hand = Nothing /\ popKey = 0 /\ mount # "none"
  BY <1>1 DEF StoreInv, Kept!Control
<1>3. mount' = mount /\ (Kept!Usable' <=> Kept!Usable)
  BY <1>1, <1>2 DEF Kept!MountOnUse, Kept!Usable
<1>4. Room = (IF Kept!Usable THEN 0 ELSE Len(file)) /\ Len(file) \in Nat
  BY <1>1, <1>2, Sizes DEF SizesKnown, Room, Left, Held, Kept!Behind
<1>5. Room' = (IF Kept!Usable THEN 0 ELSE Len(file))
  BY <1>1, <1>2, <1>3, <1>4 DEF Room, Left, Held, Kept!Behind
<1>6. Room <= Room' /\ Room' = Room
  BY <1>4, <1>5
<1>7. Unfailing => card' = "in" /\ mount' = "live"
  BY <1>1, <1>3 DEF Unfailing
<1>8. phase' = "idle" /\ records >= 1
  BY <1>1 DEF Counted, Turn
<1> QED BY <1>1, <1>6, <1>7, <1>8, CountedSame

\* The position passes the line that is in hand, or stays in front of it.
LEMMA CountedAdvance ==
  ASSUME StoreInv, StoreInv', Counted, Kept!PopAdvance, UNCHANGED <<records, phase, silenced>>
  PROVE  Counted'
<1>1. /\ pc = "advance" /\ pc' = IF hand = Nothing THEN "idle" ELSE "publish"
      /\ popKey' = IF position > 0 /\ card = "in" THEN position ELSE popKey
      /\ UNCHANGED <<file, card, mount, hand, faults>>
  BY DEF Kept!PopAdvance, Kept!cardVars
<1>2. /\ position <= Len(file)
      /\ hand = Nothing => position = 0 \/ position = popKey
      /\ hand # Nothing => position = 1 \/ position = popKey + 1
  BY <1>1 DEF StoreInv, Kept!Control
<1>3. /\ Len(file) \in Nat /\ popKey \in Nat /\ position \in Nat /\ popKey <= Len(file)
      /\ Held = 0 \/ Held = 1
  BY Sizes DEF SizesKnown
<1>4. Left = Len(file) - (IF position > popKey THEN position ELSE popKey)
  BY <1>1 DEF Left, Kept!Behind
<1>5. Left' = Len(file) - popKey' /\ Held' = Held
  BY <1>1 DEF Left, Held, Kept!Behind, Kept!Usable
<1>6. popKey' \in Nat
  BY <1>1, <1>3
<1>7. popKey' <= (IF position > popKey THEN position ELSE popKey)
  BY <1>1, <1>3
<1>8. Left <= Left'
  BY <1>3, <1>4, <1>5, <1>6, <1>7
<1>9. Room <= Room'
  <2>1. \A a, b, h \in Int : a <= b => a + h <= b + h
    OBVIOUS
  <2>2. Left \in Int /\ Left' \in Int /\ Held \in Int
    BY <1>3, <1>4, <1>5, <1>6
  <2> QED BY <1>5, <1>8, <2>1, <2>2, Zenon DEF Room
<1>10. Unfailing => card' = "in" /\ mount' = "live" /\ Room' = Room
  <2> SUFFICES ASSUME Unfailing
               PROVE  card' = "in" /\ mount' = "live" /\ Room' = Room
    OBVIOUS
  <2>1. position = popKey + 1 /\ card = "in" /\ mount = "live"
    BY <1>1 DEF Unfailing
  <2>2. popKey' = position /\ Left' = Left
    BY <1>1, <1>3, <1>4, <1>5, <2>1
  <2>3. Room' = Room
    BY <1>5, <2>2, Zenon DEF Room
  <2> QED BY <1>1, <2>1, <2>3
<1>11. pc' = "idle" \/ pc' = "publish"
  BY <1>1
<1>12. phase' = "idle" /\ records >= 1
  BY <1>1 DEF Counted, Turn
<1> QED BY <1>1, <1>9, <1>10, <1>11, <1>12, CountedSame

LEMMA CountedFailed ==
  ASSUME StoreInv, StoreInv', Counted, Kept!PublishFailed, UNCHANGED <<records, phase, silenced>>
  PROVE  Counted'
<1>1. /\ pc = "publish" /\ pc' = "putback"
      /\ UNCHANGED <<file, popKey, card, mount, position, hand, faults>>
  BY DEF Kept!PublishFailed, Kept!cardVars
<1>2. Room' = Room
  BY <1>1 DEF Room, Left, Held, Kept!Behind, Kept!Usable
<1>3. Room <= Room'
  BY <1>2, Sizes DEF SizesKnown
<1>4. Unfailing => card' = "in" /\ mount' = "live"
  BY <1>1 DEF Unfailing
<1>5. phase' = "idle" /\ records >= 1
  BY <1>1 DEF Counted, Turn
<1> QED BY <1>1, <1>2, <1>3, <1>4, <1>5, CountedSame

\* The record in hand is published and counted off.
LEMMA CountedDone ==
  ASSUME StoreInv, StoreInv', Counted, Kept!PublishDone, records' = records - 1,
         UNCHANGED <<phase, silenced>>
  PROVE  Counted'
<1>1. /\ pc = "publish" /\ pc' = "idle" /\ hand # Nothing /\ hand' = Nothing
      /\ UNCHANGED <<file, popKey, card, mount, faults>>
  BY Kept!DeliveredIs, CycleAssumption DEF StoreInv
<1>2. Left' = Left /\ Held' = 0 /\ Held = IF Kept!Usable THEN 1 ELSE 0
  BY <1>1 DEF Left, Held, Kept!Behind, Kept!Usable
<1>3. Left \in Nat /\ records \in Nat /\ records >= 1
  BY <1>1, Sizes DEF SizesKnown, Counted, Turn
<1>4. Turn'
  <2>1. records' \in Nat
    BY <1>3
  <2> QED BY <1>1, <2>1 DEF Counted, Turn
<1>5. Room' = Left /\ Room = Left + (IF Kept!Usable THEN 1 ELSE 0)
  BY <1>2, <1>3 DEF Room
<1>6. records' - records = -1
  BY <1>3
<1>7. records' - records <= Room' - Room
  BY <1>3, <1>5, <1>6
<1>8. Unfailing => Unfailing'
  <2> SUFFICES ASSUME Unfailing
               PROVE  Unfailing'
    OBVIOUS
  <2>1. ASSUME ~silenced
        PROVE  records' = Room'
    <3>1. records = Left + 1
      BY <1>5, <2>1, UnfailingUsable DEF Unfailing
    <3> QED BY <1>3, <1>5, <3>1
  <2> QED BY <1>1, <2>1 DEF Unfailing
<1> QED BY <1>1, <1>4, <1>7, <1>8, CountedStep

\* The record in hand goes back to the end of the file.
LEMMA CountedPutBack ==
  ASSUME StoreInv, StoreInv', Counted, Kept!PutBack, UNCHANGED <<records, phase, silenced>>
  PROVE  Counted'
<1>1. /\ pc = "putback" /\ pc' = "idle" /\ hand \in Kept!Records /\ hand' = Nothing
      /\ UNCHANGED <<popKey, card, position>>
      /\ (Kept!Usable' <=> Kept!Usable) /\ (mount # "none" => mount' = mount)
      /\ \/ Kept!Usable /\ file' = Append(file, hand) /\ faults' = faults
         \/ Kept!Usable /\ file' = file /\ Kept!Fault("write")
         \/ ~Kept!Usable /\ file' = file /\ faults' = faults
  BY Kept!PutBackIs, CycleAssumption DEF StoreInv
<1>2. hand # Nothing /\ phase' = "idle" /\ records >= 1
  BY <1>1 DEF StoreInv, Kept!Control, Counted, Turn
<1>3. Len(file) \in Nat /\ popKey \in Nat /\ records \in Nat
  BY Sizes DEF SizesKnown, Counted, Turn
<1>4. Room = (Len(file) - popKey) + (IF Kept!Usable THEN 1 ELSE 0)
  BY <1>1, <1>2, <1>3 DEF Room, Left, Held, Kept!Behind
<1>5. Room' = Len(file)' - popKey
  <2>1. Left' = Len(file)' - popKey /\ Held' = 0
    BY <1>1 DEF Left, Held, Kept!Behind
  <2>2. Left' \in Nat
    BY SizesNext DEF SizesKnown
  <2>3. \A n \in Nat : n + 0 = n
    OBVIOUS
  <2> QED BY <2>1, <2>2, <2>3, Zenon DEF Room
<1>6. Turn'
  BY <1>1, <1>2, <1>3 DEF Turn
<1>7. CASE Kept!Usable /\ file' = file /\ Kept!Fault("write")
  <2>1. records' - records = 0 /\ Room' = Len(file) - popKey /\ Room = (Len(file) - popKey) + 1
    BY <1>3, <1>4, <1>5, <1>7
  <2>2. records' - records <= (Room' - Room) + 1
    BY <1>3, <2>1
  <2> QED BY <1>6, <1>7, <2>2, CountedFault
<1>8. CASE faults' = faults /\ ~(Kept!Usable /\ file' = file /\ Kept!Fault("write"))
  <2>1. Room' = Room
    <3>1. CASE Kept!Usable /\ file' = Append(file, hand)
      <4>1. Len(file)' = Len(file) + 1
        BY <1>1, <3>1 DEF StoreInv, Kept!TypeOK
      <4> QED BY <1>3, <1>4, <1>5, <3>1, <4>1
    <3>2. CASE ~Kept!Usable /\ file' = file
      BY <1>3, <1>4, <1>5, <3>2
    <3> QED BY <1>1, <1>8, <3>1, <3>2
  <2>2. Room <= Room'
    BY <2>1, Sizes DEF SizesKnown
  <2>3. Unfailing => card' = "in" /\ mount' = "live"
    BY <1>1 DEF Unfailing
  <2> QED BY <1>1, <1>8, <2>1, <2>2, <2>3, CountedSame
<1> QED BY <1>1, <1>7, <1>8

\* A card that is taken out costs the record in hand its way back.
LEMMA CountedEject ==
  ASSUME StoreInv, StoreInv', Counted, Kept!Eject, UNCHANGED <<records, phase, silenced>>
  PROVE  Counted'
<1>1. /\ card' = "out" /\ Kept!Fault("eject")
      /\ UNCHANGED <<file, popKey, pc, position, hand>>
  BY DEF Kept!Eject, Kept!popVars
<1>2. ~Kept!Usable'
  BY <1>1 DEF Kept!Usable
<1>3. /\ Len(file) \in Nat /\ Kept!Behind \in Nat /\ Left \in Nat /\ (Held = 0 \/ Held = 1)
      /\ records \in Nat
  BY Sizes DEF SizesKnown, Counted, Turn
<1>4. Left' = Len(file) - Kept!Behind /\ Held' = 0
  BY <1>1, <1>2 DEF Left, Held, Kept!Behind
<1>5. Left' \in Nat
  BY SizesNext DEF SizesKnown
<1>6. Left <= Left'
  BY <1>3, <1>4, <1>5 DEF Left
<1>7. Room <= Room' + 1 /\ Room \in Nat /\ Room' \in Nat
  BY <1>3, <1>4, <1>5, <1>6 DEF Room
<1>8. records' - records <= (Room' - Room) + 1
  <2>1. \A n \in Int : \A room, room1 \in Nat : room <= room1 + 1 => n - n <= (room1 - room) + 1
    OBVIOUS
  <2>2. records' = records /\ records \in Int
    BY <1>3
  <2> QED BY <1>7, <2>1, <2>2, Zenon
<1>9. Turn'
  BY <1>1 DEF Counted, Turn
<1> QED BY <1>1, <1>8, <1>9, CountedFault

\* A card that goes back in has no session to be used with.
LEMMA CountedInsert ==
  ASSUME StoreInv, StoreInv', Counted, Kept!Insert, UNCHANGED <<records, phase, silenced>>
  PROVE  Counted'
<1>1. /\ card = "out" /\ card' = "in"
      /\ UNCHANGED <<file, popKey, mount, pc, position, hand, faults>>
  BY DEF Kept!Insert, Kept!popVars
<1>2. ~Kept!Usable /\ ~Unfailing
  BY <1>1 DEF Kept!Usable, Unfailing
<1>3. pc = "truncate" => ~Kept!Usable'
  BY <1>1 DEF StoreInv, Kept!TypeOK, Kept!Control, Kept!Sessions, Kept!Usable
<1>4. Left' = Left /\ Held = 0 /\ (Held' = 0 \/ Held' = 1)
  BY <1>1, <1>2, <1>3 DEF Left, Held, Kept!Behind
<1>5. Left \in Nat
  BY Sizes DEF SizesKnown
<1>6. Room <= Room'
  BY <1>4, <1>5 DEF Room
<1>7. /\ phase' # "idle" => pc' = "idle"
      /\ pc' # "idle" => records >= 1
  BY <1>1 DEF Counted, Turn
<1> QED BY <1>1, <1>2, <1>6, <1>7, CountedSame

\* init counts the lines behind the position that the flash kept.
LEMMA CountedRestart ==
  ASSUME StoreInv, StoreInv', Counted, Restart, pc' = "idle", hand' = Nothing,
         UNCHANGED <<file, popKey, card>>,
         mount' = IF card = "in" THEN "live" ELSE "none",
         CardFaults' = CardFaults, faults'["read"] = 0 => faults["read"] = 0
  PROVE  Counted'
<1>1. /\ Len(file) \in Nat /\ popKey \in Nat /\ popKey <= Len(file) /\ CardFaults \in Nat
  BY Sizes DEF SizesKnown
<1>2. Room' = Len(file) - popKey
  BY <1>1 DEF Room, Left, Held, Kept!Behind
<1>3. records' = IF card = "in" THEN Len(file) - popKey ELSE 0
  BY DEF Restart, Entries
<1>4. records' \in Nat /\ records' <= Room' + CardFaults'
  BY <1>1, <1>2, <1>3
<1>5. Turn' /\ Over'
  BY <1>4 DEF Restart, Turn, Over
<1>6. CardFaults = 0 => card = "in"
  BY DEF Counted, Exact, Unfailing
<1>7. Exact'
  BY <1>2, <1>3, <1>6 DEF Exact, Unfailing
<1> QED BY <1>5, <1>7 DEF Counted

\* A store that nothing touches keeps its room.
LEMMA SameStore ==
  ASSUME StoreInv, UNCHANGED storeVars
  PROVE  /\ Room' = Room /\ Room <= Room'
         /\ UNCHANGED <<card, mount, pc, position, popKey, hand, faults>>
<1>1. Room' = Room
  BY DEF storeVars, Room, Left, Held, Kept!Behind, Kept!Usable
<1>2. Room <= Room'
  BY <1>1, Sizes DEF SizesKnown
<1> QED BY <1>1, <1>2 DEF storeVars

LEMMA CountedRest ==
  ASSUME StoreInv, StoreInv', Counted, UNCHANGED <<storeVars, records, silenced>>,
         phase' # "idle" => pc = "idle"
  PROVE  Counted'
<1>1. /\ Room' = Room /\ Room <= Room'
      /\ UNCHANGED <<card, mount, pc, position, popKey, hand, faults>>
  BY SameStore
<1>2. pc' # "idle" => records >= 1
  BY <1>1 DEF Counted, Turn
<1>3. Unfailing =>
        /\ card' = "in" /\ mount' = "live"
        /\ pc' = "read" => position' = popKey'
        /\ pc' = "advance" => position' = popKey' + 1 /\ hand' # Nothing
        /\ ~silenced => Room' = Room /\ pc' # "truncate"
  BY <1>1 DEF Unfailing
<1> QED BY <1>1, <1>2, <1>3, CountedSame

\* Radio silence forgets the count, which can then only be too low.
LEMMA CountedSilence ==
  ASSUME StoreInv, StoreInv', Counted, RecommendSilence
  PROVE  Counted'
<1>1. /\ phase = "recommend" /\ records' = 0 /\ silenced' = TRUE /\ UNCHANGED storeVars
  BY DEF RecommendSilence
<1>2. UNCHANGED <<card, mount, pc, position, popKey, hand, faults>>
  BY <1>1, SameStore
<1>3. Turn'
  BY <1>1, <1>2 DEF Counted, Turn
<1>4. Over'
  <2>1. Room' \in Nat /\ CardFaults' \in Nat
    BY SizesNext DEF SizesKnown
  <2>2. \A a, b \in Nat : 0 <= a + b
    OBVIOUS
  <2>3. 0 <= Room' + CardFaults'
    BY <2>1, <2>2, Zenon
  <2> QED BY <1>1, <2>3 DEF Over
<1>5. CardFaults' = CardFaults
  BY <1>2, SameCounts
<1>6. Exact'
  BY <1>1, <1>2, <1>5 DEF Counted, Exact, Unfailing
<1> QED BY <1>3, <1>4, <1>6 DEF Counted

\* offlineModeCheck zeroes a count that is zero.
LEMMA CheckCounts ==
  ASSUME Turn, OfflineModeCheck
  PROVE  records' = records
<1>1. records \in Nat
  BY DEF Turn
<1>2. ASSUME NEW minutes, ToggleRadio(minutes)
      PROVE  records' = records
  <2>1. CASE minutes # 0 /\ down /\ ready
    BY <2>1, <1>2 DEF ToggleRadio
  <2>2. CASE /\ ~(minutes # 0 /\ down /\ ready)
             /\ minutes > 0 /\ link /\ ~down /\ records <= 0
    <3>1. records' = 0
      BY <2>2, <1>2 DEF ToggleRadio
    <3> QED BY <1>1, <2>2, <3>1
  <2>3. CASE /\ ~(minutes # 0 /\ down /\ ready)
             /\ ~(minutes > 0 /\ link /\ ~down /\ records <= 0)
    BY <2>3, <1>2 DEF ToggleRadio
  <2> QED BY <2>1, <2>2, <2>3
<1>3. CASE save /\ ready
  BY <1>3 DEF OfflineModeCheck
<1>4. CASE ~(save /\ ready) /\ setting = -1
  BY <1>2, <1>4 DEF OfflineModeCheck
<1>5. CASE ~(save /\ ready) /\ setting # -1
  BY <1>2, <1>5 DEF OfflineModeCheck
<1> QED BY <1>3, <1>4, <1>5

CycleInv == StoreInv /\ Counted

LEMMA CountedNext == CycleInv /\ [Next]_vars => CycleInv'
<1> SUFFICES ASSUME StoreInv, Counted, [Next]_vars
             PROVE  StoreInv' /\ Counted'
  BY DEF CycleInv
<1>0. StoreInv'
  BY StoreKeeps DEF Counted, Turn
<1>1. CASE StorePayload
  <2>1. PICK ok \in BOOLEAN : Store!Push(ok) /\ records' = IF ok THEN records + 1 ELSE records
    BY <1>1 DEF StorePayload
  <2>2. Kept!Push(ok) /\ UNCHANGED silenced
    BY <1>1, <2>1, SameSteps DEF StorePayload
  <2> QED BY <1>0, <2>1, <2>2, CountedPush
<1>2. CASE OfflineCheck
  <2>1. Kept!PopBegin /\ records > 0 /\ phase = "idle" /\ UNCHANGED <<records, phase, silenced>>
    BY <1>2, SameSteps DEF OfflineCheck, Idle
  <2>2. records >= 1
    BY <2>1 DEF Counted, Turn
  <2> QED BY <1>0, <2>1, <2>2, CountedBegin
<1>3. CASE PopRead
  <2>1. UNCHANGED <<records, phase, silenced>>
    BY <1>3 DEF PopRead
  <2>2. Kept!PopLine \/ Kept!PopNoCard \/ Kept!PopEnd \/ Kept!PopReadFault
    BY <1>3, SameSteps DEF PopRead
  <2> QED BY <1>0, <2>1, <2>2, CountedLine, CountedNoCard, CountedEnd, CountedReadFault
<1>4. CASE PopSettle
  <2>1. UNCHANGED <<records, phase, silenced>>
    BY <1>4 DEF PopSettle
  <2>2. Kept!PopTruncate \/ Kept!PopAdvance \/ Kept!PublishFailed \/ Kept!PutBack
    BY <1>4, SameSteps DEF PopSettle
  <2> QED BY <1>0, <2>1, <2>2, CountedTruncate, CountedAdvance, CountedFailed, CountedPutBack
<1>5. CASE PopSent
  <2>1. Kept!PublishDone /\ records' = records - 1 /\ UNCHANGED <<phase, silenced>>
    BY <1>5, SameSteps DEF PopSent
  <2> QED BY <1>0, <2>1, CountedDone
<1>6. CASE PowerCut
  <2>1. Kept!PowerCut /\ Restart
    BY <1>6, SameSteps DEF PowerCut
  <2>2. PICK k \in {"cut", "torn"} : Kept!Fault(k)
    BY <2>1 DEF Kept!PowerCut
  <2>3. k \in Kept!FaultKinds /\ k \notin {"eject", "read", "write"}
    BY <2>2 DEF Kept!FaultKinds
  <2>4. CardFaults' = CardFaults /\ (faults'["read"] = 0 => faults["read"] = 0)
    BY <2>2, <2>3, FaultCounts
  <2>5. /\ pc' = "idle" /\ hand' = Nothing /\ UNCHANGED <<file, popKey, card>>
        /\ mount' = IF card = "in" THEN "live" ELSE "none"
    BY <2>1 DEF Kept!PowerCut
  <2> QED BY <1>0, <2>1, <2>4, <2>5, CountedRestart
<1>7. CASE RecommendReset
  <2>1. /\ Restart /\ UNCHANGED <<file, popKey, card, pc, hand, faults>>
        /\ mount' = IF card = "in" THEN "live" ELSE "none"
    BY <1>7 DEF RecommendReset
  <2>2. pc = "idle"
    BY <1>7 DEF RecommendReset, Counted, Turn
  <2>3. hand = Nothing
    BY <2>2 DEF StoreInv, Kept!Control
  <2>4. CardFaults' = CardFaults
    BY <2>1, SameCounts
  <2> QED BY <1>0, <2>1, <2>2, <2>3, <2>4, CountedRestart
<1>8. CASE CardMoves
  <2>1. (Kept!Eject \/ Kept!Insert) /\ UNCHANGED <<records, phase, silenced>>
    BY <1>8, SameSteps DEF CardMoves
  <2> QED BY <1>0, <2>1, CountedEject, CountedInsert
<1>9. CASE RecommendSilence
  BY <1>0, <1>9, CountedSilence
<1>10. CASE OfflineModeCheck
  <2>1. /\ records' = records /\ phase' = "idle" /\ UNCHANGED <<storeVars, silenced>>
    BY <1>10, CheckCounts DEF Counted, OfflineModeCheck
  <2> QED BY <1>0, <2>1, CountedRest
<1>11. CASE Publish \/ RecommendNothing \/ RecommendPatience
  <2>1. UNCHANGED <<storeVars, records, silenced>>
    BY <1>11 DEF Publish, RecommendNothing, RecommendPatience
  <2>2. pc = "idle"
    BY <1>11 DEF Publish, Idle, RecommendNothing, RecommendPatience, Counted, Turn
  <2> QED BY <1>0, <2>1, <2>2, CountedRest
<1>12. CASE TimerFires \/ SetLowPowerMode \/ LinkUp \/ LinkLost \/ ConnectFails \/ ClockSyncs
            \/ UNCHANGED vars
  <2>1. UNCHANGED <<storeVars, records, phase, silenced>>
    BY <1>12 DEF TimerFires, SetLowPowerMode, LinkUp, LinkLost, ConnectFails, ClockSyncs, vars
  <2>2. phase' # "idle" => pc = "idle"
    BY <2>1 DEF Counted, Turn
  <2> QED BY <1>0, <2>1, <2>2, CountedRest
<1> QED
  BY <1>0, <1>1, <1>2, <1>3, <1>4, <1>5, <1>6, <1>7, <1>8, <1>9, <1>10, <1>11, <1>12
  DEF Next, Publisher

\* storedRecords, which push, popOneOffline, toggleRadio and radio silence
\* change by hand and init counts anew, is the number of records behind the
\* position whenever the main loop is between two calls, as long as the card
\* does not fail and the radio was not silenced; a fault of the card leaves it
\* at most one too high.
THEOREM CountAlwaysKept == Spec => []CountIsKept
<1>1. Init => CycleInv
  BY StoreInit, CountedInit DEF CycleInv
<1>2. CycleInv => CountIsKept
  <2> SUFFICES ASSUME CycleInv, Idle
               PROVE  /\ CardFaults = 0 /\ ~silenced => records = Entries
                      /\ faults["read"] = 0 => records <= Entries + CardFaults
    BY DEF CountIsKept, CountIsExact, OvercountBounded
  <2>1. pc = "idle" /\ hand = Nothing
    BY DEF Idle, CycleInv, StoreInv, Kept!Control
  <2>2. Left = Entries /\ Held = 0
    BY <2>1 DEF Left, Held, Kept!Behind, Entries
  <2>3. Left \in Nat
    BY Sizes DEF SizesKnown, CycleInv
  <2>4. Room = Entries
    BY <2>2, <2>3 DEF Room
  <2> QED BY <2>4 DEF CycleInv, Counted, Over, Exact, Unfailing
<1> QED BY <1>1, <1>2, CountedNext, PTL DEF Spec

NetType ==
  /\ attempts \in 0 .. MaxAttempts
  /\ synced \in BOOLEAN
  /\ phase \in {"idle", "store", "recommend", "check"}
  /\ silenced \in BOOLEAN

LEMMA NetInit == Init => NetType
<1>1. 0 \in 0 .. MaxAttempts
  BY CycleAssumption
<1> QED BY <1>1 DEF Init, NetType

LEMMA NetKeeps == NetType /\ [Next]_vars => NetType'
<1> SUFFICES ASSUME NetType, [Next]_vars
             PROVE  NetType'
  OBVIOUS
<1> USE DEF NetType
<1>0. 0 \in 0 .. MaxAttempts
  BY CycleAssumption
<1>1. CASE Publish \/ StorePayload
  BY <1>1 DEF Publish, StorePayload, netVars
<1>2. CASE RecommendNothing \/ RecommendSilence
  BY <1>2 DEF RecommendNothing, RecommendSilence, netVars
<1>3. CASE RecommendPatience \/ RecommendReset \/ PowerCut
  BY <1>0, <1>3 DEF RecommendPatience, RecommendReset, PowerCut, Restart
<1>4. CASE OfflineModeCheck \/ OfflineCheck \/ PopRead \/ PopSettle \/ PopSent \/ CardMoves
  BY <1>4 DEF OfflineModeCheck, OfflineCheck, PopRead, PopSettle, PopSent, CardMoves, netVars
<1>5. CASE TimerFires \/ SetLowPowerMode \/ LinkLost \/ ClockSyncs
  BY <1>5 DEF TimerFires, SetLowPowerMode, LinkLost, ClockSyncs, netVars
<1>6. CASE LinkUp
  BY <1>0, <1>6 DEF LinkUp
<1>7. CASE ConnectFails
  <2>1. attempts + 1 \in 0 .. MaxAttempts
    BY <1>7, CycleAssumption DEF ConnectFails
  <2> QED BY <1>7, <2>1 DEF ConnectFails
<1>8. CASE UNCHANGED vars
  BY <1>8 DEF vars, netVars
<1> QED
  BY <1>1, <1>2, <1>3, <1>4, <1>5, <1>6, <1>7, <1>8 DEF Next, Publisher

\* Every variable of the publisher, its radio and its store keeps its type; the
\* count, an int that popOneOffline decrements, never becomes negative.
THEOREM TypeCorrect == Spec => []TypeOK
<1>1. Init => CycleInv /\ RadioInv /\ NetType
  BY StoreInit, CountedInit, RadioInit, NetInit DEF CycleInv
<1>2. CycleInv /\ RadioInv /\ NetType => TypeOK
  BY SameType DEF CycleInv, StoreInv, Counted, Turn, RadioInv, Flags, NetType, TypeOK
<1> QED BY <1>1, <1>2, CountedNext, RadioNext, NetKeeps, PTL DEF Spec
=============================================================================
