---------------------------- MODULE PayloadStore ----------------------------
(***************************************************************************)
(* PayloadStore over SDCard and the persisted pop position: records that   *)
(* could not be published are appended to a file on the SD card and read   *)
(* back one at a time.                                                     *)
(*                                                                         *)
(* A record is one line of the file; its bytes are abstracted, so the pop  *)
(* position counts lines.  The calls come from the main loop only, so they *)
(* do not interleave with each other; the supply, the card socket and the  *)
(* card's own failures act between any two of their steps.                 *)
(***************************************************************************)
EXTENDS Integers, Sequences, FiniteSets

CONSTANTS
  MaxRecords,  \* bound: records offered to the store
  MaxFaults,   \* bound: faults of any kind
  MaxLines,    \* bound: length of the file, which failed publications grow
  Nothing      \* the empty string

ASSUME StoreAssumption ==
  /\ MaxRecords \in Nat \ {0}
  /\ MaxFaults \in Nat
  /\ MaxLines \in Nat
  /\ Nothing \notin 1 .. MaxRecords

Records == 1 .. MaxRecords

\* "torn" is a cut between the two writes of resetStorageFile.
FaultKinds == {"cut", "torn", "eject", "read", "write"}

VARIABLES
  file,      \* popStorage.txt
  popKey,    \* the persisted pop position
  card,      \* the card-detect switch: "in" or "out"
  mount,     \* SDCard::initialized, and whether that session is still the card's
  pc,        \* step of popOfflineCollection(1, delay)
  position,  \* its local position
  hand,      \* its result[0]
  offered,   \* bound: number of records offered so far
  accepted,  \* history: records for which push returned true
  sent,      \* history: how often each record was published (0, 1, or 2 for more)
  faults     \* history: faults of each kind

cardVars == <<card, mount>>
popVars == <<pc, position, hand>>
vars == <<file, popKey, card, mount, pc, position, hand, offered, accepted, sent, faults>>

TypeOK ==
  /\ file \in Seq(Records)
  /\ popKey \in Nat
  /\ card \in {"in", "out"}
  /\ mount \in {"none", "live", "stale"}
  /\ pc \in {"idle", "read", "advance", "truncate", "publish", "putback"}
  /\ position \in Nat
  /\ hand \in Records \union {Nothing}
  /\ offered \in 0 .. MaxRecords
  /\ accepted \in SUBSET Records
  /\ sent \in [Records -> 0 .. 2]
  /\ faults \in [FaultKinds -> Nat]

Init ==
  /\ file = <<>>
  /\ popKey = 0
  /\ card = "in"
  /\ mount = "live"
  /\ pc = "idle"
  /\ position = 0
  /\ hand = Nothing
  /\ offered = 0
  /\ accepted = {}
  /\ sent = [r \in Records |-> 0]
  /\ faults = [k \in FaultKinds |-> 0]

TotalFaults ==
  faults["cut"] + faults["torn"] + faults["eject"] + faults["read"] + faults["write"]

Fault(k) ==
  /\ TotalFaults < MaxFaults
  /\ faults' = [faults EXCEPT ![k] = @ + 1]

-----------------------------------------------------------------------------
(* SDCard *)

\* SDCard::init: begin() once, with a card in; `initialized` is never reset.
MountOnUse == mount' = IF mount = "none" /\ card = "in" THEN "live" ELSE mount

\* A file operation can succeed (after init).
Usable == card = "in" /\ mount # "stale"

\* appendln: the size of the file tells success, println's result does not.
\* A write that fails on a file that is not empty is therefore reported good.
Append1(r, ok) ==
  /\ MountOnUse
  /\ \/ /\ Usable
        /\ file' = Append(file, r)
        /\ ok = TRUE
        /\ UNCHANGED faults
     \/ /\ Usable
        /\ Fault("write")
        /\ ok = (Len(file) > 0)
        /\ UNCHANGED file
     \/ /\ ~Usable
        /\ ok = FALSE
        /\ UNCHANGED <<file, faults>>

-----------------------------------------------------------------------------
(* PayloadStore *)

\* push: the next record the board could not publish.
Push(ok) ==
  /\ pc = "idle"
  /\ offered < MaxRecords
  /\ offered' = offered + 1
  /\ IF card = "out"
     THEN ok = FALSE /\ UNCHANGED <<file, mount, faults>>
     ELSE Append1(offered + 1, ok)
  /\ accepted' = IF ok THEN accepted \union {offered + 1} ELSE accepted
  /\ UNCHANGED <<popKey, card, popVars, sent>>

\* pop: the position is read first (0 without a card).
PopBegin ==
  /\ pc = "idle"
  /\ pc' = "read"
  /\ position' = IF card = "in" THEN popKey ELSE 0
  /\ hand' = Nothing
  /\ UNCHANGED <<file, popKey, cardVars, offered, accepted, sent, faults>>

\* Slip: read does not hand the new position back.
PopLineStays ==
  /\ pc = "read"
  /\ Usable
  /\ position < Len(file)
  /\ MountOnUse
  /\ hand' = file[position + 1]
  /\ pc' = "advance"
  /\ UNCHANGED <<file, popKey, card, position, offered, accepted, sent, faults>>

\* Storage.read returned a line.
PopLine ==
  /\ pc = "read"
  /\ Usable
  /\ position < Len(file)
  /\ MountOnUse
  /\ hand' = file[position + 1]
  /\ position' = position + 1
  /\ pc' = "advance"
  /\ UNCHANGED <<file, popKey, card, offered, accepted, sent, faults>>

\* No card: the loop goes on, with nothing read and the position as it was.
PopNoCard ==
  /\ pc = "read"
  /\ card = "out"
  /\ pc' = "advance"
  /\ UNCHANGED <<file, popKey, cardVars, position, hand, offered, accepted, sent, faults>>

\* Slip: resetStorageFile forgets the position.
ReadNothingKeepsPosition ==
  /\ MountOnUse
  /\ pc' = IF position = 0 THEN "idle" ELSE "truncate"
  /\ position' = 0
  /\ UNCHANGED <<file, popKey, card, hand, offered, accepted, sent>>

\* An empty result.  At position 0 the store is taken to be empty, elsewhere
\* the file to be used up: resetStorageFile begins with the position.
ReadNothing ==
  /\ MountOnUse
  /\ IF position = 0
     THEN pc' = "idle" /\ UNCHANGED popKey
     ELSE pc' = "truncate" /\ popKey' = 0
  /\ position' = 0
  /\ UNCHANGED <<file, card, hand, offered, accepted, sent>>

\* The end of the file, or a card whose session is gone.
PopEnd ==
  /\ pc = "read"
  /\ card = "in"
  /\ Usable => position >= Len(file)
  /\ ReadNothing
  /\ UNCHANGED faults

\* open() or seekSet() fails: read cannot tell it from the end of the file.
PopReadFault ==
  /\ pc = "read"
  /\ Usable
  /\ position < Len(file)
  /\ Fault("read")
  /\ ReadNothing

\* Slip: the file is overwritten with an empty line.
PopTruncateToLine ==
  /\ pc = "truncate"
  /\ pc' = "idle"
  /\ MountOnUse
  /\ file' = IF Usable THEN <<Nothing>> ELSE file
  /\ UNCHANGED <<popKey, card, position, hand, offered, accepted, sent, faults>>

\* ... and ends with the file.
PopTruncate ==
  /\ pc = "truncate"
  /\ pc' = "idle"
  /\ MountOnUse
  /\ file' = IF Usable THEN <<>> ELSE file
  /\ UNCHANGED <<popKey, card, position, hand, offered, accepted, sent, faults>>

\* Slip: the position is left for later.
PopAdvanceLater ==
  /\ pc = "advance"
  /\ pc' = IF hand = Nothing THEN "idle" ELSE "publish"
  /\ position' = 0
  /\ UNCHANGED <<file, popKey, cardVars, hand, offered, accepted, sent, faults>>

\* setPopPosition, before the record is published.
PopAdvance ==
  /\ pc = "advance"
  /\ popKey' = IF position > 0 /\ card = "in" THEN position ELSE popKey
  /\ pc' = IF hand = Nothing THEN "idle" ELSE "publish"
  /\ position' = 0
  /\ UNCHANGED <<file, cardVars, hand, offered, accepted, sent, faults>>

PublishDone ==
  /\ pc = "publish"
  /\ pc' = "idle"
  /\ hand' = Nothing
  /\ sent' = [sent EXCEPT ![hand] = IF @ < 2 THEN @ + 1 ELSE @]
  /\ UNCHANGED <<file, popKey, cardVars, position, offered, accepted, faults>>

\* Slip: the loop over the records goes on without addBackOntoStore.
PublishFailedForgets ==
  /\ pc = "publish"
  /\ pc' = "idle"
  /\ hand' = Nothing
  /\ UNCHANGED <<file, popKey, cardVars, position, offered, accepted, sent, faults>>

PublishFailed ==
  /\ pc = "publish"
  /\ Len(file) < MaxLines
  /\ pc' = "putback"
  /\ UNCHANGED <<file, popKey, cardVars, position, hand, offered, accepted, sent, faults>>

\* addBackOntoStore: to the end of the file, and no more if that fails.
PutBack ==
  /\ pc = "putback"
  /\ pc' = "idle"
  /\ hand' = Nothing
  /\ \E ok \in BOOLEAN : Append1(hand, ok)
  /\ UNCHANGED <<popKey, card, position, offered, accepted, sent>>

-----------------------------------------------------------------------------
(* The hardware *)

\* Power is lost and comes back; Storage.init mounts a card that is in.
PowerCut ==
  /\ Fault(IF pc = "truncate" THEN "torn" ELSE "cut")
  /\ pc' = "idle"
  /\ position' = 0
  /\ hand' = Nothing
  /\ mount' = IF card = "in" THEN "live" ELSE "none"
  /\ UNCHANGED <<file, popKey, card, offered, accepted, sent>>

Eject ==
  /\ card = "in"
  /\ Fault("eject")
  /\ card' = "out"
  /\ mount' = IF mount = "live" THEN "stale" ELSE mount
  /\ UNCHANGED <<file, popKey, popVars, offered, accepted, sent>>

\* The same card goes back in.  Nothing begins a new session for it:
\* handleCardDetectEvent has no caller.
Insert ==
  /\ card = "out"
  /\ card' = "in"
  /\ UNCHANGED <<file, popKey, mount, popVars, offered, accepted, sent, faults>>

-----------------------------------------------------------------------------
PopStep ==
  \/ PopLine
  \/ PopNoCard
  \/ PopEnd
  \/ PopReadFault
  \/ PopTruncate
  \/ PopAdvance
  \/ PublishDone
  \/ PublishFailed
  \/ PutBack

Hardware == PowerCut \/ Eject \/ Insert

Next ==
  \/ \E ok \in BOOLEAN : Push(ok)
  \/ PopBegin
  \/ PopStep
  \/ Hardware

\* The main loop keeps running, it keeps popping (the offline timer repeats),
\* and a network that keeps being tried works again and again.
Fairness ==
  /\ WF_vars(PopBegin)
  /\ WF_vars(PopLine \/ PopNoCard \/ PopEnd)
  /\ WF_vars(PopTruncate \/ PopAdvance \/ PublishFailed \/ PutBack)
  /\ SF_vars(PublishDone)

Spec == Init /\ [][Next]_vars /\ Fairness

-----------------------------------------------------------------------------
(* Properties *)

\* What is still to be popped; a file about to be emptied holds nothing.
Unread == IF pc = "truncate" /\ Usable
          THEN {}
          ELSE {file[i] : i \in popKey + 1 .. Len(file)}
InHand == IF hand = Nothing THEN {} ELSE {hand}
Waiting == Unread \union InHand
Delivered == {r \in Records : sent[r] > 0}
Lost == accepted \ (Delivered \union Waiting)

\* The persisted position never points past the end of the file, whatever
\* step a fault interrupts: records appended later would be skipped, and
\* countEntries could not seek.
PositionInFile == popKey <= Len(file)

\* Every fault but a failing read costs at most the one record that is between
\* the file and the network: pop advances the position before it publishes.
\* (A failing read is taken for the end of the file and costs all of it.)
FaultLosesAtMostOne ==
  faults["read"] = 0 => Cardinality(Lost) <= TotalFaults

Queue == INSTANCE OfflineQueue WITH waiting <- Waiting, delivered <- Delivered

\* Without a fault the store is the queue it stands for: what push accepted
\* waits until it is delivered and is delivered once, through any sequence of
\* failed publications, put-backs and resets of the file.
WorksLikeQueue ==
  [][TotalFaults' = 0 => Queue!Next]_<<Waiting, Delivered>>

\* A cut makes the store repeat itself only when it falls between the two
\* writes of resetStorageFile: after any other, what was delivered is behind
\* the position.  (Compare an advance that follows the publication.)
DeliveredIsBehind ==
  faults["cut"] = TotalFaults => Delivered \intersect Waiting = {}

\* What a fault can do is bounded: see its three parts.
FaultsAreContained == PositionInFile /\ FaultLosesAtMostOne /\ DeliveredIsBehind

\* As long as the card stays usable in the end, popping reaches every record.
EventuallyDelivered ==
  (<>[]Usable) =>
    \A r \in Records : r \in accepted ~> r \in Delivered \union Lost
=============================================================================
