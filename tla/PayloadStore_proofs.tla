------------------------- MODULE PayloadStore_proofs -------------------------
(***************************************************************************)
(* What PayloadStore states of the file, its position and the records that *)
(* faults can cost, and that it implements the steps of OfflineQueue,      *)
(* proved for every number of records, faults and lines.                   *)
(***************************************************************************)
EXTENDS PayloadStore, FiniteSetTheorems, TLAPS

\* The lines of s behind position n.
After(s, n) == {s[i] : i \in n + 1 .. Len(s)}

\* What pop knows at each of its steps.
Control ==
  /\ hand # Nothing => pc \in {"advance", "publish", "putback"}
  /\ pc \in {"publish", "putback"} => hand # Nothing
  /\ pc = "read" => position \in {0, popKey}
  /\ pc = "advance" =>
       /\ position <= Len(file)
       /\ hand = Nothing => position \in {0, popKey}
       /\ hand # Nothing => position \in {1, popKey + 1} /\ hand = file[position]
  /\ pc = "truncate" => popKey = 0 /\ mount # "none"
  /\ PositionInFile

\* A card that is out has no session.
Sessions == card = "out" => mount # "live"

\* Records come in the order in which they are offered.
Known ==
  /\ \A i \in 1 .. Len(file) : file[i] <= offered
  /\ InHand \union Delivered \union accepted \subseteq 1 .. offered

AllCuts == faults["cut"] = TotalFaults

\* As long as only cuts happened, and none within a reset of the file: a record
\* is in one place, and one that was delivered in none.
OnePlace ==
  AllCuts =>
    /\ card = "in" /\ mount = "live"
    /\ pc = "read" => position = popKey
    /\ pc = "advance" => position = popKey + 1 /\ hand # Nothing
    /\ pc # "truncate" =>
         /\ \A i, j \in popKey + 1 .. Len(file) : file[i] = file[j] => i = j
         /\ After(file, popKey) \intersect Delivered = {}
    /\ InHand \intersect Delivered = {}
    /\ pc \in {"publish", "putback"} => hand \notin After(file, popKey)

\* What a store that meets no further fault will not deliver: a record in hand
\* needs a card to go back to, and one that was read is about to be passed by.
Behind == IF pc = "advance" /\ position > popKey THEN position ELSE popKey
Safe == IF pc = "truncate" /\ Usable THEN {} ELSE After(file, Behind)
Held == IF Usable THEN InHand ELSE {}
Missing == accepted \ (Delivered \union Safe \union Held)

MissingBounded == faults["read"] = 0 => Cardinality(Missing) <= TotalFaults

IInv == TypeOK /\ Control /\ Sessions /\ Known /\ OnePlace /\ MissingBounded

-----------------------------------------------------------------------------
(* Lines behind a position *)

LEMMA AppendIs ==
  ASSUME NEW S, NEW s \in Seq(S), NEW r \in S
  PROVE  /\ Append(s, r) \in Seq(S)
         /\ Len(Append(s, r)) = Len(s) + 1
         /\ \A i \in 1 .. Len(s) : Append(s, r)[i] = s[i]
         /\ Append(s, r)[Len(s) + 1] = r
OBVIOUS

LEMMA LineIs ==
  ASSUME NEW S, NEW s \in Seq(S), NEW i \in 1 .. Len(s)
  PROVE  s[i] \in S
OBVIOUS

LEMMA LengthIs ==
  ASSUME NEW S, NEW s \in Seq(S)
  PROVE  Len(s) \in Nat
OBVIOUS

LEMMA AfterAppend ==
  ASSUME NEW S, NEW s \in Seq(S), NEW r \in S, NEW n \in 0 .. Len(s)
  PROVE  After(Append(s, r), n) = After(s, n) \union {r}
<1> DEFINE t == Append(s, r)
<1>1. /\ Len(s) \in Nat /\ Len(t) = Len(s) + 1
      /\ \A i \in 1 .. Len(s) : t[i] = s[i]
      /\ t[Len(s) + 1] = r
  BY AppendIs, LengthIs
<1> HIDE DEF t
<1>2. ASSUME NEW x \in After(t, n)
      PROVE  x \in After(s, n) \union {r}
  <2>1. PICK i \in n + 1 .. Len(t) : x = t[i]
    BY DEF After
  <2>2. CASE i = Len(s) + 1
    BY <1>1, <2>1, <2>2
  <2>3. CASE i # Len(s) + 1
    <3>1. i \in n + 1 .. Len(s) /\ i \in 1 .. Len(s)
      BY <1>1, <2>1, <2>3
    <3> QED BY <1>1, <2>1, <3>1 DEF After
  <2> QED BY <2>2, <2>3
<1>3. ASSUME NEW x \in After(s, n)
      PROVE  x \in After(t, n)
  <2>1. PICK i \in n + 1 .. Len(s) : x = s[i]
    BY DEF After
  <2>2. i \in 1 .. Len(s) /\ i \in n + 1 .. Len(t)
    BY <1>1, <2>1
  <2> QED BY <1>1, <2>1, <2>2 DEF After
<1>4. r \in After(t, n)
  <2>1. Len(s) + 1 \in n + 1 .. Len(t)
    BY <1>1
  <2> QED BY <1>1, <2>1 DEF After
<1> QED BY <1>2, <1>3, <1>4 DEF t

LEMMA AfterOne ==
  ASSUME NEW S, NEW s \in Seq(S), NEW n \in Nat, n < Len(s)
  PROVE  After(s, n) = After(s, n + 1) \union {s[n + 1]}
<1>1. Len(s) \in Nat
  BY LengthIs
<1>2. n + 1 .. Len(s) = (n + 1 + 1 .. Len(s)) \union {n + 1}
  BY <1>1
<1> QED BY <1>2, Zenon DEF After

LEMMA AfterLess ==
  ASSUME NEW S, NEW s \in Seq(S), NEW m \in Nat, NEW n \in Nat, m <= n
  PROVE  After(s, n) \subseteq After(s, m)
<1>1. Len(s) \in Nat
  BY LengthIs
<1>2. n + 1 .. Len(s) \subseteq m + 1 .. Len(s)
  BY <1>1
<1> QED BY <1>2, Zenon DEF After

LEMMA AfterEnd ==
  ASSUME NEW S, NEW s \in Seq(S), NEW n \in Nat, n >= Len(s)
  PROVE  After(s, n) = {}
<1>1. Len(s) \in Nat
  BY LengthIs
<1>2. n + 1 .. Len(s) = {}
  BY <1>1
<1> QED BY <1>2, Zenon DEF After

LEMMA AfterNothing == After(<<>>, 0) = {}
<1>1. <<>> \in Seq(Records) /\ 0 \in Nat /\ 0 >= Len(<<>>)
  OBVIOUS
<1> QED BY <1>1, AfterEnd, Zenon

LEMMA AfterRecords ==
  ASSUME NEW S, NEW s \in Seq(S), NEW n \in Nat
  PROVE  After(s, n) \subseteq S
<1> SUFFICES ASSUME NEW x \in After(s, n)
             PROVE  x \in S
  OBVIOUS
<1>1. PICK i \in n + 1 .. Len(s) : x = s[i]
  BY DEF After
<1>2. i \in 1 .. Len(s)
  BY <1>1, LengthIs
<1> QED BY <1>1, <1>2, LineIs

LEMMA UnreadIs == Unread = IF pc = "truncate" /\ Usable THEN {} ELSE After(file, popKey)
BY DEF Unread, After

-----------------------------------------------------------------------------
(* Faults, the card and its session *)

LEMMA Counts ==
  ASSUME TypeOK
  PROVE  /\ \A k \in FaultKinds : faults[k] \in Nat
         /\ TotalFaults \in Nat
         /\ faults["cut"] <= TotalFaults
<1>1. faults \in [FaultKinds -> Nat]
  BY DEF TypeOK
<1>2. /\ faults["cut"] \in Nat /\ faults["torn"] \in Nat /\ faults["eject"] \in Nat
      /\ faults["read"] \in Nat /\ faults["write"] \in Nat
  BY <1>1 DEF FaultKinds
<1> QED BY <1>1, <1>2 DEF TotalFaults

LEMMA FaultIs ==
  ASSUME TypeOK, NEW k \in FaultKinds, Fault(k)
  PROVE  /\ faults' \in [FaultKinds -> Nat]
         /\ TotalFaults' = TotalFaults + 1
         /\ faults'["read"] = 0 => faults["read"] = 0 /\ k # "read"
         /\ AllCuts' => AllCuts /\ k = "cut"
<1>1. /\ faults \in [FaultKinds -> Nat]
      /\ faults' = [faults EXCEPT ![k] = faults[k] + 1]
  BY DEF TypeOK, Fault
<1>2. /\ faults["cut"] \in Nat /\ faults["torn"] \in Nat /\ faults["eject"] \in Nat
      /\ faults["read"] \in Nat /\ faults["write"] \in Nat /\ faults[k] \in Nat
  BY <1>1 DEF FaultKinds
<1>3. faults' \in [FaultKinds -> Nat]
  BY <1>1, <1>2
<1>4. /\ faults'[k] = faults[k] + 1
      /\ \A j \in FaultKinds : j # k => faults'[j] = faults[j]
  BY <1>1
<1>5. /\ TotalFaults' = TotalFaults + 1
      /\ faults'["read"] = 0 => faults["read"] = 0 /\ k # "read"
      /\ faults'["cut"] = IF k = "cut" THEN faults["cut"] + 1 ELSE faults["cut"]
  <2>1. \A j \in FaultKinds : faults'[j] = IF j = k THEN faults[j] + 1 ELSE faults[j]
    BY <1>4
  <2>2. /\ faults'["cut"] = IF "cut" = k THEN faults["cut"] + 1 ELSE faults["cut"]
        /\ faults'["torn"] = IF "torn" = k THEN faults["torn"] + 1 ELSE faults["torn"]
        /\ faults'["eject"] = IF "eject" = k THEN faults["eject"] + 1 ELSE faults["eject"]
        /\ faults'["read"] = IF "read" = k THEN faults["read"] + 1 ELSE faults["read"]
        /\ faults'["write"] = IF "write" = k THEN faults["write"] + 1 ELSE faults["write"]
    BY <2>1 DEF FaultKinds
  <2>3. TotalFaults' = TotalFaults + 1
    BY <1>2, <2>2 DEF TotalFaults, FaultKinds
  <2> QED BY <1>2, <2>2, <2>3
<1>6. AllCuts' => AllCuts /\ k = "cut"
  BY <1>2, <1>5, Counts DEF AllCuts
<1> QED BY <1>3, <1>5, <1>6

LEMMA SameFaults ==
  ASSUME UNCHANGED faults
  PROVE  TotalFaults' = TotalFaults /\ (AllCuts' <=> AllCuts)
BY DEF TotalFaults, AllCuts

\* Using a card does not change whether it can be used.
LEMMA MountIs ==
  ASSUME TypeOK, MountOnUse, card' = card
  PROVE  /\ mount' \in {"none", "live", "stale"}
         /\ Usable' <=> Usable
         /\ mount # "none" => mount' = mount
         /\ card = "in" => mount' # "none"
BY DEF TypeOK, MountOnUse, Usable

\* The three outcomes of appendln.
LEMMA Append1Is ==
  ASSUME TypeOK, NEW r \in Records, NEW ok \in BOOLEAN, Append1(r, ok)
  PROVE  /\ MountOnUse
         /\ \/ Usable /\ ok /\ file' = Append(file, r) /\ faults' = faults
            \/ Usable /\ file' = file /\ Fault("write")
            \/ ~Usable /\ ~ok /\ file' = file /\ faults' = faults
BY DEF Append1

LEMMA PushIs ==
  ASSUME TypeOK, NEW ok \in BOOLEAN, Push(ok)
  PROVE  /\ pc = "idle" /\ offered < MaxRecords /\ offered' = offered + 1
         /\ offered + 1 \in Records
         /\ accepted' = IF ok THEN accepted \union {offered + 1} ELSE accepted
         /\ UNCHANGED <<popKey, card, pc, position, hand, sent>>
         /\ mount' \in {"none", "live", "stale"}
         /\ Usable' <=> Usable
         /\ mount # "none" => mount' = mount
         /\ \/ Usable /\ ok /\ file' = Append(file, offered + 1) /\ faults' = faults
            \/ Usable /\ file' = file /\ Fault("write")
            \/ ~Usable /\ ~ok /\ file' = file /\ faults' = faults
<1>1. /\ pc = "idle" /\ offered < MaxRecords /\ offered' = offered + 1
      /\ accepted' = IF ok THEN accepted \union {offered + 1} ELSE accepted
      /\ UNCHANGED <<popKey, card, pc, position, hand, sent>>
  BY DEF Push, popVars
<1>2. offered + 1 \in Records
  BY <1>1, StoreAssumption DEF TypeOK, Records
<1>3. CASE card = "out"
  <2>1. ~ok /\ UNCHANGED <<file, mount, faults>>
    BY <1>3 DEF Push
  <2>2. ~Usable /\ ~Usable'
    BY <1>1, <1>3 DEF Usable
  <2> QED BY <1>1, <1>2, <2>1, <2>2 DEF TypeOK
<1>4. CASE card # "out"
  <2>1. Append1(offered + 1, ok)
    BY <1>4 DEF Push
  <2>2. /\ MountOnUse
        /\ \/ Usable /\ ok /\ file' = Append(file, offered + 1) /\ faults' = faults
           \/ Usable /\ file' = file /\ Fault("write")
           \/ ~Usable /\ ~ok /\ file' = file /\ faults' = faults
    BY <1>2, <2>1, Append1Is
  <2> QED BY <1>1, <1>2, <2>2, MountIs
<1> QED BY <1>3, <1>4

LEMMA PutBackIs ==
  ASSUME TypeOK, Control, PutBack
  PROVE  /\ pc = "putback" /\ pc' = "idle" /\ hand \in Records /\ hand' = Nothing
         /\ UNCHANGED <<popKey, card, position, offered, accepted, sent>>
         /\ mount' \in {"none", "live", "stale"}
         /\ Usable' <=> Usable
         /\ mount # "none" => mount' = mount
         /\ \/ Usable /\ file' = Append(file, hand) /\ faults' = faults
            \/ Usable /\ file' = file /\ Fault("write")
            \/ ~Usable /\ file' = file /\ faults' = faults
<1>1. /\ pc = "putback" /\ pc' = "idle" /\ hand' = Nothing
      /\ UNCHANGED <<popKey, card, position, offered, accepted, sent>>
  BY DEF PutBack
<1>2. hand \in Records
  BY <1>1 DEF TypeOK, Control
<1>3. PICK ok \in BOOLEAN : Append1(hand, ok)
  BY DEF PutBack
<1>4. MountOnUse
  BY <1>2, <1>3, Append1Is
<1>5. \/ Usable /\ file' = Append(file, hand) /\ faults' = faults
      \/ Usable /\ file' = file /\ Fault("write")
      \/ ~Usable /\ file' = file /\ faults' = faults
  BY <1>2, <1>3, Append1Is
<1> QED BY <1>1, <1>2, <1>4, <1>5, MountIs

\* The file as the steps leave it.
LEMMA FileNext == TypeOK /\ Control /\ [Next]_vars => (file \in Seq(Records))'
<1> SUFFICES ASSUME TypeOK, Control, [Next]_vars
             PROVE  file' \in Seq(Records)
  OBVIOUS
<1>0. file \in Seq(Records)
  BY DEF TypeOK
<1>1. ASSUME NEW ok \in BOOLEAN, Push(ok)
      PROVE  file' \in Seq(Records)
  BY <1>0, <1>1, PushIs, AppendIs
<1>2. CASE PutBack
  BY <1>0, <1>2, PutBackIs, AppendIs
<1>3. CASE PopTruncate
  BY <1>0, <1>3 DEF PopTruncate
<1> QED
  BY <1>0, <1>1, <1>2, <1>3
  DEF Next, PopStep, Hardware, PopBegin, PopLine, PopNoCard, PopEnd, PopReadFault, ReadNothing,
      PopAdvance, PublishDone, PublishFailed, PowerCut, Eject, Insert, vars

LEMMA FaultsNext == TypeOK /\ Control /\ [Next]_vars => (faults \in [FaultKinds -> Nat])'
<1> SUFFICES ASSUME TypeOK, Control, [Next]_vars
             PROVE  faults' \in [FaultKinds -> Nat]
  OBVIOUS
<1>0. faults \in [FaultKinds -> Nat]
  BY DEF TypeOK
<1>1. ASSUME NEW k \in FaultKinds, Fault(k)
      PROVE  faults' \in [FaultKinds -> Nat]
  BY <1>1, FaultIs
<1>2. {"cut", "torn", "eject", "read", "write"} = FaultKinds
  BY DEF FaultKinds
<1>3. ASSUME NEW ok \in BOOLEAN, Push(ok)
      PROVE  faults' \in [FaultKinds -> Nat]
  BY <1>0, <1>1, <1>2, <1>3, PushIs
<1>4. CASE PutBack
  BY <1>0, <1>1, <1>2, <1>4, PutBackIs
<1>5. CASE PowerCut
  BY <1>1, <1>2, <1>5 DEF PowerCut
<1>6. CASE Eject
  BY <1>1, <1>2, <1>6 DEF Eject
<1>7. CASE PopReadFault
  BY <1>1, <1>2, <1>7 DEF PopReadFault
<1> QED
  BY <1>0, <1>3, <1>4, <1>5, <1>6, <1>7
  DEF Next, PopStep, Hardware, PopBegin, PopLine, PopNoCard, PopEnd,
      PopTruncate, PopAdvance, PublishDone, PublishFailed, Insert, vars

\* The line that pop reads.
LEMMA PopLineIs ==
  ASSUME TypeOK, Control, PopLine
  PROVE  /\ pc = "read" /\ Usable /\ position < Len(file) /\ pc' = "advance"
         /\ position \in Nat /\ Len(file) \in Nat
         /\ position' = position + 1 /\ hand' = file[position + 1] /\ hand' \in Records
         /\ mount' \in {"none", "live", "stale"}
         /\ Usable' <=> Usable
         /\ mount # "none" => mount' = mount
         /\ UNCHANGED <<file, popKey, card, offered, accepted, sent, faults>>
<1>1. /\ pc = "read" /\ Usable /\ position < Len(file) /\ pc' = "advance" /\ MountOnUse
      /\ position' = position + 1 /\ hand' = file[position + 1]
      /\ UNCHANGED <<file, popKey, card, offered, accepted, sent, faults>>
  BY DEF PopLine
<1>2. /\ position \in Nat /\ file \in Seq(Records) /\ Len(file) \in Nat
  BY LengthIs DEF TypeOK
<1>3. position + 1 \in 1 .. Len(file)
  BY <1>1, <1>2
<1>4. file[position + 1] \in Records
  BY <1>2, <1>3, LineIs
<1> QED BY <1>1, <1>2, <1>4, MountIs

LEMMA ReadNothingIs ==
  ASSUME TypeOK, ReadNothing, pc = "read"
  PROVE  /\ position = 0 => pc' = "idle" /\ popKey' = popKey
         /\ position # 0 => pc' = "truncate" /\ popKey' = 0
         /\ position' = 0
         /\ UNCHANGED <<file, card, hand, offered, accepted, sent>>
         /\ mount' \in {"none", "live", "stale"}
         /\ Usable' <=> Usable
         /\ mount # "none" => mount' = mount
         /\ card = "in" => mount' # "none"
<1>1. /\ position = 0 => pc' = "idle" /\ popKey' = popKey
      /\ position # 0 => pc' = "truncate" /\ popKey' = 0
      /\ position' = 0 /\ MountOnUse
      /\ UNCHANGED <<file, card, hand, offered, accepted, sent>>
  BY DEF ReadNothing
<1> QED BY <1>1, MountIs

LEMMA TypeKeeps == TypeOK /\ Control /\ [Next]_vars => TypeOK'
<1> SUFFICES ASSUME TypeOK, Control, [Next]_vars
             PROVE  TypeOK'
  OBVIOUS
<1>0. file' \in Seq(Records) /\ faults' \in [FaultKinds -> Nat]
  BY FileNext, FaultsNext
<1>n. 0 \in Nat /\ Nothing \in Records \union {Nothing}
  OBVIOUS
<1>1. ASSUME NEW ok \in BOOLEAN, Push(ok)
      PROVE  TypeOK'
  <2>1. offered + 1 \in Records /\ offered' = offered + 1 /\ offered' \in 0 .. MaxRecords
    BY <1>1, PushIs, StoreAssumption DEF TypeOK, Records
  <2>2. accepted' \in SUBSET Records
    BY <1>1, <2>1, PushIs DEF TypeOK
  <2> QED BY <1>0, <1>1, <2>1, <2>2, PushIs DEF TypeOK
<1>2. CASE PopLine
  <2>1. position' \in Nat
    BY <1>2, PopLineIs
  <2> QED BY <1>0, <1>2, <2>1, PopLineIs DEF TypeOK
<1>3. CASE PopEnd \/ PopReadFault
  <2>1. ReadNothing /\ pc = "read"
    BY <1>3 DEF PopEnd, PopReadFault
  <2> QED BY <1>0, <1>n, <2>1, ReadNothingIs DEF TypeOK
<1>4. CASE PutBack
  BY <1>0, <1>n, <1>4, PutBackIs DEF TypeOK
<1>5. CASE PopBegin \/ PopNoCard \/ PublishFailed
  BY <1>0, <1>n, <1>5 DEF TypeOK, PopBegin, PopNoCard, PublishFailed, cardVars
<1>6. CASE PopAdvance
  BY <1>0, <1>n, <1>6 DEF TypeOK, PopAdvance, cardVars
<1>7. CASE PopTruncate
  <2>1. mount' \in {"none", "live", "stale"}
    BY <1>7, MountIs DEF PopTruncate
  <2> QED BY <1>0, <1>7, <2>1 DEF TypeOK, PopTruncate
<1>8. CASE PublishDone
  <2>1. hand \in Records /\ sent' = [sent EXCEPT ![hand] = IF @ < 2 THEN @ + 1 ELSE @]
    BY <1>8 DEF PublishDone, Control, TypeOK
  <2>2. \A n \in 0 .. 2 : (IF n < 2 THEN n + 1 ELSE n) \in 0 .. 2
    OBVIOUS
  <2>3. sent[hand] \in 0 .. 2
    BY <2>1 DEF TypeOK
  <2>4. (IF sent[hand] < 2 THEN sent[hand] + 1 ELSE sent[hand]) \in 0 .. 2
    BY <2>2, <2>3
  <2>5. sent' \in [Records -> 0 .. 2]
    BY <2>1, <2>4, Zenon DEF TypeOK
  <2> QED BY <1>0, <1>n, <1>8, <2>5 DEF TypeOK, PublishDone, cardVars
<1>9. CASE PowerCut \/ Eject \/ Insert
  BY <1>0, <1>n, <1>9 DEF TypeOK, PowerCut, Eject, Insert, popVars
<1>10. CASE UNCHANGED vars
  BY <1>10 DEF TypeOK, vars
<1> QED
  BY <1>1, <1>2, <1>3, <1>4, <1>5, <1>6, <1>7, <1>8, <1>9, <1>10 DEF Next, PopStep, Hardware

\* Appending moves no line and no position.
LEMMA LinesStay ==
  ASSUME TypeOK, NEW r \in Records, file' = Append(file, r)
  PROVE  /\ Len(file)' = Len(file) + 1 /\ Len(file) \in Nat
         /\ \A i \in 1 .. Len(file) : file'[i] = file[i]
         /\ file'[Len(file) + 1] = r
BY AppendIs, LengthIs DEF TypeOK

LEMMA ControlKeeps == TypeOK /\ Control /\ [Next]_vars => Control'
<1> SUFFICES ASSUME TypeOK, Control, [Next]_vars
             PROVE  Control'
  OBVIOUS
<1>0. /\ file \in Seq(Records) /\ Len(file) \in Nat /\ popKey \in Nat /\ position \in Nat
      /\ Nothing \notin Records /\ popKey <= Len(file)
  BY LengthIs, StoreAssumption DEF TypeOK, Control, PositionInFile, Records
<1>1. ASSUME NEW ok \in BOOLEAN, Push(ok)
      PROVE  Control'
  <2>1. pc' = "idle" /\ hand' = hand /\ popKey' = popKey
    BY <1>1, PushIs
  <2>2. Len(file)' = Len(file) \/ Len(file)' = Len(file) + 1
    BY <1>1, PushIs, LinesStay
  <2>3. popKey' <= Len(file)'
    BY <1>0, <2>1, <2>2
  <2>4. hand = Nothing
    BY <1>1, PushIs DEF Control
  <2> QED BY <2>1, <2>3, <2>4 DEF Control, PositionInFile
<1>2. CASE PopLine
  <2>1. /\ pc = "read" /\ position < Len(file) /\ pc' = "advance"
        /\ position' = position + 1 /\ hand' = file[position + 1] /\ hand' \in Records
        /\ UNCHANGED <<file, popKey>>
    BY <1>2, PopLineIs
  <2>2. position = 0 \/ position = popKey
    BY <2>1 DEF Control
  <2>3. position' <= Len(file)' /\ (position' = 1 \/ position' = popKey' + 1)
    BY <1>0, <2>1, <2>2
  <2>4. hand' = file'[position']
    BY <2>1
  <2> QED BY <1>0, <2>1, <2>3, <2>4 DEF Control, PositionInFile
<1>3. CASE PopEnd \/ PopReadFault
  <2>1. /\ ReadNothing /\ pc = "read" /\ card = "in"
    BY <1>3 DEF PopEnd, PopReadFault, Usable
  <2>2. hand' = Nothing /\ file' = file /\ mount' # "none"
        /\ \/ pc' = "idle" /\ popKey' = popKey
           \/ pc' = "truncate" /\ popKey' = 0
    BY <2>1, ReadNothingIs DEF Control
  <2>3. popKey' <= Len(file)'
    BY <1>0, <2>2
  <2> QED BY <2>2, <2>3 DEF Control, PositionInFile
<1>4. CASE PutBack
  <2>1. pc' = "idle" /\ hand' = Nothing /\ popKey' = popKey
    BY <1>4, PutBackIs
  <2>2. Len(file)' = Len(file) \/ Len(file)' = Len(file) + 1
    BY <1>4, PutBackIs, LinesStay
  <2>3. popKey' <= Len(file)'
    BY <1>0, <2>1, <2>2
  <2> QED BY <2>1, <2>3 DEF Control, PositionInFile
<1>5. CASE PopBegin
  <2>1. pc' = "read" /\ hand' = Nothing /\ position' \in {0, popKey} /\ UNCHANGED <<file, popKey>>
    BY <1>5 DEF PopBegin
  <2> QED BY <1>0, <2>1 DEF Control, PositionInFile
<1>6. CASE PopNoCard
  <2>1. pc = "read" /\ pc' = "advance" /\ UNCHANGED <<file, popKey, position, hand>>
    BY <1>6 DEF PopNoCard
  <2>2. hand = Nothing /\ position \in {0, popKey}
    BY <2>1 DEF Control
  <2>3. position' <= Len(file)'
    BY <1>0, <2>1, <2>2
  <2> QED BY <1>0, <2>1, <2>2, <2>3 DEF Control, PositionInFile
<1>7. CASE PopAdvance
  <2>1. /\ pc = "advance" /\ UNCHANGED <<file, hand>>
        /\ popKey' \in {popKey, position}
        /\ pc' = IF hand = Nothing THEN "idle" ELSE "publish"
    BY <1>7 DEF PopAdvance
  <2>2. popKey' <= Len(file)'
    BY <1>0, <2>1 DEF Control
  <2> QED BY <2>1, <2>2 DEF Control, PositionInFile
<1>8. CASE PopTruncate
  <2>1. /\ pc = "truncate" /\ pc' = "idle" /\ UNCHANGED <<popKey, hand>>
        /\ file' = file \/ file' = <<>>
    BY <1>8 DEF PopTruncate
  <2>2. popKey = 0 /\ hand = Nothing
    BY <2>1 DEF Control
  <2>3. Len(file)' \in Nat
    BY <1>0, <2>1
  <2>4. popKey' <= Len(file)'
    BY <2>1, <2>2, <2>3
  <2> QED BY <2>1, <2>2, <2>4 DEF Control, PositionInFile
<1>9. CASE PublishDone
  BY <1>0, <1>9 DEF Control, PositionInFile, PublishDone
<1>10. CASE PublishFailed
  BY <1>0, <1>10 DEF Control, PositionInFile, PublishFailed
<1>11. CASE PowerCut
  BY <1>0, <1>11 DEF Control, PositionInFile, PowerCut
<1>12. CASE Eject \/ Insert
  BY <1>0, <1>12 DEF Control, PositionInFile, Eject, Insert, popVars
<1>13. CASE UNCHANGED vars
  BY <1>0, <1>13 DEF Control, PositionInFile, vars
<1> QED
  BY <1>1, <1>2, <1>3, <1>4, <1>5, <1>6, <1>7, <1>8, <1>9, <1>10, <1>11, <1>12, <1>13
  DEF Next, PopStep, Hardware

\* What publishing a record does to what was delivered.
LEMMA DeliveredIs ==
  ASSUME TypeOK, Control, PublishDone
  PROVE  /\ hand \in Records /\ hand # Nothing /\ Delivered' = Delivered \union {hand}
         /\ pc = "publish" /\ pc' = "idle" /\ hand' = Nothing
         /\ UNCHANGED <<file, popKey, card, mount, position, offered, accepted, faults>>
<1>1. /\ hand \in Records /\ hand # Nothing
      /\ pc = "publish" /\ pc' = "idle" /\ hand' = Nothing
      /\ sent' = [sent EXCEPT ![hand] = IF sent[hand] < 2 THEN sent[hand] + 1 ELSE sent[hand]]
      /\ UNCHANGED <<file, popKey, card, mount, position, offered, accepted, faults>>
  BY DEF PublishDone, Control, TypeOK, cardVars
<1>2. sent \in [Records -> 0 .. 2]
  BY DEF TypeOK
<1>3. sent'[hand] > 0
  BY <1>1, <1>2
<1>4. \A r \in Records : r # hand => sent'[r] = sent[r]
  BY <1>1, <1>2
<1>5. Delivered' = Delivered \union {hand}
  BY <1>1, <1>3, <1>4 DEF Delivered
<1> QED BY <1>1, <1>5

LEMMA SameDelivered == ASSUME UNCHANGED sent PROVE Delivered' = Delivered
BY DEF Delivered

LEMMA SessionsKeep == TypeOK /\ Sessions /\ [Next]_vars => Sessions'
<1> SUFFICES ASSUME TypeOK, Sessions, [Next]_vars
             PROVE  Sessions'
  OBVIOUS
<1>0. card \in {"in", "out"}
  BY DEF TypeOK
<1>1. ASSUME MountOnUse, card' = card
      PROVE  Sessions'
  BY <1>0, <1>1 DEF Sessions, MountOnUse
<1>2. ASSUME NEW ok \in BOOLEAN, Push(ok)
      PROVE  Sessions'
  <2>1. card' = card /\ (mount' = mount \/ MountOnUse)
    BY <1>2 DEF Push, Append1
  <2> QED BY <1>1, <2>1 DEF Sessions
<1>3. CASE PutBack
  <2>1. card' = card /\ MountOnUse
    BY <1>3 DEF PutBack, Append1
  <2> QED BY <1>1, <2>1
<1>4. CASE PopLine \/ PopEnd \/ PopReadFault \/ PopTruncate
  <2>1. card' = card /\ MountOnUse
    BY <1>4 DEF PopLine, PopEnd, PopReadFault, PopTruncate, ReadNothing
  <2> QED BY <1>1, <2>1
<1>5. CASE PopBegin \/ PopNoCard \/ PopAdvance \/ PublishDone \/ PublishFailed
  BY <1>5 DEF Sessions, PopBegin, PopNoCard, PopAdvance, PublishDone, PublishFailed, cardVars
<1>6. CASE PowerCut \/ Eject \/ Insert
  BY <1>0, <1>6 DEF Sessions, PowerCut, Eject, Insert
<1>7. CASE UNCHANGED vars
  BY <1>7 DEF Sessions, vars
<1> QED BY <1>2, <1>3, <1>4, <1>5, <1>6, <1>7 DEF Next, PopStep, Hardware

\* A file with one more line, of a record that was offered.
LEMMA LinesOffered ==
  ASSUME TypeOK, \A i \in 1 .. Len(file) : file[i] <= offered,
         NEW r \in Records, NEW n \in Nat, r <= n, offered <= n, file' = Append(file, r)
  PROVE  \A i \in 1 .. Len(file)' : file'[i] <= n
<1>1. /\ Len(file)' = Len(file) + 1 /\ Len(file) \in Nat
      /\ \A i \in 1 .. Len(file) : file'[i] = file[i]
      /\ file'[Len(file) + 1] = r
  BY LinesStay
<1>2. offered \in Nat
  BY DEF TypeOK
<1> SUFFICES ASSUME NEW i \in 1 .. Len(file)'
             PROVE  file'[i] <= n
  OBVIOUS
<1>3. CASE i = Len(file) + 1
  BY <1>1, <1>3
<1>4. CASE i \in 1 .. Len(file)
  <2>1. file[i] <= offered /\ file[i] \in Records
    BY <1>4, LineIs DEF TypeOK
  <2> QED BY <1>1, <1>2, <1>4, <2>1 DEF Records
<1> QED BY <1>1, <1>3, <1>4

LEMMA KnownKeeps == TypeOK /\ Control /\ Known /\ [Next]_vars => Known'
<1> SUFFICES ASSUME TypeOK, Control, Known, [Next]_vars
             PROVE  Known'
  OBVIOUS
<1>0. /\ \A i \in 1 .. Len(file) : file[i] <= offered
      /\ InHand \subseteq 1 .. offered
      /\ Delivered \subseteq 1 .. offered
      /\ accepted \subseteq 1 .. offered
      /\ offered \in Nat
  BY DEF Known, TypeOK
<1>1. ASSUME NEW ok \in BOOLEAN, Push(ok)
      PROVE  Known'
  <2>1. /\ offered' = offered + 1 /\ offered + 1 \in Records
        /\ accepted' \subseteq accepted \union {offered + 1}
        /\ hand' = hand /\ sent' = sent
    BY <1>1, PushIs
  <2>2. 1 .. offered \subseteq 1 .. offered + 1 /\ offered + 1 \in 1 .. offered + 1
    BY <1>0
  <2>3. InHand' = InHand /\ Delivered' = Delivered
    BY <2>1, SameDelivered DEF InHand
  <2>4. \A i \in 1 .. Len(file)' : file'[i] <= offered + 1
    <3>1. CASE file' = file
      <4>1. \A i \in 1 .. Len(file) : file[i] \in Records
        BY LineIs DEF TypeOK
      <4> QED BY <1>0, <3>1, <4>1 DEF Records
    <3>2. CASE file' = Append(file, offered + 1)
      BY <1>0, <2>1, <3>2, LinesOffered
    <3> QED BY <1>1, <3>1, <3>2, PushIs
  <2> QED BY <1>0, <2>1, <2>2, <2>3, <2>4 DEF Known
<1>2. CASE PopLine
  <2>1. /\ position + 1 \in 1 .. Len(file) /\ hand' = file[position + 1] /\ hand' \in Records
        /\ UNCHANGED <<file, offered, accepted, sent>>
    BY <1>2, PopLineIs
  <2>2. hand' \in 1 .. offered
    BY <1>0, <2>1 DEF Records
  <2>3. InHand' \subseteq 1 .. offered
    BY <2>2 DEF InHand
  <2> QED BY <1>0, <2>1, <2>3, SameDelivered DEF Known
<1>3. CASE PopEnd \/ PopReadFault
  <2>1. UNCHANGED <<file, hand, offered, accepted, sent>>
    BY <1>3 DEF PopEnd, PopReadFault, ReadNothing
  <2> QED BY <1>0, <2>1, SameDelivered DEF Known, InHand
<1>4. CASE PutBack
  <2>1. hand' = Nothing /\ hand \in Records /\ UNCHANGED <<offered, accepted, sent>>
    BY <1>4, PutBackIs
  <2>2. hand # Nothing
    BY <1>4 DEF PutBack, Control
  <2>3. hand <= offered
    BY <1>0, <2>2 DEF InHand
  <2>4. \A i \in 1 .. Len(file)' : file'[i] <= offered
    <3>1. CASE file' = file
      BY <1>0, <3>1
    <3>2. CASE file' = Append(file, hand)
      BY <1>0, <2>1, <2>3, <3>2, LinesOffered
    <3> QED BY <1>4, <3>1, <3>2, PutBackIs
  <2>5. InHand' = {}
    BY <2>1 DEF InHand
  <2> QED BY <1>0, <2>1, <2>4, <2>5, SameDelivered DEF Known
<1>5. CASE PopBegin \/ PopNoCard \/ PopAdvance \/ PublishFailed \/ PowerCut \/ Eject \/ Insert
           \/ UNCHANGED vars
  <2>1. UNCHANGED <<file, offered, accepted, sent>> /\ hand' \in {hand, Nothing}
    BY <1>5 DEF PopBegin, PopNoCard, PopAdvance, PublishFailed, PowerCut, Eject, Insert,
                popVars, vars
  <2>2. InHand' \subseteq InHand
    BY <2>1 DEF InHand
  <2> QED BY <1>0, <2>1, <2>2, SameDelivered DEF Known
<1>6. CASE PopTruncate
  <2>1. UNCHANGED <<hand, offered, accepted, sent>> /\ (file' = file \/ file' = <<>>)
    BY <1>6 DEF PopTruncate
  <2>2. InHand' = InHand
    BY <2>1 DEF InHand
  <2>3. \A i \in 1 .. Len(file)' : file'[i] <= offered
    <3>1. CASE file' = <<>>
      <4>1. 1 .. Len(file)' = {}
        BY <3>1
      <4> QED BY <4>1
    <3> QED BY <1>0, <2>1, <3>1
  <2> QED BY <1>0, <2>1, <2>2, <2>3, SameDelivered DEF Known
<1>7. CASE PublishDone
  <2>1. /\ Delivered' = Delivered \union {hand} /\ hand # Nothing /\ hand' = Nothing
        /\ UNCHANGED <<file, offered, accepted>>
    BY <1>7, DeliveredIs
  <2>2. hand \in 1 .. offered /\ InHand' = {}
    BY <1>0, <2>1 DEF InHand
  <2> QED BY <1>0, <2>1, <2>2 DEF Known
<1> QED BY <1>1, <1>2, <1>3, <1>4, <1>5, <1>6, <1>7 DEF Next, PopStep, Hardware

-----------------------------------------------------------------------------
(* One place *)

\* The lines behind the position differ, and nobody has seen them yet.
Fresh ==
  /\ \A i, j \in popKey + 1 .. Len(file) : file[i] = file[j] => i = j
  /\ After(file, popKey) \intersect Delivered = {}

\* A line that is none of those yet keeps them different.
LEMMA FreshAppend ==
  ASSUME TypeOK, popKey <= Len(file), Fresh,
         NEW r \in Records, r \notin After(file, popKey), r \notin Delivered,
         file' = Append(file, r), popKey' = popKey, Delivered' = Delivered
  PROVE  Fresh'
<1>1. /\ Len(file)' = Len(file) + 1 /\ Len(file) \in Nat
      /\ \A i \in 1 .. Len(file) : file'[i] = file[i]
      /\ file'[Len(file) + 1] = r
      /\ popKey \in Nat /\ file \in Seq(Records)
  BY LinesStay DEF TypeOK
<1>2. After(file, popKey)' = After(file, popKey) \union {r}
  <2>1. popKey \in 0 .. Len(file)
    BY <1>1
  <2> QED BY <1>1, <2>1, AfterAppend
<1>3. After(file, popKey)' \intersect Delivered' = {}
  BY <1>2 DEF Fresh
<1>4. ASSUME NEW i \in popKey + 1 .. Len(file)
      PROVE  file'[i] = file[i] /\ file'[i] # r
  <2>1. i \in 1 .. Len(file)
    BY <1>1
  <2>2. file[i] \in After(file, popKey)
    BY DEF After
  <2> QED BY <1>1, <2>1, <2>2
<1>5. ASSUME NEW i \in popKey' + 1 .. Len(file)', NEW j \in popKey' + 1 .. Len(file)',
             file'[i] = file'[j]
      PROVE  i = j
  <2>1. /\ i = Len(file) + 1 \/ i \in popKey + 1 .. Len(file)
        /\ j = Len(file) + 1 \/ j \in popKey + 1 .. Len(file)
    BY <1>1
  <2>2. CASE i = Len(file) + 1
    BY <1>1, <1>4, <1>5, <2>1, <2>2
  <2>3. CASE j = Len(file) + 1
    BY <1>1, <1>4, <1>5, <2>1, <2>3
  <2>4. CASE i \in popKey + 1 .. Len(file) /\ j \in popKey + 1 .. Len(file)
    BY <1>4, <1>5, <2>4 DEF Fresh
  <2> QED BY <2>1, <2>2, <2>3, <2>4
<1> QED BY <1>3, <1>5 DEF Fresh

\* Passing a line by leaves the others fresh, and that line is none of them.
LEMMA FreshAdvance ==
  ASSUME TypeOK, Fresh, popKey < Len(file), UNCHANGED <<file, sent>>, popKey' = popKey + 1
  PROVE  /\ Fresh'
         /\ file[popKey + 1] \notin After(file, popKey)'
         /\ file[popKey + 1] \notin Delivered
         /\ After(file, popKey) = After(file, popKey)' \union {file[popKey + 1]}
<1>1. popKey \in Nat /\ Len(file) \in Nat /\ file \in Seq(Records)
  BY LengthIs DEF TypeOK
<1>2. After(file, popKey) = After(file, popKey + 1) \union {file[popKey + 1]}
  BY <1>1, AfterOne
<1>3. After(file, popKey)' = After(file, popKey + 1) /\ Delivered' = Delivered
  BY SameDelivered DEF After
<1>4. ASSUME NEW i \in popKey + 1 + 1 .. Len(file)
      PROVE  i \in popKey + 1 .. Len(file) /\ i # popKey + 1 /\ file[i] # file[popKey + 1]
  <2>1. i \in popKey + 1 .. Len(file) /\ i # popKey + 1
        /\ popKey + 1 \in popKey + 1 .. Len(file)
    BY <1>1
  <2> QED BY <2>1 DEF Fresh
<1>5. file[popKey + 1] \notin After(file, popKey + 1)
  <2> SUFFICES ASSUME file[popKey + 1] \in After(file, popKey + 1)
               PROVE  FALSE
    OBVIOUS
  <2>1. PICK i \in popKey + 1 + 1 .. Len(file) : file[popKey + 1] = file[i]
    BY DEF After
  <2> QED BY <1>4, <2>1
<1>6. \A i, j \in popKey + 1 + 1 .. Len(file) : file[i] = file[j] => i = j
  BY <1>4 DEF Fresh
<1>7. Fresh'
  <2>1. After(file, popKey)' \intersect Delivered' = {}
    BY <1>2, <1>3 DEF Fresh
  <2> QED BY <1>6, <2>1 DEF Fresh
<1> QED BY <1>2, <1>3, <1>5, <1>7 DEF Fresh

LEMMA OnePlaceIs ==
  OnePlace <=>
    (AllCuts => /\ card = "in" /\ mount = "live"
                /\ pc = "read" => position = popKey
                /\ pc = "advance" => position = popKey + 1 /\ hand # Nothing
                /\ pc # "truncate" => Fresh
                /\ InHand \intersect Delivered = {}
                /\ pc \in {"publish", "putback"} => hand \notin After(file, popKey))
BY Zenon DEF OnePlace, Fresh

LEMMA OnePlaceKeeps ==
  TypeOK /\ Control /\ Known /\ OnePlace /\ [Next]_vars => OnePlace'
<1> SUFFICES ASSUME TypeOK, Control, Known, OnePlace, [Next]_vars, AllCuts'
             PROVE  /\ card' = "in" /\ mount' = "live"
                    /\ pc' = "read" => position' = popKey'
                    /\ pc' = "advance" => position' = popKey' + 1 /\ hand' # Nothing
                    /\ pc' # "truncate" => Fresh'
                    /\ (InHand \intersect Delivered = {})'
                    /\ pc' \in {"publish", "putback"} => hand' \notin After(file, popKey)'
  BY Zenon DEF OnePlace, Fresh
<1> DEFINE Goal ==
             /\ card' = "in" /\ mount' = "live"
             /\ pc' = "read" => position' = popKey'
             /\ pc' = "advance" => position' = popKey' + 1 /\ hand' # Nothing
             /\ pc' # "truncate" => Fresh'
             /\ (InHand \intersect Delivered = {})'
             /\ pc' \in {"publish", "putback"} => hand' \notin After(file, popKey)'
<1>0. /\ file \in Seq(Records) /\ Len(file) \in Nat /\ popKey \in Nat /\ position \in Nat
      /\ Nothing \notin Records /\ popKey <= Len(file)
  BY LengthIs, StoreAssumption DEF TypeOK, Control, PositionInFile, Records
<1>a. AllCuts
      => /\ card = "in" /\ mount = "live" /\ Usable
         /\ pc = "read" => position = popKey
         /\ pc = "advance" => position = popKey + 1 /\ hand # Nothing
         /\ pc # "truncate" => Fresh
         /\ InHand \intersect Delivered = {}
         /\ pc \in {"publish", "putback"} => hand \notin After(file, popKey)
  BY OnePlaceIs DEF Usable
<1>f. \A k \in FaultKinds : Fault(k) => AllCuts /\ k = "cut"
  BY FaultIs
<1>g. faults' = faults => AllCuts
  BY SameFaults
<1>h. "write" \in FaultKinds /\ "read" \in FaultKinds /\ "eject" \in FaultKinds
      /\ "torn" \in FaultKinds /\ "cut" \in FaultKinds
  BY DEF FaultKinds
<1>1. ASSUME NEW ok \in BOOLEAN, Push(ok)
      PROVE  Goal
  <2>1. /\ pc = "idle" /\ UNCHANGED <<popKey, card, pc, position, hand, sent>>
        /\ offered + 1 \in Records
        /\ mount # "none" => mount' = mount
        /\ \/ file' = Append(file, offered + 1) /\ faults' = faults
           \/ Fault("write")
           \/ ~Usable /\ faults' = faults
    BY <1>1, PushIs
  <2>2. AllCuts /\ file' = Append(file, offered + 1)
    BY <2>1, <1>a, <1>f, <1>g, <1>h
  <2>3. offered + 1 \notin Delivered
    BY DEF Known, TypeOK
  <2>4. offered + 1 \notin After(file, popKey)
    <3> SUFFICES ASSUME NEW i \in popKey + 1 .. Len(file), offered + 1 = file[i]
                 PROVE  FALSE
      BY DEF After
    <3>1. i \in 1 .. Len(file)
      BY <1>0
    <3> QED BY <3>1 DEF Known, TypeOK
  <2>5. Delivered' = Delivered /\ InHand' = InHand
    BY <2>1, SameDelivered DEF InHand
  <2>6. Fresh'
    BY <1>0, <1>a, <2>1, <2>2, <2>3, <2>4, <2>5, FreshAppend
  <2> QED BY <1>a, <2>1, <2>2, <2>5, <2>6
<1>2. ASSUME PopLine
      PROVE  Goal
  <2>1. /\ pc = "read" /\ position < Len(file) /\ pc' = "advance"
        /\ position' = position + 1 /\ hand' = file[position + 1] /\ hand' \in Records
        /\ mount # "none" => mount' = mount
        /\ UNCHANGED <<file, popKey, card, sent>>
    BY <1>2, PopLineIs
  <2>2. AllCuts
    BY <1>2, <1>g, PopLineIs
  <2>3. position = popKey /\ Fresh
    BY <1>a, <2>1, <2>2
  <2>4. Delivered' = Delivered /\ Fresh'
    BY <2>1, <2>3, SameDelivered DEF Fresh, After
  <2>5. hand' \in After(file, popKey)
    <3>1. popKey + 1 \in popKey + 1 .. Len(file)
      BY <1>0, <2>1, <2>3
    <3> QED BY <2>1, <2>3, <3>1 DEF After
  <2>6. (InHand \intersect Delivered = {})'
    BY <2>3, <2>4, <2>5 DEF Fresh, InHand
  <2> QED BY <1>0, <1>a, <2>1, <2>2, <2>3, <2>4, <2>6
<1>3. ASSUME PopEnd \/ PopReadFault
      PROVE  Goal
  <2>1. AllCuts /\ PopEnd
    <3>1. ~PopReadFault
      BY <1>f, <1>h DEF PopReadFault
    <3> QED BY <1>3, <1>g, <3>1 DEF PopEnd
  <2>2. /\ pc = "read" /\ ReadNothing /\ ((pc' = "idle" /\ popKey' = popKey) \/ pc' = "truncate")
        /\ mount # "none" => mount' = mount
        /\ UNCHANGED <<file, card, hand, sent>>
    BY <2>1, ReadNothingIs DEF PopEnd
  <2>3. Delivered' = Delivered /\ InHand' = InHand
    BY <2>2, SameDelivered DEF InHand
  <2>4. pc' # "truncate" => Fresh'
    BY <1>a, <2>1, <2>2, <2>3 DEF Fresh, After
  <2> QED BY <1>a, <2>1, <2>2, <2>3, <2>4
<1>4. ASSUME PutBack
      PROVE  Goal
  <2>1. /\ pc = "putback" /\ pc' = "idle" /\ hand \in Records /\ hand' = Nothing
        /\ UNCHANGED <<popKey, card, sent>>
        /\ mount # "none" => mount' = mount
        /\ \/ file' = Append(file, hand) /\ faults' = faults
           \/ Fault("write")
           \/ ~Usable /\ faults' = faults
    BY <1>4, PutBackIs
  <2>2. AllCuts /\ file' = Append(file, hand)
    BY <2>1, <1>a, <1>f, <1>g, <1>h
  <2>3. hand \notin After(file, popKey) /\ hand \notin Delivered /\ Fresh
    BY <1>0, <1>a, <2>1, <2>2 DEF InHand
  <2>4. Delivered' = Delivered /\ InHand' = {}
    BY <2>1, SameDelivered DEF InHand
  <2>5. Fresh'
    BY <1>0, <2>1, <2>2, <2>3, <2>4, FreshAppend
  <2> QED BY <1>a, <2>1, <2>2, <2>4, <2>5
<1>5. ASSUME PopBegin
      PROVE  Goal
  <2>1. /\ pc = "idle" /\ pc' = "read" /\ hand' = Nothing
        /\ card = "in" => position' = popKey
        /\ UNCHANGED <<file, popKey, card, mount, sent, faults>>
    BY <1>5 DEF PopBegin, cardVars
  <2>2. Delivered' = Delivered /\ InHand' = {} /\ AllCuts
    BY <2>1, <1>g, SameDelivered DEF InHand
  <2>3. Fresh'
    BY <1>a, <2>1, <2>2 DEF Fresh, After
  <2> QED BY <1>a, <2>1, <2>2, <2>3
<1>6. ASSUME PopAdvance
      PROVE  Goal
  <2>1. /\ pc = "advance" /\ UNCHANGED <<file, card, mount, hand, sent, faults>>
        /\ popKey' = IF position > 0 /\ card = "in" THEN position ELSE popKey
        /\ pc' = IF hand = Nothing THEN "idle" ELSE "publish"
    BY <1>6 DEF PopAdvance, cardVars
  <2>2. AllCuts
    BY <2>1, <1>g
  <2>3. card = "in" /\ position = popKey + 1 /\ hand # Nothing /\ Fresh
    BY <1>a, <2>1, <2>2
  <2>4. popKey' = popKey + 1 /\ hand = file[popKey + 1] /\ popKey < Len(file)
    BY <1>0, <2>1, <2>3 DEF Control
  <2>5. Fresh' /\ hand \notin After(file, popKey)'
    BY <2>1, <2>3, <2>4, FreshAdvance
  <2>6. Delivered' = Delivered /\ InHand' = InHand
    BY <2>1, SameDelivered DEF InHand
  <2> QED BY <1>a, <2>1, <2>2, <2>3, <2>5, <2>6
<1>7. ASSUME PopTruncate
      PROVE  Goal
  <2>1. /\ pc' = "idle" /\ pc = "truncate" /\ UNCHANGED <<popKey, card, hand, sent, faults>>
        /\ MountOnUse /\ file' = IF Usable THEN <<>> ELSE file
    BY <1>7 DEF PopTruncate
  <2>2. AllCuts /\ file' = <<>> /\ popKey' = 0 /\ mount' = "live" /\ card' = "in"
    BY <1>a, <1>g, <2>1, MountIs DEF Control
  <2>3. popKey' + 1 .. Len(file)' = {}
    BY <2>2
  <2>4. Fresh'
    BY <2>3, Zenon DEF Fresh, After
  <2>5. Delivered' = Delivered /\ InHand' = InHand
    BY <2>1, SameDelivered DEF InHand
  <2> QED BY <1>a, <2>1, <2>2, <2>4, <2>5
<1>8. ASSUME PublishDone
      PROVE  Goal
  <2>1. /\ Delivered' = Delivered \union {hand} /\ hand # Nothing
        /\ pc = "publish" /\ pc' = "idle" /\ hand' = Nothing
        /\ UNCHANGED <<file, popKey, card, mount, faults>>
    BY <1>8, DeliveredIs
  <2>2. AllCuts /\ hand \notin After(file, popKey) /\ Fresh
    BY <1>a, <1>g, <2>1
  <2>3. InHand' = {} /\ Fresh'
    BY <2>1, <2>2 DEF InHand, Fresh, After
  <2> QED BY <1>a, <2>1, <2>2, <2>3
<1>9. ASSUME PublishFailed \/ UNCHANGED vars
      PROVE  Goal
  <2>1. /\ UNCHANGED <<file, popKey, card, mount, position, hand, sent, faults>>
        /\ (pc = "publish" /\ pc' = "putback") \/ pc' = pc
    BY <1>9 DEF PublishFailed, cardVars, vars
  <2>2. AllCuts /\ Delivered' = Delivered /\ InHand' = InHand
    BY <2>1, <1>g, SameDelivered DEF InHand
  <2>3. pc' # "truncate" => Fresh'
    BY <1>a, <2>1, <2>2 DEF Fresh, After
  <2>4. After(file, popKey)' = After(file, popKey)
    BY <2>1 DEF After
  <2> QED BY <1>a, <2>1, <2>2, <2>3, <2>4
<1>10. ASSUME PowerCut
      PROVE  Goal
  <2>1. /\ pc' = "idle" /\ hand' = Nothing
        /\ mount' = IF card = "in" THEN "live" ELSE "none"
        /\ UNCHANGED <<file, popKey, card, sent>>
        /\ Fault(IF pc = "truncate" THEN "torn" ELSE "cut")
    BY <1>10 DEF PowerCut
  <2>2. AllCuts /\ pc # "truncate"
    BY <1>f, <1>h, <2>1
  <2>3. Delivered' = Delivered /\ InHand' = {}
    BY <2>1, SameDelivered DEF InHand
  <2>4. Fresh'
    BY <1>a, <2>1, <2>2, <2>3 DEF Fresh, After
  <2> QED BY <1>a, <2>1, <2>2, <2>3, <2>4
<1>11. ASSUME PopNoCard \/ Eject \/ Insert
      PROVE  Goal
  <2>1. ~Eject
    BY <1>f, <1>h DEF Eject
  <2>2. card = "out" /\ faults' = faults
    BY <1>11, <2>1 DEF PopNoCard, Insert
  <2> QED BY <1>a, <1>g, <2>2
<1> HIDE DEF Goal
<1>12. Goal
  BY <1>1, <1>2, <1>3, <1>4, <1>5, <1>6, <1>7, <1>8, <1>9, <1>10, <1>11
  DEF Next, PopStep, Hardware
<1> QED BY <1>12 DEF Goal

-----------------------------------------------------------------------------
(* What faults cost *)

LEMMA MissingFinite ==
  ASSUME TypeOK
  PROVE  IsFiniteSet(Missing) /\ Cardinality(Missing) \in Nat
<1>1. IsFiniteSet(Records)
  BY FS_Interval, StoreAssumption DEF Records
<1>2. Missing \in SUBSET Records
  BY DEF Missing, TypeOK
<1>3. IsFiniteSet(Missing)
  BY <1>1, <1>2, FS_Subset
<1> QED BY <1>3, FS_CardinalityType

\* A step without a fault costs nothing ...
LEMMA CostsNothing ==
  ASSUME TypeOK, MissingBounded, faults' = faults, Missing' \subseteq Missing
  PROVE  MissingBounded'
<1> SUFFICES ASSUME faults'["read"] = 0
             PROVE  Cardinality(Missing') <= TotalFaults'
  BY DEF MissingBounded
<1>1. IsFiniteSet(Missing) /\ Cardinality(Missing) \in Nat
  BY MissingFinite
<1>2. Missing' \in SUBSET Missing
  OBVIOUS
<1>3. Cardinality(Missing') <= Cardinality(Missing) /\ Cardinality(Missing') \in Nat
  BY <1>1, <1>2, FS_Subset, FS_CardinalityType
<1>4. Cardinality(Missing) <= TotalFaults /\ TotalFaults' = TotalFaults /\ TotalFaults \in Nat
  BY SameFaults, Counts DEF MissingBounded
<1> QED BY <1>1, <1>3, <1>4

\* ... and one with a fault a record at most.
LEMMA CostsOne ==
  ASSUME TypeOK, MissingBounded, NEW k \in FaultKinds, Fault(k),
         NEW x, k # "read" => Missing' \subseteq Missing \union {x}
  PROVE  MissingBounded'
<1> SUFFICES ASSUME faults'["read"] = 0
             PROVE  Cardinality(Missing') <= TotalFaults'
  BY DEF MissingBounded
<1>0. k # "read" /\ faults["read"] = 0 /\ TotalFaults' = TotalFaults + 1 /\ TotalFaults \in Nat
  BY FaultIs, Counts
<1>1. IsFiniteSet(Missing) /\ Cardinality(Missing) \in Nat
  BY MissingFinite
<1>2. /\ IsFiniteSet(Missing \union {x})
      /\ Cardinality(Missing \union {x}) <= Cardinality(Missing) + 1
      /\ Cardinality(Missing \union {x}) \in Nat
  BY <1>1, FS_AddElement, FS_CardinalityType
<1>3. Missing' \in SUBSET (Missing \union {x})
  BY <1>0
<1>4. /\ Cardinality(Missing') <= Cardinality(Missing \union {x})
      /\ Cardinality(Missing') \in Nat
  BY <1>2, <1>3, FS_Subset, FS_CardinalityType
<1>5. Cardinality(Missing) <= TotalFaults
  BY <1>0 DEF MissingBounded
<1> QED BY <1>0, <1>1, <1>2, <1>4, <1>5

\* What a record that was accepted has to be in.
Secure == Delivered \union Safe \union Held

LEMMA SecureGrows ==
  ASSUME accepted' = accepted, Secure \subseteq Secure'
  PROVE  Missing' \subseteq Missing
BY DEF Missing, Secure

LEMMA SecureButOne ==
  ASSUME accepted' = accepted, NEW x, Secure \subseteq Secure' \union {x}
  PROVE  Missing' \subseteq Missing \union {x}
BY DEF Missing, Secure

LEMMA MissingKeeps ==
  TypeOK /\ Control /\ Sessions /\ MissingBounded /\ [Next]_vars => MissingBounded'
<1> SUFFICES ASSUME TypeOK, Control, Sessions, MissingBounded, [Next]_vars
             PROVE  MissingBounded'
  OBVIOUS
<1>0. /\ file \in Seq(Records) /\ Len(file) \in Nat /\ popKey \in Nat /\ position \in Nat
      /\ Nothing \notin Records /\ popKey <= Len(file)
  BY LengthIs, StoreAssumption DEF TypeOK, Control, PositionInFile, Records
<1>b. Behind \in Nat /\ popKey <= Behind /\ (pc # "advance" => Behind = popKey)
  BY <1>0 DEF Behind
<1>h. "write" \in FaultKinds /\ "read" \in FaultKinds /\ "eject" \in FaultKinds
      /\ "torn" \in FaultKinds /\ "cut" \in FaultKinds
  BY DEF FaultKinds
<1>1. ASSUME NEW ok \in BOOLEAN, Push(ok)
      PROVE  MissingBounded'
  <2>1. /\ pc = "idle" /\ UNCHANGED <<popKey, card, pc, position, hand, sent>>
        /\ offered + 1 \in Records /\ (Usable' <=> Usable)
        /\ accepted' = IF ok THEN accepted \union {offered + 1} ELSE accepted
        /\ \/ Usable /\ ok /\ file' = Append(file, offered + 1) /\ faults' = faults
           \/ Usable /\ file' = file /\ Fault("write")
           \/ ~Usable /\ ~ok /\ file' = file /\ faults' = faults
    BY <1>1, PushIs
  <2>2. Delivered' = Delivered /\ Held' = Held
    BY <2>1, SameDelivered DEF Held, InHand
  <2>3. Safe = After(file, popKey) /\ Safe' = After(file', popKey)
    BY <2>1 DEF Safe, Behind, After
  <2>4. CASE ok /\ file' = Append(file, offered + 1) /\ faults' = faults
    <3>1. popKey \in 0 .. Len(file)
      BY <1>0
    <3>2. Safe' = Safe \union {offered + 1}
      BY <1>0, <2>1, <2>3, <2>4, <3>1, AfterAppend
    <3>3. Missing' \subseteq Missing
      BY <2>1, <2>2, <3>2 DEF Missing
    <3> QED BY <2>4, <3>3, CostsNothing
  <2>5. CASE file' = file /\ Fault("write")
    <3>1. Missing' \subseteq Missing \union {offered + 1}
      BY <2>1, <2>2, <2>3, <2>5 DEF Missing
    <3> QED BY <1>h, <2>5, <3>1, CostsOne
  <2>6. CASE ~ok /\ file' = file /\ faults' = faults
    <3>1. Missing' \subseteq Missing
      BY <2>1, <2>2, <2>3, <2>6 DEF Missing
    <3> QED BY <2>6, <3>1, CostsNothing
  <2> QED BY <2>1, <2>4, <2>5, <2>6
<1>2. CASE PopLine
  <2>1. /\ pc = "read" /\ Usable /\ position < Len(file) /\ pc' = "advance"
        /\ position' = position + 1 /\ hand' = file[position + 1] /\ hand' \in Records
        /\ (Usable' <=> Usable)
        /\ UNCHANGED <<file, popKey, accepted, sent, faults>>
    BY <1>2, PopLineIs
  <2>2. Delivered' = Delivered /\ Held = {} /\ Held' = {hand'}
    BY <1>0, <2>1, SameDelivered DEF Held, InHand, Control
  <2>3. Safe = After(file, popKey)
    BY <2>1 DEF Safe, Behind
  <2>4. Safe \subseteq Safe' \union {hand'}
    <3>1. CASE position = popKey
      <4>1. Safe' = After(file, popKey + 1)
        BY <1>0, <2>1, <3>1 DEF Safe, Behind, After
      <4>2. After(file, popKey) = After(file, popKey + 1) \union {file[popKey + 1]}
        BY <1>0, <2>1, <3>1, AfterOne
      <4> QED BY <2>1, <2>3, <3>1, <4>1, <4>2
    <3>2. CASE position = 0 /\ popKey # 0
      <4>1. Safe' = After(file, popKey)
        BY <1>0, <2>1, <3>2 DEF Safe, Behind, After
      <4> QED BY <2>3, <4>1
    <3> QED BY <2>1, <3>1, <3>2 DEF Control
  <2>5. Secure \subseteq Secure'
    BY <2>2, <2>4 DEF Secure
  <2> QED BY <2>1, <2>5, SecureGrows, CostsNothing
<1>3. CASE PopEnd \/ PopReadFault
  <2>1. /\ pc = "read" /\ ReadNothing
        /\ (PopEnd /\ faults' = faults /\ (Usable => position >= Len(file))) \/ Fault("read")
    BY <1>3 DEF PopEnd, PopReadFault
  <2>2. CASE Fault("read")
    BY <1>h, <2>2, CostsOne
  <2>3. CASE faults' = faults /\ (Usable => position >= Len(file))
    <3>1. /\ position = 0 => pc' = "idle" /\ popKey' = popKey
          /\ position # 0 => pc' = "truncate" /\ popKey' = 0
          /\ UNCHANGED <<file, hand, accepted, sent>>
          /\ (Usable' <=> Usable)
      BY <2>1, ReadNothingIs
    <3>2. Delivered' = Delivered /\ Held' = Held
      BY <3>1, SameDelivered DEF Held, InHand
    <3>3. Safe = After(file, popKey)
      BY <2>1 DEF Safe, Behind
    <3>4. Safe \subseteq Safe'
      <4>1. CASE position = 0
        BY <3>1, <3>3, <4>1 DEF Safe, Behind, After
      <4>2. CASE position # 0 /\ Usable
        <5>1. popKey >= Len(file)
          BY <1>0, <2>1, <2>3, <4>2 DEF Control
        <5>2. Safe = {}
          BY <1>0, <3>3, <5>1, AfterEnd
        <5> QED BY <5>2
      <4>3. CASE position # 0 /\ ~Usable
        <5>1. Safe' = After(file, 0)
          BY <3>1, <4>3 DEF Safe, Behind, After
        <5>2. After(file, popKey) \subseteq After(file, 0)
          BY <1>0, AfterLess
        <5> QED BY <3>3, <5>1, <5>2
      <4> QED BY <4>1, <4>2, <4>3
    <3>5. Secure \subseteq Secure'
      BY <3>2, <3>4 DEF Secure
    <3> QED BY <2>3, <3>1, <3>5, SecureGrows, CostsNothing
  <2> QED BY <2>1, <2>2, <2>3
<1>4. CASE PutBack
  <2>1. /\ pc = "putback" /\ pc' = "idle" /\ hand \in Records /\ hand' = Nothing
        /\ UNCHANGED <<popKey, accepted, sent>>
        /\ \/ Usable /\ file' = Append(file, hand) /\ faults' = faults
           \/ Usable /\ file' = file /\ Fault("write")
           \/ ~Usable /\ file' = file /\ faults' = faults
    BY <1>4, PutBackIs
  <2>2. Delivered' = Delivered /\ Held' = {} /\ Held \subseteq {hand}
    BY <2>1, SameDelivered DEF Held, InHand
  <2>3. Safe = After(file, popKey) /\ Safe' = After(file', popKey)
    BY <2>1 DEF Safe, Behind, After
  <2>4. CASE file' = Append(file, hand) /\ faults' = faults
    <3>1. popKey \in 0 .. Len(file)
      BY <1>0
    <3>2. Safe' = Safe \union {hand}
      BY <1>0, <2>1, <2>3, <2>4, <3>1, AfterAppend
    <3>3. Secure \subseteq Secure'
      BY <2>2, <3>2 DEF Secure
    <3> QED BY <2>1, <2>4, <3>3, SecureGrows, CostsNothing
  <2>5. CASE file' = file /\ Fault("write")
    <3>1. Secure \subseteq Secure' \union {hand}
      BY <2>2, <2>3, <2>5 DEF Secure
    <3>2. Missing' \subseteq Missing \union {hand}
      BY <2>1, <3>1, SecureButOne
    <3> QED BY <1>h, <2>5, <3>2, CostsOne
  <2>6. CASE ~Usable /\ file' = file /\ faults' = faults
    <3>1. Held = {}
      BY <2>6 DEF Held
    <3>2. Secure \subseteq Secure'
      BY <2>2, <2>3, <2>6, <3>1 DEF Secure
    <3> QED BY <2>1, <2>6, <3>2, SecureGrows, CostsNothing
  <2> QED BY <2>1, <2>4, <2>5, <2>6
<1>5. CASE PopBegin \/ PopNoCard \/ PublishFailed \/ UNCHANGED vars
  <2>1. /\ UNCHANGED <<file, popKey, card, mount, accepted, sent, faults>>
        /\ (InHand \subseteq InHand')
    BY <1>5 DEF PopBegin, PopNoCard, PublishFailed, cardVars, vars, Control, InHand
  <2>2. Delivered' = Delivered /\ Held \subseteq Held'
    BY <2>1, SameDelivered DEF Held, Usable
  <2>3. Behind' = Behind /\ (pc' = pc \/ (pc # "truncate" /\ pc' # "truncate"))
    BY <1>0, <1>5 DEF PopBegin, PopNoCard, PublishFailed, vars, Behind, Control
  <2>4. Safe' = Safe
    BY <2>1, <2>3 DEF Safe, Usable, After
  <2>5. Secure \subseteq Secure'
    BY <2>2, <2>4 DEF Secure
  <2> QED BY <2>1, <2>5, SecureGrows, CostsNothing
<1>6. CASE PopAdvance
  <2>1. /\ pc = "advance" /\ pc' \in {"idle", "publish"}
        /\ popKey' = IF position > 0 /\ card = "in" THEN position ELSE popKey
        /\ UNCHANGED <<file, card, mount, hand, accepted, sent, faults>>
    BY <1>6 DEF PopAdvance, cardVars
  <2>2. Delivered' = Delivered /\ Held' = Held
    BY <2>1, SameDelivered DEF Held, Usable, InHand
  <2>3. popKey' <= Behind /\ popKey' \in Nat
    BY <1>0, <2>1 DEF Behind
  <2>4. Safe = After(file, Behind) /\ Safe' = After(file, popKey')
    BY <2>1 DEF Safe, Behind, After
  <2>5. Safe \subseteq Safe'
    BY <1>0, <1>b, <2>3, <2>4, AfterLess
  <2>6. Secure \subseteq Secure'
    BY <2>2, <2>5 DEF Secure
  <2> QED BY <2>1, <2>6, SecureGrows, CostsNothing
<1>7. CASE PopTruncate
  <2>1. /\ pc = "truncate" /\ pc' = "idle"
        /\ UNCHANGED <<popKey, card, hand, accepted, sent, faults>>
        /\ MountOnUse /\ file' = IF Usable THEN <<>> ELSE file
    BY <1>7 DEF PopTruncate
  <2>2. Delivered' = Delivered /\ Held' = Held
    BY <2>1, MountIs, SameDelivered DEF Held, InHand
  <2>3. Safe \subseteq Safe'
    BY <2>1 DEF Safe, Behind, After
  <2>4. Secure \subseteq Secure'
    BY <2>2, <2>3 DEF Secure
  <2> QED BY <2>1, <2>4, SecureGrows, CostsNothing
<1>8. CASE PublishDone
  <2>1. /\ Delivered' = Delivered \union {hand}
        /\ pc = "publish" /\ pc' = "idle"
        /\ UNCHANGED <<file, popKey, accepted, faults>>
    BY <1>8, DeliveredIs
  <2>2. Safe' = Safe /\ Held \subseteq {hand}
    BY <2>1 DEF Safe, Behind, Held, InHand, After
  <2>3. Secure \subseteq Secure'
    BY <2>1, <2>2 DEF Secure
  <2> QED BY <2>1, <2>3, SecureGrows, CostsNothing
<1>9. CASE PowerCut
  <2>1. /\ pc' = "idle" /\ UNCHANGED <<file, popKey, accepted, sent>>
        /\ Fault(IF pc = "truncate" THEN "torn" ELSE "cut")
    BY <1>9 DEF PowerCut
  <2>2. Delivered' = Delivered /\ Held \subseteq {hand}
    BY <2>1, SameDelivered DEF Held, InHand
  <2>3. Safe' = After(file, popKey)
    BY <2>1 DEF Safe, Behind, After
  <2>4. Safe \subseteq Safe'
    BY <1>0, <1>b, <2>3, AfterLess DEF Safe
  <2>5. Secure \subseteq Secure' \union {hand}
    BY <2>2, <2>4 DEF Secure
  <2>6. Missing' \subseteq Missing \union {hand}
    BY <2>1, <2>5, SecureButOne
  <2> QED BY <1>h, <2>1, <2>6, CostsOne
<1>10. CASE Eject
  <2>1. /\ card' = "out" /\ Fault("eject")
        /\ UNCHANGED <<file, popKey, pc, position, hand, accepted, sent>>
    BY <1>10 DEF Eject, popVars
  <2>2. Delivered' = Delivered /\ Held \subseteq {hand} /\ ~Usable'
    BY <2>1, SameDelivered DEF Held, InHand, Usable
  <2>3. Safe' = After(file, Behind)
    BY <2>1, <2>2 DEF Safe, Behind, After
  <2>4. Safe \subseteq Safe'
    BY <2>3 DEF Safe
  <2>5. Secure \subseteq Secure' \union {hand}
    BY <2>2, <2>4 DEF Secure
  <2>6. Missing' \subseteq Missing \union {hand}
    BY <2>1, <2>5, SecureButOne
  <2> QED BY <1>h, <2>1, <2>6, CostsOne
<1>11. CASE Insert
  <2>1. /\ card = "out"
        /\ UNCHANGED <<file, popKey, mount, pc, position, hand, accepted, sent, faults>>
    BY <1>11 DEF Insert, popVars
  <2>2. Delivered' = Delivered /\ ~Usable /\ Held = {}
    BY <2>1, SameDelivered DEF Usable, Held
  <2>3. pc = "truncate" => ~Usable'
    BY <2>1 DEF Control, Sessions, TypeOK, Usable
  <2>4. Safe' = Safe
    BY <2>1, <2>2, <2>3 DEF Safe, Behind, After
  <2>5. Secure \subseteq Secure'
    BY <2>2, <2>4 DEF Secure
  <2> QED BY <2>1, <2>5, SecureGrows, CostsNothing
<1> QED
  BY <1>1, <1>2, <1>3, <1>4, <1>5, <1>6, <1>7, <1>8, <1>9, <1>10, <1>11
  DEF Next, PopStep, Hardware

-----------------------------------------------------------------------------
(* The theorems *)

LEMMA IInvInit == Init => IInv
<1> SUFFICES ASSUME Init
             PROVE  IInv
  OBVIOUS
<1> USE DEF Init
<1>1. TypeOK
  <2>1. 0 \in Nat /\ 0 \in 0 .. MaxRecords /\ 0 \in 0 .. 2 /\ <<>> \in Seq(Records)
    BY StoreAssumption
  <2> QED BY <2>1 DEF TypeOK
<1>2. Delivered = {} /\ InHand = {} /\ Len(file) = 0 /\ TotalFaults = 0
  BY DEF Delivered, InHand, TotalFaults, FaultKinds
<1>3. After(file, popKey) = {}
  BY AfterNothing
<1>4. Control
  BY <1>2 DEF Control, PositionInFile
<1>5. Sessions
  BY DEF Sessions
<1>6. Known
  <2>1. 1 .. Len(file) = {}
    BY <1>2
  <2> QED BY <1>2, <2>1 DEF Known
<1>7. OnePlace
  <2>1. popKey + 1 .. Len(file) = {}
    BY <1>2
  <2> QED BY <1>2, <1>3, <2>1 DEF OnePlace
<1>8. MissingBounded
  <2>1. Missing = {}
    BY DEF Missing
  <2> QED BY <1>2, <2>1, FS_EmptySet DEF MissingBounded
<1> QED BY <1>1, <1>4, <1>5, <1>6, <1>7, <1>8 DEF IInv

LEMMA IInvNext == IInv /\ [Next]_vars => IInv'
BY TypeKeeps, ControlKeeps, SessionsKeep, KnownKeeps, OnePlaceKeeps, MissingKeeps DEF IInv

\* Through any sequence of calls, faults and changes of the card, what the proofs
\* below rest on holds: what pop knows at each step, where a record is, and what
\* the faults so far have cost or will have cost.
THEOREM Inductive == Spec => []IInv
<1>1. Init => IInv
  BY IInvInit
<1>2. IInv /\ [Next]_vars => IInv'
  BY IInvNext
<1> QED BY <1>1, <1>2, PTL DEF Spec

\* Every line of the file is a record, the position is a number, and only a
\* record is handed to the network and put back.
THEOREM TypeCorrect == Spec => []TypeOK
<1>1. IInv => TypeOK
  BY DEF IInv
<1> QED BY <1>1, Inductive, PTL

\* The position popOfflineCollection persists never points past the end of the
\* file; a cut, a pulled card or a failing write costs at most the one record that
\* is between file and network, however they follow each other; and only a cut
\* between the two writes of resetStorageFile makes the store repeat itself.
THEOREM FaultsAlwaysContained == Spec => []FaultsAreContained
<1>1. IInv => FaultsAreContained
  <2> SUFFICES ASSUME IInv
               PROVE  FaultsAreContained
    OBVIOUS
  <2> USE DEF IInv
  <2>0. file \in Seq(Records) /\ popKey \in Nat /\ position \in Nat
    BY DEF TypeOK
  <2>1. PositionInFile
    BY DEF Control
  <2>2. FaultLosesAtMostOne
    <3>1. Behind \in Nat /\ popKey <= Behind
      BY <2>0 DEF Behind
    <3>2. Safe \subseteq Unread
      BY <2>0, <3>1, UnreadIs, AfterLess DEF Safe
    <3>3. Held \subseteq InHand
      BY DEF Held
    <3>4. Lost \in SUBSET Missing
      BY <3>2, <3>3 DEF Lost, Missing, Waiting
    <3>5. IsFiniteSet(Missing) /\ Cardinality(Missing) \in Nat /\ TotalFaults \in Nat
      BY MissingFinite, Counts
    <3>6. Cardinality(Lost) <= Cardinality(Missing) /\ Cardinality(Lost) \in Nat
      BY <3>4, <3>5, FS_Subset, FS_CardinalityType
    <3>7. faults["read"] = 0 => Cardinality(Missing) <= TotalFaults
      BY DEF MissingBounded
    <3> QED BY <3>5, <3>6, <3>7 DEF FaultLosesAtMostOne
  <2>3. DeliveredIsBehind
    <3> SUFFICES ASSUME AllCuts
                 PROVE  Delivered \intersect Waiting = {}
      BY DEF DeliveredIsBehind, AllCuts
    <3>1. /\ card = "in" /\ mount = "live"
          /\ pc # "truncate" => After(file, popKey) \intersect Delivered = {}
          /\ InHand \intersect Delivered = {}
      BY DEF OnePlace
    <3>2. Unread \intersect Delivered = {}
      BY <3>1, UnreadIs DEF Usable
    <3> QED BY <3>1, <3>2 DEF Waiting
  <2> QED BY <2>1, <2>2, <2>3 DEF FaultsAreContained
<1> QED BY <1>1, Inductive, PTL

-----------------------------------------------------------------------------
(* The queue *)

QueueStep == Queue!Next \/ (Waiting' = Waiting /\ Delivered' = Delivered)

\* A step of the store without a fault is a step of the queue or none: a push
\* that is accepted adds a record nobody has seen, a publication takes the one in
\* hand away, and reading, advancing, putting back and resetting move a record
\* from one place to another.
LEMMA StepsOfQueue == IInv /\ [Next]_vars /\ TotalFaults' = 0 => QueueStep
<1> SUFFICES ASSUME IInv, [Next]_vars, TotalFaults' = 0
             PROVE  QueueStep
  OBVIOUS
<1> USE DEF IInv
<1>0. /\ file \in Seq(Records) /\ Len(file) \in Nat /\ popKey \in Nat /\ position \in Nat
      /\ Nothing \notin Records /\ popKey <= Len(file) /\ popKey \in 0 .. Len(file)
  BY LengthIs, StoreAssumption DEF TypeOK, Control, PositionInFile, Records
<1>f. \A k \in FaultKinds : ~Fault(k)
  BY FaultIs, Counts
<1>h. "write" \in FaultKinds /\ "read" \in FaultKinds /\ "eject" \in FaultKinds
      /\ "torn" \in FaultKinds /\ "cut" \in FaultKinds
  BY DEF FaultKinds
<1>g. faults' = faults =>
         /\ card = "in" /\ mount = "live" /\ Usable
         /\ pc = "read" => position = popKey
         /\ pc = "advance" => position = popKey + 1 /\ hand # Nothing
         /\ pc # "truncate" => Fresh
         /\ InHand \intersect Delivered = {}
         /\ pc \in {"publish", "putback"} => hand \notin After(file, popKey)
  <2>1. ASSUME faults' = faults PROVE AllCuts
    <3>1. TotalFaults = 0
      BY <2>1, SameFaults
    <3> QED BY <3>1, Counts DEF AllCuts, FaultKinds
  <2> QED BY <2>1, OnePlaceIs DEF Usable
<1>1. ASSUME NEW ok \in BOOLEAN, Push(ok)
      PROVE  QueueStep
  <2>1. /\ pc = "idle" /\ UNCHANGED <<popKey, card, pc, position, hand, sent>>
        /\ offered + 1 \in Records /\ (Usable' <=> Usable)
        /\ \/ file' = Append(file, offered + 1) /\ faults' = faults
           \/ Fault("write")
           \/ ~Usable /\ faults' = faults
    BY <1>1, PushIs
  <2>2. Usable /\ file' = Append(file, offered + 1)
    BY <1>f, <1>g, <1>h, <2>1
  <2>3. Unread = After(file, popKey) /\ Unread' = After(file', popKey)
    BY <2>1, UnreadIs DEF Unread, After
  <2>4. Unread' = Unread \union {offered + 1}
    BY <1>0, <2>1, <2>2, <2>3, AfterAppend
  <2>5. Waiting' = Waiting \union {offered + 1} /\ Delivered' = Delivered
    BY <2>1, <2>4, SameDelivered DEF Waiting, InHand
  <2>6. offered + 1 \notin Delivered /\ offered + 1 \notin InHand
    BY DEF Known, TypeOK
  <2>7. offered + 1 \notin After(file, popKey)
    <3> SUFFICES ASSUME NEW i \in popKey + 1 .. Len(file), offered + 1 = file[i]
                 PROVE  FALSE
      BY DEF After
    <3>1. i \in 1 .. Len(file)
      BY <1>0
    <3> QED BY <3>1 DEF Known, TypeOK
  <2>8. Queue!Accept(offered + 1)
    BY <2>1, <2>3, <2>5, <2>6, <2>7 DEF Queue!Accept, Waiting
  <2> QED BY <2>1, <2>8 DEF QueueStep, Queue!Next
<1>2. CASE PopLine
  <2>1. /\ pc = "read" /\ position < Len(file) /\ pc' = "advance"
        /\ hand' = file[position + 1] /\ hand' \in Records
        /\ UNCHANGED <<file, popKey, sent, faults>>
    BY <1>2, PopLineIs
  <2>2. Unread = After(file, popKey) /\ Unread' = After(file, popKey) /\ InHand = {}
    BY <2>1, UnreadIs DEF Unread, After, InHand, Control
  <2>3. InHand' = {hand'}
    BY <1>0, <2>1 DEF InHand
  <2>4. hand' \in After(file, popKey)
    <3>1. position + 1 = popKey + 1 /\ popKey + 1 \in popKey + 1 .. Len(file)
      BY <1>0, <1>g, <2>1
    <3> QED BY <2>1, <3>1 DEF After
  <2> QED BY <2>1, <2>2, <2>3, <2>4, SameDelivered DEF QueueStep, Waiting
<1>3. CASE PopEnd \/ PopReadFault
  <2>1. /\ pc = "read" /\ ReadNothing /\ faults' = faults
        /\ (Usable => position >= Len(file))
    BY <1>3, <1>f, <1>h DEF PopEnd, PopReadFault
  <2>2. UNCHANGED <<file, hand, sent>> /\ (Usable' <=> Usable)
        /\ \/ pc' = "idle" /\ popKey' = popKey
           \/ pc' = "truncate"
    BY <2>1, ReadNothingIs
  <2>3. popKey >= Len(file) /\ Usable
    BY <1>0, <1>g, <2>1
  <2>4. After(file, popKey) = {}
    BY <1>0, <2>3, AfterEnd
  <2>5. Unread = {} /\ Unread' = {}
    <3>1. pc' = "idle" /\ popKey' = popKey => Unread' = After(file, popKey)
      BY <2>2 DEF Unread, After
    <3>2. pc' = "truncate" => Unread' = {}
      BY <2>2, <2>3 DEF Unread
    <3> QED BY <2>1, <2>2, <2>4, <3>1, <3>2, UnreadIs
  <2> QED BY <2>2, <2>5, SameDelivered DEF QueueStep, Waiting, InHand
<1>4. CASE PutBack
  <2>1. /\ pc = "putback" /\ pc' = "idle" /\ hand \in Records /\ hand' = Nothing
        /\ UNCHANGED <<popKey, sent>>
        /\ \/ file' = Append(file, hand) /\ faults' = faults
           \/ Fault("write")
           \/ ~Usable /\ faults' = faults
    BY <1>4, PutBackIs
  <2>2. file' = Append(file, hand)
    BY <1>f, <1>g, <1>h, <2>1
  <2>3. Unread = After(file, popKey) /\ Unread' = After(file', popKey)
    BY <2>1, UnreadIs DEF Unread, After
  <2>4. Unread' = Unread \union {hand}
    BY <1>0, <2>1, <2>2, <2>3, AfterAppend
  <2>5. InHand = {hand} /\ InHand' = {}
    BY <1>0, <2>1 DEF InHand
  <2> QED BY <2>1, <2>4, <2>5, SameDelivered DEF QueueStep, Waiting
<1>5. CASE PopBegin \/ PopNoCard \/ PublishFailed \/ UNCHANGED vars
  <2>1. UNCHANGED <<file, popKey, card, mount, sent>> /\ InHand' = InHand
    BY <1>5 DEF PopBegin, PopNoCard, PublishFailed, cardVars, vars, Control, InHand
  <2>2. pc' = pc \/ (pc # "truncate" /\ pc' # "truncate")
    BY <1>5 DEF PopBegin, PopNoCard, PublishFailed, vars
  <2>3. Unread' = Unread
    BY <2>1, <2>2 DEF Unread, Usable
  <2> QED BY <2>1, <2>3, SameDelivered DEF QueueStep, Waiting
<1>6. CASE PopAdvance
  <2>1. /\ pc = "advance" /\ UNCHANGED <<file, card, mount, hand, sent, faults>>
        /\ popKey' = IF position > 0 /\ card = "in" THEN position ELSE popKey
        /\ pc' = IF hand = Nothing THEN "idle" ELSE "publish"
    BY <1>6 DEF PopAdvance, cardVars
  <2>2. position = popKey + 1 /\ hand # Nothing /\ Fresh /\ card = "in"
    BY <1>g, <2>1
  <2>3. popKey' = popKey + 1 /\ hand = file[popKey + 1] /\ popKey < Len(file)
    BY <1>0, <2>1, <2>2 DEF Control
  <2>4. After(file, popKey) = After(file, popKey)' \union {hand}
    BY <2>1, <2>2, <2>3, FreshAdvance
  <2>5. Unread = After(file, popKey) /\ Unread' = After(file, popKey)'
    BY <2>1, <2>2, UnreadIs DEF Unread, After
  <2>6. InHand = {hand} /\ InHand' = {hand}
    BY <2>1, <2>2 DEF InHand
  <2> QED BY <2>1, <2>4, <2>5, <2>6, SameDelivered DEF QueueStep, Waiting
<1>7. CASE PopTruncate
  <2>1. /\ pc = "truncate" /\ pc' = "idle" /\ UNCHANGED <<popKey, hand, sent, faults>>
        /\ file' = IF Usable THEN <<>> ELSE file
    BY <1>7 DEF PopTruncate
  <2>2. Usable /\ file' = <<>> /\ popKey' = 0
    BY <1>g, <2>1 DEF Control
  <2>3. Unread = {} /\ Unread' = After(<<>>, 0)
    BY <2>1, <2>2 DEF Unread, After
  <2> QED BY <2>1, <2>3, AfterNothing, SameDelivered DEF QueueStep, Waiting, InHand
<1>8. CASE PublishDone
  <2>1. /\ Delivered' = Delivered \union {hand} /\ hand # Nothing /\ hand \in Records
        /\ pc = "publish" /\ pc' = "idle" /\ hand' = Nothing
        /\ UNCHANGED <<file, popKey, faults>>
    BY <1>8, DeliveredIs
  <2>2. hand \notin After(file, popKey)
    BY <1>g, <2>1
  <2>3. Unread = After(file, popKey) /\ Unread' = After(file, popKey)
    BY <2>1, UnreadIs DEF Unread, After
  <2>4. InHand = {hand} /\ InHand' = {}
    BY <2>1 DEF InHand
  <2>5. Queue!Deliver(hand)
    BY <2>1, <2>2, <2>3, <2>4 DEF Queue!Deliver, Waiting
  <2> QED BY <2>1, <2>5 DEF QueueStep, Queue!Next
<1>9. CASE PowerCut \/ Eject
  BY <1>9, <1>f, <1>h DEF PowerCut, Eject
<1>10. CASE Insert
  BY <1>10, <1>g DEF Insert
<1> QED
  BY <1>1, <1>2, <1>3, <1>4, <1>5, <1>6, <1>7, <1>8, <1>9, <1>10 DEF Next, PopStep, Hardware

\* As long as no fault occurs the file, the position and the record in hand are a
\* queue: what push accepted waits until it is delivered, and is delivered once.
THEOREM StoreImplementsQueue == Spec => WorksLikeQueue
<1>1. IInv /\ [Next]_vars => [TotalFaults' = 0 => Queue!Next]_<<Waiting, Delivered>>
  BY StepsOfQueue DEF QueueStep
<1> QED BY <1>1, Inductive, PTL DEF Spec, WorksLikeQueue

\* So a store whose card and supply never fail is an OfflineQueue, from its first
\* state on (push, popOfflineCollection, addBackOntoStore, resetStorageFile).
THEOREM FaultlessStoreIsQueue == Spec /\ [](TotalFaults = 0) => Queue!Spec
<1>1. Init => Queue!Init
  <2> SUFFICES ASSUME Init
               PROVE  Queue!Init
    OBVIOUS
  <2>1. file = <<>> /\ popKey = 0 /\ hand = Nothing /\ sent = [r \in Records |-> 0]
    BY DEF Init
  <2>2. Waiting = {}
    <3>1. 1 .. Len(file) = {}
      BY <2>1
    <3>2. Unread = {}
      BY <2>1, <3>1 DEF Unread
    <3> QED BY <2>1, <3>2 DEF Waiting, InHand
  <2>3. Delivered = {}
    BY <2>1 DEF Delivered
  <2> QED BY <2>2, <2>3 DEF Queue!Init
<1>2. TotalFaults' = 0 /\ [TotalFaults' = 0 => Queue!Next]_<<Waiting, Delivered>>
      => [Queue!Next]_<<Waiting, Delivered>>
  OBVIOUS
<1>3. (TotalFaults = 0)' => TotalFaults' = 0
  OBVIOUS
<1> QED
  BY <1>1, <1>2, <1>3, StoreImplementsQueue, PTL DEF Spec, WorksLikeQueue, Queue!Spec
=============================================================================
