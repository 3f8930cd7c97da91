------------------------ MODULE DeviceRegistry_proofs ------------------------
(***************************************************************************)
(* What DeviceRegistry states of its table and its slots, proved for every *)
(* number of slots, every set of devices and every kind limit.             *)
(***************************************************************************)
EXTENDS DeviceRegistry, FiniteSetTheorems, TLAPS

(* The inductive invariant, by named parts. *)

\* Where the loop indices are; start-up never gets ahead of the slots it reads.
Control ==
  /\ mode = "off" => count = 0
  /\ mode = "strap" => count <= cursor
  /\ mode \in {"move", "vacate"} => 1 <= cursor /\ cursor < count /\ victim \in Devices

\* What the slots hold in total.
Contents ==
  /\ damage \in {"none", "torn"} => Stored = wanted
  /\ damage = "torn" => mode \in {"off", "strap", "up"}
  /\ mode = "vacate" => victim \notin wanted

Occupied(i) == slot[i] # NoName

\* Which slots are occupied while nothing is torn: a prefix, except below the
\* cursor of a removal that has begun to write.
Shape ==
  damage = "none" =>
    /\ mode \in {"off", "strap"} =>
         \A i, j \in Index : i < j /\ Occupied(j) => Occupied(i)
    /\ mode = "strap" =>
         \A i \in Index : /\ i < count => Occupied(i)
                          /\ i < cursor /\ Occupied(i) => i < count
    /\ mode \in {"up", "vacate"} => \A i \in Index : Occupied(i) <=> i < count
    /\ mode = "move" =>
         \A i \in Index :
           Occupied(i) <=> i < count /\ (victim \in wanted \/ i # cursor - 1)

\* No device is stored twice, except the one a removal is moving.
Unique ==
  damage = "none" =>
    /\ \A i, j \in Index :
         Occupied(i) /\ slot[i] = slot[j] =>
           i = j \/ (mode = "vacate" /\ i \in {cursor - 1, cursor} /\ j \in {cursor - 1, cursor})
    /\ mode = "move" /\ victim \in wanted => slot[cursor - 1] = victim
    /\ mode = "vacate" => slot[cursor] = slot[cursor - 1]

\* The table in RAM follows the slots.
Mirror ==
  damage = "none" =>
    /\ mode # "off" => name = slot
    /\ mode \in {"strap", "up", "move", "vacate"} =>
         \A i \in Index :
           /\ i < count
           /\ mode = "move" /\ victim \notin wanted => i # cursor - 1
           /\ mode = "vacate" => i # cursor
           => object[i] = slot[i]

\* Start-up builds exactly what it has read, also from a torn table.
Strapped ==
  /\ mode = "strap" =>
       /\ \A i \in Index : i >= cursor => name[i] = slot[i]
       /\ Active = {slot[i] : i \in 0 .. cursor - 1} \ {NoName}
  /\ mode = "up" /\ damage \in {"none", "torn"} => Active = Stored

\* After an empty removal the slots are those of a table at rest, so that the
\* next start-up finds every device.
Emptied ==
  damage = "emptied" =>
    /\ mode = "up"
    /\ name = slot
    /\ Stored = wanted
    /\ \A i, j \in Index : i < j /\ Occupied(j) => Occupied(i)
    /\ \A i, j \in Index : Occupied(i) /\ slot[i] = slot[j] => i = j

IInv ==
  TypeOK /\ Control /\ Contents /\ Shape /\ Unique /\ Mirror /\ Strapped /\ Emptied

-----------------------------------------------------------------------------
(* Type correctness *)

TypeInv == TypeOK /\ Control

\* What the assumption says of the indices.
LEMMA IndexRange ==
  /\ Index \subseteq Int
  /\ \A i \in Int : i \in Index <=> 0 <= i /\ i < MaxDevices
  /\ 0 \in Index
  /\ MaxDevices \in Nat
BY RegistryAssumption DEF Index

\* The starting state has the types.
LEMMA TypeInit == Init => TypeInv
BY RegistryAssumption DEF Init, TypeInv, TypeOK, Control, Blank, Names, Modes, Damages

\* Every step keeps the types and the loop indices in range; the one that has
\* no guard of its own, StrapNext, writes at the count, which Control keeps at
\* or below the cursor.
LEMMA TypeNext == TypeInv /\ [Next]_vars => TypeInv'
<1> SUFFICES ASSUME TypeInv, [Next]_vars
             PROVE  TypeInv'
  OBVIOUS
<1> USE RegistryAssumption, IndexRange
    DEF TypeInv, TypeOK, Control, Names, Modes, Damages, Recounted
<1>1. CASE PowerCut
  BY <1>1 DEF PowerCut, Blank
<1>2. CASE StrapBegin
  BY <1>2 DEF StrapBegin, history
<1>3. CASE StrapNext
  <2>1. CASE name[cursor] = NoName
    BY <1>3, <2>1 DEF StrapNext, ram, history
  <2>2. CASE name[cursor] # NoName
    <3>1. count \in Index /\ cursor \in Index
      BY <1>3 DEF StrapNext
    <3>2. name[cursor] \in Devices
      BY <2>2, <3>1
    <3> QED BY <1>3, <2>2, <3>1, <3>2 DEF StrapNext, Apply, history
  <2> QED BY <2>1, <2>2
<1>4. CASE StrapEnd
  BY <1>4 DEF StrapEnd, ram, history
<1>5. ASSUME NEW v \in Devices, AddDevice(v)
      PROVE  TypeInv'
  BY <1>5 DEF AddDevice, Apply, Touch
<1>6. ASSUME NEW v \in Devices, RemoveLast(v)
      PROVE  TypeInv'
  BY <1>6 DEF RemoveLast, Touch
<1>7. ASSUME NEW v \in Devices, RemoveBegin(v)
      PROVE  TypeInv'
  BY <1>7 DEF RemoveBegin, Touch, ram
<1>8. ASSUME NEW v \in Names, RemoveFault(v)
      PROVE  TypeInv'
  BY <1>8 DEF RemoveFault, Blank
<1>9. CASE ShiftMove
  <2>1. cursor \in Index /\ cursor - 1 \in Index
    BY <1>9 DEF ShiftMove
  <2> QED BY <1>9, <2>1 DEF ShiftMove
<1>10. CASE ShiftVacate
  BY <1>10 DEF ShiftVacate
<1>11. CASE ClearAllDevices
  BY <1>11 DEF ClearAllDevices, Blank
<1>12. CASE RemoveEmpty
  BY <1>12 DEF RemoveEmpty, Miscounted
<1>13. CASE UNCHANGED vars
  BY <1>13 DEF vars
<1> QED
  BY <1>1, <1>2, <1>3, <1>4, <1>5, <1>6, <1>7, <1>8, <1>9, <1>10, <1>11, <1>12,
     <1>13
  DEF Next

\* The table is never indexed outside MAX_DEVICES and its count stays within it.
THEOREM TypeCorrect == Spec => []TypeOK
<1>1. TypeInv => TypeOK
  BY DEF TypeInv
<1> QED
  BY <1>1, TypeInit, TypeNext, PTL DEF Spec

-----------------------------------------------------------------------------
(* Table and slots *)

\* Membership in Stored, and what one write to a slot does to it.
LEMMA StoredMember ==
  \A x : x \in Stored <=> x # NoName /\ \E i \in Index : slot[i] = x
BY DEF Stored

\* The first start-up, with no device stored, satisfies the strengthening.
LEMMA IndInit == Init => IInv
<1> SUFFICES ASSUME Init
             PROVE  IInv
  OBVIOUS
<1>1. TypeInv
  BY TypeInit
<1>2. Stored = {}
  BY RegistryAssumption DEF Init, Stored, Blank
<1> QED
  BY <1>1, <1>2
  DEF Init, IInv, TypeInv, Contents, Shape, Unique, Mirror, Strapped, Emptied,
      Occupied, Blank

\* Power is lost: the slots stay as they are, and their shape is that of a
\* table at rest unless the cut tears it.
LEMMA IndPowerCut == IInv /\ PowerCut => IInv'
<1> SUFFICES ASSUME IInv, PowerCut
             PROVE  IInv'
  OBVIOUS
<1> USE RegistryAssumption, IndexRange
<1>1. TypeInv'
  BY TypeNext DEF IInv, TypeInv, Next
<1>2. Stored' = Stored
  BY DEF PowerCut, Stored
<1>3. Contents'
  BY <1>2 DEF IInv, Contents, Emptied, PowerCut, Recounted
<1>4. damage = "emptied" => Shape' /\ Unique'
  BY DEF IInv, Emptied, PowerCut, Shape, Unique, Occupied
<1>5. Shape' /\ Unique'
  <2> SUFFICES ASSUME damage' = "none", damage = "none"
               PROVE  Shape' /\ Unique'
    BY <1>4 DEF PowerCut, Recounted, Shape, Unique
  <2>1. ~(mode \in {"move", "vacate"} /\ victim \notin wanted)
    BY DEF PowerCut
  <2>2. mode # "vacate"
    BY <2>1 DEF IInv, Contents
  <2>3. \A i, j \in Index : i < j /\ Occupied(j) => Occupied(i)
    BY <2>1, <2>2 DEF IInv, TypeOK, Modes, Shape
  <2> QED
    BY <2>1, <2>2, <2>3 DEF IInv, PowerCut, Shape, Unique, Occupied
<1>6. Mirror' /\ Strapped' /\ Emptied'
  BY DEF PowerCut, Recounted, Mirror, Strapped, Emptied
<1> QED
  BY <1>1, <1>3, <1>5, <1>6 DEF IInv, TypeInv

\* Start-up reads what the slots hold.
LEMMA IndStrapBegin == IInv /\ StrapBegin => IInv'
<1> SUFFICES ASSUME IInv, StrapBegin
             PROVE  IInv'
  OBVIOUS
<1> USE RegistryAssumption, IndexRange
<1>1. TypeInv'
  BY TypeNext DEF IInv, TypeInv, Next
<1>2. Stored' = Stored
  BY DEF StrapBegin, Stored
<1>3. Contents'
  BY <1>2 DEF IInv, Contents, StrapBegin, history
<1>4. Shape' /\ Unique' /\ Mirror'
  BY DEF IInv, TypeOK, Control, StrapBegin, history, Shape, Unique, Mirror, Occupied
<1>5. Strapped'
  <2>1. count' = 0 /\ cursor' = 0 /\ mode' = "strap" /\ name' = slot'
    BY DEF IInv, Control, StrapBegin
  <2>2. Active' = {}
    BY <2>1 DEF Active
  <2> QED BY <2>1, <2>2 DEF Strapped
<1>6. Emptied'
  BY DEF IInv, Emptied, StrapBegin, history
<1> QED
  BY <1>1, <1>3, <1>4, <1>5, <1>6 DEF IInv, TypeInv

\* Start-up builds the next device where the table is dense, and changes no
\* name that it has not read yet where the table is torn.
LEMMA IndStrapNext == IInv /\ StrapNext => IInv'
<1> SUFFICES ASSUME IInv, StrapNext
             PROVE  IInv'
  OBVIOUS
<1> USE RegistryAssumption, IndexRange
<1>1. TypeInv'
  BY TypeNext DEF IInv, TypeInv, Next
<1>2. Stored' = Stored /\ slot' = slot /\ mode = "strap" /\ mode' = "strap"
  BY DEF StrapNext, Stored, history
<1>3. Contents'
  BY <1>2 DEF IInv, Contents, StrapNext, history
<1>4. cursor \in Index /\ cursor' = cursor + 1 /\ name[cursor] = slot[cursor]
  BY DEF IInv, TypeOK, StrapNext, Strapped
<1>5. count \in 0 .. cursor
  BY DEF IInv, TypeOK, Control, StrapNext
<1>6. Emptied'
  BY <1>2 DEF IInv, Emptied, StrapNext, history
<1>7. CASE name[cursor] = NoName
  <2>1. UNCHANGED ram /\ ~Occupied(cursor)
    BY <1>4, <1>7 DEF StrapNext, Occupied
  <2>2. Shape' /\ Unique' /\ Mirror'
    BY <1>2, <1>4, <1>5, <2>1
    DEF IInv, Shape, Unique, Mirror, StrapNext, ram, history, Occupied
  <2>3. Active' = Active
    BY <2>1 DEF ram, Active
  <2>4. {slot[i] : i \in 0 .. cursor' - 1} \ {NoName}
          = {slot[i] : i \in 0 .. cursor - 1} \ {NoName}
    <3>1. 0 .. cursor' - 1 = (0 .. cursor - 1) \union {cursor}
      <4>1. cursor \in Nat
        BY <1>4 DEF Index
      <4>2. cursor' - 1 = cursor
        BY <1>4, <4>1
      <4> QED BY <4>1, <4>2
    <3>2. slot[cursor] = NoName
      BY <1>4, <1>7
    <3> QED BY <3>1, <3>2
  <2>5. Strapped'
    <3>1. Active' = {slot'[i] : i \in 0 .. cursor' - 1} \ {NoName}
      BY <1>2, <2>3, <2>4 DEF IInv, Strapped
    <3>2. \A i \in Index : i >= cursor' => name'[i] = slot'[i]
      BY <1>2, <1>4, <2>1 DEF IInv, Strapped, ram
    <3> QED BY <1>2, <3>1, <3>2 DEF Strapped
  <2> QED BY <1>1, <1>3, <1>6, <2>2, <2>5 DEF IInv, TypeInv
<1>8. CASE name[cursor] # NoName
  <2>1. /\ object' = [object EXCEPT ![count] = slot[cursor]]
        /\ name' = [name EXCEPT ![count] = slot[cursor]]
        /\ count' = count + 1
        /\ slot[cursor] # NoName
        /\ UNCHANGED <<victim, wanted, damage>>
    BY <1>4, <1>8 DEF StrapNext, Apply, history
  <2>2. count \in Index
    BY <1>4, <1>5
  <2>3. damage = "none" => count = cursor
    <3> SUFFICES ASSUME damage = "none", count # cursor
                 PROVE  FALSE
      OBVIOUS
    <3>1. Occupied(count)
      BY <1>2, <1>4, <1>5, <2>1, <2>2 DEF IInv, Shape, Occupied
    <3>2. count < cursor
      BY <1>4, <1>5
    <3> QED BY <1>2, <2>2, <3>1, <3>2 DEF IInv, Shape
  <2>4. Shape' /\ Unique'
    <3> SUFFICES ASSUME damage = "none"
                 PROVE  Shape' /\ Unique'
      BY <2>1 DEF Shape, Unique
    <3>1. \A i \in Index : Occupied(i)' <=> Occupied(i)
      BY <1>2 DEF Occupied
    <3>2. count = cursor /\ cursor \in Int /\ Occupied(cursor)
      BY <1>4, <1>5, <2>1, <2>3 DEF Occupied
    <3>3. Shape'
      BY <1>2, <1>4, <2>1, <3>1, <3>2 DEF IInv, Shape
    <3>4. Unique'
      BY <1>2, <2>1, <3>1 DEF IInv, Unique
    <3> QED BY <3>3, <3>4
  <2>5. Mirror'
    <3> SUFFICES ASSUME damage = "none"
                 PROVE  Mirror'
      BY <2>1 DEF Mirror
    <3>1. name' = slot'
      BY <1>2, <1>4, <2>1, <2>3 DEF IInv, TypeOK, Mirror
    <3>2. \A i \in Index : i < count' => object'[i] = slot'[i]
      BY <1>2, <1>4, <1>5, <2>1, <2>3 DEF IInv, TypeOK, Mirror
    <3> QED BY <1>2, <3>1, <3>2 DEF Mirror
  <2>6. Strapped'
    <3>1. \A i \in Index : i >= cursor' => name'[i] = slot'[i]
      BY <1>2, <1>4, <1>5, <2>1, <2>2 DEF IInv, TypeOK, Strapped
    <3>2. Active' = Active \union {slot[cursor]}
      BY <1>5, <2>1, <2>2 DEF IInv, TypeOK, Active
    <3>3. {slot[i] : i \in 0 .. cursor' - 1} \ {NoName}
            = ({slot[i] : i \in 0 .. cursor - 1} \ {NoName}) \union {slot[cursor]}
      <4>1. 0 .. cursor' - 1 = (0 .. cursor - 1) \union {cursor}
        BY <1>4, <1>5
      <4> QED BY <2>1, <4>1
    <3>4. Active = {slot[i] : i \in 0 .. cursor - 1} \ {NoName}
      BY <1>2 DEF IInv, Strapped
    <3>5. Active' = {slot'[i] : i \in 0 .. cursor' - 1} \ {NoName}
      BY <1>2, <3>2, <3>3, <3>4
    <3> HIDE DEF Active
    <3> QED BY <1>2, <3>1, <3>5 DEF Strapped
  <2> QED BY <1>1, <1>3, <1>6, <2>4, <2>5, <2>6 DEF IInv, TypeInv
<1> QED
  BY <1>7, <1>8

\* Start-up ends with all slots read.
LEMMA IndStrapEnd == IInv /\ StrapEnd => IInv'
<1> SUFFICES ASSUME IInv, StrapEnd
             PROVE  IInv'
  OBVIOUS
<1> USE RegistryAssumption, IndexRange
<1>1. TypeInv'
  BY TypeNext DEF IInv, TypeInv, Next
<1>2. Stored' = Stored /\ Active' = Active
  BY DEF StrapEnd, Stored, Active, ram
<1>3. Contents'
  BY <1>2 DEF IInv, Contents, StrapEnd, history
<1>4. Shape' /\ Unique' /\ Mirror'
  BY DEF IInv, TypeOK, StrapEnd, ram, history, Shape, Unique, Mirror, Occupied
<1>5. Active = Stored
  BY DEF IInv, StrapEnd, Strapped, Stored, Index
<1>6. Emptied'
  BY DEF IInv, Emptied, StrapEnd, history
<1> QED
  BY <1>1, <1>2, <1>3, <1>4, <1>5, <1>6 DEF IInv, TypeInv, Strapped, StrapEnd

-----------------------------------------------------------------------------
(* Requests *)

\* A new device goes to the first free slot, and no slot holds its string yet.
LEMMA IndAddDevice == \A v \in Devices : IInv /\ AddDevice(v) => IInv'
<1> SUFFICES ASSUME NEW v \in Devices, IInv, AddDevice(v)
             PROVE  IInv'
  OBVIOUS
<1> USE RegistryAssumption, IndexRange
<1>1. TypeInv'
  BY TypeNext DEF IInv, TypeInv, Next
<1>2. /\ count \in Index
      /\ mode = "up" /\ mode' = "up"
      /\ slot' = [slot EXCEPT ![count] = v]
      /\ name' = [name EXCEPT ![count] = v]
      /\ object' = [object EXCEPT ![count] = v]
      /\ count' = count + 1
      /\ wanted' = wanted \union {v}
      /\ damage' \notin {"torn", "emptied"}
      /\ damage' \in {"none"} => damage = "none"
      /\ \A i \in Index : name[i] # v
  BY DEF IInv, TypeOK, AddDevice, Apply, Touch, ViolatesDeviceRules, Damages
<1> SUFFICES ASSUME damage' = "none"
             PROVE  Contents' /\ Shape' /\ Unique' /\ Mirror' /\ Strapped'
  BY <1>1, <1>2
  DEF IInv, TypeInv, Contents, Shape, Unique, Mirror, Strapped, Emptied
<1>3. /\ Stored = wanted
      /\ name = slot
      /\ \A i \in Index : Occupied(i) <=> i < count
      /\ \A i, j \in Index : Occupied(i) /\ slot[i] = slot[j] => i = j
      /\ \A i \in Index : i < count => object[i] = slot[i]
      /\ Active = Stored
  BY <1>2 DEF IInv, Contents, Shape, Unique, Mirror, Strapped
<1>4. v # NoName /\ slot \in [Index -> Names] /\ object \in [Index -> Names] /\ count \in Int
  BY DEF IInv, TypeOK
<1>5. \A i \in Index : slot'[i] = IF i = count THEN v ELSE slot[i]
  BY <1>2, <1>4
<1>6. \A i \in Index : Occupied(i)' <=> i < count'
  BY <1>2, <1>3, <1>4, <1>5 DEF Occupied
<1>7. Stored' = Stored \union {v}
  BY <1>2, <1>3, <1>4, <1>5 DEF Stored, Occupied
<1>8. Contents'
  BY <1>2, <1>3, <1>7 DEF Contents
<1>9. Shape'
  BY <1>2, <1>6 DEF Shape
<1>10. Unique'
  BY <1>2, <1>3, <1>5, <1>6 DEF Unique, Occupied
<1>11. Mirror'
  BY <1>2, <1>3, <1>4, <1>5 DEF Mirror
<1>12. Strapped'
  <2>1. Active' = Active \union {v}
    BY <1>2, <1>4 DEF Active
  <2> HIDE DEF Active, Stored
  <2> QED BY <1>2, <1>3, <1>7, <2>1 DEF Strapped
<1> QED
  BY <1>8, <1>9, <1>10, <1>11, <1>12

\* The last device goes, and its string was in its slot only.
LEMMA IndRemoveLast == \A v \in Devices : IInv /\ RemoveLast(v) => IInv'
<1> SUFFICES ASSUME NEW v \in Devices, IInv, RemoveLast(v)
             PROVE  IInv'
  OBVIOUS
<1> USE RegistryAssumption, IndexRange
<1>1. TypeInv'
  BY TypeNext DEF IInv, TypeInv, Next
<1>2. /\ mode = "up" /\ mode' = "up"
      /\ count > 0 /\ count' = count - 1
      /\ wanted' = wanted \ {v}
      /\ damage' \notin {"torn", "emptied"}
      /\ damage' \in {"none"} => damage = "none"
  BY DEF RemoveLast, Touch, IInv, TypeOK, Damages
<1> SUFFICES ASSUME damage' = "none"
             PROVE  Contents' /\ Shape' /\ Unique' /\ Mirror' /\ Strapped'
  BY <1>1, <1>2
  DEF IInv, TypeInv, Contents, Shape, Unique, Mirror, Strapped, Emptied
<1>3. /\ Stored = wanted
      /\ name = slot
      /\ \A i \in Index : Occupied(i) <=> i < count
      /\ \A i, j \in Index : Occupied(i) /\ slot[i] = slot[j] => i = j
      /\ \A i \in Index : i < count => object[i] = slot[i]
      /\ Active = Stored
  BY <1>2 DEF IInv, Contents, Shape, Unique, Mirror, Strapped
<1>4. v # NoName /\ slot \in [Index -> Names] /\ object \in [Index -> Names] /\ count \in Int
  BY DEF IInv, TypeOK
<1>5. PICK k \in Index : /\ name[k] = v
                         /\ k >= count - 1
                         /\ object' = [object EXCEPT ![k] = NoName]
                         /\ name' = [name EXCEPT ![k] = NoName]
                         /\ slot' = [slot EXCEPT ![k] = NoName]
  BY DEF RemoveLast, IsFirst
<1>6. k = count - 1 /\ slot[k] = v
  BY <1>3, <1>4, <1>5 DEF Occupied
<1>7. \A i \in Index : slot'[i] = IF i = k THEN NoName ELSE slot[i]
  BY <1>4, <1>5
<1>8. \A i \in Index : Occupied(i)' <=> i < count'
  BY <1>2, <1>3, <1>4, <1>6, <1>7 DEF Occupied
<1>9. Stored' = Stored \ {v}
  BY <1>3, <1>4, <1>6, <1>7 DEF Stored, Occupied
<1>10. Contents'
  BY <1>2, <1>3, <1>9 DEF Contents
<1>11. Shape'
  BY <1>2, <1>8 DEF Shape
<1>12. Unique'
  BY <1>2, <1>3, <1>7 DEF Unique, Occupied
<1>13. \A i \in Index : i < count' => object'[i] = slot'[i]
  BY <1>2, <1>3, <1>4, <1>5, <1>6, <1>7
<1>14. Mirror'
  BY <1>2, <1>3, <1>5, <1>13 DEF Mirror
<1>15. Strapped'
  <2>1. \A i \in 0 .. count' - 1 : i \in Index
    BY <1>2, <1>4, <1>6
  <2>2. Active' = {slot'[i] : i \in 0 .. count' - 1}
    <3>1. \A i \in 0 .. count' - 1 : object'[i] = slot'[i]
      BY <1>2, <1>4, <1>13, <2>1
    <3> QED BY <3>1 DEF Active
  <2>3. \A i \in Index : i \in 0 .. count' - 1 <=> slot'[i] # NoName
    BY <1>2, <1>4, <1>8 DEF Occupied
  <2>4. Active' = Stored'
    BY <2>1, <2>2, <2>3 DEF Stored
  <2> HIDE DEF Active, Stored
  <2> QED BY <1>2, <2>4 DEF Strapped
<1> QED
  BY <1>10, <1>11, <1>12, <1>14, <1>15

\* Removal begins: only the loop index and the victim are set.
LEMMA IndRemoveBegin == \A v \in Devices : IInv /\ RemoveBegin(v) => IInv'
<1> SUFFICES ASSUME NEW v \in Devices, IInv, RemoveBegin(v)
             PROVE  IInv'
  OBVIOUS
<1> USE RegistryAssumption, IndexRange
<1>1. TypeInv'
  BY TypeNext DEF IInv, TypeInv, Next
<1>2. /\ mode = "up" /\ mode' = "move" /\ victim' = v
      /\ UNCHANGED <<slot, name, object, count, wanted>>
      /\ damage' \notin {"torn", "emptied"}
      /\ damage' \in {"none"} => damage = "none"
  BY DEF RemoveBegin, Touch, ram, IInv, TypeOK, Damages
<1> SUFFICES ASSUME damage' = "none"
             PROVE  Contents' /\ Shape' /\ Unique' /\ Mirror' /\ Strapped'
  BY <1>1, <1>2
  DEF IInv, TypeInv, Contents, Shape, Unique, Mirror, Strapped, Emptied
<1>3. PICK k \in Index : name[k] = v /\ cursor' = k + 1
  BY DEF RemoveBegin, IsFirst
<1>4. damage = "none" /\ name = slot /\ Stored = wanted
  BY <1>2 DEF IInv, Contents, Mirror
<1>5. v \in wanted /\ slot[cursor' - 1] = v
  BY <1>3, <1>4 DEF Stored
<1>6. Contents' /\ Strapped'
  BY <1>2, <1>4 DEF Contents, Strapped, Stored
<1>7. Shape'
  BY <1>2, <1>4, <1>5 DEF IInv, Shape, Occupied
<1>8. Unique'
  BY <1>2, <1>4, <1>5 DEF IInv, Unique, Occupied
<1>9. Mirror'
  BY <1>2, <1>4, <1>5 DEF IInv, Mirror
<1> QED
  BY <1>6, <1>7, <1>8, <1>9

\* The board faults and starts again from slots that nobody wrote.
LEMMA IndRemoveFault == \A v \in Names : IInv /\ RemoveFault(v) => IInv'
<1> SUFFICES ASSUME NEW v \in Names, IInv, RemoveFault(v)
             PROVE  IInv'
  OBVIOUS
<1> USE RegistryAssumption, IndexRange
<1>1. TypeInv'
  BY TypeNext DEF IInv, TypeInv, Next
<1>2. /\ mode = "up" /\ mode' = "off" /\ count = 0
      /\ UNCHANGED <<slot, wanted>>
      /\ damage' = IF damage = "emptied" THEN "none" ELSE damage
  BY DEF RemoveFault, Recounted
<1>3. Stored' = Stored
  BY <1>2 DEF Stored
<1>4. Contents'
  BY <1>2, <1>3 DEF IInv, Contents, Emptied
<1>5. Shape' /\ Unique'
  <2>1. CASE damage = "none"
    BY <1>2, <2>1 DEF IInv, Shape, Unique, Occupied
  <2>2. CASE damage = "emptied"
    BY <1>2, <2>2 DEF IInv, Emptied, Shape, Unique, Occupied
  <2>3. CASE damage \notin {"none", "emptied"}
    BY <1>2, <2>3 DEF Shape, Unique
  <2> QED BY <2>1, <2>2, <2>3
<1>6. Mirror' /\ Strapped' /\ Emptied'
  BY <1>2 DEF Mirror, Strapped, Emptied
<1> QED
  BY <1>1, <1>4, <1>5, <1>6 DEF IInv, TypeInv

\* The empty string is at an index whose slot is free: no slot changes.
LEMMA IndRemoveEmpty == IInv /\ RemoveEmpty => IInv'
<1> SUFFICES ASSUME IInv, RemoveEmpty
             PROVE  IInv'
  OBVIOUS
<1> USE RegistryAssumption, IndexRange
<1>1. TypeInv'
  BY TypeNext DEF IInv, TypeInv, Next
<1>2. /\ mode = "up" /\ mode' = "up"
      /\ UNCHANGED <<name, wanted>>
      /\ damage' \notin {"none", "torn"}
      /\ damage' = "emptied" => damage \in {"none", "emptied"}
  BY DEF RemoveEmpty, Miscounted, IInv, TypeOK, Damages
<1> SUFFICES ASSUME damage' = "emptied"
             PROVE  Emptied'
  BY <1>1, <1>2
  DEF IInv, TypeInv, Contents, Shape, Unique, Mirror, Strapped, Emptied
<1>3. name = slot /\ Stored = wanted
  BY <1>2 DEF IInv, Contents, Mirror, Emptied
<1>4. PICK k \in Index : name[k] = NoName /\ slot' = [slot EXCEPT ![k] = NoName]
  BY DEF RemoveEmpty, IsFirst
<1>5. slot' = slot
  BY <1>3, <1>4 DEF IInv, TypeOK
<1>6. Stored' = Stored
  BY <1>5 DEF Stored
<1>7. /\ \A i, j \in Index : i < j /\ Occupied(j) => Occupied(i)
      /\ \A i, j \in Index : Occupied(i) /\ slot[i] = slot[j] => i = j
  <2>1. CASE damage = "none"
    <3>1. \A i \in Index : Occupied(i) <=> i < count
      BY <1>2, <2>1 DEF IInv, Shape
    <3>2. \A i, j \in Index : Occupied(i) /\ slot[i] = slot[j] => i = j
      BY <1>2, <2>1 DEF IInv, Unique
    <3>3. count \in Int
      BY DEF IInv, TypeOK
    <3> QED BY <3>1, <3>2, <3>3
  <2>2. CASE damage = "emptied"
    BY <2>2 DEF IInv, Emptied
  <2> QED BY <1>2, <2>1, <2>2
<1> QED
  BY <1>2, <1>3, <1>5, <1>6, <1>7 DEF Emptied, Occupied

\* The first write of an iteration: it overwrites the victim, or the slot that
\* the iteration before has freed; the string it copies is stored twice now.
LEMMA IndShiftMove == IInv /\ ShiftMove => IInv'
<1> SUFFICES ASSUME IInv, ShiftMove
             PROVE  IInv'
  OBVIOUS
<1> USE RegistryAssumption, IndexRange
<1>1. TypeInv'
  BY TypeNext DEF IInv, TypeInv, Next
<1>2. /\ mode = "move" /\ mode' = "vacate"
      /\ cursor' = cursor /\ count' = count /\ victim' = victim /\ damage' = damage
      /\ wanted' = wanted \ {victim}
      /\ object' = [object EXCEPT ![cursor - 1] = object[cursor], ![cursor] = NoName]
  BY DEF ShiftMove
<1>3. damage \notin {"torn", "emptied"}
  BY <1>2 DEF IInv, Contents, Emptied
<1> SUFFICES ASSUME damage = "none"
             PROVE  Contents' /\ Shape' /\ Unique' /\ Mirror' /\ Strapped'
  BY <1>1, <1>2, <1>3
  DEF IInv, TypeInv, Contents, Shape, Unique, Mirror, Strapped, Emptied
<1>4. /\ Stored = wanted
      /\ name = slot
      /\ \A i \in Index : Occupied(i) <=> i < count /\ (victim \in wanted \/ i # cursor - 1)
      /\ \A i, j \in Index : Occupied(i) /\ slot[i] = slot[j] => i = j
      /\ victim \in wanted => slot[cursor - 1] = victim
      /\ \A i \in Index : i < count /\ (victim \in wanted \/ i # cursor - 1)
                            => object[i] = slot[i]
  BY <1>2 DEF IInv, Contents, Shape, Unique, Mirror
<1>5. /\ cursor \in Index /\ cursor - 1 \in Index /\ count \in Int
      /\ cursor < count /\ cursor # cursor - 1
      /\ slot \in [Index -> Names] /\ object \in [Index -> Names]
      /\ victim # NoName
  BY <1>2 DEF IInv, TypeOK, Control
<1>6. name[cursor] # NoName /\ slot[cursor] # NoName
  BY <1>4, <1>5 DEF Occupied
<1>7. /\ name' = [name EXCEPT ![cursor - 1] = slot[cursor]]
      /\ slot' = [slot EXCEPT ![cursor - 1] = slot[cursor]]
  BY <1>4, <1>6 DEF ShiftMove
<1>8. \A i \in Index : slot'[i] = IF i = cursor - 1 THEN slot[cursor] ELSE slot[i]
  BY <1>5, <1>7
<1>9. Stored' = Stored \ {victim}
  <2>1. CASE victim \in wanted
    BY <1>4, <1>5, <1>6, <1>8, <2>1 DEF Stored, Occupied
  <2>2. CASE victim \notin wanted
    BY <1>4, <1>5, <1>6, <1>8, <2>2 DEF Stored, Occupied
  <2> QED BY <2>1, <2>2
<1>10. Contents'
  BY <1>2, <1>4, <1>9 DEF Contents
<1>11. \A i \in Index : Occupied(i)' <=> i < count
  BY <1>4, <1>5, <1>6, <1>8 DEF Occupied
<1>12. Shape'
  BY <1>2, <1>11 DEF Shape
<1>13. Unique'
  BY <1>2, <1>4, <1>5, <1>6, <1>8 DEF Unique, Occupied
<1>14. Mirror'
  <2>1. \A i \in Index : i < count /\ i # cursor => object'[i] = slot'[i]
    BY <1>2, <1>4, <1>5, <1>8
  <2> QED BY <1>2, <1>4, <1>7, <2>1 DEF Mirror
<1>15. Strapped'
  BY <1>2 DEF Strapped
<1> QED
  BY <1>10, <1>12, <1>13, <1>14, <1>15

\* The second write frees the slot it came from; after the last one the count
\* goes down and the table is dense again.
LEMMA IndShiftVacate == IInv /\ ShiftVacate => IInv'
<1> SUFFICES ASSUME IInv, ShiftVacate
             PROVE  IInv'
  OBVIOUS
<1> USE RegistryAssumption, IndexRange
<1>1. TypeInv'
  BY TypeNext DEF IInv, TypeInv, Next
<1>2. /\ mode = "vacate" /\ mode' \in {"move", "up"}
      /\ wanted' = wanted /\ damage' = damage /\ object' = object
      /\ name' = [name EXCEPT ![cursor] = NoName]
      /\ slot' = [slot EXCEPT ![cursor] = NoName]
      /\ mode' = "move" => /\ cursor' = cursor + 1 /\ count' = count
                           /\ victim' = victim
      /\ mode' = "up" => count' = count - 1 /\ cursor = count - 1
  BY DEF IInv, TypeOK, Control, ShiftVacate
<1>3. damage \notin {"torn", "emptied"} /\ victim \notin wanted
  BY <1>2 DEF IInv, Contents, Emptied
<1> SUFFICES ASSUME damage = "none"
             PROVE  Contents' /\ Shape' /\ Unique' /\ Mirror' /\ Strapped'
  BY <1>1, <1>2, <1>3
  DEF IInv, TypeInv, Contents, Shape, Unique, Mirror, Strapped, Emptied
<1>4. /\ Stored = wanted
      /\ name = slot
      /\ \A i \in Index : Occupied(i) <=> i < count
      /\ \A i, j \in Index :
           Occupied(i) /\ slot[i] = slot[j] =>
             i = j \/ (i \in {cursor - 1, cursor} /\ j \in {cursor - 1, cursor})
      /\ slot[cursor] = slot[cursor - 1]
      /\ \A i \in Index : i < count /\ i # cursor => object[i] = slot[i]
  BY <1>2 DEF IInv, Contents, Shape, Unique, Mirror
<1>5. /\ cursor \in Index /\ cursor - 1 \in Index /\ count \in Int
      /\ cursor < count /\ cursor # cursor - 1
      /\ slot \in [Index -> Names] /\ object \in [Index -> Names]
  BY <1>2 DEF IInv, TypeOK, Control
<1>6. \A i \in Index : slot'[i] = IF i = cursor THEN NoName ELSE slot[i]
  BY <1>2, <1>5
<1>7. Stored' = Stored
  BY <1>4, <1>5, <1>6 DEF Stored
<1>8. Contents'
  BY <1>2, <1>4, <1>7 DEF Contents
<1>9. \A i \in Index : Occupied(i)' <=> i < count /\ i # cursor
  BY <1>4, <1>5, <1>6 DEF Occupied
<1>10. \A i, j \in Index : Occupied(i)' /\ slot'[i] = slot'[j] => i = j
  BY <1>4, <1>5, <1>6, <1>9 DEF Occupied
<1>11. \A i \in Index : i < count /\ i # cursor => object'[i] = slot'[i]
  BY <1>2, <1>4, <1>6
<1>12. CASE mode' = "move"
  BY <1>2, <1>3, <1>4, <1>5, <1>8, <1>9, <1>10, <1>11, <1>12
  DEF Shape, Unique, Mirror, Strapped
<1>13. CASE mode' = "up"
  <2>1. \A i \in Index : i < count' <=> i < count /\ i # cursor
    BY <1>2, <1>5, <1>13
  <2>2. Shape' /\ Unique' /\ Mirror'
    BY <1>2, <1>4, <1>9, <1>10, <1>11, <1>13, <2>1 DEF Shape, Unique, Mirror
  <2>3. Strapped'
    <3>1. \A i \in 0 .. count' - 1 : i \in Index /\ object'[i] = slot'[i]
      BY <1>2, <1>5, <1>11, <1>13
    <3>2. \A i \in Index : i \in 0 .. count' - 1 <=> slot'[i] # NoName
      BY <1>2, <1>5, <1>9, <1>13, <2>1 DEF Occupied
    <3>3. Active' = {slot'[i] : i \in 0 .. count' - 1}
      BY <3>1 DEF Active
    <3>4. Active' = Stored'
      BY <3>1, <3>2, <3>3 DEF Stored
    <3> HIDE DEF Active, Stored
    <3> QED BY <1>13, <3>4 DEF Strapped
  <2> QED BY <1>8, <2>2, <2>3
<1> QED
  BY <1>2, <1>12, <1>13

\* Every step keeps the inductive invariant.
LEMMA IndNext == IInv /\ [Next]_vars => IInv'
<1> SUFFICES ASSUME IInv, [Next]_vars
             PROVE  IInv'
  OBVIOUS
<1>1. CASE ClearAllDevices
  <2>1. TypeInv'
    BY TypeNext DEF IInv, TypeInv
  <2> QED
    BY <1>1, <2>1
    DEF ClearAllDevices, IInv, TypeInv, Contents, Shape, Unique, Mirror, Strapped,
        Emptied
<1>2. CASE UNCHANGED vars
  <2>1. TypeInv'
    BY TypeNext DEF IInv, TypeInv
  <2>2. Contents' /\ Strapped'
    <3>1. Stored' = Stored /\ Active' = Active
      BY <1>2 DEF vars, Stored, Active
    <3>2. {slot'[i] : i \in 0 .. cursor' - 1} = {slot[i] : i \in 0 .. cursor - 1}
      BY <1>2 DEF vars
    <3>3. Contents'
      BY <1>2, <3>1 DEF vars, IInv, Contents
    <3>4. Strapped'
      BY <1>2, <3>1, <3>2 DEF vars, IInv, Strapped
    <3> QED BY <3>3, <3>4
  <2>3. Shape'
    BY <1>2 DEF vars, IInv, Shape, Occupied
  <2>4. Unique' /\ Mirror'
    BY <1>2 DEF vars, IInv, Unique, Mirror, Occupied
  <2>5. Emptied'
    BY <1>2 DEF vars, IInv, Emptied, Occupied, Stored
  <2> QED BY <2>1, <2>2, <2>3, <2>4, <2>5 DEF IInv, TypeInv
<1> QED
  BY <1>1, <1>2, IndPowerCut, IndStrapBegin, IndStrapNext, IndStrapEnd,
     IndAddDevice, IndRemoveLast, IndRemoveBegin, IndRemoveFault, IndRemoveEmpty,
     IndShiftMove, IndShiftVacate
  DEF Next

\* The inductive invariant holds throughout.
THEOREM Inductive == Spec => []IInv
  BY IndInit, IndNext, PTL DEF Spec

-----------------------------------------------------------------------------
(* What follows from it *)

\* No cut between two writes of a removal loses a device that was to stay or
\* brings one back: the slots hold the operator's devices at every instant.
THEOREM SlotsAreSafe == Spec => []StoredIsWanted
<1>1. IInv => StoredIsWanted
  BY DEF IInv, Contents, Emptied, StoredIsWanted
<1> QED BY <1>1, Inductive, PTL

\* A board that is up runs the operator's devices, after a torn removal too.
THEOREM BoardRunsWanted == Spec => []ActiveIsWanted
<1>1. IInv => ActiveIsWanted
  BY DEF IInv, Contents, Strapped, ActiveIsWanted
<1> QED BY <1>1, Inductive, PTL

\* Slot, name and object agree index by index, the table is dense and no
\* device is in it twice.
THEOREM TableIsMirror == Spec => []TableMirrorsSlots
<1>1. IInv => TableMirrorsSlots
  <2> SUFFICES ASSUME IInv, mode = "up", damage = "none"
               PROVE  /\ \A i \in Index : /\ slot[i] = name[i]
                                          /\ i < count => object[i] = name[i]
                                          /\ (name[i] = NoName) <=> (i >= count)
                      /\ \A i, j \in 0 .. count - 1 : name[i] = name[j] => i = j
    BY DEF TableMirrorsSlots
  <2> USE RegistryAssumption, IndexRange
  <2>1. name = slot /\ count \in 0 .. MaxDevices
    BY DEF IInv, Mirror, TypeOK
  <2>2. \A i \in Index : Occupied(i) <=> i < count
    BY DEF IInv, Shape
  <2>3. \A i \in Index : /\ slot[i] = name[i]
                         /\ i < count => object[i] = name[i]
                         /\ (name[i] = NoName) <=> (i >= count)
    BY <2>1, <2>2 DEF IInv, Mirror, Occupied
  <2>4. \A i \in 0 .. count - 1 : i \in Index /\ Occupied(i)
    BY <2>1, <2>2
  <2>5. \A i, j \in 0 .. count - 1 : name[i] = name[j] => i = j
    BY <2>1, <2>4 DEF IInv, Unique
  <2> QED BY <2>3, <2>5
<1> QED BY <1>1, Inductive, PTL

\* Every step adds one device to the slots, removes one, or leaves the set of
\* stored devices alone: the writes of a removal implement InstalledSet.
THEOREM RemovalIsAtomic == Spec => WritesAreAtomic
<1>1. IInv /\ IInv' /\ [Next]_vars =>
        [damage' \in {"none", "torn", "emptied"} => Promise!Next]_Stored
  <2> SUFFICES ASSUME IInv, IInv', [Next]_vars, damage' \in {"none", "torn", "emptied"},
                      Stored' # Stored
               PROVE  Promise!Next
    OBVIOUS
  <2>1. Stored' = wanted' /\ wanted \subseteq Devices
    BY DEF IInv, Contents, Emptied, TypeOK
  <2>2. damage \in {"none", "torn", "emptied"} => Stored = wanted
    BY DEF IInv, Contents, Emptied
  <2>3. slot' # slot
    BY DEF Stored
  <2>4. ASSUME NEW v \in Devices, AddDevice(v)
        PROVE  Promise!Next
    <3>1. damage \in {"none", "torn"} /\ wanted' = wanted \union {v}
      BY <2>4 DEF AddDevice, Touch, IInv, TypeOK, Damages
    <3>2. v \notin Stored
      BY <2>1, <2>2, <3>1
    <3> QED BY <2>1, <2>2, <3>1, <3>2 DEF Promise!Next, Promise!Add
  <2>5. ASSUME NEW v \in Devices, RemoveLast(v)
        PROVE  Promise!Next
    <3>1. damage \in {"none", "torn"} /\ wanted' = wanted \ {v}
      BY <2>5 DEF RemoveLast, Touch, IInv, TypeOK, Damages
    <3> QED BY <2>1, <2>2, <3>1 DEF Promise!Next, Promise!Remove
  <2>6. CASE ShiftMove
    <3>1. damage \in {"none", "torn", "emptied"} /\ wanted' = wanted \ {victim}
      BY <2>6 DEF ShiftMove
    <3>2. victim \in Devices
      BY <2>6 DEF ShiftMove, IInv, Control
    <3> QED BY <2>1, <2>2, <3>1, <3>2 DEF Promise!Next, Promise!Remove
  <2>7. CASE ShiftVacate
    <3>1. damage \in {"none", "torn", "emptied"} /\ wanted' = wanted
      BY <2>7 DEF ShiftVacate
    <3> QED BY <2>1, <2>2, <3>1
  <2>8. CASE RemoveEmpty
    <3>1. damage \in {"none", "torn", "emptied"} /\ wanted' = wanted
      BY <2>8 DEF RemoveEmpty, Miscounted, IInv, TypeOK, Damages
    <3> QED BY <2>1, <2>2, <3>1
  <2> QED
    BY <2>3, <2>4, <2>5, <2>6, <2>7, <2>8
    DEF Next, PowerCut, StrapBegin, StrapNext, StrapEnd, RemoveBegin, RemoveFault,
        ClearAllDevices, vars
<1> QED
  BY <1>1, Inductive, PTL DEF Spec, WritesAreAtomic

\* So a table that nobody clears, nor edits after a removal of the empty string,
\* is an InstalledSet from its first state on and through every cut (addDevice,
\* removeDevice, copyDevicesFromIndex, strapDevices).
THEOREM UnclearedTableIsSet ==
  Spec /\ [](damage \in {"none", "torn", "emptied"}) => Promise!Spec
<1>1. Init => Promise!Init
  BY DEF Init, Blank, Stored, Promise!Init
<1>2. /\ damage' \in {"none", "torn", "emptied"}
      /\ [damage' \in {"none", "torn", "emptied"} => Promise!Next]_Stored
      => [Promise!Next]_Stored
  OBVIOUS
<1>3. (damage \in {"none", "torn", "emptied"})' => damage' \in {"none", "torn", "emptied"}
  OBVIOUS
<1> QED
  BY <1>1, <1>2, <1>3, RemovalIsAtomic, PTL DEF Spec, WritesAreAtomic, Promise!Spec

-----------------------------------------------------------------------------
(* The bound on a kind *)

OfKind(k) == {v \in wanted : KindOf[v] = k}

\* The rule looks at the table, so its bound is carried by the devices that are
\* wanted, which removals only make fewer and start-ups leave alone.
KindInv ==
  /\ IsFiniteSet(wanted)
  /\ damage \in {"none", "emptied"} =>
       \A k \in Kinds : Cardinality(OfKind(k)) <= Limit[k] + 1

LEMMA KindInit == Init => KindInv
<1> SUFFICES ASSUME Init
             PROVE  KindInv
  OBVIOUS
<1>1. wanted = {}
  BY DEF Init
<1>2. IsFiniteSet(wanted)
  BY <1>1, FS_EmptySet
<1>3. ASSUME NEW k \in Kinds
      PROVE  Cardinality(OfKind(k)) <= Limit[k] + 1
  <2>1. OfKind(k) = {}
    BY <1>1 DEF OfKind
  <2>2. Cardinality(OfKind(k)) = 0
    BY <2>1, FS_EmptySet
  <2>3. Limit[k] \in Nat
    BY RegistryAssumption
  <2> QED BY <2>2, <2>3
<1> QED BY <1>2, <1>3 DEF KindInv

\* The names that countDeviceType counts stand for as many devices at least.
LEMMA KindCounted ==
  ASSUME IInv, mode = "up", damage = "none", IsFiniteSet(wanted), NEW k \in Kinds
  PROVE  /\ CountDeviceType(k) \in Nat
         /\ Cardinality(OfKind(k)) <= CountDeviceType(k)
<1> DEFINE places == {i \in Index : name[i] # NoName /\ KindOf[name[i]] = k}
           f == [i \in places |-> name[i]]
<1>1. IsFiniteSet(Index)
  BY RegistryAssumption, FS_Interval DEF Index
<1>2. IsFiniteSet(places)
  BY <1>1, FS_Subset
<1>3. name = slot /\ Stored = wanted
  BY DEF IInv, Mirror, Contents
<1>4. ASSUME NEW i \in places
      PROVE  name[i] \in OfKind(k)
  BY <1>3 DEF Stored, OfKind
<1>5. ASSUME NEW v \in OfKind(k)
      PROVE  \E i \in places : name[i] = v
  <2>1. v \in Stored /\ KindOf[v] = k
    BY <1>3 DEF OfKind
  <2>2. PICK i \in Index : slot[i] = v /\ v # NoName
    BY <2>1, StoredMember
  <2> QED BY <1>3, <2>1, <2>2
<1>6. f \in Surjection(places, OfKind(k))
  BY <1>4, <1>5 DEF Surjection
<1>7. Cardinality(OfKind(k)) <= Cardinality(places)
  BY <1>2, <1>6, FS_Surjection
<1>8. Cardinality(places) \in Nat
  BY <1>2, FS_CardinalityType
<1> QED BY <1>7, <1>8 DEF CountDeviceType

\* A device that the rule lets in makes its kind larger by one at most.
LEMMA KindAdd ==
  ASSUME IInv, KindInv, NEW v \in Devices, AddDevice(v)
  PROVE  KindInv'
<1>1. /\ mode = "up" /\ wanted' = wanted \union {v} /\ Touch
      /\ ~(CountDeviceType(KindOf[v]) > Limit[KindOf[v]])
  BY DEF AddDevice, ViolatesDeviceRules
<1>2. IsFiniteSet(wanted) /\ IsFiniteSet(wanted)'
  BY <1>1, FS_AddElement DEF KindInv
<1>3. ASSUME damage' \in {"none", "emptied"}, NEW k \in Kinds
      PROVE  Cardinality(OfKind(k))' <= Limit[k] + 1
  <2>1. damage = "none"
    BY <1>1, <1>3 DEF Touch
  <2>2. Cardinality(OfKind(k)) <= Limit[k] + 1 /\ Limit[k] \in Nat
    BY <2>1, RegistryAssumption DEF KindInv
  <2>3. IsFiniteSet(OfKind(k))
    BY <1>2, FS_Subset DEF OfKind
  <2>4. Cardinality(OfKind(k)) \in Nat
    BY <2>3, FS_CardinalityType
  <2>5. CASE KindOf[v] # k
    <3>1. OfKind(k)' = OfKind(k)
      BY <1>1, <2>5 DEF OfKind
    <3> QED BY <2>2, <3>1
  <2>6. CASE KindOf[v] = k
    <3>1. OfKind(k)' = OfKind(k) \union {v}
      BY <1>1, <2>6 DEF OfKind
    <3>2. Cardinality(OfKind(k) \union {v}) <= Cardinality(OfKind(k)) + 1
      <4>1. \/ Cardinality(OfKind(k) \union {v}) = Cardinality(OfKind(k))
            \/ Cardinality(OfKind(k) \union {v}) = Cardinality(OfKind(k)) + 1
        BY <2>3, FS_AddElement, Zenon
      <4> QED BY <2>4, <4>1
    <3>3. Cardinality(OfKind(k)) <= CountDeviceType(k) /\ CountDeviceType(k) \in Nat
      BY <1>1, <1>2, <2>1, KindCounted
    <3>4. CountDeviceType(k) <= Limit[k]
      BY <1>1, <2>2, <2>6, <3>3
    <3>5. Cardinality(OfKind(k) \union {v}) \in Nat
      BY <2>3, FS_AddElement, FS_CardinalityType
    <3> QED BY <2>2, <2>4, <3>1, <3>2, <3>3, <3>4, <3>5
  <2> QED BY <2>5, <2>6
<1> QED BY <1>2, <1>3 DEF KindInv

\* No other step installs a device.
LEMMA KindFewer ==
  ASSUME KindInv, wanted' \subseteq wanted,
         damage' \in {"none", "emptied"} => damage \in {"none", "emptied"}
  PROVE  KindInv'
<1>1. IsFiniteSet(wanted) /\ IsFiniteSet(wanted)'
  BY FS_Subset DEF KindInv
<1>2. ASSUME damage' \in {"none", "emptied"}, NEW k \in Kinds
      PROVE  Cardinality(OfKind(k))' <= Limit[k] + 1
  <2>1. OfKind(k)' \subseteq OfKind(k) /\ OfKind(k) \subseteq wanted
    BY DEF OfKind
  <2>2. IsFiniteSet(OfKind(k))
    BY <1>1, <2>1, FS_Subset
  <2>3. Cardinality(OfKind(k)') <= Cardinality(OfKind(k)) /\ IsFiniteSet(OfKind(k)')
    BY <2>1, <2>2, FS_Subset
  <2>4. Cardinality(OfKind(k)') \in Nat /\ Cardinality(OfKind(k)) \in Nat /\ Limit[k] \in Nat
    BY <2>2, <2>3, FS_CardinalityType, RegistryAssumption
  <2>5. Cardinality(OfKind(k)) <= Limit[k] + 1
    BY <1>2 DEF KindInv
  <2> QED BY <2>3, <2>4, <2>5
<1> QED BY <1>1, <1>2 DEF KindInv

LEMMA KindNext == IInv /\ KindInv /\ [Next]_vars => KindInv'
<1> SUFFICES ASSUME IInv, KindInv, [Next]_vars
             PROVE  KindInv'
  OBVIOUS
<1>0. damage \in Damages
  BY DEF IInv, TypeOK
<1>1. ASSUME NEW v \in Devices, AddDevice(v)
      PROVE  KindInv'
  BY <1>1, KindAdd
<1>2. CASE PowerCut \/ \E v \in Names : RemoveFault(v)
  BY <1>2, KindFewer DEF PowerCut, RemoveFault, Recounted
<1>3. CASE StrapBegin \/ StrapNext \/ StrapEnd
  BY <1>3, KindFewer DEF StrapBegin, StrapNext, StrapEnd, history
<1>4. ASSUME NEW v \in Devices, RemoveLast(v) \/ RemoveBegin(v)
      PROVE  KindInv'
  BY <1>4, KindFewer DEF RemoveLast, RemoveBegin, Touch
<1>5. CASE RemoveEmpty
  BY <1>0, <1>5, KindFewer DEF RemoveEmpty, Miscounted, Damages
<1>6. CASE ShiftMove \/ ShiftVacate
  BY <1>6, KindFewer DEF ShiftMove, ShiftVacate
<1>7. CASE ClearAllDevices
  BY <1>7, KindFewer DEF ClearAllDevices
<1>8. CASE UNCHANGED vars
  BY <1>8, KindFewer DEF vars
<1> QED
  BY <1>1, <1>2, <1>3, <1>4, <1>5, <1>6, <1>7, <1>8 DEF Next

\* violatesDeviceRules, which lets in one more than the limit and is not asked
\* by strapDevices, bounds every kind through removals, reboots and every cut
\* that tears nothing.
THEOREM KindsAreLimited == Spec => []KindsWithinLimit
<1>1. IInv /\ KindInv => KindsWithinLimit
  <2> SUFFICES ASSUME IInv, KindInv, mode = "up", damage = "none", NEW k \in Kinds
               PROVE  Cardinality({i \in 0 .. count - 1 : KindOf[object[i]] = k}) <= Limit[k] + 1
    BY DEF KindsWithinLimit
  <2> DEFINE places == {i \in 0 .. count - 1 : KindOf[object[i]] = k}
             f == [i \in places |-> object[i]]
  <2>1. Stored = wanted /\ count \in 0 .. MaxDevices
    BY DEF IInv, Contents, TypeOK
  <2>2. \A i \in 0 .. count - 1 : i \in Index /\ object[i] = slot[i] /\ Occupied(i)
    BY <2>1, IndexRange DEF IInv, Shape, Mirror
  <2>3. ASSUME NEW i \in places
        PROVE  object[i] \in OfKind(k)
    <3>1. slot[i] \in Stored
      BY <2>2, StoredMember DEF Occupied
    <3> QED BY <2>1, <2>2, <3>1 DEF OfKind
  <2>4. ASSUME NEW i \in places, NEW j \in places, object[i] = object[j]
        PROVE  i = j
    BY <2>2, <2>4 DEF IInv, Unique
  <2>5. f \in Injection(places, OfKind(k))
    BY <2>3, <2>4 DEF Injection, IsInjective
  <2>6. IsFiniteSet(OfKind(k))
    BY FS_Subset DEF KindInv, OfKind
  <2>7. Cardinality(places) <= Cardinality(OfKind(k)) /\ IsFiniteSet(places)
    BY <2>5, <2>6, FS_Injection
  <2>8. Cardinality(places) \in Nat /\ Cardinality(OfKind(k)) \in Nat /\ Limit[k] \in Nat
    BY <2>6, <2>7, FS_CardinalityType, RegistryAssumption
  <2>9. Cardinality(OfKind(k)) <= Limit[k] + 1
    BY DEF KindInv
  <2>10. Cardinality(places) <= Limit[k] + 1
    BY <2>7, <2>8, <2>9
  <2> QED BY <2>10
<1> QED BY <1>1, Inductive, KindInit, KindNext, PTL DEF Spec
=============================================================================
