--------------------------- MODULE DeviceRegistry ---------------------------
(***************************************************************************)
(* The configured devices of one board: DeviceManager's table in RAM       *)
(* (devicesString, devices[ONE_I], deviceAggregateCounts[ONE_I]) and the   *)
(* slots Bootstrap keeps for it in non-volatile storage.                   *)
(*                                                                         *)
(* Cloud requests run to completion on the main loop, so what interleaves  *)
(* with them is the supply: the board can lose power, or be reset by its   *)
(* watchdog, between any two writes to storage.  A request that writes one *)
(* slot is one action.  Removal writes two slots per device it moves, and  *)
(* start-up walks the slots one by one: each of their steps is an action.  *)
(***************************************************************************)
EXTENDS Integers, FiniteSets

CONSTANTS
  Devices,     \* configuration strings the operator uses, e.g. "relay:1:4"
  NoName,      \* the empty string of a free slot
  MaxDevices,  \* MAX_DEVICES
  Kinds,       \* devicesAvailable
  KindOf,      \* the kind a configuration string starts with
  Limit        \* violatesOccurrences: a kind is full when occurs > Limit

ASSUME RegistryAssumption ==
  /\ MaxDevices \in Nat \ {0}
  /\ NoName \notin Devices
  /\ KindOf \in [Devices -> Kinds]
  /\ Limit \in [Kinds -> Nat]

Index == 0 .. MaxDevices - 1
Names == Devices \union {NoName}

VARIABLES
  slot,      \* non-volatile: one stored string per index
  name,      \* devicesString
  object,    \* devices[ONE_I]: the string each object was built from
  count,     \* deviceAggregateCounts[ONE_I]
  mode,      \* where the main loop is
  cursor,    \* loop index of a start-up or of a removal
  victim,    \* the string being removed
  wanted,    \* history: what the operator has installed
  damage     \* history: did a removal or a clear leave table and slots apart

ram == <<name, object, count>>
history == <<wanted, damage>>
vars == <<slot, name, object, count, mode, cursor, victim, wanted, damage>>

Blank == [i \in Index |-> NoName]

Modes == {"off", "strap", "up", "move", "vacate"}

\* "torn": a cut between two writes of a removal; "edited": a request since;
\* "cleared": clearAllDevices left the slots as they were; "emptied": removals
\* of the empty string lowered the count, and nothing was edited since.
Damages == {"none", "torn", "edited", "cleared", "emptied"}

TypeOK ==
  /\ slot \in [Index -> Names]
  /\ name \in [Index -> Names]
  /\ object \in [Index -> Names]
  /\ count \in 0 .. MaxDevices
  /\ mode \in Modes
  /\ cursor \in 0 .. MaxDevices
  /\ victim \in Names
  /\ wanted \in SUBSET Devices
  /\ damage \in Damages

Init ==
  /\ slot = Blank
  /\ name = Blank
  /\ object = Blank
  /\ count = 0
  /\ mode = "off"
  /\ cursor = 0
  /\ victim = NoName
  /\ wanted = {}
  /\ damage = "none"

Stored == {slot[i] : i \in Index} \ {NoName}
Active == {object[i] : i \in 0 .. count - 1}

-----------------------------------------------------------------------------
(* Start-up and loss of power *)

Recounted == IF damage = "emptied" THEN "none" ELSE damage

\* RAM is gone, the slots stay.  The cut tears the table when a removal had
\* written at least one slot (its victim is then no longer wanted).  A count
\* that was lowered by mistake is counted anew.
PowerCut ==
  /\ mode # "off"
  /\ mode' = "off"
  /\ name' = Blank
  /\ object' = Blank
  /\ count' = 0
  /\ cursor' = 0
  /\ victim' = NoName
  /\ damage' = IF /\ damage = "none"
                  /\ mode \in {"move", "vacate"}
                  /\ victim \notin wanted
               THEN "torn" ELSE Recounted
  /\ UNCHANGED <<slot, wanted>>

\* Bootstrap::strapDevices fills devicesString from the slots.
StrapBegin ==
  /\ mode = "off"
  /\ mode' = "strap"
  /\ name' = slot
  /\ cursor' = 0
  /\ UNCHANGED <<slot, object, count, victim, history>>

\* DeviceManager::applyDevice: the object and its name go to the end of the
\* table, wherever the string was read from.
Apply(v) ==
  /\ object' = [object EXCEPT ![count] = v]
  /\ name' = [name EXCEPT ![count] = v]
  /\ count' = count + 1

\* Slip: each object is built where its string was read.
StrapNextInPlace ==
  /\ mode = "strap"
  /\ cursor < MaxDevices
  /\ cursor' = cursor + 1
  /\ IF name[cursor] = NoName
     THEN UNCHANGED <<object, count>>
     ELSE /\ object' = [object EXCEPT ![cursor] = name[cursor]]
          /\ count' = count + 1
  /\ UNCHANGED <<slot, name, mode, victim, history>>

\* One iteration of DeviceManager::strapDevices.
StrapNext ==
  /\ mode = "strap"
  /\ cursor < MaxDevices
  /\ cursor' = cursor + 1
  /\ IF name[cursor] = NoName
     THEN UNCHANGED ram
     ELSE Apply(name[cursor])
  /\ UNCHANGED <<slot, mode, victim, history>>

StrapEnd ==
  /\ mode = "strap"
  /\ cursor = MaxDevices
  /\ mode' = "up"
  /\ cursor' = 0
  /\ UNCHANGED <<slot, ram, victim, history>>

-----------------------------------------------------------------------------
(* Cloud requests *)

\* An edit of a table that a torn removal or an empty one left behind.
Touch == damage' = IF damage \in {"torn", "emptied"} THEN "edited" ELSE damage

\* countDeviceType goes by the names, occupied or stale, of all indices.
CountDeviceType(k) ==
  Cardinality({i \in Index : name[i] # NoName /\ KindOf[name[i]] = k})

\* Slip: only the string itself is looked for.
ViolatesNameRule(v) == \E i \in Index : name[i] = v

ViolatesDeviceRules(v) ==
  \/ \E i \in Index : name[i] = v
  \/ CountDeviceType(KindOf[v]) > Limit[KindOf[v]]

\* Slip: MAX_DEVICES is not looked at.
AddDeviceUnbounded(v) ==
  /\ mode = "up"
  /\ ~ViolatesDeviceRules(v)
  /\ Apply(v)
  /\ slot' = [slot EXCEPT ![count] = v]
  /\ wanted' = wanted \union {v}
  /\ Touch
  /\ UNCHANGED <<mode, cursor, victim>>

\* A refused request only returns its code.
AddDevice(v) ==
  /\ mode = "up"
  /\ count < MaxDevices
  /\ ~ViolatesDeviceRules(v)
  /\ Apply(v)
  /\ slot' = [slot EXCEPT ![count] = v]
  /\ wanted' = wanted \union {v}
  /\ Touch
  /\ UNCHANGED <<mode, cursor, victim>>

\* containsValue: the first index that holds the string.
IsFirst(k, v) ==
  /\ name[k] = v
  /\ \A j \in 0 .. k - 1 : name[j] # v

\* Slip: the name is left in the table.
RemoveLastKeepsName(v) ==
  /\ mode = "up"
  /\ count > 0
  /\ \E k \in Index :
       /\ IsFirst(k, v)
       /\ k >= count - 1
       /\ object' = [object EXCEPT ![k] = NoName]
       /\ slot' = [slot EXCEPT ![k] = NoName]
  /\ count' = count - 1
  /\ wanted' = wanted \ {v}
  /\ Touch
  /\ UNCHANGED <<name, mode, cursor, victim>>

\* The last device: one slot is written (resetDeviceIndex).
RemoveLast(v) ==
  /\ mode = "up"
  /\ count > 0
  /\ \E k \in Index :
       /\ IsFirst(k, v)
       /\ k >= count - 1
       /\ object' = [object EXCEPT ![k] = NoName]
       /\ name' = [name EXCEPT ![k] = NoName]
       /\ slot' = [slot EXCEPT ![k] = NoName]
  /\ count' = count - 1
  /\ wanted' = wanted \ {v}
  /\ Touch
  /\ UNCHANGED <<mode, cursor, victim>>

\* Any other device: copyDevicesFromIndex is about to move its successors.
RemoveBegin(v) ==
  /\ mode = "up"
  /\ \E k \in Index :
       /\ IsFirst(k, v)
       /\ k < count - 1
       /\ cursor' = k + 1
  /\ mode' = "move"
  /\ victim' = v
  /\ Touch
  /\ UNCHANGED <<slot, ram, wanted>>

\* Slip: the freed index is written before the one below it.
ShiftMoveVacatesFirst ==
  /\ mode = "move"
  /\ object' = [object EXCEPT ![cursor - 1] = object[cursor], ![cursor] = NoName]
  /\ name' = [name EXCEPT ![cursor - 1] = name[cursor]]
  /\ slot' = [slot EXCEPT ![cursor] = NoName]
  /\ wanted' = wanted \ {victim}
  /\ mode' = "vacate"
  /\ UNCHANGED <<count, cursor, victim, damage>>

\* First half of an iteration: the device at cursor moves down by one.
ShiftMove ==
  /\ mode = "move"
  /\ cursor < count
  /\ object' = [object EXCEPT ![cursor - 1] = object[cursor], ![cursor] = NoName]
  /\ IF name[cursor] = NoName
     THEN UNCHANGED <<slot, name>>
     ELSE /\ name' = [name EXCEPT ![cursor - 1] = name[cursor]]
          /\ slot' = [slot EXCEPT ![cursor - 1] = name[cursor]]
  /\ wanted' = wanted \ {victim}
  /\ mode' = "vacate"
  /\ UNCHANGED <<count, cursor, victim, damage>>

\* Second half: the index it came from is freed.
ShiftVacate ==
  /\ mode = "vacate"
  /\ name' = [name EXCEPT ![cursor] = NoName]
  /\ slot' = [slot EXCEPT ![cursor] = NoName]
  /\ IF cursor + 1 < count
     THEN /\ mode' = "move"
          /\ cursor' = cursor + 1
          /\ UNCHANGED <<count, victim>>
     ELSE /\ mode' = "up"
          /\ cursor' = 0
          /\ victim' = NoName
          /\ count' = count - 1
  /\ UNCHANGED <<object, wanted, damage>>

Miscounted ==
  IF damage \in {"none", "emptied"} THEN "emptied"
  ELSE IF damage = "torn" THEN "edited" ELSE damage

\* Slip: the slot of the device that drops out is written as well.
RemoveEmptyFreesLast ==
  /\ mode = "up"
  /\ count > 0
  /\ \E k \in Index : IsFirst(k, NoName) /\ k >= count - 1
  /\ object' = [object EXCEPT ![count - 1] = NoName]
  /\ slot' = [slot EXCEPT ![count - 1] = NoName]
  /\ count' = count - 1
  /\ damage' = Miscounted
  /\ UNCHANGED <<name, mode, cursor, victim, wanted>>

\* The empty string is found at the first free index, which is written once
\* more, and the count goes down although nothing was removed: the last device
\* is out of every loop over the table until the next start-up, and a device
\* added meanwhile takes its slot.
RemoveEmpty ==
  /\ mode = "up"
  /\ count > 0
  /\ \E k \in Index :
       /\ IsFirst(k, NoName)
       /\ k >= count - 1
       /\ object' = [object EXCEPT ![k] = NoName]
       /\ slot' = [slot EXCEPT ![k] = NoName]
  /\ count' = count - 1
  /\ damage' = Miscounted
  /\ UNCHANGED <<name, mode, cursor, victim, wanted>>

\* The empty string, or a stale name of a table whose count was lowered, is
\* found while the count is zero: the count wraps to SIZE_MAX and clearArray
\* runs off the table.  The board faults, which is a power cut to this model.
RemoveFault(v) ==
  /\ mode = "up"
  /\ count = 0
  /\ \E k \in Index : IsFirst(k, v)
  /\ mode' = "off"
  /\ name' = Blank
  /\ object' = Blank
  /\ damage' = Recounted
  /\ UNCHANGED <<slot, count, cursor, victim, wanted>>

\* clearAllDevices("DELETE"): the table in RAM only.
ClearAllDevices ==
  /\ mode = "up"
  /\ count' = 0
  /\ name' = Blank
  /\ wanted' = {}
  /\ damage' = "cleared"
  /\ UNCHANGED <<slot, object, mode, cursor, victim>>

-----------------------------------------------------------------------------
Next ==
  \/ PowerCut
  \/ StrapBegin
  \/ StrapNext
  \/ StrapEnd
  \/ \E v \in Devices : AddDevice(v)
  \/ \E v \in Devices : RemoveLast(v)
  \/ \E v \in Devices : RemoveBegin(v)
  \/ RemoveEmpty
  \/ \E v \in Names : RemoveFault(v)
  \/ ShiftMove
  \/ ShiftVacate
  \/ ClearAllDevices

Spec == Init /\ [][Next]_vars

-----------------------------------------------------------------------------
(* Properties.  Three histories leave the table and the slots apart: a cut   *)
(* between two writes of a removal (a duplicate or a gap stays behind),      *)
(* clearAllDevices (the slots stay behind) and the removal of the empty      *)
(* string (the last device leaves the table, not its slot).  Each property   *)
(* says which of them it survives.                                           *)

\* At every instant, in the middle of a removal or of a start-up too, the
\* slots hold exactly the devices the operator has: no cut between two of
\* copyDevicesFromIndex's writes loses a device that was to stay, and a
\* removeDevice("") frees no slot.  It holds after a torn or an empty removal
\* until the table is edited again.
StoredIsWanted ==
  damage \in {"none", "torn", "emptied"} => Stored = wanted

\* A board that is up runs exactly the devices the operator has, the start-up
\* after a torn removal (strapDevices over a duplicate or a gap) included, and
\* the start-up that follows the removal of an empty string.
ActiveIsWanted ==
  mode = "up" /\ damage \in {"none", "torn"} => Active = wanted

\* Index by index, the slot, the name and the object agree (storeDevice's
\* index, valid - 1 or i - 1, is the one the table used); the names are dense,
\* so the index containsValue finds is below the count and the count of
\* removeDevice does not wrap; and no device is configured twice, although
\* strapDevices checks no rule.
TableMirrorsSlots ==
  mode = "up" /\ damage = "none" =>
    /\ \A i \in Index : /\ slot[i] = name[i]
                        /\ i < count => object[i] = name[i]
                        /\ (name[i] = NoName) <=> (i >= count)
    /\ \A i, j \in 0 .. count - 1 : name[i] = name[j] => i = j

\* violatesDeviceRules bounds every kind for good: strapDevices does not check
\* the rules, so the bound must survive removals and reboots by itself.
KindsWithinLimit ==
  mode = "up" /\ damage = "none" =>
    \A k \in Kinds :
      Cardinality({i \in 0 .. count - 1 : KindOf[object[i]] = k}) <= Limit[k] + 1

Promise == INSTANCE InstalledSet WITH installed <- Stored

\* Every write to storage is one abstract step of InstalledSet or none: a
\* removal that takes up to 2 * (MaxDevices - 1) writes takes effect at once.
WritesAreAtomic ==
  [][damage' \in {"none", "torn", "emptied"} => Promise!Next]_Stored

\* What clearAllDevices is documented to do, "Clears the device table and
\* Persistence data": a cleared device does not come back at a reboot.
ClearIsFinal ==
  mode = "up" /\ damage \in {"none", "cleared"} => Active \subseteq wanted

=============================================================================
