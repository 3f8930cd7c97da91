-------------------------- MODULE AddressRegistry --------------------------
(***************************************************************************)
(* The addresses Bootstrap gives to devices for their own configuration.   *)
(* A device that starts asks for the address of its name; the name is      *)
(* reduced to a number and looked up among the registrations; a new one is *)
(* put behind the last, first its entry, then the count.                   *)
(*                                                                         *)
(* Registrations run on the main loop, one at a time; the supply can fail  *)
(* between their two writes.  Every entry the lookup finds has a valid     *)
(* version, so registerAddress never hands out manualDeviceTracker; and the *)
(* storage has room for a full table (8197 bytes for 7 structures behind    *)
(* 533).                                                                    *)
(*                                                                         *)
(* Nothing compares the count with MAX_DEVICES where an entry is put.  What *)
(* is put behind the table is not found again, so its name registers anew   *)
(* at every start and the count, a byte, goes on to rise and wraps.  Each   *)
(* of these writes devices[] past its end: over the timers, then over the   *)
(* arrays of addresses and the addresses of the structures themselves.      *)
(* `overrun' says that this happened: entries may go astray then.  The      *)
(* table is followed further, with all that may become of it; what the      *)
(* devices make of their addresses is not, and no property claims anything  *)
(* of it.                                                                   *)
(***************************************************************************)
EXTENDS Integers, FiniteSets

CONSTANTS
  MaxDevices,   \* MAX_DEVICES
  Names,        \* name() or uniqueName() of the devices
  MachineName,  \* Utils::machineName(name, true)
  SizeOf,       \* size of the structure each of them stores
  Nobody,       \* no name, no address
  InitAddress,  \* DEVICE_SPECIFIC_CONFIG_ADDRESS
  StorageSize,  \* STORAGE_SIZE
  CountMod,     \* values of deviceMeta.count, a uint8_t
  MaxOverrun    \* bound for TLC on the entries behind the table; from 3 on it is none

ASSUME AddressAssumption ==
  /\ MaxDevices \in Nat \ {0}
  /\ MachineName \in [Names -> Nat \ {0}]
  /\ SizeOf \in [Names -> Nat \ {0}]
  /\ InitAddress \in Nat \ {0}
  /\ StorageSize \in Nat
  /\ \A n \in Names : InitAddress + MaxDevices * (SizeOf[n] + 8) < StorageSize
  /\ CountMod \in Nat
  /\ CountMod > MaxDevices
  /\ MaxOverrun \in Nat
  /\ Nobody \notin Names
  /\ Nobody \notin Nat
  /\ Nobody \notin [at : Nat, by : Names]

Index == 0 .. MaxDevices - 1
Count == 0 .. CountMod - 1

VARIABLES
  metaCount,  \* persisted deviceMeta.count
  meta,       \* persisted entries, at deviceMetaAddresses
  count,      \* deviceMeta.count
  devices,    \* Bootstrap::devices
  adding,     \* who has an entry written and not yet counted, and for where
  address,    \* the address each started device keeps
  config,     \* persisted configurations: where, and whose
  given,      \* history: the address each name was given since the last clear
  cleared,    \* history: was there a clear
  overrun,    \* history: entries put behind the end of devices[]: none, one or more
  lost        \* history: configured devices whose slot was overwritten

stored == <<metaCount, meta>>
ram == <<count, devices>>
vars == <<stored, ram, adding, address, config, given, cleared, overrun, lost>>

Entries == [name : Nat, size : Nat, address : Nat]
Blank == [name |-> 0, size |-> 0, address |-> 0]
NoneOf == [n \in Names |-> Nobody]

TypeOK ==
  /\ metaCount \in Count
  /\ meta \in [Index -> Entries]
  /\ count \in Count
  /\ devices \in [Index -> Entries]
  /\ adding \in [at : Nat, by : Names] \union {Nobody}
  /\ address \in [Names -> Nat \union {Nobody}]
  /\ config \subseteq [at : Nat, by : Names]
  /\ given \in [Names -> Nat \union {Nobody}]
  /\ cleared \in BOOLEAN
  /\ overrun \in 0 .. 2
  /\ lost \subseteq Index

Init ==
  /\ metaCount = 0
  /\ meta = [i \in Index |-> Blank]
  /\ count = 0
  /\ devices = [i \in Index |-> Blank]
  /\ adding = Nobody
  /\ address = NoneOf
  /\ config = {}
  /\ given = NoneOf
  /\ cleared = FALSE
  /\ overrun = 0
  /\ lost = {}

-----------------------------------------------------------------------------
(* Looking up *)

\* Slip: the last registration is not looked at.
FoundButLast(n) ==
  {i \in Index : i < count - 1 /\ devices[i].name = MachineName[n]}

\* getDeviceByName: the registrations of this name.
Found(n) == {i \in Index : i < count /\ devices[i].name = MachineName[n]}

First(S) == CHOOSE i \in S : \A j \in S : i <= j

DoesNotExceed(a) == InitAddress <= a /\ a < StorageSize

\* The last entry with an address in range, or -1.
MaxAddressIndex ==
  LET used == {i \in Index : DoesNotExceed(devices[i].address)}
  IN IF used = {} THEN -1 ELSE CHOOSE i \in used : \A j \in used : j <= i

\* getNextDeviceAddress: behind that entry.
NextAddress ==
  IF MaxAddressIndex = -1
  THEN InitAddress
  ELSE devices[MaxAddressIndex].size + devices[MaxAddressIndex].address + 8

\* The device starts and keeps this address.  (Devices are followed until an
\* entry goes behind the table.)
Starts(n, a) ==
  IF overrun = 0
  THEN address' = [address EXCEPT ![n] = a] /\ given' = [given EXCEPT ![n] = a]
  ELSE UNCHANGED <<address, given>>

-----------------------------------------------------------------------------
(* Registration *)

\* registerAddress of a name that is registered.
RegisterKnown(n) ==
  /\ adding = Nobody
  /\ Found(n) # {}
  /\ Starts(n, devices[First(Found(n))].address)
  /\ UNCHANGED <<stored, ram, adding, config, cleared, overrun, lost>>

Entry(n) == [name |-> MachineName[n], size |-> SizeOf[n], address |-> NextAddress]

\* The first entry behind devices[] covers the timers, a further one the arrays of
\* addresses in RAM.
Astray == overrun = 2 \/ count >= 2 * MaxDevices

\* Persist.put at deviceMetaAddresses[count].  Behind the array lies that of the
\* configured devices' slots; behind both, and once they were overwritten, the
\* address is whatever the memory holds: another entry's, the count's, any.
PutEntry(entry) ==
  \/ /\ count \in Index
     /\ meta' = [meta EXCEPT ![count] = entry]
     /\ UNCHANGED <<metaCount, lost>>
  \/ /\ count - MaxDevices \in Index
     /\ lost' = lost \union {count - MaxDevices}
     /\ UNCHANGED stored
  \/ /\ Astray
     /\ \/ \E i \in Index : meta' = [meta EXCEPT ![i] = entry] /\ UNCHANGED metaCount
        \/ metaCount' \in Count /\ UNCHANGED meta
     /\ UNCHANGED lost

\* ... of a new one: addNewDeviceToStructure puts its entry ...
RegisterNew(n) ==
  /\ adding = Nobody
  /\ Found(n) = {}
  /\ NextAddress <= StorageSize
  /\ count \in Index
  /\ devices' = [devices EXCEPT ![count] = Entry(n)]
  /\ PutEntry(Entry(n))
  /\ adding' = [at |-> NextAddress, by |-> n]
  /\ UNCHANGED <<count, address, config, given, cleared, overrun>>

\* ... which with a full table lands behind it, in RAM and in the storage.
\* (The board may fault on what devices[count] overwrites: a power cut.)
RegisterOverflow(n) ==
  /\ adding = Nobody
  /\ Found(n) = {}
  /\ NextAddress <= StorageSize
  /\ count \notin Index
  /\ overrun < MaxOverrun
  /\ PutEntry(Entry(n))
  /\ overrun' = IF overrun = 0 THEN 1 ELSE 2
  /\ adding' = [at |-> NextAddress, by |-> n]
  /\ UNCHANGED <<ram, address, config, given, cleared>>

\* ... or is refused beyond the end of the storage; the device starts there.
RegisterRefused(n) ==
  /\ adding = Nobody
  /\ Found(n) = {}
  /\ NextAddress > StorageSize
  /\ Starts(n, NextAddress)
  /\ UNCHANGED <<stored, ram, adding, config, cleared, overrun, lost>>

\* Slip: the count is kept in RAM only.
RegisterCountedInRam ==
  /\ adding # Nobody
  /\ count' = (count + 1) % CountMod
  /\ UNCHANGED metaCount
  /\ Starts(adding.by, adding.at)
  /\ adding' = Nobody
  /\ UNCHANGED <<meta, devices, config, cleared, overrun, lost>>

\* Slip: the count is wider than the byte.
RegisterCountedWide ==
  /\ adding # Nobody
  /\ count' = count + 1
  /\ metaCount' \in {count'} \union (IF Astray THEN {metaCount} ELSE {})
  /\ Starts(adding.by, adding.at)
  /\ adding' = Nobody
  /\ UNCHANGED <<meta, devices, config, cleared, overrun, lost>>

\* saveDeviceMetaDetails, at an address that may have been overwritten.
SaveCount(c) == metaCount' \in {c} \union (IF Astray THEN {metaCount} ELSE {})

\* ... and counts it.
RegisterCounted ==
  /\ adding # Nobody
  /\ count' = (count + 1) % CountMod
  /\ SaveCount(count')
  /\ Starts(adding.by, adding.at)
  /\ adding' = Nobody
  /\ UNCHANGED <<meta, devices, config, cleared, overrun, lost>>

-----------------------------------------------------------------------------
(* The devices, the operator and the supply *)

\* A device writes its configuration, its defaults or what the operator has set
\* (some check first that the address is in range, others do not).  A removal
\* leaves registration and configuration: a removed device writes no more.  Like
\* Starts, followed until an entry goes behind the table.
Configure(n) ==
  /\ adding = Nobody
  /\ address[n] # Nobody
  /\ overrun = 0
  /\ config' = {c \in config : c.at # address[n]} \union {[at |-> address[n], by |-> n]}
  /\ UNCHANGED <<stored, ram, adding, address, given, cleared, overrun, lost>>

\* clearDeviceConfigArray.  The devices' objects are not deleted, and their
\* cloud functions still write where they were.  (Bound: one clear.)
ClearDeviceConfigArray ==
  /\ adding = Nobody
  /\ ~cleared
  /\ count' = 0
  /\ SaveCount(0)
  /\ devices' = [i \in Index |-> Blank]
  /\ given' = NoneOf
  /\ cleared' = TRUE
  /\ UNCHANGED <<meta, adding, address, config, overrun, lost>>

\* Slip: the count is pulled and the entries are not.
RestartKeepsCountOnly ==
  /\ count' = metaCount
  /\ devices' = [i \in Index |-> Blank]
  /\ adding' = Nobody
  /\ address' = NoneOf
  /\ UNCHANGED <<stored, config, given, cleared, overrun, lost>>

\* The board restarts: pullRegistration and collectDevices.
Restart ==
  /\ count' = metaCount
  /\ devices' = [i \in Index |-> IF i < metaCount THEN meta[i] ELSE Blank]
  /\ adding' = Nobody
  /\ address' = NoneOf
  /\ UNCHANGED <<stored, config, given, cleared, overrun, lost>>

Next ==
  \/ \E n \in Names :
       \/ RegisterKnown(n)
       \/ RegisterNew(n)
       \/ RegisterOverflow(n)
       \/ RegisterRefused(n)
       \/ Configure(n)
  \/ RegisterCounted
  \/ ClearDeviceConfigArray
  \/ Restart

Spec == Init /\ [][Next]_vars

-----------------------------------------------------------------------------
(* Properties *)

\* Until the table overflows no two names share an address, whatever was
\* removed, interrupted or restarted since the last clear, unless machineName
\* reduces them to the same number.
AddressesDiffer ==
  overrun = 0 =>
    \A m, n \in Names :
      given[m] = given[n] /\ given[m] # Nobody =>
        MachineName[m] = MachineName[n]

\* "The predictable address": until the registrations are cleared a name is
\* given the address it had, at every start and in any order of the devices,
\* after a cut between the two writes too, as long as no name is put behind
\* the table.
AddressIsPredictable ==
  [][overrun' = 0 =>
       \A n \in Names :
         given[n] # Nobody /\ given'[n] # Nobody => given'[n] = given[n]]_vars

\* What is stored at the address a name was given was written by a device of
\* that name, or of one machineName reduces to the same number; a clear, after
\* which addresses are handed out anew over old configurations, and a table
\* that overflowed are excepted.
OwnConfiguration ==
  ~cleared /\ overrun = 0 =>
    \A n \in Names : \A c \in config :
      c.at = given[n] => MachineName[c.by] = MachineName[n]

\* What setMetaAddresses is documented to do, "Puts all the potential addresses
\* into memory": a registration never needs another, and no configured device
\* is overwritten.
AddressesSuffice == lost = {}
=============================================================================
