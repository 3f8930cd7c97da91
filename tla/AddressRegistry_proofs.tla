------------------------ MODULE AddressRegistry_proofs ------------------------
(***************************************************************************)
(* Addresses are predictable, distinct and lead to a device's own          *)
(* configuration until the table overflows, proved for every table, set of *)
(* names and sizes.  Entries are put one behind the other, so their         *)
(* addresses grow with their index, and what a device was given is the      *)
(* address of its entry.                                                    *)
(***************************************************************************)
EXTENDS AddressRegistry, TLAPS, WellFoundedInduction

-----------------------------------------------------------------------------
(* The inductive invariant *)

\* Entries that are written: the counted ones, and one that is being added.
Written == IF adding # Nobody THEN count + 1 ELSE count

\* An entry lies in the storage: no further than entries of the largest size
\* before it would have put it.
Placed(i) ==
  /\ devices[i].address >= InitAddress
  /\ \E n \in Names : devices[i].size = SizeOf[n]
  /\ \E n \in Names : devices[i].address <= InitAddress + (i * (SizeOf[n] + 8))

\* RAM and storage agree on the counted entries, and nothing is behind them.
Table ==
  /\ metaCount = count
  /\ Written <= MaxDevices
  /\ \A i \in Index : i < count => meta[i] = devices[i]
  /\ \A i \in Index : i < Written => Placed(i)
  /\ \A i \in Index : i >= Written => devices[i] = Blank
  /\ \A i, j \in Index : i < j /\ j < Written => devices[i].address < devices[j].address
  /\ \A i, j \in Index :
       i < count /\ j < count /\ devices[i].name = devices[j].name => i = j

\* A registration between its two writes.
Adding ==
  adding # Nobody =>
    /\ Found(adding.by) = {}
    /\ devices[count].name = MachineName[adding.by]
    /\ devices[count].address = adding.at
    /\ meta[count] = devices[count]

\* What a name was given is in its entry.
Given ==
  \A n \in Names : given[n] # Nobody =>
    \E i \in Found(n) : devices[i].address = given[n]

\* Until a clear, devices run with the address they were given and have written
\* there.
Kept ==
  ~cleared =>
    /\ \A n \in Names : address[n] # Nobody => address[n] = given[n]
    /\ \A c \in config : c.at = given[c.by]

Good == Table /\ Adding /\ Given /\ Kept

IInv == TypeOK /\ (overrun = 0 => Good)

-----------------------------------------------------------------------------
(* Ranges: these hold with a table that overflowed too *)

\* A set of numbers has a least one ...
LEMMA LeastExists ==
  ASSUME NEW T, T \subseteq Nat, T # {}
  PROVE  \E x \in T : \A y \in T : x <= y
<1> DEFINE R == OpToRel(<, Nat)
<1>1. IsWellFoundedOn(R, Nat)
  BY NatLessThanWellFounded
<1>2. PICK x \in T : \A y \in T : ~(<<y, x>> \in R)
  <2> HIDE DEF R
  <2> QED BY <1>1, WFMin
<1>3. \A y \in T : ~(y < x)
  BY <1>2 DEF OpToRel
<1> QED BY <1>3

\* ... and a last one, if it is bounded.
LEMMA LastExists ==
  ASSUME NEW b \in Nat, NEW T, T \subseteq 0 .. b, T # {}
  PROVE  \E x \in T : \A y \in T : y <= x
<1> DEFINE U == {b - x : x \in T}
<1>1. \A x \in T : b - x \in Nat
  OBVIOUS
<1>2. U \subseteq Nat /\ U # {}
  <2> HIDE DEF U
  <2>1. \A x \in T : b - x \in U
    BY DEF U
  <2>2. \A u \in U : \E x \in T : u = b - x
    BY DEF U
  <2> QED BY <1>1, <2>1, <2>2
<1>3. PICK u \in U : \A v \in U : u <= v
  BY <1>2, LeastExists
<1>4. PICK x \in T : u = b - x
  OBVIOUS
<1>5. ASSUME NEW y \in T
      PROVE  y <= x
  <2>1. u <= b - y
    BY <1>3
  <2> QED BY <2>1, <1>4
<1> QED BY <1>5

\* The next address is a number.
LEMMA NextAddressType == TypeOK => NextAddress \in Nat
<1> SUFFICES ASSUME TypeOK
             PROVE  NextAddress \in Nat
  OBVIOUS
<1> DEFINE used == {i \in Index : DoesNotExceed(devices[i].address)}
<1>1. CASE used = {}
  BY <1>1, AddressAssumption DEF NextAddress, MaxAddressIndex
<1>2. CASE used # {}
  <2>1. MaxDevices - 1 \in Nat /\ used \subseteq 0 .. (MaxDevices - 1)
    BY AddressAssumption DEF Index
  <2>2. \E i \in used : \A j \in used : j <= i
    <3> HIDE DEF used
    <3> QED BY <1>2, <2>1, LastExists
  <2>3. MaxAddressIndex \in Index
    BY <1>2, <2>2 DEF MaxAddressIndex
  <2>4. MaxAddressIndex # -1
    BY <2>3, AddressAssumption DEF Index
  <2> QED BY <2>3, <2>4 DEF NextAddress, TypeOK, Entries
<1> QED BY <1>1, <1>2

\* A registration that is found is one of the table.
LEMMA FirstType ==
  ASSUME NEW n, Found(n) # {}
  PROVE  First(Found(n)) \in Found(n)
<1>1. Found(n) \subseteq Nat
  BY AddressAssumption DEF Found, Index
<1>2. \E i \in Found(n) : \A j \in Found(n) : i <= j
  BY <1>1, LeastExists
<1> QED BY <1>2 DEF First

LEMMA PutEntryType ==
  ASSUME TypeOK, NEW e \in Entries, PutEntry(e)
  PROVE  metaCount' \in Count /\ meta' \in [Index -> Entries] /\ lost' \subseteq Index
BY DEF TypeOK, PutEntry, stored

LEMMA SaveCountType ==
  ASSUME TypeOK, NEW c \in Count, SaveCount(c)
  PROVE  metaCount' \in Count
BY DEF TypeOK, SaveCount

LEMMA EntryType ==
  ASSUME TypeOK, NEW n \in Names
  PROVE  Entry(n) \in Entries
BY NextAddressType, AddressAssumption DEF Entry, Entries

\* Every step keeps the ranges.
LEMMA TypeNext == TypeOK /\ [Next]_vars => TypeOK'
<1> SUFFICES ASSUME TypeOK, [Next]_vars
             PROVE  TypeOK'
  OBVIOUS
<1>0. /\ CountMod \in Nat \ {0} /\ MaxDevices \in Nat \ {0} /\ NextAddress \in Nat
      /\ 0 \in Count /\ Blank \in Entries
  BY NextAddressType, AddressAssumption DEF Blank, Entries, Count
<1>1. ASSUME NEW n \in Names, RegisterKnown(n)
      PROVE  TypeOK'
  <2>1. First(Found(n)) \in Index
    BY <1>1, FirstType DEF RegisterKnown, Found
  <2>2. devices[First(Found(n))].address \in Nat
    BY <2>1 DEF TypeOK, Entries
  <2> QED BY <1>1, <2>2 DEF TypeOK, RegisterKnown, Starts, stored, ram
<1>2. ASSUME NEW n \in Names, RegisterNew(n)
      PROVE  TypeOK'
  <2>1. metaCount' \in Count /\ meta' \in [Index -> Entries] /\ lost' \subseteq Index
    BY <1>2, EntryType, PutEntryType DEF RegisterNew
  <2>2. devices' \in [Index -> Entries] /\ adding' \in [at : Nat, by : Names]
    BY <1>0, <1>2, EntryType DEF RegisterNew, TypeOK
  <2> QED BY <1>2, <2>1, <2>2 DEF TypeOK, RegisterNew
<1>3. ASSUME NEW n \in Names, RegisterOverflow(n)
      PROVE  TypeOK'
  <2>1. metaCount' \in Count /\ meta' \in [Index -> Entries] /\ lost' \subseteq Index
    BY <1>3, EntryType, PutEntryType DEF RegisterOverflow
  <2>2. overrun' \in 0 .. 2 /\ adding' \in [at : Nat, by : Names]
    BY <1>0, <1>3 DEF RegisterOverflow
  <2> QED BY <1>3, <2>1, <2>2 DEF TypeOK, RegisterOverflow, ram
<1>4. ASSUME NEW n \in Names, RegisterRefused(n)
      PROVE  TypeOK'
  BY <1>0, <1>4 DEF TypeOK, RegisterRefused, Starts, stored, ram
<1>5. ASSUME NEW n \in Names, Configure(n)
      PROVE  TypeOK'
  BY <1>5 DEF TypeOK, Configure, stored, ram
<1>6. CASE RegisterCounted
  <2>1. count' \in Count
    BY <1>0, <1>6 DEF RegisterCounted, Count, TypeOK
  <2>2. metaCount' \in Count
    BY <1>6, <2>1, SaveCountType DEF RegisterCounted
  <2>3. adding.by \in Names /\ adding.at \in Nat
    BY <1>6 DEF RegisterCounted, TypeOK
  <2> QED BY <1>6, <2>1, <2>2, <2>3 DEF TypeOK, RegisterCounted, Starts
<1>7. CASE ClearDeviceConfigArray
  <2>1. metaCount' \in Count
    BY <1>0, <1>7, SaveCountType DEF ClearDeviceConfigArray
  <2> QED BY <1>0, <1>7, <2>1 DEF TypeOK, ClearDeviceConfigArray, NoneOf
<1>8. CASE Restart
  BY <1>0, <1>8 DEF TypeOK, Restart, stored, NoneOf
<1>9. CASE UNCHANGED vars
  BY <1>9 DEF TypeOK, vars, stored, ram
<1> QED BY <1>1, <1>2, <1>3, <1>4, <1>5, <1>6, <1>7, <1>8, <1>9 DEF Next

-----------------------------------------------------------------------------
(* Where the next entry goes *)

LEMMA Products ==
  ASSUME NEW a \in Nat, NEW b \in Nat, NEW x \in Nat, NEW y \in Nat, a <= b, x <= y
  PROVE  a * x \in Nat /\ b * y \in Nat /\ a * x <= b * y
<1>1. a * x <= b * x /\ a * x \in Nat
  OBVIOUS
<1>2. b * x <= b * y /\ b * y \in Nat
  OBVIOUS
<1> QED BY <1>1, <1>2

LEMMA WrittenType ==
  TypeOK /\ Table => /\ Written \in 0 .. MaxDevices /\ count \in Nat /\ count <= Written
                     /\ MaxDevices \in Nat \ {0}
BY AddressAssumption DEF TypeOK, Table, Written, Count

\* An entry that is placed is in range.
LEMMA PlacedInRange ==
  ASSUME TypeOK, NEW i \in Index, Placed(i)
  PROVE  DoesNotExceed(devices[i].address)
<1>1. PICK n \in Names : devices[i].address <= InitAddress + (i * (SizeOf[n] + 8))
  BY DEF Placed
<1>2. /\ SizeOf[n] + 8 \in Nat /\ i \in Nat /\ MaxDevices \in Nat /\ i <= MaxDevices
      /\ InitAddress \in Nat /\ StorageSize \in Nat
  BY AddressAssumption DEF Index
<1>3. i * (SizeOf[n] + 8) \in Nat /\ i * (SizeOf[n] + 8) <= MaxDevices * (SizeOf[n] + 8)
  BY <1>2, Products
<1>4. MaxDevices * (SizeOf[n] + 8) \in Nat
  BY <1>2, Products
<1>5. InitAddress + (MaxDevices * (SizeOf[n] + 8)) < StorageSize
  BY AddressAssumption
<1>6. devices[i].address \in Nat /\ devices[i].address >= InitAddress
  BY DEF TypeOK, Entries, Placed
<1> DEFINE near == i * (SizeOf[n] + 8)
           far == MaxDevices * (SizeOf[n] + 8)
<1>7. near \in Nat /\ far \in Nat /\ near <= far /\ devices[i].address <= InitAddress + near
      /\ InitAddress + far < StorageSize
  BY <1>1, <1>3, <1>4, <1>5
<1> HIDE DEF near, far
<1> QED BY <1>2, <1>6, <1>7 DEF DoesNotExceed

\* The last address in range is that of the last entry written.
LEMMA LastIsWritten ==
  ASSUME TypeOK, Table
  PROVE  MaxAddressIndex = Written - 1
<1> DEFINE used == {i \in Index : DoesNotExceed(devices[i].address)}
<1>1. used = {i \in Index : i < Written}
  <2>1. ASSUME NEW i \in Index, i < Written
        PROVE  DoesNotExceed(devices[i].address)
    BY <2>1, PlacedInRange DEF Table
  <2>2. ASSUME NEW i \in Index, ~(i < Written)
        PROVE  ~DoesNotExceed(devices[i].address)
    BY <2>2, WrittenType, AddressAssumption DEF Table, Blank, DoesNotExceed, Index
  <2> QED BY <2>1, <2>2
<1>2. Written \in 0 .. MaxDevices /\ MaxDevices \in Nat
  BY WrittenType, AddressAssumption
<1>3. CASE Written = 0
  <2>1. used = {}
    BY <1>1, <1>3 DEF Index
  <2> QED BY <1>3, <2>1 DEF MaxAddressIndex
<1>4. CASE Written # 0
  <2>1. Written - 1 \in used /\ \A j \in used : j <= Written - 1
    BY <1>1, <1>2, <1>4 DEF Index
  <2>2. \A i \in used : (\A j \in used : j <= i) => i = Written - 1
    BY <1>1, <1>2, <2>1 DEF Index
  <2> HIDE DEF used
  <2>3. (CHOOSE i \in used : \A j \in used : j <= i) = Written - 1
    BY <2>1, <2>2
  <2>4. used # {}
    BY <2>1
  <2> QED BY <2>3, <2>4 DEF MaxAddressIndex, used
<1> QED BY <1>3, <1>4

\* The next address is behind every entry, where an entry may be placed.
LEMMA NextIsBehind ==
  ASSUME TypeOK, Table, NEW n \in Names
  PROVE  /\ NextAddress \in Nat
         /\ NextAddress >= InitAddress
         /\ \A i \in Index : i < Written => devices[i].address < NextAddress
         /\ \E m \in Names : NextAddress <= InitAddress + (Written * (SizeOf[m] + 8))
<1>1. /\ Written \in 0 .. MaxDevices /\ MaxDevices \in Nat /\ InitAddress \in Nat
      /\ SizeOf \in [Names -> Nat]
      /\ \A i \in Index : devices[i].address \in Nat /\ devices[i].size \in Nat
  BY WrittenType, AddressAssumption DEF TypeOK, Entries
<1>2. CASE Written = 0
  <2>1. NextAddress = InitAddress
    BY <1>2, LastIsWritten DEF NextAddress
  <2>2. 0 * (SizeOf[n] + 8) = 0
    BY <1>1
  <2> QED BY <1>1, <1>2, <2>1, <2>2 DEF Index
<1>3. CASE Written # 0
  <2> DEFINE last == Written - 1
  <2>1. last \in Index /\ last < Written /\ last # -1 /\ last + 1 = Written /\ last \in Nat
    BY <1>1, <1>3 DEF Index
  <2>2. NextAddress = devices[last].size + devices[last].address + 8
    BY <2>1, LastIsWritten DEF NextAddress
  <2>3. Placed(last)
    BY <2>1 DEF Table
  <2>4. PICK m \in Names : devices[last].size = SizeOf[m]
    BY <2>3 DEF Placed
  <2>5. PICK k \in Names : devices[last].address <= InitAddress + (last * (SizeOf[k] + 8))
    BY <2>3 DEF Placed
  <2>6. PICK b \in Names : SizeOf[m] <= SizeOf[b] /\ SizeOf[k] <= SizeOf[b]
    BY <1>1
  <2> HIDE DEF last
  <2>7. last * (SizeOf[k] + 8) <= last * (SizeOf[b] + 8) /\ last * (SizeOf[k] + 8) \in Nat
        /\ last * (SizeOf[b] + 8) \in Nat
    BY <1>1, <2>1, <2>6, Products
  <2>8. (last + 1) * (SizeOf[b] + 8) = (last * (SizeOf[b] + 8)) + SizeOf[b] + 8
    BY <1>1, <2>1
  <2>9. NextAddress <= InitAddress + (Written * (SizeOf[b] + 8))
    <3> DEFINE x == last * (SizeOf[k] + 8)
               y == last * (SizeOf[b] + 8)
               z == Written * (SizeOf[b] + 8)
    <3>1. /\ x \in Nat /\ y \in Nat /\ x <= y /\ z = y + SizeOf[b] + 8
          /\ devices[last].address <= InitAddress + x
      BY <2>1, <2>5, <2>7, <2>8
    <3> HIDE DEF x, y, z
    <3>2. NextAddress <= InitAddress + z
      BY <1>1, <2>1, <2>2, <2>4, <2>6, <3>1
    <3> QED BY <3>2 DEF z
  <2>10. ASSUME NEW i \in Index, i < Written
         PROVE  devices[i].address < NextAddress
    <3>1. i = last \/ i < last
      BY <2>1, <2>10, <1>1 DEF Index
    <3>2. devices[i].address <= devices[last].address
      BY <1>1, <2>1, <3>1 DEF Table
    <3> QED BY <1>1, <2>1, <2>2, <3>2
  <2>11. NextAddress \in Nat /\ NextAddress >= InitAddress
    BY <1>1, <2>1, <2>2, <2>3 DEF Placed
  <2> QED BY <2>9, <2>10, <2>11
<1> QED BY <1>2, <1>3

-----------------------------------------------------------------------------
(* The steps *)

\* There is room behind every table that did not overflow.
LEMMA NextFits ==
  ASSUME TypeOK, Table, Names # {}
  PROVE  NextAddress <= StorageSize
<1>1. PICK m \in Names : NextAddress <= InitAddress + (Written * (SizeOf[m] + 8))
  BY NextIsBehind
<1>2. /\ Written \in Nat /\ MaxDevices \in Nat /\ Written <= MaxDevices
      /\ SizeOf[m] + 8 \in Nat /\ InitAddress \in Nat /\ StorageSize \in Nat
  BY WrittenType, AddressAssumption
<1> DEFINE near == Written * (SizeOf[m] + 8)
           far == MaxDevices * (SizeOf[m] + 8)
<1>3. near \in Nat /\ far \in Nat /\ near <= far
  BY <1>2, Products
<1>4. NextAddress <= InitAddress + near /\ InitAddress + far < StorageSize
  BY <1>1, AddressAssumption
<1>5. NextAddress \in Nat
  BY NextAddressType
<1> HIDE DEF near, far
<1> QED BY <1>2, <1>3, <1>4, <1>5

-----------------------------------------------------------------------------
(* The steps, while the table has not overflowed *)

\* What looks only at the table is the same while the table is.
LEMMA SameTable ==
  ASSUME UNCHANGED <<devices, count>>
  PROVE  NextAddress' = NextAddress /\ \A n : Found(n)' = Found(n)
BY DEF NextAddress, MaxAddressIndex, Found

\* A registered name has one entry, and was given its address.
LEMMA FoundIsGiven ==
  ASSUME TypeOK, Good, NEW n \in Names, Found(n) # {}
  PROVE  /\ First(Found(n)) \in Found(n)
         /\ devices[First(Found(n))].address \in Nat
         /\ given[n] # Nobody => given[n] = devices[First(Found(n))].address
<1>1. First(Found(n)) \in Found(n)
  BY FirstType
<1>2. \A j \in Found(n) : j = First(Found(n))
  BY <1>1 DEF Good, Table, Found
<1>3. given[n] # Nobody => \E j \in Found(n) : devices[j].address = given[n]
  BY DEF Good, Given
<1> QED BY <1>1, <1>2, <1>3 DEF TypeOK, Entries, Found

LEMMA ByRegisterKnown ==
  \A n \in Names : TypeOK /\ Good /\ overrun = 0 /\ RegisterKnown(n) => Good'
<1> SUFFICES ASSUME NEW n \in Names, TypeOK, Good, overrun = 0, RegisterKnown(n)
             PROVE  Good'
  OBVIOUS
<1>1. /\ UNCHANGED <<metaCount, meta, count, devices, adding, config, cleared, lost>>
      /\ adding = Nobody
  BY DEF RegisterKnown, stored, ram
<1> DEFINE a == devices[First(Found(n))].address
<1>2. /\ First(Found(n)) \in Found(n) /\ a \in Nat /\ (given[n] # Nobody => given[n] = a)
      /\ address' = [address EXCEPT ![n] = a] /\ given' = [given EXCEPT ![n] = a]
  BY FoundIsGiven DEF RegisterKnown, Starts
<1>3. \A m : Found(m)' = Found(m)
  BY <1>1, SameTable
<1>5. Table' /\ Adding'
  BY <1>1 DEF Good, Table, Written, Placed, Adding
<1>6. Given'
  <2> SUFFICES ASSUME NEW m \in Names, given'[m] # Nobody
               PROVE  \E i \in Found(m)' : devices'[i].address = given'[m]
    BY DEF Given
  <2>1. CASE m = n
    BY <1>1, <1>2, <1>3, <2>1 DEF TypeOK
  <2>2. CASE m # n
    BY <1>1, <1>2, <1>3, <2>2 DEF Good, TypeOK, Given
  <2> QED BY <2>1, <2>2
<1>7. Kept'
  <2>1. \A m \in Names : given[m] # Nobody => given'[m] = given[m]
    BY <1>2 DEF TypeOK
  <2>2. \A m \in Names : ~cleared /\ address'[m] # Nobody => address'[m] = given'[m]
    BY <1>2 DEF Good, TypeOK, Kept
  <2>3. \A c \in config : ~cleared => c.at = given'[c.by]
    BY <2>1, AddressAssumption DEF Good, TypeOK, Kept
  <2> QED BY <1>1, <2>2, <2>3 DEF Kept
<1> QED BY <1>5, <1>6, <1>7 DEF Good

\* With a table that has not overflowed the entry lands in its slot.
LEMMA ByRegisterNew ==
  \A n \in Names : TypeOK /\ Good /\ overrun = 0 /\ RegisterNew(n) => Good'
<1> SUFFICES ASSUME NEW n \in Names, TypeOK, Good, overrun = 0, RegisterNew(n)
             PROVE  Good'
  OBVIOUS
<1> DEFINE entry == [name |-> MachineName[n], size |-> SizeOf[n], address |-> NextAddress]
<1>0. count \in Nat /\ MaxDevices \in Nat \ {0} /\ count < MaxDevices /\ count \in Index
  BY AddressAssumption DEF RegisterNew, Index
<1>1. /\ adding = Nobody /\ Found(n) = {}
      /\ devices' = [devices EXCEPT ![count] = entry]
      /\ meta' = [meta EXCEPT ![count] = entry]
      /\ adding' = [at |-> NextAddress, by |-> n]
      /\ UNCHANGED <<metaCount, count, address, config, given, cleared>>
  <2>1. ~Astray /\ ~(count - MaxDevices \in Index)
    BY <1>0 DEF Astray, Index
  <2>2. meta' = [meta EXCEPT ![count] = entry] /\ UNCHANGED metaCount
    BY <2>1 DEF RegisterNew, PutEntry, Entry
  <2> QED BY <2>2 DEF RegisterNew, Entry
<1>2. /\ NextAddress \in Nat /\ NextAddress >= InitAddress
      /\ \A i \in Index : i < Written => devices[i].address < NextAddress
      /\ \E m \in Names : NextAddress <= InitAddress + (Written * (SizeOf[m] + 8))
  BY NextIsBehind DEF Good
<1>4. adding' # Nobody
  BY <1>1, <1>2, AddressAssumption
<1>5. Written = count /\ Written' = count + 1
  BY <1>1, <1>4 DEF Written
<1>7. /\ devices'[count] = entry /\ meta'[count] = entry
      /\ \A i \in Index : i # count => devices'[i] = devices[i] /\ meta'[i] = meta[i]
  BY <1>0, <1>1 DEF TypeOK
<1>8. Table'
  <2>1. metaCount' = count' /\ \A i \in Index : i < count' => meta'[i] = devices'[i]
    BY <1>0, <1>1, <1>7 DEF Good, Table, Index
  <2>2. \A i \in Index : i < Written' => Placed(i)'
    <3> SUFFICES ASSUME NEW i \in Index, i < Written'
                 PROVE  Placed(i)'
      OBVIOUS
    <3>1. CASE i = count
      BY <1>2, <1>5, <1>7, <3>1 DEF Placed
    <3>2. CASE i # count
      <4>1. i < Written
        BY <1>0, <1>5, <3>2 DEF Index
      <4> QED BY <1>7, <3>2, <4>1 DEF Good, Table, Placed
    <3> QED BY <3>1, <3>2
  <2>3. \A i \in Index : i >= Written' => devices'[i] = Blank
    BY <1>0, <1>5, <1>7 DEF Good, Table, Index
  <2>4. \A i, j \in Index : i < j /\ j < Written' => devices'[i].address < devices'[j].address
    <3> SUFFICES ASSUME NEW i \in Index, NEW j \in Index, i < j, j < Written'
                 PROVE  devices'[i].address < devices'[j].address
      OBVIOUS
    <3>1. CASE j = count
      BY <1>0, <1>2, <1>5, <1>7, <3>1 DEF Index
    <3>2. CASE j # count
      <4>1. j < Written /\ i # count
        BY <1>0, <1>5, <3>2 DEF Index
      <4> QED BY <1>7, <3>2, <4>1 DEF Good, Table
    <3> QED BY <3>1, <3>2
  <2>5. \A i, j \in Index :
          i < count' /\ j < count' /\ devices'[i].name = devices'[j].name => i = j
    BY <1>0, <1>1, <1>7 DEF Good, Table, Index
  <2>6. Written' <= MaxDevices
    BY <1>0, <1>5
  <2> QED BY <2>1, <2>2, <2>3, <2>4, <2>5, <2>6 DEF Table
<1>9. \A m \in Names : Found(m)' = Found(m)
  BY <1>0, <1>1, <1>7 DEF Found, Index
<1>10. Adding'
  BY <1>1, <1>7, <1>9 DEF Adding
<1>11. Given'
  BY <1>0, <1>1, <1>7, <1>9 DEF Good, Given, Found, Index
<1>12. Kept'
  BY <1>1 DEF Good, Kept
<1> QED BY <1>8, <1>10, <1>11, <1>12 DEF Good

LEMMA ByRegisterCounted ==
  TypeOK /\ Good /\ overrun = 0 /\ RegisterCounted => Good'
<1> SUFFICES ASSUME TypeOK, Good, overrun = 0, RegisterCounted
             PROVE  Good'
  OBVIOUS
<1> DEFINE n == adding.by
           a == adding.at
<1>0. adding # Nobody /\ n \in Names /\ a \in Nat
  BY DEF RegisterCounted, TypeOK
<1>1. /\ count \in Nat /\ MaxDevices \in Nat \ {0} /\ count + 1 <= MaxDevices
      /\ Written = count + 1
  BY <1>0, WrittenType DEF Good, Table, Written
<1>2. /\ count' = count + 1 /\ metaCount' = count + 1 /\ adding' = Nobody
      /\ address' = [address EXCEPT ![n] = a] /\ given' = [given EXCEPT ![n] = a]
      /\ UNCHANGED <<meta, devices, config, cleared, lost>>
  <2>1. (count + 1) % CountMod = count + 1
    BY <1>1, AddressAssumption
  <2>2. ~Astray
    BY <1>1 DEF Astray
  <2> QED BY <2>1, <2>2 DEF RegisterCounted, Starts, SaveCount
<1>3. /\ Found(n) = {} /\ devices[count].name = MachineName[n]
      /\ devices[count].address = a /\ meta[count] = devices[count]
  BY <1>0 DEF Good, Adding
<1> HIDE DEF n, a
<1>4. count \in Index
  BY <1>1 DEF Index
<1>5. Written' = Written
  BY <1>1, <1>2 DEF Written
<1>6. Table'
  <2>1. \A i \in Index : i < count' => meta'[i] = devices'[i]
    BY <1>1, <1>2, <1>3 DEF Good, Table, Index
  <2>2. /\ \A i \in Index : i < Written' => Placed(i)'
        /\ \A i \in Index : i >= Written' => devices'[i] = Blank
        /\ \A i, j \in Index :
             i < j /\ j < Written' => devices'[i].address < devices'[j].address
    BY <1>2, <1>5 DEF Good, Table, Placed
  <2>3. \A i \in Index : i < count => devices[i].name # MachineName[n]
    BY <1>3 DEF Found
  <2>4. \A i \in Index : i < count' => i < count \/ i = count
    BY <1>1, <1>2 DEF Index
  <2>5. \A i, j \in Index :
          i < count' /\ j < count' /\ devices'[i].name = devices'[j].name => i = j
    BY <1>2, <1>3, <2>3, <2>4 DEF Good, Table
  <2>6. metaCount' = count' /\ Written' <= MaxDevices
    BY <1>1, <1>2, <1>5
  <2> QED BY <2>1, <2>2, <2>5, <2>6 DEF Table
<1>7. Adding'
  BY <1>2 DEF Adding
<1>8. \A m \in Names : Found(m) \subseteq Found(m)'
  BY <1>1, <1>2 DEF Found, Index
<1>9. given[n] = Nobody
  BY <1>0, <1>3 DEF Good, Given
<1>11. Given'
  <2> SUFFICES ASSUME NEW m \in Names, given'[m] # Nobody
               PROVE  \E i \in Found(m)' : devices'[i].address = given'[m]
    BY DEF Given
  <2>1. CASE m = n
    <3>1. given'[m] = a
      BY <1>2, <2>1 DEF TypeOK
    <3>2. count \in Found(m)'
      BY <1>1, <1>2, <1>3, <1>4, <2>1 DEF Found
    <3> QED BY <1>2, <1>3, <3>1, <3>2
  <2>2. CASE m # n
    <3>1. given'[m] = given[m]
      BY <1>2, <2>2 DEF TypeOK
    <3> QED BY <1>2, <1>8, <3>1 DEF Good, Given
  <2> QED BY <2>1, <2>2
<1>12. Kept'
  <2>1. \A m \in Names : given[m] # Nobody => given'[m] = given[m]
    BY <1>2, <1>9 DEF TypeOK
  <2>2. \A m \in Names : ~cleared /\ address'[m] # Nobody => address'[m] = given'[m]
    BY <1>0, <1>2 DEF Good, TypeOK, Kept
  <2>3. \A c \in config : ~cleared => c.at = given'[c.by]
    BY <2>1, AddressAssumption DEF Good, TypeOK, Kept
  <2> QED BY <1>2, <2>2, <2>3 DEF Kept
<1> QED BY <1>6, <1>7, <1>11, <1>12 DEF Good

LEMMA ByConfigure == \A n \in Names : TypeOK /\ Good /\ Configure(n) => Good'
<1> SUFFICES ASSUME NEW n \in Names, TypeOK, Good, Configure(n)
             PROVE  Good'
  OBVIOUS
<1>1. /\ address[n] # Nobody
      /\ config' = {c \in config : c.at # address[n]} \union {[at |-> address[n], by |-> n]}
      /\ UNCHANGED <<metaCount, meta, count, devices, adding, address, given, cleared, lost>>
  BY DEF Configure, stored, ram
<1>3. NextAddress' = NextAddress /\ \A m : Found(m)' = Found(m)
  BY <1>1, SameTable
<1>4. Table'
  BY <1>1 DEF Good, Table, Written, Placed
<1>5. Adding' /\ Given'
  BY <1>1, <1>3 DEF Good, Adding, Given
<1>6. Kept'
  BY <1>1 DEF Good, Kept
<1> QED BY <1>4, <1>5, <1>6 DEF Good

LEMMA ByClear ==
  TypeOK /\ Good /\ overrun = 0 /\ ClearDeviceConfigArray => Good'
<1> SUFFICES ASSUME TypeOK, Good, overrun = 0, ClearDeviceConfigArray
             PROVE  Good'
  OBVIOUS
<1>1. count \in Nat /\ MaxDevices \in Nat \ {0} /\ count <= MaxDevices
  BY WrittenType DEF Good
<1>2. /\ adding' = Nobody /\ count' = 0 /\ metaCount' = 0 /\ cleared' = TRUE
      /\ devices' = [i \in Index |-> Blank] /\ given' = NoneOf
  <2>1. ~Astray
    BY <1>1 DEF Astray
  <2> QED BY <2>1 DEF ClearDeviceConfigArray, SaveCount
<1>3. Written' = 0
  BY <1>2 DEF Written
<1>4. Table'
  BY <1>1, <1>2, <1>3 DEF Table, Index
<1>5. Adding' /\ Given' /\ Kept'
  BY <1>2 DEF Adding, Given, Kept, NoneOf
<1> QED BY <1>4, <1>5 DEF Good

\* A restart reads the counted entries back; where all are counted, it changes
\* nothing.
LEMMA ByRestart == TypeOK /\ Good /\ Restart => Good'
<1> SUFFICES ASSUME TypeOK, Good, Restart
             PROVE  Good'
  OBVIOUS
<1>1. /\ count' = count /\ adding' = Nobody /\ address' = NoneOf
      /\ devices' = [i \in Index |-> IF i < count THEN meta[i] ELSE Blank]
      /\ UNCHANGED <<metaCount, meta, config, given, cleared, lost>>
  BY DEF Restart, stored, Good, Table
<1>2. count \in Nat /\ MaxDevices \in Nat \ {0} /\ count <= Written /\ Written \in 0 .. MaxDevices
  BY WrittenType DEF Good
<1>3. Written' = count /\ count <= MaxDevices
  BY <1>1, <1>2 DEF Written
<1>4. \A i \in Index : /\ i < count => devices'[i] = devices[i] /\ i < Written
                       /\ i >= count => devices'[i] = Blank
  BY <1>1, <1>2 DEF Good, Table, Index
<1>5. Table'
  <2>1. \A i \in Index : i < Written' => Placed(i)'
    BY <1>3, <1>4 DEF Good, Table, Placed
  <2>2. \A i \in Index : i >= Written' => devices'[i] = Blank
    BY <1>3, <1>4
  <2>3. \A i, j \in Index : i < j /\ j < Written' => devices'[i].address < devices'[j].address
    BY <1>2, <1>3, <1>4 DEF Good, Table, Index
  <2>4. /\ \A i \in Index : i < count' => meta'[i] = devices'[i]
        /\ \A i, j \in Index :
             i < count' /\ j < count' /\ devices'[i].name = devices'[j].name => i = j
    BY <1>1, <1>4 DEF Good, Table
  <2>5. metaCount' = count' /\ Written' <= MaxDevices
    BY <1>1, <1>3 DEF Good, Table
  <2> QED BY <2>1, <2>2, <2>3, <2>4, <2>5 DEF Table
<1>6. \A m \in Names : Found(m)' = Found(m)
  BY <1>1, <1>4 DEF Found
<1>7. Given'
  BY <1>1, <1>4, <1>6 DEF Good, Given, Found
<1>8. Adding' /\ Kept'
  BY <1>1 DEF Good, Adding, Kept, NoneOf
<1> QED BY <1>5, <1>7, <1>8 DEF Good

-----------------------------------------------------------------------------
(* The theorems *)

LEMMA IndInit == Init => IInv
<1> SUFFICES ASSUME Init
             PROVE  IInv
  OBVIOUS
<1>1. /\ MaxDevices \in Nat \ {0} /\ CountMod \in Nat \ {0} /\ 0 \in Count /\ Blank \in Entries
      /\ 0 \in 0 .. 2
  BY AddressAssumption DEF Blank, Entries, Count
<1>2. TypeOK
  BY <1>1 DEF Init, TypeOK, NoneOf
<1>3. Written = 0
  BY <1>1 DEF Init, Written
<1>4. Table
  BY <1>1, <1>3 DEF Init, Table, Index
<1>5. Adding /\ Given /\ Kept
  BY DEF Init, Adding, Given, Kept, NoneOf
<1> QED BY <1>2, <1>4, <1>5 DEF IInv, Good

\* An overflow is not forgotten.
LEMMA OverrunStays == TypeOK /\ Next /\ overrun' = 0 => overrun = 0
<1> SUFFICES ASSUME TypeOK, Next, overrun' = 0
             PROVE  overrun = 0
  OBVIOUS
<1>1. ASSUME NEW n \in Names, RegisterOverflow(n)
      PROVE  overrun' \in {1, 2}
  BY <1>1 DEF RegisterOverflow
<1> QED BY <1>1 DEF Next, RegisterKnown, RegisterNew, RegisterRefused, Configure,
           RegisterCounted, ClearDeviceConfigArray, Restart

LEMMA IndNext == IInv /\ [Next]_vars => IInv'
<1> SUFFICES ASSUME IInv, [Next]_vars
             PROVE  IInv'
  OBVIOUS
<1>1. TypeOK'
  BY TypeNext DEF IInv
<1>2. CASE UNCHANGED vars
  <2>1. UNCHANGED <<metaCount, meta, count, devices, adding, address, config, given, cleared,
                    overrun, lost>>
    BY <1>2 DEF vars, stored, ram
  <2>2. NextAddress' = NextAddress /\ \A m : Found(m)' = Found(m)
    BY <2>1, SameTable
  <2>3. Good => Table' /\ Kept'
    BY <2>1 DEF Good, Table, Written, Placed, Kept
  <2>4. Good => Adding' /\ Given'
    BY <2>1, <2>2 DEF Good, Adding, Given
  <2> QED BY <1>1, <2>1, <2>3, <2>4 DEF IInv, Good
<1>3. CASE Next
  <2> SUFFICES ASSUME overrun' = 0
               PROVE  Good'
    BY <1>1 DEF IInv
  <2>1. TypeOK /\ Good /\ overrun = 0
    BY <1>3, OverrunStays DEF IInv
  <2>2. ASSUME NEW n \in Names, RegisterRefused(n)
        PROVE  FALSE
    <3>1. NextAddress <= StorageSize
      BY <2>1, NextFits DEF Good
    <3> QED BY <2>1, <2>2, <3>1, NextAddressType, AddressAssumption DEF RegisterRefused
  <2>3. ASSUME NEW n \in Names, RegisterOverflow(n)
        PROVE  FALSE
    BY <2>3 DEF RegisterOverflow
  <2> QED BY <1>3, <2>1, <2>2, <2>3, ByRegisterKnown, ByRegisterNew, ByConfigure,
             ByRegisterCounted, ByClear, ByRestart DEF Next
<1> QED BY <1>2, <1>3

\* The inductive invariant: the ranges, and until the table overflows the table
\* in RAM and its copy, a registration between its writes, what was given and
\* what was configured.
THEOREM Inductive == Spec => []IInv
BY IndInit, IndNext, PTL DEF Spec

\* The table, its counter and what is handed out stay in their ranges, where the
\* count wraps and entries go astray too (addNewDeviceToStructure, getDeviceByName).
THEOREM TypeCorrect == Spec => []TypeOK
<1>1. IInv => TypeOK
  BY DEF IInv
<1> QED BY <1>1, Inductive, PTL

\* Two names that were given one address are one number to machineName.
LEMMA SameAddressSameName ==
  ASSUME IInv, overrun = 0, NEW m \in Names, NEW n \in Names,
         given[m] = given[n], given[m] # Nobody
  PROVE  MachineName[m] = MachineName[n]
<1>1. TypeOK /\ Table /\ Given /\ count \in Nat /\ count <= Written /\ Written \in Nat
  BY WrittenType DEF IInv, Good
<1>2. PICK i \in Found(m) : devices[i].address = given[m]
  BY <1>1 DEF Given
<1>3. PICK j \in Found(n) : devices[j].address = given[n]
  BY <1>1 DEF Given
<1>4. i \in Index /\ j \in Index /\ i \in Nat /\ j \in Nat /\ i < Written /\ j < Written
  BY <1>1, <1>2, <1>3, AddressAssumption DEF Found, Index
<1>5. devices[i].address \in Nat /\ devices[j].address \in Nat
  BY <1>1, <1>4 DEF TypeOK, Entries
<1>6. i = j
  BY <1>1, <1>2, <1>3, <1>4, <1>5 DEF Table
<1> QED BY <1>2, <1>3, <1>6 DEF Found

\* No two names share an address until the table overflows
\* (getNextDeviceAddress, addNewDeviceToStructure).
THEOREM AddressesAlwaysDiffer == Spec => []AddressesDiffer
<1>1. IInv => AddressesDiffer
  BY SameAddressSameName DEF AddressesDiffer
<1> QED BY <1>1, Inductive, PTL

\* What a device finds at its address was written under its own number, until
\* the registrations are cleared or overflow (the devices' init and their setters).
THEOREM ConfigurationsAreOwn == Spec => []OwnConfiguration
<1>1. IInv => OwnConfiguration
  <2> SUFFICES ASSUME IInv, ~cleared, overrun = 0, NEW n \in Names, NEW c \in config,
                      c.at = given[n]
               PROVE  MachineName[c.by] = MachineName[n]
    BY DEF OwnConfiguration
  <2>1. c.by \in Names /\ c.at \in Nat /\ c.at = given[c.by]
    BY DEF IInv, Good, TypeOK, Kept
  <2>2. given[c.by] # Nobody
    BY <2>1, AddressAssumption
  <2> QED BY <2>1, <2>2, SameAddressSameName
<1> QED BY <1>1, Inductive, PTL

\* A name is given the address it had, at every start, in any order of the
\* devices and after a cut between the two writes, until an entry is put behind
\* the table (registerAddress, getDeviceByName).
THEOREM AddressesArePredictable == Spec => AddressIsPredictable
<1> DEFINE Same == overrun' = 0 =>
                     \A n \in Names :
                       given[n] # Nobody /\ given'[n] # Nobody => given'[n] = given[n]
<1>1. IInv /\ [Next]_vars => [Same]_vars
  <2> SUFFICES ASSUME IInv, Next, overrun' = 0, NEW n \in Names, given[n] # Nobody,
                      given'[n] # Nobody
               PROVE  given'[n] = given[n]
    OBVIOUS
  <2>0. TypeOK /\ Good /\ overrun = 0
    BY OverrunStays DEF IInv
  <2>1. CASE given' = given
    BY <2>1
  <2>2. ASSUME NEW m \in Names, RegisterKnown(m)
        PROVE  given'[n] = given[n]
    <3>1. given' = [given EXCEPT ![m] = devices[First(Found(m))].address] /\ Found(m) # {}
      BY <2>0, <2>2 DEF RegisterKnown, Starts
    <3> QED BY <2>0, <3>1, FoundIsGiven DEF TypeOK
  <2>3. CASE RegisterCounted
    <3>1. given' = [given EXCEPT ![adding.by] = adding.at] /\ adding # Nobody
      BY <2>0, <2>3 DEF RegisterCounted, Starts
    <3>2. Found(adding.by) = {}
      BY <2>0, <3>1 DEF Good, Adding
    <3>3. n # adding.by
      BY <2>0, <3>2 DEF Good, Given
    <3> QED BY <2>0, <3>1, <3>3 DEF TypeOK
  <2>4. CASE ClearDeviceConfigArray
    BY <2>4 DEF ClearDeviceConfigArray, NoneOf
  <2>5. ASSUME NEW m \in Names, RegisterNew(m) \/ RegisterOverflow(m) \/ Configure(m)
        PROVE  given' = given
    BY <2>5 DEF RegisterNew, RegisterOverflow, Configure
  <2>6. CASE Restart
    BY <2>1, <2>6 DEF Restart
  <2>7. ASSUME NEW m \in Names, RegisterRefused(m)
        PROVE  FALSE
    <3>1. NextAddress <= StorageSize
      BY <2>0, NextFits DEF Good
    <3> QED BY <2>0, <2>7, <3>1, NextAddressType, AddressAssumption DEF RegisterRefused
  <2> QED BY <2>1, <2>2, <2>3, <2>4, <2>5, <2>6, <2>7 DEF Next
<1> QED BY <1>1, Inductive, PTL DEF Spec, AddressIsPredictable
=============================================================================
