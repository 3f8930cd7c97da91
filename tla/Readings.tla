------------------------------- MODULE Readings -------------------------------
(***************************************************************************)
(* The arrays in which sensors keep the readings of one publication: a     *)
(* value is inserted in ascending order, the slots behind the last value   *)
(* hold NO_VALUE, and what is published is a median, a sum or a last value.*)
(* The utilities exist once per element type; the copies differ in nothing *)
(* but the type.  Slot MaxVal lies behind the array that is looked at: the *)
(* code keeps it (OVERFLOW_VAL) for the value that found no room.          *)
(***************************************************************************)
EXTENDS Integers, FiniteSets

CONSTANTS
  MaxVal,   \* getMaxVal: the readings that are kept
  NoValue   \* NO_VALUE

ASSUME ReadingsAssumption ==
  /\ MaxVal \in Nat \ {0}
  /\ NoValue \in Int \ Nat

Slots == 0 .. MaxVal

Arrays(values) == [Slots -> values \cup {NoValue}]

Empty == [j \in Slots |-> NoValue]

\* shift: the values from index on move up by one, the last one is dropped.
Shift(value, index, arr) ==
  [j \in Slots |-> IF j = index THEN value
                   ELSE IF index < j /\ j < MaxVal THEN arr[j - 1] ELSE arr[j]]

\* insertValue: before the first slot that is free or holds more.
StopsAt(value, arr, j) ==
  \/ j = MaxVal
  \/ arr[j] = NoValue
  \/ value < arr[j]

IndexFor(value, arr) ==
  CHOOSE j \in Slots : /\ StopsAt(value, arr, j)
                       /\ \A k \in 0 .. j - 1 : ~StopsAt(value, arr, k)

\* Slip: one slot too late.
InsertLate(value, arr) ==
  LET index == IndexFor(value, arr)
  IN  Shift(value, IF index + 1 < MaxVal /\ arr[index] # NoValue THEN index + 1 ELSE index, arr)

\* insertValue, with its shift.
Insert(value, arr) == Shift(value, IndexFor(value, arr), arr)

\* The last slot of 0 .. top that holds a value, or NO_VALUE.
LastUpTo(top, arr) ==
  LET held == {j \in 0 .. top : arr[j] # NoValue}
  IN  IF held = {} THEN NoValue
      ELSE arr[CHOOSE j \in held : \A k \in held : k <= j]

\* getMedian over an integer array: from the middle of readparam towards 0.
MedianOf(readparam, arr) == LastUpTo((readparam + 1) \div 2, arr)

\* getMedian over an array of floats of the given size.
MedianIn(arr, size) == LastUpTo((size + 1) \div 2, arr)

\* getMax: the last value that is held.
LastIn(arr, size) == LastUpTo(size - 1, arr)

\* getSum: a value more than Threshold from the last one taken is left out.
Threshold == 100

SumIn(arr, size) ==
  LET taken[j \in -1 .. size - 1] ==
        IF j = -1 THEN [sum |-> 0, last |-> 0, has |-> FALSE]
        ELSE LET t == taken[j - 1]
                 far == arr[j] - t.last > Threshold \/ t.last - arr[j] > Threshold
             IN  IF arr[j] = NoValue \/ far THEN t
                 ELSE [sum |-> t.sum + arr[j], last |-> arr[j], has |-> TRUE]
  IN  IF taken[size - 1].has THEN taken[size - 1].sum ELSE NoValue
===============================================================================
