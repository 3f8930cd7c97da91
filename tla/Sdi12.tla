-------------------------------- MODULE Sdi12 --------------------------------
(***************************************************************************)
(* SDI-12 sensors (soil moisture, weather stations) on one wire.  A        *)
(* publication asks them in turn: send the command, wait, take whatever is *)
(* in the receive buffer for half a second.  The buffer is not emptied     *)
(* before a command and the address in an answer is not compared, so an    *)
(* answer that is late is taken for the answer of the sensor asked next.   *)
(* Sensors and wire are external.  An answer is one representative value.  *)
(***************************************************************************)
EXTENDS Readings, Sequences, SequencesExt

CONSTANTS
  Sensors,    \* in the order of the device table
  Param,      \* for each sensor: how its value is extracted
  Values,     \* what a sensor answers
  MaxRounds   \* bound on the publications, and so on the answers

ASSUME SdiAssumption ==
  /\ Sensors \in Nat \ {0}
  /\ Param \in [1 .. Sensors -> {"median", "max", "sum"}]
  /\ Values \subseteq Nat
  /\ MaxRounds \in Nat

VARIABLES
  asked,     \* the sensor whose turn it is, 0 between two publications
  onWire,    \* late answers, in the order they will come: [of, value]
  heard,     \* late answers that came after the drain: the receive buffer
  values,    \* valueHold of each sensor
  sdiOut,    \* the value last published of each sensor
  wiped,     \* history: the arrays have been cleared since they were made
  rounds,    \* publications so far
  late,      \* history: answers that were not complete in their sensor's time
  cut,       \* history: drains that ended in the middle of an answer
  spoiled    \* history: readings made of something else than the whole own answer

sdiVars == <<asked, onWire, heard, values, sdiOut, wiped, rounds, late, cut, spoiled>>

Answers == [of : 1 .. Sensors, value : Values]

\* extractValue; readSize is 1, SINGLE_SAMPLE.
Extract(sensor, arr) ==
  CASE Param[sensor] = "median" -> MedianIn(arr, 1)
    [] Param[sensor] = "max"    -> LastIn(arr, 1)
    [] Param[sensor] = "sum"    -> SumIn(arr, 1)

SdiPublish ==
  /\ asked = 0
  /\ rounds < MaxRounds
  /\ asked' = 1
  /\ rounds' = rounds + 1
  /\ UNCHANGED <<onWire, heard, values, sdiOut, wiped, late, cut, spoiled>>

\* Slip: what was not taken by this reading stays for the next.
DrainFirst(text) == IF text = <<>> THEN <<>> ELSE Tail(text)

\* readSDI: everything that is in the buffer.
Drain(text) == <<>>

\* parseSerial of the utilities: of several answers in one text the first gives
\* the value; without any the value has failed.
Parsed(text) == IF text = <<>> THEN NoValue ELSE text[1].value

\* getWire and parseSerial: the value joins those that are held.  What follows
\* of an answer in whose middle the drain ends is in the buffer before the next
\* drain does.
Take(text, follows) ==
  LET arr == Insert(Parsed(text), values[asked])
  IN  /\ values' = [values EXCEPT ![asked] = arr]
      /\ sdiOut' = [sdiOut EXCEPT ![asked] = Extract(asked, arr)]
      /\ heard' = Drain(text) \o follows

\* A reading that starts with an answer of another turn is spoiled.
Spoils(text) == spoiled' = spoiled + (IF text = <<>> THEN 0 ELSE 1)

\* readWire of the sensor whose turn it is: n of the late answers come while
\* the drain waits, and when it ends part of the next may have come; the own
\* answer comes whole, in part, later or never.
ReadWire ==
  /\ asked \in 1 .. Sensors
  /\ \E n \in 0 .. Len(onWire), broken \in {0, 1}, value \in Values :
       LET before == heard \o SubSeq(onWire, 1, n)
           part == SubSeq(onWire, n + 1, n + broken)
           rest == SubSeq(onWire, n + broken + 1, Len(onWire))
           own == [of |-> asked, value |-> value]
       IN  /\ n + broken <= Len(onWire)
           /\ \/ /\ Take(before \o <<own>> \o part, part)
                 /\ Spoils(before)
                 /\ onWire' = rest /\ late' = late
                 /\ cut' = cut + broken
              \/ /\ Take(before \o part, part)
                 /\ Spoils(before \o part)
                 /\ \/ onWire' = rest /\ late' = late
                    \/ onWire' = Append(rest, own) /\ late' = late + 1
                 /\ cut' = cut + broken
              \/ /\ broken = 0
                 /\ Take(before \o <<own>>, <<own>>)
                 /\ Spoils(before \o <<own>>)
                 /\ onWire' = rest /\ late' = late + 1
                 /\ cut' = cut + 1
  /\ asked' = asked + 1
  /\ UNCHANGED <<wiped, rounds>>

\* A late answer that comes between two readings waits in the buffer.
LateAnswer ==
  /\ onWire # <<>>
  /\ heard' = Append(heard, Head(onWire))
  /\ onWire' = Tail(onWire)
  /\ UNCHANGED <<asked, values, sdiOut, wiped, rounds, late, cut, spoiled>>

\* Slip: the first slot is left out.
ClearedButFirst(arr) == [j \in Slots |-> IF j \in 1 .. MaxVal - 1 THEN NoValue ELSE arr[j]]

\* clear of every sensor.
Cleared(arr) == [j \in Slots |-> IF j < MaxVal THEN NoValue ELSE arr[j]]

SdiClear ==
  /\ values' = [s \in 1 .. Sensors |-> Cleared(values[s])]
  /\ wiped' = TRUE

\* The manager clears when all sensors have been asked.
SdiPublished ==
  /\ asked = Sensors + 1
  /\ asked' = 0
  /\ SdiClear
  /\ UNCHANGED <<onWire, heard, sdiOut, rounds, late, cut, spoiled>>

\* A restart empties the receive buffer; the wire goes on.
SdiRestart ==
  /\ asked' = 0
  /\ heard' = <<>>
  /\ values' = [s \in 1 .. Sensors |-> Empty]
  /\ wiped' = TRUE
  /\ sdiOut' = [s \in 1 .. Sensors |-> NoValue]
  /\ UNCHANGED <<onWire, rounds, late, cut, spoiled>>

\* Sensors that were just added hold what was in memory.
SdiAdded(junk) ==
  /\ asked = 0
  /\ onWire = <<>> /\ heard = <<>>
  /\ values \in [1 .. Sensors -> {[Empty EXCEPT ![0] = v] : v \in junk \cup {NoValue}}]
  /\ wiped = (values = [s \in 1 .. Sensors |-> Empty])
  /\ sdiOut = [s \in 1 .. Sensors |-> NoValue]
  /\ rounds = 0 /\ late = 0 /\ cut = 0 /\ spoiled = 0

SdiStep == ReadWire \/ LateAnswer \/ SdiPublished

-----------------------------------------------------------------------------
(* Properties *)

SdiTypeOK ==
  /\ asked \in 0 .. Sensors + 1
  /\ onWire \in Seq(Answers) /\ heard \in Seq(Answers)
  /\ values \in [1 .. Sensors -> [Slots -> Int]]
  /\ sdiOut \in [1 .. Sensors -> Int]
  /\ rounds \in 0 .. MaxRounds

\* An answer that is late spoils one reading at most, whichever sensor it is
\* taken for, and one more if a drain ended in its middle; then the bus is in
\* step again: the drain leaves nothing that has come (getWire, readSDI).
LateSpoilsFew == spoiled + Len(onWire) + Len(heard) <= late + cut

\* While no answer has been late or cut, what is published is the one reading of this
\* publication or a failure, and nothing of an earlier publication is left in
\* the array; a sum of more than Threshold fails (getSum).
PublishesOwnAnswer ==
  [][late' = 0 /\ wiped /\ asked \in 1 .. Sensors /\ asked' = asked + 1
     => /\ sdiOut'[asked] \in Values \cup {NoValue}
        /\ sdiOut'[asked] # NoValue => values'[asked][0] = sdiOut'[asked]
        /\ \A j \in Slots \ {0} : values'[asked][j] = NoValue]_sdiVars
=============================================================================
