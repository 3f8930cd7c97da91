------------------------------- MODULE WlDevice -------------------------------
(***************************************************************************)
(* The water-level sensor: a read takes up to Samples pulses, keeps the    *)
(* median of the largest cluster and inserts the distance into the window; *)
(* a publication reports the window's median.  Pulses and calibrations are *)
(* small numbers; a distance is their product.  A window that the manager  *)
(* has not cleared since the object was made holds whatever was in memory. *)
(***************************************************************************)
EXTENDS Readings, Sequences, SequencesExt

CONSTANTS
  Pulses,     \* what the sensor can answer, within the clamps
  Samples,    \* targetSamples
  Tolerance,  \* tolUs
  WlFactors,  \* calibrations an operator sends; 1 is the default
  DigitalFactors, AnalogFactors,  \* those that are sane in each mode
  MaxWlReads  \* bound on the readings of one window

\* The default is sane in both modes and nothing that is sane is 0
\* (isSaneCalibration, setCalibration).  No distance is the number that marks a
\* free slot: a negative calibration that makes one of a pulse is left out.
ASSUME WlAssumption ==
  /\ Pulses \subseteq Nat \ {0}
  /\ Samples \in Nat \ {0}
  /\ Tolerance \in Nat
  /\ WlFactors \subseteq Int \ {0}
  /\ DigitalFactors \cup AnalogFactors \subseteq WlFactors
  /\ 1 \in DigitalFactors \cap AnalogFactors
  /\ \A p \in Pulses, f \in WlFactors : p * f # NoValue

VARIABLES
  hold,       \* VALUE_HOLD[0]
  cleared,    \* history: has the window been cleared since the object was made
  window,     \* history: how often each value was read since it was cleared
  lastGood,   \* lastGoodPwUs
  digital, factor,  \* the settings in use
  stored      \* the settings in storage

wlVars == <<hold, cleared, window, lastGood, digital, factor, stored>>

NoConfig == [version |-> 0, digital |-> TRUE, factor |-> 0]
DefaultConfig == [version |-> 1, digital |-> TRUE, factor |-> 1]

Distances == {0} \cup {p * f : p \in Pulses, f \in WlFactors}

-----------------------------------------------------------------------------
(* A read *)

Near(a, b) == a - b <= Tolerance /\ b - a <= Tolerance
Distance(a, b) == IF a < b THEN b - a ELSE a - b

\* The samples of one read, sorted; none when every pulse timed out or was
\* out of range.
Readouts == {s \in BoundedSeq(Pulses, Samples) :
               \A j \in 1 .. Len(s) - 1 : s[j] <= s[j + 1]}

\* The samples in the cluster around sample j: consecutive ones.
Cluster(s, j) == {k \in DOMAIN s : Near(s[k], s[j])}

\* The centre of the largest cluster: of several, the one closest to the last
\* good pulse, if there is one, and then the first.
Best(s, last) ==
  LET best == {j \in DOMAIN s :
                 \A k \in DOMAIN s : Cardinality(Cluster(s, k)) <= Cardinality(Cluster(s, j))}
      close == {j \in best : \A k \in best : Distance(s[j], last) <= Distance(s[k], last)}
      won == IF last = 0 THEN best ELSE close
  IN  CHOOSE j \in won : \A k \in won : j <= k

\* The pulse a read settles on: the middle of the cluster.
Settled(s, last) ==
  LET c == Cluster(s, Best(s, last))
      first == CHOOSE k \in c : \A l \in c : k <= l
  IN  s[first + Cardinality(c) \div 2]

\* readWL; without a pulse the distance is 0.  An analog pin always answers.
ReadWL(s, cm) ==
  \/ digital /\ s = <<>> /\ cm = 0 /\ UNCHANGED lastGood
  \/ /\ digital /\ s # <<>>
     /\ cm = Settled(s, lastGood) * factor
     /\ lastGood' = Settled(s, lastGood)
  \/ /\ ~digital /\ Len(s) = Samples
     /\ cm = s[Len(s) \div 2 + 1] * factor
     /\ UNCHANGED lastGood

\* The readings of the window in a set of distances.
CountIn(below) == FoldFunctionOnSet(LAMBDA m, n : m + n, 0, window, below)

WlRead ==
  /\ CountIn(Distances) < MaxWlReads
  /\ \E s \in Readouts, cm \in Distances :
       /\ ReadWL(s, cm)
       /\ hold' = Insert(cm, hold)
       /\ window' = [window EXCEPT ![cm] = @ + 1]
  /\ UNCHANGED <<cleared, digital, factor, stored>>

-----------------------------------------------------------------------------
(* Publication: the manager's publish, then its clear *)

\* What publish reports of the window: the attempt_count that is passed for
\* the size of the window is never counted, it is 0.
WlReport == MedianOf(0, hold)

\* The overflow slot stays.
WlClear ==
  /\ hold' = [j \in Slots |-> IF j < MaxVal THEN NoValue ELSE hold[j]]
  /\ cleared' = TRUE
  /\ window' = [v \in Distances |-> 0]

-----------------------------------------------------------------------------
(* Settings *)

Sane(config) == config.factor \in IF config.digital THEN DigitalFactors ELSE AnalogFactors

\* restoreDefaults.
WlDefaults ==
  /\ digital' = TRUE
  /\ factor' = 1
  /\ stored' = DefaultConfig

\* init and configSetup: settings that are not sane are given up together.
WlInit ==
  IF stored.version = 1 /\ Sane(stored)
  THEN digital' = stored.digital /\ factor' = stored.factor /\ UNCHANGED stored
  ELSE WlDefaults

\* setDigitalCloud: the other half of what is stored is kept if it is valid.
WlSetDigital ==
  \E mode \in BOOLEAN :
    /\ digital' = mode
    /\ stored' = [version |-> 1, digital |-> mode,
                  factor |-> IF stored.version = 1 THEN stored.factor ELSE factor]
    /\ UNCHANGED <<hold, cleared, window, lastGood, factor>>

\* setCalibration: any number but 0.
WlSetCalibration ==
  \E f \in WlFactors :
    /\ factor' = f
    /\ stored' = [version |-> 1, factor |-> f,
                  digital |-> IF stored.version = 1 THEN stored.digital ELSE digital]
    /\ UNCHANGED <<hold, cleared, window, lastGood, digital>>

\* A start of the board ends with a clear of what memory held.
WlRestart ==
  /\ WlInit
  /\ hold' = Empty
  /\ cleared' = TRUE
  /\ window' = [v \in Distances |-> 0]
  /\ lastGood' = 0

\* An object that is added while the board runs is not cleared.
WlAdded(values) ==
  /\ stored = DefaultConfig
  /\ digital = TRUE
  /\ factor = 1
  /\ hold \in Arrays(values)
  /\ cleared = (hold = Empty)
  /\ window = [v \in Distances |-> 0]
  /\ lastGood = 0

-----------------------------------------------------------------------------
(* Properties *)

WlTypeOK ==
  /\ hold \in [Slots -> Int]
  /\ cleared \in BOOLEAN
  /\ window \in [Distances -> Nat]
  /\ lastGood \in {0} \cup Pulses
  /\ digital \in BOOLEAN
  /\ factor \in WlFactors
  /\ stored \in [version : {0, 1}, digital : BOOLEAN, factor : {0} \cup WlFactors]

\* The slots of the window that hold a value.
Holding(v) == {j \in 0 .. MaxVal - 1 : hold[j] = v}

\* The window holds readings only, in order and without gaps, each as often as
\* it was read since the window was cleared; what did not fit is nothing that
\* is smaller than what is held (insertValue and shift).  So it is the MaxVal
\* smallest readings, whatever was read in whatever order; in a window nobody
\* has cleared nothing is said.
WindowIsSorted ==
  cleared =>
    /\ \A j \in 0 .. MaxVal - 1 : hold[j] \in Distances \cup {NoValue}
    /\ \A i, j \in 0 .. MaxVal - 1 :
         i < j /\ hold[j] # NoValue => hold[i] # NoValue /\ hold[i] <= hold[j]
    /\ \A v \in Distances :
         \/ Cardinality(Holding(v)) = window[v]
         \/ /\ Cardinality(Holding(v)) < window[v]
            /\ hold[MaxVal - 1] # NoValue
            /\ hold[MaxVal - 1] <= v

\* The reading of the window that has rank readings before it.
Ranked(rank) ==
  IF CountIn(Distances) <= rank THEN NoValue
  ELSE CHOOSE v \in Distances :
         /\ CountIn({d \in Distances : d < v}) <= rank
         /\ rank < CountIn({d \in Distances : d <= v})

\* What a publication reports is the middle of the window's readings, or one
\* of the two in the middle ("Get the middle value or the value toward the
\* zero index", getMedian).
WlReportsMiddle ==
  LET n == CountIn(Distances)
      kept == IF n < MaxVal THEN n ELSE MaxVal
  IN  cleared /\ n > 0 => WlReport \in {Ranked(kept \div 2), Ranked((kept - 1) \div 2)}

\* What a start would load is what runs, when it is sane: a change of one of
\* the two settings never loses the other (setDigitalCloud, setCalibration).
WlSettingsStored ==
  /\ stored.version = 1
  /\ stored.digital = digital
  /\ stored.factor = factor
=============================================================================
