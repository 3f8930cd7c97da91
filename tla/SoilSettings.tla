----------------------------- MODULE SoilSettings -----------------------------
(***************************************************************************)
(* The calibration of a soil-moisture sensor: two settings, each with a    *)
(* cloud function of its own that writes the structure of both.            *)
(***************************************************************************)
EXTENDS Integers

CONSTANTS
  Multiples,       \* calibrations an operator sends
  DefaultMultiple  \* SOIL_MOISTURE_DEFAULT

ASSUME SoilAssumption == Multiples \subseteq Int /\ DefaultMultiple \in Int

VARIABLES
  mineral, multiple,  \* in use
  soilStored          \* VWCStruct in storage

soilVars == <<mineral, multiple, soilStored>>

\* MINERAL_SOIL_DEFAULT
SoilDefault == [version |-> 1, minerals |-> TRUE, multiple |-> DefaultMultiple]

SetMoistureCalibration ==
  \E val \in Multiples :
    /\ soilStored' = [version |-> 1, minerals |-> mineral, multiple |-> val]
    /\ multiple' = val
    /\ UNCHANGED mineral

SetMineralSoil ==
  \E val \in BOOLEAN :
    /\ soilStored' = [version |-> 1, minerals |-> val, multiple |-> multiple]
    /\ mineral' = val
    /\ UNCHANGED multiple

\* Slip: the defaults are not stored.
SoilDefaultsInRam ==
  /\ mineral' = SoilDefault.minerals
  /\ multiple' = SoilDefault.multiple
  /\ UNCHANGED soilStored

\* restoreDefaults.
SoilDefaults ==
  /\ mineral' = SoilDefault.minerals
  /\ multiple' = SoilDefault.multiple
  /\ soilStored' = SoilDefault

\* The constructor's defaults and pullEpromData.
SoilRestart ==
  LET pulled == IF soilStored.version = 1 THEN soilStored ELSE SoilDefault
  IN  /\ mineral' = pulled.minerals
      /\ multiple' = pulled.multiple
      /\ UNCHANGED soilStored

SoilFresh ==
  /\ mineral = SoilDefault.minerals
  /\ multiple = SoilDefault.multiple
  /\ soilStored = [SoilDefault EXCEPT !.version = 0]

-----------------------------------------------------------------------------
(* Properties *)

\* What a start would load is what runs.
SoilSurvives ==
  soilStored.version = 1 => mineral = soilStored.minerals /\ multiple = soilStored.multiple
===============================================================================
