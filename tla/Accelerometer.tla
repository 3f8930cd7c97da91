---------------------------- MODULE Accelerometer ----------------------------
(***************************************************************************)
(* The accelerometer samples into a buffer of SampleBuffer entries and     *)
(* publishes averages.  A sensor that is not detected at the start is not  *)
(* read until the next.  A sample is the number of the read that took it.  *)
(***************************************************************************)
EXTENDS Integers, Sequences

CONSTANTS
  SampleBuffer,  \* SAMPLE_BUFFER_SIZE
  MaxSamples     \* bound on the reads

ASSUME AccelAssumption == SampleBuffer \in Nat \ {0} /\ MaxSamples \in Nat

VARIABLES
  detected,  \* readyToRead
  samples,   \* readings[0 .. sampleIndex - 1]
  taken,     \* history: the reads so far
  since,     \* history: the reads before the buffer was last reset
  accelOut   \* the samples of the last publication; empty for the zeros

accelVars == <<detected, samples, taken, since, accelOut>>

\* Slip: the buffer holds one more.
AccelReadTooMany ==
  /\ taken < MaxSamples
  /\ taken' = taken + 1
  /\ samples' = IF detected /\ Len(samples) <= SampleBuffer THEN Append(samples, taken') ELSE samples
  /\ UNCHANGED <<detected, since, accelOut>>

AccelRead ==
  /\ taken < MaxSamples
  /\ taken' = taken + 1
  /\ samples' = IF detected /\ Len(samples) < SampleBuffer THEN Append(samples, taken') ELSE samples
  /\ UNCHANGED <<detected, since, accelOut>>

\* publish; the clear that follows resets the index once more.
AccelPublish == accelOut' = IF detected THEN samples ELSE <<>>

AccelClear == samples' = <<>> /\ since' = taken

\* init: WHO_AM_I.
AccelRestart ==
  /\ detected' \in BOOLEAN
  /\ samples' = <<>>
  /\ since' = taken
  /\ accelOut' = <<>>
  /\ UNCHANGED taken

AccelFresh ==
  /\ detected \in BOOLEAN
  /\ samples = <<>>
  /\ taken = 0 /\ since = 0
  /\ accelOut = <<>>

-----------------------------------------------------------------------------
(* Properties *)

\* The buffer holds the first reads since it was reset, in order and each
\* once, and never more than it has room for; what does not fit is dropped
\* (read, publish, clear and the manager's two ways to clear).
SamplesAreFirst ==
  /\ Len(samples) <= SampleBuffer
  /\ \A i \in DOMAIN samples : samples[i] = since + i
  /\ detected => Len(samples) = IF taken - since < SampleBuffer THEN taken - since ELSE SampleBuffer
=============================================================================
