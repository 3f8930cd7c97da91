------------------------------- MODULE IPCamera -------------------------------
(***************************************************************************)
(* The network camera's requests: publications ask for a snapshot every    *)
(* so often, an operator at any time; a request that is neither refused by *)
(* the backoff nor dropped by a full queue is done by the worker task.     *)
(* What a job does is the module Tunnel; here it ends well or not.  The    *)
(* clock, in seconds, wraps.                                               *)
(***************************************************************************)
EXTENDS Integers

CONSTANTS
  ClockMod,      \* millis() wraps
  MinBackoff, MaxBackoff,
  QueueSize,     \* 3
  SnapOffsets,   \* settings an operator sends; 1 is the default
  SendMod,       \* settings are stored and publications counted in a byte: 256
  MaxSnaps       \* bound on the requests

ASSUME IPCameraAssumption ==
  /\ ClockMod \in Nat \ {0}
  /\ MinBackoff \in Nat \ {0} /\ MaxBackoff \in Nat
  /\ MinBackoff <= MaxBackoff /\ MaxBackoff < ClockMod
  /\ QueueSize \in Nat \ {0}
  /\ SnapOffsets \subseteq Nat \ {0}
  /\ SendMod \in Nat \ {0, 1}
  /\ MaxSnaps \in Nat

VARIABLES
  clock,         \* millis()
  nextStart,     \* _nextAllowedStart
  backoff,       \* _backoffMs
  queued,        \* jobs that wait in the queue
  working,       \* the worker has a job
  snapRequested,
  sendOffset, sendCount,  \* _offset and _offsetCount
  storedSend,    \* the stored offset; 0: none
  snaps,         \* requests so far
  sinceFailure,  \* history: seconds since the last failure, up to MaxBackoff
  wrapped        \* history: the clock has wrapped since then

ipVars == <<clock, nextStart, backoff, queued, working, snapRequested, sendOffset, sendCount,
            storedSend, snaps, sinceFailure, wrapped>>

backoffVars == <<clock, nextStart, backoff, working, sinceFailure, wrapped>>

\* enqueueSnap: refused, dropped or queued.
Enqueue ==
  queued' = IF clock < nextStart \/ queued = QueueSize THEN queued ELSE queued + 1

\* What a setting is as a byte: what is stored of it, and the divisor.
Byte(setting) == setting % SendMod

\* init: the setting is loaded, queue and worker are new.
IpRestart ==
  /\ clock' = 0 /\ nextStart' = 0 /\ backoff' = MinBackoff
  /\ queued' = 0 /\ working' = FALSE /\ snapRequested' = FALSE
  /\ sendOffset' = IF storedSend = 0 THEN 1 ELSE storedSend
  /\ sendCount' = 0
  /\ sinceFailure' = MaxBackoff /\ wrapped' = FALSE
  /\ UNCHANGED <<storedSend, snaps>>

\* publish with readySend.
IpCounts ==
  /\ snaps < MaxSnaps
  /\ Byte(sendOffset) # 0
  /\ snaps' = snaps + 1
  /\ LET count == Byte(sendCount + 1)
     IN  IF count % Byte(sendOffset) = 0
         THEN sendCount' = 0 /\ Enqueue
         ELSE sendCount' = count /\ UNCHANGED queued
  /\ UNCHANGED <<backoffVars, snapRequested, sendOffset, storedSend>>

\* A setting whose byte is 0 divides by zero, and the exception restarts the
\* board.
IpPublish == IpCounts \/ (Byte(sendOffset) = 0 /\ IpRestart)

\* snapNow.
SnapNow ==
  /\ snaps < MaxSnaps
  /\ snaps' = snaps + 1
  /\ snapRequested' = TRUE
  /\ UNCHANGED <<backoffVars, queued, sendOffset, sendCount, storedSend>>

\* loop forgets the request whatever becomes of it.
IpLoop ==
  /\ snapRequested
  /\ snapRequested' = FALSE
  /\ Enqueue
  /\ UNCHANGED <<backoffVars, sendOffset, sendCount, storedSend, snaps>>

IpTake ==
  /\ ~working
  /\ queued > 0
  /\ working' = TRUE
  /\ queued' = queued - 1
  /\ UNCHANGED <<clock, nextStart, backoff, sinceFailure, wrapped, snapRequested, sendOffset,
                 sendCount, storedSend, snaps>>

\* Slip: the doubled backoff is used, and not bounded.
IpFailsUnbounded ==
  /\ nextStart' = (clock + 2 * backoff) % ClockMod
  /\ backoff' = 2 * backoff
  /\ sinceFailure' = 0
  /\ wrapped' = FALSE

\* A job that failed, at its start or in the end.
IpFails ==
  /\ nextStart' = (clock + backoff) % ClockMod
  /\ backoff' = IF 2 * backoff < MaxBackoff THEN 2 * backoff ELSE MaxBackoff
  /\ sinceFailure' = 0
  /\ wrapped' = FALSE

IpDone ==
  /\ working
  /\ working' = FALSE
  /\ \/ nextStart' = 0 /\ backoff' = MinBackoff /\ UNCHANGED <<sinceFailure, wrapped>>
     \/ IpFails
  /\ UNCHANGED <<clock, queued, snapRequested, sendOffset, sendCount, storedSend, snaps>>

IpTick ==
  /\ clock' = (clock + 1) % ClockMod
  /\ sinceFailure' = IF sinceFailure < MaxBackoff THEN sinceFailure + 1 ELSE sinceFailure
  /\ wrapped' = (wrapped \/ clock' = 0)
  /\ UNCHANGED <<nextStart, backoff, queued, working, snapRequested, sendOffset, sendCount,
                 storedSend, snaps>>

\* Slip: what is stored is the cadence before this one.
SetSendOffsetLate ==
  /\ \E value \in SnapOffsets : sendOffset' = value /\ storedSend' = Byte(sendOffset)
  /\ sendCount' = 0
  /\ UNCHANGED <<backoffVars, queued, snapRequested, snaps>>

\* setOffsetMultiple with saveOffset: the setting is kept as it is, and stored
\* as a byte.
SetSendOffset ==
  /\ \E value \in SnapOffsets : sendOffset' = value /\ storedSend' = Byte(value)
  /\ sendCount' = 0
  /\ UNCHANGED <<backoffVars, queued, snapRequested, snaps>>

IpFresh ==
  /\ clock = 0 /\ nextStart = 0 /\ backoff = MinBackoff
  /\ queued = 0 /\ working = FALSE /\ snapRequested = FALSE
  /\ sendOffset = 1 /\ sendCount = 0 /\ storedSend = 0
  /\ snaps = 0
  /\ sinceFailure = MaxBackoff /\ wrapped = FALSE

IpStep == IpLoop \/ IpTake \/ IpDone \/ IpTick

-----------------------------------------------------------------------------
(* Properties *)

IpTypeOK ==
  /\ {clock, nextStart} \subseteq 0 .. ClockMod - 1
  /\ backoff \in MinBackoff .. MaxBackoff
  /\ queued \in 0 .. QueueSize
  /\ {working, snapRequested, wrapped} \subseteq BOOLEAN
  /\ sendOffset \in SnapOffsets \cup 1 .. SendMod - 1
  /\ {sendCount, storedSend} \subseteq 0 .. SendMod - 1
  /\ snaps \in 0 .. MaxSnaps
  /\ sinceFailure \in 0 .. MaxBackoff

\* Requests are refused for MaxBackoff after a failure and no longer, unless
\* the clock wraps in that time: then the comparison refuses them until the
\* clock is back where it was (enqueueSnap compares millis() itself).
BackoffEnds == clock < nextStart => sinceFailure < MaxBackoff \/ wrapped

\* Every job that waits is taken (taskMain).
JobsAreTaken == queued > 0 ~> queued = 0 \/ working

\* The cadence in use, which is the byte of the setting, is the one a restart
\* loads; a setting that does not fit a byte is shown until then and another
\* after.  Excepted is a byte of 0, which the next publication ends with a
\* restart to a cadence of 1 (setOffsetMultiple, readySend, init).
SendOffsetStored ==
  Byte(sendOffset) # 0 => Byte(sendOffset) = IF storedSend = 0 THEN 1 ELSE storedSend
===============================================================================
