--------------------------- MODULE Watchdog_proofs ---------------------------
(***************************************************************************)
(* What Watchdog states of the feeder and the chip, proved for every       *)
(* timeout, period and window and for every width of the clock that the    *)
(* assumption admits: the wrapped stamps tell the real ages as long as     *)
(* those stay below the clock's range, and being fed keeps them there.     *)
(***************************************************************************)
EXTENDS Watchdog, TLAPS

Reading == feeder = "decide"

\* Ticks since the feeder read the clock: one at most.
Late == IF clock = inNow THEN 0 ELSE 1

\* The step of the start-up and the flag go together, in the main task and in
\* what the feeder read of it.
Gated ==
  /\ armed <=> main = "loop"
  /\ inArmed => armed
  /\ graceStart = 0
  /\ Reading => clock = inNow \/ clock = (inNow + 1) % Wrap

\* A stamp of the main task tells its age; no age outlasts its timeout by more
\* than the time since the last pulse.
BeatAge ==
  /\ main # "setup" => Elapsed(lastHeartbeat, clock) = silent
  /\ main = "start" => silent <= 1
  /\ armed => silent <= Liveness + unfed

\* During the grace the clock is the age of the board.  A feeder that still
\* thinks so reads the age of the board, though a start() may end meanwhile.
BootAge ==
  /\ ~armed => booting = clock /\ booting <= Grace + unfed
  /\ Reading /\ ~inArmed => /\ inNow <= booting
                            /\ booting <= inNow + Late
                            /\ armed => silent <= 1 + Late

BarrenAge ==
  /\ barren <= booting
  /\ productivity # 0 => /\ Elapsed(lastProductive, clock) = barren
                         /\ barren <= productivity + unfed

\* Stamps of which none is fresh are as old as the reading of the clock.
Unfresh == Reading /\ ~fresh /\ Late = 1 => silent >= 1 /\ barren >= 1

\* A race takes a tick between the two reads.
RacesTake == races + (IF Reading THEN Late ELSE 0) <= unfed

AgeInv == BeatAge /\ BootAge /\ BarrenAge /\ Unfresh /\ RacesTake

IInv == TypeOK /\ Gated /\ AgeInv /\ SkipsAreExplained

-----------------------------------------------------------------------------
(* Arithmetic modulo Wrap *)

LEMMA OneRemainder ==
  ASSUME NEW n \in Nat \ {0}, NEW q \in Int, NEW r \in 0 .. n - 1
  PROVE  ((n * q) + r) % n = r
OBVIOUS

LEMMA SumIsNat ==
  ASSUME NEW m \in Nat, NEW n \in Nat
  PROVE  0 <= m + n
OBVIOUS

LEMMA WrapIsNat == Wrap \in Nat \ {0}
BY WatchdogAssumption

\* The time since a stamp, when the clock has not passed it again.
LEMMA ElapsedIs ==
  ASSUME NEW a \in Stamps, NEW b \in Stamps
  PROVE  Elapsed(a, b) = IF a <= b THEN b - a ELSE (b - a) + Wrap
<1> USE WrapIsNat DEF Stamps
<1>1. CASE a <= b
  <2>1. b - a \in 0 .. Wrap - 1 /\ b - a = (Wrap * 0) + (b - a)
    BY <1>1
  <2>2. (b - a) % Wrap = b - a
    BY <2>1, OneRemainder
  <2> QED BY <1>1, <2>2 DEF Elapsed
<1>2. CASE b < a
  <2> DEFINE r == (b - a) + Wrap
  <2>1. r \in 0 .. Wrap - 1 /\ b - a = (Wrap * (-1)) + r
    BY <1>2
  <2>2. (b - a) % Wrap = r
    <3> HIDE DEF r
    <3> QED BY <2>1, OneRemainder
  <2> QED BY <1>2, <2>2 DEF Elapsed
<1> QED BY <1>1, <1>2

\* The next reading of the clock.
LEMMA NextIs ==
  ASSUME NEW c \in Stamps
  PROVE  (c + 1) % Wrap = IF c + 1 = Wrap THEN 0 ELSE c + 1
<1> USE WrapIsNat DEF Stamps
<1>1. CASE c + 1 < Wrap
  <2>1. c + 1 \in 0 .. Wrap - 1 /\ c + 1 = (Wrap * 0) + (c + 1)
    BY <1>1
  <2>2. (c + 1) % Wrap = c + 1
    BY <2>1, OneRemainder
  <2> QED BY <1>1, <2>2
<1>2. CASE c + 1 = Wrap
  <2>1. 0 \in 0 .. Wrap - 1 /\ c + 1 = (Wrap * 1) + 0
    BY <1>2
  <2>2. (c + 1) % Wrap = 0
    BY <2>1, OneRemainder
  <2> QED BY <1>2, <2>2
<1> QED BY <1>1, <1>2

\* Time makes a stamp older by one, until the clock comes back to it.
LEMMA Ages ==
  ASSUME NEW a \in Stamps, NEW c \in Stamps, Elapsed(a, c) + 1 < Wrap
  PROVE  /\ (c + 1) % Wrap \in Stamps
         /\ (c + 1) % Wrap # c
         /\ Elapsed(a, (c + 1) % Wrap) = Elapsed(a, c) + 1
<1>1. Elapsed(a, c) = IF a <= c THEN c - a ELSE (c - a) + Wrap
  BY ElapsedIs
<1>2. (c + 1) % Wrap = IF c + 1 = Wrap THEN 0 ELSE c + 1
  BY NextIs
<1> DEFINE d == (c + 1) % Wrap
<1>3. d \in Stamps /\ d # c
  BY <1>1, <1>2, WrapIsNat DEF Stamps
<1>4. Elapsed(a, d) = IF a <= d THEN d - a ELSE (d - a) + Wrap
  <2> HIDE DEF d
  <2> QED BY <1>3, ElapsedIs
<1>5. Elapsed(a, d) = Elapsed(a, c) + 1
  <2> HIDE DEF d
  <2>1. d = IF c + 1 = Wrap THEN 0 ELSE c + 1
    BY <1>2 DEF d
  <2> QED BY <1>1, <1>4, <2>1, WrapIsNat DEF Stamps
<1> QED BY <1>3, <1>5

LEMMA Now == ASSUME NEW c \in Stamps PROVE Elapsed(c, c) = 0
BY ElapsedIs, WrapIsNat DEF Stamps

\* What the feeder makes of a stamp: it read the clock at b, and now it is c.
LEMMA AsRead ==
  ASSUME NEW a \in Stamps, NEW b \in Stamps, NEW c \in Stamps,
         c = b \/ c = (b + 1) % Wrap
  PROVE  /\ Elapsed(a, b) \in Nat
         /\ c = b => Elapsed(a, b) = Elapsed(a, c)
         /\ c # b /\ Elapsed(a, c) >= 1 => Elapsed(a, b) = Elapsed(a, c) - 1
<1>1. /\ Elapsed(a, c) = IF a <= c THEN c - a ELSE (c - a) + Wrap
      /\ Elapsed(a, b) = IF a <= b THEN b - a ELSE (b - a) + Wrap
  BY ElapsedIs
<1>2. c = b \/ c = IF b + 1 = Wrap THEN 0 ELSE b + 1
  BY NextIs
<1> QED BY <1>1, <1>2, WrapIsNat DEF Stamps

-----------------------------------------------------------------------------
(* The policy *)

\* The numbers that the steps below reason about.
LEMMA Numbers ==
  ASSUME TypeOK
  PROVE  /\ clock \in Stamps /\ lastHeartbeat \in Stamps /\ lastProductive \in Stamps
         /\ graceStart \in Stamps /\ inNow \in Stamps
         /\ productivity \in Productivity /\ productivity \in Nat
         /\ due \in Nat /\ unfed \in Nat /\ silent \in Nat /\ booting \in Nat /\ barren \in Nat
         /\ races \in Nat /\ unfed <= HwWindow /\ due <= Period
         /\ booting <= MaxBarren /\ barren <= MaxBarren
BY WatchdogAssumption DEF TypeOK

LEMMA Constants ==
  /\ Wrap \in Nat /\ Liveness \in Nat /\ Grace \in Nat /\ Period \in Nat /\ HwWindow \in Nat
  /\ MaxBarren \in Nat
  /\ Liveness > 1 /\ Grace > 0 /\ Period > 0 /\ HwWindow > 0
  /\ Wrap > Liveness + HwWindow + 1
  /\ Wrap > Grace + HwWindow + 1
  /\ MaxBarren > Grace + HwWindow
BY WatchdogAssumption

LEMMA Backstop ==
  ASSUME NEW p \in Productivity, p # 0
  PROVE  p >= Grace + HwWindow /\ Wrap > p + HwWindow + 1 /\ MaxBarren > p + HwWindow
BY WatchdogAssumption

\* A feeder that gives a pulse has seen ages within their timeouts, and no more
\* than one tick has gone by since.
LEMMA Fed ==
  ASSUME IInv, Reading, ShouldFeed
  PROVE  /\ armed => silent <= Liveness
         /\ ~armed => booting <= Grace
         /\ productivity # 0 => barren <= productivity
<1> USE Numbers, Constants DEF IInv
<1>0. clock = inNow \/ clock = (inNow + 1) % Wrap
  BY DEF Gated
<1>1. CASE inArmed
  <2>1. armed /\ Elapsed(lastHeartbeat, clock) = silent
    BY <1>1 DEF Gated, AgeInv, BeatAge
  <2>2. Elapsed(lastHeartbeat, inNow) < Liveness
    <3>1. ~(Elapsed(lastHeartbeat, inNow) >= Liveness)
      BY <1>1 DEF ShouldFeed, TimedOut
    <3> QED BY <3>1, <1>0, AsRead
  <2>3. silent <= Liveness
    BY <1>0, <2>1, <2>2, AsRead
  <2>4. ASSUME productivity # 0 PROVE barren <= productivity
    <3>1. Elapsed(lastProductive, clock) = barren
      BY <2>4 DEF AgeInv, BarrenAge
    <3>2. ~(Elapsed(lastProductive, inNow) >= productivity)
      BY <1>1, <2>4 DEF ShouldFeed, TimedOut
    <3> QED BY <1>0, <3>1, <3>2, AsRead
  <2> QED BY <2>1, <2>3, <2>4
<1>2. CASE ~inArmed
  <2>1. inNow < Grace
    <3>1. ~(Elapsed(0, inNow) >= Grace) /\ 0 \in Stamps
      BY <1>2 DEF ShouldFeed, TimedOut, Gated
    <3>2. Elapsed(0, inNow) = inNow
      BY <3>1, ElapsedIs DEF Stamps
    <3> QED BY <3>1, <3>2 DEF Stamps
  <2>2. Late \in {0, 1} /\ booting <= inNow + Late /\ (armed => silent <= 1 + Late)
    BY <1>2 DEF AgeInv, BootAge, Late
  <2>3. booting <= Grace /\ (armed => silent <= Liveness)
    BY <2>1, <2>2 DEF Stamps
  <2>4. barren <= Grace
    BY <2>3 DEF AgeInv, BarrenAge
  <2> QED BY <2>3, <2>4, Backstop
<1> QED BY <1>1, <1>2

\* A feeder that skips a pulse has seen an age that is over its timeout, or a
\* stamp that is newer than its reading of the clock, which is then a tick old.
LEMMA Skipped ==
  ASSUME IInv, Reading, ~ShouldFeed
  PROVE  /\ SkipReason \subseteq Excuses \/ (SkipReason = {"race"} /\ Late = 1)
         /\ SkipReason # {}
<1> DEFINE real == (IF inArmed /\ silent >= Liveness THEN {"silent"} ELSE {})
             \union (IF ~inArmed /\ booting >= Grace THEN {"boot"} ELSE {})
             \union (IF inArmed /\ productivity # 0 /\ barren >= productivity
                     THEN {"barren"} ELSE {})
<1>1. /\ real \subseteq Excuses
      /\ SkipReason = IF real # {} THEN real ELSE IF fresh THEN {"race"} ELSE {"none"}
  BY DEF SkipReason, Excuses
<1>2. ASSUME real = {}
      PROVE  fresh /\ Late = 1
  <2> USE Numbers, Constants DEF IInv
  <2>0. clock = inNow \/ clock = (inNow + 1) % Wrap
    BY DEF Gated
  <2>1. inArmed
    <3> SUFFICES ASSUME ~inArmed PROVE FALSE
      OBVIOUS
    <3>1. Elapsed(0, inNow) >= Grace /\ 0 \in Stamps
      BY DEF ShouldFeed, TimedOut, Gated
    <3>2. Elapsed(0, inNow) = inNow
      BY <3>1, ElapsedIs DEF Stamps
    <3>3. inNow <= booting /\ ~(booting >= Grace)
      BY <1>2 DEF AgeInv, BootAge
    <3> QED BY <3>1, <3>2, <3>3 DEF Stamps
  <2>2. silent < Liveness /\ (productivity # 0 => barren < productivity)
    BY <1>2, <2>1
  <2>3. Elapsed(lastHeartbeat, clock) = silent
    BY <2>1 DEF Gated, AgeInv, BeatAge
  <2>4. productivity # 0 => Elapsed(lastProductive, clock) = barren
    BY DEF AgeInv, BarrenAge
  <2>5. \/ Elapsed(lastHeartbeat, inNow) >= Liveness
        \/ productivity # 0 /\ Elapsed(lastProductive, inNow) >= productivity
    BY <2>1 DEF ShouldFeed, TimedOut
  <2>6. clock # inNow
    BY <2>0, <2>2, <2>3, <2>4, <2>5, AsRead
  <2>7. Late = 1
    BY <2>6 DEF Late
  <2>8. fresh
    <3> SUFFICES ASSUME ~fresh PROVE FALSE
      OBVIOUS
    <3>1. silent >= 1 /\ barren >= 1
      BY <2>7 DEF AgeInv, Unfresh
    <3> QED BY <2>0, <2>2, <2>3, <2>4, <2>5, <2>6, <3>1, AsRead
  <2> QED BY <2>7, <2>8
<1> HIDE DEF real
<1> QED BY <1>1, <1>2 DEF Excuses

-----------------------------------------------------------------------------
(* The steps *)

LEMMA IInvInit == Init => IInv
<1> SUFFICES ASSUME Init
             PROVE  IInv
  OBVIOUS
<1> USE WatchdogAssumption, Constants DEF Init
<1>1. 0 \in Stamps /\ Elapsed(0, 0) = 0
  <2>1. 0 \in Stamps
    BY DEF Stamps
  <2> QED BY <2>1, Now
<1>2. TypeOK
  <2>1. 0 \in 0 .. Period /\ 0 \in 0 .. HwWindow /\ 0 \in 0 .. MaxBarren /\ 0 \in Nat
    BY Constants
  <2> QED BY <1>1, <2>1 DEF TypeOK
<1>3. Gated
  BY DEF Gated, Reading
<1>4. productivity \in Nat
  OBVIOUS
<1>5. AgeInv
  BY <1>1, <1>4 DEF AgeInv, BeatAge, BootAge, BarrenAge, Unfresh, RacesTake, Reading
<1>6. SkipsAreExplained
  BY DEF SkipsAreExplained
<1> QED BY <1>2, <1>3, <1>5, <1>6 DEF IInv

\* Time goes by: a clock that is read at most one tick ago, and counts that
\* grow by one.
LEMMA TickIs ==
  ASSUME IInv, Tick
  PROVE  /\ clock' = (clock + 1) % Wrap /\ clock' \in Stamps /\ clock' # clock
         /\ unfed < HwWindow /\ unfed' = unfed + 1
         /\ silent' = silent + 1
         /\ booting' = Older(booting) /\ barren' = Older(barren)
         /\ Reading => clock = inNow
         /\ feeder = "asleep" => due' = due - 1
         /\ Reading => due' = due
         /\ due' \in 0 .. Period
<1> USE Numbers, Constants DEF IInv
<1>1. clock' = (clock + 1) % Wrap /\ (clock + 1) % Wrap = IF clock + 1 = Wrap THEN 0 ELSE clock + 1
  BY NextIs DEF Tick
<1>2. clock' \in Stamps /\ clock' # clock
  BY <1>1 DEF Stamps
<1>3. unfed < HwWindow /\ unfed' = unfed + 1 /\ silent' = silent + 1
      /\ booting' = Older(booting) /\ barren' = Older(barren)
  BY DEF Tick
<1>4. \/ feeder = "asleep" /\ due > 0 /\ due' = due - 1
      \/ feeder = "decide" /\ inNow = clock /\ due' = due
  BY DEF Tick
<1> QED BY <1>1, <1>2, <1>3, <1>4 DEF Reading

LEMMA OlderIs ==
  ASSUME NEW age \in 0 .. MaxBarren
  PROVE  /\ Older(age) \in 0 .. MaxBarren
         /\ Older(age) >= age /\ Older(age) <= age + 1
         /\ Older(age) >= 1
         /\ age < MaxBarren => Older(age) = age + 1
BY Constants DEF Older

\* A pulse, or the reason why there is none.
LEMMA DecidesIs ==
  ASSUME IInv, FeederDecides
  PROVE  /\ Reading /\ feeder' = "asleep" /\ due' = Period
         /\ \/ ShouldFeed /\ unfed' = 0 /\ reasons' = {} /\ races' = 0
            \/ /\ ~ShouldFeed
               /\ unfed' = unfed
               /\ reasons' = reasons \union SkipReason
               /\ \/ SkipReason \subseteq Excuses /\ SkipReason # {} /\ races' = races
                  \/ SkipReason = {"race"} /\ races' = races + 1 /\ Late = 1
<1>1. /\ Reading /\ feeder' = "asleep" /\ due' = Period
      /\ IF ShouldFeed
         THEN unfed' = 0 /\ reasons' = {} /\ races' = 0
         ELSE /\ reasons' = reasons \union SkipReason
              /\ races' = races + (IF SkipReason = {"race"} THEN 1 ELSE 0)
              /\ unfed' = unfed
  BY DEF FeederDecides, Reading
<1>2. CASE ShouldFeed
  BY <1>1, <1>2
<1>3. CASE ~ShouldFeed
  <2>1. \/ SkipReason \subseteq Excuses /\ SkipReason # {}
        \/ SkipReason = {"race"} /\ Late = 1
    BY <1>1, <1>3, Skipped
  <2>2. "race" \notin Excuses
    BY DEF Excuses
  <2>3. CASE SkipReason \subseteq Excuses /\ SkipReason # {}
    <3>1. SkipReason # {"race"}
      BY <2>2, <2>3
    <3>2. races' = races + 0 /\ races \in Nat
      BY <1>1, <1>3, <3>1, Numbers DEF IInv
    <3> QED BY <1>1, <1>3, <2>3, <3>2
  <2>4. CASE SkipReason = {"race"} /\ Late = 1
    BY <1>1, <1>3, <2>4
  <2> QED BY <2>1, <2>3, <2>4
<1> QED BY <1>2, <1>3

\* A start: everything but the build and the chip begins anew.
LEMMA BootIs ==
  ASSUME IInv, ChipResets \/ SoftwareReset
  PROVE  /\ Boots
         /\ unfed' \in {0, unfed}
         /\ reasons' \in {{}, reasons \union {"restart"}}
BY DEF ChipResets, SoftwareReset

LEMMA RacesKeep == IInv /\ [Next]_vars => RacesTake'
<1> SUFFICES ASSUME IInv, [Next]_vars
             PROVE  RacesTake'
  OBVIOUS
<1> USE Numbers, Constants DEF IInv
<1>0. races + (IF Reading THEN Late ELSE 0) <= unfed
  BY DEF AgeInv, RacesTake
<1>1. CASE Seed \/ Arm \/ Heartbeat \/ Productive \/ UNCHANGED vars
  <2>1. UNCHANGED <<clock, inNow, feeder, races, unfed>>
    BY <1>1 DEF Seed, Arm, Heartbeat, Productive, vars, stamps, feederVars, skips
  <2> QED BY <1>0, <2>1 DEF RacesTake, Reading, Late
<1>2. CASE FeederReads
  <2>1. inNow' = clock /\ UNCHANGED <<clock, unfed, races>> /\ feeder = "asleep"
    BY <1>2 DEF FeederReads, skips
  <2> QED BY <1>0, <2>1 DEF RacesTake, Reading, Late
<1>3. CASE FeederDecides
  <2>1. /\ Reading /\ feeder' = "asleep"
        /\ \/ unfed' = 0 /\ races' = 0
           \/ unfed' = unfed /\ races' = races
           \/ unfed' = unfed /\ races' = races + 1 /\ Late = 1
    BY <1>3, DecidesIs
  <2>2. Late \in {0, 1}
    BY DEF Late
  <2>3. races' <= unfed'
    BY <1>0, <2>1, <2>2
  <2> QED BY <2>1, <2>3 DEF RacesTake, Reading
<1>4. CASE Tick
  <2>1. UNCHANGED <<feeder, races, inNow>>
    BY <1>4 DEF Tick, skips
  <2>2. unfed' = unfed + 1 /\ (Reading => clock = inNow)
    BY <1>4, TickIs
  <2> QED BY <1>0, <2>1, <2>2 DEF RacesTake, Reading, Late
<1>5. CASE ChipResets \/ SoftwareReset
  <2>1. unfed' \in Nat
    BY <1>5, BootIs
  <2>2. races' = 0 /\ feeder' = "asleep"
    BY <1>5, BootIs DEF Boots
  <2> QED BY <2>1, <2>2 DEF RacesTake, Reading
<1> QED BY <1>1, <1>2, <1>3, <1>4, <1>5 DEF Next

LEMMA ReasonsKeep == IInv /\ [Next]_vars => SkipsAreExplained' /\ (reasons \subseteq Reasons)'
<1> SUFFICES ASSUME IInv, [Next]_vars
             PROVE  SkipsAreExplained' /\ reasons' \subseteq Reasons
  OBVIOUS
<1> USE DEF SkipsAreExplained, Reasons, Excuses
<1>0. "none" \notin reasons /\ reasons \subseteq Reasons
  BY DEF IInv, TypeOK
<1>1. CASE UNCHANGED reasons
  BY <1>0, <1>1
<1>2. CASE FeederDecides
  <2>1. \/ reasons' = {}
        \/ reasons' = reasons \union SkipReason /\ SkipReason \subseteq Excuses
        \/ reasons' = reasons \union SkipReason /\ SkipReason = {"race"}
    BY <1>2, DecidesIs
  <2> QED BY <1>0, <2>1
<1>3. CASE ChipResets \/ SoftwareReset
  BY <1>0, <1>3, BootIs
<1> QED
  BY <1>1, <1>2, <1>3
  DEF Next, Seed, Arm, Heartbeat, Productive, FeederReads, Tick, vars, skips

LEMMA TypeKeeps == IInv /\ [Next]_vars => TypeOK'
<1> SUFFICES ASSUME IInv, [Next]_vars
             PROVE  TypeOK'
  OBVIOUS
<1> USE DEF IInv
<1>0. 0 \in Stamps /\ 0 \in 0 .. Period /\ 0 \in 0 .. HwWindow /\ 0 \in 0 .. MaxBarren
      /\ Period \in 0 .. Period /\ 0 \in Nat
  BY Constants DEF Stamps
<1>1. reasons' \subseteq Reasons
  BY ReasonsKeep
<1>2. unfed' \in 0 .. HwWindow
  <2>1. unfed \in 0 .. HwWindow
    BY DEF TypeOK
  <2>2. CASE Tick
    BY <2>2, TickIs, Numbers, Constants
  <2>3. CASE unfed' \in {0, unfed}
    BY <2>1, <2>3, <1>0
  <2>4. CASE FeederDecides
    BY <2>4, <2>3, DecidesIs
  <2>5. CASE ChipResets \/ SoftwareReset
    BY <2>5, <2>3, BootIs
  <2> QED
    BY <2>2, <2>3, <2>4, <2>5 DEF Next, Seed, Arm, Heartbeat, Productive, FeederReads, vars
<1>3. races' \in 0 .. HwWindow
  <2>1. races' \in Nat
    <3>1. CASE FeederDecides
      <4>1. races' \in {0, races, races + 1}
        BY <3>1, DecidesIs
      <4> QED BY <4>1, Numbers
    <3> QED
      BY <3>1, Numbers DEF Next, Seed, Arm, Heartbeat, Productive, FeederReads, Tick,
                           ChipResets, SoftwareReset, Boots, vars, skips
  <2>2. races' <= unfed'
    <3> DEFINE late == IF Reading THEN Late ELSE 0
    <3>1. late' = 0 \/ late' = 1
      BY DEF Late
    <3>2. races' + late' <= unfed'
      BY RacesKeep DEF RacesTake
    <3>3. unfed' \in Nat
      BY <1>2, Constants
    <3> HIDE DEF late
    <3> QED BY <2>1, <3>1, <3>2, <3>3
  <2> QED BY <2>1, <2>2, <1>2, Constants
<1>4. CASE Seed \/ Arm \/ Heartbeat \/ Productive \/ FeederReads
  BY <1>0, <1>1, <1>2, <1>3, <1>4
  DEF TypeOK, Seed, Arm, Heartbeat, Productive, FeederReads, stamps, feederVars, ages
<1>5. CASE FeederDecides
  BY <1>0, <1>1, <1>2, <1>3, <1>5 DEF TypeOK, FeederDecides, stamps, ages
<1>6. CASE Tick
  <2>1. booting' \in 0 .. MaxBarren /\ barren' \in 0 .. MaxBarren
    BY <1>6, TickIs, OlderIs DEF TypeOK
  <2>2. clock' \in Stamps /\ due' \in 0 .. Period
    BY <1>6, TickIs
  <2>3. silent' \in Nat
    BY <1>6, TickIs, Numbers
  <2> QED BY <1>1, <1>2, <1>3, <1>6, <2>1, <2>2, <2>3 DEF TypeOK, Tick, stamps
<1>7. CASE ChipResets \/ SoftwareReset
  <2>1. Boots
    BY <1>7, BootIs
  <2> QED BY <1>0, <1>1, <1>2, <1>3, <2>1 DEF TypeOK, Boots
<1>8. CASE UNCHANGED vars
  BY <1>8 DEF TypeOK, vars, stamps, feederVars, ages, skips
<1> QED BY <1>4, <1>5, <1>6, <1>7, <1>8 DEF Next

LEMMA GatedKeeps == IInv /\ [Next]_vars => Gated'
<1> SUFFICES ASSUME IInv, [Next]_vars
             PROVE  Gated'
  OBVIOUS
<1>0. Gated
  BY DEF IInv
<1>1. CASE Seed \/ Arm \/ Heartbeat \/ Productive
  BY <1>0, <1>1
  DEF Gated, Reading, Seed, Arm, Heartbeat, Productive, stamps, feederVars
<1>2. CASE FeederReads
  BY <1>0, <1>2 DEF Gated, Reading, FeederReads, stamps
<1>3. CASE FeederDecides
  BY <1>0, <1>3 DEF Gated, Reading, FeederDecides, stamps
<1>4. CASE Tick
  <2>1. UNCHANGED <<armed, main, inArmed, graceStart, feeder, inNow>>
    BY <1>4 DEF Tick, stamps
  <2>2. clock' = (clock + 1) % Wrap /\ (Reading => clock = inNow)
    BY <1>4, TickIs
  <2> QED BY <1>0, <2>1, <2>2 DEF Gated, Reading
<1>5. CASE ChipResets \/ SoftwareReset
  <2>1. Boots
    BY <1>5, BootIs
  <2> QED BY <2>1 DEF Gated, Reading, Boots
<1>6. CASE UNCHANGED vars
  BY <1>0, <1>6 DEF Gated, Reading, vars, stamps, feederVars
<1> QED BY <1>1, <1>2, <1>3, <1>4, <1>5, <1>6 DEF Next

\* The age of the last heartbeat stays below the clock's range.
LEMMA SilentIsShort ==
  ASSUME IInv
  PROVE  main # "setup" => silent + 1 < Wrap
<1> USE Numbers, Constants DEF IInv
<1>1. main \in {"setup", "start", "loop"}
  BY DEF TypeOK
<1>2. CASE main = "start"
  BY <1>2 DEF AgeInv, BeatAge
<1>3. CASE main = "loop"
  BY <1>3 DEF AgeInv, BeatAge, Gated
<1> QED BY <1>1, <1>2, <1>3

LEMMA BeatKeeps == IInv /\ [Next]_vars => BeatAge'
<1> SUFFICES ASSUME IInv, [Next]_vars
             PROVE  BeatAge'
  OBVIOUS
<1> USE Numbers, Constants DEF IInv
<1>0. BeatAge /\ Gated
  BY DEF AgeInv
<1>1. CASE Seed
  <2>1. /\ main' = "start" /\ lastHeartbeat' = clock /\ clock' = clock /\ silent' = 0
        /\ armed' = armed /\ main = "setup"
    BY <1>1 DEF Seed
  <2>2. ~armed'
    BY <1>0, <2>1 DEF Gated
  <2>3. Elapsed(clock, clock) = 0
    BY Now
  <2>4. Elapsed(lastHeartbeat', clock') = silent'
    BY <2>1, <2>3
  <2>5. Elapsed(lastHeartbeat, clock)' = silent'
    BY <2>4 DEF Elapsed
  <2> QED BY <2>1, <2>2, <2>5 DEF BeatAge
<1>2. CASE Heartbeat
  <2>1. /\ main' = "loop" /\ lastHeartbeat' = clock /\ clock' = clock /\ silent' = 0
        /\ unfed' = unfed
    BY <1>2 DEF Heartbeat
  <2>3. Elapsed(clock, clock) = 0
    BY Now
  <2>5. Elapsed(lastHeartbeat, clock)' = silent'
    BY <2>1, <2>3 DEF Elapsed
  <2> QED BY <2>1, <2>5 DEF BeatAge
<1>3. CASE Arm
  <2>1. /\ main' = "loop" /\ UNCHANGED <<lastHeartbeat, clock, silent, unfed>>
        /\ main = "start"
    BY <1>3 DEF Arm, ages
  <2> QED BY <1>0, <2>1 DEF BeatAge, Elapsed
<1>4. CASE Productive \/ FeederReads \/ UNCHANGED vars
  <2>1. UNCHANGED <<main, armed, lastHeartbeat, clock, silent, unfed>>
    BY <1>4 DEF Productive, FeederReads, vars, stamps, ages
  <2> QED BY <1>0, <2>1 DEF BeatAge, Elapsed
<1>5. CASE FeederDecides
  <2>1. UNCHANGED <<main, armed, lastHeartbeat, clock, silent>>
    BY <1>5 DEF FeederDecides, stamps, ages
  <2>2. \/ unfed' = unfed
        \/ Reading /\ ShouldFeed /\ unfed' = 0
    BY <1>5, DecidesIs
  <2>3. armed => silent <= Liveness + unfed'
    <3>1. CASE unfed' = unfed
      BY <1>0, <3>1 DEF BeatAge
    <3>2. CASE Reading /\ ShouldFeed /\ unfed' = 0
      <4>1. armed => silent <= Liveness
        BY <3>2, Fed
      <4> QED BY <3>2, <4>1
    <3> QED BY <2>2, <3>1, <3>2
  <2> QED BY <1>0, <2>1, <2>3 DEF BeatAge, Elapsed
<1>6. CASE Tick
  <2>1. /\ UNCHANGED <<main, armed, lastHeartbeat>>
        /\ main = "start" => silent = 0
    BY <1>6 DEF Tick, stamps
  <2>2. clock' = (clock + 1) % Wrap /\ silent' = silent + 1 /\ unfed' = unfed + 1
    BY <1>6, TickIs
  <2>3. ASSUME main # "setup" PROVE Elapsed(lastHeartbeat, clock') = silent'
    <3>1. Elapsed(lastHeartbeat, clock) = silent
      BY <1>0, <2>3 DEF BeatAge
    <3>2. Elapsed(lastHeartbeat, clock) + 1 < Wrap
      BY <3>1, <2>3, SilentIsShort
    <3>3. Elapsed(lastHeartbeat, (clock + 1) % Wrap) = Elapsed(lastHeartbeat, clock) + 1
      BY <3>2, Ages
    <3> QED BY <3>1, <3>3, <2>2
  <2>4. main = "start" => silent' <= 1
    BY <2>1, <2>2
  <2>5. armed => silent' <= Liveness + unfed'
    BY <1>0, <2>2 DEF BeatAge
  <2>6. main' # "setup" => Elapsed(lastHeartbeat, clock)' = silent'
    BY <2>1, <2>3 DEF Elapsed
  <2> QED BY <2>1, <2>4, <2>5, <2>6 DEF BeatAge
<1>7. CASE ChipResets \/ SoftwareReset
  <2>1. main' = "setup" /\ ~armed'
    BY <1>7, BootIs DEF Boots
  <2> QED BY <2>1 DEF BeatAge
<1> QED BY <1>1, <1>2, <1>3, <1>4, <1>5, <1>6, <1>7 DEF Next

LEMMA BootKeeps == IInv /\ [Next]_vars => BootAge'
<1> SUFFICES ASSUME IInv, [Next]_vars
             PROVE  BootAge'
  OBVIOUS
<1> USE Numbers, Constants DEF IInv
<1>0. BootAge /\ BeatAge /\ Gated
  BY DEF AgeInv
<1>1. CASE Seed \/ Heartbeat
  <2>1. /\ UNCHANGED <<armed, clock, booting, unfed, feeder, inArmed, inNow>>
        /\ silent' = 0
    BY <1>1 DEF Seed, Heartbeat, feederVars
  <2>2. Late' = Late /\ Reading' = Reading /\ Late \in {0, 1}
    BY <2>1 DEF Late, Reading
  <2>3. silent' <= 1 + Late'
    BY <2>1, <2>2
  <2> QED BY <1>0, <2>1, <2>2, <2>3 DEF BootAge
<1>2. CASE Arm
  <2>1. /\ UNCHANGED <<clock, booting, silent, feeder, inArmed, inNow>>
        /\ main = "start" /\ armed'
    BY <1>2 DEF Arm, feederVars, ages
  <2>2. Late' = Late /\ Reading' = Reading /\ (Late = 0 \/ Late = 1)
    BY <2>1 DEF Late, Reading
  <2>3. silent <= 1
    BY <1>0, <2>1 DEF BeatAge
  <2>4. silent' <= 1 + Late'
    BY <2>1, <2>2, <2>3
  <2> QED BY <1>0, <2>1, <2>2, <2>4 DEF BootAge
<1>3. CASE Productive \/ UNCHANGED vars
  <2>1. UNCHANGED <<armed, clock, booting, unfed, silent, feeder, inArmed, inNow>>
    BY <1>3 DEF Productive, vars, stamps, feederVars, ages
  <2>2. Late' = Late /\ Reading' = Reading
    BY <2>1 DEF Late, Reading
  <2> QED BY <1>0, <2>1, <2>2 DEF BootAge
<1>4. CASE FeederReads
  <2>1. UNCHANGED <<armed, clock, booting, unfed, silent>> /\ inArmed' = armed /\ inNow' = clock
    BY <1>4 DEF FeederReads, stamps, ages
  <2>2. Late' = 0
    BY <2>1 DEF Late
  <2>3. ~armed => booting = clock /\ booting <= Grace + unfed
    BY <1>0 DEF BootAge
  <2> QED BY <2>1, <2>2, <2>3 DEF BootAge
<1>5. CASE FeederDecides
  <2>1. UNCHANGED <<armed, clock, booting>>
    BY <1>5 DEF FeederDecides, stamps, ages
  <2>2. /\ ~Reading'
        /\ \/ unfed' = unfed
           \/ Reading /\ ShouldFeed /\ unfed' = 0
    BY <1>5, DecidesIs DEF Reading
  <2>3. ~armed => booting <= Grace + unfed'
    <3>1. CASE unfed' = unfed
      BY <1>0, <3>1 DEF BootAge
    <3>2. CASE Reading /\ ShouldFeed /\ unfed' = 0
      <4>1. ~armed => booting <= Grace
        BY <3>2, Fed
      <4> QED BY <3>2, <4>1
    <3> QED BY <2>2, <3>1, <3>2
  <2> QED BY <1>0, <2>1, <2>2, <2>3 DEF BootAge
<1>6. CASE Tick
  <2>1. UNCHANGED <<armed, main, feeder, inArmed, inNow>>
    BY <1>6 DEF Tick, stamps
  <2>2. /\ clock' = (clock + 1) % Wrap /\ clock' # clock
        /\ silent' = silent + 1 /\ unfed' = unfed + 1 /\ unfed < HwWindow
        /\ booting' = Older(booting) /\ (Reading => clock = inNow)
    BY <1>6, TickIs
  <2>3. /\ booting' >= booting /\ booting' <= booting + 1 /\ booting' \in Nat
        /\ booting < MaxBarren => booting' = booting + 1
    BY <2>2, OlderIs DEF TypeOK
  <2>4. ASSUME ~armed PROVE booting' = clock' /\ booting' <= Grace + unfed'
    <3>1. booting = clock /\ booting <= Grace + unfed
      BY <1>0, <2>4 DEF BootAge
    <3>2. booting' = booting + 1
      BY <2>2, <2>3, <3>1
    <3>3. clock' = clock + 1
      BY <2>2, <3>1, NextIs
    <3> QED BY <2>2, <3>1, <3>2, <3>3
  <2>5. ASSUME Reading, ~inArmed
        PROVE  inNow <= booting' /\ booting' <= inNow + 1 /\ (armed => silent' <= 1 + 1)
    <3>1. clock = inNow /\ Late = 0
      BY <2>2, <2>5 DEF Late
    <3>2. inNow <= booting /\ booting <= inNow /\ (armed => silent <= 1)
      BY <1>0, <2>5, <3>1 DEF BootAge, Stamps
    <3> QED BY <2>2, <2>3, <3>2 DEF Stamps
  <2>6. Reading => Late' = 1
    BY <2>1, <2>2 DEF Late
  <2>7. Reading' = Reading
    BY <2>1 DEF Reading
  <2> QED BY <2>1, <2>4, <2>5, <2>6, <2>7 DEF BootAge
<1>7. CASE ChipResets \/ SoftwareReset
  <2>1. ~armed' /\ booting' = 0 /\ clock' = 0 /\ ~Reading'
    BY <1>7, BootIs DEF Boots, Reading
  <2>2. unfed' \in Nat
    BY <1>7, BootIs
  <2>3. booting' <= Grace + unfed'
    <3>1. Grace \in Nat /\ unfed' \in Nat
      BY <2>2
    <3>2. 0 <= Grace + unfed'
      BY <3>1, SumIsNat, Zenon
    <3> QED BY <2>1, <3>2
  <2> QED BY <2>1, <2>3 DEF BootAge
<1> QED BY <1>1, <1>2, <1>3, <1>4, <1>5, <1>6, <1>7 DEF Next

\* Within the grace no publication is overdue, whatever the backstop.
LEMMA BarrenKeeps == IInv /\ [Next]_vars => BarrenAge'
<1> SUFFICES ASSUME IInv, [Next]_vars
             PROVE  BarrenAge'
  OBVIOUS
<1> USE Numbers, Constants DEF IInv
<1>0. /\ barren <= booting
      /\ productivity # 0 => /\ Elapsed(lastProductive, clock) = barren
                             /\ barren <= productivity + unfed
  BY DEF AgeInv, BarrenAge
<1>1. CASE \/ Seed \/ Arm \/ Heartbeat \/ FeederReads \/ UNCHANGED vars
  <2>1. UNCHANGED <<barren, booting, productivity, lastProductive, clock, unfed>>
    BY <1>1 DEF Seed, Arm, Heartbeat, FeederReads, vars, stamps, ages
  <2> QED BY <1>0, <2>1 DEF BarrenAge, Elapsed
<1>2. CASE Productive
  <2>1. /\ barren' = 0 /\ lastProductive' = clock
        /\ UNCHANGED <<booting, productivity, clock, unfed>>
    BY <1>2 DEF Productive
  <2>2. Elapsed(lastProductive, clock)' = 0
    <3>1. Elapsed(clock, clock) = 0
      BY Now
    <3> QED BY <2>1, <3>1 DEF Elapsed
  <2>3. barren' <= booting' /\ barren' <= productivity' + unfed'
    BY <2>1
  <2> QED BY <2>1, <2>2, <2>3 DEF BarrenAge
<1>3. CASE FeederDecides
  <2>1. UNCHANGED <<barren, booting, productivity, lastProductive, clock>>
    BY <1>3 DEF FeederDecides, stamps, ages
  <2>2. \/ unfed' = unfed
        \/ Reading /\ ShouldFeed /\ unfed' = 0
    BY <1>3, DecidesIs
  <2>3. productivity # 0 => barren <= productivity + unfed'
    <3>1. CASE unfed' = unfed
      BY <1>0, <3>1
    <3>2. CASE Reading /\ ShouldFeed /\ unfed' = 0
      <4>1. productivity # 0 => barren <= productivity
        BY <3>2, Fed
      <4> QED BY <3>2, <4>1
    <3> QED BY <2>2, <3>1, <3>2
  <2> QED BY <1>0, <2>1, <2>3 DEF BarrenAge, Elapsed
<1>4. CASE Tick
  <2>1. UNCHANGED <<productivity, lastProductive>>
    BY <1>4 DEF Tick, stamps
  <2>2. /\ clock' = (clock + 1) % Wrap
        /\ unfed' = unfed + 1 /\ unfed < HwWindow
        /\ booting' = Older(booting) /\ barren' = Older(barren)
    BY <1>4, TickIs
  <2>3. barren' <= booting'
    BY <1>0, <2>2 DEF Older
  <2>4. ASSUME productivity # 0
        PROVE  Elapsed(lastProductive, clock') = barren' /\ barren' <= productivity + unfed'
    <3>1. Wrap > productivity + HwWindow + 1 /\ MaxBarren > productivity + HwWindow
      BY <2>4, Backstop
    <3>2. Elapsed(lastProductive, clock) = barren /\ barren <= productivity + unfed
      BY <1>0, <2>4
    <3>3. barren' = barren + 1 /\ barren + 1 < Wrap
      BY <2>2, <3>1, <3>2 DEF Older
    <3>4. Elapsed(lastProductive, (clock + 1) % Wrap) = Elapsed(lastProductive, clock) + 1
      BY <3>2, <3>3, Ages
    <3> QED BY <2>2, <3>2, <3>3, <3>4
  <2>5. productivity # 0 => Elapsed(lastProductive, clock)' = barren'
    BY <2>1, <2>4 DEF Elapsed
  <2> QED BY <2>1, <2>3, <2>4, <2>5 DEF BarrenAge
<1>5. CASE ChipResets \/ SoftwareReset
  <2>1. barren' = 0 /\ booting' = 0 /\ clock' = 0 /\ lastProductive' = 0
        /\ productivity' = productivity
    BY <1>5, BootIs DEF Boots
  <2>2. unfed' \in Nat
    BY <1>5, BootIs
  <2>3. Elapsed(0, 0) = 0
    <3>1. 0 \in Stamps
      BY DEF Stamps
    <3> QED BY <3>1, Now
  <2>4. Elapsed(lastProductive, clock)' = 0
    BY <2>1, <2>3 DEF Elapsed
  <2>5. barren' <= booting' /\ barren' <= productivity' + unfed'
    BY <2>1, <2>2
  <2> QED BY <2>1, <2>4, <2>5 DEF BarrenAge
<1> QED BY <1>1, <1>2, <1>3, <1>4, <1>5 DEF Next

LEMMA UnfreshKeeps == IInv /\ [Next]_vars => Unfresh'
<1> SUFFICES ASSUME IInv, [Next]_vars
             PROVE  Unfresh'
  OBVIOUS
<1> USE Numbers, Constants DEF IInv
<1>0. Unfresh
  BY DEF AgeInv
<1>1. CASE Seed \/ Heartbeat \/ Productive
  BY <1>1 DEF Unfresh, Seed, Heartbeat, Productive
<1>2. CASE Arm \/ UNCHANGED vars
  <2>1. UNCHANGED <<feeder, fresh, clock, inNow, silent, barren>>
    BY <1>2 DEF Arm, vars, feederVars, ages
  <2> QED BY <1>0, <2>1 DEF Unfresh, Reading, Late
<1>3. CASE FeederReads
  <2>1. Late' = 0
    BY <1>3 DEF FeederReads, Late
  <2> QED BY <2>1 DEF Unfresh
<1>4. CASE FeederDecides \/ ChipResets \/ SoftwareReset
  <2>1. ~Reading'
    BY <1>4 DEF FeederDecides, ChipResets, SoftwareReset, Boots, Reading
  <2> QED BY <2>1 DEF Unfresh
<1>5. CASE Tick
  <2>1. silent' = silent + 1 /\ barren' = Older(barren)
    BY <1>5, TickIs
  <2>2. silent' >= 1 /\ barren' >= 1
    BY <2>1, OlderIs DEF TypeOK
  <2> QED BY <2>2 DEF Unfresh
<1> QED BY <1>1, <1>2, <1>3, <1>4, <1>5 DEF Next

-----------------------------------------------------------------------------
(* The theorems *)

\* Whatever the main task, the feeder and the chip do, in whatever order, what
\* the proofs below rest on holds: the stamps tell the ages they stand for, and
\* no age outgrows its timeout by more than the time since the last pulse.
THEOREM Inductive == Spec => []IInv
<1>1. IInv /\ [Next]_vars => IInv'
  BY TypeKeeps, GatedKeeps, BeatKeeps, BootKeeps, BarrenKeeps, UnfreshKeeps, RacesKeep,
     ReasonsKeep DEF IInv, AgeInv
<1> QED BY <1>1, IInvInit, PTL DEF Spec

\* The variables of the feeder, the chip and the history stay within their types:
\* the races since the last pulse are never more than the ticks since.
THEOREM TypeCorrect == Spec => []TypeOK
<1>1. IInv => TypeOK
  BY DEF IInv
<1> QED BY <1>1, Inductive, PTL

\* A board that hangs in its loop, in its start-up or (with the backstop built
\* in) without publications does not stay up for longer than the timeout and one
\* window of the chip, wherever millis() wraps: shouldFeedDog over the wrapped
\* differences of timedOut.
THEOREM HangsAreBounded == Spec => []HangIsBounded
<1>1. IInv => HangIsBounded
  <2> SUFFICES ASSUME IInv
               PROVE  HangIsBounded
    OBVIOUS
  <2> USE Numbers, Constants DEF IInv
  <2>1. armed => silent <= Liveness + HwWindow
    BY DEF AgeInv, BeatAge
  <2>2. ~armed => booting <= Grace + HwWindow
    BY DEF AgeInv, BootAge
  <2>3. armed /\ productivity # 0 => barren <= productivity + HwWindow
    BY DEF AgeInv, BarrenAge
  <2> QED BY <2>1, <2>2, <2>3 DEF HangIsBounded
<1> QED BY <1>1, Inductive, PTL

\* The feeder never skips a pulse without a cause: an age is over its timeout, or
\* a stamp was left between its two reads.
THEOREM SkipsAlwaysExplained == Spec => []SkipsAreExplained
<1>1. IInv => SkipsAreExplained
  BY DEF IInv
<1> QED BY <1>1, Inductive, PTL

-----------------------------------------------------------------------------
(* One race *)

\* While the only pulses skipped since the last one were skipped for a race, the
\* chip has waited for a period, and a period and a late tick for each race.
Pulses(n) == IF Reading THEN unfed <= n + Late ELSE unfed + due <= n

Patience ==
  reasons \intersect Excuses = {} =>
    /\ races = 0 => Pulses(Period)
    /\ races = 1 => Pulses((2 * Period) + 1)

LEMMA PatienceInit == Init => Patience
<1> SUFFICES ASSUME Init
             PROVE  Patience
  OBVIOUS
<1> USE Constants DEF Init
<1>1. Pulses(Period)
  BY DEF Pulses, Reading
<1> QED BY <1>1 DEF Patience

\* Steps that leave the chip's count and the feeder's alarm clock alone.
LEMMA PulsesStay ==
  ASSUME NEW n \in Nat, Pulses(n), UNCHANGED <<unfed, due, feeder, inNow, clock>>
  PROVE  Pulses(n)'
BY DEF Pulses, Reading, Late

LEMMA PulsesTick ==
  ASSUME NEW n \in Nat, Pulses(n), IInv, Tick
  PROVE  Pulses(n)'
<1> USE Numbers, Constants DEF IInv
<1>1. feeder' = feeder /\ inNow' = inNow /\ (Reading \/ feeder = "asleep")
  BY DEF Tick, Reading, TypeOK
<1>2. unfed' = unfed + 1 /\ (Reading => clock = inNow) /\ clock' # clock
      /\ (feeder = "asleep" => due' = due - 1)
  BY TickIs
<1>3. CASE Reading
  <2>1. Reading' /\ Late = 0 /\ Late' = 1
    BY <1>1, <1>2, <1>3 DEF Late, Reading
  <2>2. unfed' <= n + 1
    BY <1>2, <1>3, <2>1 DEF Pulses
  <2> QED BY <2>1, <2>2 DEF Pulses
<1>4. CASE feeder = "asleep"
  <2>1. ~Reading /\ ~Reading'
    BY <1>1, <1>4 DEF Reading
  <2>2. unfed' + due' <= n
    BY <1>2, <1>4, <2>1 DEF Pulses
  <2> QED BY <2>1, <2>2 DEF Pulses
<1> QED BY <1>1, <1>3, <1>4

LEMMA PulsesReads ==
  ASSUME NEW n \in Nat, Pulses(n), IInv, FeederReads
  PROVE  Pulses(n)'
<1> USE Numbers, Constants DEF IInv
<1>1. ~Reading /\ Reading' /\ unfed' = unfed /\ due = 0 /\ Late' = 0
  BY DEF FeederReads, Reading, Late
<1>2. unfed' <= n
  BY <1>1 DEF Pulses
<1> QED BY <1>1, <1>2 DEF Pulses

LEMMA PatienceKeeps == IInv /\ Patience /\ [Next]_vars => Patience'
<1> SUFFICES ASSUME IInv, Patience, [Next]_vars, reasons' \intersect Excuses = {}
             PROVE  /\ races' = 0 => Pulses(Period)'
                    /\ races' = 1 => Pulses((2 * Period) + 1)'
  BY DEF Patience
<1> USE Numbers, Constants DEF IInv
<1>0. Period \in Nat /\ (2 * Period) + 1 \in Nat
  OBVIOUS
<1>1. CASE Seed \/ Arm \/ Heartbeat \/ Productive \/ UNCHANGED vars
  <2>1. UNCHANGED <<unfed, due, feeder, inNow, clock>> /\ UNCHANGED <<reasons, races>>
    BY <1>1 DEF Seed, Arm, Heartbeat, Productive, vars, feederVars, skips
  <2> QED BY <1>0, <2>1, PulsesStay, Zenon DEF Patience
<1>2. CASE FeederReads
  <2>1. UNCHANGED <<reasons, races>>
    BY <1>2 DEF FeederReads, skips
  <2> QED BY <1>0, <1>2, <2>1, PulsesReads, Zenon DEF Patience, IInv
<1>3. CASE Tick
  <2>1. UNCHANGED <<reasons, races>>
    BY <1>3 DEF Tick, skips
  <2> QED BY <1>0, <1>3, <2>1, PulsesTick, Zenon DEF Patience, IInv
<1>4. CASE FeederDecides
  <2>1. /\ Reading /\ ~Reading' /\ due' = Period
        /\ \/ unfed' = 0 /\ races' = 0
           \/ /\ unfed' = unfed /\ reasons' = reasons \union SkipReason
              /\ \/ SkipReason \subseteq Excuses /\ SkipReason # {}
                 \/ races' = races + 1 /\ Late = 1
    BY <1>4, DecidesIs DEF Reading
  <2>2. CASE unfed' = 0 /\ races' = 0
    BY <2>1, <2>2 DEF Pulses
  <2>3. CASE /\ unfed' = unfed /\ reasons' = reasons \union SkipReason
             /\ races' = races + 1 /\ Late = 1
    <3>1. races = 0 => unfed <= Period + 1
      BY <2>1, <2>3 DEF Patience, Pulses
    <3>2. races' # 0 /\ (races' = 1 => unfed' + due' <= (2 * Period) + 1)
      BY <2>1, <2>3, <3>1
    <3> QED BY <2>1, <3>2 DEF Pulses
  <2> QED BY <2>1, <2>2, <2>3
<1>5. CASE ChipResets
  <2>1. unfed' = 0 /\ due' = 0 /\ ~Reading' /\ races' = 0
    BY <1>5 DEF ChipResets, Boots, Reading
  <2> QED BY <2>1 DEF Pulses
<1>6. CASE SoftwareReset
  <2>1. "restart" \in reasons' \intersect Excuses
    BY <1>6 DEF SoftwareReset, Excuses
  <2> QED BY <2>1
<1> QED BY <1>1, <1>2, <1>3, <1>4, <1>5, <1>6 DEF Next

\* A stamp that the main task leaves between the two reads of the feeder costs a
\* pulse, but by itself no restart: a chip whose window is longer than two rounds
\* of the feeder, with the tick each may lose between its reads, resets a board
\* only if a timeout ran out, it restarted, or two such races were lost in a row.
THEOREM RaceIsHarmless ==
  ASSUME HwWindow > 2 * (Period + 1)
  PROVE  Spec => OneRaceIsHarmless
<1>1. IInv /\ Patience /\ [Next]_vars =>
        [ChipResets => reasons \intersect Excuses # {} \/ races > 1]_vars
  <2> SUFFICES ASSUME IInv, Patience, ChipResets, reasons \intersect Excuses = {},
                      ~(races > 1)
               PROVE  FALSE
    OBVIOUS
  <2> USE Numbers, Constants DEF IInv
  <2>1. races = 0 \/ races = 1
    OBVIOUS
  <2>2. unfed = HwWindow
    BY DEF ChipResets
  <2>3. Late = 0 \/ Late = 1
    BY DEF Late
  <2>4. CASE Pulses(Period)
    BY <2>2, <2>3, <2>4 DEF Pulses
  <2>5. CASE Pulses((2 * Period) + 1)
    BY <2>2, <2>3, <2>5 DEF Pulses
  <2> QED BY <2>1, <2>4, <2>5 DEF Patience
<1> QED BY <1>1, PatienceInit, PatienceKeeps, Inductive, PTL DEF Spec, OneRaceIsHarmless
=============================================================================
