-------------------------- MODULE DiffDriveProofs --------------------------
(***************************************************************************)
(* Proofs about the spin loop and the fail-safe of the differential drive: *)
(* for every period, timeout, resolution of the clocks and delay between   *)
(* two looks at them, across every wrap of ticks_ms.                       *)
(*                                                                         *)
(* The first part is about ticks_diff alone: it measures a distance on the *)
(* circle and adds up as long as it stays below half a turn.  SpinInv says *)
(* where the timer and the last READ_DATA stand against the clock in each  *)
(* phase of the loop.  DriveInv adds what the motors owe to the timer: the *)
(* age of the command and the time left to the next control step together  *)
(* never exceed a bound.  Both leave out a timer whose time is past the    *)
(* last tick, of which nothing can be said until it comes due; the control *)
(* step that it then runs, however late, restores what they say.           *)
(***************************************************************************)
EXTENDS DiffDrive, TLAPS

(* Ticks.                                                                  *)

LEMMA TickFacts ==
  /\ Half \in Nat \ {0} /\ TickMod \in Nat \ {0} /\ TickMod = 2 * Half
  /\ MaxGap \in Nat \ {0} /\ Period \in Nat \ {0} /\ RenewMs \in Nat \ {0}
  /\ MaxSamples \in Nat \ {0} /\ InFlight \in Nat \ {0}
  /\ Period + MaxGap < Half /\ RenewMs + 2 * MaxGap < Half
BY SpinAssumption DEF Half

LEMMA Divides ==
  ASSUME NEW M \in Nat \ {0}, NEW d \in Int
  PROVE  \E q \in Int, r \in 0..(M - 1) : d = M * q + r /\ d % M = r
OBVIOUS

LEMMA AtLeastOnce ==
  ASSUME NEW M \in Nat \ {0}, NEW k \in Int, k >= 1
  PROVE  M * k \in Int /\ M * k >= M
OBVIOUS

\* There is one remainder: a number in the range that differs by whole turns.
LEMMA OneRemainder ==
  ASSUME NEW M \in Nat \ {0}, NEW d \in Int, NEW k \in Int, NEW r \in 0..(M - 1),
         d = M * k + r
  PROVE  d % M = r
<1>1. PICK q \in Int, t \in 0..(M - 1) : d = M * q + t /\ d % M = t
  BY Divides
<1>2. M * (k - q) = t - r /\ M * (q - k) = r - t
  <2>1. M * (k - q) = M * k - M * q /\ M * (q - k) = M * q - M * k
    OBVIOUS
  <2>2. M * k \in Int /\ M * q \in Int
    OBVIOUS
  <2>3. QED
    BY <1>1, <2>1, <2>2
<1>3. ~ (k - q >= 1) /\ ~ (q - k >= 1)
  BY <1>2, AtLeastOnce
<1>4. k = q
  BY <1>3
<1>5. M * (k - q) = 0
  BY <1>4
<1>6. QED
  BY <1>1, <1>2, <1>5

\* ticks_diff finds the one distance below half a turn.
LEMMA Measured ==
  ASSUME NEW a \in Int, NEW b \in Int, NEW k \in Int, NEW d \in (-Half)..(Half - 1),
         a - b = TickMod * k + d
  PROVE  ticks_diff(a, b) = d
<1>1. /\ d + Half \in 0..(TickMod - 1) /\ a - b + Half \in Int
      /\ a - b + Half = TickMod * k + (d + Half)
  <2>1. TickMod * k \in Int
    BY TickFacts
  <2>2. QED
    BY <2>1, TickFacts
<1>2. (a - b + Half) % TickMod = d + Half
  BY <1>1, TickFacts, OneRemainder
<1>3. QED
  BY <1>2, TickFacts DEF ticks_diff

LEMMA Distance ==
  ASSUME NEW a \in Int, NEW b \in Int
  PROVE  /\ ticks_diff(a, b) \in (-Half)..(Half - 1)
         /\ \E k \in Int : a - b = TickMod * k + ticks_diff(a, b)
<1>1. a - b + Half \in Int
  BY TickFacts
<1>2. PICK k \in Int, r \in 0..(TickMod - 1) :
        a - b + Half = TickMod * k + r /\ (a - b + Half) % TickMod = r
  BY <1>1, TickFacts, Divides
<1>3. ticks_diff(a, b) = r - Half
  BY <1>2 DEF ticks_diff
<1>4. TickMod * k \in Int
  BY TickFacts
<1>5. QED
  BY <1>2, <1>3, <1>4, TickFacts

LEMMA LaterIs ==
  ASSUME NEW t \in Int, NEW gap \in Int
  PROVE  Later(t, gap) \in Int /\ \E k \in Int : Later(t, gap) = t + gap + TickMod * k
<1>1. t + gap \in Int
  OBVIOUS
<1>2. PICK q \in Int, r \in 0..(TickMod - 1) : t + gap = TickMod * q + r /\ (t + gap) % TickMod = r
  BY <1>1, TickFacts, Divides
<1>3. TickMod * (-q) = - (TickMod * q) /\ -q \in Int /\ TickMod * q \in Int
  BY TickFacts
<1>4. Later(t, gap) = t + gap + TickMod * (-q)
  BY <1>2, <1>3, TickFacts DEF Later
<1>5. TickMod * (-q) \in Int
  BY <1>3
<1>6. Later(t, gap) \in Int
  BY <1>4, <1>5
<1>7. QED
  BY <1>3, <1>4, <1>6

\* Time that passes adds to the distance from what stands still.
LEMMA ClockMoves ==
  ASSUME NEW a \in Int, NEW b \in Int, NEW gap \in Int,
         ticks_diff(a, b) + gap \in (-Half)..(Half - 1)
  PROVE  ticks_diff(Later(a, gap), b) = ticks_diff(a, b) + gap
<1>1. PICK k \in Int : a - b = TickMod * k + ticks_diff(a, b)
  BY Distance
<1>2. PICK j \in Int : Later(a, gap) = a + gap + TickMod * j
  BY LaterIs
<1>3. /\ TickMod * (k + j) = TickMod * k + TickMod * j
      /\ TickMod * k \in Int /\ TickMod * j \in Int /\ k + j \in Int
  BY TickFacts
<1>4. ticks_diff(a, b) \in Int /\ Later(a, gap) \in Int
  BY Distance, LaterIs, TickFacts
<1>5. Later(a, gap) - b = TickMod * (k + j) + (ticks_diff(a, b) + gap)
  BY <1>1, <1>2, <1>3, <1>4
<1>6. QED
  BY <1>3, <1>4, <1>5, Measured

\* So does a plain sum, to what is read as a tick.
LEMMA SumMoves ==
  ASSUME NEW a \in Int, NEW b \in Int, NEW gap \in Int,
         ticks_diff(a, b) + gap \in (-Half)..(Half - 1)
  PROVE  ticks_diff(a + gap, b) = ticks_diff(a, b) + gap
<1>1. PICK k \in Int : a - b = TickMod * k + ticks_diff(a, b)
  BY Distance
<1>2. TickMod * k \in Int /\ ticks_diff(a, b) \in Int
  BY Distance, TickFacts
<1>3. (a + gap) - b = TickMod * k + (ticks_diff(a, b) + gap) /\ a + gap \in Int
  BY <1>1, <1>2
<1>4. QED
  BY <1>3, Measured

LEMMA LaterTick ==
  ASSUME NEW t \in Int, NEW gap \in Int
  PROVE  Later(t, gap) \in Ticks
<1>1. t + gap \in Int
  OBVIOUS
<1>2. (t + gap) % TickMod \in 0..(TickMod - 1)
  BY <1>1, TickFacts, Divides
<1>3. QED
  BY <1>2 DEF Later, Ticks

\* Distances in the two directions are opposite.
LEMMA Opposite ==
  ASSUME NEW a \in Int, NEW b \in Int, ticks_diff(a, b) # - Half
  PROVE  ticks_diff(b, a) = - ticks_diff(a, b)
<1>1. PICK k \in Int : a - b = TickMod * k + ticks_diff(a, b)
  BY Distance
<1>2. TickMod * (-k) = - (TickMod * k) /\ -k \in Int /\ TickMod * k \in Int
  BY TickFacts
<1>3. - ticks_diff(a, b) \in (-Half)..(Half - 1) /\ ticks_diff(a, b) \in Int
  <2>1. ticks_diff(a, b) \in (-Half)..(Half - 1)
    BY Distance
  <2>2. QED
    BY <2>1, TickFacts
<1>4. b - a = TickMod * (-k) + (- ticks_diff(a, b))
  BY <1>1, <1>2, <1>3
<1>5. QED
  BY <1>2, <1>3, <1>4, Measured

LEMMA NoDistance ==
  ASSUME NEW a \in Int
  PROVE  ticks_diff(a, a) = 0
<1>1. 0 \in (-Half)..(Half - 1) /\ a - a = TickMod * 0 + 0
  BY TickFacts
<1>2. QED
  BY <1>1, Measured

\* A clock that moves away from a scheduled time.
LEMMA ClockLeaves ==
  ASSUME NEW a \in Int, NEW b \in Int, NEW gap \in Int,
         ticks_diff(a, b) \in (1 - Half)..(Half - 1),
         ticks_diff(a, b) - gap \in (1 - Half)..(Half - 1)
  PROVE  ticks_diff(a, Later(b, gap)) = ticks_diff(a, b) - gap
<1>1. ticks_diff(b, a) = - ticks_diff(a, b) /\ ticks_diff(a, b) \in Int
  BY Opposite, TickFacts
<1>2. ticks_diff(b, a) + gap \in (-Half)..(Half - 1)
  BY <1>1, TickFacts
<1>3. ticks_diff(Later(b, gap), a) = ticks_diff(b, a) + gap /\ Later(b, gap) \in Int
  BY <1>2, ClockMoves, LaterIs
<1>4. ticks_diff(Later(b, gap), a) # - Half
  BY <1>1, <1>3, TickFacts
<1>5. ticks_diff(a, Later(b, gap)) = - ticks_diff(Later(b, gap), a)
  BY <1>3, <1>4, Opposite
<1>6. QED
  BY <1>1, <1>3, <1>5

-----------------------------------------------------------------------------
(* The timer and the last READ_DATA against the clock.                     *)

Ahead == ticks_diff(next.reads, now)    \* the time left to the timer
Held == ticks_diff(now, last)           \* the age of the READ_DATA that stands

Times == [reads : Ticks, big : BOOLEAN]

SpinInv ==
  /\ phase \in {"poll", "timers", "upkeep"}
  /\ now \in Ticks /\ next \in Times /\ last \in Int
  /\ ~ next.big /\ phase = "upkeep" => Ahead \in 0..Period
  /\ ~ next.big /\ phase = "poll" => Ahead \in (- MaxGap)..Period
  /\ ~ next.big /\ phase = "timers" => Ahead \in (- 2 * MaxGap)..Period
  /\ phase = "poll" => Held \in 0..(RenewMs - 1)
  /\ phase # "poll" => Held \in 0..(RenewMs - 1 + MaxGap)

LEMMA TickTypes ==
  ASSUME SpinInv
  PROVE  /\ now \in Int /\ last \in Int /\ next.reads \in Int
         /\ now \in Ticks /\ next.reads \in Ticks /\ next.big \in BOOLEAN
         /\ Ahead \in (- Half)..(Half - 1) /\ Ahead \in Int
<1>1. /\ now \in Int /\ last \in Int /\ next.reads \in Int
      /\ now \in Ticks /\ next.reads \in Ticks /\ next.big \in BOOLEAN
  BY TickFacts DEF SpinInv, Ticks, Times
<1>2. Ahead \in (- Half)..(Half - 1)
  BY <1>1, Distance DEF Ahead
<1>3. QED
  BY <1>1, <1>2, TickFacts

\* A sum that is a tick was made of a tick.
LEMMA SumIs ==
  ASSUME NEW t \in Times, NEW s \in Sums(t)
  PROVE  /\ s \in Times
         /\ ~ s.big => ~ t.big /\ s.reads = t.reads + Period
<1>1. CASE t.big \/ t.reads + Period >= TickMod
  BY <1>1 DEF Sums, Times
<1>2. CASE ~ (t.big \/ t.reads + Period >= TickMod)
  <2>1. s = Tick(t.reads + Period)
    BY <1>2 DEF Sums
  <2>2. t.reads \in Nat /\ t.reads + Period < TickMod
    BY <1>2, TickFacts DEF Times, Ticks
  <2>3. t.reads + Period \in Ticks
    BY <2>2, TickFacts DEF Ticks
  <2>4. QED
    BY <1>2, <2>1, <2>3 DEF Tick, Times
<1>3. QED
  BY <1>1, <1>2

LEMMA TickIs ==
  ASSUME NEW n \in Ticks
  PROVE  Tick(n) \in Times /\ Tick(n).reads = n /\ ~ Tick(n).big
BY DEF Tick, Times

\* Where the spin loop may stand, one bound for all phases.
LEMMA SpinBounds ==
  ASSUME SpinInv
  PROVE  /\ ~ next.big => Ahead \in (- 2 * MaxGap)..Period
         /\ Held \in 0..(RenewMs - 1 + MaxGap)
         /\ Ahead \in Int /\ Held \in Int
<1>1. ~ next.big => Ahead \in (- 2 * MaxGap)..Period
  BY TickFacts DEF SpinInv
<1>2. Held \in 0..(RenewMs - 1 + MaxGap)
  BY TickFacts DEF SpinInv
<1>3. QED
  BY <1>1, <1>2, TickTypes, TickFacts

\* A sum made of the tick just read.
LEMMA FromNow ==
  ASSUME NEW n \in Ticks, NEW s \in Sums(Tick(n)), ~ s.big
  PROVE  ticks_diff(s.reads, n) = Period
<1>1. s.reads = n + Period /\ n \in Int
  BY TickIs, SumIs, TickFacts DEF Ticks
<1>2. ticks_diff(n, n) = 0
  BY <1>1, NoDistance
<1>3. ticks_diff(n, n) + Period \in (-Half)..(Half - 1) /\ Period \in Int
  BY <1>2, TickFacts
<1>4. ticks_diff(n + Period, n) = ticks_diff(n, n) + Period
  BY <1>1, <1>3, SumMoves
<1>5. QED
  BY <1>1, <1>2, <1>3, <1>4

LEMMA SpinInvInit == SpinInit => SpinInv
<1> SUFFICES ASSUME SpinInit PROVE SpinInv
  OBVIOUS
<1>1. phase = "poll" /\ now \in Ticks /\ last = now /\ next \in Sums(Tick(now))
  BY DEF SpinInit
<1>2. now \in Int /\ next \in Times
  BY <1>1, TickIs, SumIs, TickFacts DEF Ticks
<1>3. Held = 0
  BY <1>1, <1>2, NoDistance DEF Held
<1>4. ~ next.big => Ahead = Period
  BY <1>1, FromNow DEF Ahead
<1>5. ~ next.big => Ahead \in (- MaxGap)..Period
  BY <1>4, TickFacts
<1>6. QED
  BY <1>1, <1>2, <1>3, <1>5, TickFacts DEF SpinInv

\* Looking at the clock: the timer comes nearer, the READ_DATA grows older.
LEMMA LookAtClock ==
  ASSUME SpinInv, phase # "timers", NEW gap \in 0..MaxGap, now' = Later(now, gap),
         UNCHANGED next
  PROVE  /\ now' \in Ticks /\ gap \in Int
         /\ ~ next.big => Ahead' = Ahead - gap
         /\ ticks_diff(now', last) = Held + gap
<1>1. now \in Int /\ next.reads \in Int /\ last \in Int /\ gap \in Int
  BY TickTypes
<1>2. Held \in 0..(RenewMs - 1 + MaxGap)
  BY SpinBounds
<1>3. now' \in Ticks
  BY <1>1, LaterTick
<1>4. Held + gap \in (- Half)..(Half - 1)
  BY <1>1, <1>2, TickFacts
<1>5. ASSUME ~ next.big PROVE Ahead' = Ahead - gap
  <2>1. Ahead \in (- MaxGap)..Period
    BY <1>5, TickFacts DEF SpinInv
  <2>2. Ahead - gap \in (1 - Half)..(Half - 1) /\ Ahead \in (1 - Half)..(Half - 1)
    BY <1>1, <2>1, TickFacts
  <2>3. ticks_diff(next.reads, Later(now, gap)) = ticks_diff(next.reads, now) - gap
    BY <1>1, <2>2, ClockLeaves DEF Ahead
  <2>4. QED
    BY <2>3 DEF Ahead
<1>6. ticks_diff(Later(now, gap), last) = ticks_diff(now, last) + gap
  BY <1>1, <1>4, ClockMoves DEF Held
<1>7. QED
  BY <1>1, <1>3, <1>5, <1>6 DEF Held

LEMMA PollEndsKeeps ==
  ASSUME SpinInv, NEW gap \in 1..MaxGap, PollEnds(gap)
  PROVE  SpinInv' /\ UNCHANGED next /\ (~ next.big => Ahead' = Ahead - gap)
<1>1. /\ phase = "poll" /\ phase' = "timers" /\ now' = Later(now, gap)
      /\ UNCHANGED <<next, last>>
  BY DEF PollEnds, subVars
<1>2. gap \in 0..MaxGap
  BY TickFacts
<1>3. /\ now' \in Ticks /\ (~ next.big => Ahead' = Ahead - gap)
      /\ ticks_diff(now', last) = Held + gap
  BY <1>1, <1>2, LookAtClock
<1>4. Held' = Held + gap
  BY <1>1, <1>3 DEF Held
<1>5. Held \in 0..(RenewMs - 1)
  BY <1>1 DEF SpinInv
<1>6. Held' \in 0..(RenewMs - 1 + MaxGap)
  BY <1>4, <1>5, TickFacts
<1>7. ASSUME ~ next.big PROVE Ahead' \in (- 2 * MaxGap)..Period
  <2>1. Ahead \in (- MaxGap)..Period
    BY <1>1, <1>7 DEF SpinInv
  <2>2. QED
    BY <1>3, <1>7, <2>1, TickFacts
<1>8. next' \in Times /\ last' \in Int /\ next'.big = next.big
  BY <1>1 DEF SpinInv
<1>9. SpinInv'
  BY <1>1, <1>3, <1>6, <1>7, <1>8 DEF SpinInv
<1>10. QED
  BY <1>1, <1>3, <1>9

\* Maintenance renews what would grow too old.
LEMMA UpkeepKeeps ==
  ASSUME SpinInv, NEW gap \in 0..MaxGap, Upkeep(gap)
  PROVE  SpinInv' /\ UNCHANGED next /\ (~ next.big => Ahead' = Ahead - gap)
<1>1. /\ phase = "upkeep" /\ phase' = "poll" /\ now' = Later(now, gap) /\ UNCHANGED next
      /\ \/ last' = now'
         \/ last' = last /\ ~ RenewalDue(now')
  BY DEF Upkeep
<1>2. /\ now' \in Ticks /\ (~ next.big => Ahead' = Ahead - gap)
      /\ ticks_diff(now', last) = Held + gap /\ gap \in Int /\ now' \in Int
  <2>1. now' \in Ticks => now' \in Int
    BY TickFacts DEF Ticks
  <2>2. QED
    BY <1>1, <2>1, LookAtClock
<1>3. Held \in 0..(RenewMs - 1 + MaxGap)
  BY <1>1 DEF SpinInv
<1>4. ASSUME ~ next.big PROVE Ahead' \in (- MaxGap)..Period
  <2>1. Ahead \in 0..Period
    BY <1>1, <1>4 DEF SpinInv
  <2>2. QED
    BY <1>2, <1>4, <2>1, TickFacts
<1>5. last' \in Int /\ Held' \in 0..(RenewMs - 1)
  <2>1. CASE last' = now'
    <3>1. Held' = 0
      BY <1>2, <2>1, NoDistance DEF Held
    <3>2. QED
      BY <1>2, <2>1, <3>1, TickFacts
  <2>2. CASE last' = last /\ ~ RenewalDue(now')
    <3>1. ~ (ticks_diff(now', last) >= RenewMs)
      BY <2>2 DEF RenewalDue
    <3>2. Held' = ticks_diff(now', last)
      BY <2>2 DEF Held
    <3>3. last' \in Int
      BY <2>2 DEF SpinInv
    <3>4. QED
      BY <1>2, <1>3, <3>1, <3>2, <3>3, TickFacts
  <2>3. QED
    BY <1>1, <2>1, <2>2
<1>6. next' \in Times /\ next'.big = next.big
  BY <1>1 DEF SpinInv
<1>7. SpinInv'
  BY <1>1, <1>2, <1>4, <1>5, <1>6, TickFacts DEF SpinInv
<1>8. QED
  BY <1>1, <1>2, <1>7

\* A timer that is due is set again, ahead of the clock or at it, or past the
\* last tick.
LEMMA TimersKeeps ==
  ASSUME SpinInv, Timers
  PROVE  /\ SpinInv' /\ phase' = "upkeep"
         /\ ~ Due => next' = next /\ Ahead' = Ahead /\ (~ next.big => Ahead >= 1)
<1>1. /\ phase = "timers" /\ phase' = "upkeep" /\ UNCHANGED <<now, last>>
      /\ next' \in (IF Due THEN Rescheduled ELSE {next})
  BY DEF Timers, subVars
<1>2. /\ now \in Int /\ now \in Ticks /\ next.reads \in Int /\ Ahead \in Int /\ Period \in Int
      /\ next \in Times /\ last \in Int
      /\ Held \in 0..(RenewMs - 1 + MaxGap)
  BY <1>1, TickFacts, TickTypes, SpinBounds DEF SpinInv
<1>3. ASSUME ~ next.big
      PROVE  ticks_diff(now, next.reads) = - Ahead /\ Ahead \in (- 2 * MaxGap)..Period
  <2>1. Ahead \in (- 2 * MaxGap)..Period
    BY <1>3, SpinBounds
  <2>2. ticks_diff(next.reads, now) # - Half
    BY <1>2, <2>1, TickFacts DEF Ahead
  <2>3. QED
    BY <1>2, <2>1, <2>2, Opposite DEF Ahead
<1>4. Held' = Held
  BY <1>1 DEF Held
<1>5. ASSUME ~ Due
      PROVE  /\ next' = next /\ Ahead' = Ahead
             /\ ~ next.big => Ahead >= 1 /\ Ahead' \in 0..Period
  <2>1. next' = next /\ Ahead' = Ahead
    BY <1>1, <1>5 DEF Ahead
  <2>2. ASSUME ~ next.big PROVE Ahead >= 1 /\ Ahead \in 0..Period
    BY <1>2, <1>3, <1>5, <2>2, TickFacts DEF Due
  <2>3. QED
    BY <2>1, <2>2
<1>6. ASSUME Due PROVE next' \in Times /\ (~ next'.big => Ahead' \in 0..Period)
  <2>1. PICK planned \in Sums(next) :
          next' \in (IF ticks_diff(now, planned.reads) > 0 THEN Sums(Tick(now)) ELSE {planned})
    BY <1>1, <1>6 DEF Rescheduled
  <2>2. planned \in Times
    BY <1>2, SumIs
  <2>3. Ahead' = ticks_diff(next'.reads, now)
    BY <1>1 DEF Ahead
  <2>4. CASE ticks_diff(now, planned.reads) > 0
    <3>1. next' \in Sums(Tick(now))
      BY <2>1, <2>4
    <3>2. next' \in Times
      BY <1>2, <3>1, SumIs, TickIs
    <3>3. ~ next'.big => Ahead' = Period
      BY <1>2, <2>3, <3>1, FromNow
    <3>4. QED
      BY <3>2, <3>3, TickFacts
  <2>5. CASE ~ (ticks_diff(now, planned.reads) > 0)
    <3>1. next' = planned
      BY <2>1, <2>5
    <3>2. ASSUME ~ planned.big PROVE Ahead' \in 0..Period
      <4>1. ~ next.big /\ planned.reads = next.reads + Period
        BY <1>2, <3>2, SumIs
      <4>2. Ahead \in (- 2 * MaxGap)..Period /\ Ahead <= 0
        BY <1>2, <1>3, <1>6, <4>1, TickFacts DEF Due
      <4>3. Ahead + Period \in (- Half)..(Half - 1) /\ Ahead + Period # - Half
        BY <1>2, <4>2, TickFacts
      <4>4. ticks_diff(planned.reads, now) = Ahead + Period
        BY <1>2, <4>1, <4>3, SumMoves DEF Ahead
      <4>5. ticks_diff(now, planned.reads) = - (Ahead + Period)
        <5>1. planned.reads \in Int
          BY <1>2, <4>1
        <5>2. QED
          BY <1>2, <4>3, <4>4, <5>1, Opposite
      <4>6. Ahead' = Ahead + Period
        BY <2>3, <3>1, <4>4
      <4>7. QED
        BY <1>2, <2>5, <4>2, <4>5, <4>6, TickFacts
    <3>3. QED
      BY <2>2, <3>1, <3>2
  <2>6. QED
    BY <2>4, <2>5
<1>7. next' \in Times /\ (~ next'.big => Ahead' \in 0..Period)
  BY <1>2, <1>5, <1>6
<1>8. SpinInv'
  BY <1>1, <1>2, <1>4, <1>7 DEF SpinInv
<1>9. QED
  BY <1>1, <1>5, <1>8

\* Samples, losses and the Agent do not touch the clock.
LEMMA OthersKeep ==
  ASSUME SpinInv, UNCHANGED <<phase, now, next, last>>
  PROVE  SpinInv' /\ Ahead' = Ahead
BY DEF SpinInv, Ahead, Held

-----------------------------------------------------------------------------
(* The motors against the timer.                                           *)

\* The age a command may reach before a control step stops the motors, when
\* the timer is checked as it falls due.
AgeBound == Timeout + (ClockStep - 1) + Period
Delay == IF phase = "upkeep" THEN 0 ELSE IF phase = "poll" THEN MaxGap ELSE 2 * MaxGap

DriveInv ==
  /\ SpinInv
  /\ age \in 0..MaxAge /\ clock \in 0..(ClockStep - 1)
  /\ halted \in BOOLEAN /\ turning \in BOOLEAN /\ asked \in BOOLEAN
  /\ halted => Stale /\ ~ turning
  /\ turning /\ ~ next.big => age + Ahead <= AgeBound /\ age < AgeBound + Delay

LEMMA DriveFacts ==
  /\ ClockStep \in Nat \ {0} /\ Timeout \in Nat /\ MaxAge \in Nat /\ Period \in Nat \ {0}
  /\ MaxGap \in Nat \ {0}
  /\ MaxAge > Timeout /\ AgeBound \in Nat /\ AgeBound = Timeout + (ClockStep - 1) + Period
BY DriveAssumption, TickFacts DEF AgeBound

\* How far the shown age may be from the true one.
LEMMA ShownAgeIs ==
  ASSUME age \in 0..MaxAge, clock \in 0..(ClockStep - 1)
  PROVE  /\ ShownAge \in Int
         /\ age # MaxAge => /\ ShownAge >= age - (ClockStep - 1)
                            /\ ShownAge <= age + (ClockStep - 1)
         /\ age = MaxAge => ShownAge = MaxAge
<1>1. clock - age \in Int /\ age \in Int /\ clock \in Int
  BY DriveFacts
<1>2. PICK q \in Int, r \in 0..(ClockStep - 1) :
        clock - age = ClockStep * q + r /\ (clock - age) % ClockStep = r
  BY <1>1, DriveFacts, Divides
<1>3. ShownAge = IF age = MaxAge THEN MaxAge ELSE age - clock + r
  BY <1>2 DEF ShownAge
<1>4. QED
  BY <1>1, <1>3, DriveFacts

\* A stale command does not become fresh again by waiting.
LEMMA StaleStays ==
  ASSUME age \in 0..MaxAge, clock \in 0..(ClockStep - 1), Stale, NEW gap \in Nat, Passes(gap)
  PROVE  Stale'
<1>1. /\ age \in Int /\ clock \in Int /\ gap \in Int /\ clock + gap \in Int
      /\ clock - age \in Int /\ ClockStep \in Nat \ {0}
  BY DriveFacts
<1>2. /\ age' = (IF age + gap < MaxAge THEN age + gap ELSE MaxAge)
      /\ clock' = (clock + gap) % ClockStep
  BY DEF Passes
<1>3. CASE age + gap >= MaxAge
  <2>1. age' = MaxAge
    BY <1>1, <1>2, <1>3, DriveFacts
  <2>2. QED
    BY <2>1, DriveFacts DEF Stale, ShownAge
<1>4. CASE age + gap < MaxAge
  <2>1. age' = age + gap /\ age # MaxAge /\ age' # MaxAge
    BY <1>1, <1>2, <1>4, DriveFacts
  <2>2. PICK p \in Int, t \in 0..(ClockStep - 1) :
          clock + gap = ClockStep * p + t /\ (clock + gap) % ClockStep = t
    BY <1>1, Divides
  <2>3. PICK q \in Int, r \in 0..(ClockStep - 1) :
          clock - age = ClockStep * q + r /\ (clock - age) % ClockStep = r
    BY <1>1, Divides
  <2>4. p >= 0
    <3>1. CASE -p >= 1
      <4>1. ClockStep * (-p) >= ClockStep /\ ClockStep * (-p) = - (ClockStep * p)
        BY <1>1, <3>1, AtLeastOnce
      <4>2. QED
        BY <1>1, <2>2, <4>1
    <3>2. QED
      BY <3>1
  <2>5. ClockStep * p >= 0 /\ ClockStep * p \in Int /\ ClockStep * q \in Int
    BY <1>1, <2>4
  <2>6. (clock' - age') % ClockStep = r
    <3>1. ClockStep * (q - p) = ClockStep * q - ClockStep * p
      BY <1>1
    <3>2. clock' - age' = ClockStep * (q - p) + r
      BY <1>1, <1>2, <2>1, <2>2, <2>3, <2>5, <3>1
    <3>3. clock' - age' \in Int
      BY <1>1, <1>2, <2>1, <2>2
    <3>4. q - p \in Int
      OBVIOUS
    <3>5. PICK d \in Int : d = clock' - age'
      BY <3>3
    <3>6. d % ClockStep = r
      BY <1>1, <3>2, <3>4, <3>5, OneRemainder
    <3>7. QED
      BY <3>5, <3>6
  <2>7. ShownAge = age - clock + r
    BY <2>1, <2>3 DEF ShownAge
  <2>8. ShownAge' = age' - clock' + r
    BY <2>1, <2>6 DEF ShownAge
  <2>9. age' - clock' >= age - clock
    BY <1>1, <1>2, <2>1, <2>2, <2>5
  <2>10. ShownAge' >= ShownAge
    BY <1>1, <1>2, <2>1, <2>2, <2>7, <2>8, <2>9
  <2>11. ShownAge \in Int /\ ShownAge' \in Int
    BY <1>1, <1>2, <2>1, <2>2, <2>7, <2>8
  <2>12. QED
    BY <2>10, <2>11, DriveFacts DEF Stale
<1>5. QED
  BY <1>1, <1>3, <1>4, DriveFacts

\* A moment passes: the age of the command takes what the timer comes nearer.
LEMMA MomentKeeps ==
  ASSUME DriveInv, NEW gap \in 0..MaxGap, Moment(gap), SpinInv', UNCHANGED next,
         ~ next.big => Ahead' = Ahead - gap,
         \/ phase = "poll" /\ phase' = "timers"
         \/ phase = "upkeep" /\ phase' = "poll"
  PROVE  DriveInv'
<1>1. /\ age \in Int /\ clock \in Int /\ gap \in Nat /\ Ahead \in Int /\ MaxGap \in Nat
      /\ clock + gap \in Int
  BY SpinBounds, DriveFacts DEF DriveInv
<1>2. /\ Passes(gap) /\ UNCHANGED <<asked, turning, halted>>
      /\ age' = (IF age + gap < MaxAge THEN age + gap ELSE MaxAge)
      /\ clock' = (clock + gap) % ClockStep
  BY DEF Moment, Passes
<1>3. age' \in 0..MaxAge /\ age' <= age + gap
  BY <1>1, <1>2, DriveFacts DEF DriveInv
<1>4. clock' \in 0..(ClockStep - 1)
  <2>1. PICK p \in Int, t \in 0..(ClockStep - 1) :
          clock + gap = ClockStep * p + t /\ (clock + gap) % ClockStep = t
    BY <1>1, DriveFacts, Divides
  <2>2. QED
    BY <1>2, <2>1
<1>5. (halted => Stale /\ ~ turning)'
  BY <1>1, <1>2, StaleStays DEF DriveInv
<1>6. ASSUME turning, ~ next.big
      PROVE  age' + Ahead' <= AgeBound /\ age' < AgeBound + Delay'
  <2>1. age + Ahead <= AgeBound /\ age < AgeBound + Delay
    BY <1>6 DEF DriveInv
  <2>2. Delay' = Delay + MaxGap /\ Delay \in Int
    BY <1>1 DEF Delay
  <2>3. age' \in Int /\ AgeBound \in Int /\ gap <= MaxGap /\ gap \in Int /\ MaxGap \in Int
    BY <1>1, <1>3, DriveFacts
  <2>4. age' + Ahead' <= AgeBound
    <3>1. PICK a \in Int, h \in Int : a = age' /\ h = Ahead
      BY <1>1, <2>3
    <3>2. a <= age + gap /\ age + h <= AgeBound
      BY <1>3, <2>1, <3>1
    <3>3. a + (h - gap) <= AgeBound
      BY <1>1, <2>3, <3>2
    <3>4. QED
      BY <1>6, <3>1, <3>3
  <2>5. age' < AgeBound + Delay'
    BY <1>1, <1>3, <2>1, <2>2, <2>3
  <2>6. QED
    BY <2>4, <2>5
<1>7. (turning /\ ~ next.big => age + Ahead <= AgeBound /\ age < AgeBound + Delay)'
  <2>1. AgeBound' = AgeBound
    BY DEF AgeBound
  <2>2. QED
    BY <1>2, <1>6, <2>1
<1>8. (halted \in BOOLEAN /\ turning \in BOOLEAN /\ asked \in BOOLEAN)'
  BY <1>2 DEF DriveInv
<1>9. QED
  BY <1>3, <1>4, <1>5, <1>7, <1>8 DEF DriveInv

\* A step that leaves the clocks, the timer and the robot alone.
LEMMA DriveStands ==
  ASSUME DriveInv, UNCHANGED <<phase, now, next, last, driveVars>>
  PROVE  DriveInv'
<1>1. SpinInv' /\ Ahead' = Ahead
  BY OthersKeep DEF DriveInv
<1>2. AgeBound' = AgeBound /\ Delay' = Delay /\ (Stale' <=> Stale)
  BY DEF AgeBound, Delay, Stale, ShownAge, driveVars
<1>3. UNCHANGED <<age, clock, asked, turning, halted>>
  BY DEF driveVars
<1>4. QED
  BY <1>1, <1>2, <1>3 DEF DriveInv

LEMMA ReceiveCommandKeeps ==
  ASSUME DriveInv, ReceiveCommand
  PROVE  DriveInv'
<1>1. UNCHANGED <<phase, now, next, last>>
  BY DEF ReceiveCommand, Receive
<1>2. CASE UNCHANGED driveVars
  BY <1>1, <1>2, DriveStands
<1>3. ASSUME NEW moving \in BOOLEAN, OnCmdVel(moving) PROVE DriveInv'
  <2>1. /\ asked' = moving /\ age' = 0 /\ halted' = FALSE /\ UNCHANGED <<clock, turning>>
    BY <1>3 DEF OnCmdVel
  <2>2. /\ SpinInv' /\ next' = next /\ Ahead' = Ahead /\ Ahead \in Int
        /\ ~ next.big => Ahead <= Period
    BY <1>1, OthersKeep, SpinBounds, DriveFacts DEF DriveInv
  <2>3. ~ next'.big => age' + Ahead' <= AgeBound'
    BY <2>1, <2>2, DriveFacts DEF AgeBound
  <2>4. age' < AgeBound' + Delay'
    <3>1. Delay' \in Nat
      BY DriveFacts DEF Delay
    <3>2. AgeBound' = AgeBound /\ AgeBound >= 1
      BY DriveFacts DEF AgeBound
    <3>3. AgeBound \in Int /\ age' = 0
      BY <2>1, DriveFacts
    <3>4. PICK d \in Nat : d = Delay'
      BY <3>1
    <3>5. 0 < AgeBound + d
      BY <3>2, <3>3
    <3>6. QED
      BY <3>2, <3>3, <3>4, <3>5
  <2>5. age' \in 0..MaxAge
    BY <2>1, DriveFacts
  <2>6. (clock \in 0..(ClockStep - 1) /\ turning \in BOOLEAN)'
    BY <2>1 DEF DriveInv
  <2>7. QED
    BY <2>1, <2>2, <2>3, <2>4, <2>5, <2>6 DEF DriveInv
<1>4. QED
  BY <1>2, <1>3 DEF ReceiveCommand

\* A control step lets the motors turn on a command that is still good only.
LEMMA CheckTimersKeeps ==
  ASSUME DriveInv, CheckTimers
  PROVE  DriveInv'
<1>1. Timers /\ (IF Due THEN ControlStep ELSE UNCHANGED driveVars)
  BY DEF CheckTimers
<1>2. /\ SpinInv' /\ phase' = "upkeep"
      /\ ~ Due => next' = next /\ Ahead' = Ahead /\ (~ next.big => Ahead >= 1)
  BY <1>1, TimersKeeps DEF DriveInv
<1>3. (~ next'.big => Ahead' \in 0..Period) /\ Delay' = 0 /\ AgeBound' = AgeBound
  BY <1>2 DEF SpinInv, Delay, AgeBound
<1>4. UNCHANGED <<age, clock, asked>> /\ (Stale' <=> Stale)
  BY <1>1 DEF ControlStep, driveVars, Stale, ShownAge
<1>5. age \in Int /\ age \in 0..MaxAge /\ clock \in 0..(ClockStep - 1)
  BY DriveFacts DEF DriveInv
<1>6. (age \in 0..MaxAge /\ clock \in 0..(ClockStep - 1) /\ asked \in BOOLEAN)'
  BY <1>4 DEF DriveInv
<1>7. CASE ~ Due
  <2>1. UNCHANGED <<turning, halted>>
    BY <1>1, <1>7 DEF driveVars
  <2>2. (halted \in BOOLEAN /\ turning \in BOOLEAN)' /\ (halted => Stale /\ ~ turning)'
    BY <1>4, <2>1 DEF DriveInv
  <2>3. ASSUME turning, ~ next.big
        PROVE  age' + Ahead' <= AgeBound' /\ age' < AgeBound' + Delay'
    <3>1. age + Ahead <= AgeBound /\ Ahead >= 1 /\ Ahead \in Int
      BY <1>2, <1>7, <2>3, SpinBounds DEF DriveInv
    <3>2. QED
      BY <1>2, <1>3, <1>4, <1>5, <1>7, <3>1, DriveFacts
  <2>4. QED
    BY <1>2, <1>6, <1>7, <2>1, <2>2, <2>3 DEF DriveInv
<1>8. CASE Due /\ Stale
  <2>1. turning' = (turning /\ halted) /\ halted' = TRUE
    BY <1>1, <1>8 DEF ControlStep
  <2>2. turning' = FALSE
    BY <2>1 DEF DriveInv
  <2>3. QED
    BY <1>2, <1>4, <1>6, <1>8, <2>1, <2>2 DEF DriveInv
<1>9. CASE Due /\ ~ Stale
  <2>1. turning' = asked /\ halted' = halted
    BY <1>1, <1>9 DEF ControlStep
  <2>2. halted = FALSE /\ turning' \in BOOLEAN
    BY <1>9, <2>1 DEF DriveInv
  <2>3. age <= Timeout + (ClockStep - 1)
    BY <1>5, <1>9, ShownAgeIs, DriveFacts DEF Stale
  <2>4. ~ next'.big => age' + Ahead' <= AgeBound' /\ age' < AgeBound' + Delay'
    <3>1. age' = age /\ Period \in Nat \ {0} /\ AgeBound \in Int
      BY <1>4, DriveFacts
    <3>2. AgeBound = (Timeout + (ClockStep - 1)) + Period /\ Timeout + (ClockStep - 1) \in Int
      BY DriveFacts
    <3>3. QED
      BY <1>3, <1>5, <2>3, <3>1, <3>2
  <2>5. QED
    BY <1>2, <1>6, <2>1, <2>2, <2>4 DEF DriveInv
<1>10. QED
  BY <1>7, <1>8, <1>9

LEMMA DriveInvInit == Init => DriveInv
<1> SUFFICES ASSUME Init PROVE DriveInv
  OBVIOUS
<1>1. SpinInv
  BY SpinInvInit DEF Init
<1>2. age = MaxAge /\ clock = 0 /\ asked = FALSE /\ turning = FALSE /\ halted = FALSE
  BY DEF Init
<1>3. age \in 0..MaxAge /\ clock \in 0..(ClockStep - 1)
  BY <1>2, DriveFacts
<1>4. QED
  BY <1>1, <1>2, <1>3 DEF DriveInv

LEMMA DriveInvStep == DriveInv /\ [Next]_vars => DriveInv'
<1> SUFFICES ASSUME DriveInv, [Next]_vars PROVE DriveInv'
  OBVIOUS
<1>1. CASE ReceiveCommand
  BY <1>1, ReceiveCommandKeeps
<1>2. CASE CheckTimers
  BY <1>2, CheckTimersKeeps
<1>3. CASE EndPoll
  <2>1. PICK gap \in 1..MaxGap : PollEnds(gap) /\ Moment(gap)
    BY <1>3 DEF EndPoll
  <2>2. gap \in 0..MaxGap
    BY DriveFacts
  <2>3. SpinInv' /\ UNCHANGED next /\ (~ next.big => Ahead' = Ahead - gap)
    BY <2>1, PollEndsKeeps DEF DriveInv
  <2>4. phase = "poll" /\ phase' = "timers"
    BY <2>1 DEF PollEnds
  <2>5. QED
    BY <2>1, <2>2, <2>3, <2>4, MomentKeeps
<1>4. CASE Maintain
  <2>1. PICK gap \in 0..MaxGap : Upkeep(gap) /\ Moment(gap)
    BY <1>4 DEF Maintain
  <2>2. SpinInv' /\ UNCHANGED next /\ (~ next.big => Ahead' = Ahead - gap)
    BY <2>1, UpkeepKeeps DEF DriveInv
  <2>3. phase = "upkeep" /\ phase' = "poll"
    BY <2>1 DEF Upkeep
  <2>4. QED
    BY <2>1, <2>2, <2>3, MomentKeeps
<1>5. CASE Outside
  <2>1. UNCHANGED <<phase, now, next, last, driveVars>>
    BY <1>5 DEF Outside, Agent, AgentReads, LoseRead, AgentSends, LoseSample
  <2>2. QED
    BY <2>1, DriveStands
<1>6. CASE UNCHANGED vars
  <2>1. UNCHANGED <<phase, now, next, last, driveVars>>
    BY <1>6 DEF vars, spinVars, subVars
  <2>2. QED
    BY <2>1, DriveStands
<1>7. QED
  BY <1>1, <1>2, <1>3, <1>4, <1>5, <1>6 DEF Next

\* The inductive invariant of the spin loop and the motors.
THEOREM DriveInvHolds == Spec => []DriveInv
  BY DriveInvInit, DriveInvStep, PTL DEF Spec

\* Once its timers are checked a node is neither behind them nor further ahead
\* than a period while their times are ticks, for every period, delay and width
\* of the tick counter: whatever a time past the last tick was read as, what
\* follows it is on schedule.
THEOREM TimersKeptUp == Spec => []TimerAhead
<1>1. DriveInv => TimerAhead
  BY DEF DriveInv, SpinInv, TimerAhead, Ahead
<1>2. QED
  BY <1>1, DriveInvHolds, PTL

\* The READ_DATA that stands is never older than its renewal age and one turn
\* of the loop, wherever the tick counter wraps.
THEOREM ReadsRenewed == Spec => []RenewedInTime
<1>1. DriveInv => RenewedInTime
  <2> SUFFICES ASSUME DriveInv PROVE RenewedInTime
    OBVIOUS
  <2>1. CASE phase = "poll"
    BY <2>1, TickFacts DEF DriveInv, SpinInv, RenewedInTime, Held
  <2>2. CASE phase # "poll"
    BY <2>2, TickFacts DEF DriveInv, SpinInv, RenewedInTime, Held
  <2>3. QED
    BY <2>1, <2>2
<1>2. QED
  BY <1>1, DriveInvHolds, PTL

\* While the control timer's time is a tick, the motors outlive the last command
\* by no more than the timeout, a step of the clock, a period of the control
\* timer and one turn of the loop; also after a timer that went astray at the wrap.
THEOREM MotorsObey == Spec => []MotorsFollowTimer
<1>1. DriveInv => MotorsFollowTimer
  <2> SUFFICES ASSUME DriveInv, turning, ~ next.big
               PROVE  age < Timeout + (ClockStep - 1) + Period + 2 * MaxGap
    BY DEF MotorsFollowTimer, MotorsFollowCommands
  <2>1. age < AgeBound + Delay /\ Delay \in 0..(2 * MaxGap) /\ age \in Int
    BY DriveFacts DEF DriveInv, Delay
  <2>2. QED
    BY <2>1, DriveFacts
<1>2. QED
  BY <1>1, DriveInvHolds, PTL

\* The motors are stopped for silence only when the command is stale, but for
\* the steps of time.time().
THEOREM CommandsLast == Spec => []NotTooSoon
<1>1. DriveInv => NotTooSoon
  <2> SUFFICES ASSUME DriveInv, halted PROVE age > Timeout - ClockStep + 1
    BY DEF NotTooSoon
  <2>1. ShownAge > Timeout /\ age \in 0..MaxAge /\ clock \in 0..(ClockStep - 1)
    BY DEF DriveInv, Stale
  <2>2. QED
    BY <2>1, ShownAgeIs, DriveFacts
<1>2. QED
  BY <1>1, DriveInvHolds, PTL

-----------------------------------------------------------------------------
(* The robot that the reconnect loop assumes.                              *)

\* A command is not stale when it arrives.
LEMMA NewIsFresh ==
  ASSUME age' = 0, clock' = clock, clock \in 0..(ClockStep - 1)
  PROVE  ~ Stale'
<1>1. clock \in Int /\ 0 # MaxAge
  BY DriveFacts
<1>2. PICK q \in Int, r \in 0..(ClockStep - 1) :
        clock = ClockStep * q + r /\ clock % ClockStep = r
  BY <1>1, DriveFacts, Divides
<1>3. clock % ClockStep = clock
  <2>1. clock = ClockStep * 0 + clock /\ ClockStep \in Nat \ {0}
    BY <1>1, DriveFacts
  <2>2. QED
    BY <1>1, <2>1, DriveFacts, OneRemainder
<1>4. ShownAge' = 0
  BY <1>1, <1>3 DEF ShownAge
<1>5. QED
  BY <1>4, DriveFacts DEF Stale

\* A turn of the loop outside of the control timer.
LEMMA WaitMaps ==
  ASSUME DriveInv, NEW gap \in Nat, Moment(gap)
  PROVE  Robot!Expire \/ UNCHANGED Robot!vars
<1>1. Passes(gap) /\ asked' = asked /\ turning' = turning
  BY DEF Moment
<1>2. Stale => Stale'
  BY <1>1, StaleStays DEF DriveInv
<1>3. CASE asked /\ ~ Stale /\ Stale'
  BY <1>1, <1>3 DEF Robot!Expire
<1>4. CASE ~ asked \/ Stale \/ ~ Stale'
  <2>1. (asked' /\ ~ Stale') <=> (asked /\ ~ Stale)
    BY <1>1, <1>2, <1>4
  <2>2. QED
    BY <1>1, <2>1 DEF Robot!vars
<1>5. QED
  BY <1>3, <1>4

LEMMA RobotStep == DriveInv /\ [Next]_vars => [Robot!Session]_(Robot!vars)
<1> SUFFICES ASSUME DriveInv, [Next]_vars PROVE Robot!Session \/ UNCHANGED Robot!vars
  OBVIOUS
<1> USE DEF Robot!Session
<1>1. ASSUME UNCHANGED driveVars PROVE UNCHANGED Robot!vars
  <2>1. Stale' = Stale /\ asked' = asked /\ turning' = turning
    BY <1>1 DEF driveVars, Stale, ShownAge
  <2>2. QED
    BY <2>1 DEF Robot!vars
<1>2. CASE ReceiveCommand
  <2>1. CASE UNCHANGED driveVars
    BY <1>1, <2>1
  <2>2. ASSUME NEW moving \in BOOLEAN, OnCmdVel(moving) PROVE Robot!Command \/ Robot!Expire
    <3>1. asked' = moving /\ turning' = turning /\ ~ Stale'
      BY <2>2, NewIsFresh DEF OnCmdVel, DriveInv
    <3>2. CASE moving
      BY <3>1, <3>2 DEF Robot!Command
    <3>3. CASE ~ moving
      BY <3>1, <3>3 DEF Robot!Expire
    <3>4. QED
      BY <3>2, <3>3
  <2>3. QED
    BY <1>2, <2>1, <2>2 DEF ReceiveCommand
<1>3. CASE CheckTimers
  <2>1. CASE ControlStep
    <3>1. Stale' = Stale /\ asked' = asked
      BY <2>1 DEF ControlStep, Stale, ShownAge
    <3>2. CASE Stale
      <4>1. turning' = FALSE
        BY <2>1, <3>2 DEF ControlStep, DriveInv
      <4>2. QED
        BY <3>1, <3>2, <4>1 DEF Robot!ControlStep
    <3>3. CASE ~ Stale
      <4>1. turning' = asked /\ asked \in BOOLEAN
        BY <2>1, <3>3 DEF ControlStep, DriveInv
      <4>2. QED
        BY <3>1, <3>3, <4>1 DEF Robot!ControlStep
    <3>4. QED
      BY <3>2, <3>3
  <2>2. CASE UNCHANGED driveVars
    BY <1>1, <2>2
  <2>3. QED
    BY <1>3, <2>1, <2>2 DEF CheckTimers
<1>4. CASE EndPoll \/ Maintain
  <2>1. PICK gap \in 0..MaxGap : Moment(gap)
    BY <1>4, DriveFacts DEF EndPoll, Maintain
  <2>2. gap \in Nat
    BY DriveFacts
  <2>3. QED
    BY <2>1, <2>2, WaitMaps
<1>5. CASE Outside \/ UNCHANGED vars
  BY <1>1, <1>5 DEF Outside, vars
<1>6. QED
  BY <1>2, <1>3, <1>4, <1>5 DEF Next

\* The robot of the spin loop, with its coarse clock, late timers and the flag
\* that skips a stop, is the one that the reconnect loop assumes.
THEOREM RobotImplemented == Spec => RobotSpec
<1>1. Init => Robot!Init
  BY DEF Init, Robot!Init
<1>2. QED
  BY <1>1, RobotStep, DriveInvHolds, PTL DEF Spec, RobotSpec, Robot!SessionSpec
=============================================================================
