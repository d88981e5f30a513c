------------------------------ MODULE NodeSpin ------------------------------
(***************************************************************************)
(* One turn of a node's spin loop after another (node.py): poll, timers,   *)
(* upkeep.  A subscription is request-driven: the Agent sends at most the  *)
(* samples a READ_DATA granted and then goes quiet, so upkeep renews the   *)
(* grant, by count and by time.  READ_DATA and samples are sent once and   *)
(* may be lost.                                                            *)
(*                                                                         *)
(* Time is ticks_ms, a counter that wraps at TickMod, and ticks_diff takes *)
(* differences modulo TickMod of what it reads as ticks.  A timer's _next  *)
(* is a plain sum, not one of ticks_add.  On the boards that wrap, the     *)
(* ticks are the small integers: a sum past them is another kind of        *)
(* object, and ticks_diff, which does not look, reads some tick out of it. *)
(***************************************************************************)
EXTENDS Integers

CONSTANTS
  TickMod,      \* ticks_ms wraps here
  MaxGap,       \* the longest time between two looks at the clock
  Period,       \* of the timer
  MaxSamples,   \* of a READ_DATA
  RenewMs,      \* age at which a READ_DATA is renewed
  InFlight      \* bound: samples on their way

Half == TickMod \div 2
ASSUME SpinAssumption ==
  /\ TickMod \in Nat \ {0} /\ TickMod % 2 = 0
  /\ MaxGap \in Nat \ {0} /\ Period \in Nat \ {0} /\ Period + MaxGap < Half
  /\ MaxSamples \in Nat \ {0} /\ RenewMs \in Nat \ {0} /\ RenewMs + 2 * MaxGap < Half
  /\ InFlight \in Nat \ {0}

VARIABLES
  phase,     \* "poll", "timers" or "upkeep"
  now,       \* the tick last read
  next,      \* Timer._next: what ticks_diff reads of it, whether it is past the ticks
  count,     \* Subscription._count
  last,      \* Subscription._last_request
  reading,   \* whether a READ_DATA is on its way to the Agent
  granted,   \* samples the Agent may still send
  samples    \* samples on their way to the board
subVars == <<count, last, reading, granted, samples>>
spinVars == <<phase, now, next, subVars>>

ticks_diff(a, b) == ((a - b + Half) % TickMod) - Half
Later(t, gap) == (t + gap) % TickMod

Ticks == 0..(TickMod - 1)
Tick(n) == [reads |-> n, big |-> FALSE]

\* t + period_ms, for the scheduled time or the tick t.
Sums(t) == IF t.big \/ t.reads + Period >= TickMod
           THEN [reads : Ticks, big : {TRUE}]
           ELSE {Tick(t.reads + Period)}

\* Timer() and Subscription(): the first READ_DATA goes out at once.
SpinInit ==
  /\ phase = "poll" /\ now \in Ticks
  /\ next \in Sums(Tick(now))
  /\ count = 0 /\ last = now /\ reading = TRUE
  /\ granted = 0 /\ samples = 0

\* poll reads a sample (Subscription._on_data).
Receive ==
  /\ phase = "poll" /\ samples > 0
  /\ samples' = samples - 1
  /\ count' = IF count < MaxSamples THEN count + 1 ELSE count
  /\ UNCHANGED <<phase, now, next, last, reading, granted>>

\* poll returns; the clock is read once for all timers.
PollEnds(gap) ==
  /\ phase = "poll" /\ phase' = "timers"
  /\ now' = Later(now, gap)
  /\ UNCHANGED <<next, subVars>>

\* Mutant: ticks compared as if they did not wrap.
Due_Ordered == now >= next.reads

Due == ticks_diff(now, next.reads) >= 0

\* Mutant: a timer that fell behind is left to catch up.
Rescheduled_CatchUp == Sums(next)

\* From the scheduled time, unless that is in the past already.
Rescheduled ==
  UNION {IF ticks_diff(now, planned.reads) > 0 THEN Sums(Tick(now)) ELSE {planned} :
         planned \in Sums(next)}

\* Timer.check.
Timers ==
  /\ phase = "timers" /\ phase' = "upkeep"
  /\ next' \in (IF Due THEN Rescheduled ELSE {next})
  /\ UNCHANGED <<now, subVars>>

\* Mutant: renewed by count alone.
RenewalDue_ByCount(t) == count >= (3 * MaxSamples) \div 4

RenewalDue(t) == \/ count >= (3 * MaxSamples) \div 4
                 \/ ticks_diff(t, last) >= RenewMs

\* Subscription.maintain, at its own look at the clock.
Upkeep(gap) ==
  /\ phase = "upkeep" /\ phase' = "poll"
  /\ now' = Later(now, gap)
  /\ IF RenewalDue(now')
     THEN count' = 0 /\ last' = now' /\ reading' = TRUE
     ELSE UNCHANGED <<count, last, reading>>
  /\ UNCHANGED <<next, granted, samples>>

\* The Agent and the network: a READ_DATA replaces what is left of the last.
AgentReads ==
  /\ reading /\ reading' = FALSE
  /\ granted' = MaxSamples
  /\ UNCHANGED <<phase, now, next, count, last, samples>>

LoseRead ==
  /\ reading /\ reading' = FALSE
  /\ UNCHANGED <<phase, now, next, count, last, granted, samples>>

AgentSends ==
  /\ granted > 0 /\ samples < InFlight
  /\ granted' = granted - 1 /\ samples' = samples + 1
  /\ UNCHANGED <<phase, now, next, count, last, reading>>

LoseSample ==
  /\ samples > 0 /\ samples' = samples - 1
  /\ UNCHANGED <<phase, now, next, count, last, reading, granted>>

Agent == AgentReads \/ LoseRead \/ AgentSends \/ LoseSample

SpinNext == \/ Receive \/ Timers \/ Agent
            \/ \E gap \in 1..MaxGap : PollEnds(gap)
            \/ \E gap \in 0..MaxGap : Upkeep(gap)
SpinSpec == SpinInit /\ [][SpinNext]_spinVars
-----------------------------------------------------------------------------
(***************************************************************************)
(* Properties.                                                             *)
(***************************************************************************)
\* Once its timers are checked a node is not behind them, nor further ahead
\* than a period, however late the check was and also after the counter wrapped:
\* no burst of missed ticks.  A time past the last tick is excepted: until it
\* comes due it may be read as anything.
TimerAhead ==
  phase = "upkeep" /\ ~ next.big => ticks_diff(next.reads, now) \in 0..Period

\* The age a renewal is judged by is the true one, across the wrap: no standing
\* READ_DATA is older than the renewal age and one turn of the loop.
RenewedInTime ==
  ticks_diff(now, last) \in 0..(RenewMs - 1 + (IF phase = "poll" THEN 0 ELSE MaxGap))
=============================================================================
