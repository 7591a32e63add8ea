----------------------------- MODULE TiltSensor -----------------------------
(***************************************************************************)
(* The tilt sensor of a gluon (tiltSensor.cpp): the interrupt that notes   *)
(* the times of ticks in a ring against the loop that looks whether the    *)
(* last few of them make a shake.                                          *)
(*                                                                         *)
(* The ring holds times as millis() gives them, modulo Word.  After a      *)
(* report it is reset to 0, interval, 2 * interval ..., and the index of   *)
(* the newest tick stays where it is.                                      *)
(***************************************************************************)
EXTENDS Integers, Sequences

CONSTANTS
  Times,     \* ticks that make a shake, DEFAULT_NUM_TICKS
  Interval,  \* they come within this time, DEFAULT_MEASURE_TICK_INTERVAL
  MinTick,   \* and are farther apart than this, MINIMUM_TIME_BETWEEN_TICKS
  MaxGap,    \* bound: the longest time between two looks of the loop
  Word,      \* millis() counts modulo this, 2^32
  Start,     \* the time since boot at which the observation begins
  MaxTime    \* bound: and at which it ends

ASSUME TiltAssumption ==
  /\ Times \in Nat /\ Times > 1
  /\ Interval \in Nat /\ Interval > 0
  /\ MinTick \in Nat /\ MaxGap \in Nat
  /\ Word \in Nat /\ Word > Times * Interval
  /\ Start \in Nat /\ MaxTime \in Nat

\* One observation is shorter than a round of millis(), 49.7 days: two ticks
\* that far apart look the same in the ring.  It may hold a wrap of millis().
ASSUME ShortAssumption == MaxTime < Start + Word

VARIABLES
  now,     \* the time since boot
  table,   \* tableTimes
  index,   \* indexTableTimes: the newest tick
  gap,     \* the time since the loop last looked
  shake,   \* what checkEvent() returned then
  ticks    \* history: the times of the last ticks since the last report

vars == <<now, table, index, gap, shake, ticks>>

Slots  == 0..Times - 1
Millis == 0..Word - 1

\* A mutation: the clock does not wrap.
MillisUnbounded == now

millis     == now % Word
Minus(a, b) == (a - b) % Word

FreshTable == [i \in Slots |-> (i * Interval) % Word]

Successor(i) == (i + 1) % Times

-----------------------------------------------------------------------------

Noted(t) ==
  IF Len(ticks) < Times THEN Append(ticks, t) ELSE Append(Tail(ticks), t)

\* A mutation: the bouncing of the sensor is not filtered.
TickAlways ==
  /\ index' = Successor(index)
  /\ table' = [table EXCEPT ![index'] = millis]
  /\ ticks' = Noted(now)
  /\ UNCHANGED <<now, gap, shake>>

\* tickAddTime(), the interrupt: the time of a tick that comes long enough
\* after the last one is noted.
Tick ==
  /\ Minus(millis, table[index]) > MinTick
  /\ index' = Successor(index)
  /\ table' = [table EXCEPT ![Successor(index)] = millis]
  /\ ticks' = Noted(now)
  /\ UNCHANGED <<now, gap, shake>>

IsShake == Minus(table[index], table[Successor(index)]) < Interval

\* A mutation, which tiltSensor.cpp:65 has as a comment: only the oldest time
\* is forgotten.
CheckEventForgetOldest ==
  /\ gap' = 0
  /\ shake' = IsShake
  /\ \/ /\ IsShake
        /\ table' = [table EXCEPT ![Successor(index)] = 0]
        /\ ticks' = <<>>
     \/ /\ ~IsShake
        /\ UNCHANGED <<table, ticks>>
  /\ UNCHANGED <<now, index>>

\* checkEvent(), with interrupts off.
CheckEvent ==
  /\ gap' = 0
  /\ shake' = IsShake
  /\ \/ /\ IsShake
        /\ table' = FreshTable
        /\ ticks' = <<>>
     \/ /\ ~IsShake
        /\ UNCHANGED <<table, ticks>>
  /\ UNCHANGED <<now, index>>

Advance ==
  /\ now < MaxTime
  /\ gap < MaxGap
  /\ now' = now + 1
  /\ gap' = gap + 1
  /\ UNCHANGED <<table, index, shake, ticks>>

\* A gluon that was not shaken since it was switched on.
Init ==
  /\ now = Start
  /\ table = FreshTable
  /\ index = 0
  /\ gap = 0
  /\ shake = FALSE
  /\ ticks = <<>>

Next == Tick \/ CheckEvent \/ Advance

Spec == Init /\ [][Next]_vars

-----------------------------------------------------------------------------
(* Properties.                                                             *)

\* The index stays inside the table, which an interrupt writes, and the times in
\* it are those of a clock that wraps.
TypeOK ==
  /\ now \in Nat
  /\ table \in [Slots -> Millis]
  /\ index \in Slots
  /\ gap \in 0..MaxGap
  /\ shake \in BOOLEAN
  /\ ticks \in Seq(Nat) /\ Len(ticks) <= Times

\* The last ticks make a shake: as many as it takes, within the interval.
Burst == Len(ticks) = Times /\ ticks[Times] - ticks[1] < Interval

\* For Times * Interval (8 s) after millis() is zero, the times that a reset
\* puts into the table are in the future, or as near as those of real ticks:
\* a single tick may pass for a shake then.
Settled(t) == t % Word >= Times * Interval

Report == CheckEvent /\ shake'

\* Every shake that the loop hears of was one: Times ticks within the interval,
\* none of which was counted in an earlier report.  True of ticks that come 8 s
\* after the start or later.
ShakesAreReal ==
  [][Report /\ (ticks # <<>> => Settled(ticks[Len(ticks)])) => Burst]_vars

\* And every shake that there was the loop hears of, unless it is blocked: when
\* Times ticks came within the interval, nothing but time passes before
\* checkEvent() reports it.  One more tick may replace the oldest of them before,
\* but only when the loop has not looked for longer than MinTick (0.5 s): calls
\* to four children with a retry last 160 ms, but a pulled patch chord (3.4 s), a
\* scan of the network (3.8 s), RESET_CON (15 ms times the id) and learning (3 s)
\* block it longer, and a shake can be missed then.
ShakesAreSeen ==
  [][Burst => \/ Report
              \/ now' # now /\ UNCHANGED <<table, ticks>>
              \/ Tick /\ gap > MinTick]_vars
=============================================================================
