------------------------------ MODULE DayClock ------------------------------
(***************************************************************************)
(* What the entry guards share: the clock they read on every call          *)
(* (time.time() and its Korean date, in ticks), the markets and the pause  *)
(* of a market at its daily limit of losses.                               *)
(***************************************************************************)
EXTENDS Naturals

CONSTANTS
  Market,
  LimitPause, \* COOLDOWN_DAILY_LOSS_LIMIT_SEC
  MaxCount,   \* bound: a counter of losses saturates here
  DayLength,  \* ticks of a day
  MaxNow      \* bound: the last tick

ASSUME ClockAssumption == /\ {DayLength, LimitPause} \subseteq Nat \ {0}
                          /\ {MaxNow, MaxCount} \subseteq Nat

VARIABLE now

Time == 0..MaxNow
Day(t) == t \div DayLength
Today == Day(now)
\* get_seconds_until_kst_midnight() is Midnight - now.
Midnight == (Today + 1) * DayLength

Earlier(a, b) == IF a < b THEN a ELSE b
Later(a, b) == IF a < b THEN b ELSE a

Tick == now < MaxNow /\ now' = now + 1

=============================================================================
