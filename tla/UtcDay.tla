------------------------------- MODULE UtcDay -------------------------------
(***************************************************************************)
(* The UTC day behind both daily counters (research budget and provider    *)
(* quota): the counter of a day has a key of its own, and is given a TTL   *)
(* of the whole seconds left until midnight.  Time is counted in ticks, a  *)
(* fraction of a second each, so that what the rounding loses is visible.  *)
(***************************************************************************)
EXTENDS Integers

CONSTANTS TicksPerSecond, SecondsPerDay

ASSUME UtcDayAssumption ==
    /\ TicksPerSecond \in Nat \ {0}
    /\ SecondsPerDay \in Nat \ {0}

TicksPerDay == TicksPerSecond * SecondsPerDay

DayOf(t) == t \div TicksPerDay
Midnight(d) == (d + 1) * TicksPerDay

\* Mutated: the window is one second short.
WindowSecondsShort(now) == ((Midnight(DayOf(now)) - now) \div TicksPerSecond) - 1

\* max(1, int(seconds to midnight))
WindowSeconds(now) ==
    LET left == (Midnight(DayOf(now)) - now) \div TicksPerSecond
    IN  IF left >= 1 THEN left ELSE 1

\* TTL answers in whole seconds: less than one may read as none.
MayRoundToZero(ticks) == ticks < TicksPerSecond
=============================================================================
