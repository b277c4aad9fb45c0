------------------------------- MODULE Instants -------------------------------
(* Instants are naturals, and a date is a day of DayLength instants.          *)
EXTENDS Integers

CONSTANT DayLength

ASSUME DayAssumption == DayLength \in Nat \ {0}

Day(instant) == instant \div DayLength

\* The last instant of a date.
EndOfDay(instant) == (Day(instant) + 1) * DayLength - 1

=============================================================================
