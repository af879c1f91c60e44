----------------------------- MODULE Timestamps -----------------------------
(***************************************************************************)
(* Stamps in the database are RFC3339Nano text in UTC, and SQLite compares *)
(* them as text. The fraction of a second has up to nine digits; the       *)
(* format drops its trailing zeros and, when nothing is left, the point. A *)
(* point sorts before a digit and both before the final Z, so a text that  *)
(* goes on where another ends sorts before it, though it is the later one. *)
(* Stamps are numbers of ticks, a tick being a whole number of nanoseconds.*)
(***************************************************************************)
EXTENDS Naturals

CONSTANT TicksPerSecond  \* resolution of the clock; with 1 text order is exact

TimestampsAssumption == TicksPerSecond \in Nat \ {0} /\ 1000000000 % TicksPerSecond = 0

ASSUME TimestampsAssumption

Second(t) == t \div TicksPerSecond
Fraction(t) == t % TicksPerSecond

Nanos(t) == Fraction(t) * (1000000000 \div TicksPerSecond)

\* What the last digit of a fraction may count, from none at all to the ninth.
Units == {1000000000, 100000000, 10000000, 1000000, 100000, 10000, 1000, 100, 10, 1}

\* The fraction's text goes on where t's ends: t is s, cut after some digit.
Extends(s, t) ==
  /\ Second(s) = Second(t) /\ Nanos(s) # Nanos(t)
  /\ \E u \in Units : Nanos(t) = u * (Nanos(s) \div u)

\* s is less than t as text.
Before(s, t) == Extends(s, t) \/ (s < t /\ ~Extends(t, s))

=============================================================================
