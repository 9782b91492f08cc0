------------------------------- MODULE Datetime -------------------------------
(***************************************************************************)
(* The timestamp columns are MySQL DATETIME without fractions: a Date with *)
(* milliseconds is rounded to the nearest second when it is stored.  Time  *)
(* is counted in fractions of a second, `Second` of them to the second.    *)
(***************************************************************************)
EXTENDS Integers

CONSTANT Second

ASSUME SecondPositive == Second \in Nat \ {0}

\* The nearest second, half a second rounding up.
Stored(t) == ((t + (Second \div 2)) \div Second) * Second

\* What rounding can take from a time, and what it can add to one.
RoundedOff == (Second - 1) \div 2
RoundedUp == Second \div 2
===============================================================================
