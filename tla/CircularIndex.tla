--------------------------- MODULE CircularIndex ---------------------------
(***************************************************************************)
(* Unsigned counters that wrap, as the queues compare them.  IndexMod is   *)
(* the number of values of the counter's type: 2^64 in the program.        *)
(***************************************************************************)
EXTENDS Integers

CONSTANT IndexMod

ASSUME IndexModAssumption == IndexMod \in Nat /\ IndexMod > 1

Indices == 0 .. IndexMod - 1
Plus(i, n) == (i + n) % IndexMod
Distance(i, j) == (j - i) % IndexMod

\* j is ahead of i by less than half the range.
circular_less_than(i, j) == Distance(j, i) > IndexMod \div 2

\* j - i as a signed integer of the same width.
Signed(i, j) ==
  IF Distance(i, j) < IndexMod \div 2 THEN Distance(i, j)
  ELSE Distance(i, j) - IndexMod
=============================================================================
