------------------------------ MODULE BufPool ------------------------------
(***************************************************************************)
(* BufPool of src/src/util/bufpool.h: buffers handed out in turn, by an    *)
(* atomic counter that is an int.  It wraps to the least int; in           *)
(* (cursor_++) % chunk_cnt_ it is converted to a size_t first.             *)
(***************************************************************************)
EXTENDS Integers, FiniteSets, SequencesExt

CONSTANTS
  Counts,  \* chunk_cnt_, which the constructor counts up to with an int
  IntMod,  \* number of values of an int
  SizeMod  \* number of values of a size_t, a multiple of IntMod

\* What the parameters are.
Parameters ==
  /\ {IntMod, SizeMod} \subseteq Nat \ {0}
  /\ IntMod % 2 = 0 /\ SizeMod % IntMod = 0
  /\ Counts \subseteq 1 .. IntMod \div 2 - 1

VARIABLES
  chunk_cnt, cursor,
  recent     \* the buffers handed out last, chunk_cnt at most

vars == <<chunk_cnt, cursor, recent>>

Init == chunk_cnt \in Counts /\ cursor = 0 /\ recent = <<>>

\* Mutant: the remainder of an int, which C++ rounds towards 0.
BufOfInt(c, n) == IF c < 0 THEN -((-c) % n) ELSE c % n

BufOf(c, n) == (c % SizeMod) % n

GetBuf ==
  LET b == BufOf(cursor, chunk_cnt)
      all == Append(recent, b)
  IN /\ cursor' = (IF cursor = IntMod \div 2 - 1 THEN -(IntMod \div 2) ELSE cursor + 1)
     /\ recent' = (IF Len(all) > chunk_cnt THEN Tail(all) ELSE all)
     /\ UNCHANGED chunk_cnt

Spec == Init /\ [][GetBuf]_vars

-----------------------------------------------------------------------------
(* Properties *)

TypeOK == cursor \in -(IntMod \div 2) .. IntMod \div 2 - 1

\* The counter has leapt, to the least int or from -1 to 0, while the buffers of
\* recent were handed out.
Leapt == cursor % (IntMod \div 2) \in 1 .. Len(recent) - 1

\* A caller that is done with a buffer before chunk_cnt more are asked for has
\* it alone, and it is one of the pool's: with a count that divides the range of
\* an int always, with another one except where the counter leaps.
BuffersApart ==
  /\ ToSet(recent) \subseteq 0 .. chunk_cnt - 1
  /\ IntMod % chunk_cnt = 0 \/ ~Leapt => Cardinality(ToSet(recent)) = Len(recent)
=============================================================================
