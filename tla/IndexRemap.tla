---------------------------- MODULE IndexRemap ----------------------------
(***************************************************************************)
(* The index arithmetic of the request queue (details:: in atomic_queue.h):*)
(* the number of slots its constructor allocates and the slot an index is  *)
(* mapped to.  The code works on 32-bit words; WordBits stands for 32.     *)
(***************************************************************************)
EXTENDS Integers, Bitwise, FiniteSetsExt

CONSTANT WordBits

ASSUME WordAssumption == WordBits \in {2, 4, 8, 16}

WordMod == 2^WordBits

\* Mutants: the mix is left out of the second field; it is not masked.
RemapIndexOneField(bits, index) ==
  index ^^ ((index ^^ shiftR(index, bits)) & (2^bits - 1))
RemapIndexUnmasked(bits, index) ==
  LET mix == index ^^ shiftR(index, bits)
  IN IF bits = 0 THEN index
     ELSE (index ^^ mix) ^^ ((mix * 2^bits) % WordMod)

\* remap_index<BITS>, with BITS = 0 the identity by specialisation.
RemapIndex(bits, index) ==
  LET mix == (index ^^ shiftR(index, bits)) & (2^bits - 1)
  IN IF bits = 0 THEN index
     ELSE (index ^^ mix) ^^ ((mix * 2^bits) % WordMod)

\* x | x >> 1, then x | x >> 2, ... up to half the word.
RECURSIVE OrEqual(_, _)
OrEqual(x, u) ==
  IF u >= WordBits THEN x ELSE OrEqual(x | shiftR(x, u), 2 * u)

\* Mutant: the argument is not decremented first.
RoundUpPast(a) == (OrEqual(a, 1) + 1) % WordMod

\* round_up_to_power_of_2, unsigned: 0 and anything above the largest power
\* of two wrap to 0.
RoundUpToPowerOf2(a) == (OrEqual((a - 1) % WordMod, 1) + 1) % WordMod

\* Mutant: the minimum that the remapping needs is left out.
QueueSizeNoMin(bits, size) == RoundUpToPowerOf2(size)

\* size_ as the constructor of AtomicQueueB2 sets it.
QueueSize(bits, size) == Max({RoundUpToPowerOf2(size), 2^(2 * bits)})
=============================================================================
