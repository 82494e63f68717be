---------------------------- MODULE BloomFilter ----------------------------
(***************************************************************************)
(* src/src/util/bloom_filter.cpp: the parameters of a filter, computed     *)
(* from the number of elements expected, and add and mayBePresent.  A word *)
(* of data is the set of its bits that are 1.  MurmurHash3_x64_128 is      *)
(* external.  fp_rate enters through the two integers that its logarithms  *)
(* are truncated to.                                                       *)
(*                                                                         *)
(* WordBits stands for 64 and IntBits for 32: "1 << n" is an int.  The     *)
(* bits asked for are a product of ints, which the processor wraps.        *)
(***************************************************************************)
EXTENDS Integers, Powers

CONSTANTS
  Elements, Hash,              \* Hash[e][i]: the hash of e with seed i
  WordBits, IntBits,
  IntMod,                      \* number of values of an int, for the product
  MAX_SEEDS, MAX_FILTER_SIZE,
  MaxInput, MaxPerElt          \* bounds: input_size and bits_per_elt

\* What the parameters are.
Parameters ==
  /\ \E n \in 0 .. 63 : WordBits = Pow2[n]
  /\ IntBits \in 1 .. WordBits /\ IntMod \in Nat \ {0} /\ IntMod % 2 = 0
  /\ MAX_SEEDS \in Nat /\ MAX_FILTER_SIZE \in Nat \ {0}
  /\ MaxInput \in Nat /\ MaxPerElt \in Nat
  /\ \A e \in Elements, i \in 0 .. MAX_SEEDS - 1 : Hash[e][i] \in Nat

VARIABLES
  params, \* of get_optimal_paramset
  data,   \* word -> its bits
  added,  \* the elements that add was called with
  fits    \* history: is the number of bits asked for positive and an int?

vars == <<params, data, added, fits>>

Least(a, b) == IF a < b THEN a ELSE b
\* Truncated.
Log2(n) == CHOOSE s \in 0 .. n : Pow2[s] <= n /\ n < Pow2[s + 1]

AsInt(n) == ((n + IntMod \div 2) % IntMod) - IntMod \div 2

\* Words for the bits asked for.
Words(input_size, bits_per_elt) ==
  Least((AsInt(bits_per_elt * input_size) + WordBits - 1) \div WordBits, MAX_FILTER_SIZE)

\* Mutant: filter_size is left as it was computed, and the mask rounded up.
get_optimal_paramsetUnrounded(input_size, hashes, bits_per_elt) ==
  LET words == Words(input_size, bits_per_elt)
  IN [num_hashes |-> Least(hashes, MAX_SEEDS),
      sft |-> IF words > 0 THEN Log2(WordBits * words) + 1 ELSE 0,
      filter_size |-> words]

\* The logarithm of no words, or fewer, is no int: the processor makes the least
\* int of it, by which it then shifts as by 0.
get_optimal_paramset(input_size, hashes, bits_per_elt) ==
  LET words == Words(input_size, bits_per_elt)
      sft == IF words > 0 THEN Log2(WordBits * words) ELSE 0
  IN [num_hashes |-> Least(hashes, MAX_SEEDS), sft |-> sft,
      filter_size |-> Pow2[sft] \div WordBits]

Init ==
  /\ \E input \in 0 .. MaxInput, hashes \in 0 .. MAX_SEEDS + 1, per \in 0 .. MaxPerElt :
       /\ params = get_optimal_paramset(input, hashes, per)
       /\ fits = (per * input \in 1 .. IntMod \div 2 - 1)
  /\ data = [w \in 0 .. params.filter_size - 1 |-> {}]
  /\ added = {}

Seeds == 0 .. params.num_hashes - 1
hash_mod(e, i) == Hash[e][i] % Pow2[params.sft]

Word(e, i) == hash_mod(e, i) \div WordBits
Bit(e, i) == hash_mod(e, i) % WordBits

\* 1 << n, and then converted to a word: the processor shifts by n modulo the
\* width of an int, and an int whose top bit is 1 extends to the upper half.
Shifted(n) ==
  LET b == n % IntBits IN IF b = IntBits - 1 THEN b .. WordBits - 1 ELSE {b}

\* Mutant: the bit is shifted as a word's.
SetsWide(e, w) == {Bit(e, i) : i \in {j \in Seeds : Word(e, j) = w}}

\* The bits of word w that add sets for e.
Sets(e, w) == UNION {Shifted(Bit(e, i)) : i \in {j \in Seeds : Word(e, j) = w}}

\* A write outside data is undefined: the model goes no further.
add(e) ==
  /\ \A i \in Seeds : Word(e, i) \in DOMAIN data
  /\ data' = [w \in DOMAIN data |-> data[w] \cup Sets(e, w)]
  /\ added' = added \cup {e} /\ UNCHANGED <<params, fits>>

mayBePresent(e) ==
  \A i \in Seeds : data[Word(e, i)] \cap Shifted(Bit(e, i)) # {}

Next == \E e \in Elements : add(e)

Spec == Init /\ [][Next]_vars

-----------------------------------------------------------------------------
(* Properties *)

TypeOK ==
  /\ data \in [0 .. params.filter_size - 1 -> SUBSET (0 .. WordBits - 1)]
  /\ added \subseteq Elements

\* A filter never denies an element that was added, though an int is shifted
\* by more than its width and several bits come out of one shift.
NoFalseNegative == \A e \in added : mayBePresent(e)

\* Every hash is that of a bit of the filter, if the bits asked for are a
\* positive int.  For more elements than that the filter may have no word at all,
\* and add writes beside it.
HashInFilter ==
  fits =>
    /\ params.filter_size > 0 /\ Pow2[params.sft] = WordBits * params.filter_size
    /\ \A e \in Elements, i \in Seeds : Word(e, i) \in DOMAIN data
=============================================================================
