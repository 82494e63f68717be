----------------------------- MODULE MCKVStore -----------------------------
(* Small instances of KVStore for TLC. *)
EXTENDS KVStore, TLC

CONSTANTS k1, k2, v1

\* The empty string and a longer one, so that an overwrite can grow a memtable.
MCValues == {EmptyVal, v1}
MCKeySize == [k \in Keys |-> 1]
MCValSize == [v \in Values |-> IF v = v1 THEN 2 ELSE 0]

\* The keys have one length, and nothing orders them.
MCKeys == {k1, k2}
Symmetry == Permutations(MCKeys)
=============================================================================
