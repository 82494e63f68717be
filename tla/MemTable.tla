------------------------------ MODULE MemTable ------------------------------
(***************************************************************************)
(* The memtables of the store: class MemTable (src/src/enclave/memtable.h, *)
(* memtable.cpp), one object per slot of the array KVStore::mt_.  A        *)
(* variable of this module is a member of that class, indexed by the       *)
(* memtable it belongs to.  The operators below are its methods; the       *)
(* threads that call them, and when, are in module KVStore.                *)
(*                                                                         *)
(* Keys and values are opaque: the code looks only at their identity and   *)
(* at their length in bytes, which are the functions KeySize and ValSize.  *)
(***************************************************************************)
EXTENDS Integers, FiniteSets, Functions

CONSTANTS
  Keys, Values,
  NoValue,    \* not a value: the key is absent from a store_
  EmptyVal,   \* the empty string, which operator[] gives a key it inserts
  MT_NUM,     \* number of memtables; the code defines 2
  KeySize,    \* KeySize[k]: length of a key in bytes
  ValSize,    \* ValSize[v]: length of a value in bytes
  MaxSize,    \* max_size_in_bytes_, from Config::memtable_size
  SizeMod     \* 2^64 in the code: size_in_bytes_ is a uint64_t

ASSUME MemTableAssumption ==
  /\ NoValue \notin Values /\ EmptyVal \in Values
  /\ MT_NUM \in Nat \ {0}
  /\ KeySize \in [Keys -> Nat]
  /\ ValSize \in [Values -> Nat] /\ ValSize[EmptyVal] = 0
  /\ MaxSize \in Nat
  /\ SizeMod \in Nat \ {0}

\* A key is a string of bounded length.
ASSUME KeysFinite == IsFiniteSet(Keys)

VARIABLES
  store,          \* store_: the unordered_map of each memtable
  size_in_bytes,  \* size_in_bytes_
  mutable,        \* mutable_, an atomic flag
  on_flush        \* on_flush_, an atomic flag

mtVars == <<store, size_in_bytes, mutable, on_flush>>

Tables == 0 .. MT_NUM - 1
Maybe == Values \cup {NoValue}
EmptyStore == [k \in Keys |-> NoValue]

\* Constructor of each MemTable, and the SetMutable(true) of the KVStore
\* constructor that follows it.
InitMemTables ==
  /\ store = [t \in Tables |-> EmptyStore]
  /\ size_in_bytes = [t \in Tables |-> 0]
  /\ mutable = [t \in Tables |-> TRUE]
  /\ on_flush = [t \in Tables |-> FALSE]

IsEmpty(t) == size_in_bytes[t] = 0

NewKey(t, k) == store[t][k] = NoValue

\* store_[k], which is operator[]: a key that is absent is inserted with the
\* empty string, and nothing is added to size_in_bytes_.
Entry(t, k) == IF NewKey(t, k) THEN EmptyVal ELSE store[t][k]
SetEntry(t, k, v) == store' = [store EXCEPT ![t][k] = v]

\* Mutant: the size of the value an overwrite replaces is not subtracted.
SizeAfterPutKeepsOld(t, k, v, new_key, old_sz) ==
  (size_in_bytes[t] + ValSize[v] + (IF new_key THEN KeySize[k] ELSE 0)) % SizeMod

\* size_in_bytes_ after Put(k, v): the unsigned subtraction of the old size
\* may wrap on its own, the sum is taken modulo 2^64.
SizeAfterPut(t, k, v, new_key, old_sz) ==
  (size_in_bytes[t] + (IF new_key THEN KeySize[k] + ValSize[v]
                       ELSE ValSize[v] - old_sz)) % SizeMod

SetSize(t, n) == size_in_bytes' = [size_in_bytes EXCEPT ![t] = n]

\* Mutant: isFull() is off by one.
isFullEarly(t) == size_in_bytes[t] + 1 >= MaxSize

isFull(t) == size_in_bytes[t] >= MaxSize

SetMutable(t, b) ==
  /\ mutable' = [mutable EXCEPT ![t] = b]
  /\ UNCHANGED <<store, size_in_bytes, on_flush>>

\* Mutant: a memtable is flushed while it takes writes.
CanFlushMutable(t) == ~on_flush[t]

\* InitFlush() answers true and marks the memtable.
CanFlush(t) == ~on_flush[t] /\ ~mutable[t]

MTInitFlush(t) ==
  /\ on_flush' = [on_flush EXCEPT ![t] = TRUE]
  /\ UNCHANGED <<store, size_in_bytes, mutable>>

\* EndFlush(), in three steps that another thread can tell apart.
MTClear(t) ==
  /\ store' = [store EXCEPT ![t] = EmptyStore]
  /\ UNCHANGED <<size_in_bytes, mutable, on_flush>>

\* Mutant: on_flush_ is not reset.
MTZeroKeepsMark(t) == SetSize(t, 0) /\ UNCHANGED <<store, mutable, on_flush>>

\* Only the flusher reads on_flush_.
MTZero(t) ==
  /\ SetSize(t, 0)
  /\ on_flush' = [on_flush EXCEPT ![t] = FALSE]
  /\ UNCHANGED <<store, mutable>>

MTReopen(t) == SetMutable(t, TRUE)

MemTableTypeOK ==
  /\ store \in [Tables -> [Keys -> Maybe]]
  /\ size_in_bytes \in [Tables -> 0 .. SizeMod - 1]
  /\ mutable \in [Tables -> BOOLEAN]
  /\ on_flush \in [Tables -> BOOLEAN]

\* The bytes that store_ holds for each key.
Bytes(t) ==
  [k \in Keys |-> IF NewKey(t, k) THEN 0
                  ELSE KeySize[k] + ValSize[store[t][k]]]
=============================================================================
