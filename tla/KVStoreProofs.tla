--------------------------- MODULE KVStoreProofs ---------------------------
(***************************************************************************)
(* Theorems about module KVStore, for every set of keys and values, every  *)
(* number of memtables and every size.                                     *)
(*                                                                         *)
(* KInv holds whatever the three threads do (CloseSpec, and so Spec and    *)
(* FlushSpec): types, and what the program counters say of the calls in    *)
(* progress.  FInv is added by FlushSpec: nobody but the worker closes a   *)
(* memtable and nobody but the flusher opens one, so that the steps of a   *)
(* Put have their memtable to themselves.  SInv says what a memtable's     *)
(* size owes to its contents, step by step (SizeExact).  PInv, BInv: what  *)
(* a search finds, with a flusher that keeps pace and in the program as    *)
(* built (Spec).                                                           *)
(***************************************************************************)
EXTENDS KVStore, NatFacts, SequenceTheorems, TLAPS

USE DEF WorkerAt, FlusherAt, chosen, locals, history, others

\* What the next step of a thread says of its call and of the flush target.
Control ==
  /\ wpc = "scan" \/ Writing \/ Written => req \in Puts
  /\ wpc \in {"search", "read"} => req \in Gets /\ wi \in 1 .. Len(usage_q)
  /\ fpc \in {"dump", "clear", "zero", "reopen"} => flush_target \in Tables
  /\ fpc \in {"find", "reset", "recheck"} => flush_target = -1

KInv == TypeOK /\ Control /\ FlushMark

\* The record in the flusher's hands is the memtable it came from, and it is
\* in the persistent store when the memtable is about to be cleared.
DumpIsCurrent ==
  flush_target \in Tables /\ fpc = "idle" => dumped = store[flush_target]

RecordFixed ==
  fpc = "clear" =>
    \A k \in Keys :
      store[flush_target][k] # NoValue => flushed[k] = store[flush_target][k]

TargetClosed == flush_target \in Tables => ~mutable[flush_target]

\* A key that a Get has found is still there, unless the memtable has been
\* cleared: then no Put has written to it since.
ReadAfterClear ==
  wpc = "read" /\ NewKey(Searched, req.key) =>
    \/ mutable[Searched]
    \/ flush_target = Searched /\ fpc \in {"zero", "reopen"}

\* A memtable is sealed when it is full.
SealedIsFull == wpc = "seal" => size_in_bytes[cur_mt] >= MaxSize

FInv ==
  /\ WriterAlone /\ (SemaBound => NoLostSignal) /\ ClosedIsFull
  /\ DumpIsCurrent /\ RecordFixed /\ TargetClosed
  /\ ReadAfterClear /\ SealedIsFull

-----------------------------------------------------------------------------
(* Lemmas about the operators *)

LEMMA TablesFacts == MT_NUM \in Nat /\ MT_NUM >= 1 /\ 0 \in Tables
                     /\ -1 \notin Tables /\ Tables \subseteq Nat
BY MemTableAssumption DEF Tables

\* A memtable's size is a 64-bit number after a Put.
LEMMA SizeAfterPutType ==
  ASSUME TypeOK, NEW t \in Tables, NEW k \in Keys, NEW v \in Values
  PROVE  SizeAfterPut(t, k, v, new_key, old_sz) \in 0 .. SizeMod - 1
<1>1. size_in_bytes[t] \in Int /\ KeySize[k] \in Int /\ ValSize[v] \in Int
  BY MemTableAssumption DEF TypeOK, MemTableTypeOK
<1>2. old_sz \in Int
  BY DEF TypeOK
<1>3. PICK n \in Int : SizeAfterPut(t, k, v, new_key, old_sz) = n % SizeMod
  BY <1>1, <1>2 DEF SizeAfterPut
<1> QED BY <1>3, MemTableAssumption

\* What operator[] returns is a value, and it leaves a typed map behind.
LEMMA EntryType ==
  ASSUME TypeOK, NEW t \in Tables, NEW k \in Keys
  PROVE  Entry(t, k) \in Values /\ Entry(t, k) # NoValue
BY MemTableAssumption DEF TypeOK, MemTableTypeOK, Entry, NewKey, Maybe

LEMMA SetEntryType ==
  ASSUME TypeOK, NEW t \in Tables, NEW k \in Keys, NEW v \in Values,
         SetEntry(t, k, v), UNCHANGED <<size_in_bytes, mutable, on_flush>>
  PROVE  MemTableTypeOK'
<1>1. store' \in [Tables -> [Keys -> Maybe]]
  BY DEF SetEntry, TypeOK, MemTableTypeOK, Maybe
<1> QED BY <1>1 DEF TypeOK, MemTableTypeOK

\* usage_q keeps at least one and at most MT_NUM entries.
LEMMA PushedType ==
  ASSUME TypeOK, NEW t \in Tables
  PROVE  Pushed(t) \in Seq(Tables) /\ Len(Pushed(t)) \in 1 .. MT_NUM
<1> DEFINE q == Append(usage_q, t)
           n == Len(q)
<1>1. q \in Seq(Tables) /\ n = Len(usage_q) + 1 /\ n \in 2 .. MT_NUM + 1
  BY TablesFacts DEF TypeOK
<1>2. CASE n > MT_NUM
  <2>1. Pushed(t) = SubSeq(q, n - MT_NUM + 1, n) /\ n = MT_NUM + 1
    BY <1>1, <1>2, TablesFacts DEF Pushed
  <2>2. n - MT_NUM + 1 = 2 /\ n \in Int /\ \A i \in 2 .. n : q[i] \in Tables
    BY <1>1, <2>1, TablesFacts
  <2>3. Pushed(t) = SubSeq(q, 2, n)
    BY <2>1, <2>2
  <2>4. SubSeq(q, 2, n) \in Seq(Tables) /\ Len(SubSeq(q, 2, n)) = n - 1
    <3>1. n \in Int /\ 2 <= n /\ n - 2 + 1 = n - 1
      BY <1>1, TablesFacts
    <3> HIDE DEF q, n
    <3>2. /\ SubSeq(q, 2, n) \in Seq(Tables)
          /\ Len(SubSeq(q, 2, n)) = IF 2 <= n THEN n - 2 + 1 ELSE 0
      BY <2>2, <3>1, SubSeqProperties
    <3> QED BY <3>1, <3>2
  <2> QED BY <1>1, <2>1, <2>3, <2>4, TablesFacts
<1>3. CASE ~(n > MT_NUM)
  BY <1>1, <1>3, TablesFacts DEF Pushed
<1> QED BY <1>2, <1>3

-----------------------------------------------------------------------------
(* Types and control, whatever the three threads do *)

LEMMA KInvInit == Init => KInv
<1> SUFFICES ASSUME Init PROVE KInv
  OBVIOUS
<1> USE TablesFacts, MemTableAssumption DEF Init
<1>1. EmptyStore \in [Keys -> Maybe]
  BY DEF EmptyStore, Maybe
<1>2. MemTableTypeOK
  BY <1>1 DEF InitMemTables, MemTableTypeOK
<1>3. usage_q \in Seq(Tables) /\ Len(usage_q) = 1
  OBVIOUS
<1>4. TypeOK
  <2>1. cur_mt \in Tables /\ Len(usage_q) \in 1 .. MT_NUM
        /\ wi \in 0 .. MT_NUM /\ fi \in 0 .. MT_NUM
    BY <1>3
  <2>2. closing \subseteq Tables /\ ret \in Returns \cup {NoRet}
        /\ req \in Puts \cup Gets \cup {NoReq}
    OBVIOUS
  <2> QED BY <1>1, <1>2, <1>3, <2>1, <2>2 DEF TypeOK
<1>5. Control
  BY DEF Control, Writing, Written
<1>6. FlushMark
  BY DEF FlushMark, InitMemTables
<1> QED BY <1>4, <1>5, <1>6 DEF KInv

\* A step of the worker that writes to no memtable.
LEMMA QuietWorkerKInv ==
  ASSUME KInv, UNCHANGED <<mtVars, fVars, closing>>,
         cur_mt' \in Tables, usage_q' \in Seq(Tables), Len(usage_q') \in 1 .. MT_NUM,
         flush_sema' \in BOOLEAN, alive' \in BOOLEAN,
         wpc' \in {"idle", "scan", "assert", "find", "size", "assign", "count",
                   "full", "seal", "signal", "search", "read", "return"},
         wi' \in 0 .. MT_NUM, req' \in Puts \cup Gets \cup {NoReq},
         ret' \in Returns \cup {NoRet}, new_key' \in BOOLEAN, old_sz' \in Nat,
         latest' \in [Keys -> Maybe], emptied' \subseteq Keys, paced' \in BOOLEAN,
         (wpc = "scan" \/ Writing \/ Written)' => req' \in Puts,
         wpc' \in {"search", "read"} => req' \in Gets /\ wi' \in 1 .. Len(usage_q')
  PROVE  KInv'
<1>1. MemTableTypeOK'
  BY DEF KInv, TypeOK, MemTableTypeOK, mtVars
<1>2. TypeOK'
  BY <1>1 DEF KInv, TypeOK, fVars
<1>3. Control' /\ FlushMark'
  BY DEF KInv, Control, FlushMark, mtVars, fVars
<1> QED BY <1>2, <1>3 DEF KInv

\* The steps of MemTable::Put and MemTable::Get that write to a memtable.
LEMMA StoringKInv ==
  ASSUME KInv, PutOldSize \/ PutAssign \/ PutCount \/ PutSeal \/ GetRead
  PROVE  KInv'
<1> USE TablesFacts DEF KInv, Control, TypeOK, Writing, Written
<1>1. CASE PutOldSize
  <2> DEFINE v == Entry(cur_mt, req.key)
  <2>1. req.key \in Keys /\ v \in Values /\ ValSize[v] \in Nat
    BY <1>1, EntryType, MemTableAssumption DEF PutOldSize, Puts
  <2>2. MemTableTypeOK'
    BY <1>1, <2>1, SetEntryType DEF PutOldSize
  <2> QED BY <1>1, <2>1, <2>2 DEF PutOldSize, fVars, FlushMark
<1>2. CASE PutAssign
  <2>1. req.key \in Keys /\ req.val \in Values /\ req.val \in Maybe
    BY <1>2 DEF PutAssign, Puts, Maybe
  <2>2. MemTableTypeOK' /\ latest' \in [Keys -> Maybe]
    BY <1>2, <2>1, SetEntryType DEF PutAssign
  <2> QED BY <1>2, <2>2 DEF PutAssign, fVars, FlushMark
<1>3. CASE PutCount
  <2>1. req.key \in Keys /\ req.val \in Values
    BY <1>3 DEF PutCount, Puts
  <2>2. SizeAfterPut(cur_mt, req.key, req.val, new_key, old_sz) \in 0 .. SizeMod - 1
    BY <2>1, SizeAfterPutType
  <2>3. MemTableTypeOK'
    BY <1>3, <2>2 DEF PutCount, SetSize, MemTableTypeOK
  <2>4. wpc' \in {"full", "return"} /\ ret' \in Returns \cup {NoRet}
    BY <1>3 DEF PutCount, Return, Returns, Statuses, Maybe
  <2> QED BY <1>3, <2>3, <2>4 DEF PutCount, fVars, FlushMark
<1>4. CASE PutSeal
  <2>1. MemTableTypeOK' /\ UNCHANGED on_flush
    BY <1>4 DEF PutSeal, SetMutable, MemTableTypeOK
  <2>2. paced' \in BOOLEAN
    BY <1>4, Zenon DEF PutSeal
  <2> QED BY <1>4, <2>1, <2>2 DEF PutSeal, fVars, FlushMark
<1>5. CASE GetRead
  <2> DEFINE v == Entry(Searched, req.key)
  <2>1. Searched \in Tables
    BY <1>5 DEF GetRead, Searched, Tables
  <2>2. req.key \in Keys /\ v \in Values /\ v \in Maybe
    BY <1>5, <2>1, EntryType DEF GetRead, Gets, Maybe
  <2>3. MemTableTypeOK'
    BY <1>5, <2>1, <2>2, SetEntryType DEF GetRead
  <2>4. wpc' = "return" /\ ret' \in Returns
    BY <1>5, <2>2 DEF GetRead, Return, Returns, Statuses
  <2> QED BY <1>5, <2>2, <2>3, <2>4 DEF GetRead, fVars, FlushMark
<1> QED BY <1>1, <1>2, <1>3, <1>4, <1>5

LEMMA WorkerKInv ==
  ASSUME KInv, Worker
  PROVE  KInv'
<1> USE TablesFacts DEF KInv, Control, TypeOK, Writing, Written
<1>1. ASSUME NEW k \in Keys, GetCall(k) PROVE KInv'
  BY <1>1, QuietWorkerKInv DEF GetCall, Gets
<1>2. ASSUME NEW k \in Keys, NEW v \in Values, PutCall(k, v) PROVE KInv'
  BY <1>2, QuietWorkerKInv DEF PutCall, Puts
<1>3. CASE PutScan
  <2>1. wi \in Nat /\ wi \in 0 .. MT_NUM - 1 /\ wi \in Tables
    BY <1>3 DEF PutScan, Tables
  <2>2. Pushed(wi) \in Seq(Tables) /\ Len(Pushed(wi)) \in 1 .. MT_NUM
    BY <2>1, PushedType
  <2>3. CASE mutable[wi]
    BY <1>3, <2>1, <2>2, <2>3, QuietWorkerKInv DEF PutScan
  <2>4. CASE ~mutable[wi]
    <3>1. wi' = wi + 1 /\ wi' \in 0 .. MT_NUM
      BY <1>3, <2>1, <2>4 DEF PutScan
    <3> QED BY <1>3, <2>4, <3>1, QuietWorkerKInv DEF PutScan
  <2> QED BY <2>3, <2>4
<1>4. CASE PutReject
  BY <1>4, QuietWorkerKInv
  DEF PutReject, RaiseSema, Return, Returns, Statuses, Maybe
<1>5. CASE PutAssert
  BY <1>5, QuietWorkerKInv DEF PutAssert
<1>6. CASE PutFind
  <2>1. new_key' \in BOOLEAN /\ wpc' \in {"size", "assign"}
    BY <1>6, Zenon DEF PutFind, NewKey
  <2> QED BY <1>6, <2>1, QuietWorkerKInv DEF PutFind
<1>7. CASE PutFull
  <2>1. wpc' \in {"seal", "return"} /\ ret' \in Returns \cup {NoRet}
    BY <1>7 DEF PutFull, Return, Returns, Statuses, Maybe
  <2> QED BY <1>7, <2>1, QuietWorkerKInv DEF PutFull
<1>8. CASE PutSignal
  BY <1>8, QuietWorkerKInv
  DEF PutSignal, RaiseSema, Return, Returns, Statuses, Maybe
<1>9. CASE GetFind
  <2>1. \/ ret' \in Returns /\ wpc' = "return" /\ UNCHANGED wi
        \/ wi > 1 /\ wi' = wi - 1 /\ UNCHANGED <<wpc, ret>>
        \/ wpc' = "read" /\ UNCHANGED <<wi, ret>>
    BY <1>9 DEF GetFind, Return, Returns, Statuses, Maybe
  <2> QED BY <1>9, <2>1, QuietWorkerKInv DEF GetFind
<1>10. CASE Answered
  BY <1>10, QuietWorkerKInv DEF Answered
<1> QED BY <1>1, <1>2, <1>3, <1>4, <1>5, <1>6, <1>7, <1>8, <1>9, <1>10,
           StoringKInv
        DEF Worker, Call, Inside

\* The flusher's step from "zero", whatever size it leaves behind.
LEMMA ZeroKInv ==
  ASSUME KInv, fpc = "zero", fpc' = "reopen",
         on_flush' = [on_flush EXCEPT ![flush_target] = FALSE],
         size_in_bytes' = size_in_bytes
           \/ size_in_bytes' = [size_in_bytes EXCEPT ![flush_target] = 0],
         UNCHANGED <<store, mutable, wVars, flush_target, fi, dumped, flushed,
                     flush_sema, alive, closing>>
  PROVE  KInv'
<1>1. flush_target \in Tables /\ 0 \in 0 .. SizeMod - 1
  BY MemTableAssumption DEF KInv, Control
<1>2. MemTableTypeOK'
  BY <1>1 DEF KInv, TypeOK, MemTableTypeOK
<1>3. TypeOK'
  BY <1>2 DEF KInv, TypeOK, wVars
<1>4. Control'
  BY DEF KInv, Control, wVars, Writing, Written
<1>5. FlushMark'
  BY DEF KInv, TypeOK, MemTableTypeOK, FlushMark
<1> QED BY <1>3, <1>4, <1>5 DEF KInv

LEMMA FlusherKInv ==
  ASSUME KInv, Flusher
  PROVE  KInv'
<1> USE TablesFacts DEF KInv, Control, TypeOK, FlushMark, Writing, Written
<1>a. UNCHANGED mtVars => MemTableTypeOK'
  BY DEF mtVars, MemTableTypeOK
<1>1. CASE InitFlushCall
  BY <1>a, <1>1 DEF InitFlushCall, mtVars, wVars
<1>2. CASE InitFlushFind
  <2>1. fi \in Tables /\ fi + 1 \in 0 .. MT_NUM
    BY <1>2 DEF InitFlushFind, Tables
  <2>2. CASE CanFlush(fi)
    <3>1. on_flush' \in [Tables -> BOOLEAN] /\ FlushMark'
      BY <1>2, <2>1, <2>2 DEF InitFlushFind, MTInitFlush, MemTableTypeOK
    <3> QED BY <1>2, <2>1, <2>2, <3>1
            DEF InitFlushFind, MTInitFlush, MemTableTypeOK, wVars
  <2>3. CASE ~CanFlush(fi)
    BY <1>a, <1>2, <2>1, <2>3 DEF InitFlushFind, mtVars, wVars
  <2> QED BY <2>2, <2>3
<1>3. CASE InitFlushNone
  BY <1>a, <1>3 DEF InitFlushNone, mtVars, wVars
<1>4. CASE DumpRecord
  <2>1. store[flush_target] \in [Keys -> Maybe]
    BY <1>4 DEF DumpRecord, MemTableTypeOK
  <2> QED BY <1>a, <1>4, <2>1 DEF DumpRecord, mtVars, wVars
<1>5. CASE EndFlushCall
  <2>1. dumped' \in [Keys -> Maybe]
    BY <1>5 DEF EndFlushCall, EmptyStore, Maybe
  <2> QED BY <1>a, <1>5, <2>1 DEF EndFlushCall, mtVars, wVars
<1>6. CASE EndFlushClear
  <2>1. EmptyStore \in [Keys -> Maybe]
    BY DEF EmptyStore, Maybe
  <2>2. MemTableTypeOK' /\ UNCHANGED on_flush
    BY <1>6, <2>1 DEF EndFlushClear, MTClear, MemTableTypeOK
  <2> QED BY <1>6, <2>2 DEF EndFlushClear, wVars
<1>10. CASE EndFlushZero
  BY <1>10, ZeroKInv DEF EndFlushZero, MTZero, SetSize
<1>7. CASE EndFlushReopen
  <2>1. MemTableTypeOK' /\ UNCHANGED on_flush
    BY <1>7 DEF EndFlushReopen, MTReopen, SetMutable, MemTableTypeOK
  <2>2. /\ UNCHANGED <<wVars, flush_sema, alive, closing>>
        /\ UNCHANGED <<fi, dumped, flushed>>
        /\ fpc = "reopen" /\ fpc' = "reset" /\ flush_target' = -1
    BY <1>7 DEF EndFlushReopen
  <2> QED BY <2>1, <2>2 DEF wVars
<1>8. CASE EndFlushReset
  <2>1. flush_sema' \in BOOLEAN
    BY <1>8 DEF EndFlushReset
  <2> QED BY <1>a, <1>8, <2>1 DEF EndFlushReset, mtVars, wVars
<1>9. CASE EndFlushRecheck
  <2>1. flush_sema' \in BOOLEAN
    BY <1>9, Zenon DEF EndFlushRecheck
  <2>2. fi' \in 0 .. MT_NUM /\ fpc' \in {"idle", "recheck"}
    BY <1>9 DEF EndFlushRecheck
  <2> QED BY <1>a, <1>9, <2>1, <2>2 DEF EndFlushRecheck, mtVars, wVars
<1> QED BY <1>1, <1>2, <1>3, <1>4, <1>5, <1>6, <1>7, <1>8, <1>9, <1>10
        DEF Flusher, FlusherSteps

LEMMA CloserKInv ==
  ASSUME KInv, Closer
  PROVE  KInv'
<1> USE TablesFacts DEF KInv, Control, TypeOK, FlushMark, Writing, Written
<1>a. UNCHANGED mtVars => MemTableTypeOK'
  BY DEF mtVars, MemTableTypeOK
<1>1. CASE ForceCall
  BY <1>a, <1>1 DEF ForceCall, mtVars, wVars, fVars
<1>2. ASSUME NEW t \in Tables, ForceStep(t) PROVE KInv'
  <2>1. /\ mutable' \in [Tables -> BOOLEAN]
        /\ UNCHANGED <<store, size_in_bytes, on_flush>>
    BY <1>2 DEF ForceStep, SetMutable, MemTableTypeOK
  <2>2. /\ closing' \subseteq Tables
        /\ UNCHANGED <<chosen, wpc, wi, req, ret, locals, latest, emptied, fVars,
                       flush_sema, alive>>
    BY <1>2 DEF ForceStep
  <2>3. TypeOK'
    <3>1. MemTableTypeOK'
      BY <2>1 DEF MemTableTypeOK
    <3>2. paced' \in BOOLEAN
      BY <1>2, Zenon DEF ForceStep
    <3> QED BY <2>2, <3>1, <3>2 DEF fVars
  <2>4. Control'
    BY <2>2 DEF fVars, Writing, Written
  <2>5. FlushMark'
    BY <2>1, <2>2 DEF fVars
  <2> QED BY <2>3, <2>4, <2>5
<1> QED BY <1>1, <1>2 DEF Closer

LEMMA KInvStep == KInv /\ [CloseNext]_vars => KInv'
<1>1. ASSUME KInv, UNCHANGED vars PROVE KInv'
  BY <1>1 DEF KInv, TypeOK, MemTableTypeOK, Control, FlushMark, Writing, Written,
     vars, mtVars, wVars, fVars
<1>2. ASSUME KInv, StoreRace PROVE KInv'
  <2>1. UNCHANGED <<mtVars, wVars, fVars, flush_sema, closing>> /\ alive' \in BOOLEAN
    BY <1>2 DEF StoreRace, others
  <2>2. TypeOK'
    BY <1>2, <2>1 DEF KInv, TypeOK, MemTableTypeOK, mtVars, wVars, fVars
  <2>3. Control' /\ FlushMark'
    BY <1>2, <2>1 DEF KInv, Control, FlushMark, Writing, Written, mtVars, wVars, fVars
  <2> QED BY <2>2, <2>3 DEF KInv
<1>3. ASSUME KInv, EndFlushZeroLost PROVE KInv'
  BY <1>3, ZeroKInv DEF EndFlushZeroLost
<1> QED BY <1>1, <1>2, <1>3, WorkerKInv, FlusherKInv, CloserKInv
        DEF CloseNext, FlushNext

\* The types of all variables, in the program as built.
THEOREM BuiltTypes == Spec => []TypeOK
<1>1. KInv /\ [Next]_vars => KInv'
  BY KInvStep DEF Next, FlushNext, CloseNext
<1> QED BY KInvInit, <1>1, PTL DEF Spec, KInv

\* The flag on_flush_ of a memtable says exactly whether the flusher has it
\* as its target and has not cleared it, even while ForceReadyToDie closes
\* memtables behind the backs of both other threads.
THEOREM CloseFlushMark == CloseSpec => [](TypeOK /\ FlushMark)
BY KInvInit, KInvStep, PTL DEF CloseSpec, KInv


-----------------------------------------------------------------------------
(* Worker and flusher: no lost write, no lost signal *)

LEMMA FInvInit == Init => FInv
BY TablesFacts
DEF Init, InitMemTables, FInv, WriterAlone, NoLostSignal, ClosedIsFull,
    DumpIsCurrent, RecordFixed, TargetClosed, ReadAfterClear, SealedIsFull, Writing

\* The memtable a Get searches is one of the memtables.
LEMMA SearchedType ==
  ASSUME KInv, wpc \in {"search", "read"}
  PROVE  Searched \in Tables /\ Searched = usage_q[wi]
<1>1. usage_q[wi] \in Tables
  BY DEF KInv, TypeOK, Control
<1>2. ASSUME NEW x \in Tables PROVE x % MT_NUM = x
  BY TablesFacts DEF Tables
<1> QED BY <1>1, <1>2 DEF Searched

\* A worker's step that neither writes to a memtable nor lowers the flag.
LEMMA QuietWorkerFInv ==
  ASSUME FInv, UNCHANGED <<mtVars, fVars>>, flush_sema => flush_sema',
         SemaBound /\ wpc = "signal" => flush_sema',
         (Writing \/ wpc \in {"count", "full", "seal"})'
           => mutable[cur_mt'] /\ cur_mt' \in Tables,
         ReadAfterClear', SealedIsFull'
  PROVE  FInv'
<1> USE DEF FInv, mtVars, fVars
<1>1. WriterAlone'
  <2>1. cur_mt' \in Tables /\ mutable[cur_mt'] => flush_target # cur_mt'
    BY DEF TargetClosed
  <2> QED BY <2>1 DEF WriterAlone
<1>2. (SemaBound => NoLostSignal)'
  BY Zenon DEF NoLostSignal
<1>3. ClosedIsFull' /\ DumpIsCurrent' /\ RecordFixed' /\ TargetClosed'
  BY DEF ClosedIsFull, DumpIsCurrent, RecordFixed, TargetClosed
<1> QED BY <1>1, <1>2, <1>3

\* A worker's step that changes contents or size of memtables the flusher has
\* not got in hand, and no flag.
LEMMA StoringFInv ==
  ASSUME KInv, KInv', FInv, UNCHANGED <<mutable, on_flush, fVars, cur_mt, flush_sema>>,
         wpc # "signal",
         wpc' \in {"assign", "count", "full", "return"},
         Writing \/ wpc = "count" \/ wpc' = "return",
         \A t \in Tables :
           t = flush_target /\ fpc \notin {"zero", "reopen"} => store'[t] = store[t],
         \A t \in Tables : ~mutable[t] => size_in_bytes'[t] = size_in_bytes[t]
  PROVE  FInv'
<1> USE DEF FInv, fVars, Writing
<1>1. WriterAlone'
  BY DEF WriterAlone
<1>2. (SemaBound => NoLostSignal)'
  BY Zenon DEF NoLostSignal
<1>3. ClosedIsFull' /\ TargetClosed'
  BY DEF ClosedIsFull, TargetClosed
<1>4. DumpIsCurrent' /\ RecordFixed'
  BY DEF DumpIsCurrent, RecordFixed, KInv, Control
<1>5. ReadAfterClear' /\ SealedIsFull'
  BY DEF ReadAfterClear, SealedIsFull
<1> QED BY <1>1, <1>2, <1>3, <1>4, <1>5

LEMMA WorkerFInv ==
  ASSUME KInv, KInv', FInv, Worker
  PROVE  FInv'
<1> USE DEF Writing
<1>a. /\ cur_mt \in Tables
      /\ Writing \/ wpc \in {"count", "full", "seal"}
           => mutable[cur_mt] /\ flush_target # cur_mt
  BY DEF KInv, TypeOK, FInv, WriterAlone
<1>b. wpc' \notin {"read", "seal"} => ReadAfterClear' /\ SealedIsFull'
  BY DEF ReadAfterClear, SealedIsFull
<1>1. ASSUME NEW k \in Keys, GetCall(k) PROVE FInv'
  BY <1>b, <1>1, QuietWorkerFInv DEF GetCall
<1>2. ASSUME NEW k \in Keys, NEW v \in Values, PutCall(k, v) PROVE FInv'
  BY <1>a, <1>b, <1>2, QuietWorkerFInv DEF PutCall
<1>3. CASE PutScan
  <2>1. wi \in Tables
    BY <1>3, TablesFacts DEF PutScan, KInv, TypeOK, Tables
  <2>2. /\ wpc = "scan" /\ wpc' \in {"scan", "assert"}
        /\ wpc' = "assert" => mutable[cur_mt'] /\ cur_mt' \in Tables
    BY <1>3, <2>1 DEF PutScan
  <2> QED BY <1>b, <1>3, <2>2, QuietWorkerFInv DEF PutScan
<1>4. CASE PutReject
  BY <1>b, <1>4, QuietWorkerFInv DEF PutReject, RaiseSema, Return
<1>5. CASE PutAssert
  BY <1>a, <1>b, <1>5, QuietWorkerFInv DEF PutAssert
<1>6. CASE PutFind
  BY <1>a, <1>b, <1>6, QuietWorkerFInv DEF PutFind
<1>7. CASE PutOldSize \/ PutAssign
  <2>1. \A t \in Tables : t # cur_mt => store'[t] = store[t]
    BY <1>a, <1>7 DEF PutOldSize, PutAssign, SetEntry, KInv, TypeOK, MemTableTypeOK
  <2>2. /\ UNCHANGED <<size_in_bytes, mutable, on_flush, fVars, cur_mt, flush_sema>>
        /\ wpc \in {"size", "assign"} /\ wpc' \in {"assign", "count"}
    BY <1>7 DEF PutOldSize, PutAssign
  <2> QED BY <1>a, <2>1, <2>2, StoringFInv
<1>8. CASE PutCount
  <2>1. \A t \in Tables : t # cur_mt => size_in_bytes'[t] = size_in_bytes[t]
    BY <1>a, <1>8 DEF PutCount, SetSize, KInv, TypeOK, MemTableTypeOK
  <2>2. /\ UNCHANGED <<store, mutable, on_flush, fVars, cur_mt, flush_sema>>
        /\ wpc = "count" /\ wpc' \in {"full", "return"}
    BY <1>8 DEF PutCount, Return
  <2> QED BY <1>a, <2>1, <2>2, StoringFInv
<1>9. CASE PutFull
  <2>1. /\ wpc = "full" /\ wpc' \in {"seal", "return"}
        /\ UNCHANGED <<mtVars, fVars, flush_sema, cur_mt>>
        /\ wpc' = "seal" => size_in_bytes'[cur_mt'] >= MaxSize
    BY <1>9 DEF PutFull, Return, isFull, mtVars
  <2>2. ReadAfterClear' /\ SealedIsFull'
    BY <2>1 DEF ReadAfterClear, SealedIsFull
  <2> QED BY <1>a, <2>1, <2>2, QuietWorkerFInv
<1>10. CASE PutSeal
  <2>1. /\ \A t \in Tables : t # cur_mt => mutable'[t] = mutable[t]
        /\ UNCHANGED <<store, size_in_bytes, on_flush, fVars, cur_mt, flush_sema>>
        /\ wpc = "seal" /\ wpc' = "signal" /\ size_in_bytes[cur_mt] >= MaxSize
    BY <1>a, <1>10
    DEF PutSeal, SetMutable, KInv, TypeOK, MemTableTypeOK, FInv, SealedIsFull
  <2>2. WriterAlone' /\ TargetClosed' /\ DumpIsCurrent' /\ RecordFixed'
    BY <1>a, <2>1 DEF FInv, WriterAlone, TargetClosed, DumpIsCurrent, RecordFixed, fVars
  <2>3. (SemaBound => NoLostSignal)'
    BY <2>1 DEF NoLostSignal
  <2>4. ClosedIsFull'
    BY <2>1 DEF FInv, ClosedIsFull, fVars
  <2> QED BY <1>b, <2>1, <2>2, <2>3, <2>4 DEF FInv
<1>11. CASE PutSignal
  BY <1>b, <1>11, QuietWorkerFInv DEF PutSignal, RaiseSema, Return
<1>12. CASE GetFind
  <2>1. /\ UNCHANGED <<mtVars, fVars, flush_sema, cur_mt, usage_q, req>>
        /\ wpc = "search"
        /\ \/ wpc' = "read" /\ UNCHANGED wi /\ ~NewKey(Searched, req.key)
           \/ wpc' \in {"search", "return"}
    BY <1>12 DEF GetFind, Return
  <2>2. ReadAfterClear' /\ SealedIsFull'
    BY <2>1 DEF ReadAfterClear, SealedIsFull, Searched, NewKey, mtVars
  <2> QED BY <2>1, <2>2, QuietWorkerFInv
<1>13. CASE GetRead
  <2> DEFINE s == Searched
             k == req.key
  <2>1. /\ UNCHANGED <<size_in_bytes, mutable, on_flush, fVars, cur_mt, flush_sema>>
        /\ wpc = "read" /\ wpc' = "return" /\ s \in Tables
        /\ SetEntry(s, k, Entry(s, k)) /\ k \in Keys
    BY <1>13, SearchedType DEF GetRead, Return, KInv, Control, Gets
  <2>2. CASE ~NewKey(s, k)
    <3>1. store' = store
      BY <2>1, <2>2 DEF SetEntry, Entry, KInv, TypeOK, MemTableTypeOK
    <3> QED BY <2>1, <3>1, StoringFInv
  <2>3. CASE NewKey(s, k)
    <3>1. s = flush_target => fpc \in {"zero", "reopen"}
      BY <2>1, <2>3 DEF FInv, ReadAfterClear, TargetClosed
    <3>2. \A t \in Tables : t # s => store'[t] = store[t]
      BY <2>1 DEF SetEntry, KInv, TypeOK, MemTableTypeOK
    <3> HIDE DEF s
    <3> QED BY <2>1, <3>1, <3>2, StoringFInv
  <2> QED BY <2>2, <2>3
<1>14. CASE Answered
  BY <1>b, <1>14, QuietWorkerFInv DEF Answered
<1> QED BY <1>1, <1>2, <1>3, <1>4, <1>5, <1>6, <1>7, <1>8, <1>9, <1>10, <1>11,
           <1>12, <1>13, <1>14
        DEF Worker, Call, Inside

LEMMA FlusherFInv ==
  ASSUME KInv, FInv, Flusher
  PROVE  FInv'
<1> USE TablesFacts
    DEF KInv, TypeOK, MemTableTypeOK, Control, FInv, WriterAlone,
        DumpIsCurrent, RecordFixed, TargetClosed, SealedIsFull, Writing
<1>a. Searched \in Tables \/ wpc # "read"
  BY SearchedType
<1>b. UNCHANGED <<mtVars, wVars>> => /\ UNCHANGED Searched
                                     /\ NewKey(Searched, req.key)' = NewKey(Searched, req.key)
  BY DEF Searched, NewKey, mtVars, wVars
<1>1. CASE InitFlushCall
  BY <1>b, <1>1 DEF InitFlushCall, mtVars, wVars, NoLostSignal, ClosedIsFull,
     ReadAfterClear
<1>2. CASE InitFlushFind
  <2>1. ReadAfterClear'
    <3>1. /\ UNCHANGED <<store, mutable, wVars>> /\ fpc = "find" /\ flush_target = -1
      BY <1>2 DEF InitFlushFind, MTInitFlush, mtVars
    <3> QED BY <1>a, <3>1 DEF ReadAfterClear, Searched, NewKey, wVars
  <2>2. WriterAlone' /\ DumpIsCurrent' /\ RecordFixed' /\ TargetClosed' /\ SealedIsFull'
    BY <1>2 DEF InitFlushFind, MTInitFlush, CanFlush, mtVars, wVars
  <2>3. (SemaBound => NoLostSignal)' /\ ClosedIsFull'
    BY <1>2 DEF InitFlushFind, MTInitFlush, CanFlush, mtVars, wVars, NoLostSignal,
       ClosedIsFull
  <2> QED BY <2>1, <2>2, <2>3
<1>3. CASE InitFlushNone
  BY <1>b, <1>3 DEF InitFlushNone, mtVars, wVars, NoLostSignal, ClosedIsFull,
     ReadAfterClear
<1>4. CASE DumpRecord
  BY <1>b, <1>4 DEF DumpRecord, mtVars, wVars, NoLostSignal, ClosedIsFull,
     ReadAfterClear
<1>5. CASE EndFlushCall
  <2>1. RecordFixed'
    BY <1>5 DEF EndFlushCall, mtVars
  <2>2. WriterAlone' /\ DumpIsCurrent' /\ TargetClosed' /\ SealedIsFull' /\ ReadAfterClear'
    BY <1>b, <1>5 DEF EndFlushCall, mtVars, wVars, ReadAfterClear
  <2>3. (SemaBound => NoLostSignal)' /\ ClosedIsFull'
    BY <1>5 DEF EndFlushCall, mtVars, wVars, NoLostSignal, ClosedIsFull
  <2> QED BY <2>1, <2>2, <2>3
<1>6. CASE EndFlushClear
  <2>1. ReadAfterClear'
    <3>1. /\ UNCHANGED <<mutable, wVars, flush_target>> /\ fpc' = "zero"
          /\ flush_target \in Tables
          /\ \A t \in Tables : t # flush_target => store'[t] = store[t]
      BY <1>6 DEF EndFlushClear, MTClear
    <3> QED BY <1>6, <1>a, <3>1
            DEF EndFlushClear, ReadAfterClear, Searched, NewKey, wVars
  <2> QED BY <1>6, <2>1 DEF EndFlushClear, MTClear, wVars, NoLostSignal, ClosedIsFull
<1>7. CASE EndFlushZero
  <2>1. /\ UNCHANGED <<store, mutable, wVars, flush_target, dumped, flushed, flush_sema>>
        /\ fpc = "zero" /\ fpc' = "reopen" /\ flush_target \in Tables
        /\ \A t \in Tables : t # flush_target => size_in_bytes'[t] = size_in_bytes[t]
    BY <1>7 DEF EndFlushZero, MTZero, SetSize
  <2>2. ReadAfterClear'
    BY <2>1 DEF ReadAfterClear, Searched, NewKey, wVars
  <2>3. SealedIsFull'
    BY <2>1 DEF wVars
  <2> QED BY <2>1, <2>2, <2>3 DEF wVars, NoLostSignal, ClosedIsFull
<1>8. CASE EndFlushReopen
  <2>1. ReadAfterClear'
    <3>1. /\ UNCHANGED <<store, wVars>>
          /\ flush_target \in Tables /\ mutable'[flush_target]
          /\ \A t \in Tables : t # flush_target => mutable'[t] = mutable[t]
      BY <1>8 DEF EndFlushReopen, MTReopen, SetMutable
    <3> QED BY <1>a, <3>1 DEF ReadAfterClear, Searched, NewKey, wVars
  <2> QED BY <1>8, <2>1 DEF EndFlushReopen, MTReopen, SetMutable, wVars,
          NoLostSignal, ClosedIsFull
<1>9. CASE EndFlushReset
  BY <1>b, <1>9 DEF EndFlushReset, mtVars, wVars, NoLostSignal, ClosedIsFull, Tables,
     ReadAfterClear
<1>10. CASE EndFlushRecheck
  <2>1. WriterAlone' /\ DumpIsCurrent' /\ RecordFixed' /\ TargetClosed'
        /\ ClosedIsFull' /\ SealedIsFull' /\ ReadAfterClear'
    BY <1>b, <1>10 DEF EndFlushRecheck, mtVars, wVars, ClosedIsFull, ReadAfterClear
  <2>2. ASSUME SemaBound, NEW t \in Tables, ~mutable[t]
        PROVE  flush_sema' \/ wpc = "signal" \/ (fpc' = "recheck" /\ fi' <= t)
    <3>1. (flush_sema => flush_sema') /\ (~mutable[fi] => flush_sema')
      BY <1>10, Zenon DEF EndFlushRecheck
    <3>2. fi = t => flush_sema'
      BY <2>2, <3>1
    <3>3. fi <= t /\ fi # t => fpc' = "recheck" /\ fi' <= t
      BY <1>10, <2>2 DEF EndFlushRecheck, Tables
    <3>4. flush_sema \/ wpc = "signal" \/ fi <= t
      BY <1>10, <2>2 DEF EndFlushRecheck, NoLostSignal
    <3> QED BY <3>1, <3>2, <3>3, <3>4
  <2>3. UNCHANGED <<mutable, wpc>>
    BY <1>10 DEF EndFlushRecheck, mtVars, wVars
  <2> QED BY <2>1, <2>2, <2>3 DEF NoLostSignal
<1> QED BY <1>1, <1>2, <1>3, <1>4, <1>5, <1>6, <1>7, <1>8, <1>9, <1>10
        DEF Flusher, FlusherSteps

LEMMA FInvStep == KInv /\ FInv /\ [FlushNext]_vars => FInv'
<1> SUFFICES ASSUME KInv, FInv, [FlushNext]_vars PROVE FInv'
  OBVIOUS
<1>1. CASE UNCHANGED vars
  BY <1>1 DEF FInv, WriterAlone, NoLostSignal, ClosedIsFull, DumpIsCurrent,
     RecordFixed, TargetClosed, ReadAfterClear, SealedIsFull, Writing, Searched,
     NewKey, vars, mtVars, wVars, fVars
<1>2. CASE StoreRace
  BY <1>2 DEF StoreRace, FInv, WriterAlone, NoLostSignal, ClosedIsFull,
     DumpIsCurrent, RecordFixed, TargetClosed, ReadAfterClear, SealedIsFull,
     Writing, Searched, NewKey, mtVars, wVars, fVars
<1>3. KInv'
  BY KInvStep DEF CloseNext
<1> QED BY <1>1, <1>2, <1>3, WorkerFInv, FlusherFInv DEF FlushNext

\* As built, and with a flusher.
LEMMA ThreadsInvariant == Init /\ [][FlushNext]_vars => [](KInv /\ FInv)
<1>1. KInv /\ [FlushNext]_vars => KInv'
  BY KInvStep DEF CloseNext
<1> QED BY KInvInit, FInvInit, FInvStep, <1>1, PTL

\* assert(mutable_) in MemTable::Put never fires and no Put writes to the
\* memtable that is being flushed, in every interleaving with the flusher.
THEOREM FlushWriterAlone == FlushSpec => []WriterAlone
BY ThreadsInvariant, PTL DEF FlushSpec, FInv

\* No full memtable is left behind with flush_sema down, whichever way Put's
\* "*flush_sema = true" races with EndFlush's "*flush_sema = false".
THEOREM FlushNoLostSignal == FlushSpec => []NoLostSignal
<1>1. SemaBound /\ FInv => NoLostSignal
  BY DEF FInv
<1>2. SemaBound => SemaBound'
  OBVIOUS
<1> QED BY ThreadsInvariant, <1>1, <1>2, PTL DEF FlushSpec

\* Only full memtables are closed to writes.
THEOREM FlushClosedIsFull == FlushSpec => []ClosedIsFull
BY ThreadsInvariant, PTL DEF FlushSpec, FInv

\* The steps that change what a memtable holds.
LEMMA StoreSteps ==
  ASSUME [FlushNext]_vars
  PROVE  PutOldSize \/ PutAssign \/ GetRead \/ EndFlushClear \/ UNCHANGED store
BY DEF FlushNext, Worker, Call, Inside, Flusher, FlusherSteps, vars, mtVars,
   GetCall, PutCall, PutScan, PutReject, PutAssert, PutFind, PutCount, SetSize,
   PutFull, PutSeal, PutSignal, GetFind, Answered, StoreRace, InitFlushCall,
   InitFlushFind, InitFlushNone, MTInitFlush, DumpRecord, EndFlushCall,
   EndFlushZero, MTZero, EndFlushReopen, MTReopen, SetMutable, EndFlushReset,
   EndFlushRecheck

\* EndFlush's clear() erases nothing that is not in the record just fixed.
THEOREM FlushClearedIsDurable == FlushSpec => ClearedIsDurable
<1> DEFINE Safe == \A t \in Tables, k \in Keys :
                     store[t][k] # NoValue /\ store'[t][k] = NoValue
                       => flushed[k] = store[t][k]
<1>1. ASSUME KInv, FInv, EndFlushClear PROVE Safe
  BY <1>1 DEF EndFlushClear, MTClear, KInv, TypeOK, MemTableTypeOK, Control,
     FInv, RecordFixed
<1>2. ASSUME KInv, NEW s \in Tables, NEW k \in Keys, NEW v, v # NoValue,
             SetEntry(s, k, v)
      PROVE  Safe
  BY <1>2 DEF SetEntry, KInv, TypeOK, MemTableTypeOK
<1>3. ASSUME KInv, PutOldSize \/ PutAssign \/ GetRead PROVE Safe
  <2>1. CASE PutOldSize \/ PutAssign
    <3>1. /\ cur_mt \in Tables /\ req.key \in Keys
          /\ \/ SetEntry(cur_mt, req.key, Entry(cur_mt, req.key))
             \/ SetEntry(cur_mt, req.key, req.val) /\ req.val # NoValue
      BY <2>1, <1>3, MemTableAssumption
      DEF PutOldSize, PutAssign, KInv, TypeOK, Control, Writing, Puts
    <3> HIDE DEF Safe
    <3> QED BY <1>2, <1>3, <3>1, EntryType DEF KInv
  <2>2. CASE GetRead
    <3>1. /\ Searched \in Tables /\ req.key \in Keys
          /\ SetEntry(Searched, req.key, Entry(Searched, req.key))
      BY <2>2, <1>3, SearchedType DEF GetRead, KInv, Control, Gets
    <3> HIDE DEF Safe
    <3> QED BY <1>2, <1>3, <3>1, EntryType DEF KInv
  <2> QED BY <1>3, <2>1, <2>2
<1>4. KInv /\ FInv /\ [FlushNext]_vars => [Safe]_vars
  <2>1. UNCHANGED store => Safe
    OBVIOUS
  <2> HIDE DEF Safe
  <2> QED BY <1>1, <1>3, <2>1, StoreSteps
<1> QED BY ThreadsInvariant, <1>4, PTL DEF FlushSpec, ClearedIsDurable

-----------------------------------------------------------------------------
(* Sizes *)

\* What the locals of MemTable::Put say of the memtable it writes to.
Locals ==
  /\ wpc = "size" => ~new_key /\ ~NewKey(cur_mt, req.key)
  /\ wpc = "assign" =>
       /\ new_key = NewKey(cur_mt, req.key)
       /\ ~new_key => old_sz = ValSize[store[cur_mt][req.key]]

\* A memtable with a key that a Get has put there uncounted.
Uncounted(t) == \E k \in emptied : ~NewKey(t, k)

\* What size_in_bytes_ is about to be is the size of the contents.
Owed ==
  wpc = "count" =>
    \/ Uncounted(cur_mt)
    \/ SizeAfterPut(cur_mt, req.key, req.val, new_key, old_sz)
         = SumFunction(Bytes(cur_mt)) % SizeMod

\* What a cleared memtable holds has been put there by a Get.
Cleared ==
  fpc \in {"zero", "reopen"} =>
    \A k \in Keys : store[flush_target][k] # NoValue => k \in emptied

SInv == SizeExact /\ Locals /\ Owed /\ Cleared

\* The sizes added up are numbers.
LEMMA BytesType == TypeOK => \A t \in Tables : Bytes(t) \in [Keys -> Int]
<1> SUFFICES ASSUME TypeOK, NEW t \in Tables, NEW k \in Keys
             PROVE  (IF NewKey(t, k) THEN 0
                     ELSE KeySize[k] + ValSize[store[t][k]]) \in Int
  BY DEF Bytes
<1>1. store[t][k] \in Maybe /\ KeySize[k] \in Int
  BY MemTableAssumption DEF TypeOK, MemTableTypeOK
<1>2. ~NewKey(t, k) => ValSize[store[t][k]] \in Int
  BY <1>1, MemTableAssumption DEF NewKey, Maybe
<1> QED BY <1>1, <1>2

\* The same of the next state.
LEMMA BytesTypeNext ==
  TypeOK' => (\A t \in Tables : Bytes(t) \in [Keys -> Int])'
BY BytesType, PTL

\* The contents of a memtable without keys have size 0.
LEMMA NoBytes ==
  ASSUME NEW t, \A k \in Keys : store[t][k] = NoValue
  PROVE  SumFunction(Bytes(t)) % SizeMod = 0
<1>1. Bytes(t) \in [Keys -> Int] /\ \A k \in Keys : Bytes(t)[k] = 0
  BY DEF Bytes, NewKey
<1>2. SumFunction(Bytes(t)) = 0
  BY <1>1, KeysFinite, SumZero
<1>3. 0 \in 0 .. SizeMod - 1 /\ SizeMod \in Nat \ {0}
  BY MemTableAssumption
<1>4. 0 % SizeMod = 0
  BY <1>3, ModSmall
<1> QED BY <1>2, <1>4

LEMMA SInvInit == Init => SInv
<1> SUFFICES ASSUME Init PROVE SInv
  OBVIOUS
<1>1. \A t \in Tables : /\ size_in_bytes[t] = 0
                        /\ \A k \in Keys : store[t][k] = NoValue
  BY DEF Init, InitMemTables, EmptyStore
<1>2. SizeExact
  BY <1>1, NoBytes DEF SizeExact
<1> QED BY <1>2 DEF Init, SInv, Locals, Owed, Cleared

\* Put adds to the size, in the end, what its write has added to the
\* contents, modulo 2^64.
LEMMA AssignOwes ==
  ASSUME TypeOK, TypeOK', NEW s \in Tables, NEW k \in Keys, NEW v \in Values,
         SetEntry(s, k, v), UNCHANGED <<size_in_bytes, new_key, old_sz>>,
         new_key = NewKey(s, k), ~new_key => old_sz = ValSize[store[s][k]],
         size_in_bytes[s] = SumFunction(Bytes(s)) % SizeMod
  PROVE  SizeAfterPut(s, k, v, new_key, old_sz)' = SumFunction(Bytes(s)') % SizeMod
<1> DEFINE f == Bytes(s)
           g == Bytes(s)'
           d == IF new_key THEN KeySize[k] + ValSize[v] ELSE ValSize[v] - old_sz
<1>1. store'[s] = [store[s] EXCEPT ![k] = v]
  BY DEF SetEntry, TypeOK, MemTableTypeOK
<1>2. f \in [Keys -> Int]
  BY BytesType
<1>3. g \in [Keys -> Int]
  <2>1. (\A u \in Tables : Bytes(u) \in [Keys -> Int])'
    BY BytesTypeNext
  <2> QED BY <2>1
<1>4. \A x \in Keys : x # k => g[x] = f[x]
  BY <1>1 DEF Bytes, NewKey, TypeOK, MemTableTypeOK
<1>5. /\ KeySize[k] \in Int /\ ValSize[v] \in Int /\ SizeMod \in Nat \ {0}
      /\ size_in_bytes[s] \in Int
  BY MemTableAssumption DEF TypeOK, MemTableTypeOK
<1>6. f[k] = IF NewKey(s, k) THEN 0 ELSE KeySize[k] + ValSize[store[s][k]]
  BY DEF Bytes
<1>7. g[k] = KeySize[k] + ValSize[v]
  <2>1. store'[s][k] = v /\ v # NoValue
    BY <1>1, MemTableAssumption DEF TypeOK, MemTableTypeOK
  <2> QED BY <2>1 DEF Bytes, NewKey
<1>8. ~NewKey(s, k) => ValSize[store[s][k]] \in Int
  BY MemTableAssumption DEF TypeOK, MemTableTypeOK, NewKey, Maybe
<1>a. SizeAfterPut(s, k, v, new_key, old_sz)'
        = (size_in_bytes[s] + d) % SizeMod
  BY DEF SizeAfterPut
<1> HIDE DEF f, g
<1>9. /\ SumFunction(f) \in Int
      /\ SumFunction(g) = SumFunction(f) + (g[k] - f[k])
  BY <1>2, <1>3, <1>4, KeysFinite, SumChange
<1>10. d \in Int /\ d = g[k] - f[k]
  <2>1. CASE NewKey(s, k)
    BY <1>5, <1>6, <1>7, <2>1
  <2>2. CASE ~NewKey(s, k)
    BY <1>5, <1>6, <1>7, <1>8, <2>2
  <2> QED BY <2>1, <2>2
<1> HIDE DEF d
<1>11. ((SumFunction(f) % SizeMod) + d) % SizeMod
         = (SumFunction(f) + d) % SizeMod
  BY <1>5, <1>9, <1>10, ModKeeps
<1>12. size_in_bytes[s] = SumFunction(f) % SizeMod
  BY DEF f
<1>13. SizeAfterPut(s, k, v, new_key, old_sz)' = SumFunction(g) % SizeMod
  BY <1>9, <1>10, <1>11, <1>12, <1>a
<1> QED BY <1>13 DEF g

\* A step that changes neither contents nor sizes, and is not one of those
\* between the change of the one and that of the other.
LEMMA QuietSInv ==
  ASSUME SInv, UNCHANGED <<store, size_in_bytes, emptied>>,
         \/ UNCHANGED <<wpc, cur_mt, req, new_key, old_sz>>
         \/ wpc # "count" /\ wpc' \notin {"size", "assign", "count"},
         \/ UNCHANGED <<fpc, flush_target>>
         \/ fpc # "zero" /\ fpc' \notin {"zero", "reopen"}
  PROVE  SInv'
<1> USE DEF SInv
<1>1. /\ \A t \in Tables : Bytes(t)' = Bytes(t) /\ Uncounted(t)' = Uncounted(t)
      /\ \A t \in Tables, k \in Keys : NewKey(t, k)' = NewKey(t, k)
  BY DEF Bytes, NewKey, Uncounted
<1>2. SizeExact'
  BY <1>1 DEF SizeExact, Uncounted
<1>3. Locals'
  BY DEF Locals, NewKey
<1>4. Owed'
  BY DEF Owed, Uncounted, Bytes, NewKey, SizeAfterPut
<1>5. Cleared'
  BY DEF Cleared
<1> QED BY <1>2, <1>3, <1>4, <1>5

LEMMA WorkerSInv ==
  ASSUME KInv, KInv', FInv, SInv, Worker
  PROVE  SInv'
<1>a. /\ TypeOK /\ TypeOK' /\ cur_mt \in Tables
      /\ Writing \/ wpc = "count" => flush_target # cur_mt
  BY DEF KInv, TypeOK, FInv, WriterAlone
<1>1. CASE PutFind
  <2>1. /\ UNCHANGED <<store, size_in_bytes, emptied, cur_mt, req, old_sz, fpc, flush_target>>
        /\ wpc = "find" /\ new_key' = NewKey(cur_mt, req.key)
        /\ wpc' = IF NewKey(cur_mt, req.key) THEN "assign" ELSE "size"
    BY <1>1 DEF PutFind, mtVars, fVars
  <2>2. NewKey(cur_mt, req.key)' = NewKey(cur_mt, req.key)
    BY <2>1 DEF NewKey
  <2>3. Locals'
    <3>1. CASE NewKey(cur_mt, req.key)
      BY <2>1, <2>2, <3>1 DEF Locals
    <3>2. CASE ~NewKey(cur_mt, req.key)
      BY <2>1, <2>2, <3>2 DEF Locals
    <3> QED BY <3>1, <3>2
  <2>4. SizeExact' /\ Cleared' /\ Owed'
    BY <2>1 DEF SInv, SizeExact, Cleared, Owed, Bytes, NewKey
  <2> QED BY <2>3, <2>4 DEF SInv
<1>2. CASE PutOldSize
  <2>1. /\ UNCHANGED <<size_in_bytes, emptied, cur_mt, req, new_key, fpc, flush_target>>
        /\ wpc = "size" /\ wpc' = "assign" /\ ~new_key /\ ~NewKey(cur_mt, req.key)
        /\ req.key \in Keys /\ old_sz' = ValSize[store[cur_mt][req.key]]
        /\ SetEntry(cur_mt, req.key, store[cur_mt][req.key])
    BY <1>2 DEF PutOldSize, fVars, SInv, Locals, Entry, KInv, Control, Writing, Puts
  <2>2. store' = store
    BY <1>a, <2>1 DEF SetEntry, TypeOK, MemTableTypeOK
  <2>3. Locals'
    <3>1. new_key = FALSE /\ NewKey(cur_mt, req.key)' = FALSE
      BY <2>1, <2>2 DEF NewKey, KInv, TypeOK
    <3> QED BY <2>1, <2>2, <3>1 DEF Locals
  <2>4. SizeExact' /\ Cleared' /\ Owed'
    BY <2>1, <2>2 DEF SInv, SizeExact, Cleared, Owed, Bytes, NewKey
  <2> QED BY <2>3, <2>4 DEF SInv
<1>3. CASE PutAssign
  <2> DEFINE k == req.key
             v == req.val
  <2>1. /\ UNCHANGED <<size_in_bytes, emptied, cur_mt, req, new_key, old_sz, fpc, flush_target>>
        /\ wpc = "assign" /\ wpc' = "count" /\ k \in Keys /\ v \in Values
        /\ SetEntry(cur_mt, k, v) /\ flush_target # cur_mt
        /\ new_key = NewKey(cur_mt, k)
        /\ ~new_key => old_sz = ValSize[store[cur_mt][k]]
    BY <1>3, <1>a
    DEF PutAssign, fVars, SInv, Locals, KInv, Control, Writing, Puts
  <2>2. /\ \A t \in Tables : t # cur_mt => store'[t] = store[t]
        /\ \A j \in Keys : j # k => store'[cur_mt][j] = store[cur_mt][j]
        /\ store'[cur_mt][k] = v /\ v # NoValue
    BY <1>a, <2>1, MemTableAssumption DEF SetEntry, TypeOK, MemTableTypeOK
  <2>3. SizeExact'
    <3> SUFFICES ASSUME NEW t \in Tables, t # cur_mt
                 PROVE  \/ fpc = "zero" /\ flush_target = t
                        \/ \E j \in emptied : ~NewKey(t, j)'
                        \/ size_in_bytes[t] = SumFunction(Bytes(t)') % SizeMod
      BY <2>1 DEF SizeExact
    <3>1. Bytes(t)' = Bytes(t) /\ \A j \in Keys : NewKey(t, j)' = NewKey(t, j)
      BY <2>2 DEF Bytes, NewKey
    <3> QED BY <1>a, <2>1, <3>1 DEF SInv, SizeExact, TypeOK
  <2>4. Locals' /\ Cleared'
    BY <2>1, <2>2 DEF Locals, SInv, Cleared, KInv, Control
  <2>5. Owed'
    <3>1. CASE Uncounted(cur_mt)'
      BY <2>1, <3>1 DEF Owed
    <3>2. CASE ~Uncounted(cur_mt)'
      <4>1. ASSUME NEW j \in emptied PROVE NewKey(cur_mt, j)
        <5>1. NewKey(cur_mt, j)'
          BY <2>1, <3>2 DEF Uncounted
        <5>2. j \in Keys /\ j # k
          BY <1>a, <2>1, <2>2, <5>1 DEF TypeOK, NewKey
        <5> QED BY <2>1, <2>2, <5>1, <5>2 DEF NewKey
      <4>2. size_in_bytes[cur_mt] = SumFunction(Bytes(cur_mt)) % SizeMod
        BY <1>a, <2>1, <4>1 DEF SInv, SizeExact
      <4> HIDE DEF k, v
      <4>3. SizeAfterPut(cur_mt, k, v, new_key, old_sz)'
              = SumFunction(Bytes(cur_mt)') % SizeMod
        BY <1>a, <2>1, <4>2, AssignOwes DEF k, v
      <4> QED BY <2>1, <4>3 DEF Owed, k, v
    <3> QED BY <3>1, <3>2
  <2> QED BY <2>3, <2>4, <2>5 DEF SInv
<1>4. CASE PutCount
  <2>1. /\ UNCHANGED <<store, emptied, cur_mt, fpc, flush_target>>
        /\ wpc = "count" /\ wpc' \in {"full", "return"} /\ flush_target # cur_mt
        /\ size_in_bytes'[cur_mt] = SizeAfterPut(cur_mt, req.key, req.val, new_key, old_sz)
        /\ \A t \in Tables : t # cur_mt => size_in_bytes'[t] = size_in_bytes[t]
    BY <1>4, <1>a DEF PutCount, SetSize, Return, fVars, TypeOK, MemTableTypeOK
  <2>2. SizeExact'
    <3>1. ASSUME NEW t \in Tables PROVE Bytes(t)' = Bytes(t)
      BY <2>1 DEF Bytes, NewKey
    <3> QED BY <2>1, <3>1 DEF SInv, SizeExact, Owed, Uncounted, NewKey
  <2> QED BY <2>1, <2>2 DEF SInv, Locals, Owed, Cleared
<1>5. CASE GetRead
  <2> DEFINE s == Searched
             k == req.key
  <2>1. /\ UNCHANGED <<size_in_bytes, cur_mt, fpc, flush_target>>
        /\ wpc = "read" /\ wpc' = "return" /\ s \in Tables /\ k \in Keys
        /\ SetEntry(s, k, Entry(s, k)) /\ Entry(s, k) # NoValue
        /\ emptied \subseteq emptied' /\ (NewKey(s, k) => k \in emptied')
    BY <1>5, <1>a, SearchedType, EntryType
    DEF GetRead, Return, fVars, KInv, Control, Gets
  <2>2. CASE ~NewKey(s, k)
    <3>1. store' = store
      BY <1>a, <2>1, <2>2 DEF SetEntry, Entry, TypeOK, MemTableTypeOK
    <3>2. emptied' = emptied
      BY <1>5, <2>2 DEF GetRead
    <3> QED BY <2>1, <3>1, <3>2, QuietSInv
  <2>3. CASE NewKey(s, k)
    <3> HIDE DEF s, k
    <3>1. /\ \A t \in Tables : t # s => store'[t] = store[t]
          /\ \A j \in Keys : j # k => store'[s][j] = store[s][j]
          /\ store'[s][k] # NoValue
      BY <1>a, <2>1 DEF SetEntry, TypeOK, MemTableTypeOK
    <3>2. SizeExact'
      <4> SUFFICES ASSUME NEW t \in Tables
                   PROVE  \/ fpc = "zero" /\ flush_target = t
                          \/ \E j \in emptied' : ~NewKey(t, j)'
                          \/ size_in_bytes[t] = SumFunction(Bytes(t)') % SizeMod
        BY <2>1 DEF SizeExact
      <4>1. CASE t = s
        BY <2>1, <2>3, <3>1, <4>1 DEF NewKey
      <4>2. CASE t # s
        <5>1. Bytes(t)' = Bytes(t) /\ \A j \in Keys : NewKey(t, j)' = NewKey(t, j)
          BY <3>1, <4>2 DEF Bytes, NewKey
        <5> QED BY <1>a, <2>1, <5>1 DEF SInv, SizeExact, TypeOK
      <4> QED BY <4>1, <4>2
    <3>3. Cleared'
      BY <2>1, <2>3, <3>1 DEF SInv, Cleared, KInv, Control
    <3> QED BY <2>1, <3>2, <3>3 DEF SInv, Locals, Owed
  <2> QED BY <2>2, <2>3
<1>6. CASE Call \/ PutScan \/ PutReject \/ PutAssert \/ PutFull \/ PutSeal
           \/ PutSignal \/ GetFind \/ Answered
  <2>1. /\ UNCHANGED <<store, size_in_bytes, emptied, fpc, flush_target>>
        /\ \/ UNCHANGED <<wpc, cur_mt, req, new_key, old_sz>>
           \/ wpc # "count" /\ wpc' \notin {"size", "assign", "count"}
    BY <1>6 DEF Call, GetCall, PutCall, PutScan, PutReject, PutAssert, PutFull,
       PutSeal, SetMutable, PutSignal, GetFind, Answered, Return, mtVars, fVars
  <2> QED BY <2>1, QuietSInv
<1> QED BY <1>1, <1>2, <1>3, <1>4, <1>5, <1>6 DEF Worker, Inside

LEMMA FlusherSInv ==
  ASSUME KInv, FInv, SInv, Flusher
  PROVE  SInv'
<1>a. /\ TypeOK /\ cur_mt \in Tables
      /\ Writing \/ wpc = "count" => flush_target # cur_mt
  BY DEF KInv, TypeOK, FInv, WriterAlone
<1>1. CASE EndFlushClear
  <2>1. /\ UNCHANGED <<size_in_bytes, wpc, cur_mt, req, locals, emptied, flush_target>>
        /\ fpc = "clear" /\ fpc' = "zero" /\ flush_target \in Tables
        /\ \A k \in Keys : store'[flush_target][k] = NoValue
        /\ \A t \in Tables : t # flush_target => store'[t] = store[t]
    BY <1>1 DEF EndFlushClear, MTClear, wVars, KInv, Control, TypeOK, MemTableTypeOK,
       EmptyStore
  <2>2. \A t \in Tables : t # flush_target =>
          /\ Bytes(t)' = Bytes(t)
          /\ \A k \in Keys : NewKey(t, k)' = NewKey(t, k)
    BY <2>1 DEF Bytes, NewKey
  <2>3. SizeExact'
    <3> SUFFICES ASSUME NEW t \in Tables, t # flush_target
                 PROVE  \/ wpc = "count" /\ cur_mt = t
                        \/ \E j \in emptied : ~NewKey(t, j)'
                        \/ size_in_bytes[t] = SumFunction(Bytes(t)') % SizeMod
      BY <2>1 DEF SizeExact
    <3> QED BY <1>a, <2>1, <2>2 DEF SInv, SizeExact, TypeOK
  <2>4. Locals' /\ Owed'
    <3>1. Writing \/ wpc = "count" =>
            /\ Bytes(cur_mt)' = Bytes(cur_mt)
            /\ store'[cur_mt] = store[cur_mt]
      BY <1>a, <2>1, <2>2
    <3>2. Locals'
      BY <2>1, <3>1 DEF SInv, Locals, Writing, NewKey
    <3>3. Owed'
      BY <2>1, <3>1 DEF SInv, Owed, Uncounted, SizeAfterPut, NewKey
    <3> QED BY <3>2, <3>3
  <2>5. Cleared'
    BY <2>1 DEF Cleared
  <2> QED BY <2>3, <2>4, <2>5 DEF SInv
<1>2. CASE EndFlushZero
  <2>1. /\ UNCHANGED <<store, wpc, cur_mt, req, locals, emptied, flush_target>>
        /\ fpc = "zero" /\ fpc' = "reopen" /\ flush_target \in Tables
        /\ size_in_bytes'[flush_target] = 0
        /\ \A t \in Tables : t # flush_target => size_in_bytes'[t] = size_in_bytes[t]
    BY <1>2 DEF EndFlushZero, MTZero, SetSize, wVars, KInv, Control, TypeOK, MemTableTypeOK
  <2>2. \A t \in Tables : Bytes(t)' = Bytes(t)
                          /\ \A k \in Keys : NewKey(t, k)' = NewKey(t, k)
    BY <2>1 DEF Bytes, NewKey
  <2>3. SizeExact'
    <3>1. CASE Uncounted(flush_target)
      BY <2>1, <2>2, <3>1 DEF SInv, SizeExact, Uncounted, KInv, TypeOK
    <3>2. CASE ~Uncounted(flush_target)
      <4>1. \A k \in Keys : store[flush_target][k] = NoValue
        BY <2>1, <3>2 DEF SInv, Cleared, Uncounted, NewKey
      <4>2. SumFunction(Bytes(flush_target)) % SizeMod = 0
        BY <4>1, NoBytes
      <4> QED BY <2>1, <2>2, <4>2 DEF SInv, SizeExact, KInv, TypeOK
    <3> QED BY <3>1, <3>2
  <2>4. Locals'
    BY <2>1 DEF SInv, Locals, NewKey
  <2>5. Owed'
    BY <1>a, <2>1, <2>2 DEF SInv, Owed, Uncounted, SizeAfterPut, NewKey
  <2>6. Cleared'
    BY <2>1 DEF SInv, Cleared
  <2> QED BY <2>3, <2>4, <2>5, <2>6 DEF SInv
<1>3. CASE InitFlushCall \/ InitFlushFind \/ InitFlushNone \/ DumpRecord \/ EndFlushCall
           \/ EndFlushReopen \/ EndFlushReset \/ EndFlushRecheck
  <2>1. /\ UNCHANGED <<store, size_in_bytes, emptied, wpc, cur_mt, req, new_key, old_sz>>
        /\ \/ UNCHANGED <<fpc, flush_target>>
           \/ fpc # "zero" /\ fpc' \notin {"zero", "reopen"}
    BY <1>3 DEF InitFlushCall, InitFlushFind, MTInitFlush, InitFlushNone, DumpRecord,
       EndFlushCall, EndFlushReopen, MTReopen, SetMutable, EndFlushReset,
       EndFlushRecheck, mtVars, wVars
  <2> QED BY <2>1, QuietSInv
<1> QED BY <1>1, <1>2, <1>3 DEF Flusher, FlusherSteps

LEMMA SizesInvariant == Init /\ [][FlushNext]_vars => [](KInv /\ FInv /\ SInv)
<1>1. ASSUME KInv, FInv, SInv, [FlushNext]_vars PROVE SInv'
  <2>1. KInv'
    BY <1>1, KInvStep DEF CloseNext
  <2>2. CASE UNCHANGED vars \/ StoreRace
    <3>1. UNCHANGED <<store, size_in_bytes, emptied, wpc, cur_mt, req, new_key, old_sz,
                      fpc, flush_target>>
      BY <2>2 DEF StoreRace, vars, mtVars, wVars, fVars
    <3> QED BY <1>1, <3>1, QuietSInv
  <2> QED BY <1>1, <2>1, <2>2, WorkerSInv, FlusherSInv DEF FlushNext
<1> QED BY ThreadsInvariant, SInvInit, <1>1, PTL

\* size_in_bytes_ is the number of bytes in store_ whenever neither is being
\* changed, even when an overwrite's difference wraps: in the program as
\* built and with a flusher, but for the memtables in which a Get has
\* inserted a key.
THEOREM SizesAreExact == Spec \/ FlushSpec => []SizeExact
<1>1. [Next]_vars => [FlushNext]_vars
  BY DEF Next, FlushNext
<1> QED BY SizesInvariant, <1>1, PTL DEF Spec, FlushSpec, SInv

-----------------------------------------------------------------------------
(***************************************************************************)
(* As long as the flusher has kept pace KVStore loses no write and answers *)
(* every read with the last one, but for the keys a Get has inserted.      *)
(*                                                                         *)
(* The argument: only two memtables can hold data, the current one and one *)
(* that is full.  The full one sits right behind the current one in        *)
(* usage_q, where a search meets it second, and holds the older data.      *)
(***************************************************************************)

\* A second memtable is never full while the first waits to be flushed.
OneClosed ==
  \A s, t \in Tables : ~mutable[s] /\ ~mutable[t] => s = t

Live == Keys \ emptied
Empty(t) == \A k \in Live : store[t][k] = NoValue

\* Writable memtables other than the current one are empty, and so is one
\* that was reopened while a Put was looking for space.
EmptyUnlessUsed ==
  /\ \A t \in Tables : t # cur_mt /\ mutable[t] => Empty(t)
  /\ wpc = "scan" /\ mutable[cur_mt] => Empty(cur_mt)
  /\ fpc \in {"zero", "reopen"} => Empty(flush_target)

\* While a Put looks for space all memtables but the current are writable.
ScanAlone == wpc = "scan" => \A t \in Tables : t # cur_mt => mutable[t]

\* The current memtable is last in usage_q, a full one just before it.
Order ==
  LET n == Len(usage_q)
  IN /\ usage_q[n] = cur_mt
     /\ \A t \in Tables :
          t # cur_mt /\ ~mutable[t] => n > 1 /\ usage_q[n - 1] = t

\* Where the last value of a key is: in the current memtable, or else in any
\* that has the key, or else in the persistent store.
LatestIs ==
  \A k \in Live :
    /\ store[cur_mt][k] # NoValue => latest[k] = store[cur_mt][k]
    /\ store[cur_mt][k] = NoValue =>
         \A t \in Tables : store[t][k] # NoValue => latest[k] = store[t][k]
    /\ (\A t \in Tables : store[t][k] = NoValue) => latest[k] = flushed[k]

\* What a Get in progress has seen, and what it has concluded.
Search ==
  req.key \in Live =>
    /\ wpc \in {"search", "read"} =>
         \A j \in wi + 1 .. Len(usage_q) : store[usage_q[j]][req.key] = NoValue
    /\ wpc = "return" /\ req.op = "get" =>
         /\ req \in Gets
         /\ \/ ret.status = "READ_PASS" /\ ret.val = latest[req.key]
            \/ /\ ret.status = "READ_FAIL"
               /\ \A t \in Tables : store[t][req.key] = NoValue

PInv == OneClosed /\ EmptyUnlessUsed /\ ScanAlone /\ Order /\ LatestIs /\ Search

-----------------------------------------------------------------------------
LEMMA PInvInit == Init => PInv
BY TablesFacts
DEF Init, InitMemTables, PInv, EmptyUnlessUsed, ScanAlone, Order, LatestIs,
    Search, Empty, EmptyStore, OneClosed, Live

\* All entries of usage_q are indices, so that "% MT_NUM" changes nothing.
LEMMA ModIsIdentity ==
  ASSUME KInv, NEW i \in 1 .. Len(usage_q)
  PROVE  usage_q[i] \in Tables /\ usage_q[i] % MT_NUM = usage_q[i]
<1>1. usage_q[i] \in Tables
  BY DEF KInv, TypeOK
<1>2. ASSUME NEW x \in Tables PROVE x % MT_NUM = x
  BY TablesFacts DEF Tables
<1> QED BY <1>1, <1>2

\* Every memtable that holds such a key is in usage_q.
LEMMA HoldersSearched ==
  ASSUME KInv, PInv, NEW t \in Tables, NEW k \in Live, store[t][k] # NoValue
  PROVE  \E i \in 1 .. Len(usage_q) : usage_q[i] = t
<1>1. CASE t = cur_mt
  BY <1>1 DEF KInv, TypeOK, PInv, Order
<1>2. CASE t # cur_mt
  <2>1. ~mutable[t]
    BY <1>2 DEF PInv, EmptyUnlessUsed, Empty
  <2> QED BY <1>2, <2>1 DEF KInv, TypeOK, PInv, Order
<1> QED BY <1>1, <1>2

\* Where Pushed leaves the two newest entries.
LEMMA PushedEnd ==
  ASSUME KInv, NEW t \in Tables
  PROVE  LET n == Len(Pushed(t))
         IN /\ n \in Nat /\ Pushed(t)[n] = t
            /\ MT_NUM > 1 => n > 1 /\ Pushed(t)[n - 1] = usage_q[Len(usage_q)]
<1> DEFINE q == Append(usage_q, t)
           m == Len(q)
<1>1. /\ q \in Seq(Tables) /\ m = Len(usage_q) + 1 /\ m \in 2 .. MT_NUM + 1
      /\ q[m] = t /\ q[m - 1] = usage_q[Len(usage_q)]
  BY TablesFacts DEF KInv, TypeOK
<1>2. CASE m > MT_NUM
  <2>1. m - MT_NUM + 1 = 2 /\ m \in Int /\ \A i \in 2 .. m : q[i] \in Tables
    BY <1>1, <1>2, TablesFacts
  <2>2. Pushed(t) = SubSeq(q, 2, m)
    BY <1>2, <2>1 DEF Pushed
  <2>3. /\ Len(SubSeq(q, 2, m)) = m - 1
        /\ \A i \in 1 .. m - 1 : SubSeq(q, 2, m)[i] = q[i + 1]
    <3> HIDE DEF q, m
    <3>1. /\ Len(SubSeq(q, 2, m)) = IF 2 <= m THEN m - 2 + 1 ELSE 0
          /\ \A i \in 1 .. m - 2 + 1 : SubSeq(q, 2, m)[i] = q[2 + i - 1]
      BY <2>1, SubSeqProperties
    <3> QED BY <1>1, <3>1
  <2> HIDE DEF q, m
  <2> QED BY <1>1, <1>2, <2>2, <2>3, TablesFacts
<1>3. CASE ~(m > MT_NUM)
  BY <1>1, <1>3 DEF Pushed
<1> QED BY <1>2, <1>3

-----------------------------------------------------------------------------
LEMMA WorkerPInv ==
  ASSUME KInv, KInv', FInv, SInv, PInv, paced', Worker
  PROVE  PInv'
<1> USE DEF PInv, OneClosed, EmptyUnlessUsed, Empty, ScanAlone, Order, LatestIs,
        Search
<1>1. ASSUME NEW k \in Keys, GetCall(k) PROVE PInv'
  <2>1. /\ UNCHANGED <<mtVars, fVars, cur_mt, usage_q, emptied, latest>>
        /\ wpc' = "search" /\ wi' = Len(usage_q)
    BY <1>1 DEF GetCall
  <2> QED BY <2>1 DEF mtVars, fVars, KInv, TypeOK, Live
<1>2. ASSUME NEW k \in Keys, NEW v \in Values, PutCall(k, v) PROVE PInv'
  <2>1. /\ UNCHANGED <<mtVars, fVars, cur_mt, usage_q, emptied, latest>>
        /\ wpc' \in {"scan", "assert"} /\ (wpc' = "scan" => ~mutable[cur_mt])
        /\ cur_mt \in Tables
    BY <1>2 DEF PutCall, KInv, TypeOK
  <2> QED BY <2>1 DEF mtVars, fVars, Live
<1>3. CASE PutScan
  <2>1. CASE mutable[wi]
    <3>1. /\ UNCHANGED <<mtVars, fVars, latest, emptied>> /\ wpc = "scan"
          /\ wpc' = "assert" /\ cur_mt' = wi /\ usage_q' = Pushed(wi)
      BY <1>3, <2>1 DEF PutScan, mtVars, fVars
    <3>2. wi \in Tables /\ cur_mt \in Tables
      BY <1>3, TablesFacts DEF PutScan, KInv, TypeOK, Tables
    <3>3. \A t \in Tables : t # cur_mt => Empty(t)
      BY <3>1
    <3>4. EmptyUnlessUsed' /\ OneClosed'
      BY <3>1, <3>2, <3>3 DEF mtVars, fVars, Live
    <3>5. Order'
      <4>1. ASSUME NEW t \in Tables, t # wi, ~mutable[t]
            PROVE  t = cur_mt /\ MT_NUM > 1
        BY <3>1, <3>2, <4>1, TablesFacts DEF Tables
      <4>2. PICK n \in Nat : /\ n = Len(usage_q') /\ usage_q'[n] = wi
                             /\ MT_NUM > 1 => /\ n > 1
                                              /\ usage_q'[n - 1] = cur_mt
        BY <3>1, <3>2, PushedEnd
      <4> QED BY <3>1, <4>1, <4>2 DEF mtVars
    <3>6. LatestIs'
      BY <3>1, <3>2, <3>3 DEF mtVars, fVars, Live
    <3>7. ScanAlone' /\ Search'
      BY <3>1
    <3> QED BY <3>4, <3>5, <3>6, <3>7
  <2>2. CASE ~mutable[wi]
    <3>1. /\ UNCHANGED <<mtVars, fVars, cur_mt, usage_q, wpc, latest, emptied>>
          /\ wpc = "scan"
      BY <1>3, <2>2 DEF PutScan, mtVars, fVars
    <3> QED BY <3>1 DEF mtVars, fVars, Live
  <2> QED BY <2>1, <2>2
<1>4. CASE PutReject \/ PutSignal \/ PutCount \/ PutFull
  <2>1. /\ UNCHANGED <<store, mutable, fVars, cur_mt, usage_q, latest, emptied>>
        /\ wpc' \in {"return", "full", "seal"} /\ req'.op = "put"
    BY <1>4 DEF PutReject, PutSignal, PutCount, SetSize, PutFull, Return, mtVars,
       KInv, Control, Written, Puts
  <2> QED BY <2>1 DEF fVars, Live
<1>5. CASE PutAssert \/ PutFind
  <2>1. /\ UNCHANGED <<mtVars, fVars, cur_mt, usage_q, latest, emptied>>
        /\ wpc' \in {"assert", "find", "size", "assign"}
    BY <1>5 DEF PutAssert, PutFind
  <2> QED BY <2>1 DEF mtVars, fVars, Live
<1>6. CASE PutOldSize
  <2>1. /\ UNCHANGED <<mutable, fVars, cur_mt, usage_q, latest, emptied>>
        /\ wpc' = "assign" /\ cur_mt \in Tables /\ req.key \in Keys
        /\ store' = [store EXCEPT ![cur_mt][req.key] = store[cur_mt][req.key]]
    BY <1>6 DEF PutOldSize, SetEntry, Entry, SInv, Locals, KInv, TypeOK, Control,
       Writing, Puts
  <2>2. store' = store
    BY <2>1 DEF KInv, TypeOK, MemTableTypeOK
  <2> QED BY <2>1, <2>2 DEF fVars, Live
<1>7. CASE PutAssign
  <2> DEFINE k == req.key
             v == req.val
  <2>1. /\ UNCHANGED <<mutable, fVars, cur_mt, usage_q, req, emptied>>
        /\ wpc = "assign" /\ wpc' = "count"
        /\ k \in Keys /\ v # NoValue /\ cur_mt \in Tables
    BY <1>7, MemTableAssumption
    DEF PutAssign, fVars, KInv, TypeOK, Control, Writing, Puts
  <2>2. /\ store'[cur_mt][k] = v /\ latest'[k] = v
        /\ \A j \in Keys : j # k => /\ store'[cur_mt][j] = store[cur_mt][j]
                                     /\ latest'[j] = latest[j]
        /\ \A t \in Tables : t # cur_mt => store'[t] = store[t]
    BY <1>7, <2>1 DEF PutAssign, SetEntry, KInv, TypeOK, MemTableTypeOK
  <2>3. EmptyUnlessUsed'
    <3>1. fpc \in {"zero", "reopen"} => flush_target \in Tables /\ flush_target # cur_mt
      BY <2>1 DEF KInv, Control, FInv, WriterAlone, Writing
    <3> QED BY <2>1, <2>2, <3>1 DEF fVars, Live
  <2>4. OneClosed' /\ Order' /\ ScanAlone' /\ Search'
    BY <2>1, <2>2
  <2>5. LatestIs'
    <3>1. ASSUME NEW j \in Live, j # k
          PROVE  /\ store'[cur_mt'][j] # NoValue
                       => latest'[j] = store'[cur_mt'][j]
                 /\ store'[cur_mt'][j] = NoValue =>
                      \A t \in Tables : store'[t][j] # NoValue
                                         => latest'[j] = store'[t][j]
                 /\ (\A t \in Tables : store'[t][j] = NoValue)
                       => latest'[j] = flushed'[j]
      BY <2>1, <2>2, <3>1 DEF fVars, Live
    <3> QED BY <2>1, <2>2, <3>1 DEF Live
  <2> QED BY <2>3, <2>4, <2>5
<1>8. CASE PutSeal
  <2>1. /\ UNCHANGED <<store, fVars, cur_mt, usage_q, latest, emptied>>
        /\ wpc = "seal" /\ wpc' = "signal" /\ cur_mt \in Tables /\ ~mutable'[cur_mt]
        /\ \A t \in Tables : t # cur_mt => mutable[t] /\ mutable'[t]
    BY <1>8 DEF PutSeal, SetMutable, KInv, TypeOK, MemTableTypeOK
  <2> QED BY <2>1 DEF fVars, Live
<1>9. CASE GetFind
  <2> DEFINE k == req.key
             n == Len(usage_q)
             v == store[usage_q[wi]][k]
  <2>1. /\ UNCHANGED <<mtVars, fVars, cur_mt, usage_q, req, latest, emptied>>
        /\ wpc = "search" /\ req \in Gets /\ k \in Keys
        /\ wi \in 1 .. n /\ usage_q[wi] \in Tables /\ cur_mt \in Tables
        /\ n \in Nat /\ Searched = usage_q[wi]
    BY <1>9, SearchedType
    DEF GetFind, fVars, KInv, TypeOK, Control, Gets
  <2>2. OneClosed' /\ EmptyUnlessUsed' /\ ScanAlone' /\ Order' /\ LatestIs'
    <3>1. wpc' \in {"search", "read", "return"}
      BY <1>9, <2>1 DEF GetFind, Return
    <3> QED BY <2>1, <3>1 DEF mtVars, fVars, Live
  <2>3. CASE v # NoValue
    <3>1. wpc' = "read" /\ wi' = wi
      BY <1>9, <2>1, <2>3 DEF GetFind, NewKey
    <3>2. Search'
      BY <2>1, <3>1 DEF mtVars, Live
    <3> QED BY <2>2, <3>2
  <2>4. CASE v = NoValue /\ wi > 1
    <3>1. wpc' = "search" /\ wi' = wi - 1
      BY <1>9, <2>1, <2>4 DEF GetFind, NewKey
    <3>2. Search'
      BY <2>1, <2>4, <3>1 DEF mtVars, Live
    <3> QED BY <2>2, <3>2
  <2>5. CASE v = NoValue /\ ~(wi > 1)
    <3>1. wpc' = "return" /\ ret' = [status |-> "READ_FAIL", val |-> NoValue]
      BY <1>9, <2>1, <2>5 DEF GetFind, Return, NewKey
    <3>2. ASSUME k \in Live, NEW t \in Tables PROVE store[t][k] = NoValue
      <4>1. \A j \in 1 .. n : store[usage_q[j]][k] = NoValue
        BY <2>1, <2>5, <3>2
      <4> QED BY <2>1, <3>2, <4>1, HoldersSearched
    <3>3. Search'
      BY <2>1, <3>1, <3>2 DEF mtVars, Live
    <3> QED BY <2>2, <3>3
  <2> QED BY <2>3, <2>4, <2>5
<1>10. CASE GetRead
  <2> DEFINE k == req.key
             n == Len(usage_q)
             s == Searched
             v == store[s][k]
  <2>1. /\ UNCHANGED <<mutable, fVars, cur_mt, usage_q, req, latest>>
        /\ wpc = "read" /\ wpc' = "return" /\ req \in Gets /\ k \in Keys
        /\ wi \in 1 .. n /\ s \in Tables /\ s = usage_q[wi] /\ cur_mt \in Tables
        /\ n \in Nat /\ SetEntry(s, k, Entry(s, k))
        /\ ret' = [status |-> "READ_PASS", val |-> Entry(s, k)]
        /\ emptied' = emptied \cup (IF NewKey(s, k) THEN {k} ELSE {})
    <3>1. /\ UNCHANGED <<mutable, fVars, cur_mt, usage_q, req, latest>>
          /\ wpc = "read" /\ wpc' = "return"
          /\ SetEntry(s, k, Entry(s, k))
          /\ ret' = [status |-> "READ_PASS", val |-> Entry(s, k)]
          /\ emptied' = emptied \cup (IF NewKey(s, k) THEN {k} ELSE {})
      BY <1>10 DEF GetRead, Return, others, chosen
    <3>2. req \in Gets /\ k \in Keys /\ wi \in 1 .. n /\ cur_mt \in Tables /\ n \in Nat
      BY <3>1 DEF KInv, TypeOK, Control, Gets
    <3>3. s \in Tables /\ s = usage_q[wi]
      BY <3>1, SearchedType DEF KInv, Control
    <3> QED BY <3>1, <3>2, <3>3
  <2>2. \A j \in Live', t \in Tables : j \in Live /\ store'[t][j] = store[t][j]
    <3> HIDE DEF s, k
    <3>1. \A t \in Tables, j \in Keys :
            t # s \/ j # k \/ ~NewKey(s, k) => store'[t][j] = store[t][j]
      <4>1. store \in [Tables -> [Keys -> Maybe]]
        BY DEF KInv, TypeOK, MemTableTypeOK
      <4>2. \A t \in Tables, j \in Keys :
              store'[t][j] = IF t = s /\ j = k THEN Entry(s, k) ELSE store[t][j]
        BY <2>1, <4>1 DEF SetEntry
      <4>3. ~NewKey(s, k) => Entry(s, k) = store[s][k]
        BY DEF Entry
      <4> QED BY <4>2, <4>3
    <3>2. ASSUME NEW j \in Live' PROVE j \in Live /\ (j = k => ~NewKey(s, k))
      <4>1. j \in Keys /\ j \notin emptied'
        BY DEF Live
      <4> QED BY <2>1, <4>1 DEF Live
    <3> QED BY <3>1, <3>2 DEF Live
  <2>3. OneClosed' /\ ScanAlone' /\ Order'
    BY <2>1
  <2>4. EmptyUnlessUsed'
    BY <2>1, <2>2 DEF fVars, KInv, Control
  <2>5. LatestIs'
    BY <2>1, <2>2 DEF fVars
  <2>6. Search'
    <3> SUFFICES ASSUME k \in Live' PROVE ret'.val = latest[k]
      BY <2>1
    <3>1. k \in Live /\ ~NewKey(s, k)
      BY <2>1, <2>2 DEF Live
    <3>2. v # NoValue /\ ret'.val = v
      BY <2>1, <3>1 DEF NewKey, Entry
    <3>3. CASE wi = n
      BY <2>1, <3>1, <3>2, <3>3
    <3>4. CASE wi < n
      <4>1. store[cur_mt][k] = NoValue
        BY <2>1, <3>1, <3>4
      <4> QED BY <2>1, <3>1, <3>2, <4>1
    <3> QED BY <2>1, <3>3, <3>4
  <2> QED BY <2>3, <2>4, <2>5, <2>6
<1>11. CASE Answered
  <2>1. /\ UNCHANGED <<mtVars, fVars, cur_mt, usage_q, latest, emptied>> /\ wpc' = "idle"
    BY <1>11 DEF Answered
  <2> QED BY <2>1 DEF mtVars, fVars, Live
<1> QED BY <1>1, <1>2, <1>3, <1>4, <1>5, <1>6, <1>7, <1>8, <1>9, <1>10, <1>11
        DEF Worker, Call, Inside

LEMMA FlusherPInv ==
  ASSUME KInv, FInv, PInv, Flusher
  PROVE  PInv'
<1> USE DEF PInv, OneClosed, EmptyUnlessUsed, Empty, ScanAlone, Order, LatestIs,
        Search, Live
<1>1. CASE InitFlushCall \/ InitFlushFind \/ InitFlushNone \/ DumpRecord
           \/ EndFlushReset \/ EndFlushRecheck
  <2>1. /\ UNCHANGED <<store, mutable, wVars, flushed>>
        /\ fpc' \notin {"zero", "reopen"}
    BY <1>1 DEF InitFlushCall, InitFlushFind, MTInitFlush, InitFlushNone, DumpRecord,
       EndFlushReset, EndFlushRecheck, mtVars
  <2> QED BY <2>1 DEF wVars
<1>2. CASE EndFlushCall
  <2>1. /\ UNCHANGED <<mtVars, wVars, flush_target>> /\ fpc' = "clear"
        /\ flush_target \in Tables
        /\ \A k \in Keys : store[flush_target][k] = NoValue => flushed'[k] = flushed[k]
    BY <1>2, TablesFacts
    DEF EndFlushCall, mtVars, wVars, KInv, TypeOK, FInv, DumpIsCurrent
  <2> QED BY <2>1 DEF mtVars, wVars
<1>3. CASE EndFlushClear
  <2> DEFINE t == flush_target
  <2>1. /\ UNCHANGED <<mutable, wVars, flushed, flush_target>>
        /\ fpc' = "zero" /\ t \in Tables /\ cur_mt \in Tables /\ ~mutable[t]
    BY <1>3
    DEF EndFlushClear, MTClear, wVars, KInv, TypeOK, Control, FInv, TargetClosed
  <2>2. /\ Empty(t)'
        /\ \A s \in Tables : s # t => store'[s] = store[s]
    BY <1>3, <2>1
    DEF EndFlushClear, MTClear, KInv, TypeOK, MemTableTypeOK, EmptyStore
  <2>3. \A k \in Keys : store[t][k] # NoValue => flushed[k] = store[t][k]
    BY <1>3, <2>1 DEF EndFlushClear, FInv, RecordFixed
  <2>4. OneClosed' /\ EmptyUnlessUsed' /\ ScanAlone' /\ Order'
    BY <2>1, <2>2 DEF wVars
  <2>5. \A s \in Tables : s # t /\ s # cur_mt => Empty(s)
    BY <2>1
  <2>6. LatestIs'
    BY <2>1, <2>2, <2>3, <2>5 DEF wVars
  <2>7. Search'
    <3>1. \A s \in Tables, k \in Live :
            store[s][k] = NoValue => store'[s][k] = NoValue
      BY <2>1, <2>2 DEF wVars
    <3>2. ASSUME wpc \in {"search", "read"}, req.key \in Live,
                 NEW j \in wi + 1 .. Len(usage_q)
          PROVE  store'[usage_q[j]][req.key] = NoValue
      <4>1. usage_q[j] \in Tables
        BY <3>2 DEF KInv, TypeOK, Control, Gets
      <4> QED BY <3>1, <3>2, <4>1
    <3>3. ASSUME wpc = "return", req.key \in Live,
                 \A s \in Tables : store[s][req.key] = NoValue
          PROVE  \A s \in Tables : store'[s][req.key] = NoValue
      BY <3>1, <3>3
    <3> QED BY <2>1, <3>2, <3>3 DEF wVars
  <2> QED BY <2>4, <2>6, <2>7
<1>4. CASE EndFlushZero
  <2>1. /\ UNCHANGED <<store, mutable, wVars, flushed, flush_target>> /\ fpc = "zero"
    BY <1>4 DEF EndFlushZero, MTZero
  <2> QED BY <2>1 DEF wVars
<1>5. CASE EndFlushReopen
  <2>1. /\ UNCHANGED <<store, wVars, flushed>> /\ fpc = "reopen"
        /\ fpc' = "reset" /\ flush_target \in Tables
        /\ mutable' = [mutable EXCEPT ![flush_target] = TRUE]
    BY <1>5 DEF EndFlushReopen, MTReopen, SetMutable, wVars, KInv, Control
  <2>2. \A t \in Tables : t # flush_target => mutable'[t] = mutable[t]
    BY <2>1 DEF KInv, TypeOK, MemTableTypeOK
  <2>3. mutable'[flush_target]
    BY <2>1 DEF KInv, TypeOK, MemTableTypeOK
  <2>4. EmptyUnlessUsed'
    BY <2>1, <2>2 DEF wVars, KInv, TypeOK
  <2>5. OneClosed' /\ ScanAlone' /\ Order'
    BY <2>1, <2>2, <2>3 DEF wVars
  <2>6. LatestIs' /\ Search'
    BY <2>1 DEF wVars
  <2> QED BY <2>4, <2>5, <2>6
<1> QED BY <1>1, <1>2, <1>3, <1>4, <1>5 DEF Flusher, FlusherSteps

LEMMA PacedInvariant ==
  Init /\ [][FlushNext]_vars => [](KInv /\ FInv /\ SInv /\ (paced => PInv))
<1> DEFINE Inv == KInv /\ FInv /\ SInv
<1>1. ASSUME Inv, Inv', paced => PInv, [FlushNext]_vars PROVE (paced => PInv)'
  <2>1. CASE UNCHANGED vars \/ StoreRace
    <3>1. UNCHANGED <<mtVars, wVars, fVars>>
      BY <2>1 DEF StoreRace, vars
    <3> QED BY <1>1, <3>1
            DEF PInv, OneClosed, EmptyUnlessUsed, ScanAlone, Order, LatestIs, Search,
                Empty, Live, mtVars, wVars, fVars
  <2>2. ASSUME paced', Worker \/ Flusher PROVE paced
    BY <2>2 DEF Worker, Call, Inside, Flusher, FlusherSteps, GetCall, PutCall,
       PutScan, PutReject, PutAssert, PutFind, PutOldSize, PutAssign, PutCount,
       PutFull, PutSeal, PutSignal, GetFind, GetRead, Answered, InitFlushCall,
       InitFlushFind, InitFlushNone, DumpRecord, EndFlushCall, EndFlushClear,
       EndFlushZero, EndFlushReopen, EndFlushReset, EndFlushRecheck, wVars
  <2> QED BY <1>1, <2>1, <2>2, WorkerPInv, FlusherPInv DEF FlushNext
<1> QED BY SizesInvariant, PInvInit, <1>1, PTL

LEMMA LookupIsLatest == KInv /\ (paced => PInv) => NothingLost
<1> SUFFICES ASSUME KInv, PInv, NEW k \in Live PROVE Lookup(k) = latest[k]
  BY DEF NothingLost, Live
<1> DEFINE n == Len(usage_q)
           hits == {i \in DOMAIN usage_q :
                      store[usage_q[i] % MT_NUM][k] # NoValue}
           newest == CHOOSE i \in hits : \A j \in hits : j <= i
<1>1. /\ hits = {i \in 1 .. n : store[usage_q[i]][k] # NoValue}
      /\ n \in Nat \ {0} /\ usage_q[n] = cur_mt
      /\ \A i \in 1 .. n : usage_q[i] \in Tables
  <2>1. DOMAIN usage_q = 1 .. n /\ n \in Nat \ {0}
    BY DEF KInv, TypeOK
  <2>2. \A i \in 1 .. n : /\ usage_q[i] \in Tables
                          /\ usage_q[i] % MT_NUM = usage_q[i]
    BY ModIsIdentity
  <2> QED BY <2>1, <2>2 DEF PInv, Order
<1>2. CASE store[cur_mt][k] # NoValue
  <2>1. n \in hits /\ \A j \in hits : j <= n
    BY <1>1, <1>2
  <2>2. \A i \in hits : (\A j \in hits : j <= i) => i = n
    BY <1>1, <2>1
  <2>3. newest = n /\ hits # {}
    <3> HIDE DEF hits
    <3> QED BY <2>1, <2>2
  <2> HIDE DEF hits, newest
  <2>4. Lookup(k) = store[usage_q[newest] % MT_NUM][k]
    BY <2>3 DEF Lookup, hits, newest
  <2> QED BY <1>1, <1>2, <2>3, <2>4, ModIsIdentity DEF PInv, LatestIs
<1>3. CASE store[cur_mt][k] = NoValue /\ hits # {}
  <2>1. PICK t \in Tables : t # cur_mt /\ ~mutable[t] /\ store[t][k] # NoValue
    <3>1. PICK i \in hits : TRUE
      BY <1>3
    <3>2. usage_q[i] \in Tables /\ store[usage_q[i]][k] # NoValue
      BY <1>1, <3>1
    <3>3. usage_q[i] # cur_mt
      BY <1>3, <3>2
    <3> QED BY <3>2, <3>3 DEF PInv, EmptyUnlessUsed, Empty
  <2>2. n - 1 \in hits /\ \A j \in hits : j <= n - 1
    <3>1. n > 1 /\ usage_q[n - 1] = t
      BY <2>1 DEF PInv, Order
    <3>2. n \notin hits
      BY <1>1, <1>3
    <3> QED BY <1>1, <2>1, <3>1, <3>2
  <2>3. newest \in hits
    <3> HIDE DEF hits
    <3> QED BY <2>2
  <2> HIDE DEF newest
  <2>4. Lookup(k) = store[usage_q[newest] % MT_NUM][k]
    BY <1>3 DEF Lookup, newest
  <2> QED BY <1>1, <1>3, <2>3, <2>4, ModIsIdentity DEF PInv, LatestIs
<1>4. CASE store[cur_mt][k] = NoValue /\ hits = {}
  <2>1. \A t \in Tables : store[t][k] = NoValue
    BY <1>1, <1>4, HoldersSearched
  <2>2. Lookup(k) = flushed[k]
    BY <1>4 DEF Lookup
  <2> QED BY <2>1, <2>2 DEF PInv, LatestIs
<1> QED BY <1>2, <1>3, <1>4

\* As long as the flusher has kept pace no flush hides or loses a write: the
\* newest memtable that holds a key has its last value, and so has the
\* persistent store when no memtable holds it.  Excepted are the keys that a
\* Get has found, and read only when the memtable had been cleared.
THEOREM PacedNothingLost == FlushSpec => []NothingLost
BY PacedInvariant, LookupIsLatest, PTL DEF FlushSpec

\* A Get that takes its steps while memtables are flushed under it still
\* answers with the last value, or misses when that is the persistent one;
\* with the same exception.
THEOREM PacedReadsLatest == FlushSpec => []ReadsLatest
<1>1. KInv /\ (paced => PInv) => ReadsLatest
  <2> SUFFICES ASSUME KInv, PInv, wpc = "return", req.op = "get", req.key \notin emptied
               PROVE  latest[req.key] = (IF ret.status = "READ_PASS" THEN ret.val
                                         ELSE flushed[req.key])
    BY DEF ReadsLatest
  <2>1. req \in Gets /\ req.key \in Live
    BY DEF KInv, TypeOK, Puts, Gets, NoReq, Live
  <2>2. cur_mt \in Tables
    BY DEF KInv, TypeOK
  <2> QED BY <2>1, <2>2 DEF PInv, Search, LatestIs
<1> QED BY PacedInvariant, <1>1, PTL DEF FlushSpec

-----------------------------------------------------------------------------
(***************************************************************************)
(* The program as built implements module AbstractKV: KVStore is a         *)
(* dictionary that accepts writes until all memtables are full and refuses *)
(* every later one.                                                        *)
(*                                                                         *)
(* The argument: without a flusher the memtables fill one after the other  *)
(* in the order of their indices, usage_q is that order, and nothing is    *)
(* ever popped from it.  Hence a search meets the newest entry first.      *)
(***************************************************************************)

\* Memtables before the current one are full, those behind it unused.
Filled ==
  /\ usage_q = [i \in 1 .. cur_mt + 1 |-> i - 1]
  /\ flushed = EmptyStore
  /\ \A t \in Tables : t < cur_mt => ~mutable[t]
  /\ \A t \in Tables :
       cur_mt < t => mutable[t] /\ \A k \in Keys : store[t][k] = NoValue

\* A Put looks for space up to the memtable behind the current one.
Chosen == wpc = "scan" => ~mutable[cur_mt] /\ wi <= cur_mt + 1

\* A Get in progress has missed in every memtable it has searched, and what
\* it has found is still there.
Missed ==
  /\ wpc \in {"search", "read"} =>
       \A t \in Tables : wi <= t => store[t][req.key] = NoValue
  /\ wpc = "read" => ~NewKey(Searched, req.key)

\* One call at a time, answered when it returns.
Calls ==
  /\ wpc = "idle" <=> req = NoReq
  /\ IF wpc = "return" THEN ret \in Returns ELSE ret = NoRet

BInv == Filled /\ Chosen /\ Missed /\ Calls

\* v is the entry for k of the newest memtable that has one.
NewestIs(k, v) ==
  \/ v = NoValue /\ \A t \in Tables : store[t][k] = NoValue
  \/ \E t \in Tables :
       /\ v = store[t][k] /\ v # NoValue
       /\ \A s \in Tables : t < s => store[s][k] = NoValue

-----------------------------------------------------------------------------
LEMMA BInvInit == Init => BInv
<1> SUFFICES ASSUME Init PROVE BInv
  OBVIOUS
<1>1. usage_q = [i \in 1 .. cur_mt + 1 |-> i - 1]
  <2>1. usage_q = <<0>> /\ cur_mt = 0
    BY DEF Init
  <2>2. [i \in 1 .. 0 + 1 |-> i - 1] = <<0>>
    OBVIOUS
  <2> QED BY <2>1, <2>2
<1> QED BY <1>1, TablesFacts DEF Init, InitMemTables, BInv, Filled, Chosen,
        Missed, Calls, EmptyStore

\* Where the search of a Get is.
LEMMA SearchedIs ==
  ASSUME KInv, BInv, wpc \in {"search", "read"}
  PROVE  /\ wi \in 1 .. cur_mt + 1 /\ wi - 1 \in Tables
         /\ Searched = wi - 1 /\ req \in Gets
<1>1. /\ cur_mt \in Tables /\ cur_mt \in Nat /\ Len(usage_q) = cur_mt + 1
      /\ wi \in 1 .. cur_mt + 1 /\ req \in Gets
  BY TablesFacts DEF KInv, TypeOK, Tables, Control, BInv, Filled
<1>2. usage_q[wi] = wi - 1
  BY <1>1 DEF BInv, Filled
<1> QED BY <1>1, <1>2, SearchedType

LEMMA BInvStep ==
  ASSUME KInv, FInv, SInv, BInv, Worker
  PROVE  BInv'
<1> USE TablesFacts DEF BInv, Filled, Chosen, Missed, Calls
<1>0. /\ cur_mt \in Tables /\ cur_mt \in Nat /\ wi \in Nat
      /\ Len(usage_q) = cur_mt + 1 /\ Tables = 0 .. MT_NUM - 1
  BY DEF KInv, TypeOK, Tables
<1>1. ASSUME NEW k \in Keys, GetCall(k) PROVE BInv'
  <2>1. /\ UNCHANGED <<store, mutable, flushed, cur_mt, usage_q, ret>>
        /\ wpc = "idle" /\ wpc' = "search" /\ wi' = cur_mt + 1
        /\ req' # NoReq /\ req'.key \in Keys
    BY <1>0, <1>1 DEF GetCall, mtVars, fVars, NoReq
  <2> QED BY <1>0, <2>1
<1>2. ASSUME NEW k \in Keys, NEW v \in Values, PutCall(k, v) PROVE BInv'
  <2>1. /\ UNCHANGED <<store, mutable, flushed, cur_mt, usage_q, ret>>
        /\ wpc = "idle" /\ wi' = 0 /\ req' # NoReq
        /\ wpc' = (IF mutable[cur_mt] THEN "assert" ELSE "scan")
    BY <1>2 DEF PutCall, mtVars, fVars, NoReq
  <2> QED BY <1>0, <2>1
<1>3. CASE PutScan
  <2>1. /\ UNCHANGED <<store, mutable, flushed, req, ret>>
        /\ wpc = "scan" /\ wi \in Tables /\ ~mutable[cur_mt]
    BY <1>0, <1>3 DEF PutScan, mtVars, fVars
  <2>2. CASE mutable[wi]
    <3>1. wi = cur_mt + 1 /\ wpc' = "assert" /\ cur_mt' = wi
          /\ usage_q' = Pushed(wi)
      <4>1. ~(wi < cur_mt) /\ wi # cur_mt
        BY <1>0, <2>1, <2>2
      <4> QED BY <1>0, <1>3, <2>1, <2>2, <4>1 DEF PutScan
    <3>2. Pushed(wi) = Append(usage_q, wi)
      <4>1. usage_q \in Seq(Tables)
        BY DEF KInv, TypeOK
      <4>2. Len(Append(usage_q, wi)) = cur_mt + 2 /\ cur_mt + 2 <= MT_NUM
        BY <1>0, <2>1, <3>1, <4>1
      <4> QED BY <1>0, <4>2 DEF Pushed
    <3>3. usage_q' = [i \in 1 .. cur_mt' + 1 |-> i - 1]
      <4>1. cur_mt \in Nat /\ cur_mt' = cur_mt + 1 /\ wi = cur_mt + 1
            /\ usage_q = [i \in 1 .. cur_mt + 1 |-> i - 1]
            /\ usage_q' = Append(usage_q, wi)
        BY <1>0, <3>1, <3>2
      <4>2. Len(usage_q) = cur_mt + 1
        BY <4>1
      <4>3. Append(usage_q, wi) = [i \in 1 .. cur_mt + 2 |->
                                     IF i = cur_mt + 2 THEN wi ELSE usage_q[i]]
        BY <4>1, <4>2
      <4> QED BY <4>1, <4>3
    <3> QED BY <1>0, <2>1, <2>2, <3>1, <3>3
  <2>3. CASE ~mutable[wi]
    <3>1. /\ wi' = wi + 1 /\ UNCHANGED <<cur_mt, usage_q, wpc>>
          /\ wi <= cur_mt
      BY <1>0, <1>3, <2>1, <2>3 DEF PutScan
    <3> QED BY <1>0, <2>1, <3>1
  <2> QED BY <2>2, <2>3
<1>4. CASE PutReject
  <2>1. /\ UNCHANGED <<store, mutable, flushed, cur_mt, usage_q, req>>
        /\ wpc = "scan" /\ wpc' = "return" /\ ret' \in Returns
    BY <1>4 DEF PutReject, Return, Returns, Statuses, Maybe, mtVars, fVars
  <2> QED BY <2>1
<1>5. CASE PutAssert \/ PutFind
  <2>1. /\ UNCHANGED <<store, mutable, flushed, cur_mt, usage_q, req, ret>>
        /\ wpc \in {"assert", "find"} /\ wpc' \in {"assert", "find", "size", "assign"}
    BY <1>5 DEF PutAssert, PutFind, mtVars, fVars
  <2> QED BY <2>1
<1>6. CASE PutOldSize \/ PutAssign
  <2>1. /\ UNCHANGED <<mutable, flushed, cur_mt, usage_q, req, ret>>
        /\ wpc \in {"size", "assign"} /\ wpc' \in {"assign", "count"}
    BY <1>6 DEF PutOldSize, PutAssign, fVars
  <2>2. \A t \in Tables : t # cur_mt => store'[t] = store[t]
    BY <1>6 DEF PutOldSize, PutAssign, SetEntry, KInv, TypeOK, MemTableTypeOK
  <2> QED BY <1>0, <2>1, <2>2
<1>7. CASE PutCount \/ PutFull \/ PutSignal
  <2>1. /\ UNCHANGED <<store, mutable, flushed, cur_mt, usage_q, req>>
        /\ wpc \in {"count", "full", "signal"}
        /\ \/ wpc' \in {"full", "seal"} /\ UNCHANGED ret
           \/ wpc' = "return" /\ ret' \in Returns
    BY <1>7 DEF PutCount, PutFull, PutSignal, SetSize, Return, Returns, Statuses,
       Maybe, mtVars, fVars
  <2> QED BY <2>1
<1>8. CASE PutSeal
  <2>1. /\ UNCHANGED <<store, flushed, cur_mt, usage_q, req, ret>>
        /\ wpc = "seal" /\ wpc' = "signal"
        /\ \A t \in Tables : t # cur_mt => mutable'[t] = mutable[t]
    BY <1>8 DEF PutSeal, SetMutable, fVars, KInv, TypeOK, MemTableTypeOK
  <2> QED BY <1>0, <2>1
<1>9. CASE GetFind
  <2> DEFINE v == store[Searched][req.key]
  <2>1. /\ UNCHANGED <<store, mutable, flushed, cur_mt, usage_q, req>>
        /\ wpc = "search" /\ wi \in 1 .. cur_mt + 1 /\ wi - 1 \in Tables
        /\ Searched = wi - 1
    BY <1>9, SearchedIs DEF GetFind, mtVars, fVars
  <2>2. CASE v # NoValue
    <3>1. wpc' = "read" /\ UNCHANGED <<wi, ret>>
      BY <1>9, <2>2 DEF GetFind, NewKey
    <3>2. ~NewKey(Searched, req.key)'
      BY <2>1, <2>2, <3>1 DEF NewKey, Searched
    <3> QED BY <2>1, <3>1, <3>2
  <2>3. CASE v = NoValue /\ ~(wi > 1)
    <3>1. wpc' = "return" /\ ret' \in Returns
      BY <1>9, <2>3 DEF GetFind, Return, Returns, Statuses, Maybe, NewKey
    <3> QED BY <2>1, <3>1
  <2>4. CASE v = NoValue /\ wi > 1
    <3>1. wi' = wi - 1 /\ UNCHANGED <<wpc, ret>>
      BY <1>9, <2>4 DEF GetFind, NewKey
    <3>2. Missed'
      <4>1. ASSUME NEW t \in Tables, wi - 1 <= t
            PROVE  store[t][req.key] = NoValue
        <5>1. CASE t = wi - 1
          BY <2>1, <2>4, <5>1
        <5>2. CASE wi <= t
          BY <2>1, <5>2
        <5> QED BY <1>0, <4>1, <5>1, <5>2
      <4> QED BY <2>1, <3>1, <4>1
    <3> QED BY <2>1, <3>1, <3>2
  <2> QED BY <2>2, <2>3, <2>4
<1>10. CASE GetRead
  <2>1. /\ UNCHANGED <<mutable, flushed, cur_mt, usage_q, req>>
        /\ wpc = "read" /\ wpc' = "return"
        /\ store' = [store EXCEPT ![Searched][req.key] = store[Searched][req.key]]
        /\ ret' = [status |-> "READ_PASS", val |-> store[Searched][req.key]]
    BY <1>10 DEF GetRead, Return, SetEntry, Entry, fVars
  <2>2. Searched \in Tables /\ req.key \in Keys
    BY <2>1, SearchedIs DEF Gets
  <2>3. store' = store /\ store[Searched][req.key] \in Maybe
    BY <2>1, <2>2 DEF KInv, TypeOK, MemTableTypeOK
  <2> QED BY <2>1, <2>3 DEF Returns, Statuses
<1>11. CASE Answered
  <2>1. /\ UNCHANGED <<store, mutable, flushed, cur_mt, usage_q>>
        /\ wpc' = "idle" /\ req' = NoReq /\ ret' = NoRet
    BY <1>11 DEF Answered, mtVars, fVars
  <2> QED BY <2>1
<1> QED BY <1>1, <1>2, <1>3, <1>4, <1>5, <1>6, <1>7, <1>8, <1>9, <1>10, <1>11
        DEF Worker, Call, Inside

LEMMA BuiltInvariant == Spec => [](KInv /\ FInv /\ SInv /\ BInv)
<1>1. ASSUME BInv, UNCHANGED vars PROVE BInv'
  BY <1>1 DEF BInv, Filled, Chosen, Missed, Calls, NewKey, Searched, vars, mtVars,
     wVars, fVars
<1>2. [Next]_vars => [FlushNext]_vars
  BY DEF Next, FlushNext
<1>3. KInv /\ FInv /\ SInv /\ BInv /\ [Next]_vars => BInv'
  BY <1>1, BInvStep DEF Next
<1> QED BY SizesInvariant, BInvInit, <1>2, <1>3, PTL DEF Spec

-----------------------------------------------------------------------------
(* What a search finds *)

LEMMA LookupNewest == KInv /\ BInv => \A k \in Keys : NewestIs(k, Lookup(k))
<1> SUFFICES ASSUME KInv, BInv, NEW k \in Keys PROVE NewestIs(k, Lookup(k))
  OBVIOUS
<1> DEFINE n == Len(usage_q)
           hits == {i \in DOMAIN usage_q :
                      store[usage_q[i] % MT_NUM][k] # NoValue}
           newest == CHOOSE i \in hits : \A j \in hits : j <= i
<1>1. /\ n = cur_mt + 1 /\ n \in Nat /\ cur_mt \in Tables
      /\ hits = {i \in 1 .. n : store[i - 1][k] # NoValue}
      /\ \A i \in 1 .. n : i - 1 \in Tables /\ usage_q[i] % MT_NUM = i - 1
  <2>1. n = cur_mt + 1 /\ n \in Nat /\ cur_mt \in Tables
        /\ DOMAIN usage_q = 1 .. n
    BY TablesFacts DEF KInv, TypeOK, Tables, BInv, Filled
  <2>2. \A i \in 1 .. n : usage_q[i] = i - 1 /\ i - 1 \in Tables
    <3> SUFFICES ASSUME NEW i \in 1 .. cur_mt + 1
                 PROVE  usage_q[i] = i - 1 /\ i - 1 \in Tables
      BY <2>1
    <3>1. usage_q = [j \in 1 .. cur_mt + 1 |-> j - 1]
      BY DEF BInv, Filled
    <3> QED BY <2>1, <3>1, TablesFacts DEF Tables
  <2>3. \A i \in 1 .. n : usage_q[i] % MT_NUM = i - 1
    BY <2>2, ModIsIdentity
  <2> QED BY <2>1, <2>2, <2>3
<1>a. \A t \in Tables : t <= cur_mt \/ cur_mt < t
  BY TablesFacts DEF Tables, KInv, TypeOK
<1>b. ASSUME NEW t \in Tables, t <= cur_mt, t + 1 \notin hits
      PROVE  store[t][k] = NoValue
  <2>1. PICK i \in 1 .. n : i = t + 1
    BY <1>1, <1>b, TablesFacts DEF Tables
  <2>2. i \notin hits /\ i - 1 = t
    BY <1>b, <2>1, TablesFacts DEF Tables
  <2> HIDE DEF hits, n
  <2>3. store[i - 1][k] = NoValue
    BY <1>1, <2>1, <2>2
  <2> QED BY <2>2, <2>3
<1>2. CASE hits = {}
  <2>1. Lookup(k) = NoValue
    BY <1>2 DEF Lookup, BInv, Filled, EmptyStore
  <2>2. ASSUME NEW t \in Tables PROVE store[t][k] = NoValue
    <3>1. CASE t <= cur_mt
      <4> HIDE DEF hits
      <4> QED BY <1>2, <1>b, <3>1
    <3>2. CASE cur_mt < t
      BY <3>2 DEF BInv, Filled
    <3> QED BY <1>a, <3>1, <3>2
  <2> QED BY <2>1, <2>2 DEF NewestIs
<1>3. CASE hits # {}
  <2>1. newest \in hits /\ \A j \in hits : j <= newest
    <3>1. hits \in SUBSET (1 .. n)
      BY <1>1
    <3> HIDE DEF hits
    <3>2. \E i \in hits : \A j \in hits : j <= i
      BY <1>1, <1>3, <3>1, GreatestMember
    <3> QED BY <3>2
  <2>2. Lookup(k) = store[usage_q[newest] % MT_NUM][k]
    BY <1>3 DEF Lookup
  <2> HIDE DEF newest
  <2>3. /\ Lookup(k) = store[newest - 1][k] /\ newest - 1 \in Tables
        /\ Lookup(k) # NoValue
    BY <1>1, <2>1, <2>2
  <2>4. ASSUME NEW s \in Tables, newest - 1 < s PROVE store[s][k] = NoValue
    <3>1. CASE s <= cur_mt
      <4>1. newest \in Int /\ s \in Int
        BY <1>1, <2>1, TablesFacts DEF Tables
      <4>2. s + 1 \notin hits
        <5> HIDE DEF hits
        <5> QED BY <2>1, <2>4, <4>1
      <4> HIDE DEF hits
      <4> QED BY <1>b, <3>1, <4>2
    <3>2. CASE cur_mt < s
      BY <3>2 DEF BInv, Filled
    <3> QED BY <1>a, <3>1, <3>2
  <2> QED BY <2>3, <2>4 DEF NewestIs
<1> QED BY <1>2, <1>3

LEMMA NewestUnique ==
  ASSUME NEW k, NEW v, NEW w, NewestIs(k, v), NewestIs(k, w)
  PROVE  v = w
BY TablesFacts DEF NewestIs, Tables

-----------------------------------------------------------------------------
(* Refinement *)

LEMMA AbstractInit == Init => Abstract!Init
<1> SUFFICES ASSUME Init PROVE Abstract!Init
  OBVIOUS
<1>1. \A k \in Keys : Lookup(k) = NoValue
  BY KInvInit, BInvInit, LookupNewest, TablesFacts
  DEF Init, InitMemTables, NewestIs, EmptyStore
<1>2. Full = FALSE /\ Result = ret
  BY TablesFacts DEF Init, InitMemTables, Full, Filling, Result, Written
<1> QED BY <1>1, <1>2, TablesFacts
        DEF Abstract!Init, Abstract!NoReq, Abstract!NoRet, Init, NoReq, NoRet

\* The variables of AbstractKV.
Dict == [k \in Keys |-> Lookup(k)]
abstractVars == <<Dict, Full, req, Result>>

\* The abstract dictionary does not change unless a memtable does.
LEMMA DictSame ==
  ASSUME KInv, BInv, KInv', BInv', UNCHANGED store,
         \A k \in Keys : NewestIs(k, Lookup(k)),
         \A k \in Keys : NewestIs(k, Lookup(k))'
  PROVE  Dict' = Dict
<1>1. ASSUME NEW k \in Keys PROVE Lookup(k)' = Lookup(k)
  <2>1. NewestIs(k, Lookup(k)')
    BY DEF NewestIs
  <2> QED BY <2>1, NewestUnique
<1> QED BY <1>1 DEF Dict

LEMMA DictWrite ==
  ASSUME KInv, BInv, PutAssign,
         \A k \in Keys : NewestIs(k, Lookup(k)),
         \A k \in Keys : NewestIs(k, Lookup(k))'
  PROVE  Dict' = [Dict EXCEPT ![req.key] = req.val]
<1>1. /\ req.key \in Keys /\ req.val # NoValue /\ cur_mt \in Tables
  BY MemTableAssumption DEF PutAssign, KInv, TypeOK, Control, Writing, Puts
<1>2. /\ store'[cur_mt][req.key] = req.val
      /\ \A t \in Tables, k \in Keys :
           t # cur_mt \/ k # req.key => store'[t][k] = store[t][k]
  BY <1>1 DEF PutAssign, SetEntry, KInv, TypeOK, MemTableTypeOK
<1>3. ASSUME NEW k \in Keys, k = req.key PROVE Lookup(k)' = req.val
  <2>1. \A s \in Tables : cur_mt < s => store'[s][req.key] = NoValue
    BY <1>1, <1>2, TablesFacts DEF BInv, Filled, Tables
  <2>2. ASSUME NEW v, NEW t \in Tables, v = store'[t][req.key], v # NoValue,
               \A s \in Tables : t < s => store'[s][req.key] = NoValue
        PROVE  v = req.val
    BY <1>1, <1>2, <2>1, <2>2, TablesFacts DEF Tables
  <2>3. NewestIs(k, Lookup(k))'
    OBVIOUS
  <2>4. \E t \in Tables : store'[t][k] # NoValue
    BY <1>1, <1>2, <1>3
  <2> QED BY <1>3, <2>2, <2>3, <2>4 DEF NewestIs
<1>4. ASSUME NEW k \in Keys, k # req.key PROVE Lookup(k)' = Lookup(k)
  <2>1. NewestIs(k, Lookup(k)')
    BY <1>2, <1>4 DEF NewestIs
  <2> QED BY <2>1, NewestUnique
<1>5. Dict' = [k \in Keys |-> Lookup(k)'] /\ Dict = [k \in Keys |-> Lookup(k)]
  BY DEF Dict
<1> HIDE DEF Dict
<1>6. \A k \in Keys : Lookup(k)' = (IF k = req.key THEN req.val ELSE Lookup(k))
  BY <1>3, <1>4
<1> QED BY <1>1, <1>5, <1>6

\* What the caller sees of the store does not change in a step that leaves
\* contents and flags alone and is not about to close a memtable.
LEMMA FullSame ==
  ASSUME UNCHANGED mutable,
         (Filling' <=> Filling), (Filling => UNCHANGED cur_mt)
  PROVE  Full' = Full
BY DEF Full

\* PutCount looks at the size it has just set, PutFull closes what is full.
LEMMA FullSteps ==
  ASSUME KInv, FInv, PutCount \/ PutFull \/ PutSeal
  PROVE  Full' = Full
<1>0. cur_mt \in Tables /\ mutable[cur_mt]
  BY DEF KInv, TypeOK, FInv, WriterAlone, PutCount, PutFull, PutSeal
<1>1. CASE PutCount
  <2>1. /\ UNCHANGED <<mutable, cur_mt, req>> /\ wpc = "count"
        /\ size_in_bytes'[cur_mt]
             = SizeAfterPut(cur_mt, req.key, req.val, new_key, old_sz)
        /\ wpc' = (IF new_key THEN "full" ELSE "return")
    BY <1>0, <1>1 DEF PutCount, SetSize, Return, KInv, TypeOK, MemTableTypeOK
  <2>2. CASE new_key
    <3>1. SizeAfterPut(cur_mt, req.key, req.val, new_key, old_sz)
            = SizeAfterPut(cur_mt, req.key, req.val, TRUE, 0)
      BY <2>2 DEF SizeAfterPut
    <3>2. Filling' <=> Filling
      BY <2>1, <2>2, <3>1 DEF Filling, isFull
    <3> QED BY <2>1, <3>2, FullSame
  <2>3. CASE ~new_key
    <3>1. ~Filling /\ ~Filling'
      BY <2>1, <2>3 DEF Filling
    <3> QED BY <2>1, <3>1, FullSame
  <2> QED BY <2>2, <2>3
<1>2. CASE PutFull
  <2>1. /\ UNCHANGED <<mutable, cur_mt>> /\ wpc = "full"
        /\ wpc' = (IF isFull(cur_mt) THEN "seal" ELSE "return")
    BY <1>2 DEF PutFull, Return, mtVars
  <2>2. Filling' <=> Filling
    BY <2>1 DEF Filling
  <2> QED BY <2>1, <2>2, FullSame
<1>3. CASE PutSeal
  <2>1. /\ ~mutable'[cur_mt] /\ UNCHANGED cur_mt /\ wpc = "seal" /\ wpc' = "signal"
        /\ \A t \in Tables : t # cur_mt => mutable'[t] = mutable[t]
    BY <1>0, <1>3 DEF PutSeal, SetMutable, KInv, TypeOK, MemTableTypeOK
  <2>2. Filling /\ ~Filling'
    BY <2>1 DEF Filling
  <2> QED BY <1>0, <2>1, <2>2 DEF Full
<1> QED BY <1>1, <1>2, <1>3

LEMMA AbstractStep ==
  ASSUME KInv, FInv, SInv, BInv, KInv', BInv', Worker,
         \A k \in Keys : NewestIs(k, Lookup(k)),
         \A k \in Keys : NewestIs(k, Lookup(k))'
  PROVE  Abstract!Next \/ UNCHANGED abstractVars
<1> USE DEF Abstract!NoReq, Abstract!NoRet, NoReq, NoRet, abstractVars
<1>0. /\ cur_mt \in Tables /\ Full \in BOOLEAN /\ Full' \in BOOLEAN
  BY DEF KInv, TypeOK, Full
<1>a. wpc \notin {"count", "full", "seal"} => ~Filling
  BY DEF Filling
<1>b. wpc' \notin {"count", "full", "seal"} => ~Filling'
  BY DEF Filling
<1>c. wpc \notin {"count", "full", "seal", "signal"} => Result = ret
  BY DEF Result, Written
<1>d. wpc' \notin {"count", "full", "seal", "signal"} => Result' = ret'
  BY DEF Result, Written
<1>1. ASSUME Call PROVE Abstract!Call
  <2>1. /\ UNCHANGED <<mtVars, ret>> /\ req' \in Puts \cup Gets
        /\ wpc = "idle" /\ wpc' \in {"search", "assert", "scan"}
    BY <1>1 DEF Call, GetCall, PutCall, Gets, Puts
  <2>2. Dict' = Dict /\ Full' = Full
    BY <1>a, <1>b, <2>1, DictSame, FullSame DEF mtVars
  <2> QED BY <1>c, <1>d, <2>1, <2>2
          DEF Abstract!Call, Abstract!NoReq, Dict, Gets, Puts, BInv, Calls
<1>2. CASE PutScan \/ PutAssert \/ PutFind
  <2>1. /\ UNCHANGED <<mtVars, req, ret>>
        /\ wpc \in {"scan", "assert", "find"}
        /\ wpc' \in {"scan", "assert", "find", "size", "assign"}
    BY <1>2 DEF PutScan, PutAssert, PutFind
  <2>2. Dict' = Dict /\ Full' = Full
    BY <1>a, <1>b, <2>1, DictSame, FullSame DEF mtVars
  <2> QED BY <1>c, <1>d, <2>1, <2>2
<1>3. CASE PutReject
  <2>1. /\ UNCHANGED <<mtVars, req>> /\ wpc = "scan" /\ wpc' = "return"
        /\ ret' = [status |-> "WAIT_FLUSH", val |-> NoValue]
        /\ req.op = "put" /\ ret = NoRet
    BY <1>3 DEF PutReject, Return, KInv, Control, Puts, BInv, Calls
  <2>2. Full
    <3>1. \A t \in Tables : ~mutable[t]
      BY <1>0, <1>3, TablesFacts DEF PutReject, BInv, Filled, Chosen, Tables
    <3> QED BY <3>1 DEF Full
  <2>3. Dict' = Dict /\ Full' = Full
    BY <1>a, <1>b, <2>1, DictSame, FullSame DEF mtVars
  <2>4. Abstract!Refuse
    BY <1>c, <1>d, <2>1, <2>2, <2>3
    DEF Abstract!Refuse, Abstract!Answer, Dict
  <2> QED BY <2>4 DEF Abstract!Next
<1>4. CASE PutOldSize
  <2>1. /\ UNCHANGED <<mutable, req, ret>> /\ wpc = "size" /\ wpc' = "assign"
        /\ req.key \in Keys
        /\ store' = [store EXCEPT ![cur_mt][req.key] = store[cur_mt][req.key]]
    BY <1>4 DEF PutOldSize, SetEntry, Entry, SInv, Locals, KInv, Control, Writing, Puts
  <2>2. store' = store
    BY <1>0, <2>1 DEF KInv, TypeOK, MemTableTypeOK
  <2>3. Dict' = Dict /\ Full' = Full
    BY <1>a, <1>b, <2>1, <2>2, DictSame, FullSame
  <2> QED BY <1>c, <1>d, <2>1, <2>3
<1>5. CASE PutAssign
  <2>1. /\ UNCHANGED <<req, ret>> /\ wpc = "assign" /\ wpc' = "count" /\ req.op = "put"
        /\ ret = NoRet
    BY <1>5 DEF PutAssign, KInv, Control, Writing, Puts, BInv, Calls
  <2>2. ~Full
    <3>1. mutable[cur_mt]
      BY <2>1 DEF FInv, WriterAlone, Writing
    <3> QED BY <1>0, <1>a, <2>1, <3>1 DEF Full
  <2>3. Dict' = [Dict EXCEPT ![req.key] = req.val]
    BY <1>5, DictWrite
  <2>4. Result = NoRet /\ Result' = [status |-> "WRITE_PASS", val |-> NoValue]
    BY <2>1 DEF Result, Written
  <2>5. Abstract!Accept
    BY <1>0, <2>1, <2>2, <2>3, <2>4
    DEF Abstract!Accept, Abstract!Answer, Dict
  <2> QED BY <2>5 DEF Abstract!Next
<1>6. CASE PutCount \/ PutFull \/ PutSeal \/ PutSignal
  <2>1. /\ UNCHANGED <<store, req>> /\ wpc \in {"count", "full", "seal", "signal"}
        /\ \/ wpc' = "return" /\ ret' = [status |-> "WRITE_PASS", val |-> NoValue]
           \/ wpc' \in {"count", "full", "seal", "signal"}
    BY <1>6 DEF PutCount, PutFull, PutSeal, PutSignal, SetSize, SetMutable, Return, mtVars
  <2>2. Result = [status |-> "WRITE_PASS", val |-> NoValue] /\ Result' = Result
    BY <2>1 DEF Result, Written
  <2>3. Full' = Full
    <3>1. CASE PutSignal
      <4>1. UNCHANGED mutable /\ wpc = "signal" /\ wpc' = "return"
        BY <3>1 DEF PutSignal, Return, mtVars
      <4> QED BY <1>a, <1>b, <4>1, FullSame
    <3> QED BY <1>6, <3>1, FullSteps
  <2>4. Dict' = Dict
    BY <2>1, DictSame
  <2> QED BY <2>1, <2>2, <2>3, <2>4
<1>7. CASE GetFind
  <2> DEFINE v == store[Searched][req.key]
  <2>1. /\ UNCHANGED <<mtVars, req>> /\ wpc = "search" /\ req \in Gets
        /\ wi \in 1 .. cur_mt + 1 /\ Searched = wi - 1 /\ ret = NoRet
        /\ wpc' \in {"search", "read", "return"}
    BY <1>7, SearchedIs DEF GetFind, Return, BInv, Calls
  <2>2. Dict' = Dict /\ Full' = Full
    BY <1>a, <1>b, <2>1, DictSame, FullSame DEF mtVars
  <2>3. CASE v # NoValue \/ wi > 1
    <3>1. UNCHANGED ret
      BY <1>7, <2>3 DEF GetFind, NewKey
    <3> QED BY <1>c, <1>d, <2>1, <2>2, <3>1
  <2>4. CASE v = NoValue /\ ~(wi > 1)
    <3>1. NewestIs(req.key, NoValue)
      <4>1. wi = 1 /\ \A s \in Tables : s = 0 \/ wi <= s
        BY <1>0, <2>1, <2>4, TablesFacts DEF Tables
      <4> QED BY <2>1, <2>4, <4>1 DEF NewestIs, BInv, Missed
    <3>2. Dict[req.key] = NoValue
      BY <2>1, <3>1, NewestUnique DEF Dict, Gets
    <3>3. ret' = [status |-> "READ_FAIL", val |-> NoValue] /\ wpc' = "return"
      BY <1>7, <2>4 DEF GetFind, Return, NewKey
    <3>4. Abstract!Read
      BY <1>c, <1>d, <2>1, <2>2, <3>2, <3>3
      DEF Abstract!Read, Abstract!Answer, Dict, Gets
    <3> QED BY <3>4 DEF Abstract!Next
  <2> QED BY <2>3, <2>4
<1>8. CASE GetRead
  <2> DEFINE v == store[Searched][req.key]
  <2>1. /\ UNCHANGED <<mutable, req>> /\ wpc = "read" /\ wpc' = "return" /\ req \in Gets
        /\ wi \in 1 .. cur_mt + 1 /\ wi - 1 \in Tables /\ Searched = wi - 1 /\ ret = NoRet
        /\ v # NoValue /\ store' = [store EXCEPT ![Searched][req.key] = v]
        /\ ret' = [status |-> "READ_PASS", val |-> v]
    BY <1>8, SearchedIs
    DEF GetRead, Return, SetEntry, Entry, NewKey, BInv, Missed, Calls
  <2>2. store' = store
    BY <2>1 DEF KInv, TypeOK, MemTableTypeOK, Gets
  <2>3. Dict' = Dict /\ Full' = Full
    BY <1>a, <1>b, <2>1, <2>2, DictSame, FullSame
  <2>4. NewestIs(req.key, v)
    <3>1. \A s \in Tables : wi - 1 < s => wi <= s
      BY <1>0, <2>1, TablesFacts DEF Tables
    <3> QED BY <2>1, <3>1 DEF NewestIs, BInv, Missed
  <2>5. Dict[req.key] = v
    BY <2>1, <2>4, NewestUnique DEF Dict, Gets
  <2> HIDE DEF v
  <2>6. Abstract!Read
    BY <1>c, <1>d, <2>1, <2>3, <2>5
    DEF Abstract!Read, Abstract!Answer, Dict, Gets
  <2> QED BY <2>6 DEF Abstract!Next
<1>9. CASE Answered
  <2>1. /\ UNCHANGED mtVars /\ wpc = "return" /\ wpc' = "idle"
        /\ req' = NoReq /\ ret' = NoRet /\ ret # NoRet
    BY <1>9 DEF Answered, BInv, Calls, Returns, Statuses
  <2>2. Dict' = Dict /\ Full' = Full
    BY <1>a, <1>b, <2>1, DictSame, FullSame DEF mtVars
  <2>3. Abstract!Done
    BY <1>c, <1>d, <2>1, <2>2 DEF Abstract!Done, Dict
  <2> QED BY <2>3 DEF Abstract!Next
<1> QED BY <1>1, <1>2, <1>3, <1>4, <1>5, <1>6, <1>7, <1>8, <1>9
        DEF Worker, Inside, Abstract!Next

\* As built, KVStore is the dictionary of AbstractKV: a Get answers what the
\* last accepted Put wrote, and once all memtables are full every Put is
\* refused for ever.
THEOREM BuiltImplementsAbstractKV == Spec => ImplementsAbstractKV
<1> DEFINE I == KInv /\ FInv /\ SInv /\ BInv
           L == \A k \in Keys : NewestIs(k, Lookup(k))
<1>1. (I => L) /\ (I => L)'
  BY LookupNewest, PTL
<1>2. I /\ I' /\ [Next]_vars => [Abstract!Next]_abstractVars
  <2>1. ASSUME I, I', UNCHANGED vars PROVE UNCHANGED abstractVars
    BY <2>1 DEF vars, mtVars, wVars, fVars, Dict, Full, Filling, isFull, SizeAfterPut,
       Result, Written, Lookup, abstractVars
  <2> QED BY <1>1, <2>1, AbstractStep DEF Next
<1> QED BY AbstractInit, BuiltInvariant, <1>2, PTL
        DEF Spec, ImplementsAbstractKV, Abstract!Spec, abstractVars, Dict
=============================================================================
