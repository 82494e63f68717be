------------------------------ MODULE KVStore ------------------------------
(***************************************************************************)
(* Class KVStore (src/src/enclave/kvs.h, kvs.cpp): MT_NUM memtables, one   *)
(* of them current, and the threads that share them.                       *)
(*                                                                         *)
(*   worker   the memtable stage: calls Put and Get, one call at a time    *)
(*   flusher  the "single flush thread" of kvs.cpp: InitFlush, EndFlush    *)
(*   closer   calls ForceReadyToDie                                        *)
(*                                                                         *)
(* The program as built starts only the worker (Spec).  The flusher's      *)
(* methods are complete in the source and no thread calls them any more;   *)
(* FlushSpec adds the thread they were written for, with flush_sema        *)
(* bound, and CloseSpec the closer.  A step reads or writes what another   *)
(* thread may change at most once.                                         *)
(***************************************************************************)
EXTENDS MemTable, Sequences

CONSTANT SemaBound   \* the pointer flush_sema was assigned: never, as built

ASSUME SemaBoundAssumption == SemaBound \in BOOLEAN

VARIABLES
  cur_mt, usage_q,   \* cur_mt_ and usage_q: only the worker uses them
  flush_target,      \* flush_target_: only the flusher uses it, -1 is none
  flush_sema,        \* the flag flush_sema points to
  alive,             \* FALSE once the process has aborted
  wpc, wi,           \* worker: next step, and the loop index i
  req, ret,          \* worker: the call in progress, and what it returns
  new_key, old_sz,   \* worker: locals of MemTable::Put
  fpc, fi,           \* flusher: next step, and the loop index i
  closing,           \* closer: memtables ForceReadyToDie has still to mark
  dumped,            \* what InitFlush's last Dump copied, until EndFlush
  flushed,           \* external: what the persistent store holds
  latest,            \* history: the value each key was last given
  emptied,           \* history: the keys that store_[key] of a Get inserted
  paced              \* history: no two memtables were ever closed at once

chosen == <<cur_mt, usage_q>>
locals == <<new_key, old_sz>>
history == <<latest, emptied, paced>>
wVars == <<chosen, wpc, wi, req, ret, locals, history>>
fVars == <<flush_target, fpc, fi, dumped, flushed>>
others == <<fVars, flush_sema, closing>>
vars == <<mtVars, wVars, fVars, flush_sema, alive, closing>>

Puts == [op : {"put"}, key : Keys, val : Values]
Gets == [op : {"get"}, key : Keys]
NoReq == [op |-> "none"]
Statuses == {"WRITE_PASS", "WAIT_FLUSH", "READ_PASS", "READ_FAIL"}
Returns == [status : Statuses, val : Maybe]
NoRet == [status |-> "none", val |-> NoValue]

Init ==
  /\ InitMemTables
  /\ cur_mt = 0 /\ usage_q = <<0>>
  /\ flush_target = -1 /\ flush_sema = FALSE /\ alive = TRUE
  /\ wpc = "idle" /\ wi = 0 /\ req = NoReq /\ ret = NoRet
  /\ fpc = "idle" /\ fi = 0 /\ closing = {}
  /\ new_key = FALSE /\ old_sz = 0
  /\ dumped = EmptyStore /\ flushed = EmptyStore
  /\ latest = EmptyStore /\ emptied = {} /\ paced = TRUE

-----------------------------------------------------------------------------
\* The next step of a thread, in a process that has not aborted.
WorkerAt(pc) == alive /\ wpc = pc
FlusherAt(pc) == alive /\ fpc = pc

(* Worker: KVStore::Put *)

Return(status, v) == wpc' = "return" /\ ret' = [status |-> status, val |-> v]

\* "*flush_sema = true".  As built the pointer is an uninitialized member:
\* the store either kills the process or changes nothing the store reads.
RaiseSema ==
  IF SemaBound THEN flush_sema' = TRUE /\ UNCHANGED alive
  ELSE alive' \in BOOLEAN /\ UNCHANGED flush_sema

PutCall(k, v) ==
  /\ WorkerAt("idle")
  /\ req' = [op |-> "put", key |-> k, val |-> v]
  /\ wpc' = (IF mutable[cur_mt] THEN "assert" ELSE "scan")
  /\ wi' = 0
  /\ UNCHANGED <<mtVars, chosen, ret, locals, history, others, alive>>

\* Mutants: nothing is popped; the newest entry is popped.
PushedUnbounded(t) == Append(usage_q, t)
PushedPopBack(t) ==
  IF Len(usage_q) < MT_NUM THEN Append(usage_q, t) ELSE usage_q

\* The deque after push_back(t) and the pop_front loop.
Pushed(t) ==
  LET q == Append(usage_q, t)
      n == Len(q)
  IN IF n > MT_NUM THEN SubSeq(q, n - MT_NUM + 1, n) ELSE q

\* One turn of the search for a memtable with some space.
PutScan ==
  /\ WorkerAt("scan") /\ wi < MT_NUM
  /\ IF mutable[wi]
     THEN cur_mt' = wi /\ usage_q' = Pushed(wi) /\ wpc' = "assert"
          /\ UNCHANGED wi
     ELSE wi' = wi + 1 /\ UNCHANGED <<chosen, wpc>>
  /\ UNCHANGED <<mtVars, req, ret, locals, history, others, alive>>

PutReject ==
  /\ WorkerAt("scan") /\ wi = MT_NUM
  /\ RaiseSema
  /\ Return("WAIT_FLUSH", NoValue)
  /\ UNCHANGED <<mtVars, chosen, wi, req, locals, history, fVars, closing>>

(* MemTable::Put *)

\* assert(mutable_)
PutAssert ==
  /\ WorkerAt("assert")
  /\ IF mutable[cur_mt] THEN wpc' = "find" /\ UNCHANGED alive
     ELSE alive' = FALSE /\ UNCHANGED wpc
  /\ UNCHANGED <<mtVars, chosen, wi, req, ret, locals, history, others>>

PutFind ==
  /\ WorkerAt("find")
  /\ new_key' = NewKey(cur_mt, req.key)
  /\ wpc' = (IF new_key' THEN "assign" ELSE "size")
  /\ UNCHANGED <<mtVars, chosen, wi, req, ret, old_sz, history, others, alive>>

PutOldSize ==
  /\ WorkerAt("size")
  /\ old_sz' = ValSize[Entry(cur_mt, req.key)]
  /\ SetEntry(cur_mt, req.key, Entry(cur_mt, req.key))
  /\ wpc' = "assign"
  /\ UNCHANGED <<size_in_bytes, mutable, on_flush, chosen, wi, req, ret,
                 new_key, history, others, alive>>

PutAssign ==
  /\ WorkerAt("assign")
  /\ SetEntry(cur_mt, req.key, req.val)
  /\ latest' = [latest EXCEPT ![req.key] = req.val]
  /\ wpc' = "count"
  /\ UNCHANGED <<size_in_bytes, mutable, on_flush, chosen, wi, req, ret,
                 locals, emptied, paced, others, alive>>

\* Only a new key makes Put look at isFull().
PutCount ==
  /\ WorkerAt("count")
  /\ SetSize(cur_mt, SizeAfterPut(cur_mt, req.key, req.val, new_key, old_sz))
  /\ IF new_key THEN wpc' = "full" /\ UNCHANGED ret
     ELSE Return("WRITE_PASS", NoValue)
  /\ new_key' = FALSE /\ old_sz' = 0
  /\ UNCHANGED <<store, mutable, on_flush, chosen, wi, req, history, others,
                 alive>>

PutFull ==
  /\ WorkerAt("full")
  /\ IF isFull(cur_mt) THEN wpc' = "seal" /\ UNCHANGED ret
     ELSE Return("WRITE_PASS", NoValue)
  /\ UNCHANGED <<mtVars, chosen, wi, req, locals, history, others, alive>>

\* mutable_ = false; Put answers JUST_FULL.
PutSeal ==
  /\ WorkerAt("seal")
  /\ SetMutable(cur_mt, FALSE)
  /\ paced' = (paced /\ \A t \in Tables \ {cur_mt} : mutable[t])
  /\ wpc' = "signal"
  /\ UNCHANGED <<chosen, wi, req, ret, locals, latest, emptied, others, alive>>

\* Mutant: only a refused Put asks for a flush.
PutSignalSilent ==
  /\ WorkerAt("signal")
  /\ Return("WRITE_PASS", NoValue)
  /\ UNCHANGED <<mtVars, chosen, wi, req, locals, history, others, alive>>

PutSignal ==
  /\ WorkerAt("signal")
  /\ RaiseSema
  /\ Return("WRITE_PASS", NoValue)
  /\ UNCHANGED <<mtVars, chosen, wi, req, locals, history, fVars, closing>>

(* Worker: KVStore::Get *)

\* Mutant: the search starts at the oldest memtable.
GetCallOldest(k) ==
  /\ WorkerAt("idle")
  /\ req' = [op |-> "get", key |-> k]
  /\ wpc' = "search" /\ wi' = 1
  /\ UNCHANGED <<mtVars, chosen, ret, locals, history, others, alive>>

GetCall(k) ==
  /\ WorkerAt("idle")
  /\ req' = [op |-> "get", key |-> k]
  /\ wpc' = "search" /\ wi' = Len(usage_q)
  /\ UNCHANGED <<mtVars, chosen, ret, locals, history, others, alive>>

Searched == usage_q[wi] % MT_NUM

\* One turn of the loop, newest memtable first: find(), READ_FAIL after the
\* last memtable.
GetFind ==
  /\ WorkerAt("search")
  /\ IF ~NewKey(Searched, req.key) THEN wpc' = "read" /\ UNCHANGED <<wi, ret>>
     ELSE IF wi > 1 THEN wi' = wi - 1 /\ UNCHANGED <<wpc, ret>>
     ELSE Return("READ_FAIL", NoValue) /\ UNCHANGED wi
  /\ UNCHANGED <<mtVars, chosen, req, locals, history, others, alive>>

\* value = store_[key]: a key that is gone since find() is inserted.
GetRead ==
  /\ WorkerAt("read")
  /\ Return("READ_PASS", Entry(Searched, req.key))
  /\ SetEntry(Searched, req.key, Entry(Searched, req.key))
  /\ emptied' = emptied \cup (IF NewKey(Searched, req.key) THEN {req.key} ELSE {})
  /\ UNCHANGED <<size_in_bytes, mutable, on_flush, chosen, wi, req, locals,
                 latest, paced, others, alive>>

\* The memtable whose store_ the worker's next step uses, and whether that
\* step changes it.
Touched == IF wpc \in {"search", "read"} THEN Searched ELSE cur_mt
Changes ==
  \/ wpc = "assign"
  \/ wpc \in {"size", "read"} /\ NewKey(Touched, req.key)

\* One thread uses a store_ that the other is changing: besides the two orders
\* of the steps, the process may die.
StoreRace ==
  /\ alive /\ wpc \in {"find", "size", "assign", "search", "read"}
  /\ flush_target = Touched
  /\ \/ fpc = "clear"
     \/ fpc = "dump" /\ Changes
  /\ alive' = FALSE
  /\ UNCHANGED <<mtVars, wVars, others>>

Answered ==
  /\ WorkerAt("return")
  /\ wpc' = "idle" /\ wi' = 0 /\ req' = NoReq /\ ret' = NoRet
  /\ UNCHANGED <<mtVars, chosen, locals, history, others, alive>>

-----------------------------------------------------------------------------
(* Flusher: KVStore::InitFlush and KVStore::EndFlush *)

InitFlushCall ==
  /\ FlusherAt("idle")
  /\ fpc' = (IF flush_target < 0 THEN "find" ELSE "dump")
  /\ fi' = 0
  /\ UNCHANGED <<mtVars, wVars, flush_target, dumped, flushed, flush_sema,
                 alive, closing>>

\* One turn of the search for a memtable to flush: the lowest index wins.
InitFlushFind ==
  /\ FlusherAt("find") /\ fi < MT_NUM
  /\ IF CanFlush(fi)
     THEN MTInitFlush(fi) /\ flush_target' = fi /\ fpc' = "dump" /\ fi' = 0
     ELSE fi' = fi + 1 /\ UNCHANGED <<mtVars, flush_target, fpc>>
  /\ UNCHANGED <<wVars, dumped, flushed, flush_sema, alive, closing>>

InitFlushNone ==
  /\ FlusherAt("find") /\ fi = MT_NUM
  /\ fpc' = "idle" /\ fi' = 0
  /\ UNCHANGED <<mtVars, wVars, flush_target, dumped, flushed, flush_sema,
                 alive, closing>>

DumpRecord ==
  /\ FlusherAt("dump")
  /\ dumped' = store[flush_target]
  /\ fpc' = "idle"
  /\ UNCHANGED <<mtVars, wVars, flush_target, fi, flushed, flush_sema, alive,
                 closing>>

\* Mutants: the memtable is reopened before it is cleared; the new record
\* replaces all older ones.
EndFlushCallReopens ==
  /\ FlusherAt("idle") /\ flush_target >= 0
  /\ flushed' = [k \in Keys |-> IF dumped[k] = NoValue THEN flushed[k]
                                ELSE dumped[k]]
  /\ dumped' = EmptyStore /\ fpc' = "clear"
  /\ MTReopen(flush_target)
  /\ UNCHANGED <<wVars, flush_target, fi, flush_sema, alive, closing>>
EndFlushCallReplaces ==
  /\ FlusherAt("idle") /\ flush_target >= 0
  /\ flushed' = dumped /\ dumped' = EmptyStore /\ fpc' = "clear"
  /\ UNCHANGED <<mtVars, wVars, flush_target, fi, flush_sema, alive, closing>>

\* EndFlush begins with ps_->FixRecord: the record becomes durable.  The
\* caller has been given a record by InitFlush, so flush_target_ is set.
EndFlushCall ==
  /\ FlusherAt("idle") /\ flush_target >= 0
  /\ flushed' = [k \in Keys |-> IF dumped[k] = NoValue THEN flushed[k]
                                ELSE dumped[k]]
  /\ dumped' = EmptyStore /\ fpc' = "clear"
  /\ UNCHANGED <<mtVars, wVars, flush_target, fi, flush_sema, alive, closing>>

EndFlushClear ==
  /\ FlusherAt("clear")
  /\ MTClear(flush_target)
  /\ fpc' = "zero"
  /\ UNCHANGED <<wVars, flush_target, fi, dumped, flushed, flush_sema, alive,
                 closing>>

EndFlushZero ==
  /\ FlusherAt("zero")
  /\ MTZero(flush_target)
  /\ fpc' = "reopen"
  /\ UNCHANGED <<wVars, flush_target, fi, dumped, flushed, flush_sema, alive,
                 closing>>

\* The 0 is overwritten: an addition to size_in_bytes_ had read it before.
EndFlushZeroLost ==
  /\ FlusherAt("zero") /\ wpc = "count" /\ flush_target = cur_mt
  /\ on_flush' = [on_flush EXCEPT ![flush_target] = FALSE]
  /\ fpc' = "reopen"
  /\ UNCHANGED <<store, size_in_bytes, mutable, wVars, flush_target, fi, dumped,
                 flushed, flush_sema, alive, closing>>

EndFlushReopen ==
  /\ FlusherAt("reopen")
  /\ MTReopen(flush_target)
  /\ flush_target' = -1
  /\ fpc' = "reset"
  /\ UNCHANGED <<wVars, fi, dumped, flushed, flush_sema, alive, closing>>

EndFlushReset ==
  /\ FlusherAt("reset")
  /\ flush_sema' = FALSE
  /\ fpc' = "recheck" /\ fi' = 0
  /\ UNCHANGED <<mtVars, wVars, flush_target, dumped, flushed, alive, closing>>

\* Mutant: the recheck is left out.
EndFlushRecheckNone ==
  /\ FlusherAt("recheck")
  /\ fi' = 0 /\ fpc' = "idle"
  /\ UNCHANGED <<mtVars, wVars, flush_target, dumped, flushed, flush_sema,
                 alive, closing>>

EndFlushRecheck ==
  /\ FlusherAt("recheck") /\ fi < MT_NUM
  /\ flush_sema' = (flush_sema \/ ~mutable[fi])
  /\ IF fi + 1 < MT_NUM THEN fi' = fi + 1 /\ UNCHANGED fpc
     ELSE fi' = 0 /\ fpc' = "idle"
  /\ UNCHANGED <<mtVars, wVars, flush_target, dumped, flushed, alive, closing>>

(* Closer: KVStore::ForceReadyToDie, SetMutable(false) memtable by memtable *)

ForceCall ==
  /\ alive /\ closing = {} /\ closing' = Tables
  /\ UNCHANGED <<mtVars, wVars, fVars, flush_sema, alive>>

ForceStep(t) ==
  /\ alive /\ t \in closing /\ \A s \in closing : t <= s
  /\ SetMutable(t, FALSE) /\ closing' = closing \ {t}
  /\ paced' = (paced /\ \A s \in Tables \ {t} : mutable[s])
  /\ UNCHANGED <<chosen, wpc, wi, req, ret, locals, latest, emptied, fVars,
                 flush_sema, alive>>

IsReadyToDie == \A t \in Tables : IsEmpty(t)

-----------------------------------------------------------------------------
Call == \E k \in Keys : GetCall(k) \/ \E v \in Values : PutCall(k, v)
Inside ==
  \/ PutScan \/ PutReject \/ PutAssert \/ PutFind \/ PutOldSize \/ PutAssign
  \/ PutCount \/ PutFull \/ PutSeal \/ PutSignal \/ GetFind \/ GetRead
Worker == Call \/ Inside \/ Answered

FlusherSteps ==
  \/ InitFlushFind \/ InitFlushNone \/ DumpRecord \/ EndFlushClear
  \/ EndFlushZero \/ EndFlushReopen \/ EndFlushReset \/ EndFlushRecheck
Flusher == InitFlushCall \/ EndFlushCall \/ FlusherSteps

Closer == ForceCall \/ \E t \in Tables : ForceStep(t)

\* The program as built, and with the threads its methods are written for.
Next == Worker
FlushNext == Worker \/ Flusher \/ StoreRace
CloseNext == FlushNext \/ Closer \/ EndFlushZeroLost

Spec == Init /\ [][Next]_vars
FlushSpec == SemaBound /\ Init /\ [][FlushNext]_vars
CloseSpec == SemaBound /\ Init /\ [][CloseNext]_vars

\* A call of the worker finishes.  The host calls InitFlush while flush_sema
\* is raised, and writes the record it was given and calls EndFlush however
\* often InitFlush is repeated in between.
FairFlushSpec ==
  /\ FlushSpec
  /\ WF_vars(Inside \/ Answered) /\ WF_vars(FlusherSteps)
  /\ WF_vars(flush_sema /\ InitFlushCall)
  /\ SF_vars(EndFlushCall)

-----------------------------------------------------------------------------
(* Properties *)

TypeOK ==
  /\ MemTableTypeOK
  /\ cur_mt \in Tables /\ usage_q \in Seq(Tables)
  /\ Len(usage_q) \in 1 .. MT_NUM
  /\ flush_target \in Tables \cup {-1} /\ flush_sema \in BOOLEAN
  /\ alive \in BOOLEAN
  /\ wpc \in {"idle", "scan", "assert", "find", "size", "assign", "count", "full",
              "seal", "signal", "search", "read", "return"}
  /\ wi \in 0 .. MT_NUM /\ req \in Puts \cup Gets \cup {NoReq}
  /\ ret \in Returns \cup {NoRet} /\ new_key \in BOOLEAN /\ old_sz \in Nat
  /\ fpc \in {"idle", "find", "dump", "clear", "zero", "reopen", "reset", "recheck"}
  /\ fi \in 0 .. MT_NUM /\ closing \subseteq Tables
  /\ dumped \in [Keys -> Maybe] /\ flushed \in [Keys -> Maybe]
  /\ latest \in [Keys -> Maybe] /\ emptied \subseteq Keys /\ paced \in BOOLEAN

\* The worker is in MemTable::Put: before the write to store_, and after it,
\* when the call has taken effect but for the flags it leaves.
Writing == wpc \in {"assert", "find", "size", "assign"}
Written == wpc \in {"count", "full", "seal", "signal"}

\* What a search for k finds now: the newest memtable of usage_q that holds
\* it, the persistent store behind them.
Lookup(k) ==
  LET hits == {i \in DOMAIN usage_q : store[usage_q[i] % MT_NUM][k] # NoValue}
      newest == CHOOSE i \in hits : \A j \in hits : j <= i
  IN IF hits = {} THEN flushed[k] ELSE store[usage_q[newest] % MT_NUM][k]

\* size_in_bytes_ is the number of bytes in store_, modulo 2^64, across
\* inserts, overwrites (whose difference may wrap) and clears: but for the
\* steps in which one of the two is changed and the other is not yet, and for
\* a memtable with a key that a Get's store_[key] has put there uncounted.
SizeExact ==
  \A t \in Tables :
    \/ wpc = "count" /\ cur_mt = t
    \/ fpc = "zero" /\ flush_target = t
    \/ \E k \in emptied : ~NewKey(t, k)
    \/ size_in_bytes[t] = SumFunction(Bytes(t)) % SizeMod

\* The memtable a Put has chosen stays writable until that Put itself closes
\* it, so that assert(mutable_) cannot fire, and the flusher is not at work
\* on it.
WriterAlone ==
  Writing \/ wpc \in {"count", "full", "seal"}
    => mutable[cur_mt] /\ flush_target # cur_mt

\* A full memtable is never forgotten: flush_sema is raised, or the worker is
\* about to raise it, or the flusher's recheck after "*flush_sema = false"
\* has yet to look at that memtable.
NoLostSignal ==
  \A t \in Tables : ~mutable[t] =>
    \/ flush_sema
    \/ wpc = "signal"
    \/ fpc = "reset"
    \/ fpc = "recheck" /\ fi <= t

\* A memtable is closed to writes only when it is full, until the flusher
\* has emptied it.
ClosedIsFull ==
  \A t \in Tables :
    ~mutable[t] /\ ~(fpc = "reopen" /\ flush_target = t)
      => size_in_bytes[t] >= MaxSize

\* Nothing leaves memory before the record that holds it is durable: no write
\* slips in between Dump and clear.
ClearedIsDurable ==
  [][\A t \in Tables, k \in Keys :
       store[t][k] # NoValue /\ store'[t][k] = NoValue
         => flushed[k] = store[t][k]]_vars

\* on_flush_ marks the memtable of flush_target_, from InitFlush to the clear.
FlushMark ==
  \A t \in Tables : on_flush[t] <=> flush_target = t /\ fpc # "reopen"

\* With a flusher that keeps pace (a second memtable never fills before the
\* first is reopened) no flush hides or loses the last write of a key, unless
\* a Get found that key and read it only after the memtable was cleared.
NothingLost ==
  paced => \A k \in Keys \ emptied : Lookup(k) = latest[k]

\* And a Get that runs while memtables are flushed answers with it, or misses
\* in memory when it is in the persistent store.
ReadsLatest ==
  paced /\ wpc = "return" /\ req.op = "get" /\ req.key \notin emptied =>
    latest[req.key] = (IF ret.status = "READ_PASS" THEN ret.val
                       ELSE flushed[req.key])

\* When every memtable is full, one is reopened.
AllFull == alive /\ \A t \in Tables : ~mutable[t]
Reopens == AllFull ~> ~AllFull

-----------------------------------------------------------------------------
(* Claims of the repository that the code does not keep *)

\* test_gen.py:77: a READ answers the last value written to its key.  Stated
\* of the reads that are answered from a memtable, of keys that no such read
\* has come to insert.
HitIsLatest ==
  wpc = "return" /\ req.op = "get" /\ ret.status = "READ_PASS"
      /\ req.key \notin emptied
    => ret.val = latest[req.key]

\* kvs.cpp:77: Get searches the "current MemTable and Immutable MemTables".
ImmutableSearched ==
  wpc = "search" =>
    \A t \in Tables :
      ~mutable[t] /\ ~IsEmpty(t) => \E i \in DOMAIN usage_q : usage_q[i] = t

\* memtable.cpp:55: "Make sure only one threads accesses store_ at a time".  A
\* memtable is not cleared between the find() of a Get and its store_[key].
OneAtStore ==
  ~(wpc = "read" /\ fpc = "clear" /\ flush_target = Searched)

-----------------------------------------------------------------------------
(* The abstract store of module AbstractKV, as built: no flush, no reopening *)

\* The memtables that refuse writes once the call in progress has returned.
Filling ==
  \/ wpc = "count" /\ new_key
       /\ SizeAfterPut(cur_mt, req.key, req.val, TRUE, 0) >= MaxSize
  \/ wpc = "full" /\ isFull(cur_mt)
  \/ wpc = "seal"
Full == \A t \in Tables : mutable[t] => t = cur_mt /\ Filling
Result == IF Written THEN [status |-> "WRITE_PASS", val |-> NoValue] ELSE ret

Abstract == INSTANCE AbstractKV WITH
  dict <- [k \in Keys |-> Lookup(k)], full <- Full, call <- req, ans <- Result

\* As built, the store is a dictionary that takes writes until it is full and
\* refuses every one after that.
ImplementsAbstractKV == Abstract!Spec
=============================================================================
