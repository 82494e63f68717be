----------------------------- MODULE MCProgress -----------------------------
(* What must eventually happen, on small instances: a behaviour is one of what *)
(* its side names, and the other side stays as it starts.                      *)
(*   system   System, in the instance of MCSystem                              *)
(*   store    KVStore with its flusher, two memtables that one key fills       *)
EXTENDS MCSystem

VARIABLES
  side,
  store, size_in_bytes, mutable, on_flush, cur_mt, usage_q, flush_target,
  flush_sema, alive, wpc, wi, req, ret, new_key, old_sz, fpc, fi, closing,
  dumped, flushed, latest, emptied, paced

Store == INSTANCE KVStore WITH
  Keys <- {k1}, KeySize <- [k \in {k1} |-> 1],
  Values <- {EmptyVal}, ValSize <- [v \in {EmptyVal} |-> 0],
  MT_NUM <- 2, MaxSize <- 1, SizeMod <- 8, SemaBound <- TRUE

storeVars == <<store, size_in_bytes, mutable, on_flush, cur_mt, usage_q,
               flush_target, flush_sema, alive, wpc, wi, req, ret, new_key, old_sz,
               fpc, fi, closing, dumped, flushed, latest, emptied, paced>>
allVars == <<side, systemVars, storeVars>>

AllInit == side \in {"system", "store"} /\ Init /\ Store!Init

InSystem(A) == side = "system" /\ A /\ UNCHANGED <<side, storeVars>>
InStore(A) == side = "store" /\ A /\ UNCHANGED <<side, systemVars>>

AllNext == InSystem(Next) \/ InStore(Store!FlushNext)

\* The fairness that System and KVStore state.
AllSpec ==
  /\ AllInit /\ [][AllNext]_allVars
  /\ WF_allVars(InSystem(Tx /\ UNCHANGED srv)) /\ WF_allVars(InSystem(Rx))
  /\ WF_allVars(InSystem(\E r \in requests : Deliver(r)))
  /\ WF_allVars(InSystem(Execute)) /\ WF_allVars(InSystem(Send))
  /\ WF_allVars(InStore(Store!Inside \/ Store!Answered))
  /\ WF_allVars(InStore(Store!FlusherSteps))
  /\ WF_allVars(InStore(flush_sema /\ Store!InitFlushCall))
  /\ SF_allVars(InStore(Store!EndFlushCall))

\* When every memtable is full, one is reopened.
Reopens == Store!Reopens
=============================================================================
