----------------------------- MODULE BlockPool -----------------------------
(***************************************************************************)
(* Where the sub-queues of moodycamel::ConcurrentQueue get their blocks    *)
(* (src/src/util/concurrentqueue.h): from the pool allocated with the      *)
(* queue, then from the FreeList, then from the allocator.  A block of the *)
(* initial pool comes back to the free list, one of the allocator's is     *)
(* destroyed (RECYCLE_ALLOCATED_BLOCKS is false).                          *)
(***************************************************************************)
EXTENDS FreeList, Sequences

CONSTANTS
  Pool,         \* the initial pool, a sequence of nodes
  MaxAllocated, \* bound: the blocks the allocator has out at a time
  MaxHeld       \* bound: the blocks a thread has when it asks for one more

\* The blocks of the pool are different ones.
Parameters ==
  /\ IsFiniteSet(Threads) /\ IsFiniteSet(Nodes) /\ Null \notin Nodes
  /\ Pool \in Seq(Nodes)
  /\ \A i, j \in DOMAIN Pool : Pool[i] = Pool[j] => i = j

VARIABLES
  initialBlockPoolIndex,
  ppc,    \* thread -> next step of its requisition_block
  held,   \* thread -> the blocks it has got
  allocated

poolVars == <<initialBlockPoolIndex, ppc, held, allocated>>
vars == <<freeListVars, poolVars>>

PoolBlocks == {Pool[k] : k \in DOMAIN Pool}

Init ==
  /\ FreeListInit
  /\ initialBlockPoolIndex = 0
  /\ ppc = [t \in Threads |-> "idle"]
  /\ held = [t \in Threads |-> {}]
  /\ allocated = {}

Busy(t) == fpc[t] # "idle" \/ ppc[t] # "idle"

\* try_get_block_from_initial_pool: the check, ...
Requisition(t) ==
  /\ ~Busy(t) /\ Cardinality(held[t]) <= MaxHeld
  /\ ppc' = [ppc EXCEPT ![t] =
               IF initialBlockPoolIndex >= Len(Pool) THEN "list" ELSE "draw"]
  /\ UNCHANGED <<freeListVars, initialBlockPoolIndex, held, allocated>>

\* ... and the fetch_add, which may come too late.
Draw(t) ==
  LET i == initialBlockPoolIndex
  IN /\ ppc[t] = "draw"
     /\ initialBlockPoolIndex' = i + 1
     /\ IF i < Len(Pool)
          THEN /\ ppc' = [ppc EXCEPT ![t] = "idle"]
               /\ held' = [held EXCEPT ![t] = @ \cup {Pool[i + 1]}]
          ELSE ppc' = [ppc EXCEPT ![t] = "list"] /\ UNCHANGED held
     /\ UNCHANGED <<freeListVars, allocated>>

\* try_get_block_from_free_list
FromList(t) ==
  /\ ppc[t] = "list"
  /\ TryGet(t)
  /\ ppc' = [ppc EXCEPT ![t] = "listed"]
  /\ UNCHANGED <<initialBlockPoolIndex, held, allocated>>

Step(t) == FreeListStep(t) /\ UNCHANGED poolVars

\* It has returned a block, ...
Receive(t) ==
  /\ ppc[t] = "listed" /\ fpc[t] = "idle" /\ got[t] # Null
  /\ held' = [held EXCEPT ![t] = @ \cup {got[t]}]
  /\ got' = [got EXCEPT ![t] = Null]
  /\ ppc' = [ppc EXCEPT ![t] = "idle"]
  /\ UNCHANGED <<listVars, fpc, head, node, next, initialBlockPoolIndex, allocated>>

\* ... or none: create<Block>(), if the caller may allocate.  Memory may be
\* short, and an address may be used again.
Create(t) ==
  /\ ppc[t] = "listed" /\ fpc[t] = "idle" /\ got[t] = Null
  /\ ppc' = [ppc EXCEPT ![t] = "idle"]
  /\ \/ \E b \in Nodes \ (PoolBlocks \cup allocated) :
          /\ Cardinality(allocated) < MaxAllocated
          /\ allocated' = allocated \cup {b}
          /\ held' = [held EXCEPT ![t] = @ \cup {b}]
     \/ UNCHANGED <<allocated, held>>
  /\ UNCHANGED <<freeListVars, initialBlockPoolIndex>>

\* add_block_to_free_list
Release(t, b) ==
  /\ ~Busy(t) /\ b \in held[t]
  /\ held' = [held EXCEPT ![t] = @ \ {b}]
  /\ IF b \in allocated
       THEN allocated' = allocated \ {b} /\ UNCHANGED freeListVars
       ELSE UNCHANGED allocated /\ Add(t, b)
  /\ UNCHANGED <<initialBlockPoolIndex, ppc>>

Next == \E t \in Threads :
  \/ Requisition(t) \/ Draw(t) \/ FromList(t) \/ Step(t) \/ Receive(t) \/ Create(t)
  \/ \E b \in held[t] : Release(t, b)

Spec == Init /\ [][Next]_vars

-----------------------------------------------------------------------------
(* Properties *)

TypeOK ==
  /\ FreeListTypeOK
  /\ initialBlockPoolIndex \in 0 .. Len(Pool) + Cardinality(Threads)
  /\ ppc \in [Threads -> {"idle", "draw", "list", "listed"}]
  /\ held \in [Threads -> SUBSET Nodes] /\ allocated \subseteq Nodes

\* The places where block b is: in the pool, on the list, with a thread that
\* has taken it off or got it, or in the hands of those that add it.
NotDrawn(b) == \E k \in DOMAIN Pool : Pool[k] = b /\ k > initialBlockPoolIndex
Holders(b) ==
  {t \in Threads : b \in held[t]}
  \cup {t \in Threads : fpc[t] = "take" /\ node[t] = b}
  \cup {t \in Threads : got[t] = b}
Adders(b) ==
  {t \in Threads : fpc[t] \in {"adding", "link", "count", "push", "retry"} /\ node[t] = b}

\* A block is never handed to two threads, nor to one while it is on the list
\* or on its way there: no thread is misled by a head that was taken off and
\* put back between its load and its compare-exchange.
HandedOutOnce ==
  LET on == OnList
  IN \A b \in Nodes :
       /\ Cardinality(Holders(b)) <= 1
       /\ Holders(b) # {} => ~NotDrawn(b) /\ b \notin on /\ Adders(b) = {}
       /\ Cardinality(Adders(b)) <= 1
       /\ b \in on => Adders(b) = {}

\* "This means it was on the list, which means shouldBeOnFreeList must be false
\* no matter the refcount": the assertion in try_get.
TakenIsOff == \A t \in Threads : fpc[t] = "take" => ~should[node[t]]

\* A block of the pool that was returned does not get lost: when no call is in
\* progress it is with a thread, on the list, or not yet drawn, and the list
\* has the one reference to each of its nodes.
Quiet == \A t \in Threads : ~Busy(t)
NothingLost ==
  LET on == OnList
  IN Quiet => \A b \in PoolBlocks :
       /\ Holders(b) # {} \/ NotDrawn(b) \/ b \in on
       /\ freeListRefs[b] = IF b \in on THEN 1 ELSE 0
=============================================================================
