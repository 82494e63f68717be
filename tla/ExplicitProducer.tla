-------------------------- MODULE ExplicitProducer --------------------------
(***************************************************************************)
(* moodycamel::ConcurrentQueue's sub-queue of a producer that has a token  *)
(* (src/src/util/concurrentqueue.h, struct ExplicitProducer).  The         *)
(* producer keeps its blocks for good, in a circular list: it goes on in   *)
(* the block ahead of the tail if all its cells are flagged empty, and     *)
(* inserts a new block there if they are not.  Its block index is circular *)
(* too; consumers only read it.                                            *)
(*                                                                         *)
(* enqueue is enqueue_bulk of one element.  What the producer writes, but  *)
(* for blockIndex, front and tailIndex, no consumer looks at before the    *)
(* next of these is stored.                                                *)
(***************************************************************************)
EXTENDS BlockStore

VARIABLES
  entry,      \* header -> slot -> [base, block]
  emptyFlags, \* block -> the cells flagged empty
  next,       \* the circular list of blocks
  tailBlock,
  slotsUsed,  \* pr_blockIndexSlotsUsed
  nextSlot,   \* pr_blockIndexFront
  ppc,        \* next step of the producer's call
  count,      \* the elements the call brings
  chain,      \* the blocks linked for it, from firstAllocatedBlock on
  original,   \* the tailBlock, nextSlot and slotsUsed to revert to
  injected,   \* history: a failed call has kept a block it had inserted
  thrown      \* history: a constructor threw in a call that had linked blocks

listVars == <<emptyFlags, next>>
slotVars == <<slotsUsed, nextSlot>>
failVars == <<injected, thrown>>
callVars == <<ppc, count, chain, original, failVars>>
producerVars == <<entry, listVars, tailBlock, slotVars, callVars>>
vars == <<storeVars, producerVars>>

NoCall == [tailBlock |-> None, nextSlot |-> 0, slotsUsed |-> 0]

Init ==
  /\ StoreInit
  /\ front = [h \in Headers |-> 0]
  /\ entry = [h \in Headers |->
       [p \in 0 .. Size(h) - 1 |-> [base |-> 0, block |-> None]]]
  /\ emptyFlags = [b \in Blocks |-> {}] /\ next = [b \in Blocks |-> None]
  /\ tailBlock = None /\ slotsUsed = 0 /\ nextSlot = 0
  /\ ppc = "idle" /\ count = 0 /\ chain = <<>> /\ original = NoCall
  /\ injected = FALSE /\ thrown = FALSE

is_empty(b) == emptyFlags[b] = Offsets

-----------------------------------------------------------------------------
(* Producer *)

\* blockBaseDiff, in blocks.
Needs(n) == BlocksAhead(LastBase(n))

EnqueueCall(n) ==
  /\ ppc = "idle" /\ tailIndex + n <= MaxTail
  /\ count' = n
  /\ original' = [tailBlock |-> tailBlock, nextSlot |-> nextSlot, slotsUsed |-> slotsUsed]
  /\ ppc' = IF Needs(n) = 0 THEN "fill" ELSE "reuse"
  /\ UNCHANGED <<storeVars, entry, listVars, tailBlock, slotVars, chain, failVars>>

\* b is the call's next block: into the index with it.
Link(b) ==
  /\ tailBlock' = b
  /\ entry' = [entry EXCEPT ![blockIndex][nextSlot] =
                 [base |-> BaseAfter(Len(chain) + 1), block |-> b]]
  /\ nextSlot' = NextSlot(nextSlot)
  /\ chain' = Append(chain, b)

AllLinked(len) == len = Needs(count)
First == IF chain = <<>> THEN None ELSE Head(chain)

\* Mutant: the block ahead is not checked to be empty.
ReusableAlways ==
  /\ tailBlock # None /\ next[tailBlock] # First

Reusable ==
  /\ tailBlock # None /\ next[tailBlock] # First /\ is_empty(next[tailBlock])

\* The block ahead is empty: go on in it.
Reuse ==
  /\ ppc = "reuse" /\ Reusable
  /\ Link(next[tailBlock])
  /\ ppc' = IF AllLinked(Len(chain) + 1) THEN "reset" ELSE "reuse"
  /\ UNCHANGED <<storeVars, listVars, slotsUsed, count, original, failVars>>

NoReuse ==
  /\ ppc = "reuse" /\ ~Reusable
  /\ ppc' = "new"
  /\ UNCHANGED <<storeVars, entry, listVars, tailBlock, slotVars, count, chain, original,
                 failVars>>

Room == ppc = "new" /\ HasRoom(BaseAfter(Len(chain) + 1))
IndexFull == slotsUsed = Size(blockIndex)

\* All slots are used: an index of twice the size, the old slots from the
\* oldest on.  It exposes those that were exposed before the call.
new_block_index ==
  LET h == blockIndex + 1  size == Size(blockIndex)
  IN /\ Room /\ IndexFull /\ blockIndex < MaxHeaders
     /\ blockIndex' = h
     /\ entry' = [entry EXCEPT ![h] = [p \in DOMAIN @ |->
          IF p < size THEN entry[blockIndex][(nextSlot + p) % size] ELSE @[p]]]
     /\ front' = [front EXCEPT ![h] = (original.slotsUsed - 1) % Size(h)]
     /\ nextSlot' = size
     /\ original' = [original EXCEPT !.nextSlot = original.slotsUsed]
     /\ UNCHANGED <<tailIndex, headIndex, cell, pool, consumerVars, listVars,
                    tailBlock, slotsUsed, ppc, count, chain,
                    failVars>>

\* Mutant: the block's next is itself, whatever there is.
RequisitionAlone(b) ==
  /\ Room /\ ~IndexFull /\ b \in pool
  /\ pool' = pool \ {b}
  /\ emptyFlags' = [emptyFlags EXCEPT ![b] = Offsets]
  /\ next' = IF tailBlock = None THEN [next EXCEPT ![b] = b]
             ELSE [next EXCEPT ![b] = b, ![tailBlock] = b]
  /\ Link(b)
  /\ slotsUsed' = slotsUsed + 1
  /\ ppc' = IF AllLinked(Len(chain) + 1) THEN "reset" ELSE "new"
  /\ UNCHANGED <<tailIndex, headIndex, blockIndex, front, cell, consumerVars,
                 count, original, failVars>>

\* requisition_block returns b: it goes into the list after the tail block.
Requisition(b) ==
  /\ Room /\ ~IndexFull /\ b \in pool
  /\ pool' = pool \ {b}
  /\ emptyFlags' = [emptyFlags EXCEPT ![b] = Offsets]
  /\ next' = IF tailBlock = None THEN [next EXCEPT ![b] = b]
             ELSE [next EXCEPT ![b] = next[tailBlock], ![tailBlock] = b]
  /\ Link(b)
  /\ slotsUsed' = slotsUsed + 1
  /\ ppc' = IF AllLinked(Len(chain) + 1) THEN "reset" ELSE "new"
  /\ UNCHANGED <<tailIndex, headIndex, blockIndex, front, cell, consumerVars,
                 count, original, failVars>>

EndCall == ppc' = "idle" /\ count' = 0 /\ chain' = <<>> /\ original' = NoCall

\* The call fails.  What it has linked stays in the list, with no slot counted
\* for what it has inserted.
Revert ==
  /\ EndCall
  /\ slotsUsed' = original.slotsUsed /\ nextSlot' = original.nextSlot
  /\ tailBlock' = IF original.tailBlock = None THEN First ELSE original.tailBlock
  /\ UNCHANGED <<storeVars, entry, listVars>>

\* No leeway, or no block index or no block to be had.
NoRoom ==
  /\ ppc = "new"
  /\ ~Room \/ IndexFull \/ pool = {}
  /\ Revert
  /\ injected' = (injected \/ slotsUsed # original.slotsUsed)
  /\ UNCHANGED thrown

\* Each block's emptiness is reset before the blocks are filled.
ResetEmpty ==
  /\ ppc = "reset"
  /\ emptyFlags' = [b \in Blocks |-> IF b \in Range(chain) THEN {} ELSE emptyFlags[b]]
  /\ ppc' = "fill"
  /\ UNCHANGED <<storeVars, entry, next, tailBlock, slotVars, count, chain, original,
                 failVars>>

\* A constructor throws.
Throws ==
  /\ ppc = "fill"
  /\ Revert
  /\ thrown' = (thrown \/ chain # <<>>)
  /\ UNCHANGED injected

\* The block for index i: the old tail block or one of the chain.
BlockFor(i) ==
  IF BlockBase(i) = FirstBase THEN original.tailBlock
  ELSE chain[BlocksAhead(i)]

Fill ==
  /\ ppc = "fill"
  /\ cell' = Constructed(count, BlockFor)
  /\ ppc' = IF chain = <<>> THEN "publish" ELSE "expose"
  /\ UNCHANGED <<tailIndex, headIndex, blockIndex, front, pool, consumerVars,
                 entry, listVars, tailBlock, slotVars, count, chain, original,
                 failVars>>

Expose ==
  /\ ppc = "expose"
  /\ front' = [front EXCEPT ![blockIndex] = (nextSlot - 1) % Size(blockIndex)]
  /\ ppc' = "publish"
  /\ UNCHANGED <<tailIndex, headIndex, blockIndex, cell, pool, consumerVars,
                 entry, listVars, tailBlock, slotVars, count, chain, original,
                 failVars>>

Publish ==
  /\ ppc = "publish"
  /\ tailIndex' = Plus(tailIndex, count)
  /\ EndCall
  /\ UNCHANGED <<headIndex, blockIndex, front, cell, pool, consumerVars,
                 entry, listVars, tailBlock, slotVars, failVars>>

-----------------------------------------------------------------------------
(* Consumers *)

SlotOf(c) == entry[header[c]][slot[c]]

dequeue_bulk(c, n) == Claim(c, n) /\ UNCHANGED producerVars
Locate(c) == LoadFront(c) /\ UNCHANGED producerVars
LoadBase(c) == FindSlot(c, SlotOf(c).base) /\ UNCHANGED producerVars
TakeElements(c) == Take(c, SlotOf(c).block) /\ UNCHANGED producerVars

\* set_many_empty, and set_empty.
SetEmpty(c) ==
  /\ cpc[c] = "empty"
  /\ emptyFlags' = [emptyFlags EXCEPT ![block[c]] = @ \cup AtHand(c)]
  /\ Advance(c)
  /\ UNCHANGED <<tailIndex, headIndex, blockIndex, front, cell, pool,
                 entry, next, tailBlock, slotVars, callVars>>

-----------------------------------------------------------------------------
Enqueuing ==
  \/ Reuse \/ NoReuse \/ new_block_index \/ (\E b \in pool : Requisition(b)) \/ NoRoom
  \/ ResetEmpty \/ Throws \/ Fill \/ Expose \/ Publish

Dequeuing(c) == Locate(c) \/ LoadBase(c) \/ TakeElements(c) \/ SetEmpty(c)

Next ==
  \/ \E n \in 1 .. MaxBulk : EnqueueCall(n)
  \/ Enqueuing
  \/ \E c \in Consumers : Dequeuing(c) \/ \E n \in 1 .. MaxBulk : dequeue_bulk(c, n)

Spec == Init /\ [][Next]_vars

-----------------------------------------------------------------------------
(* ~ExplicitProducer, with no call in progress *)

Quiet == ppc = "idle" /\ \A c \in Consumers : cpc[c] = "idle"

\* The k-th entry of the index from the oldest, and the first that does not
\* end before the head.
Oldest(k) == entry[blockIndex][(nextSlot - slotsUsed + k) % Size(blockIndex)]
EndsBeforeHead(k) == circular_less_than(Plus(Oldest(k).base, BlockSize), headIndex)
halfDequeuedBlock ==
  IF headIndex % BlockSize = 0 THEN None
  ELSE Oldest(CHOOSE k \in 0 .. slotsUsed :
                ~EndsBeforeHead(k) /\ \A j \in 0 .. k - 1 : EndsBeforeHead(j)).block


lastValidIndex == IF tailIndex % BlockSize = 0 THEN BlockSize ELSE tailIndex % BlockSize

\* The elements destroyed in block b: from the head, if it is there, to the end
\* or to the tail.
DestroyedIn(b) ==
  LET from == IF b = halfDequeuedBlock THEN headIndex % BlockSize ELSE 0
  IN {o \in Offsets : o >= from /\ ~(b = tailBlock /\ o >= lastValidIndex)}

-----------------------------------------------------------------------------
(* Properties *)

TypeOK ==
  /\ StoreTypeOK
  /\ \A h \in Headers : \A p \in 0 .. Size(h) - 1 :
       entry[h][p] \in [base : Indices, block : Blocks \cup {None}]
  /\ emptyFlags \in [Blocks -> SUBSET Offsets]
  /\ next \in [Blocks -> Blocks \cup {None}]
  /\ tailBlock \in Blocks \cup {None}
  /\ slotsUsed \in 0 .. Size(blockIndex) /\ nextSlot \in 0 .. Size(blockIndex) - 1
  /\ count \in 0 .. MaxBulk /\ chain \in Seq(Blocks)
  /\ injected \in BOOLEAN /\ thrown \in BOOLEAN

\* A consumer that has found its slot, in the block index of whatever moment,
\* finds there the block with its elements.
ClaimIsThere ==
  \A c \in Consumers : cpc[c] = "take" => FindsIn(c, SlotOf(c).block)

\* Every block that has elements is in the index, at the base of its elements:
\* there is room for a block that is used again.
Held == {b \in Blocks \ Range(chain) : \E o \in Offsets : cell[b][o] # None}
HoldersIndexed ==
  \A b \in Held : \E p \in 0 .. Size(blockIndex) - 1 :
    /\ entry[blockIndex][p].block = b
    /\ \A o \in Offsets : cell[b][o] \in {None, entry[blockIndex][p].base + o}

\* The list that starts at the tail block comes round to it through every block
\* in use and no other.
Walk[n \in Nat] == IF n = 0 THEN tailBlock ELSE next[Walk[n - 1]]
InUse == Blocks \ pool
RingWhole ==
  tailBlock # None =>
    /\ {Walk[n] : n \in 1 .. Cardinality(InUse)} = InUse
    /\ Walk[Cardinality(InUse)] = tailBlock

\* The destructor, which walks that list and passes over blocks that are flagged
\* empty, destroys the elements that remain and nothing else.
DestructorTakesRest ==
  Quiet => \A b \in InUse :
    {o \in Offsets : cell[b][o] # None} = IF is_empty(b) THEN {} ELSE DestroyedIn(b)
=============================================================================
