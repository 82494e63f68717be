-------------------------- MODULE ImplicitProducer --------------------------
(***************************************************************************)
(* moodycamel::ConcurrentQueue's sub-queue of a producer that brings no    *)
(* token (src/src/util/concurrentqueue.h, struct ImplicitProducer): the    *)
(* one the client uses.  Its block index is circular and shared with the   *)
(* consumers, who take a block they have emptied out of it and give it to  *)
(* the free list.  enqueue is enqueue_bulk of one element; a call inserts  *)
(* all the blocks it needs first, and takes them out again when one cannot *)
(* be had or an element cannot be constructed.                             *)
(*                                                                         *)
(* A block that requisition_block has returned belongs to the producer     *)
(* until tailIndex is stored: resetting it, linking it and filling it are  *)
(* part of the step that gets it or of the next one.                       *)
(***************************************************************************)
EXTENDS BlockStore

VARIABLES
  index_of,  \* header -> position -> the entry there
  key,       \* entry -> the index its block begins with
  value,     \* entry -> its block
  done,      \* block -> elementsCompletelyDequeued
  tailBlock,
  ppc,       \* next step of the producer's call
  count,     \* the elements the call brings
  chain,     \* the blocks it has inserted
  undone     \* how many of these it has taken out again

entryVars == <<index_of, key, value>>
callVars == <<ppc, count, chain, undone>>
producerVars == <<entryVars, done, tailBlock, callVars>>
vars == <<storeVars, producerVars>>

INVALID_BLOCK_BASE == 1
Entries == 0 .. MaxSize - 1

Init ==
  /\ StoreInit
  /\ front = [h \in Headers |-> IF h = 1 THEN IndexSize - 1 ELSE 0]
  /\ index_of = [h \in Headers |->
       [p \in 0 .. Size(h) - 1 |-> IF h = 1 THEN p ELSE 0]]
  /\ key = [e \in Entries |-> INVALID_BLOCK_BASE]
  /\ value = [e \in Entries |-> None]
  /\ done = [b \in Blocks |-> 0]
  /\ tailBlock = None
  /\ ppc = "idle" /\ count = 0 /\ chain = <<>> /\ undone = 0

-----------------------------------------------------------------------------
(* Producer *)

\* The base of the block that is to be inserted next.
NextBase == BaseAfter(Len(chain) + 1)

\* Where the call goes on when it has Len blocks.
AfterBlocks(n, len) ==
  IF BaseAfter(len) = LastBase(n) THEN "fill" ELSE "room"

EnqueueCall(n) ==
  /\ ppc = "idle" /\ tailIndex + n <= MaxTail
  /\ count' = n /\ ppc' = AfterBlocks(n, 0)
  /\ UNCHANGED <<storeVars, entryVars, done, tailBlock, chain, undone>>

Room ==
  /\ ppc = "room"
  /\ ppc' = IF HasRoom(NextBase) THEN "insert" ELSE "undo"
  /\ UNCHANGED <<storeVars, entryVars, done, tailBlock, count, chain, undone>>

NewTail == NextSlot(front[blockIndex])
EntryAt(p) == index_of[blockIndex][p]

\* Mutant: the entry is not checked to be unused.
StoreKeyBlind ==
  LET e == EntryAt(NewTail)
  IN /\ ppc = "insert"
     /\ key' = [key EXCEPT ![e] = NextBase]
     /\ ppc' = "tail"
     /\ UNCHANGED <<storeVars, index_of, value, done, tailBlock, count, chain, undone>>

\* insert_block_index_entry finds the next entry unused.
StoreKey ==
  LET e == EntryAt(NewTail)
  IN /\ ppc = "insert"
     /\ key[e] = INVALID_BLOCK_BASE \/ value[e] = None
     /\ key' = [key EXCEPT ![e] = NextBase]
     /\ ppc' = "tail"
     /\ UNCHANGED <<storeVars, index_of, value, done, tailBlock, count, chain, undone>>

\* It does not, and a block index of twice the size is allocated: the old
\* entries from the oldest on, and as many new ones.
new_block_index ==
  LET prev == blockIndex  size == Size(prev)
  IN /\ ppc = "insert"
     /\ key[EntryAt(NewTail)] # INVALID_BLOCK_BASE /\ value[EntryAt(NewTail)] # None
     /\ prev < MaxHeaders
     /\ blockIndex' = prev + 1
     /\ index_of' = [index_of EXCEPT ![prev + 1] =
          [p \in 0 .. 2 * size - 1 |->
             IF p < size THEN index_of[prev][(front[prev] + 1 + p) % size] ELSE p]]
     /\ front' = [front EXCEPT ![prev + 1] = size - 1]
     /\ UNCHANGED <<tailIndex, headIndex, consumerVars, cell, pool,
                    key, value, done, tailBlock, callVars>>

\* Or cannot be allocated, or may not be.
NoIndex ==
  /\ ppc = "insert"
  /\ key[EntryAt(NewTail)] # INVALID_BLOCK_BASE /\ value[EntryAt(NewTail)] # None
  /\ ppc' = "undo"
  /\ UNCHANGED <<storeVars, entryVars, done, tailBlock, count, chain, undone>>

StoreTail ==
  /\ ppc = "tail"
  /\ front' = [front EXCEPT ![blockIndex] = NewTail]
  /\ ppc' = "block"
  /\ UNCHANGED <<tailIndex, headIndex, consumerVars, blockIndex, cell, pool,
                 entryVars, done, tailBlock, count, chain, undone>>


\* requisition_block returns b, which is made empty and entered.
Requisition(b) ==
  /\ ppc = "block" /\ b \in pool
  /\ pool' = pool \ {b}
  /\ done' = [done EXCEPT ![b] = 0]
  /\ value' = [value EXCEPT ![EntryAt(front[blockIndex])] = b]
  /\ chain' = Append(chain, b)
  /\ ppc' = AfterBlocks(count, Len(chain) + 1)
  /\ UNCHANGED <<tailIndex, headIndex, consumerVars, blockIndex, front, cell,
                 index_of, key, tailBlock, count, undone>>

rewind_block_index_tail ==
  front' = [front EXCEPT ![blockIndex] = (@ - 1) % Size(blockIndex)]

\* It returns nothing: the entry just inserted is taken back first.
NoBlock ==
  /\ ppc = "block" /\ pool = {}
  /\ rewind_block_index_tail
  /\ value' = [value EXCEPT ![EntryAt(front[blockIndex])] = None]
  /\ ppc' = "undo"
  /\ UNCHANGED <<tailIndex, headIndex, consumerVars, blockIndex, cell, pool,
                 index_of, key, done, tailBlock, count, chain, undone>>

\* A constructor throws: the elements constructed so far are destroyed.
Throws ==
  /\ ppc = "fill"
  /\ ppc' = "undo"
  /\ UNCHANGED <<storeVars, entryVars, done, tailBlock, count, chain, undone>>

\* The slot of the newest block index where index i is: the producer's
\* get_block_index_entry_for_index.
SlotOf(i) ==
  (front[blockIndex] + BlocksApart(key[EntryAt(front[blockIndex])], i))
    % Size(blockIndex)

\* Mutant: the entry keeps its block.
UndoRewinds ==
  LET base == BaseAfter(undone + 1)
  IN /\ ppc = "undo" /\ undone < Len(chain)
     /\ rewind_block_index_tail
     /\ undone' = undone + 1
     /\ UNCHANGED <<tailIndex, headIndex, consumerVars, blockIndex, cell, pool,
                    entryVars, done, tailBlock, ppc, count, chain>>

\* The blocks inserted are taken out of the index, the oldest first, ...
Undo ==
  LET base == BaseAfter(undone + 1)
  IN /\ ppc = "undo" /\ undone < Len(chain)
     /\ value' = [value EXCEPT ![EntryAt(SlotOf(base))] = None]
     /\ rewind_block_index_tail
     /\ undone' = undone + 1
     /\ UNCHANGED <<tailIndex, headIndex, consumerVars, blockIndex, cell, pool,
                    index_of, key, done, tailBlock, ppc, count, chain>>

EndCall == ppc' = "idle" /\ count' = 0 /\ chain' = <<>> /\ undone' = 0

\* ... and go to the free list; tailBlock is again what it was.
add_blocks_to_free_list ==
  /\ ppc = "undo" /\ undone = Len(chain)
  /\ pool' = pool \cup Range(chain)
  /\ EndCall
  /\ UNCHANGED <<tailIndex, headIndex, consumerVars, blockIndex, front, cell,
                 entryVars, done, tailBlock>>

\* The block for index i: the old tail block or one of the chain.
BlockFor(i) ==
  IF BlockBase(i) = FirstBase THEN tailBlock
  ELSE chain[BlocksAhead(i)]

Fill ==
  /\ ppc = "fill"
  /\ cell' = Constructed(count, BlockFor)
  /\ ppc' = "publish"
  /\ UNCHANGED <<tailIndex, headIndex, consumerVars, blockIndex, front, pool,
                 entryVars, done, tailBlock, count, chain, undone>>

Publish ==
  /\ ppc = "publish"
  /\ tailIndex' = Plus(tailIndex, count)
  /\ tailBlock' = IF chain = <<>> THEN tailBlock ELSE Last(chain)
  /\ EndCall
  /\ UNCHANGED <<headIndex, consumerVars, blockIndex, front, cell, pool,
                 entryVars, done>>

-----------------------------------------------------------------------------
(* Consumers *)

EntryOf(c) == index_of[header[c]][slot[c]]

dequeue_bulk(c, n) == Claim(c, n) /\ UNCHANGED producerVars
Locate(c) == LoadFront(c) /\ UNCHANGED producerVars
LoadKey(c) == FindSlot(c, key[EntryOf(c)]) /\ UNCHANGED producerVars
TakeElements(c) == Take(c, value[EntryOf(c)]) /\ UNCHANGED producerVars

\* set_many_empty, and set_empty: who brings the count to BLOCK_SIZE has the block.
SetEmpty(c) ==
  LET now == done[block[c]] + InBlock(c)
  IN /\ cpc[c] = "empty"
     /\ done' = [done EXCEPT ![block[c]] = now]
     /\ IF now = BlockSize
          THEN Goto(c, "unlink") /\ UNCHANGED <<index, left, header, slot, block>>
          ELSE Advance(c)
     /\ UNCHANGED <<tailIndex, headIndex, blockIndex, front, cell, pool,
                    entryVars, tailBlock, callVars>>

Unlink(c) ==
  /\ cpc[c] = "unlink"
  /\ value' = [value EXCEPT ![EntryOf(c)] = None]
  /\ Goto(c, "free")
  /\ UNCHANGED <<tailIndex, headIndex, blockIndex, front, cell, pool, index, left,
                 header, slot, block, index_of, key, done, tailBlock, callVars>>

add_block_to_free_list(c) ==
  /\ cpc[c] = "free"
  /\ pool' = pool \cup {block[c]}
  /\ Advance(c)
  /\ UNCHANGED <<tailIndex, headIndex, blockIndex, front, cell, producerVars>>

-----------------------------------------------------------------------------
Enqueuing ==
  \/ Room \/ StoreKey \/ new_block_index \/ NoIndex \/ StoreTail
  \/ (\E b \in pool : Requisition(b)) \/ NoBlock \/ Throws \/ Undo
  \/ add_blocks_to_free_list \/ Fill \/ Publish

Dequeuing(c) ==
  \/ Locate(c) \/ LoadKey(c) \/ TakeElements(c)
  \/ SetEmpty(c) \/ Unlink(c) \/ add_block_to_free_list(c)

Next ==
  \/ \E n \in 1 .. MaxBulk : EnqueueCall(n)
  \/ Enqueuing
  \/ \E c \in Consumers : Dequeuing(c) \/ \E n \in 1 .. MaxBulk : dequeue_bulk(c, n)

Spec == Init /\ [][Next]_vars

-----------------------------------------------------------------------------
(* ~ImplicitProducer, with no call in progress *)

Quiet == ppc = "idle" /\ \A c \in Consumers : cpc[c] = "idle"

\* The elements that remain, and the block in which each is destroyed.
Remaining == {Plus(headIndex, k) : k \in 0 .. Distance(headIndex, tailIndex) - 1}
BlockOf(i) == value[EntryAt(SlotOf(i))]

\* Mutant: only if elements were destroyed.
FreesTailBlockIfUsed == headIndex # tailIndex

\* "Even if the queue is empty, there's still one block that's not on the free
\* list (unless the head index reached the end of it ...)"
FreesTailBlock ==
  tailBlock # None /\ (headIndex # tailIndex \/ tailIndex % BlockSize # 0)

\* The blocks are freed on the way to the next one, the last one at the end.
FreedOnTheWay == {BlockBase(i) : i \in Remaining} \ {FirstBase}
TimesFreed(b) ==
  Cardinality({base \in FreedOnTheWay : BlockOf(base) = b})
    + (IF FreesTailBlock /\ b = tailBlock THEN 1 ELSE 0)

-----------------------------------------------------------------------------
(* Properties *)

TypeOK ==
  /\ StoreTypeOK
  /\ key \in [Entries -> Indices] /\ value \in [Entries -> Blocks \cup {None}]
  /\ done \in [Blocks -> 0 .. BlockSize]
  /\ tailBlock \in Blocks \cup {None}
  /\ count \in 0 .. MaxBulk /\ chain \in Seq(Blocks) /\ undone \in 0 .. Len(chain)

\* A consumer that has found its slot finds there the block with its
\* elements, whatever the producer has done to the index since: inserted,
\* taken back, overwritten emptied entries, moved to a larger one.
ClaimIsThere ==
  \A c \in Consumers : cpc[c] = "take" => FindsIn(c, value[EntryOf(c)])

\* Every block is in one place: free, or in one entry of the index, or in
\* the hands of whoever takes it out.
Linked(b) == {e \in Entries : value[e] = b}
Emptied(b) == {c \in Consumers : cpc[c] = "free" /\ block[c] = b}
TakenBack(b) == {k \in 1 .. undone : chain[k] = b}
BlockInOnePlace ==
  \A b \in Blocks :
    Cardinality(Linked(b)) + Cardinality(Emptied(b)) + Cardinality(TakenBack(b))
      + (IF b \in pool THEN 1 ELSE 0) = 1

\* The destructor finds every element that remains and frees every block once.
DestructorTakesRest ==
  Quiet =>
    /\ \A i \in Remaining :
         BlockOf(i) \in Blocks /\ cell[BlockOf(i)][i % BlockSize] = i
    /\ \A b \in Blocks : TimesFreed(b) = IF b \in pool THEN 0 ELSE 1
=============================================================================
