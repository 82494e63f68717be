----------------------------- MODULE BlockStore -----------------------------
(***************************************************************************)
(* The elements of a sub-queue of moodycamel::ConcurrentQueue              *)
(* (src/src/util/concurrentqueue.h) lie in blocks, and a block index says  *)
(* which block holds which indices.  This module is what the two kinds of  *)
(* sub-queue share: a consumer claims indices, looks up their block in the *)
(* block index of the moment, and takes the elements out of one block      *)
(* after the other.  ImplicitProducer and ExplicitProducer add how the     *)
(* producer keeps the index and who gets an empty block.                   *)
(*                                                                         *)
(* A claim of n of the elements that are there is one step: ProducerBase   *)
(* has the protocol, and its HeadWithinTail.  An element is named by its   *)
(* index.                                                                  *)
(***************************************************************************)
EXTENDS CircularIndex, SequencesExt

CONSTANTS
  Consumers,  \* threads that dequeue
  Blocks,     \* the blocks there are
  BlockSize,  \* BLOCK_SIZE
  MaxBulk,    \* bound: the most elements one call asks for or brings
  IndexSize,  \* size of the first block index
  MaxHeaders, \* bound: allocations of a block index that succeed
  MaxTail     \* bound: no enqueue takes tailIndex beyond it, nor round to 0

VARIABLES
  tailIndex, headIndex,
  blockIndex, \* the block index in use, numbered in order of allocation
  front,      \* its newest slot, for each block index: front or tail
  cell,       \* block -> cell -> the element there
  pool,       \* the blocks that requisition_block may return
  cpc,        \* next step of a consumer's call
  index,      \* the next index it has claimed
  left,       \* the elements it has claimed and not finished with
  header,     \* its localBlockIndex
  slot,       \* its slot there
  block       \* the block it takes elements from

consumerVars == <<cpc, index, left, header, slot, block>>
storeVars == <<tailIndex, headIndex, blockIndex, front, cell, pool, consumerVars>>

BlockBase(i) == i - (i % BlockSize)
Offsets == 0 .. BlockSize - 1

None == -1
Headers == 1 .. MaxHeaders
Size(h) == IndexSize * 2 ^ (h - 1)
MaxSize == Size(MaxHeaders)

\* The sizes are powers of two, so a whole number of times round each index is
\* a whole number of times round the counters.
ASSUME BlockStoreAssumption ==
  /\ BlockSize \in Nat /\ BlockSize > 1
  /\ IndexSize \in Nat /\ IndexSize > 1
  /\ MaxHeaders \in Nat \ {0}
  /\ IndexMod % (BlockSize * MaxSize) = 0
  /\ MaxBulk \in Nat \ {0}

StoreInit ==
  /\ tailIndex = 0 /\ headIndex = 0
  /\ blockIndex = 1
  /\ cell = [b \in Blocks |-> [o \in Offsets |-> None]]
  /\ pool = Blocks
  /\ cpc = [c \in Consumers |-> "idle"]
  /\ index = [c \in Consumers |-> 0] /\ left = [c \in Consumers |-> 0]
  /\ header = [c \in Consumers |-> 0] /\ slot = [c \in Consumers |-> 0]
  /\ block = [c \in Consumers |-> None]

Goto(c, place) == cpc' = [cpc EXCEPT ![c] = place]

-----------------------------------------------------------------------------
(* Producer *)

\* The base of the block that the last element that is there is in, and of the
\* one that the last of n more will be in.
FirstBase == BlockBase(Plus(tailIndex, IndexMod - 1))
LastBase(n) == BlockBase(Plus(tailIndex, n - 1))
BaseAfter(n) == Plus(FirstBase, n * BlockSize)

\* The number of blocks from there to that of index i.
BlocksAhead(i) == Distance(FirstBase, BlockBase(i)) \div BlockSize

\* There is leeway for a block that begins at base.
HasRoom(base) == circular_less_than(headIndex, Plus(base, BlockSize))

NextSlot(p) == (p + 1) % Size(blockIndex)

\* The signed number of blocks from base to index i.
BlocksApart(base, i) == Signed(base, BlockBase(i)) \div BlockSize

\* The cells after n elements have been constructed, BlockFor(i) being the
\* block for index i.
Constructed(n, BlockFor(_)) ==
  LET new == {Plus(tailIndex, k) : k \in 0 .. n - 1}
      For(b, o) == {i \in new : i % BlockSize = o /\ BlockFor(i) = b}
  IN [b \in Blocks |-> [o \in Offsets |->
        IF For(b, o) = {} THEN cell[b][o] ELSE CHOOSE i \in For(b, o) : TRUE]]

-----------------------------------------------------------------------------
(* Consumers *)

\* headIndex.fetch_add(n), when n elements are sure to be there.
Claim(c, n) ==
  /\ cpc[c] = "idle" /\ n <= Distance(headIndex, tailIndex)
  /\ index' = [index EXCEPT ![c] = headIndex]
  /\ left' = [left EXCEPT ![c] = n]
  /\ headIndex' = Plus(headIndex, n)
  /\ Goto(c, "locate")
  /\ UNCHANGED <<tailIndex, blockIndex, front, cell, pool, header, slot, block>>

\* blockIndex and the front of the block index it points to.  Two loads; an
\* index that is replaced between them has the front it then had for good.
LoadFront(c) ==
  /\ cpc[c] = "locate"
  /\ header' = [header EXCEPT ![c] = blockIndex]
  /\ slot' = [slot EXCEPT ![c] = front[blockIndex]]
  /\ Goto(c, "base")
  /\ UNCHANGED <<tailIndex, headIndex, blockIndex, front, cell, pool,
                 index, left, block>>

\* From the base of the slot loaded to the slot of the first index claimed.
FindSlot(c, base) ==
  /\ cpc[c] = "base"
  /\ slot' = [slot EXCEPT ![c] =
                (@ + BlocksApart(base, index[c])) % Size(header[c])]
  /\ Goto(c, "take")
  /\ UNCHANGED <<tailIndex, headIndex, blockIndex, front, cell, pool,
                 index, left, header, block>>

\* The claimed elements that are in the block at hand.
InBlock(c) ==
  LET room == BlockSize - (index[c] % BlockSize)
  IN IF left[c] < room THEN left[c] ELSE room
AtHand(c) == {(index[c] % BlockSize) + k : k \in 0 .. InBlock(c) - 1}

\* They are moved out of block b and destroyed there; those after one whose
\* assignment throws are only destroyed.
Take(c, b) ==
  /\ cpc[c] = "take" /\ b \in Blocks
  /\ cell' = [cell EXCEPT ![b] =
                [o \in Offsets |-> IF o \in AtHand(c) THEN None ELSE @[o]]]
  /\ block' = [block EXCEPT ![c] = b]
  /\ Goto(c, "empty")
  /\ UNCHANGED <<tailIndex, headIndex, blockIndex, front, pool,
                 index, left, header, slot>>


\* On to the next block of the claim, or back to the caller.
Advance(c) ==
  LET last == left[c] = InBlock(c)
  IN /\ Goto(c, IF last THEN "idle" ELSE "take")
     /\ index' = [index EXCEPT ![c] = IF last THEN 0 ELSE Plus(@, InBlock(c))]
     /\ left' = [left EXCEPT ![c] = @ - InBlock(c)]
     /\ header' = [header EXCEPT ![c] = IF last THEN 0 ELSE @]
     /\ slot' = [slot EXCEPT ![c] = IF last THEN 0 ELSE (@ + 1) % Size(header[c])]
     /\ block' = [block EXCEPT ![c] = None]

-----------------------------------------------------------------------------
(* Properties *)

StoreTypeOK ==
  /\ tailIndex \in Indices /\ headIndex \in Indices
  /\ blockIndex \in Headers /\ pool \subseteq Blocks
  /\ \A h \in Headers : front[h] \in 0 .. Size(h) - 1
  /\ cell \in [Blocks -> [Offsets -> Indices \cup {None}]]
  /\ index \in [Consumers -> Indices] /\ left \in [Consumers -> 0 .. MaxBulk]
  /\ header \in [Consumers -> 0 .. MaxHeaders]
  /\ slot \in [Consumers -> 0 .. MaxSize - 1]
  /\ block \in [Consumers -> Blocks \cup {None}]

\* c finds the elements it has claimed in block b.
FindsIn(c, b) ==
  /\ b \in Blocks
  /\ \A o \in AtHand(c) : cell[b][o] = Plus(BlockBase(index[c]), o)
=============================================================================
