--------------------------- MODULE MCAtomicQueue ---------------------------
(* The queues between the program's threads, and the index arithmetic of the  *)
(* first: a behaviour is one of what its side names.                          *)
(*   ring      AtomicQueue, between the server's stages: the slots of a queue *)
(*             whose cache lines hold two states each, remapped as the code   *)
(*             remaps them                                                    *)
(*   words     IndexRemap evaluated on every word, for each width of a        *)
(*             cache-line index that leaves room for two fields in the word   *)
(*   blocking  BlockingQueue, between the client's threads: two consumers     *)
(*             that take the elements of one producer                         *)
(* The ring is as it is built on the other sides, and the other sides'        *)
(* variables are None where they are not used.                                *)
EXTENDS AtomicQueue, IndexRemap, TLC

CONSTANTS
  MCBits, MCAsked,   \* SHUFFLE_BITS, and the size asked for
  c1, c2             \* consumers of blocking

MCRemap == 0 :> 0 @@ 1 :> 2 @@ 2 :> 1 @@ 3 :> 3

ASSUME MCSizeAssumption == Size = QueueSize(MCBits, MCAsked)

VARIABLES
  side, bits, word,
  tailIndex, headIndex, dequeueOptimisticCount, dequeueOvercommit,
  inner, overcommit, mine, want, left,
  count, sema, posting, pc, max, limit, got, signalling

Consumers == {c1, c2}
Blocking == INSTANCE BlockingQueue WITH
  IndexMod <- 6, MaxBulk <- 2, MaxElements <- 2, cpc <- inner

ASSUME Blocking!Parameters

wordVars == <<bits, word>>
blockingVars == <<tailIndex, headIndex, dequeueOptimisticCount, dequeueOvercommit,
                  inner, overcommit, mine, want, left,
                  count, sema, posting, pc, max, limit, got, signalling>>
allVars == <<side, vars, wordVars, blockingVars>>

NoWords == bits = None /\ word = None
NoBlocking ==
  /\ tailIndex = None /\ headIndex = None /\ dequeueOptimisticCount = None
  /\ dequeueOvercommit = None /\ inner = None /\ overcommit = None /\ mine = None
  /\ want = None /\ left = None /\ count = None /\ sema = None /\ posting = None
  /\ pc = None /\ max = None /\ limit = None /\ got = None /\ signalling = None

AllInit ==
  /\ Init
  /\ \/ side = "ring" /\ NoWords /\ NoBlocking
     \/ side = "words" /\ bits \in 0 .. WordBits \div 2 - 1 /\ word = 0 /\ NoBlocking
     \/ side = "blocking" /\ Blocking!Init /\ NoWords

InRing(A) == side = "ring" /\ A /\ UNCHANGED <<side, wordVars, blockingVars>>
InWords ==
  /\ side = "words" /\ word < WordMod - 1 /\ word' = word + 1
  /\ UNCHANGED <<side, bits, vars, blockingVars>>
InBlocking(A) == side = "blocking" /\ A /\ UNCHANGED <<side, vars, wordVars>>

AllNext == InRing(Next) \/ InWords \/ InBlocking(Blocking!Next)

\* The fairness that AtomicQueue and BlockingQueue state.
AllSpec ==
  /\ AllInit /\ [][AllNext]_allVars
  /\ WF_allVars(InRing(Push)) /\ WF_allVars(InRing(Pop))
  /\ WF_allVars(InBlocking(Blocking!Signal)) /\ WF_allVars(InBlocking(Blocking!Post))
  /\ \A c \in Consumers :
       /\ WF_allVars(InBlocking(Blocking!Resume(c)))
       /\ WF_allVars(InBlocking(Blocking!InnerDequeue(c)))
       /\ WF_allVars(InBlocking(Blocking!InnerStep(c)))

-----------------------------------------------------------------------------
(* words *)

SizeOf == QueueSize(bits, word)
Field(i, n) == (i \div 2^(n * bits)) % 2^bits
Line(i) == RemapIndex(bits, i) \div 2^bits

\* "swapping the lowest order N bits ... with the next N bits": hence the
\* remapping permutes the slots of a queue, those of the ring as Remap does.
SwapsFields ==
  side = "words" =>
    LET high == word - (word % 2^(2 * bits))
    IN /\ RemapIndex(bits, word) = high + Field(word, 0) * 2^bits + Field(word, 1)
       /\ bits = MCBits /\ word \in Slots => RemapIndex(bits, word) = Remap[word]

\* "each subsequent element resides on another cache line"
NeighboursApart ==
  side = "words" => (bits > 0 /\ word + 1 < WordMod => Line(word) # Line(word + 1))

\* The size asked for is rounded up to the least power of two.
SizeLeastPower ==
  side = "words" /\ word \in 1 .. 2^(WordBits - 1) =>
    /\ \E n \in 0 .. WordBits : RoundUpToPowerOf2(word) = 2^n
    /\ word <= RoundUpToPowerOf2(word) /\ RoundUpToPowerOf2(word) < 2 * word

\* Whatever size is asked for, even one that wraps, every remapped index is a
\* slot of the array: masking with size_ - 1 and remapping stays inside it.
RemapInArray ==
  side = "words" =>
    /\ SizeOf % 2^(2 * bits) = 0
    /\ RemapIndex(bits, (SizeOf - 1) & word) < SizeOf

\* Size rounding and index remapping together give each index a slot of its own.
RemapRight == SwapsFields /\ NeighboursApart /\ SizeLeastPower /\ RemapInArray

-----------------------------------------------------------------------------
(* blocking *)

\* No sleeper is forgotten, and none is woken that need not be.
WakeupsCovered == side = "blocking" => Blocking!WakeupsCovered

\* Who has a unit of the semaphore finds an element.
ElementsAreUnits == side = "blocking" => Blocking!TypeOK /\ Blocking!ElementsAreUnits

\* The semaphore's two-level count hands out each unit signalled once, and no
\* wait that times out leaves a unit behind that no other thread waits for.
ImplementsSemaphore ==
  /\ side = "blocking" => Blocking!S!Sem!Init
  /\ [][side = "blocking" => Blocking!S!Sem!Next]_<<Blocking!S!Units, Blocking!S!Waiting>>

\* While an element is due, one will be taken.
Due == side = "blocking" /\ Blocking!Due
ElementsMove == <>[]Due => []<><<headIndex' # headIndex>>_headIndex
=============================================================================
