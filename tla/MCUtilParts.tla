----------------------------- MODULE MCUtilParts -----------------------------
(* What src/src/util is made of, each part on its own: a behaviour is one of   *)
(* the part that its side names.  The other parts' variables are None in it.   *)
(* The first six are parts of moodycamel::ConcurrentQueue.                     *)
(*   sub     two consumers and three blocks of two cells; the first block      *)
(*           index has two slots and may double once                           *)
(*   claims  three consumers, three elements, three refused dequeues           *)
(*   pool    three threads with a block each at most, two blocks of the        *)
(*           initial pool and one of the allocator's                           *)
(*   table   three threads, or a thread and a token; tables of two slots       *)
(*           first, and two producers                                          *)
(*   list    three producers, and a quota of two elements                      *)
(*   life    two queues, three producers, two threads, two tokens              *)
(*   ring    three threads at a ring of two slots whose counters wrap          *)
(*   locked  three threads at a queue of two slots behind a lock               *)
(*   barrier three threads, two rounds                                         *)
(*   bloom   filters of up to four words of eight bits                         *)
(*   bufs    pools of up to eight buffers                                      *)
(*   ini     files of three lines, with names and sections that differ in case *)
(*           or only beyond what is kept of them                               *)
EXTENDS SubQueue, TLC

CONSTANTS
  x1, x2, x3, \* blocks of sub, consumers of claims, threads of pool, ring, locked,
              \* barrier; producers of life
  y1, y2,     \* consumers of sub, threads of table, queues of life
  t1, k1,     \* a mortal thread and a token of table; both of both of life
  n1, n2, n3  \* blocks of pool, hash tables of life, elements of bloom

MCBlocks == {x1, x2, x3}
MCConsumers == {y1, y2}
BothKinds == BOOLEAN
Symmetry == Permutations(MCBlocks) \cup Permutations(MCConsumers)

VARIABLES
  side,
  dequeueOptimisticCount, dequeueOvercommit, overcommit, mine, want,
  freeListHead, freeListRefs, should, freeListNext, fpc, head, node, nextNode, got,
  initialBlockPoolIndex, drawPc, held, allocated,
  tables, table, hashCount, resizing, producers, kind, inactive, upc, mainHash,
  newCount, hashSlot, hash, ptr, owned, cast, reusedOld,
  producerCount, listed, size, nextId, globalOffset, token, lpc, at, best,
  bestSize, nonEmpty, wanted, bulk, start, seen,
  alive, members, parent, explicit, listener, newest, prev, entries, made,
  producerOf, tokenOf,
  ringHead, ringTail, element, rpc,
  atomic, trying, slotState, drawn, taken,
  lockKind, ticket, turn, lock, op, myTicket, popped,
  counter, inside, arrived, ended, releasing,
  params, data, added, fits,
  chunk_cnt, cursor, recent,
  section, prev_name, error, values, sections, lines

Claims == INSTANCE ProducerBase WITH
  Consumers <- MCBlocks, IndexMod <- 32, MaxBulk <- 2

Pool == INSTANCE BlockPool WITH
  Threads <- MCBlocks, Nodes <- {n1, n2, n3}, Null <- None, Pool <- <<n1, n2>>,
  MaxAllocated <- 1, MaxHeld <- 0, next <- nextNode, ppc <- drawPc

Hash == t1 :> 1 @@ y1 :> 0 @@ y2 :> 0
Table == INSTANCE ProducerTable WITH
  Threads <- {t1, y1, y2}, Mortal <- {t1}, Tokens <- {k1},
  Casts <- {{t1, y1, y2}, {t1, k1}}, hash_thread_id <- Hash,
  InitialSize <- 2, MaxTables <- 3, MaxProducers <- 2,
  count <- hashCount, isExplicit <- kind, index <- hashSlot, mine <- owned

ASSUME Table!Parameters /\ Claims!BaseParameters /\ Pool!Parameters

List == INSTANCE ProducerList WITH
  Quota <- 2, MaxBulk <- 2, MaxProducers <- 3, MaxSize <- 1, MaxTokens <- 1,
  MaxOffset <- 2, pc <- lpc, ptr <- at, left <- wanted

ASSUME List!Parameters

Life == INSTANCE QueueLife WITH
  Queues <- MCConsumers, Tables <- {n1, n2}, Producers <- MCBlocks,
  Threads <- {t1, k1}, Tokens <- {t1, k1}, Null <- None,
  list <- members, isExplicit <- explicit, owner <- listener, hash <- newest,
  producer <- producerOf, token <- tokenOf

ASSUME Life!Parameters

Ring == INSTANCE SharedRing WITH
  Threads <- MCBlocks, RingSize <- 2, IndexMod <- 16, FirstIndex <- 14, LastIndex <- 3,
  MaxAhead <- 2, Nil <- None,
  head <- ringHead, tail <- ringTail, state <- slotState, pc <- rpc, seen <- drawn

Locked == INSTANCE MutexQueue WITH
  Threads <- MCBlocks, RingSize <- 2, IndexMod <- 8, FirstIndex <- 6, LastIndex <- 2, Nil <- None,
  kind <- lockKind, next <- turn, head <- ringHead, tail <- ringTail, pc <- rpc,
  mine <- myTicket, got <- popped

Bar == INSTANCE Barrier WITH Threads <- MCBlocks, MaxRounds <- 2, left <- ended

ASSUME Ring!Parameters /\ Ring!CountersWide /\ Ring!OneTurn
ASSUME Locked!Parameters /\ Bar!Parameters

\* Hashes that fall on one bit, on two that a shift takes for one, and on a top bit.
Hashes ==
  LET Of(a, b, c) == 0 :> a @@ 1 :> b @@ 2 :> c
  IN n1 :> Of(5, 31, 14) @@ n2 :> Of(13, 59, 0) @@ n3 :> Of(40, 7, 23)
Bloom == INSTANCE BloomFilter WITH
  Elements <- {n1, n2, n3}, Hash <- Hashes, WordBits <- 8, IntBits <- 4,
  IntMod <- 128, MAX_SEEDS <- 3, MAX_FILTER_SIZE <- 4, MaxInput <- 32, MaxPerElt <- 6

Bufs == INSTANCE BufPool WITH Counts <- {1, 2, 3, 4, 6, 8}, IntMod <- 32, SizeMod <- 64

ASSUME Bufs!Parameters /\ Bloom!Parameters

\* L and M are too long, and have the beginning LM in common.
Words == {"", "a", "A", "L", "M", "LM"}
Ini == INSTANCE INIReader WITH
  SectionWords <- {"a", "L", "M"}, Names <- {"", "A", "L"}, MaxLines <- 3,
  Lower <- [w \in Words |-> IF w = "A" THEN "a" ELSE w],
  Cut <- [w \in Words |-> IF w \in {"L", "M"} THEN "LM" ELSE w]

sharedVars == <<tailIndex, headIndex, cpc, left>>
subVars == <<isExplicit, blockIndex, front, cell, pool, index, header, slot, block,
             tailBlock, ppc, count, chain, explicitVars, implicitVars>>
claimsVars == <<dequeueOptimisticCount, dequeueOvercommit, overcommit, mine, want>>
poolVars == <<freeListHead, freeListRefs, should, freeListNext, fpc, head, node,
              nextNode, got, initialBlockPoolIndex, drawPc, held, allocated>>
tableVars == <<tables, table, hashCount, resizing, producers, kind, inactive, upc,
               mainHash, newCount, hashSlot, hash, ptr, owned, cast, reusedOld>>
listVars == <<producerCount, listed, size, nextId, globalOffset, token, lpc, at,
              best, bestSize, nonEmpty, wanted, bulk, start, seen>>
lifeVars == <<alive, members, parent, explicit, listener, newest, prev, entries, made,
              producerOf, tokenOf>>
slotVars == <<ringHead, ringTail, element, rpc>>
ringVars == <<atomic, trying, slotState, drawn, taken>>
lockedVars == <<lockKind, ticket, turn, lock, op, myTicket, popped>>
barVars == <<counter, inside, arrived, ended, releasing>>
bloomVars == <<params, data, added, fits>>
bufsVars == <<chunk_cnt, cursor, recent>>
iniVars == <<section, prev_name, error, values, sections, lines>>

queueVars == <<sharedVars, subVars, claimsVars, poolVars, tableVars, listVars, lifeVars>>
otherVars == <<slotVars, ringVars, lockedVars, barVars, bloomVars, bufsVars, iniVars>>
partsVars == <<side, queueVars, otherVars>>

-----------------------------------------------------------------------------
NoShared == tailIndex = None /\ headIndex = None /\ cpc = None /\ left = None

NoSub ==
  /\ isExplicit = None /\ blockIndex = None /\ front = None /\ cell = None
  /\ pool = None /\ index = None /\ header = None /\ slot = None /\ block = None
  /\ tailBlock = None /\ ppc = None /\ count = None /\ chain = None
  /\ entry = None /\ emptyFlags = None /\ next = None /\ slotsUsed = None
  /\ nextSlot = None /\ original = None /\ injected = None /\ thrown = None
  /\ index_of = None /\ key = None
  /\ value = None /\ done = None /\ undone = None

NoClaims ==
  /\ dequeueOptimisticCount = None /\ dequeueOvercommit = None
  /\ overcommit = None /\ mine = None /\ want = None

NoPool ==
  /\ freeListHead = None /\ freeListRefs = None /\ should = None
  /\ freeListNext = None /\ fpc = None /\ head = None /\ node = None
  /\ nextNode = None /\ got = None /\ initialBlockPoolIndex = None
  /\ drawPc = None /\ held = None /\ allocated = None

NoTable ==
  /\ tables = None /\ table = None /\ hashCount = None /\ resizing = None
  /\ producers = None /\ kind = None /\ inactive = None /\ upc = None
  /\ mainHash = None /\ newCount = None /\ hashSlot = None /\ hash = None
  /\ ptr = None /\ owned = None /\ cast = None /\ reusedOld = None

NoList ==
  /\ producerCount = None /\ listed = None /\ size = None /\ nextId = None
  /\ globalOffset = None /\ token = None /\ lpc = None /\ at = None /\ best = None
  /\ bestSize = None /\ nonEmpty = None /\ wanted = None /\ bulk = None
  /\ start = None /\ seen = None

NoLife ==
  /\ alive = None /\ members = None /\ parent = None /\ explicit = None
  /\ listener = None /\ newest = None /\ prev = None /\ entries = None
  /\ made = None /\ producerOf = None /\ tokenOf = None

NoQueue ==
  NoShared /\ NoSub /\ NoClaims /\ NoPool /\ NoTable /\ NoList /\ NoLife

NoSlots == ringHead = None /\ ringTail = None /\ element = None /\ rpc = None

NoRing ==
  atomic = None /\ trying = None /\ slotState = None /\ drawn = None /\ taken = None

NoLocked ==
  /\ lockKind = None /\ ticket = None /\ turn = None /\ lock = None /\ op = None
  /\ myTicket = None /\ popped = None

NoBar ==
  counter = None /\ inside = None /\ arrived = None /\ ended = None /\ releasing = None

NoBloom == params = None /\ data = None /\ added = None /\ fits = None

NoBufs == chunk_cnt = None /\ cursor = None /\ recent = None

NoIni ==
  /\ section = None /\ prev_name = None /\ error = None
  /\ values = None /\ sections = None /\ lines = None

NoOther == NoSlots /\ NoRing /\ NoLocked /\ NoBar /\ NoBloom /\ NoBufs /\ NoIni

QueueInit ==
  \/ /\ side = "sub" /\ Init
     /\ NoClaims /\ NoPool /\ NoTable /\ NoList /\ NoLife
  \/ /\ side = "claims" /\ Claims!BaseInit
     /\ NoSub /\ NoPool /\ NoTable /\ NoList /\ NoLife
  \/ /\ side = "pool" /\ Pool!Init
     /\ NoShared /\ NoSub /\ NoClaims /\ NoTable /\ NoList /\ NoLife
  \/ /\ side = "table" /\ Table!Init
     /\ NoShared /\ NoSub /\ NoClaims /\ NoPool /\ NoList /\ NoLife
  \/ /\ side = "list" /\ List!Init
     /\ NoShared /\ NoSub /\ NoClaims /\ NoPool /\ NoTable /\ NoLife
  \/ /\ side = "life" /\ Life!Init
     /\ NoShared /\ NoSub /\ NoClaims /\ NoPool /\ NoTable /\ NoList

OtherInit ==
  \/ /\ side = "ring" /\ Ring!Init
     /\ NoLocked /\ NoBar /\ NoBloom /\ NoBufs /\ NoIni
  \/ /\ side = "locked" /\ Locked!Init
     /\ NoRing /\ NoBar /\ NoBloom /\ NoBufs /\ NoIni
  \/ /\ side = "barrier" /\ Bar!Init
     /\ NoSlots /\ NoRing /\ NoLocked /\ NoBloom /\ NoBufs /\ NoIni
  \/ /\ side = "bloom" /\ Bloom!Init
     /\ NoSlots /\ NoRing /\ NoLocked /\ NoBar /\ NoBufs /\ NoIni
  \/ /\ side = "bufs" /\ Bufs!Init
     /\ NoSlots /\ NoRing /\ NoLocked /\ NoBar /\ NoBloom /\ NoIni
  \/ /\ side = "ini" /\ Ini!Init
     /\ NoSlots /\ NoRing /\ NoLocked /\ NoBar /\ NoBloom /\ NoBufs

PartsInit == (QueueInit /\ NoOther) \/ (OtherInit /\ NoQueue)

\* Bounds: three elements, and no more than three refused, for a call in flight
\* while half the range is refused would take elements that are not there.
ClaimsNext ==
  \/ \E n \in 1 .. 2 : tailIndex + n <= 3 /\ Claims!Publish(n)
  \/ \E c \in MCBlocks :
       \/ Claims!ClaimStep(c)
       \/ \E n \in 1 .. 2 : dequeueOvercommit < 3 /\ Claims!DequeueCall(c, n)

SubStep ==
  /\ side = "sub" /\ Next
  /\ UNCHANGED <<claimsVars, poolVars, tableVars, listVars, lifeVars>>
ClaimsStep ==
  /\ side = "claims" /\ ClaimsNext
  /\ UNCHANGED <<subVars, poolVars, tableVars, listVars, lifeVars>>
PoolStep ==
  /\ side = "pool" /\ Pool!Next
  /\ UNCHANGED <<sharedVars, subVars, claimsVars, tableVars, listVars, lifeVars>>
TableStep ==
  /\ side = "table" /\ Table!Next
  /\ UNCHANGED <<sharedVars, subVars, claimsVars, poolVars, listVars, lifeVars>>
ListStep ==
  /\ side = "list" /\ List!Next
  /\ UNCHANGED <<sharedVars, subVars, claimsVars, poolVars, tableVars, lifeVars>>
LifeStep ==
  /\ side = "life" /\ Life!Next
  /\ UNCHANGED <<sharedVars, subVars, claimsVars, poolVars, tableVars, listVars>>
QueueStep ==
  SubStep \/ ClaimsStep \/ PoolStep \/ TableStep \/ ListStep \/ LifeStep

RingStep ==
  /\ side = "ring" /\ Ring!Next
  /\ UNCHANGED <<lockedVars, barVars, bloomVars, bufsVars, iniVars>>
LockedStep ==
  /\ side = "locked" /\ Locked!Next
  /\ UNCHANGED <<ringVars, barVars, bloomVars, bufsVars, iniVars>>
BarStep ==
  /\ side = "barrier" /\ Bar!Next
  /\ UNCHANGED <<slotVars, ringVars, lockedVars, bloomVars, bufsVars, iniVars>>
BloomStep ==
  /\ side = "bloom" /\ Bloom!Next
  /\ UNCHANGED <<slotVars, ringVars, lockedVars, barVars, bufsVars, iniVars>>
BufsStep ==
  /\ side = "bufs" /\ Bufs!GetBuf
  /\ UNCHANGED <<slotVars, ringVars, lockedVars, barVars, bloomVars, iniVars>>
IniStep ==
  /\ side = "ini" /\ Ini!Next
  /\ UNCHANGED <<slotVars, ringVars, lockedVars, barVars, bloomVars, bufsVars>>
OtherStep == RingStep \/ LockedStep \/ BarStep \/ BloomStep \/ BufsStep \/ IniStep

PartsNext ==
  /\ UNCHANGED side
  /\ \/ QueueStep /\ UNCHANGED otherVars
     \/ OtherStep /\ UNCHANGED queueVars

PartsSpec == PartsInit /\ [][PartsNext]_partsVars

-----------------------------------------------------------------------------
(* Properties *)

\* The type invariant of each part is part of what is said of it.




\* claims: no dequeue claims an element that is not there, and one that is
\* refused leaves nothing behind that hides an element.
ClaimsExact ==
  side = "claims" => Claims!BaseTypeOK /\ Claims!HeadWithinTail /\ Claims!NothingHidden

\* pool: a block is never handed to two threads, nor while it is on the free
\* list or on its way there; the assertion of FreeList::try_get holds; and no
\* block of the initial pool is lost.
BlocksAccounted ==
  side = "pool" => Pool!TypeOK /\ Pool!HandedOutOnce /\ Pool!TakenIsOff /\ Pool!NothingLost

\* table: a slot of every table is free, so that searches end, until an id goes
\* into a reusable slot of a table grown over; and the flag that a table is being
\* made is cleared when it is.
SearchesEnd ==
  side = "table" => Table!TypeOK /\ Table!SlotFreeWhileCounted /\ Table!FlagHeld

\* table: no two threads or tokens have one producer, and a thread that
\* enqueues again finds its own.
ProducersKept == side = "table" => Table!OwnersApart /\ Table!KeepsProducer

\* list: a dequeue that fails has found every producer empty, and consumers with
\* tokens are sent to different producers.
ListWalked == side = "list" => List!TypeOK /\ List!RefusalJustified /\ List!Spread

\* life: after moves and swaps of queues each has its own hash tables, threads
\* and producers have followed, and a token and its producer point to each other.
QueuesApart ==
  side = "life" =>
    Life!TypeOK /\ Life!ChainsApart /\ Life!FollowsTheMove /\ Life!TokensPaired

\* ring: the element of a slot is touched by one thread at a time and taken by
\* one, none is lost, and when all use try_push and try_pop the counters never
\* give an index without room or without an element; its slot may be waited for.
RingExact ==
  side = "ring" =>
    /\ Ring!TypeOK /\ Ring!OneAtASlot /\ Ring!TakenOnce
    /\ Ring!ElementsCounted /\ Ring!CountersBound

\* locked, barrier: a lock lets one thread in at a time, the ticket lock's turn
\* comes to every thread that waits, and the queue behind them is first-in
\* first-out; no thread leaves the barrier before all have come.
LocksHold ==
  /\ side = "locked" =>
       Locked!TypeOK /\ Locked!OneInside /\ Locked!TurnsWhole /\ Locked!InOrder
  /\ side = "barrier" => Bar!TypeOK /\ Bar!NobodyEarly

\* bloom: what was added is never denied, and every hash is a bit of the filter
\* if the number of bits asked for is a positive int.
NoFalseNegative ==
  side = "bloom" => Bloom!TypeOK /\ Bloom!HashInFilter /\ Bloom!NoFalseNegative

\* bufs: the buffers handed out last are different ones of the pool, except where
\* the counter leaps and their number does not divide its range.
BuffersApart == side = "bufs" => Bufs!TypeOK /\ Bufs!BuffersApart

\* ini: if no name is cut short that matters, the value of a key is what the
\* lines of the file that belong to it say; and an error is the first one.
SettingsRead == side = "ini" => Ini!TypeOK /\ Ini!SettingsRead
=============================================================================
