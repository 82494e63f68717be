--------------------------- MODULE ProducerTable ---------------------------
(***************************************************************************)
(* The producers of a moodycamel::ConcurrentQueue and who has them         *)
(* (src/src/util/concurrentqueue.h).  A thread that enqueues without a     *)
(* token has an ImplicitProducer, which it finds by its id in a hash       *)
(* table; a ProducerToken has an ExplicitProducer.  A producer whose owner *)
(* is gone stays in the list of producers and is given to a new one.       *)
(*                                                                         *)
(* The tables grow: each is kept, and those made later are searched first. *)
(* A slot that was used never becomes free again, only reusable; it stops  *)
(* no search.  The slots a thread passes without having its id there do    *)
(* not change for it, so that a search for its own id is one step.         *)
(***************************************************************************)
EXTENDS Integers, FiniteSets, Powers

CONSTANTS
  Threads,       \* thread ids
  Mortal,        \* bound: the threads that exit
  Casts,         \* bound: the sets of users to look at
  Tokens,        \* ProducerTokens
  hash_thread_id,\* thread id -> hash
  InitialSize,   \* INITIAL_IMPLICIT_PRODUCER_HASH_SIZE
  MaxTables,     \* bound: tables there can be
  MaxProducers   \* bound: producers there can be
                 \* (beyond either, an allocation fails)

Users == Threads \cup Tokens

\* Keys of a slot: the two invalid ids, or a thread.
Free == "invalid_thread_id"
Reusable == "invalid_thread_id2"

\* What the parameters are.
Parameters ==
  /\ Threads \cap Tokens = {} /\ IsFiniteSet(Users)
  /\ Free \notin Threads /\ Reusable \notin Threads
  /\ hash_thread_id \in [Threads -> Nat]
  /\ \E n \in 0 .. 31 : InitialSize = Pow2[n]
  /\ MaxTables \in Nat \ {0} /\ MaxProducers \in Nat

Producers == 1 .. MaxProducers
None == 0

VARIABLES
  tables,      \* table -> its capacity (0 if there is none) and its slots
  table,       \* implicitProducerHash: the newest table
  count,       \* implicitProducerHashCount
  resizing,    \* implicitProducerHashResizeInProgress
  producers,   \* how many there are, numbered in order of creation
  isExplicit, inactive, \* of each producer
  upc,         \* user -> next step of its call
  mainHash, newCount, index, hash, ptr, \* its locals
  mine,        \* user -> the producer it was given
  cast,        \* the users there are
  reusedOld    \* history: an id went into a reusable slot of a table grown over

tableVars == <<tables, table, count, resizing>>
producerVars == <<producers, isExplicit, inactive>>
localVars == <<upc, mainHash, newCount, index, hash, ptr>>
vars == <<tableVars, producerVars, localVars, mine, cast, reusedOld>>

NewTable(cap) == [key |-> [s \in 0 .. cap - 1 |-> Free], value |-> [s \in 0 .. cap - 1 |-> None]]

Init ==
  /\ tables = [h \in {1} |-> NewTable(InitialSize)]
  /\ table = 1 /\ count = 0 /\ resizing = FALSE
  /\ producers = 0
  /\ isExplicit = [p \in Producers |-> FALSE] /\ inactive = [p \in Producers |-> FALSE]
  /\ upc = [u \in Users |-> "out"]
  /\ mainHash = [t \in Threads |-> None] /\ newCount = [t \in Threads |-> 0]
  /\ index = [t \in Threads |-> 0] /\ hash = [t \in Threads |-> None]
  /\ ptr = [u \in Users |-> None] /\ mine = [u \in Users |-> None]
  /\ cast \in Casts /\ reusedOld = FALSE

Set(f, x, y) == [f EXCEPT ![x] = y]
Goto(u, place) == upc' = Set(upc, u, place)
Size(h) == Cardinality(DOMAIN tables[h].key)
Slot(h, i) == i % Size(h)
Half(h) == Size(h) \div 2

\* A call of a thread returns: its locals are gone.
Return(t) ==
  /\ Goto(t, "out")
  /\ mainHash' = Set(mainHash, t, None) /\ newCount' = Set(newCount, t, 0)
  /\ index' = Set(index, t, 0) /\ hash' = Set(hash, t, None)
  /\ ptr' = Set(ptr, t, None)

-----------------------------------------------------------------------------
(* recycle_or_create_producer *)

\* u has its producer p.  A token's constructor is done, a thread goes on to
\* insert itself; it will be told when it exits.
Given(u, p) ==
  /\ mine' = Set(mine, u, p) /\ ptr' = Set(ptr, u, None)
  /\ IF u \in Tokens THEN Goto(u, "out") /\ UNCHANGED index
     ELSE /\ Goto(u, "insert")
          /\ index' = Set(index, u, Slot(mainHash[u], hash_thread_id[u]))

\* Mutant: an inactive producer of either kind.
RecycleAny(u) ==
  LET p == ptr[u]
  IN /\ upc[u] = "recycle" /\ p # None
     /\ IF inactive[p]
          THEN inactive' = Set(inactive, p, FALSE) /\ Given(u, p)
          ELSE ptr' = Set(ptr, u, p - 1) /\ UNCHANGED <<inactive, mine, upc, index>>
     /\ UNCHANGED <<tableVars, producers, isExplicit, mainHash, newCount, hash>>

\* A step along the list, which producers enter at its head.
Recycle(u) ==
  LET p == ptr[u]
  IN /\ upc[u] = "recycle" /\ p # None
     /\ IF inactive[p] /\ isExplicit[p] = (u \in Tokens)
          THEN inactive' = Set(inactive, p, FALSE) /\ Given(u, p)
          ELSE ptr' = Set(ptr, u, p - 1) /\ UNCHANGED <<inactive, mine, upc, index>>
     /\ UNCHANGED <<tableVars, producers, isExplicit, mainHash, newCount, hash>>

\* add_producer, of a new one if memory allows.
Create(u) ==
  /\ upc[u] = "recycle" /\ ptr[u] = None /\ producers < MaxProducers
  /\ producers' = producers + 1
  /\ isExplicit' = Set(isExplicit, producers + 1, u \in Tokens)
  /\ Given(u, producers + 1)
  /\ UNCHANGED <<tableVars, inactive, mainHash, newCount, hash>>

\* No memory: a token without a producer, a thread whose call fails uncounted.
CreateFails(u) ==
  /\ upc[u] = "recycle" /\ ptr[u] = None /\ producers = MaxProducers
  /\ IF u \in Tokens
       THEN Goto(u, "out") /\ UNCHANGED <<count, mainHash, newCount, index, hash, ptr>>
       ELSE count' = count - 1 /\ Return(u)
  /\ UNCHANGED <<tables, table, resizing, producerVars, mine>>

\* ProducerToken(queue) and ~ProducerToken().
TokenMade(k) ==
  /\ upc[k] = "out" /\ mine[k] = None /\ k \in cast
  /\ Goto(k, "recycle") /\ ptr' = Set(ptr, k, producers)
  /\ UNCHANGED <<tableVars, producerVars, mainHash, newCount, index, hash, mine>>
TokenGone(k) ==
  /\ upc[k] = "out" /\ mine[k] # None
  /\ inactive' = Set(inactive, mine[k], TRUE)
  /\ mine' = Set(mine, k, None)
  /\ UNCHANGED <<tableVars, producers, isExplicit, localVars>>

-----------------------------------------------------------------------------
(* get_or_add_implicit_producer *)

LoadTable(t) ==
  /\ upc[t] = "out" /\ t \in cast
  /\ Goto(t, "search") /\ mainHash' = Set(mainHash, t, table)
  /\ UNCHANGED <<tableVars, producerVars, newCount, index, hash, ptr, mine>>

\* The slot of table h where a search for t that stops at a free one ends, of
\* as many places as the table has; None if it does not end.
Stops(t, h) ==
  {n \in 0 .. Size(h) - 1 : tables[h].key[Slot(h, hash_thread_id[t] + n)] \in {t, Free}}
EndOf(t, h) == Slot(h, hash_thread_id[t] + (CHOOSE n \in Stops(t, h) : \A k \in Stops(t, h) : n <= k))
IsIn(t, h) == tables[h].key[EndOf(t, h)] = t
Ends(t, h) == Stops(t, h) # {}

\* Mutant: the older tables are not searched.
FoundInMain(t) == {h \in {mainHash[t]} : Ends(t, h) /\ IsIn(t, h)}

\* The newest table that has t, if its search ends in all up to there.
Found(t) == {h \in 1 .. mainHash[t] : Ends(t, h) /\ IsIn(t, h)}
Newest(S) == CHOOSE h \in S : \A g \in S : g <= h

\* t is in a table: if in an older one it will be put into the main one too.
Search(t) ==
  /\ upc[t] = "search" /\ Found(t) # {}
  /\ LET h == Newest(Found(t))
     IN /\ \A g \in h .. mainHash[t] : Ends(t, g)
        /\ IF h = mainHash[t] THEN Return(t)
           ELSE /\ Goto(t, "copy")
                /\ index' = Set(index, t, Slot(mainHash[t], hash_thread_id[t]))
                /\ UNCHANGED <<mainHash, newCount, hash, ptr>>
  /\ UNCHANGED <<tableVars, producerVars, mine>>

\* It is in none: it is counted before it is inserted.
Count(t) ==
  /\ upc[t] = "search" /\ Found(t) = {}
  /\ \A g \in 1 .. mainHash[t] : Ends(t, g)
  /\ count' = count + 1 /\ newCount' = Set(newCount, t, count + 1)
  /\ Goto(t, "check")
  /\ UNCHANGED <<tables, table, resizing, producerVars, mainHash, index, hash, ptr, mine>>

Put(t, h, s) ==
  tables' = [tables EXCEPT ![h].key[s] = t, ![h].value[s] = mine[t]]
NextIndex(t) ==
  /\ index' = Set(index, t, Slot(mainHash[t], index[t] + 1))
  /\ UNCHANGED <<tables, upc, mainHash, newCount, hash, ptr>>

\* The lazy add: "there's guaranteed to be room in the current hash table".
Copy(t) ==
  LET h == mainHash[t]  s == index[t]
  IN /\ upc[t] = "copy"
     /\ IF tables[h].key[s] \in {Free, Reusable}
          THEN Put(t, h, s) /\ Return(t)
          ELSE NextIndex(t)
     /\ UNCHANGED <<table, count, resizing, producerVars, mine>>

\* Half full: whoever gets the flag loads the newest table and doubles it
\* until it is less than half full.
Lock(t) ==
  /\ upc[t] = "check" /\ newCount[t] >= Half(mainHash[t]) /\ ~resizing
  /\ resizing' = TRUE /\ mainHash' = Set(mainHash, t, table)
  /\ Goto(t, "grow")
  /\ UNCHANGED <<tables, table, count, producerVars, newCount, index, hash, ptr, mine>>

NewCapacity(t) ==
  CHOOSE c \in {Size(mainHash[t]) * Pow2[n] : n \in 1 .. newCount[t] + 1} :
    /\ newCount[t] < c \div 2
    /\ c = 2 * Size(mainHash[t]) \/ newCount[t] >= c \div 4

Grow(t) ==
  /\ upc[t] = "grow" /\ newCount[t] >= Half(mainHash[t]) /\ table < MaxTables
  /\ tables' = [h \in 1 .. table + 1 |->
                  IF h <= table THEN tables[h] ELSE NewTable(NewCapacity(t))]
  /\ table' = table + 1 /\ mainHash' = Set(mainHash, t, table + 1)
  /\ resizing' = FALSE /\ Goto(t, "room")
  /\ UNCHANGED <<count, producerVars, newCount, index, hash, ptr, mine>>

\* Mutant: the flag stays set.
GrownKeepsFlag(t) ==
  /\ upc[t] = "grow" /\ newCount[t] < Half(mainHash[t])
  /\ Goto(t, "room")
  /\ UNCHANGED <<tables, table, count, resizing, producerVars, mainHash, newCount, index, hash, ptr, mine>>

\* Somebody has grown it since the check.
GrownAlready(t) ==
  /\ upc[t] = "grow" /\ newCount[t] < Half(mainHash[t])
  /\ resizing' = FALSE /\ Goto(t, "room")
  /\ UNCHANGED <<tables, table, count, producerVars, mainHash, newCount, index, hash, ptr, mine>>

\* No memory: the call fails, uncounted; then the flag is cleared.
GrowFails(t) ==
  /\ upc[t] = "grow" /\ newCount[t] >= Half(mainHash[t]) /\ table = MaxTables
  /\ count' = count - 1 /\ Goto(t, "unlock")
  /\ UNCHANGED <<tables, table, resizing, producerVars, mainHash, newCount, index, hash, ptr, mine>>
Unlock(t) ==
  /\ upc[t] = "unlock"
  /\ resizing' = FALSE /\ Return(t)
  /\ UNCHANGED <<tables, table, count, producerVars, mine>>

\* Not half full, or somebody else is at it.
NoLock(t) ==
  /\ upc[t] = "check" /\ (newCount[t] < Half(mainHash[t]) \/ resizing)
  /\ Goto(t, "room")
  /\ UNCHANGED <<tableVars, producerVars, mainHash, newCount, index, hash, ptr, mine>>

\* Mutant: there is always room.
HasRoomAlways(t) == TRUE

HasRoom(t) == newCount[t] < Half(mainHash[t]) + Size(mainHash[t]) \div 4

\* Less than three quarters full: a producer, and then a slot for it.
Room(t) ==
  /\ upc[t] = "room" /\ HasRoom(t)
  /\ Goto(t, "recycle") /\ ptr' = Set(ptr, t, producers)
  /\ newCount' = Set(newCount, t, 0)
  /\ UNCHANGED <<tableVars, producerVars, mainHash, index, hash, mine>>

\* "We need to wait for the allocating thread to finish"
NoRoom(t) ==
  /\ upc[t] = "room" /\ ~HasRoom(t)
  /\ mainHash' = Set(mainHash, t, table) /\ Goto(t, "check")
  /\ UNCHANGED <<tableVars, producerVars, newCount, index, hash, ptr, mine>>

\* A reusable slot "is already counted as a used slot".
Insert(t) ==
  LET h == mainHash[t]  s == index[t]
  IN /\ upc[t] = "insert"
     /\ CASE tables[h].key[s] = Reusable ->
               /\ Put(t, h, s) /\ Goto(t, "uncount")
               /\ UNCHANGED <<mainHash, newCount, index, hash, ptr>>
          [] tables[h].key[s] = Free -> Put(t, h, s) /\ Return(t)
          [] OTHER -> NextIndex(t)
     /\ UNCHANGED <<table, count, resizing, producerVars, mine>>
Uncount(t) ==
  /\ upc[t] = "uncount"
  /\ count' = count - 1 /\ Return(t)
  /\ UNCHANGED <<tables, table, resizing, producerVars, mine>>

-----------------------------------------------------------------------------
(* implicit_producer_thread_exited *)

Exit(t) ==
  /\ upc[t] = "out" /\ mine[t] # None /\ t \in Mortal
  /\ Goto(t, "remove") /\ hash' = Set(hash, t, table)
  /\ UNCHANGED <<tableVars, producerVars, mainHash, newCount, index, ptr, mine>>

\* t's id is taken out of every table, the newest first.
Remove(t) ==
  LET h == hash[t]
  IN /\ upc[t] = "remove" /\ h # None /\ Ends(t, h)
     /\ tables' = IF IsIn(t, h) THEN [tables EXCEPT ![h].key[EndOf(t, h)] = Reusable]
                  ELSE tables
     /\ hash' = Set(hash, t, h - 1)
     /\ UNCHANGED <<table, count, resizing, producerVars, upc, mainHash, newCount, index, ptr, mine>>

\* The id may be the next thread's.
Recyclable(t) ==
  /\ upc[t] = "remove" /\ hash[t] = None
  /\ inactive' = Set(inactive, mine[t], TRUE)
  /\ mine' = Set(mine, t, None)
  /\ Return(t)
  /\ UNCHANGED <<tableVars, producers, isExplicit>>

-----------------------------------------------------------------------------
Resume(t) ==
  \/ Search(t) \/ Count(t) \/ Copy(t) \/ Lock(t) \/ Grow(t) \/ GrownAlready(t)
  \/ GrowFails(t) \/ Unlock(t) \/ NoLock(t) \/ Room(t) \/ NoRoom(t)
  \/ Recycle(t) \/ Create(t) \/ CreateFails(t) \/ Insert(t) \/ Uncount(t)
  \/ Remove(t) \/ Recyclable(t)

TokenStep(k) == Recycle(k) \/ Create(k) \/ CreateFails(k)

ReusesOld ==
  \E t \in Threads :
    /\ upc[t] = "insert" /\ upc'[t] = "uncount"
    /\ mainHash[t] # table

Next ==
  /\ \/ \E t \in Threads : LoadTable(t) \/ Exit(t) \/ Resume(t)
     \/ \E k \in Tokens : TokenMade(k) \/ TokenGone(k) \/ TokenStep(k)
  /\ UNCHANGED cast
  /\ reusedOld' = (reusedOld \/ ReusesOld)

Spec == Init /\ [][Next]_vars

-----------------------------------------------------------------------------
(* Properties *)

TypeOK ==
  /\ table \in 1 .. MaxTables /\ DOMAIN tables = 1 .. table
  /\ count \in Nat /\ resizing \in BOOLEAN
  /\ producers \in 0 .. MaxProducers
  /\ mine \in [Users -> 0 .. producers]
  /\ ptr \in [Users -> 0 .. producers]
  /\ mainHash \in [Threads -> 0 .. table] /\ hash \in [Threads -> 0 .. table]

\* "Not an infinite loop because at least one slot is free in the hash table",
\* and "guaranteed to be room in the current hash table".
SlotFree == \A h \in 1 .. table : \E s \in DOMAIN tables[h].key : tables[h].key[s] = Free

\* The code's count keeps it so until an id goes into a reusable slot of a table
\* grown over: the next search copies that id to a free slot of the newest
\* table, and neither insertion is counted.
SlotFreeWhileCounted == ~reusedOld => SlotFree

\* No two have one producer, and each has one of its own kind: an enqueue is
\* not safe for two threads at a time.
OwnersApart ==
  \A u \in Users : mine[u] # None =>
    /\ \A v \in Users : mine[v] = mine[u] => u = v
    /\ isExplicit[mine[u]] = (u \in Tokens)
    /\ ~inactive[mine[u]]

\* A thread that enqueues again finds its own producer: it never gets another
\* while it has one, in whatever table its id is.
KeepsProducer ==
  \A t \in Threads :
    mine[t] # None =>
      /\ upc[t] \notin {"check", "grow", "room", "recycle"}
      /\ upc[t] = "search" /\ Found(t) # {} =>
           tables[Newest(Found(t))].value[EndOf(t, Newest(Found(t)))] = mine[t]

\* The flag is set while somebody is at it and no longer: those who wait for a
\* table, or for their turn to make one, do not wait for ever.
FlagHeld ==
  /\ resizing = (\E t \in Threads : upc[t] \in {"grow", "unlock"})
  /\ Cardinality({t \in Threads : upc[t] \in {"grow", "unlock"}}) <= 1
=============================================================================
