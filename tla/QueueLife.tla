----------------------------- MODULE QueueLife -----------------------------
(***************************************************************************)
(* The life of moodycamel::ConcurrentQueue objects                         *)
(* (src/src/util/concurrentqueue.h): they are constructed, moved, swapped  *)
(* and destroyed, none of which is thread-safe, while their producers, the *)
(* tokens and the threads that have these, and their hash tables refer to  *)
(* one another and to the queues by address.  A queue's first hash table   *)
(* is part of the queue object.                                            *)
(*                                                                         *)
(* Each operation is one step here; ProducerTable is about those that run  *)
(* at the same time.  A new ImplicitProducer's table may be doubled first. *)
(***************************************************************************)
EXTENDS Integers, FiniteSets

CONSTANTS
  Queues,    \* addresses of queue objects
  Tables,    \* addresses of hash tables the allocator may return
  Producers, \* addresses of producers
  Threads,
  Tokens,    \* addresses of ProducerTokens
  Null       \* nullptr, and the invalid thread id

Parameters ==
  /\ Null \notin Queues \cup Tables \cup Producers \cup Threads \cup Tokens
  /\ Queues \cap Tables = {}

VARIABLES
  alive,     \* the queues there are
  list,      \* queue -> the producers in its list
  parent,    \* producer -> queue
  isExplicit,
  owner,     \* implicit producer -> the thread whose exit it listens to; Null if inactive
  hash,      \* queue -> implicitProducerHash
  prev,      \* table -> the table before it
  entries,   \* table -> thread -> the producer there
  made,      \* the tokens there are
  producer,  \* token -> its producer
  token      \* explicit producer -> its token; Null if inactive

ownVars == <<alive, list, parent>>
hashVars == <<hash, prev, entries>>
tokenVars == <<made, producer, token>>
vars == <<ownVars, isExplicit, owner, hashVars, tokenVars>>

AllTables == Queues \cup Tables
NoEntries == [t \in Threads |-> Null]

Init ==
  /\ alive = {} /\ list = [q \in Queues |-> {}]
  /\ parent = [p \in Producers |-> Null]
  /\ isExplicit = [p \in Producers |-> FALSE]
  /\ owner = [p \in Producers |-> Null]
  /\ hash = [q \in Queues |-> Null]
  /\ prev = [h \in AllTables |-> Null]
  /\ entries = [h \in AllTables |-> NoEntries]
  /\ made = {} /\ producer = [k \in Tokens |-> Null]
  /\ token = [p \in Producers |-> Null]

Set(f, x, y) == [f EXCEPT ![x] = y]

\* The tables of q, the newest first: all that a search goes through.
Chain(q) ==
  LET from[h \in AllTables \cup {Null}] ==
        IF h = Null THEN {} ELSE {h} \cup from[prev[h]]
  IN from[hash[q]]

Listed == UNION {list[q] : q \in alive}
InUse == UNION {Chain(q) : q \in alive}

-----------------------------------------------------------------------------
(* Queues *)

Construct(q) ==
  /\ q \notin alive /\ alive' = alive \cup {q}
  /\ hash' = Set(hash, q, q)
  /\ entries' = Set(entries, q, NoEntries) /\ prev' = Set(prev, q, Null)
  /\ UNCHANGED <<list, parent, isExplicit, owner, tokenVars>>

\* Mutant: tables that go to b still end in a's first one.
swap_implicit_producer_hashesOneWay(E, H, a, b) ==
  LET Other(h) == IF h = a THEN b ELSE IF h = b THEN a ELSE h
  IN /\ entries' = [E EXCEPT ![a] = E[b], ![b] = E[a]]
     /\ hash' = [H EXCEPT ![a] = Other(H[b]), ![b] = Other(H[a])]
     /\ prev' = [h \in AllTables |->
          IF h \in Tables /\ prev[h] = b THEN a ELSE IF h \in {a, b} THEN Null ELSE prev[h]]

\* E and H are the entries and hashes of two queues with their tables.  The
\* entries of the two first tables are swapped, and what pointed to one of the
\* two points to the other.
swap_implicit_producer_hashes(E, H, a, b) ==
  LET Other(h) == IF h = a THEN b ELSE IF h = b THEN a ELSE h
  IN /\ entries' = [E EXCEPT ![a] = E[b], ![b] = E[a]]
     /\ hash' = [H EXCEPT ![a] = Other(H[b]), ![b] = Other(H[a])]
     /\ prev' = [h \in AllTables |->
          IF h \in Tables THEN Other(prev[h]) ELSE IF h \in {a, b} THEN Null ELSE prev[h]]

\* Mutant: the producers are left with their parent.
reown_producersNot(l) == UNCHANGED parent

\* The producers in the lists l of the queues have these for parents.
reown_producers(l) ==
  parent' = [p \in Producers |->
    IF \E q \in Queues : p \in l[q] THEN CHOOSE q \in Queues : p \in l[q] ELSE parent[p]]

\* ConcurrentQueue(ConcurrentQueue&& other): other is left an empty queue.
MoveConstruct(q, other) ==
  LET l == [list EXCEPT ![q] = list[other], ![other] = {}]
  IN /\ q \notin alive /\ other \in alive
     /\ alive' = alive \cup {q}
     /\ swap_implicit_producer_hashes(
          [entries EXCEPT ![q] = NoEntries], [hash EXCEPT ![q] = q], q, other)
     /\ list' = l /\ reown_producers(l)
     /\ UNCHANGED <<isExplicit, owner, tokenVars>>

\* swap, and operator=, which swaps too.
Swap(a, b) ==
  LET l == [list EXCEPT ![a] = list[b], ![b] = list[a]]
  IN /\ a # b /\ {a, b} \subseteq alive
     /\ swap_implicit_producer_hashes(entries, hash, a, b)
     /\ list' = l /\ reown_producers(l)
     /\ UNCHANGED <<alive, isExplicit, owner, tokenVars>>

\* Mutant: tokens keep their producers.
DestroyKeepsTokens(q) ==
  /\ q \in alive /\ alive' = alive \ {q}
  /\ list' = Set(list, q, {})
  /\ parent' = [p \in Producers |-> IF p \in list[q] THEN Null ELSE parent[p]]
  /\ isExplicit' = [p \in Producers |-> p \notin list[q] /\ isExplicit[p]]
  /\ owner' = [p \in Producers |-> IF p \in list[q] THEN Null ELSE owner[p]]
  /\ token' = [p \in Producers |-> IF p \in list[q] THEN Null ELSE token[p]]
  /\ hash' = Set(hash, q, Null)
  /\ prev' = [h \in AllTables |-> IF h \in Chain(q) THEN Null ELSE prev[h]]
  /\ entries' = [h \in AllTables |-> IF h \in Chain(q) THEN NoEntries ELSE entries[h]]
  /\ UNCHANGED <<made, producer>>

\* The destructor: producers, which unsubscribe from thread exits, their
\* tokens' pointers, and tables.
Destroy(q) ==
  /\ q \in alive /\ alive' = alive \ {q}
  /\ list' = Set(list, q, {})
  /\ parent' = [p \in Producers |-> IF p \in list[q] THEN Null ELSE parent[p]]
  /\ isExplicit' = [p \in Producers |-> p \notin list[q] /\ isExplicit[p]]
  /\ owner' = [p \in Producers |-> IF p \in list[q] THEN Null ELSE owner[p]]
  /\ producer' = [k \in Tokens |->
       IF \E p \in list[q] : token[p] = k THEN Null ELSE producer[k]]
  /\ token' = [p \in Producers |-> IF p \in list[q] THEN Null ELSE token[p]]
  /\ hash' = Set(hash, q, Null)
  /\ prev' = [h \in AllTables |-> IF h \in Chain(q) THEN Null ELSE prev[h]]
  /\ entries' = [h \in AllTables |-> IF h \in Chain(q) THEN NoEntries ELSE entries[h]]
  /\ UNCHANGED made

-----------------------------------------------------------------------------
(* Producers *)

\* recycle_or_create_producer, in q.
Inactive(q, explicit) ==
  {p \in list[q] : isExplicit[p] = explicit /\ owner[p] = Null /\ token[p] = Null}
Choice(q, explicit) ==
  IF Inactive(q, explicit) # {} THEN Inactive(q, explicit) ELSE Producers \ Listed
Enter(q, p, explicit) ==
  /\ list' = Set(list, q, list[q] \cup {p})
  /\ parent' = IF p \in list[q] THEN parent ELSE Set(parent, p, q)
  /\ isExplicit' = Set(isExplicit, p, explicit)

\* What an enqueue by t in q finds: the newest entry.
Found(q, t) == {h \in Chain(q) : entries[h][t] # Null}

\* A thread that has no producer in q enqueues.  The newest table may be
\* doubled: g is the table that becomes the newest, hash[q] if none does.
Enqueue(t, q) ==
  /\ q \in alive /\ Found(q, t) = {}
  /\ \E p \in Choice(q, FALSE), g \in {hash[q]} \cup (Tables \ InUse) :
       /\ Enter(q, p, FALSE) /\ owner' = Set(owner, p, t)
       /\ hash' = Set(hash, q, g)
       /\ prev' = IF g = hash[q] THEN prev ELSE Set(prev, g, hash[q])
       /\ entries' = [entries EXCEPT ![g][t] = p]
  /\ UNCHANGED <<alive, tokenVars>>

\* One that has, but not in the newest table: it is put there too.
EnqueueCopies(t, q) ==
  /\ q \in alive /\ Found(q, t) # {} /\ entries[hash[q]][t] = Null
  /\ \E h \in Found(q, t) : entries' = [entries EXCEPT ![hash[q]][t] = entries[h][t]]
  /\ UNCHANGED <<ownVars, isExplicit, owner, hash, prev, tokenVars>>

\* implicit_producer_thread_exited, of each producer that listens: t is taken
\* out of the tables of its parent.
ThreadExit(t) ==
  LET mine == {p \in Producers : owner[p] = t}
      swept == UNION {Chain(parent[p]) : p \in mine}
  IN /\ mine # {}
     /\ entries' = [h \in AllTables |->
          IF h \in swept THEN Set(entries[h], t, Null) ELSE entries[h]]
     /\ owner' = [p \in Producers |-> IF p \in mine THEN Null ELSE owner[p]]
     /\ UNCHANGED <<ownVars, isExplicit, hash, prev, tokenVars>>

-----------------------------------------------------------------------------
(* ProducerToken *)

TokenMade(k, q) ==
  /\ k \notin made /\ q \in alive
  /\ made' = made \cup {k}
  /\ \E p \in Choice(q, TRUE) :
       /\ Enter(q, p, TRUE)
       /\ producer' = Set(producer, k, p) /\ token' = Set(token, p, k)
  /\ UNCHANGED <<alive, owner, hashVars>>

\* ProducerToken(ProducerToken&& other)
TokenMoved(k, other) ==
  LET p == producer[other]
  IN /\ k \notin made /\ other \in made
     /\ made' = made \cup {k}
     /\ producer' = [producer EXCEPT ![k] = p, ![other] = Null]
     /\ token' = IF p = Null THEN token ELSE Set(token, p, k)
     /\ UNCHANGED <<ownVars, isExplicit, owner, hashVars>>

\* swap, and operator=.
TokenSwap(k, l) ==
  LET p == producer[l]  r == producer[k]
  IN /\ k # l /\ {k, l} \subseteq made
     /\ producer' = [producer EXCEPT ![k] = p, ![l] = r]
     /\ token' = [x \in Producers |-> IF x = p THEN k ELSE IF x = r THEN l ELSE token[x]]
     /\ UNCHANGED <<ownVars, isExplicit, owner, hashVars, made>>

TokenGone(k) ==
  LET p == producer[k]
  IN /\ k \in made /\ made' = made \ {k}
     /\ producer' = Set(producer, k, Null)
     /\ token' = IF p = Null THEN token ELSE Set(token, p, Null)
     /\ UNCHANGED <<ownVars, isExplicit, owner, hashVars>>

-----------------------------------------------------------------------------
QueueStep ==
  \/ \E q \in Queues : Construct(q) \/ Destroy(q)
  \/ \E a, b \in Queues : MoveConstruct(a, b) \/ Swap(a, b)

ProducerStep ==
  \E t \in Threads :
    ThreadExit(t) \/ \E q \in Queues : Enqueue(t, q) \/ EnqueueCopies(t, q)

TokenStep ==
  \/ \E k \in Tokens, q \in Queues : TokenMade(k, q)
  \/ \E k, l \in Tokens : TokenMoved(k, l) \/ TokenSwap(k, l)
  \/ \E k \in Tokens : TokenGone(k)

Next == QueueStep \/ ProducerStep \/ TokenStep

Spec == Init /\ [][Next]_vars

-----------------------------------------------------------------------------
(* Properties *)

TypeOK ==
  /\ alive \subseteq Queues /\ list \in [Queues -> SUBSET Producers]
  /\ parent \in [Producers -> Queues \cup {Null}]
  /\ isExplicit \in [Producers -> BOOLEAN]
  /\ owner \in [Producers -> Threads \cup {Null}]
  /\ hash \in [Queues -> AllTables \cup {Null}]
  /\ prev \in [AllTables -> AllTables \cup {Null}]
  /\ entries \in [AllTables -> [Threads -> Producers \cup {Null}]]
  /\ made \subseteq Tokens /\ producer \in [Tokens -> Producers \cup {Null}]
  /\ token \in [Producers -> Tokens \cup {Null}]

\* After any moves and swaps, each queue's tables are its own: the search that
\* begins at its newest table goes through none of another queue's and ends in
\* the one that is part of the queue.
ChainsApart ==
  LET chain == [q \in alive |-> Chain(q)]
  IN \A q \in alive :
       /\ chain[q] \cap Queues = {q} /\ prev[q] = Null
       /\ \A r \in alive \ {q} : chain[q] \cap chain[r] = {}

\* "its tokens are still valid but can only be used with the destination queue":
\* a thread that enqueues in the queue it was moved to finds its producer, the
\* one that listens to its exit, with this queue for parent.
FollowsTheMove ==
  \A q \in alive :
    /\ \A p \in list[q] : parent[p] = q
    /\ \A t \in Threads : {entries[h][t] : h \in Found(q, t)} =
         {p \in list[q] : owner[p] = t}

\* A token and its producer point to each other or not at all, however the
\* tokens are moved and whatever is destroyed first.
TokensPaired ==
  /\ \A k \in Tokens : producer[k] # Null =>
       k \in made /\ producer[k] \in Listed /\ token[producer[k]] = k
  /\ \A p \in Producers : token[p] # Null => producer[token[p]] = p
=============================================================================
