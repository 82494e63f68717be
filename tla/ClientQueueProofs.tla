------------------------- MODULE ClientQueueProofs -------------------------
(***************************************************************************)
(* Theorems about parts of the client's queue, for any number of threads.  *)
(*                                                                         *)
(* BlockPool and the FreeList below it: no block is handed out twice or    *)
(* lost, though a thread may compare the head with one it read before      *)
(* others took that node off and put it back.  The invariant gives every   *)
(* block one place: in the pool not drawn yet ("pool"), not allocated      *)
(* ("none"), with a thread ("held", "got"), just taken off the list        *)
(* ("take"), being added before its count is one ("early") or after        *)
(* ("push"), to be added by the last that refers to it ("due"), on the     *)
(* list ("list").  A place and a count of references determine each other, *)
(* so that a node is changed by nobody while another may still compare     *)
(* with it.                                                                *)
(*                                                                         *)
(* ProducerTable: who has a producer has it alone and finds it again,      *)
(* though the table grows and others leave it meanwhile.  The invariant    *)
(* says of each id in a table that a search for it comes to its slot; as   *)
(* no slot becomes free again, a search comes to where it came before.     *)
(* Where no thread exits, so that no slot is reused, one of every table    *)
(* stays free.                                                             *)
(*                                                                         *)
(* ProducerList: a dequeue that finds nothing has been at every producer   *)
(* listed when it began, and the tokens of consumers are spread over the   *)
(* producers.  The invariant says which of them a walk has been at.        *)
(*                                                                         *)
(* QueueLife: through moves, swaps and destruction the tables of queues    *)
(* stay apart, producers and threads find one another in the queue they    *)
(* were moved to, and a token and its producer are a pair.  The invariant  *)
(* gives every table a queue it is at home in and a rank there, which is   *)
(* what a search among them comes down by.                                 *)
(***************************************************************************)
EXTENDS BlockPool, NatFacts

Steps == {"idle", "adding", "link", "count", "push", "retry",
          "grab", "next", "pop", "take", "drop"}
Kinds == {"pool", "none", "held", "got", "take", "early", "push", "due",
          "list"}

\* The threads that hold a reference to n, beside the one of the list.
Refs(n) ==
  {t \in Threads : fpc[t] \in {"next", "pop", "take", "drop"} /\ node[t] = n}
Extra(k) == IF k \in {"list", "push", "take"} THEN 1 ELSE 0

ListTypes ==
  /\ freeListHead \in Nodes \cup {Null}
  /\ freeListRefs \in [Nodes -> Int]
  /\ should \in [Nodes -> BOOLEAN]
  /\ freeListNext \in [Nodes -> Nodes \cup {Null}]
LocalTypes ==
  /\ fpc \in [Threads -> Steps]
  /\ head \in [Threads -> Nodes \cup {Null}]
  /\ node \in [Threads -> Nodes \cup {Null}]
  /\ next \in [Threads -> Nodes \cup {Null}]
  /\ got \in [Threads -> Nodes \cup {Null}]
BlockTypes ==
  /\ initialBlockPoolIndex \in Nat
  /\ ppc \in [Threads -> {"idle", "draw", "list", "listed"}]
  /\ held \in [Threads -> SUBSET Nodes]
  /\ allocated \in SUBSET Nodes
PoolTypes == ListTypes /\ LocalTypes /\ BlockTypes

\* What a thread's place says of its locals.
Locals ==
  \A t \in Threads :
    /\ fpc[t] \in {"grab", "next", "pop", "take", "drop"} => ppc[t] = "listed"
    /\ head[t] # Null => ppc[t] = "listed" /\ fpc[t] # "idle"
    /\ got[t] # Null => ppc[t] = "listed" /\ fpc[t] = "idle"
    /\ fpc[t] = "grab" => head[t] \in Nodes
    /\ fpc[t] \notin {"idle", "grab"} => node[t] \in Nodes

\* The next that a thread compares or publishes with is the node's own.
Links ==
  \A t \in Threads :
    fpc[t] \in {"count", "push", "pop"} => next[t] = freeListNext[node[t]]

\* The list: N nodes, the head being the N-th.
Chain(kind, L, N) ==
  /\ L[0] = Null /\ L[N] = freeListHead
  /\ \A i \in 1 .. N :
       L[i] \in Nodes /\ kind[L[i]] = "list" /\ freeListNext[L[i]] = L[i - 1]
  /\ \A i, j \in 1 .. N : L[i] = L[j] => i = j
  /\ \A n \in Nodes : kind[n] = "list" => \E i \in 1 .. N : L[i] = n

\* Each block is in one place, and with one thread if it is with threads.
Placed(kind, who) ==
  /\ \A t \in Threads, n \in Nodes :
       /\ n \in held[t] <=> kind[n] = "held" /\ who[n] = t
       /\ got[t] = n <=> kind[n] = "got" /\ who[n] = t
       /\ fpc[t] = "take" /\ node[t] = n <=> kind[n] = "take" /\ who[n] = t
       /\ fpc[t] \in {"adding", "link", "count"} /\ node[t] = n <=>
            kind[n] = "early" /\ who[n] = t
       /\ fpc[t] \in {"push", "retry"} /\ node[t] = n <=>
            kind[n] = "push" /\ who[n] = t
  /\ \A n \in Nodes :
       /\ kind[n] \in {"held", "got", "take", "early", "push"} =>
            who[n] \in Threads
       /\ should[n] <=> kind[n] \in {"early", "due"}
       /\ NotDrawn(n) <=> kind[n] = "pool"
       /\ kind[n] = "none" <=> n \notin PoolBlocks \cup allocated
       /\ n \in allocated => n \notin PoolBlocks

\* The count of references is that of the threads and of the list, or of who
\* is about to add to it or has just taken from it.
Counts(kind) ==
  \A n \in Nodes :
    /\ freeListRefs[n] = Cardinality(Refs(n)) + Extra(kind[n])
    /\ kind[n] = "early" => Refs(n) = {}
    /\ kind[n] = "due" => Refs(n) # {}

Ghosts ==
  \E N \in Nat, L \in [Nat -> Nodes \cup {Null}], kind \in [Nodes -> Kinds],
     who \in [Nodes -> Threads \cup {Null}] :
    Chain(kind, L, N) /\ Placed(kind, who) /\ Counts(kind)

\* A thread draws from the pool only if there was something in it before.
Drawing == {t \in Threads : ppc[t] = "draw"}
DrawBound ==
  initialBlockPoolIndex + Cardinality(Drawing)
    <= Len(Pool) + Cardinality(Threads)

PoolInv == PoolTypes /\ Locals /\ Links /\ Ghosts /\ DrawBound

-----------------------------------------------------------------------------
\* The constants, spelled out for the provers.
LEMMA PoolFacts ==
  ASSUME Parameters
  PROVE  /\ IsFiniteSet(Threads) /\ IsFiniteSet(Nodes) /\ Null \notin Nodes
         /\ Len(Pool) \in Nat /\ DOMAIN Pool = 1 .. Len(Pool)
         /\ \A i \in 1 .. Len(Pool) : Pool[i] \in Nodes
         /\ PoolBlocks \in SUBSET Nodes
<1> USE DEF Parameters
<1>1. Pool \in Seq(Nodes)
  OBVIOUS
<1>2. Len(Pool) \in Nat /\ DOMAIN Pool = 1 .. Len(Pool)
  BY <1>1
<1>3. \A i \in 1 .. Len(Pool) : Pool[i] \in Nodes
  BY <1>1
<1> QED BY <1>2, <1>3 DEF PoolBlocks

\* At the start a block is in the pool or not allocated, and the list is empty.
LEMMA PoolInit == ASSUME Parameters, Init PROVE PoolInv
<1> USE DEF Init, FreeListInit
<1>1. PoolTypes /\ Locals /\ Links
  BY DEF PoolTypes, ListTypes, LocalTypes, BlockTypes, Locals, Links, Steps
<1> DEFINE k == [n \in Nodes |-> IF n \in PoolBlocks THEN "pool" ELSE "none"]
           w == [n \in Nodes |-> Null]
           M == [i \in Nat |-> Null]
<1>2. k \in [Nodes -> Kinds] /\ w \in [Nodes -> Threads \cup {Null}]
      /\ M \in [Nat -> Nodes \cup {Null}]
  BY DEF Kinds
<1>3. Chain(k, M, 0)
  BY DEF Chain
<1>4. ASSUME NEW n \in Nodes PROVE NotDrawn(n) <=> n \in PoolBlocks
  BY PoolFacts DEF NotDrawn, PoolBlocks
<1>5. Placed(k, w)
  BY <1>4, PoolFacts DEF Placed
<1>6. ASSUME NEW n \in Nodes PROVE Refs(n) = {}
  BY DEF Refs
<1>7. Counts(k)
  BY <1>6, FS_EmptySet DEF Counts, Extra
<1>8. DrawBound
  <2>1. Drawing = {}
    BY DEF Drawing
  <2>2. Cardinality(Threads) \in Nat
    BY PoolFacts, FS_CardinalityType
  <2> QED BY <2>1, <2>2, FS_EmptySet, PoolFacts DEF DrawBound
<1> QED BY <1>1, <1>2, <1>3, <1>5, <1>7, <1>8 DEF PoolInv, Ghosts

\* A call that returns leaves its locals in their types, ...
LEMMA ReturnTypes ==
  ASSUME LocalTypes, NEW t \in Threads, NEW n \in Nodes \cup {Null},
         Return(t, n)
  PROVE  LocalTypes'
BY DEF LocalTypes, Return, Goto, Set, Steps

\* ... and so does one that goes on.
LEMMA ResumeTypes ==
  ASSUME LocalTypes, NEW t \in Threads, Resume(t) PROVE LocalTypes'
<1>1. CASE head[t] = Null
  BY <1>1, ReturnTypes DEF Resume
<1>2. CASE head[t] # Null
  BY <1>2 DEF Resume, LocalTypes, Goto, Set, Steps
<1> QED BY <1>1, <1>2

\* A step keeps the types, ...
LEMMA PoolTypesStep ==
  ASSUME Parameters, PoolTypes, Locals, Next PROVE PoolTypes'
<1> USE PoolFacts, ReturnTypes, ResumeTypes DEF PoolTypes, Goto, Set, Busy,
    freeListVars, listVars, localVars, poolVars
<1>1. PICK t \in Threads :
        \/ Requisition(t) \/ Draw(t) \/ FromList(t) \/ Step(t) \/ Receive(t)
        \/ Create(t) \/ \E b \in held[t] : Release(t, b)
  BY DEF Next
<1>2. CASE Requisition(t)
  BY <1>2 DEF Requisition, Steps, ListTypes, LocalTypes, BlockTypes
<1>3. CASE Draw(t)
  <2>1. ListTypes' /\ LocalTypes'
    BY <1>3 DEF Draw, ListTypes, LocalTypes
  <2>2. initialBlockPoolIndex' \in Nat /\ allocated' \in SUBSET Nodes
        /\ ppc' \in [Threads -> {"idle", "draw", "list", "listed"}]
    BY <1>3 DEF Draw, BlockTypes
  <2>3. initialBlockPoolIndex < Len(Pool) =>
          Pool[initialBlockPoolIndex + 1] \in Nodes
    BY DEF BlockTypes
  <2>4. held' \in [Threads -> SUBSET Nodes]
    BY <1>3, <2>3 DEF Draw, BlockTypes
  <2> QED BY <2>1, <2>2, <2>4 DEF BlockTypes
<1>4. CASE FromList(t)
  <2>1. ListTypes' /\ BlockTypes'
    BY <1>4 DEF FromList, TryGet, ListTypes, BlockTypes
  <2>2. CASE freeListHead = Null
    BY <1>4, <2>1, <2>2 DEF FromList, TryGet
  <2>3. CASE freeListHead # Null
    <3>1. "grab" \in Steps
      BY DEF Steps
    <3>2. fpc' \in [Threads -> Steps]
      BY <1>4, <2>3, <3>1 DEF FromList, TryGet, LocalTypes
    <3>3. head' \in [Threads -> Nodes \cup {Null}]
      BY <1>4, <2>3 DEF FromList, TryGet, ListTypes, LocalTypes
    <3>4. UNCHANGED <<node, next, got>>
      BY <1>4, <2>3 DEF FromList, TryGet
    <3> QED BY <2>1, <3>2, <3>3, <3>4 DEF LocalTypes
  <2> QED BY <2>2, <2>3
<1>5. CASE Receive(t)
  BY <1>5 DEF Receive, ListTypes, LocalTypes, BlockTypes
<1>6. CASE Create(t)
  <2>1. ListTypes'
    BY <1>6 DEF Create, freeListVars, ListTypes
  <2>2. LocalTypes'
    BY <1>6 DEF Create, freeListVars, LocalTypes
  <2>3. initialBlockPoolIndex' \in Nat
        /\ ppc' \in [Threads -> {"idle", "draw", "list", "listed"}]
    BY <1>6 DEF Create, BlockTypes
  <2>4. held' \in [Threads -> SUBSET Nodes] /\ allocated' \in SUBSET Nodes
    <3>1. CASE UNCHANGED <<allocated, held>>
      BY <3>1 DEF BlockTypes
    <3>2. CASE \E b \in Nodes \ (PoolBlocks \cup allocated) :
                 /\ allocated' = allocated \cup {b}
                 /\ held' = [held EXCEPT ![t] = @ \cup {b}]
      BY <3>2 DEF BlockTypes
    <3> QED BY <1>6, <3>1, <3>2 DEF Create
  <2> QED BY <2>1, <2>2, <2>3, <2>4 DEF BlockTypes
<1>7. CASE \E b \in held[t] : Release(t, b)
  <2> PICK b \in held[t] : Release(t, b)
    BY <1>7
  <2>1. b \in Nodes /\ BlockTypes'
    BY DEF Release, BlockTypes
  <2>2. CASE b \in allocated
    BY <2>1, <2>2 DEF Release, ListTypes, LocalTypes
  <2>3. CASE b \notin allocated
    <3>1. ListTypes'
      BY <2>1, <2>3 DEF Release, Add, ListTypes
    <3>2. LocalTypes'
      BY <2>1, <2>3 DEF Release, Add, LocalTypes, Steps
    <3> QED BY <2>1, <3>1, <3>2
  <2> QED BY <2>2, <2>3
<1>8. CASE Step(t)
  <2>1. BlockTypes'
    BY <1>8 DEF Step, BlockTypes
  <2>2. ListTypes'
    <3>1. CASE LoadTop(t) \/ Reload(t) \/ ReadNext(t)
      BY <3>1 DEF LoadTop, Reload, ReadNext, ListTypes
    <3>2. CASE Link(t)
      BY <3>2 DEF Link, ListTypes, LocalTypes
    <3>6. CASE CountOne(t)
      <4>1. node[t] \in Nodes
        BY <3>6 DEF CountOne, Locals
      <4> QED BY <3>6, <4>1 DEF CountOne, ListTypes
    <3>3. CASE Push(t) \/ Pop(t)
      BY <3>3 DEF Push, Pop, ListTypes, LocalTypes
    <3>4. CASE Retry(t)
      <4>1. node[t] \in Nodes
        BY <3>4 DEF Retry, Locals
      <4> QED BY <3>4, <4>1 DEF Retry, ListTypes
    <3>7. CASE Grab(t)
      <4>1. head[t] \in Nodes
        BY <3>7 DEF Grab, Locals
      <4> QED BY <3>7, <4>1 DEF Grab, ListTypes
    <3>5. CASE TakeNode(t) \/ Drop(t)
      BY <3>5 DEF TakeNode, Drop, ListTypes, LocalTypes, Locals
    <3> QED BY <1>8, <3>1, <3>2, <3>3, <3>4, <3>5, <3>6, <3>7
         DEF Step, FreeListStep
  <2>3. CASE LoadTop(t) \/ Link(t) \/ CountOne(t) \/ Grab(t) \/ ReadNext(t)
    <3>1. CASE LoadTop(t)
      BY <2>1, <2>2, <3>1 DEF LoadTop, ListTypes, LocalTypes, Steps
    <3>2. CASE Link(t) \/ CountOne(t)
      BY <2>1, <2>2, <3>2 DEF Link, CountOne, LocalTypes, Steps
    <3>3. CASE Grab(t)
      BY <2>1, <2>2, <3>3 DEF Grab, LocalTypes, Locals, Steps
    <3>4. CASE ReadNext(t)
      <4>1. freeListNext[node[t]] \in Nodes \cup {Null}
        BY <3>4 DEF ReadNext, ListTypes, Locals
      <4> QED BY <2>1, <2>2, <3>4, <4>1 DEF ReadNext, LocalTypes, Steps
    <3> QED BY <2>3, <3>1, <3>2, <3>3, <3>4
  <2>4. CASE Push(t) /\ freeListHead # next[t]
    BY ZenonT(40), <2>1, <2>2, <2>4 DEF Push, ListTypes, LocalTypes, Steps
  <2>5. CASE Retry(t) /\ freeListRefs[node[t]] = 1
    BY <2>1, <2>2, <2>5 DEF Retry, LocalTypes, Steps
  <2>6. CASE Reload(t) /\ freeListHead # Null
    BY <2>1, <2>2, <2>6 DEF Reload, ListTypes, LocalTypes
  <2>7. CASE Pop(t)
    <3>1. LocalTypes'
      BY <2>7 DEF Pop, ListTypes, LocalTypes, Steps
    <3> QED BY <2>1, <2>2, <3>1
  <2>8. CASE Drop(t) /\ should[node[t]] /\ freeListRefs[node[t]] = 1
    BY <2>1, <2>2, <2>8 DEF Drop, LocalTypes, Steps
  <2>9. CASE \/ Push(t) /\ freeListHead = next[t]
             \/ Retry(t) /\ freeListRefs[node[t]] # 1
             \/ Drop(t) /\ ~(should[node[t]] /\ freeListRefs[node[t]] = 1)
    <3>1. Resume(t)
      BY <2>9 DEF Push, Retry, Drop
    <3> QED BY <2>1, <2>2, <3>1
  <2>10. CASE TakeNode(t) \/ (Reload(t) /\ freeListHead = Null)
    <3>1. \E n \in Nodes \cup {Null} : Return(t, n)
      BY <2>10 DEF TakeNode, Reload, LocalTypes
    <3> QED BY <2>1, <2>2, <3>1
  <2> QED
    BY <1>8, <2>3, <2>4, <2>5, <2>6, <2>7, <2>8, <2>9, <2>10
    DEF Step, FreeListStep
<1> QED BY <1>1, <1>2, <1>3, <1>4, <1>5, <1>6, <1>7, <1>8

\* ... and what a place says of its locals.
LEMMA PoolLocalsStep ==
  ASSUME Parameters, PoolTypes, Locals, PoolTypes', Next PROVE Locals'
<1> USE PoolFacts DEF Locals, Goto, Set, Return, Resume, Busy,
    freeListVars, listVars, localVars, poolVars
<1>1. PICK t \in Threads :
        \/ Requisition(t) \/ Draw(t) \/ FromList(t) \/ Step(t) \/ Receive(t)
        \/ Create(t) \/ \E b \in held[t] : Release(t, b)
  BY DEF Next
<1>2. CASE Requisition(t)
  BY <1>2 DEF Requisition, PoolTypes, ListTypes, LocalTypes,
     BlockTypes
<1>3. CASE Draw(t)
  BY <1>3 DEF Draw, PoolTypes, ListTypes, LocalTypes,
     BlockTypes
<1>4. CASE FromList(t)
  BY <1>4 DEF FromList, TryGet, PoolTypes, ListTypes, LocalTypes,
     BlockTypes
<1>5. CASE Receive(t)
  BY <1>5 DEF Receive, PoolTypes, ListTypes, LocalTypes,
     BlockTypes
<1>6. CASE Create(t)
  BY <1>6 DEF Create, PoolTypes, ListTypes, LocalTypes,
     BlockTypes
<1>7. CASE \E b \in held[t] : Release(t, b)
  BY <1>7 DEF Release, Add, PoolTypes, ListTypes, LocalTypes,
     BlockTypes
<1>8. CASE Step(t)
  <2> UNCHANGED poolVars
    BY <1>8 DEF Step
  <2>1. CASE LoadTop(t)
    BY <2>1 DEF LoadTop, PoolTypes, ListTypes, LocalTypes,
     BlockTypes
  <2>2. CASE Link(t)
    BY <2>2 DEF Link, PoolTypes, ListTypes, LocalTypes,
     BlockTypes
  <2>3. CASE CountOne(t)
    BY <2>3 DEF CountOne, PoolTypes, ListTypes, LocalTypes,
     BlockTypes
  <2>4. CASE Push(t)
    BY <2>4 DEF Push, PoolTypes, ListTypes, LocalTypes,
     BlockTypes
  <2>5. CASE Retry(t)
    BY <2>5 DEF Retry, PoolTypes, ListTypes, LocalTypes,
     BlockTypes
  <2>6. CASE Grab(t)
    BY <2>6 DEF Grab, PoolTypes, ListTypes, LocalTypes,
     BlockTypes
  <2>7. CASE Reload(t)
    BY <2>7 DEF Reload, PoolTypes, ListTypes, LocalTypes,
     BlockTypes
  <2>8. CASE ReadNext(t)
    BY <2>8 DEF ReadNext, PoolTypes, ListTypes, LocalTypes,
     BlockTypes
  <2>9. CASE Pop(t)
    BY <2>9 DEF Pop, PoolTypes, ListTypes, LocalTypes,
     BlockTypes
  <2>10. CASE TakeNode(t)
    BY <2>10 DEF TakeNode, PoolTypes, ListTypes, LocalTypes,
     BlockTypes
  <2>11. CASE Drop(t)
    BY <2>11 DEF Drop, PoolTypes, ListTypes, LocalTypes,
     BlockTypes
  <2> QED
    BY <1>8, <2>1, <2>2, <2>3, <2>4, <2>5, <2>6, <2>7, <2>8, <2>9, <2>10, <2>11
    DEF Step, FreeListStep
<1> QED BY <1>1, <1>2, <1>3, <1>4, <1>5, <1>6, <1>7, <1>8

-----------------------------------------------------------------------------
\* The threads that refer to a node can be counted, ...
LEMMA RefsFinite ==
  ASSUME Parameters, NEW n
  PROVE  /\ IsFiniteSet(Refs(n)) /\ Cardinality(Refs(n)) \in Nat
         /\ Cardinality(Refs(n)) = 0 <=> Refs(n) = {}
<1>1. Refs(n) \in SUBSET Threads
  BY DEF Refs
<1> QED BY <1>1, PoolFacts, SubsetSizes, FS_Subset

\* ... one more, ...
LEMMA RefsGrow ==
  ASSUME Parameters, NEW n, NEW t, t \notin Refs(n),
         Refs(n)' = Refs(n) \cup {t}
  PROVE  Cardinality(Refs(n)') = Cardinality(Refs(n)) + 1
BY RefsFinite, FS_AddElement

\* ... and one less.
LEMMA RefsShrink ==
  ASSUME Parameters, NEW n, NEW t, t \in Refs(n), Refs(n)' = Refs(n) \ {t}
  PROVE  Cardinality(Refs(n)') = Cardinality(Refs(n)) - 1
BY RefsFinite, FS_RemoveElement

\* The list is as it was if its nodes and their nexts are.
LEMMA ChainKeeps ==
  ASSUME NEW N \in Nat, NEW L, NEW k, NEW l, Chain(k, L, N),
         freeListHead' = freeListHead,
         \A n \in Nodes : l[n] = "list" <=> k[n] = "list",
         \A n \in Nodes : k[n] = "list" => freeListNext'[n] = freeListNext[n]
  PROVE  Chain(l, L, N)'
<1>1. L[0] = Null /\ L[N] = freeListHead'
  BY DEF Chain
<1>2. \A i \in 1 .. N : L[i] \in Nodes /\ l[L[i]] = "list"
        /\ freeListNext'[L[i]] = L[i - 1]
  BY DEF Chain
<1>3. \A i, j \in 1 .. N : L[i] = L[j] => i = j
  BY DEF Chain
<1>4. \A n \in Nodes : l[n] = "list" => \E i \in 1 .. N : L[i] = n
  BY DEF Chain
<1> QED BY <1>1, <1>2, <1>3, <1>4 DEF Chain

\* Counts are right if that of the one node that changes is.
LEMMA CountsMove ==
  ASSUME NEW k, NEW l, NEW n \in Nodes, Counts(k),
         \A m \in Nodes : m # n =>
           l[m] = k[m] /\ freeListRefs'[m] = freeListRefs[m]
           /\ Refs(m)' = Refs(m),
         freeListRefs'[n] = Cardinality(Refs(n)') + Extra(l[n]),
         l[n] = "early" => Refs(n)' = {}, l[n] = "due" => Refs(n)' # {}
  PROVE  Counts(l)'
BY DEF Counts

\* Nothing that the ghosts speak of changes.
LEMMA SamePlaces ==
  ASSUME Parameters, PoolTypes, Ghosts,
         UNCHANGED <<freeListHead, freeListRefs, should, held, got,
                     allocated>>,
         \A n \in Nodes : NotDrawn(n)' <=> NotDrawn(n),
         \A u \in Threads :
           /\ fpc'[u] \in {"adding", "link", "count"} <=>
                fpc[u] \in {"adding", "link", "count"}
           /\ fpc'[u] \in {"push", "retry"} <=> fpc[u] \in {"push", "retry"}
           /\ fpc'[u] = "take" <=> fpc[u] = "take"
           /\ fpc'[u] \in {"next", "pop", "take", "drop"} <=>
                fpc[u] \in {"next", "pop", "take", "drop"}
           /\ fpc[u] \notin {"idle", "grab"} => node'[u] = node[u],
         \A n \in Nodes :
           freeListNext'[n] # freeListNext[n] =>
             \E v \in Threads : fpc[v] = "link" /\ node[v] = n
  PROVE  Ghosts'
<1>1. PICK N \in Nat, L \in [Nat -> Nodes \cup {Null}],
           kind \in [Nodes -> Kinds], who \in [Nodes -> Threads \cup {Null}] :
        Chain(kind, L, N) /\ Placed(kind, who) /\ Counts(kind)
  BY DEF Ghosts
<1>2. Chain(kind, L, N)'
  <2>1. \A n \in Nodes : kind[n] = "list" => freeListNext'[n] = freeListNext[n]
    BY <1>1 DEF Placed
  <2> QED BY <1>1, <2>1, ChainKeeps
<1>3. Placed(kind, who)'
  BY <1>1 DEF Placed
<1>4. ASSUME NEW n PROVE Refs(n)' = Refs(n)
  BY DEF Refs
<1>5. Counts(kind)'
  BY <1>1, <1>4 DEF Counts
<1> QED BY <1>2, <1>3, <1>5 DEF Ghosts

\* A thread that is not about to store to a node's next leaves all as it is.
LEMMA QuietStep ==
  ASSUME Parameters, PoolTypes, Locals, Ghosts, NEW t \in Threads,
         \/ Requisition(t)
         \/ Draw(t) /\ initialBlockPoolIndex >= Len(Pool)
         \/ FromList(t)
         \/ Create(t) /\ UNCHANGED allocated
         \/ /\ UNCHANGED poolVars
            /\ \/ LoadTop(t) \/ Link(t) \/ Reload(t) \/ ReadNext(t)
               \/ Pop(t) /\ freeListHead # node[t]
               \/ Push(t) /\ freeListHead # next[t]
  PROVE  Ghosts'
<1> USE DEF freeListVars, listVars, localVars, poolVars, Goto, Set
<1> SUFFICES
      /\ UNCHANGED <<freeListHead, freeListRefs, should, held, got, allocated>>
      /\ \A n \in Nodes : NotDrawn(n)' <=> NotDrawn(n)
      /\ \A u \in Threads :
           /\ fpc'[u] \in {"adding", "link", "count"} <=>
                fpc[u] \in {"adding", "link", "count"}
           /\ fpc'[u] \in {"push", "retry"} <=> fpc[u] \in {"push", "retry"}
           /\ fpc'[u] = "take" <=> fpc[u] = "take"
           /\ fpc'[u] \in {"next", "pop", "take", "drop"} <=>
                fpc[u] \in {"next", "pop", "take", "drop"}
           /\ fpc[u] \notin {"idle", "grab"} => node'[u] = node[u]
      /\ \A n \in Nodes :
           freeListNext'[n] # freeListNext[n] =>
             \E v \in Threads : fpc[v] = "link" /\ node[v] = n
  BY SamePlaces
<1> USE DEF PoolTypes, LocalTypes
<1>1. CASE Requisition(t)
  BY <1>1 DEF Requisition, NotDrawn
<1>2. CASE Draw(t) /\ initialBlockPoolIndex >= Len(Pool)
  <2>1. UNCHANGED <<freeListVars, held, allocated>>
        /\ initialBlockPoolIndex' = initialBlockPoolIndex + 1
    BY <1>2, PoolFacts DEF Draw, BlockTypes
  <2>2. ASSUME NEW n PROVE NotDrawn(n)' <=> NotDrawn(n)
    BY <1>2, <2>1, PoolFacts DEF NotDrawn, BlockTypes
  <2> QED BY <2>1, <2>2
<1>3. CASE FromList(t)
  BY <1>3 DEF FromList, TryGet, Return, NotDrawn, Locals
<1>4. CASE Create(t) /\ UNCHANGED allocated
  <2>1. UNCHANGED <<freeListVars, initialBlockPoolIndex, held>>
    BY <1>4 DEF Create
  <2> QED BY <1>4, <2>1 DEF NotDrawn
<1>5. CASE UNCHANGED poolVars
  <2> ASSUME NEW n PROVE NotDrawn(n)' <=> NotDrawn(n)
    BY <1>5 DEF NotDrawn
  <2>1. CASE LoadTop(t)
    BY <1>5, <2>1 DEF LoadTop, NotDrawn
  <2>2. CASE Link(t)
    BY <1>5, <2>2 DEF Link, NotDrawn, ListTypes
  <2>3. CASE Reload(t)
    BY <1>5, <2>3 DEF Reload, Return, NotDrawn, Locals
  <2>4. CASE ReadNext(t)
    BY <1>5, <2>4 DEF ReadNext, NotDrawn
  <2>5. CASE Pop(t) /\ freeListHead # node[t]
    BY <1>5, <2>5 DEF Pop, NotDrawn
  <2>6. CASE Push(t) /\ freeListHead # next[t]
    BY <1>5, <2>6 DEF Push, NotDrawn
  <2> QED
    BY <1>1, <1>2, <1>3, <1>4, <2>1, <2>2, <2>3, <2>4, <2>5, <2>6
<1> QED BY <1>1, <1>2, <1>3, <1>4, <1>5

\* A count that is not zero is not that of a node being linked.
LEMMA GrabStep ==
  ASSUME Parameters, PoolTypes, Locals, Links, Ghosts, NEW t \in Threads,
         Grab(t), UNCHANGED poolVars
  PROVE  Ghosts'
<1> USE DEF poolVars, Goto, Set
<1>1. PICK N \in Nat, L \in [Nat -> Nodes \cup {Null}],
           kind \in [Nodes -> Kinds], who \in [Nodes -> Threads \cup {Null}] :
        Chain(kind, L, N) /\ Placed(kind, who) /\ Counts(kind)
  BY DEF Ghosts
<1>2. PICK h \in Nodes : h = head[t]
  BY DEF Grab, Locals
<1>3. fpc[t] = "grab" /\ fpc' = [fpc EXCEPT ![t] = "next"]
      /\ node' = [node EXCEPT ![t] = h]
      /\ freeListRefs' = [freeListRefs EXCEPT ![h] = @ + 1]
      /\ freeListRefs[h] # 0
  BY <1>2 DEF Grab
<1>4. Chain(kind, L, N)'
  BY <1>1, ChainKeeps DEF Grab
<1>5. Placed(kind, who)'
  BY <1>1, <1>3 DEF Placed, Grab, NotDrawn, PoolTypes, LocalTypes
<1>6. t \notin Refs(h) /\ Refs(h)' = Refs(h) \cup {t}
      /\ \A n \in Nodes : n # h => Refs(n)' = Refs(n)
  BY <1>3 DEF Refs, PoolTypes, LocalTypes
<1>7. Cardinality(Refs(h)') = Cardinality(Refs(h)) + 1
  BY <1>6, RefsGrow
<1>8. freeListRefs'[h] = freeListRefs[h] + 1
      /\ \A n \in Nodes : n # h => freeListRefs'[n] = freeListRefs[n]
  BY <1>3 DEF PoolTypes, ListTypes
<1>9. freeListRefs'[h] = Cardinality(Refs(h)') + Extra(kind[h])
  BY <1>1, <1>7, <1>8, RefsFinite DEF Counts, Extra
<1>10. kind[h] # "early"
  <2> SUFFICES ASSUME kind[h] = "early" PROVE FALSE
    OBVIOUS
  <2>1. Refs(h) = {} /\ freeListRefs[h] = Cardinality(Refs(h)) + 0
    BY <1>1 DEF Counts, Extra
  <2> QED BY <1>3, <2>1, FS_EmptySet
<1>11. Counts(kind)'
  BY <1>1, <1>6, <1>8, <1>9, <1>10, CountsMove
<1> QED BY <1>4, <1>5, <1>11 DEF Ghosts

\* What resuming the loop of try_get does to a thread's place.
LEMMA ResumePlace ==
  ASSUME PoolTypes, Locals, NEW t \in Threads, fpc[t] # "idle", Resume(t)
  PROVE  /\ got' = got /\ fpc'[t] \in {"idle", "grab"}
         /\ \A u \in Threads : u # t => fpc'[u] = fpc[u] /\ node'[u] = node[u]
<1> USE DEF Resume, Return, Goto, Set, PoolTypes, LocalTypes, Locals
<1>1. got' = got
  OBVIOUS
<1> QED BY <1>1

\* The last reference to a node that should be on the list makes a thread add
\* it.
LEMMA DropStep ==
  ASSUME Parameters, PoolTypes, Locals, Links, Ghosts, NEW t \in Threads,
         Drop(t), UNCHANGED poolVars
  PROVE  Ghosts'
<1> USE DEF poolVars, Goto, Set
<1>1. PICK N \in Nat, L \in [Nat -> Nodes \cup {Null}],
           kind \in [Nodes -> Kinds], who \in [Nodes -> Threads \cup {Null}] :
        Chain(kind, L, N) /\ Placed(kind, who) /\ Counts(kind)
  BY DEF Ghosts
<1>2. PICK n \in Nodes : n = node[t]
  BY DEF Drop, Locals
<1>3. fpc[t] = "drop" /\ freeListRefs' = [freeListRefs EXCEPT ![n] = @ - 1]
      /\ UNCHANGED <<freeListHead, should, freeListNext>>
  BY <1>2 DEF Drop
<1> DEFINE Last == should[n] /\ freeListRefs[n] = 1
<1>4. Last =>
        fpc' = [fpc EXCEPT ![t] = "adding"]
        /\ UNCHANGED <<head, node, next, got>>
  BY <1>2 DEF Drop
<1>5. ~Last => Resume(t)
  BY <1>2 DEF Drop
<1>6. /\ got' = got /\ fpc'[t] \in {"idle", "grab", "adding"}
      /\ \A u \in Threads : u # t => fpc'[u] = fpc[u] /\ node'[u] = node[u]
  BY <1>3, <1>4, <1>5, ResumePlace DEF PoolTypes, LocalTypes
<1>7. t \in Refs(n) /\ Refs(n)' = Refs(n) \ {t}
      /\ \A m \in Nodes : m # n => Refs(m)' = Refs(m)
  BY <1>2, <1>3, <1>6 DEF Refs
<1>8. Cardinality(Refs(n)') = Cardinality(Refs(n)) - 1
  BY <1>7, RefsShrink
<1>9. freeListRefs'[n] = freeListRefs[n] - 1
      /\ \A m \in Nodes : m # n => freeListRefs'[m] = freeListRefs[m]
  BY <1>3 DEF PoolTypes, ListTypes
<1>10. kind[n] # "early"
  BY <1>1, <1>7 DEF Counts
<1>11. freeListRefs[n] = Cardinality(Refs(n)) + Extra(kind[n])
  BY <1>1 DEF Counts
<1>12. Cardinality(Refs(n)) \in Nat /\ Refs(n)' \in SUBSET Refs(n)
       /\ IsFiniteSet(Refs(n)')
  BY <1>7, RefsFinite, FS_Subset
<1>13. CASE Last
  <2> DEFINE k == [kind EXCEPT ![n] = "early"]
             w == [who EXCEPT ![n] = t]
  <2>1. kind[n] = "due"
    BY <1>1, <1>10, <1>13 DEF Placed
  <2>2. k \in [Nodes -> Kinds] /\ w \in [Nodes -> Threads \cup {Null}]
    BY DEF Kinds
  <2>3. k[n] = "early" /\ \A m \in Nodes : m # n => k[m] = kind[m]
    OBVIOUS
  <2>4. Cardinality(Refs(n)) = 1 /\ freeListRefs'[n] = 0
    BY <1>9, <1>11, <1>12, <1>13, <2>1 DEF Extra
  <2>5. Refs(n)' = {}
        /\ freeListRefs'[n] = Cardinality(Refs(n)') + Extra("early")
    BY <1>8, <1>12, <2>4, FS_EmptySet DEF Extra
  <2>6. Placed(k, w)'
    BY <1>1, <1>2, <1>3, <1>4, <1>13, <2>1
    DEF Placed, NotDrawn, PoolTypes, LocalTypes
  <2>7. \A m \in Nodes : k[m] = "list" <=> kind[m] = "list"
    BY <2>1
  <2> HIDE DEF k, w
  <2>8. Counts(k)'
    BY <1>1, <1>7, <1>9, <2>3, <2>5, CountsMove
  <2>9. Chain(k, L, N)'
    BY <1>1, <1>3, <2>7, ChainKeeps
  <2> QED BY <2>2, <2>6, <2>8, <2>9 DEF Ghosts
<1>14. CASE ~Last
  <2>1. freeListRefs'[n] = Cardinality(Refs(n)') + Extra(kind[n])
    BY <1>8, <1>9, <1>11, <1>12 DEF Extra
  <2>2. kind[n] = "due" => Refs(n)' # {}
    <3> SUFFICES ASSUME kind[n] = "due", Refs(n)' = {} PROVE FALSE
      OBVIOUS
    <3>1. should[n]
      BY <1>1 DEF Placed
    <3>2. freeListRefs[n] = 1
      BY <1>8, <1>11, <1>12, FS_EmptySet DEF Extra
    <3> QED BY <1>14, <3>1, <3>2
  <2>3. Counts(kind)'
    BY <1>1, <1>7, <1>9, <1>10, <2>1, <2>2, CountsMove
  <2>4. Chain(kind, L, N)'
    BY <1>1, <1>3, ChainKeeps
  <2>5. fpc'[t] \in {"idle", "grab"}
    BY <1>3, <1>5, <1>14, ResumePlace
  <2>6. Placed(kind, who)'
    BY <1>1, <1>2, <1>3, <1>6, <2>5 DEF Placed, NotDrawn
  <2> QED BY <2>3, <2>4, <2>6 DEF Ghosts
<1> QED BY <1>13, <1>14

\* The count of a node taken goes down by the reference of the list as well.
LEMMA TakeStep ==
  ASSUME Parameters, PoolTypes, Locals, Links, Ghosts, NEW t \in Threads,
         TakeNode(t), UNCHANGED poolVars
  PROVE  Ghosts'
<1> USE DEF poolVars, Goto, Set
<1>1. PICK N \in Nat, L \in [Nat -> Nodes \cup {Null}],
           kind \in [Nodes -> Kinds], who \in [Nodes -> Threads \cup {Null}] :
        Chain(kind, L, N) /\ Placed(kind, who) /\ Counts(kind)
  BY DEF Ghosts
<1>2. PICK n \in Nodes : n = node[t]
  BY DEF TakeNode, Locals
<1>3. /\ fpc[t] = "take" /\ freeListRefs' = [freeListRefs EXCEPT ![n] = @ - 2]
      /\ UNCHANGED <<freeListHead, should, freeListNext>>
      /\ fpc' = [fpc EXCEPT ![t] = "idle"] /\ node' = [node EXCEPT ![t] = Null]
      /\ got' = [got EXCEPT ![t] = n]
  BY <1>2 DEF TakeNode, Return
<1> DEFINE k == [kind EXCEPT ![n] = "got"]
<1>4. kind[n] = "take" /\ who[n] = t
  BY <1>1, <1>2, <1>3 DEF Placed
<1>5. k \in [Nodes -> Kinds] /\ k[n] = "got"
      /\ \A m \in Nodes : m # n => k[m] = kind[m]
  BY DEF Kinds
<1>6. t \in Refs(n) /\ Refs(n)' = Refs(n) \ {t}
      /\ \A m \in Nodes : m # n => Refs(m)' = Refs(m)
  BY <1>2, <1>3 DEF Refs, PoolTypes, LocalTypes
<1>7. Cardinality(Refs(n)') = Cardinality(Refs(n)) - 1
  BY <1>6, RefsShrink
<1>8. freeListRefs'[n] = freeListRefs[n] - 2
      /\ \A m \in Nodes : m # n => freeListRefs'[m] = freeListRefs[m]
  BY <1>3 DEF PoolTypes, ListTypes
<1>9. freeListRefs[n] = Cardinality(Refs(n)) + Extra("take")
  BY <1>1, <1>4 DEF Counts
<1>10. freeListRefs'[n] = Cardinality(Refs(n)') + Extra("got")
  BY <1>7, <1>8, <1>9, RefsFinite DEF Extra
<1>11. Placed(k, who)'
  <2>1. got[t] = Null
    BY <1>3 DEF Locals
  <2> QED BY <1>1, <1>2, <1>3, <1>4, <2>1, PoolFacts
          DEF Placed, NotDrawn, PoolTypes, LocalTypes
<1>12. \A m \in Nodes : k[m] = "list" <=> kind[m] = "list"
  BY <1>4
<1> HIDE DEF k
<1>13. Counts(k)'
  BY <1>1, <1>5, <1>6, <1>8, <1>10, CountsMove
<1>14. Chain(k, L, N)'
  BY <1>1, <1>3, <1>12, ChainKeeps
<1> QED BY <1>5, <1>11, <1>13, <1>14 DEF Ghosts

\* Nobody but its reader has the head, and its next is the one to follow.
LEMMA PopStep ==
  ASSUME Parameters, PoolTypes, Locals, Links, Ghosts, NEW t \in Threads,
         Pop(t), freeListHead = node[t],
         UNCHANGED poolVars
  PROVE  Ghosts'
<1> USE DEF poolVars, Goto, Set
<1>1. PICK N \in Nat, L \in [Nat -> Nodes \cup {Null}],
           kind \in [Nodes -> Kinds], who \in [Nodes -> Threads \cup {Null}] :
        Chain(kind, L, N) /\ Placed(kind, who) /\ Counts(kind)
  BY DEF Ghosts
<1>2. PICK n \in Nodes : n = node[t]
  BY DEF Pop, Locals
<1>3. /\ fpc[t] = "pop" /\ freeListHead = n /\ freeListHead' = freeListNext[n]
      /\ UNCHANGED <<freeListRefs, should, freeListNext, node, got>>
      /\ fpc' = [fpc EXCEPT ![t] = "take"]
  BY <1>2 DEF Pop, Links
<1> DEFINE k == [kind EXCEPT ![n] = "take"]
           w == [who EXCEPT ![n] = t]
<1>4. N \in 1 .. N /\ L[N] = n /\ kind[n] = "list"
      /\ L[N - 1] = freeListNext[n]
  <2>1. N # 0
    BY <1>1, <1>3, PoolFacts DEF Chain
  <2>2. N \in 1 .. N
    BY <2>1
  <2> QED BY <1>1, <1>3, <2>2 DEF Chain
<1>5. k \in [Nodes -> Kinds] /\ w \in [Nodes -> Threads \cup {Null}]
      /\ k[n] = "take"
      /\ \A m \in Nodes : m # n => k[m] = kind[m]
  BY DEF Kinds
<1>6. Chain(k, L, N - 1)'
  <2>1. L[0] = Null /\ L[N - 1] = freeListHead'
    BY <1>1, <1>3, <1>4 DEF Chain
  <2>2. ASSUME NEW i \in 1 .. N - 1
        PROVE  L[i] \in Nodes /\ k[L[i]] = "list"
               /\ freeListNext'[L[i]] = L[i - 1]
    <3>1. i \in 1 .. N /\ i # N
      BY <1>4
    <3>2. L[i] \in Nodes /\ kind[L[i]] = "list"
          /\ freeListNext[L[i]] = L[i - 1]
          /\ L[i] # n
      BY <1>1, <1>4, <3>1 DEF Chain
    <3> QED BY <1>3, <1>5, <3>2
  <2>3. \A i, j \in 1 .. N - 1 : L[i] = L[j] => i = j
    BY <1>1 DEF Chain
  <2>4. ASSUME NEW m \in Nodes, k[m] = "list"
        PROVE \E i \in 1 .. N - 1 : L[i] = m
    <3>1. m # n /\ kind[m] = "list"
      BY <1>5, <2>4
    <3>2. PICK i \in 1 .. N : L[i] = m
      BY <1>1, <3>1 DEF Chain
    <3> QED BY <1>4, <3>1, <3>2
  <2> QED BY <2>1, <2>2, <2>3, <2>4 DEF Chain
<1>7. Placed(k, w)'
  BY <1>1, <1>2, <1>3, <1>4 DEF Placed, NotDrawn, PoolTypes, LocalTypes
<1>8. \A m \in Nodes : Refs(m)' = Refs(m)
  BY <1>3 DEF Refs, PoolTypes, LocalTypes
<1>9. freeListRefs'[n] = Cardinality(Refs(n)') + Extra(k[n])
  BY <1>1, <1>3, <1>4, <1>5, <1>8 DEF Counts, Extra
<1> HIDE DEF k, w
<1>10. Counts(k)'
  BY <1>1, <1>3, <1>5, <1>8, <1>9, CountsMove
<1>11. N - 1 \in Nat
  BY <1>4
<1> QED BY <1>5, <1>6, <1>7, <1>10, <1>11 DEF Ghosts

\* The node on top is followed by what was the head when it was linked.
LEMMA PushStep ==
  ASSUME Parameters, PoolTypes, Locals, Links, Ghosts, NEW t \in Threads,
         Push(t), freeListHead = next[t],
         UNCHANGED poolVars
  PROVE  Ghosts'
<1> USE DEF poolVars, Goto, Set
<1>1. PICK N \in Nat, L \in [Nat -> Nodes \cup {Null}],
           kind \in [Nodes -> Kinds], who \in [Nodes -> Threads \cup {Null}] :
        Chain(kind, L, N) /\ Placed(kind, who) /\ Counts(kind)
  BY DEF Ghosts
<1>2. PICK n \in Nodes : n = node[t]
  BY DEF Push, Locals
<1>3. /\ fpc[t] = "push" /\ freeListHead' = n /\ Resume(t)
      /\ freeListNext[n] = freeListHead
      /\ UNCHANGED <<freeListRefs, should, freeListNext>>
  BY <1>2 DEF Push, Links
<1>4. /\ got' = got /\ fpc'[t] \in {"idle", "grab"}
      /\ \A u \in Threads : u # t => fpc'[u] = fpc[u] /\ node'[u] = node[u]
  BY <1>3, ResumePlace
<1> DEFINE k == [kind EXCEPT ![n] = "list"]
           M == [L EXCEPT ![N + 1] = n]
<1>5. kind[n] = "push" /\ who[n] = t
  BY <1>1, <1>2, <1>3 DEF Placed
<1>6. k \in [Nodes -> Kinds] /\ M \in [Nat -> Nodes \cup {Null}]
      /\ k[n] = "list"
      /\ \A m \in Nodes : m # n => k[m] = kind[m]
  BY DEF Kinds
<1>7. M[N + 1] = n /\ \A i \in 0 .. N : M[i] = L[i]
  OBVIOUS
<1>8. Chain(k, M, N + 1)'
  <2> HIDE DEF k, M
  <2>1. M[0] = Null /\ M[N + 1] = freeListHead'
    BY <1>1, <1>3, <1>7 DEF Chain
  <2>2. ASSUME NEW i \in 1 .. N
        PROVE  M[i] \in Nodes /\ M[i] # n /\ k[M[i]] = "list"
               /\ freeListNext'[M[i]] = M[i - 1]
    BY <1>1, <1>3, <1>5, <1>6, <1>7 DEF Chain
  <2>3. M[N + 1] \in Nodes /\ k[M[N + 1]] = "list"
        /\ freeListNext'[M[N + 1]] = M[N]
    BY <1>1, <1>3, <1>6, <1>7 DEF Chain
  <2>4. \A i \in 1 .. N + 1 : i \in 1 .. N \/ i = N + 1
    OBVIOUS
  <2>5. ASSUME NEW i \in 1 .. N + 1
        PROVE  M[i] \in Nodes /\ k[M[i]] = "list"
               /\ freeListNext'[M[i]] = M[i - 1]
    BY <2>2, <2>3, <2>4
  <2>6. ASSUME NEW i \in 1 .. N + 1, NEW j \in 1 .. N + 1, M[i] = M[j]
        PROVE i = j
    <3>1. CASE i \in 1 .. N /\ j \in 1 .. N
      BY <1>1, <1>7, <2>6, <3>1 DEF Chain
    <3> QED BY <1>7, <2>2, <2>4, <2>6, <3>1
  <2>7. ASSUME NEW m \in Nodes, k[m] = "list"
        PROVE \E i \in 1 .. N + 1 : M[i] = m
    <3>1. CASE m = n
      BY <1>7, <3>1
    <3>2. CASE m # n
      <4>1. PICK i \in 1 .. N : L[i] = m
        BY <1>1, <1>6, <2>7, <3>2 DEF Chain
      <4> QED BY <1>7, <4>1
    <3> QED BY <3>1, <3>2
  <2> QED BY <2>1, <2>5, <2>6, <2>7 DEF Chain
<1>9. Placed(k, who)'
  BY <1>1, <1>2, <1>3, <1>4, <1>5 DEF Placed, NotDrawn
<1>10. \A m \in Nodes : Refs(m)' = Refs(m)
  BY <1>3, <1>4 DEF Refs
<1>11. freeListRefs'[n] = Cardinality(Refs(n)') + Extra(k[n])
  BY <1>1, <1>3, <1>5, <1>6, <1>10 DEF Counts, Extra
<1> HIDE DEF k, M
<1>12. Counts(k)'
  BY <1>1, <1>3, <1>6, <1>10, <1>11, CountsMove
<1>13. N + 1 \in Nat
  OBVIOUS
<1> QED BY <1>6, <1>8, <1>9, <1>12, <1>13 DEF Ghosts

\* Nobody refers to a node whose count is set to one.
LEMMA CountStep ==
  ASSUME Parameters, PoolTypes, Locals, Links, Ghosts, NEW t \in Threads,
         CountOne(t), UNCHANGED poolVars
  PROVE  Ghosts'
<1> USE DEF poolVars, Goto, Set
<1>1. PICK N \in Nat, L \in [Nat -> Nodes \cup {Null}],
           kind \in [Nodes -> Kinds], who \in [Nodes -> Threads \cup {Null}] :
        Chain(kind, L, N) /\ Placed(kind, who) /\ Counts(kind)
  BY DEF Ghosts
<1>2. PICK n \in Nodes : n = node[t]
  BY DEF CountOne, Locals
<1>3. /\ fpc[t] = "count" /\ freeListRefs' = [freeListRefs EXCEPT ![n] = 1]
      /\ should' = [should EXCEPT ![n] = FALSE]
      /\ fpc' = [fpc EXCEPT ![t] = "push"]
      /\ UNCHANGED <<freeListHead, freeListNext, node, got>>
  BY <1>2 DEF CountOne
<1> DEFINE k == [kind EXCEPT ![n] = "push"]
<1>4. kind[n] = "early" /\ who[n] = t
  BY <1>1, <1>2, <1>3 DEF Placed
<1>5. k \in [Nodes -> Kinds] /\ k[n] = "push"
      /\ \A m \in Nodes : m # n => k[m] = kind[m]
  BY DEF Kinds
<1>6. \A m \in Nodes : Refs(m)' = Refs(m)
  BY <1>3 DEF Refs, PoolTypes, LocalTypes
<1>7. freeListRefs'[n] = 1
      /\ \A m \in Nodes : m # n => freeListRefs'[m] = freeListRefs[m]
  BY <1>3 DEF PoolTypes, ListTypes
<1>8. Refs(n) = {}
  BY <1>1, <1>4 DEF Counts
<1>9. freeListRefs'[n] = Cardinality(Refs(n)') + Extra(k[n])
  <2>1. Refs(n)' = {} /\ Extra(k[n]) = 1
    BY <1>5, <1>6, <1>8 DEF Extra
  <2> QED BY <1>7, <2>1, FS_EmptySet
<1>10. Placed(k, who)'
  BY <1>1, <1>2, <1>3, <1>4
  DEF Placed, NotDrawn, PoolTypes, LocalTypes, ListTypes
<1>11. \A m \in Nodes : k[m] = "list" <=> kind[m] = "list"
  BY <1>4
<1> HIDE DEF k
<1>12. Counts(k)'
  BY <1>1, <1>5, <1>6, <1>7, <1>9, CountsMove
<1>13. Chain(k, L, N)'
  BY <1>1, <1>3, <1>11, ChainKeeps
<1> QED BY <1>5, <1>10, <1>12, <1>13 DEF Ghosts

\* A node that could not be put on top is added again, or left to who refers
\* to it.
LEMMA RetryStep ==
  ASSUME Parameters, PoolTypes, Locals, Links, Ghosts, NEW t \in Threads,
         Retry(t), UNCHANGED poolVars
  PROVE  Ghosts'
<1> USE DEF poolVars, Goto, Set
<1>1. PICK N \in Nat, L \in [Nat -> Nodes \cup {Null}],
           kind \in [Nodes -> Kinds], who \in [Nodes -> Threads \cup {Null}] :
        Chain(kind, L, N) /\ Placed(kind, who) /\ Counts(kind)
  BY DEF Ghosts
<1>2. PICK n \in Nodes : n = node[t]
  BY DEF Retry, Locals
<1>3. /\ fpc[t] = "retry" /\ freeListRefs' = [freeListRefs EXCEPT ![n] = @ - 1]
      /\ should' = [should EXCEPT ![n] = TRUE]
      /\ UNCHANGED <<freeListHead, freeListNext>>
  BY <1>2 DEF Retry
<1> DEFINE Alone == freeListRefs[n] = 1
<1>4. Alone =>
        fpc' = [fpc EXCEPT ![t] = "link"]
        /\ UNCHANGED <<head, node, next, got>>
  BY <1>2 DEF Retry
<1>5. ~Alone => Resume(t)
  BY <1>2 DEF Retry
<1>6. /\ got' = got /\ fpc'[t] \in {"idle", "grab", "link"}
      /\ \A u \in Threads : u # t => fpc'[u] = fpc[u] /\ node'[u] = node[u]
  BY <1>3, <1>4, <1>5, ResumePlace DEF PoolTypes, LocalTypes
<1>7. \A m \in Nodes : Refs(m)' = Refs(m)
  BY <1>3, <1>6 DEF Refs
<1>8. freeListRefs'[n] = freeListRefs[n] - 1
      /\ \A m \in Nodes : m # n => freeListRefs'[m] = freeListRefs[m]
  BY <1>3 DEF PoolTypes, ListTypes
<1>9. kind[n] = "push" /\ who[n] = t
  BY <1>1, <1>2, <1>3 DEF Placed
<1>10. freeListRefs'[n] = Cardinality(Refs(n)') /\ (Alone <=> Refs(n)' = {})
  <2>1. freeListRefs[n] = Cardinality(Refs(n)) + 1
    BY <1>1, <1>9 DEF Counts, Extra
  <2>2. Cardinality(Refs(n)) \in Nat
        /\ (Cardinality(Refs(n)) = 0 <=> Refs(n) = {})
    BY RefsFinite
  <2> QED BY <1>7, <1>8, <2>1, <2>2
<1>11. CASE Alone
  <2> DEFINE k == [kind EXCEPT ![n] = "early"]
  <2>1. k \in [Nodes -> Kinds] /\ k[n] = "early"
        /\ \A m \in Nodes : m # n => k[m] = kind[m]
    BY DEF Kinds
  <2>2. Placed(k, who)'
    BY <1>1, <1>2, <1>3, <1>4, <1>9, <1>11
    DEF Placed, NotDrawn, PoolTypes, LocalTypes, ListTypes
  <2>3. \A m \in Nodes : k[m] = "list" <=> kind[m] = "list"
    BY <1>9
  <2> HIDE DEF k
  <2>4. freeListRefs'[n] = Cardinality(Refs(n)') + Extra(k[n])
    BY <1>10, <2>1, <1>7, RefsFinite DEF Extra
  <2>5. Counts(k)'
    BY <1>1, <1>7, <1>8, <1>10, <1>11, <2>1, <2>4, CountsMove
  <2>6. Chain(k, L, N)'
    BY <1>1, <1>3, <2>3, ChainKeeps
  <2> QED BY <2>1, <2>2, <2>5, <2>6 DEF Ghosts
<1>12. CASE ~Alone
  <2> DEFINE k == [kind EXCEPT ![n] = "due"]
  <2>1. k \in [Nodes -> Kinds] /\ k[n] = "due"
        /\ \A m \in Nodes : m # n => k[m] = kind[m]
    BY DEF Kinds
  <2>2. fpc'[t] \in {"idle", "grab"}
    BY <1>3, <1>5, <1>12, ResumePlace
  <2>3. Placed(k, who)'
    BY <1>1, <1>2, <1>3, <1>6, <1>9, <2>2
    DEF Placed, NotDrawn, PoolTypes, ListTypes
  <2>4. \A m \in Nodes : k[m] = "list" <=> kind[m] = "list"
    BY <1>9
  <2> HIDE DEF k
  <2>5. freeListRefs'[n] = Cardinality(Refs(n)') + Extra(k[n])
    BY <1>10, <2>1, <1>7, RefsFinite DEF Extra
  <2>6. Counts(k)'
    BY <1>1, <1>7, <1>8, <1>10, <1>12, <2>1, <2>5, CountsMove
  <2>7. Chain(k, L, N)'
    BY <1>1, <1>3, <2>4, ChainKeeps
  <2> QED BY <2>1, <2>3, <2>6, <2>7 DEF Ghosts
<1> QED BY <1>11, <1>12

\* A block comes to a thread: from the pool, the list or the allocator.
LEMMA DrawStep ==
  ASSUME Parameters, PoolTypes, Locals, Ghosts, NEW t \in Threads, Draw(t),
         initialBlockPoolIndex < Len(Pool)
  PROVE  Ghosts'
<1> USE DEF freeListVars, listVars, localVars, Goto, Set, Busy
<1>1. PICK N \in Nat, L \in [Nat -> Nodes \cup {Null}],
           kind \in [Nodes -> Kinds], who \in [Nodes -> Threads \cup {Null}] :
        Chain(kind, L, N) /\ Placed(kind, who) /\ Counts(kind)
  BY DEF Ghosts
<1>2. PICK i \in Nat : i = initialBlockPoolIndex
  BY DEF PoolTypes, BlockTypes
<1>3. i + 1 \in DOMAIN Pool
  BY <1>2, PoolFacts
<1>4. PICK n \in Nodes : n = Pool[i + 1]
  BY <1>3, PoolFacts
<1>5. /\ initialBlockPoolIndex' = i + 1
      /\ held' = [held EXCEPT ![t] = @ \cup {n}]
      /\ UNCHANGED <<freeListVars, allocated>>
  BY <1>2, <1>4 DEF Draw
<1> DEFINE k == [kind EXCEPT ![n] = "held"]
           w == [who EXCEPT ![n] = t]
<1>6. ASSUME NEW m \in Nodes PROVE NotDrawn(m)' <=> NotDrawn(m) /\ m # n
  <2>1. NotDrawn(m)' <=> \E j \in DOMAIN Pool : Pool[j] = m /\ j > i + 1
    BY <1>5 DEF NotDrawn
  <2>2. NotDrawn(m) <=> \E j \in DOMAIN Pool : Pool[j] = m /\ j > i
    BY <1>2 DEF NotDrawn
  <2>3. \A j \in DOMAIN Pool : Pool[j] = n <=> j = i + 1
    BY <1>3, <1>4 DEF Parameters
  <2>4. \A j \in DOMAIN Pool : j > i /\ j # i + 1 <=> j > i + 1
    BY PoolFacts
  <2> QED BY <2>1, <2>2, <2>3, <2>4
<1>7. kind[n] = "pool"
  <2>1. NotDrawn(n)
    BY <1>2, <1>3, <1>4, PoolFacts DEF NotDrawn
  <2> QED BY <1>1, <2>1 DEF Placed
<1>8. k \in [Nodes -> Kinds] /\ w \in [Nodes -> Threads \cup {Null}]
      /\ k[n] = "held"
      /\ \A m \in Nodes : m # n => k[m] = kind[m]
  BY DEF Kinds
<1>9. Placed(k, w)'
  BY <1>1, <1>5, <1>6, <1>7 DEF Placed, PoolTypes, BlockTypes
<1>10. \A m \in Nodes : k[m] = "list" <=> kind[m] = "list"
  BY <1>7
<1>11. \A m \in Nodes : Refs(m)' = Refs(m)
       /\ freeListRefs'[m] = freeListRefs[m]
  BY <1>5 DEF Refs
<1>12. freeListRefs'[n] = Cardinality(Refs(n)') + Extra(k[n])
  BY <1>1, <1>7, <1>8, <1>11 DEF Counts, Extra
<1> HIDE DEF k, w
<1>13. Counts(k)'
  BY <1>1, <1>8, <1>11, <1>12, CountsMove
<1>14. Chain(k, L, N)'
  BY <1>1, <1>5, <1>10, ChainKeeps
<1> QED BY <1>8, <1>9, <1>13, <1>14 DEF Ghosts

\* The node that try_get has returned is the block of requisition_block.
LEMMA ReceiveStep ==
  ASSUME Parameters, PoolTypes, Locals, Ghosts, NEW t \in Threads, Receive(t)
  PROVE  Ghosts'
<1> USE DEF freeListVars, listVars, localVars, Goto, Set, Busy
<1>1. PICK N \in Nat, L \in [Nat -> Nodes \cup {Null}],
           kind \in [Nodes -> Kinds], who \in [Nodes -> Threads \cup {Null}] :
        Chain(kind, L, N) /\ Placed(kind, who) /\ Counts(kind)
  BY DEF Ghosts
<1>2. PICK n \in Nodes : n = got[t]
  BY DEF Receive, PoolTypes, LocalTypes
<1>3. /\ held' = [held EXCEPT ![t] = @ \cup {n}]
      /\ got' = [got EXCEPT ![t] = Null]
      /\ UNCHANGED <<listVars, fpc, node, initialBlockPoolIndex, allocated>>
  BY <1>2 DEF Receive
<1> DEFINE k == [kind EXCEPT ![n] = "held"]
<1>4. kind[n] = "got" /\ who[n] = t
  BY <1>1, <1>2 DEF Placed
<1>5. k \in [Nodes -> Kinds] /\ k[n] = "held"
      /\ \A m \in Nodes : m # n => k[m] = kind[m]
  BY DEF Kinds
<1>6. Placed(k, who)'
  BY <1>1, <1>2, <1>3, <1>4, PoolFacts
  DEF Placed, NotDrawn, PoolTypes, BlockTypes, LocalTypes
<1>7. \A m \in Nodes : k[m] = "list" <=> kind[m] = "list"
  BY <1>4
<1>8. \A m \in Nodes : Refs(m)' = Refs(m) /\ freeListRefs'[m] = freeListRefs[m]
  BY <1>3 DEF Refs
<1>9. freeListRefs'[n] = Cardinality(Refs(n)') + Extra(k[n])
  BY <1>1, <1>4, <1>5, <1>8 DEF Counts, Extra
<1> HIDE DEF k
<1>10. Counts(k)'
  BY <1>1, <1>5, <1>8, <1>9, CountsMove
<1>11. Chain(k, L, N)'
  BY <1>1, <1>3, <1>7, ChainKeeps
<1> QED BY <1>5, <1>6, <1>10, <1>11 DEF Ghosts

\* The allocator hands out what is neither in the pool nor allocated.
LEMMA CreateStep ==
  ASSUME Parameters, PoolTypes, Locals, Ghosts, NEW t \in Threads, Create(t),
         allocated' # allocated
  PROVE  Ghosts'
<1> USE DEF freeListVars, listVars, localVars, Goto, Set, Busy
<1>1. PICK N \in Nat, L \in [Nat -> Nodes \cup {Null}],
           kind \in [Nodes -> Kinds], who \in [Nodes -> Threads \cup {Null}] :
        Chain(kind, L, N) /\ Placed(kind, who) /\ Counts(kind)
  BY DEF Ghosts
<1>2. PICK n \in Nodes \ (PoolBlocks \cup allocated) :
        /\ allocated' = allocated \cup {n}
        /\ held' = [held EXCEPT ![t] = @ \cup {n}]
        /\ UNCHANGED <<freeListVars, initialBlockPoolIndex>>
  BY DEF Create
<1> DEFINE k == [kind EXCEPT ![n] = "held"]
           w == [who EXCEPT ![n] = t]
<1>3. kind[n] = "none"
  BY <1>1, <1>2 DEF Placed
<1>4. k \in [Nodes -> Kinds] /\ w \in [Nodes -> Threads \cup {Null}]
      /\ k[n] = "held"
      /\ \A m \in Nodes : m # n => k[m] = kind[m]
  BY DEF Kinds
<1>5. \A m : NotDrawn(m)' <=> NotDrawn(m)
  BY <1>2 DEF NotDrawn
<1>6. Placed(k, w)'
  BY <1>1, <1>2, <1>3, <1>5 DEF Placed, PoolTypes, BlockTypes, PoolBlocks
<1>7. \A m \in Nodes : k[m] = "list" <=> kind[m] = "list"
  BY <1>3
<1>8. \A m \in Nodes : Refs(m)' = Refs(m) /\ freeListRefs'[m] = freeListRefs[m]
  BY <1>2 DEF Refs
<1>9. freeListRefs'[n] = Cardinality(Refs(n)') + Extra(k[n])
  BY <1>1, <1>3, <1>4, <1>8 DEF Counts, Extra
<1> HIDE DEF k, w
<1>10. Counts(k)'
  BY <1>1, <1>4, <1>8, <1>9, CountsMove
<1>11. Chain(k, L, N)'
  BY <1>1, <1>2, <1>7, ChainKeeps
<1> QED BY <1>4, <1>6, <1>10, <1>11 DEF Ghosts

\* A block that is returned is destroyed, or added, at once or by the last one
\* that has a reference to it.
LEMMA ReleaseStep ==
  ASSUME Parameters, PoolTypes, Locals, Ghosts, NEW t \in Threads,
         NEW n \in held[t], Release(t, n)
  PROVE  Ghosts'
<1> USE DEF freeListVars, listVars, localVars, Goto, Set, Busy
<1>1. PICK N \in Nat, L \in [Nat -> Nodes \cup {Null}],
           kind \in [Nodes -> Kinds], who \in [Nodes -> Threads \cup {Null}] :
        Chain(kind, L, N) /\ Placed(kind, who) /\ Counts(kind)
  BY DEF Ghosts
<1>2. /\ n \in Nodes /\ fpc[t] = "idle" /\ held' = [held EXCEPT ![t] = @ \ {n}]
      /\ UNCHANGED <<freeListHead, freeListRefs, freeListNext, head, next,
                     got>>
      /\ UNCHANGED initialBlockPoolIndex
  BY DEF Release, Add, PoolTypes, BlockTypes
<1>3. kind[n] = "held" /\ who[n] = t
  BY <1>1, <1>2 DEF Placed
<1>4. \A m : NotDrawn(m)' <=> NotDrawn(m)
  BY <1>2 DEF NotDrawn
<1>5. \A m \in Nodes : Refs(m)' = Refs(m)
  <2>1. \A u \in Threads : u # t => fpc'[u] = fpc[u] /\ node'[u] = node[u]
    BY DEF Release, Add, PoolTypes, LocalTypes
  <2>2. fpc'[t] \in {"idle", "adding"}
    BY <1>2 DEF Release, Add, PoolTypes, LocalTypes
  <2> QED BY <1>2, <2>1, <2>2 DEF Refs
<1>6. freeListRefs[n] = Cardinality(Refs(n))
      /\ (freeListRefs[n] = 0 <=> Refs(n) = {})
  BY <1>1, <1>2, <1>3, RefsFinite DEF Counts, Extra
<1>7. ASSUME NEW x \in {"none", "early", "due"},
             Placed([kind EXCEPT ![n] = x], who)',
             x = "early" => Refs(n) = {}, x = "due" => Refs(n) # {}
      PROVE  Ghosts'
  <2> DEFINE k == [kind EXCEPT ![n] = x]
  <2>1. k \in [Nodes -> Kinds] /\ k[n] = x
        /\ \A m \in Nodes : m # n => k[m] = kind[m]
    BY <1>2 DEF Kinds
  <2>2. \A m \in Nodes : k[m] = "list" <=> kind[m] = "list"
    BY <1>3, <2>1
  <2>3. freeListRefs'[n] = Cardinality(Refs(n)') + Extra(k[n])
    BY <1>2, <1>5, <1>6, <2>1, RefsFinite DEF Extra
  <2>4. Placed(k, who)'
    BY <1>7
  <2> HIDE DEF k
  <2>5. Counts(k)'
    BY <1>1, <1>2, <1>5, <1>7, <2>1, <2>3, CountsMove
  <2>6. Chain(k, L, N)'
    BY <1>1, <1>2, <2>2, ChainKeeps
  <2> QED BY <2>1, <2>4, <2>5, <2>6 DEF Ghosts
<1>8. CASE n \in allocated
  <2>1. UNCHANGED freeListVars /\ allocated' = allocated \ {n}
    BY <1>8 DEF Release
  <2>2. Placed([kind EXCEPT ![n] = "none"], who)'
    BY <1>1, <1>2, <1>3, <1>4, <1>8, <2>1
    DEF Placed, PoolTypes, BlockTypes, PoolBlocks
  <2> QED BY <1>7, <2>2
<1>9. CASE n \notin allocated
  <2>1. should' = [should EXCEPT ![n] = TRUE] /\ allocated' = allocated
    BY <1>9 DEF Release, Add
  <2>2. CASE freeListRefs[n] = 0
    <3>1. fpc' = [fpc EXCEPT ![t] = "adding"] /\ node' = [node EXCEPT ![t] = n]
      BY <1>9, <2>2 DEF Release, Add
    <3>2. Placed([kind EXCEPT ![n] = "early"], who)'
      BY <1>1, <1>2, <1>3, <1>4, <2>1, <3>1
      DEF Placed, PoolTypes, BlockTypes, ListTypes, LocalTypes, PoolBlocks
    <3> QED BY <1>6, <1>7, <2>2, <3>2
  <2>3. CASE freeListRefs[n] # 0
    <3>1. fpc' = fpc /\ node' = node
      BY <1>9, <2>3 DEF Release, Add
    <3>2. Placed([kind EXCEPT ![n] = "due"], who)'
      BY <1>1, <1>2, <1>3, <1>4, <2>1, <3>1
      DEF Placed, PoolTypes, BlockTypes, ListTypes, PoolBlocks
    <3> QED BY <1>6, <1>7, <2>3, <3>2
  <2> QED BY <2>2, <2>3
<1> QED BY <1>8, <1>9

\* A node's next is stored only by the thread that adds it, while nobody has a
\* reference to it.
LEMMA LinksStep ==
  ASSUME Parameters, PoolTypes, Locals, Links, Ghosts, Next
  PROVE  Links'
<1>1. PICK t \in Threads :
        \/ Requisition(t) \/ Draw(t) \/ FromList(t) \/ Step(t) \/ Receive(t)
        \/ Create(t) \/ \E b \in held[t] : Release(t, b)
  BY DEF Next
<1> USE DEF Links, Goto, Set, Busy, Return, Resume, PoolTypes, LocalTypes,
    freeListVars, listVars, localVars, poolVars
<1>2. CASE Requisition(t) \/ Draw(t) \/ Create(t)
  BY <1>2 DEF Requisition, Draw, Create
<1>3. CASE FromList(t)
  BY <1>3 DEF FromList, TryGet
<1>4. CASE Receive(t)
  BY <1>4 DEF Receive
<1>5. CASE \E b \in held[t] : Release(t, b)
  BY <1>5 DEF Release, Add
<1>6. CASE Link(t)
  <2>1. PICK n \in Nodes : n = node[t]
    BY <1>6 DEF Link, Locals
  <2>2. /\ fpc[t] = "link"
        /\ freeListNext' = [freeListNext EXCEPT ![n] = next[t]]
        /\ fpc' = [fpc EXCEPT ![t] = "count"] /\ UNCHANGED <<node, next>>
    BY <1>6, <2>1 DEF Link
  <2>3. ASSUME NEW u \in Threads, u # t, fpc[u] \in {"count", "push", "pop"}
        PROVE  node[u] # n
    <3>1. PICK N \in Nat, L \in [Nat -> Nodes \cup {Null}],
               kind \in [Nodes -> Kinds],
               who \in [Nodes -> Threads \cup {Null}] :
            Chain(kind, L, N) /\ Placed(kind, who) /\ Counts(kind)
      BY DEF Ghosts
    <3>2. kind[n] = "early" /\ who[n] = t
      BY <2>1, <2>2, <3>1 DEF Placed
    <3>3. Refs(n) = {}
      BY <3>1, <3>2 DEF Counts
    <3>4. fpc[u] = "pop" => node[u] # n
      BY <3>3 DEF Refs
    <3>5. fpc[u] \in {"count", "push"} => node[u] # n
      BY <2>3, <3>1, <3>2 DEF Placed
    <3> QED BY <2>3, <3>4, <3>5
  <2> QED BY <2>1, <2>2, <2>3 DEF ListTypes
<1>7. CASE LoadTop(t) \/ CountOne(t) \/ Retry(t)
  BY <1>7 DEF LoadTop, CountOne, Retry
<1>8. CASE Push(t) \/ Grab(t) \/ Reload(t)
  BY <1>8 DEF Push, Grab, Reload
<1>9. CASE ReadNext(t) \/ Pop(t)
  BY <1>9 DEF ReadNext, Pop
<1>10. CASE TakeNode(t) \/ Drop(t)
  BY <1>10 DEF TakeNode, Drop
<1> QED
  BY <1>1, <1>2, <1>3, <1>4, <1>5, <1>6, <1>7, <1>8, <1>9, <1>10
  DEF Step, FreeListStep

\* A step keeps the bound of the index.
LEMMA DrawBoundStep ==
  ASSUME Parameters, PoolTypes, DrawBound, Next PROVE DrawBound'
<1>1. PICK t \in Threads :
        \/ Requisition(t) \/ Draw(t) \/ FromList(t) \/ Step(t) \/ Receive(t)
        \/ Create(t) \/ \E b \in held[t] : Release(t, b)
  BY DEF Next
<1>2. /\ Drawing \in SUBSET Threads /\ Drawing' \in SUBSET Threads
      /\ Cardinality(Threads) \in Nat /\ Len(Pool) \in Nat
      /\ IsFiniteSet(Drawing) /\ IsFiniteSet(Drawing')
  BY PoolFacts, FS_Subset, FS_CardinalityType DEF Drawing
<1>3. /\ Cardinality(Drawing) \in Nat /\ Cardinality(Drawing') \in Nat
      /\ Cardinality(Drawing') <= Cardinality(Threads)
  BY <1>2, PoolFacts, SubsetSizes
<1>4. initialBlockPoolIndex \in Nat
  BY DEF PoolTypes, BlockTypes
<1>5. CASE initialBlockPoolIndex < Len(Pool) /\ UNCHANGED initialBlockPoolIndex
  BY <1>2, <1>3, <1>4, <1>5 DEF DrawBound
<1>6. CASE Drawing' = Drawing /\ UNCHANGED initialBlockPoolIndex
  BY <1>6 DEF DrawBound
<1>7. CASE Draw(t)
  <2>1. t \in Drawing /\ Drawing' = Drawing \ {t}
        /\ initialBlockPoolIndex' = initialBlockPoolIndex + 1
    BY <1>7 DEF Draw, Drawing, PoolTypes, BlockTypes
  <2>2. Cardinality(Drawing') = Cardinality(Drawing) - 1
    BY <1>2, <2>1, FS_RemoveElement
  <2> QED BY <1>2, <1>3, <1>4, <2>1, <2>2 DEF DrawBound
<1>8. CASE Requisition(t)
  <2>1. UNCHANGED initialBlockPoolIndex
    BY <1>8 DEF Requisition
  <2>2. initialBlockPoolIndex >= Len(Pool) => Drawing' = Drawing
    BY <1>8 DEF Requisition, Busy, Drawing, PoolTypes, BlockTypes
  <2>3. initialBlockPoolIndex < Len(Pool) \/ initialBlockPoolIndex >= Len(Pool)
    BY <1>2, <1>4
  <2> QED BY <1>5, <1>6, <2>1, <2>2, <2>3
<1>9. CASE FromList(t) \/ Receive(t) \/ Create(t)
  <2>1. UNCHANGED initialBlockPoolIndex /\ Drawing' = Drawing
    BY <1>9 DEF FromList, Receive, Create, Drawing, PoolTypes, BlockTypes
  <2> QED BY <1>6, <2>1
<1>10. CASE Step(t) \/ \E b \in held[t] : Release(t, b)
  <2>1. UNCHANGED <<initialBlockPoolIndex, ppc>>
    BY <1>10 DEF Step, Release, poolVars
  <2> QED BY <1>6, <2>1 DEF Drawing
<1> QED BY <1>1, <1>7, <1>8, <1>9, <1>10

\* A step keeps the invariant.
LEMMA PoolStep ==
  ASSUME Parameters, PoolInv, [Next]_vars PROVE PoolInv'
<1>1. CASE UNCHANGED vars
  <2> USE <1>1 DEF vars, freeListVars, listVars, localVars, poolVars
  <2>1. PoolTypes' /\ Locals' /\ Links' /\ DrawBound'
    BY DEF PoolInv, PoolTypes, ListTypes, LocalTypes, BlockTypes, Locals,
           Links, DrawBound, Drawing
  <2>2. Ghosts'
    BY SamePlaces DEF PoolInv, NotDrawn
  <2> QED BY <2>1, <2>2 DEF PoolInv
<1>2. CASE Next
  <2> USE DEF PoolInv
  <2>1. PoolTypes' /\ Locals' /\ Links' /\ DrawBound'
    BY <1>2, PoolTypesStep, PoolLocalsStep, LinksStep, DrawBoundStep
  <2>2. PICK t \in Threads :
          \/ Requisition(t) \/ Draw(t) \/ FromList(t) \/ Step(t) \/ Receive(t)
          \/ Create(t) \/ \E b \in held[t] : Release(t, b)
    BY <1>2 DEF Next
  <2>3. CASE Draw(t)
    <3>1. initialBlockPoolIndex < Len(Pool)
          \/ initialBlockPoolIndex >= Len(Pool)
      BY PoolFacts DEF PoolTypes, BlockTypes
    <3> QED BY <2>1, <2>3, <3>1, DrawStep, QuietStep
  <2>4. CASE Create(t)
    BY <2>1, <2>4, CreateStep, QuietStep
  <2>5. CASE Step(t)
    <3>1. UNCHANGED poolVars
      BY <2>5 DEF Step
    <3>2. CASE Pop(t)
      BY <2>1, <3>1, <3>2, PopStep, QuietStep
    <3>3. CASE Push(t)
      BY <2>1, <3>1, <3>3, PushStep, QuietStep
    <3>4. CASE LoadTop(t) \/ Link(t) \/ Reload(t) \/ ReadNext(t)
      BY <2>1, <3>1, <3>4, QuietStep
    <3>5. CASE CountOne(t) \/ Retry(t) \/ Grab(t) \/ TakeNode(t) \/ Drop(t)
      BY <2>1, <3>1, <3>5, CountStep, RetryStep, GrabStep, TakeStep, DropStep
    <3> QED BY <2>5, <3>2, <3>3, <3>4, <3>5 DEF Step, FreeListStep
  <2>6. CASE Requisition(t) \/ FromList(t)
    BY <2>1, <2>6, QuietStep
  <2>7. CASE Receive(t) \/ \E b \in held[t] : Release(t, b)
    BY <2>1, <2>7, ReceiveStep, ReleaseStep
  <2> QED BY <2>2, <2>3, <2>4, <2>5, <2>6, <2>7
<1> QED BY <1>1, <1>2

-----------------------------------------------------------------------------
(* What the invariant says of the properties *)

\* The recursion that walks the list meets its nodes from the head on.
LEMMA NthIs ==
  ASSUME Parameters, NEW N \in Nat,
         NEW L \in [Nat -> Nodes \cup {Null}], NEW kind, Chain(kind, L, N)
  PROVE  \A k \in Nat : Nth[k] = IF k <= N THEN L[N - k] ELSE Null
<1> DEFINE W == [k \in Nat |-> IF k <= N THEN L[N - k] ELSE Null]
           After(n) == IF n = Null THEN Null ELSE freeListNext[n]
           Walk(f) == [n \in Nat |->
             IF n = 0 THEN freeListHead
             ELSE IF f[n - 1] = Null THEN Null ELSE freeListNext[f[n - 1]]]
<1>1. W = Walk(W)
  <2>1. ASSUME NEW n \in Nat PROVE W[n] = Walk(W)[n]
    <3>1. CASE n = 0
      BY <3>1 DEF Chain
    <3>2. CASE n # 0 /\ n <= N
      <4>1. n - 1 \in Nat /\ n - 1 <= N /\ N - (n - 1) \in 1 .. N
            /\ (N - (n - 1)) - 1 = N - n
        BY <3>2
      <4>2. W[n - 1] = L[N - (n - 1)] /\ W[n] = L[N - n]
        BY <3>2, <4>1
      <4>3. L[N - (n - 1)] \in Nodes
            /\ freeListNext[L[N - (n - 1)]] = L[(N - (n - 1)) - 1]
        BY <4>1 DEF Chain
      <4> QED BY <3>2, <4>1, <4>2, <4>3, PoolFacts
    <3>3. CASE n # 0 /\ n = N + 1
      BY <3>3 DEF Chain
    <3>4. CASE n # 0 /\ n > N + 1
      BY <3>4
    <3> QED BY <3>1, <3>2, <3>3, <3>4
  <2> QED BY <2>1
<1>2. Nth = CHOOSE f : f = Walk(f)
  BY DEF Nth
<1>3. Nth = Walk(Nth)
  <2> HIDE DEF W, Walk
  <2> QED BY <1>1, <1>2
<1> DEFINE S == {k \in Nat : Nth[k] = W[k]}
<1>4. 0 \in S
  <2>1. Nth[0] = Walk(Nth)[0] /\ W[0] = Walk(W)[0]
    BY <1>1, <1>3
  <2> QED BY <2>1
<1>5. ASSUME NEW n \in Nat, n \in S PROVE n + 1 \in S
  <2>1. n + 1 \in Nat /\ n + 1 # 0 /\ (n + 1) - 1 = n /\ Nth[n] = W[n]
    BY <1>5
  <2>2. Nth[n + 1] = Walk(Nth)[n + 1] /\ W[n + 1] = Walk(W)[n + 1]
    BY <1>1, <1>3
  <2>3. Walk(Nth)[n + 1] = After(Nth[n]) /\ Walk(W)[n + 1] = After(W[n])
    <3> HIDE DEF W
    <3> QED BY <2>1
  <2>4. Nth[n + 1] = W[n + 1]
    BY <2>1, <2>2, <2>3
  <2> QED BY <2>1, <2>4
<1>6. Nat \subseteq S
  <2> HIDE DEF S
  <2> QED BY <1>4, <1>5, SetInduction
<1> QED BY <1>6

\* OnList is the nodes whose place is the list: the walk is long enough.
LEMMA OnListIs ==
  ASSUME Parameters, NEW N \in Nat,
         NEW L \in [Nat -> Nodes \cup {Null}], NEW kind, Chain(kind, L, N)
  PROVE  \A n \in Nodes : n \in OnList <=> kind[n] = "list"
<1> DEFINE S == {L[i] : i \in 1 .. N}
           f == [i \in 1 .. N |-> L[i]]
<1>1. S \in SUBSET Nodes
  BY DEF Chain
<1>2. f \in Bijection(1 .. N, S)
  BY <1>1 DEF Chain, Bijection, Injection, Surjection, IsInjective
<1>3. Cardinality(S) = N
  BY <1>2, FS_CountingElements DEF ExistsBijection
<1>4. N <= Cardinality(Nodes) /\ Cardinality(Nodes) \in Nat
  <2> HIDE DEF S
  <2> QED BY <1>1, <1>3, PoolFacts, SubsetSizes, FS_CardinalityType
<1>5. ASSUME NEW n \in Nodes, n \in OnList PROVE kind[n] = "list"
  <2>1. PICK k \in 0 .. Cardinality(Nodes) : n = Nth[k]
    BY <1>5 DEF OnList
  <2>2. k <= N /\ n = L[N - k]
    BY <1>4, <2>1, NthIs, PoolFacts
  <2>3. k # N
    BY <2>2, PoolFacts DEF Chain
  <2>4. N - k \in 1 .. N
    BY <1>4, <2>2, <2>3
  <2> QED BY <2>2, <2>4 DEF Chain
<1>6. ASSUME NEW n \in Nodes, kind[n] = "list" PROVE n \in OnList
  <2>1. PICK i \in 1 .. N : n = L[i]
    BY <1>6 DEF Chain
  <2>2. N - i \in 0 .. Cardinality(Nodes) /\ N - i \in Nat /\ N - i <= N
        /\ N - (N - i) = i
    BY <1>4
  <2>3. Nth[N - i] = n
    BY <2>1, <2>2, NthIs
  <2> QED BY <2>2, <2>3, PoolFacts DEF OnList
<1> QED BY <1>5, <1>6

\* What has nothing but x in it has at most one member.
LEMMA AtMostOne ==
  ASSUME NEW S, NEW x, S \subseteq {x} PROVE Cardinality(S) <= 1
<1>1. S = {} \/ S = {x}
  OBVIOUS
<1>2. Cardinality({}) = 0 /\ Cardinality({x}) = 1
  BY FS_EmptySet, FS_Singleton
<1>3. CASE S = {}
  BY <1>2, <1>3
<1>4. CASE S = {x}
  <2> HIDE <1>1
  <2> QED BY <1>2, <1>4
<1> QED BY <1>1, <1>3, <1>4

\* A block in one place has one holder or adder, or none.
LEMMA InvHandedOutOnce ==
  ASSUME Parameters, PoolInv PROVE HandedOutOnce
<1>1. PICK N \in Nat, L \in [Nat -> Nodes \cup {Null}],
           kind \in [Nodes -> Kinds], who \in [Nodes -> Threads \cup {Null}] :
        Chain(kind, L, N) /\ Placed(kind, who) /\ Counts(kind)
  BY DEF PoolInv, Ghosts
<1>2. ASSUME NEW b \in Nodes
      PROVE  /\ Cardinality(Holders(b)) <= 1
             /\ Holders(b) # {} =>
                  ~NotDrawn(b) /\ b \notin OnList /\ Adders(b) = {}
             /\ Cardinality(Adders(b)) <= 1
             /\ b \in OnList => Adders(b) = {}
  <2>1. b \in OnList <=> kind[b] = "list"
    BY <1>1, OnListIs
  <2>2. ASSUME NEW t \in Holders(b)
        PROVE t = who[b] /\ kind[b] \in {"held", "got", "take"}
    BY <1>1 DEF Holders, Placed
  <2>3. ASSUME NEW t \in Adders(b)
        PROVE t = who[b] /\ kind[b] \in {"early", "push"}
    BY <1>1 DEF Adders, Placed
  <2>4. Cardinality(Holders(b)) <= 1 /\ Cardinality(Adders(b)) <= 1
    <3>1. Holders(b) \subseteq {who[b]}
      BY ONLY <2>2
    <3>2. Adders(b) \subseteq {who[b]}
      BY ONLY <2>3
    <3> QED BY ONLY <3>1, <3>2, AtMostOne
  <2>5. NotDrawn(b) <=> kind[b] = "pool"
    BY <1>1 DEF Placed
  <2> QED BY <2>1, <2>2, <2>3, <2>4, <2>5
<1> QED BY <1>2 DEF HandedOutOnce

\* The bit is set of a node that is being added or to be added only.
LEMMA InvTakenIsOff ==
  ASSUME Parameters, PoolInv PROVE TakenIsOff
<1>1. PICK N \in Nat, L \in [Nat -> Nodes \cup {Null}],
           kind \in [Nodes -> Kinds], who \in [Nodes -> Threads \cup {Null}] :
        Chain(kind, L, N) /\ Placed(kind, who) /\ Counts(kind)
  BY DEF PoolInv, Ghosts
<1>2. ASSUME NEW t \in Threads, fpc[t] = "take" PROVE ~should[node[t]]
  <2>1. PICK n \in Nodes : n = node[t]
    BY <1>2 DEF PoolInv, Locals
  <2> QED BY <1>1, <1>2, <2>1 DEF Placed
<1> QED BY <1>2 DEF TakenIsOff

\* When no call is in progress nothing is on its way.
LEMMA InvNothingLost ==
  ASSUME Parameters, PoolInv PROVE NothingLost
<1>1. PICK N \in Nat, L \in [Nat -> Nodes \cup {Null}],
           kind \in [Nodes -> Kinds], who \in [Nodes -> Threads \cup {Null}] :
        Chain(kind, L, N) /\ Placed(kind, who) /\ Counts(kind)
  BY DEF PoolInv, Ghosts
<1>2. ASSUME Quiet, NEW b \in PoolBlocks
      PROVE  /\ Holders(b) # {} \/ NotDrawn(b) \/ b \in OnList
             /\ freeListRefs[b] = IF b \in OnList THEN 1 ELSE 0
  <2>1. b \in Nodes /\ \A t \in Threads : fpc[t] = "idle"
    BY <1>2, PoolFacts DEF Quiet, Busy
  <2>2. Refs(b) = {}
    BY <2>1 DEF Refs
  <2>3. kind[b] \notin {"early", "push", "take", "due", "none"}
    BY <1>1, <2>1, <2>2 DEF Placed, Counts
  <2>4. kind[b] \in {"pool", "held", "got", "list"}
    BY <2>1, <2>3 DEF Kinds
  <2>5. b \in OnList <=> kind[b] = "list"
    BY <1>1, <2>1, OnListIs
  <2>6. kind[b] \in {"held", "got"} => Holders(b) # {}
    BY <1>1, <2>1 DEF Placed, Holders
  <2>7. kind[b] = "pool" => NotDrawn(b)
    BY <1>1, <2>1 DEF Placed
  <2>8. freeListRefs[b] = Extra(kind[b])
    <3>1. freeListRefs[b] = 0 + Extra(kind[b])
      BY <1>1, <2>1, <2>2, FS_EmptySet DEF Counts
    <3> QED BY <3>1 DEF Extra
  <2> QED BY <2>4, <2>5, <2>6, <2>7, <2>8 DEF Extra
<1> QED BY <1>2 DEF NothingLost

\* The counts and the index are bounded.
LEMMA InvPoolTypes ==
  ASSUME Parameters, PoolInv PROVE TypeOK
<1>1. PICK N \in Nat, L \in [Nat -> Nodes \cup {Null}],
           kind \in [Nodes -> Kinds], who \in [Nodes -> Threads \cup {Null}] :
        Chain(kind, L, N) /\ Placed(kind, who) /\ Counts(kind)
  BY DEF PoolInv, Ghosts
<1>2. Cardinality(Threads) \in Nat
  BY PoolFacts, FS_CardinalityType
<1>3. ASSUME NEW n \in Nodes
      PROVE freeListRefs[n] \in 0 .. Cardinality(Threads) + 1
  <2>1. Refs(n) \in SUBSET Threads
    BY DEF Refs
  <2>2. Cardinality(Refs(n)) \in Nat
        /\ Cardinality(Refs(n)) <= Cardinality(Threads)
    BY <2>1, PoolFacts, SubsetSizes
  <2>3. freeListRefs[n] = Cardinality(Refs(n)) + Extra(kind[n])
        /\ Extra(kind[n]) \in 0 .. 1
    BY <1>1 DEF Counts, Extra
  <2> QED BY <1>2, <2>2, <2>3
<1>4. freeListRefs \in [Nodes -> 0 .. Cardinality(Threads) + 1]
  BY <1>3 DEF PoolInv, PoolTypes, ListTypes
<1>5. FreeListTypeOK
  BY <1>4 DEF FreeListTypeOK, PoolInv, PoolTypes, ListTypes, LocalTypes, Steps
<1>6. initialBlockPoolIndex \in 0 .. Len(Pool) + Cardinality(Threads)
  <2>1. Drawing \in SUBSET Threads
    BY DEF Drawing
  <2>2. Cardinality(Drawing) \in Nat
    BY <2>1, PoolFacts, SubsetSizes
  <2> QED BY <1>2, <2>2, PoolFacts
      DEF PoolInv, DrawBound, PoolTypes, BlockTypes
<1> QED BY <1>5, <1>6 DEF TypeOK, PoolInv, PoolTypes, BlockTypes

\* The invariant holds in every reachable state.
LEMMA PoolInvariant == ASSUME Parameters PROVE Spec => []PoolInv
<1>1. Init => PoolInv
  BY PoolInit
<1>2. PoolInv /\ [Next]_vars => PoolInv'
  BY PoolStep
<1> QED BY <1>1, <1>2, PTL DEF Spec

\* The type invariant, with the bounds of the count of references and of the
\* index of the pool, which threads may draw beyond its end.
THEOREM PoolTypesHold == ASSUME Parameters PROVE Spec => []TypeOK
BY PoolInvariant, InvPoolTypes, PTL

\* requisition_block never gives a block to two threads, nor one that is on the
\* free list or on its way there.
THEOREM PoolHandedOutOnce == ASSUME Parameters PROVE Spec => []HandedOutOnce
BY PoolInvariant, InvHandedOutOnce, PTL

\* The assertion of FreeList::try_get.
THEOREM PoolTakenIsOff == ASSUME Parameters PROVE Spec => []TakenIsOff
BY PoolInvariant, InvTakenIsOff, PTL

\* A block that was returned is there to be taken when all calls are over.
THEOREM PoolNothingLost == ASSUME Parameters PROVE Spec => []NothingLost
BY PoolInvariant, InvNothingLost, PTL

-----------------------------------------------------------------------------
(***************************************************************************)
(* The table of producers.                                                 *)
(***************************************************************************)

CONSTANTS
  Mortal, Casts, Tokens, hash_thread_id, InitialSize, MaxTables, MaxProducers

VARIABLES
  tables, table, count, resizing, producers, isExplicit, inactive, upc,
  mainHash, newCount, index, hash, ptr, mine, cast, reusedOld

Table == INSTANCE ProducerTable

Keys == Threads \cup {Table!Free, Table!Reusable}
Users == Threads \cup Tokens
Calls == {"out", "search", "copy", "check", "grow", "unlock", "room", "recycle",
          "insert", "uncount", "remove"}
InMain == {"search", "copy", "check", "grow", "room", "insert", "uncount"}

Slots(h) == 0 .. Table!Size(h) - 1

\* A table with slots, and what each of them has.
Shaped(T) ==
  \E n \in Nat \ {0} :
    T \in [key : [0 .. n - 1 -> Keys], value : [0 .. n - 1 -> 0 .. MaxProducers]]

SharedTypes ==
  /\ table \in 1 .. MaxTables
  /\ tables = [h \in 1 .. table |-> tables[h]]
  /\ \A h \in 1 .. table : Shaped(tables[h])
  /\ count \in Nat /\ resizing \in BOOLEAN
  /\ producers \in 0 .. MaxProducers
  /\ isExplicit \in [1 .. MaxProducers -> BOOLEAN]
  /\ inactive \in [1 .. MaxProducers -> BOOLEAN]
CallTypes ==
  /\ upc \in [Users -> Calls]
  /\ \A k \in Tokens : upc[k] \in {"out", "recycle"}
  /\ mainHash \in [Threads -> 0 .. table]
  /\ newCount \in [Threads -> Nat]
  /\ index \in [Threads -> Nat]
  /\ hash \in [Threads -> 0 .. table]
  /\ ptr \in [Users -> 0 .. producers]
  /\ mine \in [Users -> 0 .. producers]
  /\ \A t \in Threads :
       upc[t] \in InMain \/ upc[t] = "recycle" => mainHash[t] # 0
  /\ \A t \in Threads :
       upc[t] \in {"copy", "insert"} => index[t] \in Slots(mainHash[t])
TableTypes == SharedTypes /\ CallTypes

LEMMA SlotsAre ==
  ASSUME NEW T, NEW n \in Nat \ {0}, T \in [key : [0 .. n - 1 -> Keys],
         value : [0 .. n - 1 -> 0 .. MaxProducers]]
  PROVE  Table!Cardinality(DOMAIN T.key) = n
<1>1. DOMAIN T.key = 0 .. n - 1
  OBVIOUS
<1>2. Cardinality(0 .. n - 1) = n
  BY FS_Interval
<1> QED BY <1>1, <1>2 DEF Table!Cardinality, Cardinality

LEMMA SlotsOf ==
  ASSUME SharedTypes, NEW h \in 1 .. table
  PROVE  /\ Table!Size(h) \in Nat \ {0}
         /\ tables[h] \in [key : [0 .. Table!Size(h) - 1 -> Keys],
                           value : [0 .. Table!Size(h) - 1 -> 0 .. MaxProducers]]
<1>1. PICK n \in Nat \ {0} :
        tables[h] \in [key : [0 .. n - 1 -> Keys],
                       value : [0 .. n - 1 -> 0 .. MaxProducers]]
  BY DEF SharedTypes, Shaped
<1>2. Table!Size(h) = n
  BY <1>1, SlotsAre DEF Table!Size
<1> QED BY <1>1, <1>2

\* The loop that doubles the capacity ends.
LEMMA CapacityIs ==
  ASSUME SharedTypes, NEW t \in Threads, mainHash[t] \in 1 .. table,
         newCount[t] \in Nat
  PROVE  LET c == Table!NewCapacity(t)
         IN c \in Nat \ {0} /\ newCount[t] < c \div 2 /\ c >= 2 * Table!Size(mainHash[t])
<1> DEFINE N == newCount[t]
           m == Table!Size(mainHash[t])
           P == Table!Pow2
           S == {n \in Nat : N < (m * P[n + 1]) \div 2}
<1>0. m \in Nat \ {0} /\ N \in Nat
  BY SlotsOf
<1>1. P[0] = 1 /\ \A n \in Nat : P[n + 1] = 2 * P[n] /\ P[n] \in Nat /\ P[n] > n
  <2>1. P = Pow2
    BY DEF Table!Pow2, Pow2
  <2> QED BY <2>1, PowersAre
<1> HIDE DEF m, N, P
<1>2. ASSUME NEW n \in Nat PROVE (m * P[n + 1]) \div 2 = m * P[n] /\ m * P[n] \in Nat
  <2>1. P[n] \in Nat /\ P[n + 1] = 2 * P[n]
    BY <1>1
  <2>2. m * P[n] \in Nat
    BY <1>0, <2>1
  <2>3. m * (2 * P[n]) = 2 * (m * P[n])
    BY <1>0, <2>1
  <2>4. \A x \in Nat : (2 * x) \div 2 = x
    OBVIOUS
  <2> QED BY <2>1, <2>2, <2>3, <2>4
<1>3. N \in S
  <2>1. P[N] \in Nat /\ P[N] > N
    BY <1>0, <1>1
  <2>2. m * P[N] >= P[N]
    BY <1>0, <2>1
  <2> QED BY <1>0, <1>2, <2>1, <2>2
<1>4. PICK k \in S : \A n \in S : k <= n
  BY <1>3, SmallestMember
<1>5. k \in Nat /\ k <= N /\ k + 1 \in 1 .. N + 1
  BY <1>0, <1>3, <1>4
<1> DEFINE c == m * P[k + 1]
           C == {m * P[n] : n \in 1 .. N + 1}
           Fine(x) == N < x \div 2 /\ (x = 2 * m \/ N >= x \div 4)
<1>6. c \in C
  BY <1>5
<1>7. Fine(c)
  <2>1. N < c \div 2
    BY <1>4
  <2>2. CASE k = 0
    <3>1. P[k + 1] = 2
      BY <1>1, <2>2
    <3> QED BY <1>0, <2>1, <3>1
  <2>3. CASE k # 0
    <3>1. k - 1 \in Nat /\ k - 1 + 1 = k /\ k - 1 \notin S
      BY <1>4, <1>5, <2>3
    <3>2. ~(N < m * P[k - 1])
      BY <3>1, <1>2
    <3>3. P[k - 1] \in Nat /\ P[k + 1] = 2 * (2 * P[k - 1])
      BY <1>1, <1>5, <3>1
    <3>4. m * P[k - 1] \in Nat /\ c = 4 * (m * P[k - 1])
      BY <1>0, <3>3
    <3>5. \A x \in Nat : (4 * x) \div 4 = x
      OBVIOUS
    <3>6. N >= c \div 4
      <4> HIDE DEF c
      <4> QED BY <1>0, <3>2, <3>4, <3>5
    <3> QED BY <2>1, <3>6
  <2> QED BY <2>2, <2>3
<1> DEFINE d == CHOOSE x \in C : Fine(x)
<1>8. d \in C /\ Fine(d)
  <2> HIDE DEF C, Fine, c
  <2> QED BY <1>6, <1>7
<1>9. d = Table!NewCapacity(t)
  BY DEF Table!NewCapacity, m, N, P
<1>10. PICK n \in 1 .. N + 1 : d = m * P[n]
  BY <1>8
<1>11. P[n] \in Nat /\ P[n] > n
  BY <1>0, <1>1
<1>12. d \in Nat \ {0} /\ d >= 2 * m
  <2>1. n \in Nat /\ n >= 1 /\ P[n] >= 2
    BY <1>0, <1>11
  <2>2. m * P[n] >= m * 2
    BY <1>0, <1>11, <2>1
  <2> HIDE DEF d
  <2> QED BY <1>0, <1>10, <1>11, <2>2
<1> QED BY <1>8, <1>9, <1>12 DEF m, N

-----------------------------------------------------------------------------
(* What a step does to the tables. *)

\* Slot s of table h gets key k and value v, and nothing else changes.
Writes(h, s, k, v) ==
  /\ table' = table
  /\ tables' = [g \in 1 .. table |-> tables'[g]]
  /\ \A g \in 1 .. table : g # h => tables'[g] = tables[g]
  /\ tables'[h].key = [tables[h].key EXCEPT ![s] = k]
  /\ tables'[h].value = [tables[h].value EXCEPT ![s] = v]
  /\ tables'[h] = [key |-> tables'[h].key, value |-> tables'[h].value]

Unused(k) == k \in {Table!Free, Table!Reusable}
PutsAt(t, h, s) == Unused(tables[h].key[s]) /\ Writes(h, s, t, mine[t])
TakesAt(t, h, s) ==
  tables[h].key[s] = t /\ Writes(h, s, Table!Reusable, tables[h].value[s])

\* One more table, with nobody in it.
Adds ==
  /\ table' = table + 1 /\ table' \in 1 .. MaxTables
  /\ tables' = [g \in 1 .. table' |-> tables'[g]]
  /\ \A g \in 1 .. table : tables'[g] = tables[g]
  /\ Shaped(tables'[table'])
  /\ \A s \in DOMAIN tables'[table'].key : tables'[table'].key[s] = Table!Free

LEMMA PutWrites ==
  ASSUME SharedTypes, NEW h \in 1 .. table, NEW s, NEW t, table' = table,
         Table!Put(t, h, s)
  PROVE  Writes(h, s, t, mine[t])
<1>1. tables = [g \in 1 .. table |-> tables[g]]
  BY DEF SharedTypes
<1>2. DOMAIN tables[h] = {"key", "value"}
      /\ tables[h] = [key |-> tables[h].key, value |-> tables[h].value]
  BY SlotsOf
<1>3. tables' = [tables EXCEPT ![h].key[s] = t, ![h].value[s] = mine[t]]
  BY DEF Table!Put
<1>4. DOMAIN tables' = 1 .. table /\ \A g \in 1 .. table : g # h => tables'[g] = tables[g]
  BY <1>1, <1>3
<1>5. tables'[h] = [tables[h] EXCEPT !.key[s] = t, !.value[s] = mine[t]]
  BY <1>1, <1>3
<1>6. tables'[h] = [key |-> [tables[h].key EXCEPT ![s] = t],
                    value |-> [tables[h].value EXCEPT ![s] = mine[t]]]
  BY <1>2, <1>5
<1>7. tables' = [g \in 1 .. table |-> tables'[g]]
  BY <1>1, <1>3
<1> QED BY <1>4, <1>6, <1>7 DEF Writes

LEMMA TakeWrites ==
  ASSUME SharedTypes, NEW h \in 1 .. table, NEW s \in Slots(h), table' = table,
         tables' = [tables EXCEPT ![h].key[s] = Table!Reusable]
  PROVE  Writes(h, s, Table!Reusable, tables[h].value[s])
<1>1. tables = [g \in 1 .. table |-> tables[g]]
  BY DEF SharedTypes
<1>2. tables[h] \in [key : [Slots(h) -> Keys], value : [Slots(h) -> 0 .. MaxProducers]]
  BY SlotsOf DEF Slots
<1>3. /\ tables' = [g \in 1 .. table |-> tables'[g]]
      /\ \A g \in 1 .. table : g # h => tables'[g] = tables[g]
  BY <1>1
<1>4. tables'[h] = [tables[h] EXCEPT !.key[s] = Table!Reusable]
  BY <1>1
<1>5. /\ tables'[h].key = [tables[h].key EXCEPT ![s] = Table!Reusable]
      /\ tables'[h].value = tables[h].value
      /\ tables'[h] = [key |-> tables'[h].key, value |-> tables'[h].value]
  BY <1>2, <1>4
<1>6. tables[h].value = [tables[h].value EXCEPT ![s] = tables[h].value[s]]
  BY <1>2
<1> QED BY <1>1, <1>3, <1>5, <1>6 DEF Writes

LEMMA GrowAdds ==
  ASSUME Table!Parameters, TableTypes, NEW t \in Threads, Table!Grow(t)
  PROVE  Adds
<1> DEFINE c == Table!NewCapacity(t)
<1>1. mainHash[t] \in 1 .. table /\ newCount[t] \in Nat
  BY DEF TableTypes, CallTypes, InMain, Table!Grow, Users
<1>2. c \in Nat \ {0}
  BY <1>1, CapacityIs DEF TableTypes
<1>3. table' = table + 1 /\ table' \in 1 .. MaxTables
  BY DEF Table!Grow, Table!Parameters, TableTypes, SharedTypes
<1> HIDE DEF c
<1>4. tables' = [g \in 1 .. table + 1 |->
                   IF g <= table THEN tables[g] ELSE Table!NewTable(c)]
  BY DEF Table!Grow, c
<1>5. tables'[table'] = Table!NewTable(c)
  BY <1>3, <1>4 DEF TableTypes, SharedTypes
<1>6. Shaped(tables'[table'])
  <2>1. 0 \in 0 .. MaxProducers
    BY DEF Table!Parameters
  <2>2. Table!NewTable(c)
          \in [key : [0 .. c - 1 -> Keys], value : [0 .. c - 1 -> 0 .. MaxProducers]]
    BY <2>1 DEF Table!NewTable, Table!None, Keys
  <2> QED BY <1>2, <1>5, <2>2 DEF Shaped
<1>7. \A s \in DOMAIN tables'[table'].key : tables'[table'].key[s] = Table!Free
  BY <1>5 DEF Table!NewTable
<1>8. \A g \in 1 .. table : tables'[g] = tables[g]
  BY <1>4 DEF TableTypes, SharedTypes
<1> QED BY <1>3, <1>4, <1>6, <1>7, <1>8 DEF Adds

\* Tables keep their sizes, and all slots but the one written what they have.
LEMMA WritesKeep ==
  ASSUME SharedTypes, NEW h \in 1 .. table, NEW s \in Slots(h), NEW k \in Keys,
         NEW v \in 0 .. MaxProducers, Writes(h, s, k, v)
  PROVE  \A g \in 1 .. table :
           /\ Shaped(tables'[g]) /\ Table!Size(g)' = Table!Size(g)
           /\ \A x \in Slots(g) :
                /\ tables'[g].key[x] = IF g = h /\ x = s THEN k ELSE tables[g].key[x]
                /\ tables'[g].value[x] =
                     IF g = h /\ x = s THEN v ELSE tables[g].value[x]
<1> TAKE g \in 1 .. table
<1> DEFINE n == Table!Size(g)
<1>1. /\ n \in Nat \ {0} /\ Slots(g) = 0 .. n - 1
      /\ tables[g] \in [key : [Slots(g) -> Keys], value : [Slots(g) -> 0 .. MaxProducers]]
  BY SlotsOf DEF Slots
<1>2. CASE g # h
  <2>1. tables'[g] = tables[g]
    BY <1>2 DEF Writes
  <2>2. Shaped(tables'[g]) /\ Table!Size(g)' = Table!Size(g)
    BY <2>1 DEF SharedTypes, Table!Size
  <2> QED BY <1>2, <2>1, <2>2
<1>3. CASE g = h
  <2>1. /\ tables'[g].key = [tables[g].key EXCEPT ![s] = k]
        /\ tables'[g].value = [tables[g].value EXCEPT ![s] = v]
        /\ tables'[g] = [key |-> tables'[g].key, value |-> tables'[g].value]
    BY <1>3 DEF Writes
  <2>2. /\ tables'[g].key \in [Slots(g) -> Keys]
        /\ tables'[g].value \in [Slots(g) -> 0 .. MaxProducers]
        /\ DOMAIN tables'[g].key = DOMAIN tables[g].key
    BY ZenonT(40), <1>1, <2>1
  <2>3. Table!Size(g)' = Table!Size(g)
    BY <2>2 DEF Table!Size
  <2>4. tables'[g] \in [key : [0 .. n - 1 -> Keys], value : [0 .. n - 1 -> 0 .. MaxProducers]]
    BY <1>1, <2>1, <2>2
  <2>5. Shaped(tables'[g])
    BY <1>1, <2>4 DEF Shaped
  <2>6. /\ tables[g].key \in [Slots(g) -> Keys]
        /\ tables[g].value \in [Slots(g) -> 0 .. MaxProducers]
    BY <1>1
  <2>7. ASSUME NEW x \in Slots(g)
        PROVE  /\ tables'[g].key[x] = IF x = s THEN k ELSE tables[g].key[x]
               /\ tables'[g].value[x] = IF x = s THEN v ELSE tables[g].value[x]
    BY <1>3, <2>1, <2>6
  <2> QED BY <1>3, <2>3, <2>5, <2>7
<1> QED BY <1>2, <1>3

LEMMA AddsKeep ==
  ASSUME SharedTypes, Adds
  PROVE  /\ \A g \in 1 .. table :
              /\ Shaped(tables'[g]) /\ Table!Size(g)' = Table!Size(g)
              /\ tables'[g] = tables[g]
         /\ \A g \in 1 .. table' :
              \/ g \in 1 .. table
              \/ /\ Shaped(tables'[g])
                 /\ \A s \in DOMAIN tables'[g].key : tables'[g].key[s] = Table!Free
<1>1. ASSUME NEW g \in 1 .. table
      PROVE  /\ Shaped(tables'[g]) /\ Table!Size(g)' = Table!Size(g)
             /\ tables'[g] = tables[g]
  BY DEF Adds, SharedTypes, Table!Size
<1>2. ASSUME NEW g \in 1 .. table', g \notin 1 .. table PROVE g = table'
  BY <1>2 DEF Adds, SharedTypes
<1> QED BY <1>1, <1>2 DEF Adds

\* Where a search for t in table h ends.
LEMMA EndIs ==
  ASSUME Table!Parameters, SharedTypes, NEW t \in Threads, NEW h \in 1 .. table,
         Table!Ends(t, h)
  PROVE  /\ Table!EndOf(t, h) \in Slots(h)
         /\ \E n \in Table!Stops(t, h) :
              /\ Table!EndOf(t, h) = Table!Slot(h, hash_thread_id[t] + n)
              /\ \A k \in Table!Stops(t, h) : n <= k
<1> DEFINE S == Table!Stops(t, h)
           m == CHOOSE n \in S : \A k \in S : n <= k
<1>1. S \in SUBSET Nat /\ S # {}
  BY SlotsOf DEF Table!Stops, Table!Ends
<1>2. m \in S /\ \A k \in S : m <= k
  <2> HIDE DEF S
  <2> QED BY <1>1, SmallestMember
<1>3. Table!EndOf(t, h) = Table!Slot(h, hash_thread_id[t] + m)
  BY DEF Table!EndOf
<1>4. hash_thread_id[t] \in Nat /\ m \in Nat
  BY <1>1, <1>2 DEF Table!Parameters
<1> HIDE DEF m
<1>5. Table!Slot(h, hash_thread_id[t] + m) \in Slots(h)
  BY <1>4, SlotsOf DEF Slots, Table!Slot
<1> QED BY <1>2, <1>3, <1>5

\* What a step does to the tables.
TableMoves(t) ==
  \/ tables' = tables /\ table' = table
  \/ /\ upc[t] \in {"copy", "insert"}
     /\ PutsAt(t, mainHash[t], index[t])
  \/ \E h \in 1 .. table : \E s \in Slots(h) : TakesAt(t, h, s)
  \/ Adds

LEMMA Moves ==
  ASSUME Table!Parameters, TableTypes, NEW t \in Threads,
         Table!LoadTable(t) \/ Table!Exit(t) \/ Table!Resume(t)
  PROVE  TableMoves(t)
<1>1. CASE Table!Copy(t) \/ Table!Insert(t)
  <2> DEFINE h == mainHash[t]
             s == index[t]
  <2>1. upc[t] \in {"copy", "insert"} /\ table' = table
    BY <1>1 DEF Table!Copy, Table!Insert
  <2>2. h \in 1 .. table /\ t \in Users
    BY <2>1 DEF TableTypes, SharedTypes, CallTypes, InMain, Users
  <2>3. CASE Unused(tables[h].key[s])
    <3>1. Table!Put(t, h, s)
      BY <1>1, <2>3 DEF Table!Copy, Table!Insert, Unused
    <3>2. Writes(h, s, t, mine[t])
      BY <2>1, <2>2, <3>1, PutWrites DEF TableTypes
    <3> QED BY <2>1, <2>3, <3>2 DEF TableMoves, PutsAt
  <2>4. CASE ~Unused(tables[h].key[s])
    <3>1. tables' = tables
      BY <1>1, <2>4 DEF Table!Copy, Table!Insert, Unused, Table!NextIndex
    <3> QED BY <2>1, <3>1 DEF TableMoves
  <2> QED BY <2>3, <2>4
<1>2. CASE Table!Grow(t)
  BY <1>2, GrowAdds DEF TableMoves
<1>3. CASE Table!Remove(t)
  <2> DEFINE h == hash[t]
             s == Table!EndOf(t, h)
  <2>1. h \in 1 .. table /\ Table!Ends(t, h) /\ table' = table
    BY <1>3 DEF Table!Remove, TableTypes, SharedTypes, CallTypes, Table!None
  <2>2. s \in Slots(h)
    BY <2>1, EndIs DEF TableTypes
  <2>3. CASE Table!IsIn(t, h)
    <3>1. tables[h].key[s] = t
      BY <2>3 DEF Table!IsIn
    <3>2. tables' = [tables EXCEPT ![h].key[s] = Table!Reusable]
      BY <1>3, <2>3 DEF Table!Remove
    <3> HIDE DEF h, s
    <3>3. Writes(h, s, Table!Reusable, tables[h].value[s])
      BY <2>1, <2>2, <3>2, TakeWrites DEF TableTypes
    <3> QED BY <2>1, <2>2, <3>1, <3>3 DEF TableMoves, TakesAt
  <2>4. CASE ~Table!IsIn(t, h)
    BY <1>3, <2>1, <2>4 DEF Table!Remove, TableMoves
  <2> QED BY <2>3, <2>4
<1>4. CASE ~(Table!Copy(t) \/ Table!Insert(t) \/ Table!Grow(t) \/ Table!Remove(t))
  <2>1. tables' = tables /\ table' = table
    BY <1>4 DEF Table!LoadTable, Table!Exit, Table!Resume, Table!Search,
       Table!Count,
         Table!Lock, Table!GrownAlready, Table!GrowFails, Table!Unlock,
         Table!NoLock,
         Table!Room, Table!NoRoom, Table!Recycle, Table!Create, Table!CreateFails,
         Table!Uncount, Table!Recyclable, Table!tableVars
  <2> QED BY <2>1 DEF TableMoves
<1> QED BY <1>1, <1>2, <1>3, <1>4

\* What the tables are to a thread u that has not taken the step.
SameFor(u) ==
  \A g \in 1 .. table : \A x \in Slots(g) :
    /\ (tables'[g].key[x] = u) = (tables[g].key[x] = u)
    /\ tables[g].key[x] = u => tables'[g].value[x] = tables[g].value[x]

\* Tables and their sizes stay, a slot that was used never becomes free again,
\* and nobody is in a new table.
Grown ==
  /\ table' \in 1 .. MaxTables /\ table <= table'
  /\ tables' = [g \in 1 .. table' |-> tables'[g]]
  /\ \A g \in 1 .. table' : Shaped(tables'[g])
  /\ \A g \in 1 .. table : Slots(g)' = Slots(g) /\ Table!Size(g)' = Table!Size(g)
  /\ \A g \in 1 .. table : \A x \in Slots(g) :
       tables[g].key[x] # Table!Free => tables'[g].key[x] # Table!Free
  /\ \A g \in 1 .. table' : \A x \in Slots(g)' :
       g \in 1 .. table \/ tables'[g].key[x] = Table!Free

LEMMA MovesKeep ==
  ASSUME Table!Parameters, TableTypes, NEW t \in Threads, TableMoves(t)
  PROVE  Grown /\ \A u \in Threads \ {t} : SameFor(u)
<1>0. /\ SharedTypes /\ table \in 1 .. MaxTables /\ MaxTables \in Nat
      /\ Table!Free \notin Threads /\ Table!Reusable \notin Threads
      /\ Table!Free # Table!Reusable
  BY DEF TableTypes, SharedTypes, Table!Parameters, Table!Free, Table!Reusable
<1>1. CASE tables' = tables /\ table' = table
  BY <1>0, <1>1 DEF Grown, SameFor, SharedTypes, Slots, Table!Size
<1>2. ASSUME NEW h \in 1 .. table, NEW s \in Slots(h), NEW k \in Keys,
             NEW v \in 0 .. MaxProducers, Writes(h, s, k, v),
             \/ tables[h].key[s] = t /\ k = Table!Reusable
             \/ Unused(tables[h].key[s]) /\ k = t
      PROVE  Grown /\ \A u \in Threads \ {t} : SameFor(u)
  <2>1. \A g \in 1 .. table :
           /\ Shaped(tables'[g]) /\ Table!Size(g)' = Table!Size(g)
           /\ \A x \in Slots(g) :
                /\ tables'[g].key[x] = IF g = h /\ x = s THEN k ELSE tables[g].key[x]
                /\ tables'[g].value[x] =
                     IF g = h /\ x = s THEN v ELSE tables[g].value[x]
    BY <1>0, <1>2, WritesKeep
  <2>2. table' = table /\ tables' = [g \in 1 .. table |-> tables'[g]]
    BY <1>2 DEF Writes
  <2>3. \A g \in 1 .. table : Slots(g)' = Slots(g)
    BY <2>1 DEF Slots
  <2>4. ASSUME NEW g \in 1 .. table, NEW x \in Slots(g), tables[g].key[x] # Table!Free
        PROVE  tables'[g].key[x] # Table!Free
    BY <1>0, <1>2, <2>1, <2>4
  <2>5. Grown
    BY <1>0, <2>1, <2>2, <2>3, <2>4 DEF Grown
  <2>6. ASSUME NEW u \in Threads \ {t} PROVE SameFor(u)
    BY <1>0, <1>2, <2>1 DEF SameFor, Unused
  <2> QED BY <2>5, <2>6
<1>3. CASE upc[t] \in {"copy", "insert"} /\ PutsAt(t, mainHash[t], index[t])
  <2>1. t \in Users /\ t \in Keys /\ upc[t] \in InMain
    BY <1>3 DEF Users, Keys, InMain
  <2>2. mainHash[t] \in 1 .. table
    BY <1>0, <2>1 DEF TableTypes, CallTypes
  <2>3. index[t] \in Slots(mainHash[t])
    BY <1>3 DEF TableTypes, CallTypes
  <2>4. mine[t] \in 0 .. MaxProducers
    <3>1. mine[t] \in 0 .. producers
      BY <2>1 DEF TableTypes, CallTypes
    <3>2. producers \in 0 .. MaxProducers /\ MaxProducers \in Nat
      BY DEF TableTypes, SharedTypes, Table!Parameters
    <3> QED BY <3>1, <3>2
  <2> QED BY <1>2, <1>3, <2>1, <2>2, <2>3, <2>4 DEF PutsAt
<1>4. ASSUME NEW h \in 1 .. table, NEW s \in Slots(h), TakesAt(t, h, s)
      PROVE  Grown /\ \A u \in Threads \ {t} : SameFor(u)
  <2>1. tables[h].value[s] \in 0 .. MaxProducers /\ Table!Reusable \in Keys
    BY <1>0, SlotsOf DEF Slots, Keys
  <2> QED BY <1>2, <1>4, <2>1 DEF TakesAt
<1>5. CASE Adds
  <2>1. \A g \in 1 .. table :
           /\ Shaped(tables'[g]) /\ Table!Size(g)' = Table!Size(g)
           /\ tables'[g] = tables[g]
    BY <1>0, <1>5, AddsKeep
  <2>2. \A g \in 1 .. table' :
          \/ g \in 1 .. table
          \/ /\ Shaped(tables'[g])
             /\ \A s \in DOMAIN tables'[g].key : tables'[g].key[s] = Table!Free
    BY <1>0, <1>5, AddsKeep
  <2>3. \A g \in 1 .. table : Slots(g)' = Slots(g)
    BY <2>1 DEF Slots
  <2>4. ASSUME NEW g \in 1 .. table', g \notin 1 .. table, NEW x \in Slots(g)'
        PROVE  tables'[g].key[x] = Table!Free
    <3>1. PICK n \in Nat \ {0} :
            tables'[g] \in [key : [0 .. n - 1 -> Keys],
                            value : [0 .. n - 1 -> 0 .. MaxProducers]]
      BY <2>2, <2>4 DEF Shaped
    <3>2. Table!Size(g)' = n
      BY <3>1, SlotsAre DEF Table!Size
    <3>3. x \in DOMAIN tables'[g].key
      BY <3>1, <3>2 DEF Slots
    <3> QED BY <2>2, <2>4, <3>3
  <2>5. \A g \in 1 .. table' : Shaped(tables'[g])
    BY <2>1, <2>2
  <2>6. Grown
    BY <1>0, <1>5, <2>1, <2>3, <2>4, <2>5 DEF Grown, Adds
  <2> QED BY <2>1, <2>6 DEF SameFor
<1> QED BY <1>1, <1>3, <1>4, <1>5 DEF TableMoves

-----------------------------------------------------------------------------
(* Types *)

LEMMA TableTypesInit == Table!Parameters /\ Table!Init => TableTypes
<1> SUFFICES ASSUME Table!Parameters, Table!Init PROVE TableTypes
  OBVIOUS
<1>1. InitialSize \in Nat \ {0}
  <2>1. Table!Pow2 = Pow2
    BY DEF Table!Pow2, Pow2
  <2>2. PICK n \in Nat : InitialSize = Pow2[n]
    BY <2>1 DEF Table!Parameters
  <2> QED BY <2>2, PowersAre
<1>2. MaxTables \in Nat \ {0} /\ MaxProducers \in Nat
  BY DEF Table!Parameters
<1>3. Table!NewTable(InitialSize)
        \in [key : [0 .. InitialSize - 1 -> Keys],
            value : [0 .. InitialSize - 1 -> 0 .. MaxProducers]]
  BY <1>2 DEF Table!NewTable, Table!None, Keys
<1>4. tables = [h \in 1 .. 1 |-> Table!NewTable(InitialSize)] /\ table = 1
  BY DEF Table!Init
<1>5. Shaped(tables[1])
  BY <1>1, <1>3, <1>4 DEF Shaped
<1>6. SharedTypes
  <2>1. table \in 1 .. MaxTables /\ 1 .. table = {1}
    BY <1>2, <1>4
  <2>2. tables = [h \in 1 .. table |-> tables[h]]
    BY <1>4
  <2>3. \A h \in 1 .. table : Shaped(tables[h])
    BY <1>5, <2>1
  <2>a. count = 0 /\ resizing = FALSE /\ producers = 0
    BY DEF Table!Init
  <2>b. count \in Nat /\ producers \in 0 .. MaxProducers
    BY <1>2, <2>a
  <2>4. resizing \in BOOLEAN
    BY <2>a, Zenon
  <2>5. /\ isExplicit = [p \in 1 .. MaxProducers |-> FALSE]
        /\ inactive = [p \in 1 .. MaxProducers |-> FALSE]
    BY DEF Table!Init, Table!Producers
  <2>6. /\ isExplicit \in [1 .. MaxProducers -> BOOLEAN]
        /\ inactive \in [1 .. MaxProducers -> BOOLEAN]
    BY <2>5
  <2> QED BY <2>1, <2>2, <2>3, <2>b, <2>4, <2>6 DEF SharedTypes
<1>7. CallTypes
  BY <1>2, <1>4
     DEF CallTypes, Table!Init, Table!Users, Table!None, Users, Calls, InMain
<1> QED BY <1>6, <1>7 DEF TableTypes


\* A step of u changes only its own locals, and these have their types.
Own(u) ==
  /\ upc' = [upc EXCEPT ![u] = upc'[u]] /\ upc'[u] \in Calls
  /\ ptr' = [ptr EXCEPT ![u] = ptr'[u]] /\ ptr'[u] \in 0 .. producers'
  /\ mine' = [mine EXCEPT ![u] = mine'[u]] /\ mine'[u] \in 0 .. producers'
  /\ \/ /\ u \in Tokens /\ upc'[u] \in {"out", "recycle"}
        /\ UNCHANGED <<mainHash, newCount, index, hash>>
     \/ /\ u \in Threads
        /\ mainHash' = [mainHash EXCEPT ![u] = mainHash'[u]]
        /\ mainHash'[u] \in 0 .. table'
        /\ newCount' = [newCount EXCEPT ![u] = newCount'[u]]
        /\ newCount'[u] \in Nat
        /\ index' = [index EXCEPT ![u] = index'[u]] /\ index'[u] \in Nat
        /\ hash' = [hash EXCEPT ![u] = hash'[u]] /\ hash'[u] \in 0 .. table'
        /\ upc'[u] \in InMain \/ upc'[u] = "recycle" => mainHash'[u] # 0
        /\ upc'[u] \in {"copy", "insert"} => index'[u] \in Slots(mainHash[u])'

LEMMA SlotsPrimed ==
  ASSUME NEW t, NEW m, mainHash'[t] = m
  PROVE  Slots(mainHash[t])' = Slots(m)'
BY DEF Slots, Table!Size

LEMMA OwnTypes ==
  ASSUME Table!Parameters, TableTypes, Grown, producers' \in 0 .. MaxProducers,
         producers <= producers', NEW u \in Users, Own(u)
  PROVE  CallTypes'
<1>0. /\ table \in Nat /\ table' \in Nat /\ table <= table' /\ MaxProducers \in Nat
      /\ producers \in Nat /\ producers' \in Nat /\ Threads \cap Tokens = {}
  BY DEF TableTypes, SharedTypes, Table!Parameters, Grown
<1>1. 0 .. table \subseteq 0 .. table' /\ 0 .. producers \subseteq 0 .. producers'
  BY <1>0
<1>2. /\ upc' \in [Users -> Calls] /\ ptr' \in [Users -> 0 .. producers']
      /\ mine' \in [Users -> 0 .. producers']
  BY <1>1 DEF TableTypes, CallTypes, Own
<1>3. /\ mainHash' \in [Threads -> 0 .. table'] /\ newCount' \in [Threads -> Nat]
      /\ index' \in [Threads -> Nat] /\ hash' \in [Threads -> 0 .. table']
  BY <1>1 DEF TableTypes, CallTypes, Own
<1>4. \A k \in Tokens : upc'[k] \in {"out", "recycle"}
  BY <1>0 DEF TableTypes, CallTypes, Own, Users
<1>5. ASSUME NEW t \in Threads
      PROVE  /\ upc'[t] \in InMain \/ upc'[t] = "recycle" => mainHash'[t] # 0
             /\ upc'[t] \in {"copy", "insert"} => index'[t] \in Slots(mainHash[t])'
  <2>1. CASE t = u
    BY <1>0, <2>1 DEF Own
  <2>2. CASE t # u
    <3>1. /\ upc'[t] = upc[t] /\ mainHash'[t] = mainHash[t] /\ index'[t] = index[t]
      BY <2>2 DEF Own, TableTypes, CallTypes, Users
    <3>2. upc[t] \in InMain \/ upc[t] = "recycle" => mainHash[t] # 0
      BY DEF TableTypes, CallTypes
    <3>3. ASSUME upc'[t] \in {"copy", "insert"}
          PROVE  index'[t] \in Slots(mainHash[t])'
      <4>1. PICK m \in 1 .. table : mainHash[t] = m
        BY <1>0, <3>1, <3>2, <3>3 DEF TableTypes, CallTypes, InMain
      <4>2. index[t] \in Slots(m)
        BY <3>1, <3>3, <4>1 DEF TableTypes, CallTypes
      <4>3. Slots(m)' = Slots(m)
        BY DEF Grown
      <4> QED BY <3>1, <4>1, <4>2, <4>3, SlotsPrimed
    <3> QED BY <3>1, <3>2, <3>3
  <2> QED BY <2>1, <2>2
<1> QED BY <1>2, <1>3, <1>4, <1>5 DEF CallTypes

ThreadStep(t) == Table!LoadTable(t) \/ Table!Exit(t) \/ Table!Resume(t)

\* The producers, and the one that u looks at.
OwnerStep(u) == Table!Recycle(u) \/ Table!Create(u) \/ Table!CreateFails(u)

LEMMA StillTables ==
  ASSUME TableTypes, tables' = tables, table' = table PROVE Grown
BY DEF Grown, TableTypes, SharedTypes, Slots, Table!Size

LEMMA OwnerOwn ==
  ASSUME Table!Parameters, TableTypes, NEW u \in Users, OwnerStep(u)
  PROVE  /\ tables' = tables /\ table' = table /\ Own(u)
         /\ producers' \in 0 .. MaxProducers /\ producers <= producers'
<1>0. /\ upc \in [Users -> Calls] /\ ptr \in [Users -> 0 .. producers]
      /\ mine \in [Users -> 0 .. producers] /\ upc[u] = "recycle"
      /\ mainHash \in [Threads -> 0 .. table] /\ newCount \in [Threads -> Nat]
      /\ index \in [Threads -> Nat] /\ hash \in [Threads -> 0 .. table]
      /\ producers \in 0 .. MaxProducers /\ MaxProducers \in Nat
      /\ table \in 1 .. MaxTables /\ MaxTables \in Nat
  BY DEF TableTypes, SharedTypes, CallTypes, Table!Parameters, OwnerStep,
         Table!Recycle, Table!Create, Table!CreateFails
<1>1. /\ tables' = tables /\ table' = table /\ newCount' \in [Threads -> Nat]
      /\ producers' \in 0 .. MaxProducers /\ producers <= producers'
  <2>1. CASE Table!Recycle(u)
    BY <1>0, <2>1 DEF Table!Recycle, Table!tableVars
  <2>2. CASE Table!Create(u)
    BY <1>0, <2>2 DEF Table!Create, Table!tableVars
  <2>3. CASE Table!CreateFails(u)
    BY <1>0, <2>3 DEF Table!CreateFails, Table!producerVars, Table!Return,
       Table!Set
  <2> QED BY <2>1, <2>2, <2>3 DEF OwnerStep
<1>2. ASSUME NEW p \in 1 .. producers', Table!Given(u, p),
             UNCHANGED <<mainHash, newCount, hash>>
      PROVE  Own(u)
  <2>1. /\ mine' = [mine EXCEPT ![u] = p] /\ ptr' = [ptr EXCEPT ![u] = 0]
    BY <1>2 DEF Table!Given, Table!Set, Table!None
  <2>2. /\ mine' = [mine EXCEPT ![u] = mine'[u]] /\ mine'[u] \in 0 .. producers'
        /\ ptr' = [ptr EXCEPT ![u] = ptr'[u]] /\ ptr'[u] \in 0 .. producers'
    BY <1>0, <1>1, <2>1
  <2>3. CASE u \in Tokens
    <3>1. upc' = [upc EXCEPT ![u] = "out"] /\ index' = index
      BY <1>2, <2>3 DEF Table!Given, Table!Goto, Table!Set
    <3>2. upc' = [upc EXCEPT ![u] = upc'[u]] /\ upc'[u] = "out"
      BY <1>0, <3>1
    <3> QED BY <1>2, <2>2, <2>3, <3>1, <3>2 DEF Own, Calls
  <2>4. CASE u \notin Tokens
    <3> DEFINE i == Table!Slot(mainHash[u], hash_thread_id[u])
    <3>1. u \in Threads /\ mainHash[u] \in 1 .. table
      BY <1>0, <2>4 DEF TableTypes, CallTypes, Users
    <3>2. upc' = [upc EXCEPT ![u] = "insert"] /\ index' = [index EXCEPT ![u] = i]
      BY <1>2, <2>4 DEF Table!Given, Table!Goto, Table!Set
    <3>3. i \in Slots(mainHash[u]) /\ i \in Nat
      <4>1. hash_thread_id[u] \in Nat /\ Table!Size(mainHash[u]) \in Nat \ {0}
        BY <3>1, SlotsOf DEF TableTypes, Table!Parameters
      <4> QED BY <4>1 DEF Slots, Table!Slot
    <3> HIDE DEF i
    <3>4. upc' = [upc EXCEPT ![u] = upc'[u]] /\ upc'[u] = "insert"
          /\ index' = [index EXCEPT ![u] = index'[u]] /\ index'[u] = i
      BY <1>0, <3>1, <3>2
    <3>5. Slots(mainHash[u])' = Slots(mainHash[u])
      BY <1>1, <1>2 DEF Slots, Table!Size
    <3>6. /\ mainHash' = [mainHash EXCEPT ![u] = mainHash'[u]]
          /\ newCount' = [newCount EXCEPT ![u] = newCount'[u]]
          /\ hash' = [hash EXCEPT ![u] = hash'[u]]
          /\ mainHash'[u] \in 0 .. table' /\ newCount'[u] \in Nat
          /\ hash'[u] \in 0 .. table' /\ mainHash'[u] # 0
      BY <1>0, <1>1, <1>2, <3>1
    <3> QED BY <2>2, <3>1, <3>3, <3>4, <3>5, <3>6 DEF Own, Calls, InMain
  <2> QED BY <2>3, <2>4
<1> SUFFICES Own(u)
  BY <1>1
<1>3. CASE Table!Recycle(u)
  <2> DEFINE p == ptr[u]
  <2>1. p \in 1 .. producers /\ producers' = producers
    BY <1>0, <1>3 DEF Table!Recycle, Table!None
  <2>2. CASE inactive[p] /\ isExplicit[p] = (u \in Tokens)
    <3>1. Table!Given(u, p) /\ UNCHANGED <<mainHash, newCount, hash>>
      BY <1>3, <2>2 DEF Table!Recycle
    <3> HIDE DEF p
    <3> QED BY <1>2, <2>1, <3>1
  <2>3. CASE ~(inactive[p] /\ isExplicit[p] = (u \in Tokens))
    <3>1. /\ ptr' = [ptr EXCEPT ![u] = p - 1]
          /\ UNCHANGED <<mine, upc, index, mainHash, newCount, hash>>
      BY <1>3, <2>3 DEF Table!Recycle, Table!Set
    <3>2. ptr' = [ptr EXCEPT ![u] = ptr'[u]] /\ ptr'[u] \in 0 .. producers'
      BY <1>0, <2>1, <3>1
    <3>3. CASE u \in Tokens
      BY <1>0, <2>1, <3>1, <3>2, <3>3 DEF Own
    <3>4. CASE u \in Threads
      <4>1. mainHash[u] # 0
        BY <1>0, <3>4 DEF TableTypes, CallTypes
      <4> QED BY <1>0, <1>1, <2>1, <3>1, <3>2, <3>4, <4>1 DEF Own
    <3> QED BY <3>3, <3>4 DEF Users
  <2> QED BY <2>2, <2>3
<1>4. CASE Table!Create(u)
  <2>1. /\ Table!Given(u, producers + 1) /\ UNCHANGED <<mainHash, newCount, hash>>
        /\ producers' = producers + 1
    BY <1>4 DEF Table!Create
  <2>2. producers + 1 \in 1 .. producers'
    BY <1>0, <2>1
  <2> QED BY <1>2, <2>1, <2>2
<1>5. CASE Table!CreateFails(u)
  <2>0. mine' = mine /\ producers' = producers
    BY <1>5 DEF Table!CreateFails, Table!producerVars
  <2>1. CASE u \in Tokens
    <3>1. /\ upc' = [upc EXCEPT ![u] = "out"]
          /\ UNCHANGED <<mainHash, newCount, index, hash, ptr>>
      BY <1>5, <2>1 DEF Table!CreateFails, Table!Goto, Table!Set
    <3> QED BY <1>0, <2>0, <2>1, <3>1 DEF Own, Calls
  <2>2. CASE u \notin Tokens
    <3>1. /\ upc' = [upc EXCEPT ![u] = "out"]
          /\ mainHash' = [mainHash EXCEPT ![u] = 0]
          /\ newCount' = [newCount EXCEPT ![u] = 0]
          /\ index' = [index EXCEPT ![u] = 0] /\ hash' = [hash EXCEPT ![u] = 0]
          /\ ptr' = [ptr EXCEPT ![u] = 0]
      BY <1>5, <2>2 DEF Table!CreateFails, Table!Return, Table!Goto, Table!Set,
         Table!None
    <3> QED BY <1>0, <1>1, <2>0, <2>2, <3>1 DEF Own, Calls, Users, InMain
  <2> QED BY <2>1, <2>2
<1> QED BY <1>3, <1>4, <1>5 DEF OwnerStep

\* A call of t is over.
LEMMA ReturnOwn ==
  ASSUME TableTypes, NEW t \in Threads, Table!Return(t), table' \in Nat,
         producers' \in Nat, mine' = [mine EXCEPT ![t] = mine'[t]],
         mine'[t] \in 0 .. producers'
  PROVE  Own(t)
<1>1. /\ upc' = [upc EXCEPT ![t] = "out"]
      /\ mainHash' = [mainHash EXCEPT ![t] = 0] /\ newCount' = [newCount EXCEPT ![t] = 0]
      /\ index' = [index EXCEPT ![t] = 0] /\ hash' = [hash EXCEPT ![t] = 0]
      /\ ptr' = [ptr EXCEPT ![t] = 0]
  BY DEF Table!Return, Table!Goto, Table!Set, Table!None
<1>2. /\ upc \in [Users -> Calls] /\ ptr \in [Users -> 0 .. producers]
      /\ mainHash \in [Threads -> 0 .. table] /\ newCount \in [Threads -> Nat]
      /\ index \in [Threads -> Nat] /\ hash \in [Threads -> 0 .. table]
      /\ t \in Users
  BY DEF TableTypes, CallTypes, Users
<1> QED BY <1>1, <1>2 DEF Own, Calls, InMain

LEMMA ThreadOwn ==
  ASSUME Table!Parameters, TableTypes, NEW t \in Threads, ThreadStep(t),
         ~OwnerStep(t)
  PROVE  Own(t) /\ producers' = producers /\ isExplicit' = isExplicit
<1>0. /\ upc \in [Users -> Calls] /\ ptr \in [Users -> 0 .. producers]
      /\ mine \in [Users -> 0 .. producers] /\ t \in Users
      /\ mainHash \in [Threads -> 0 .. table] /\ newCount \in [Threads -> Nat]
      /\ index \in [Threads -> Nat] /\ hash \in [Threads -> 0 .. table]
      /\ producers \in 0 .. MaxProducers /\ MaxProducers \in Nat
      /\ table \in 1 .. MaxTables /\ MaxTables \in Nat /\ count \in Nat
      /\ producers \in Nat /\ table \in Nat
  BY DEF TableTypes, SharedTypes, CallTypes, Table!Parameters, Users
<1>1. producers' = producers /\ isExplicit' = isExplicit
  BY DEF ThreadStep, OwnerStep, Table!LoadTable, Table!Exit, Table!Resume,
         Table!Search, Table!Count, Table!Copy, Table!Lock, Table!Grow,
         Table!GrownAlready, Table!GrowFails, Table!Unlock, Table!NoLock,
         Table!Room, Table!NoRoom, Table!Insert, Table!Uncount, Table!Remove,
         Table!Recyclable, Table!producerVars
<1>2. table' \in Nat /\ 0 .. table \subseteq 0 .. table'
      /\ (table' = table \/ (Table!Grow(t) /\ table' = table + 1))
  <2>1. CASE Table!Grow(t)
    BY <1>0, <2>1 DEF Table!Grow
  <2>2. CASE ~Table!Grow(t)
    <3>1. table' = table
      BY <2>2 DEF ThreadStep, OwnerStep, Table!LoadTable, Table!Exit,
         Table!Resume,
         Table!Search, Table!Count, Table!Copy, Table!Lock,
         Table!GrownAlready, Table!GrowFails, Table!Unlock, Table!NoLock,
         Table!Room, Table!NoRoom, Table!Insert, Table!Uncount, Table!Remove,
         Table!Recyclable, Table!tableVars
    <3> QED BY <1>0, <3>1
  <2> QED BY <2>1, <2>2
<1> SUFFICES Own(t)
  BY <1>1
<1>3. ASSUME Table!Return(t), mine' = mine PROVE Own(t)
  <2>1. mine' = [mine EXCEPT ![t] = mine'[t]] /\ mine'[t] \in 0 .. producers'
    BY <1>0, <1>1, <1>3
  <2> QED BY <1>0, <1>1, <1>2, <1>3, <2>1, ReturnOwn
\* A step that is none of the call's last.
<1>4. ASSUME NEW x \in Calls, upc' = [upc EXCEPT ![t] = x], mine' = mine,
             ptr' = [ptr EXCEPT ![t] = ptr'[t]], ptr'[t] \in 0 .. producers,
             mainHash' = [mainHash EXCEPT ![t] = mainHash'[t]],
             mainHash'[t] \in 0 .. table',
             newCount' = [newCount EXCEPT ![t] = newCount'[t]],
             newCount'[t] \in Nat,
             index' = [index EXCEPT ![t] = index'[t]], index'[t] \in Nat,
             hash' = [hash EXCEPT ![t] = hash'[t]], hash'[t] \in 0 .. table',
             x \in InMain \/ x = "recycle" => mainHash'[t] # 0,
             x \in {"copy", "insert"} => index'[t] \in Slots(mainHash[t])'
      PROVE  Own(t)
  <2>1. mine' = [mine EXCEPT ![t] = mine'[t]] /\ mine'[t] \in 0 .. producers'
    BY <1>0, <1>1, <1>4
  <2>2. upc' = [upc EXCEPT ![t] = upc'[t]] /\ upc'[t] = x
    BY <1>0, <1>4
  <2> QED BY <1>0, <1>1, <1>4, <2>1, <2>2 DEF Own
<1>5. /\ ptr[t] \in 0 .. producers /\ ptr = [ptr EXCEPT ![t] = ptr[t]]
      /\ mainHash[t] \in 0 .. table' /\ mainHash = [mainHash EXCEPT ![t] = mainHash[t]]
      /\ newCount[t] \in Nat /\ newCount = [newCount EXCEPT ![t] = newCount[t]]
      /\ index[t] \in Nat /\ index = [index EXCEPT ![t] = index[t]]
      /\ hash[t] \in 0 .. table' /\ hash = [hash EXCEPT ![t] = hash[t]]
      /\ upc[t] \in InMain => mainHash[t] # 0
  BY <1>0, <1>2 DEF TableTypes, CallTypes
<1>6. CASE Table!LoadTable(t)
  <2>1. /\ upc' = [upc EXCEPT ![t] = "search"]
        /\ mine' = mine
        /\ ptr' = ptr
        /\ mainHash' = [mainHash EXCEPT ![t] = table]
        /\ newCount' = newCount
        /\ index' = index
        /\ hash' = hash
        /\ upc[t] = "out"
    BY <1>6 DEF Table!LoadTable, Table!Goto, Table!Set, Table!tableVars,
       Table!producerVars
  <2>2. /\ mainHash' = [mainHash EXCEPT ![t] = mainHash'[t]] /\ mainHash'[t] = table
    BY <1>0, <2>1
  <2> QED BY <1>0, <1>2, <1>4, <1>5, <2>1, <2>2 DEF Calls, InMain
<1>7. CASE Table!Exit(t)
  <2>1. /\ upc' = [upc EXCEPT ![t] = "remove"]
        /\ mine' = mine
        /\ ptr' = ptr
        /\ mainHash' = mainHash
        /\ newCount' = newCount
        /\ index' = index
        /\ hash' = [hash EXCEPT ![t] = table]
        /\ upc[t] = "out"
    BY <1>7 DEF Table!Exit, Table!Goto, Table!Set, Table!tableVars,
       Table!producerVars
  <2>2. /\ hash' = [hash EXCEPT ![t] = hash'[t]] /\ hash'[t] = table
    BY <1>0, <2>1
  <2> QED BY <1>0, <1>2, <1>4, <1>5, <2>1, <2>2 DEF Calls, InMain
<1>8. CASE Table!Count(t)
  <2>1. /\ upc' = [upc EXCEPT ![t] = "check"]
        /\ mine' = mine
        /\ ptr' = ptr
        /\ mainHash' = mainHash
        /\ newCount' = [newCount EXCEPT ![t] = count + 1]
        /\ index' = index
        /\ hash' = hash
        /\ upc[t] = "search"
    BY <1>8 DEF Table!Count, Table!Goto, Table!Set, Table!tableVars,
       Table!producerVars
  <2>2. /\ newCount' = [newCount EXCEPT ![t] = newCount'[t]] /\ newCount'[t] = count + 1
    BY <1>0, <2>1
  <2> QED BY <1>0, <1>2, <1>4, <1>5, <2>1, <2>2 DEF Calls, InMain
<1>9. CASE Table!Lock(t)
  <2>1. /\ upc' = [upc EXCEPT ![t] = "grow"]
        /\ mine' = mine
        /\ ptr' = ptr
        /\ mainHash' = [mainHash EXCEPT ![t] = table]
        /\ newCount' = newCount
        /\ index' = index
        /\ hash' = hash
        /\ upc[t] = "check"
    BY <1>9 DEF Table!Lock, Table!Goto, Table!Set, Table!tableVars,
       Table!producerVars
  <2>2. /\ mainHash' = [mainHash EXCEPT ![t] = mainHash'[t]] /\ mainHash'[t] = table
    BY <1>0, <2>1
  <2> QED BY <1>0, <1>2, <1>4, <1>5, <2>1, <2>2 DEF Calls, InMain
<1>10. CASE Table!Grow(t)
  <2>1. /\ upc' = [upc EXCEPT ![t] = "room"]
        /\ mine' = mine
        /\ ptr' = ptr
        /\ mainHash' = [mainHash EXCEPT ![t] = table + 1]
        /\ newCount' = newCount
        /\ index' = index
        /\ hash' = hash
        /\ upc[t] = "grow"
    BY <1>10 DEF Table!Grow, Table!Goto, Table!Set, Table!tableVars,
       Table!producerVars
  <2>2. /\ mainHash' = [mainHash EXCEPT ![t] = mainHash'[t]] /\ mainHash'[t] = table + 1
    BY <1>0, <2>1
  <2>3. table' = table + 1
    BY <1>10 DEF Table!Grow
  <2> QED BY <1>0, <1>2, <1>4, <1>5, <2>1, <2>2, <2>3 DEF Calls, InMain
<1>11. CASE Table!GrownAlready(t)
  <2>1. /\ upc' = [upc EXCEPT ![t] = "room"]
        /\ mine' = mine
        /\ ptr' = ptr
        /\ mainHash' = mainHash
        /\ newCount' = newCount
        /\ index' = index
        /\ hash' = hash
        /\ upc[t] = "grow"
    BY <1>11 DEF Table!GrownAlready, Table!Goto, Table!Set, Table!tableVars,
       Table!producerVars
  <2> QED BY <1>0, <1>2, <1>4, <1>5, <2>1 DEF Calls, InMain
<1>12. CASE Table!GrowFails(t)
  <2>1. /\ upc' = [upc EXCEPT ![t] = "unlock"]
        /\ mine' = mine
        /\ ptr' = ptr
        /\ mainHash' = mainHash
        /\ newCount' = newCount
        /\ index' = index
        /\ hash' = hash
        /\ upc[t] = "grow"
    BY <1>12 DEF Table!GrowFails, Table!Goto, Table!Set, Table!tableVars,
       Table!producerVars
  <2> QED BY <1>0, <1>2, <1>4, <1>5, <2>1 DEF Calls, InMain
<1>13. CASE Table!NoLock(t)
  <2>1. /\ upc' = [upc EXCEPT ![t] = "room"]
        /\ mine' = mine
        /\ ptr' = ptr
        /\ mainHash' = mainHash
        /\ newCount' = newCount
        /\ index' = index
        /\ hash' = hash
        /\ upc[t] = "check"
    BY <1>13 DEF Table!NoLock, Table!Goto, Table!Set, Table!tableVars,
       Table!producerVars
  <2> QED BY <1>0, <1>2, <1>4, <1>5, <2>1 DEF Calls, InMain
<1>14. CASE Table!Room(t)
  <2>1. /\ upc' = [upc EXCEPT ![t] = "recycle"]
        /\ mine' = mine
        /\ ptr' = [ptr EXCEPT ![t] = producers]
        /\ mainHash' = mainHash
        /\ newCount' = [newCount EXCEPT ![t] = 0]
        /\ index' = index
        /\ hash' = hash
        /\ upc[t] = "room"
    BY <1>14 DEF Table!Room, Table!Goto, Table!Set, Table!tableVars,
       Table!producerVars
  <2>2. /\ ptr' = [ptr EXCEPT ![t] = ptr'[t]] /\ ptr'[t] = producers
        /\ newCount' = [newCount EXCEPT ![t] = newCount'[t]] /\ newCount'[t] = 0
    BY <1>0, <2>1
  <2> QED BY <1>0, <1>2, <1>4, <1>5, <2>1, <2>2 DEF Calls, InMain
<1>15. CASE Table!NoRoom(t)
  <2>1. /\ upc' = [upc EXCEPT ![t] = "check"]
        /\ mine' = mine
        /\ ptr' = ptr
        /\ mainHash' = [mainHash EXCEPT ![t] = table]
        /\ newCount' = newCount
        /\ index' = index
        /\ hash' = hash
        /\ upc[t] = "room"
    BY <1>15 DEF Table!NoRoom, Table!Goto, Table!Set, Table!tableVars,
       Table!producerVars
  <2>2. /\ mainHash' = [mainHash EXCEPT ![t] = mainHash'[t]] /\ mainHash'[t] = table
    BY <1>0, <2>1
  <2> QED BY <1>0, <1>2, <1>4, <1>5, <2>1, <2>2 DEF Calls, InMain
<1>16. CASE Table!Unlock(t)
  BY <1>3, <1>16 DEF Table!Unlock
<1>17. CASE Table!Uncount(t)
  BY <1>3, <1>17 DEF Table!Uncount
<1>18. CASE Table!Recyclable(t)
  <2>1. Table!Return(t) /\ mine' = [mine EXCEPT ![t] = 0]
    BY <1>18 DEF Table!Recyclable, Table!Set, Table!None
  <2>2. mine' = [mine EXCEPT ![t] = mine'[t]] /\ mine'[t] \in 0 .. producers'
    BY <1>0, <1>1, <2>1
  <2> QED BY <1>0, <1>1, <1>2, <2>1, <2>2, ReturnOwn
<1>19. CASE Table!Remove(t)
  <2>1. /\ hash' = [hash EXCEPT ![t] = hash[t] - 1] /\ hash[t] # 0 /\ table' = table
        /\ UNCHANGED <<upc, mine, ptr, mainHash, newCount, index>>
        /\ upc[t] = "remove"
    BY <1>19 DEF Table!Remove, Table!Set, Table!None
  <2>2. /\ hash' = [hash EXCEPT ![t] = hash'[t]] /\ hash'[t] \in 0 .. table
        /\ upc' = [upc EXCEPT ![t] = "remove"]
    BY <1>0, <2>1
  <2> QED BY <1>0, <1>4, <1>5, <2>1, <2>2 DEF Calls, InMain
<1>20. ASSUME upc[t] \in InMain PROVE mainHash[t] \in 1 .. table
  BY <1>0, <1>5, <1>20 DEF TableTypes, CallTypes
<1>21. ASSUME NEW i \in Nat, upc[t] \in InMain, Slots(mainHash[t])' = Slots(mainHash[t])
      PROVE  Table!Slot(mainHash[t], i) \in Slots(mainHash[t])'
             /\ Table!Slot(mainHash[t], i) \in Nat
  <2>1. Table!Size(mainHash[t]) \in Nat \ {0}
    BY <1>20, <1>21, SlotsOf DEF TableTypes
  <2>2. /\ Table!Slot(mainHash[t], i) \in Slots(mainHash[t])
        /\ Table!Slot(mainHash[t], i) \in Nat
    BY <2>1 DEF Slots, Table!Slot
  <2> QED BY <1>21, <2>2
<1>22. CASE Table!Search(t)
  <2> DEFINE i == Table!Slot(mainHash[t], hash_thread_id[t])
  <2>1. mine' = mine /\ upc[t] = "search"
    BY <1>22 DEF Table!Search
  <2>2. CASE Table!Return(t)
    BY <1>3, <2>1, <2>2
  <2>3. CASE ~Table!Return(t)
    <3>1. /\ upc' = [upc EXCEPT ![t] = "copy"] /\ index' = [index EXCEPT ![t] = i]
          /\ UNCHANGED <<tables, mainHash, newCount, hash, ptr>>
      BY <1>22, <2>3 DEF Table!Search, Table!Goto, Table!Set, Table!tableVars
    <3>2. Slots(mainHash[t])' = Slots(mainHash[t])
      BY <3>1 DEF Slots, Table!Size
    <3>3. i \in Slots(mainHash[t])' /\ i \in Nat
      <4>1. hash_thread_id[t] \in Nat
        BY DEF Table!Parameters
      <4> QED BY <1>21, <2>1, <3>2, <4>1 DEF InMain
    <3> HIDE DEF i
    <3>4. index' = [index EXCEPT ![t] = index'[t]] /\ index'[t] = i
      BY <1>0, <3>1
    <3> QED BY <1>4, <1>5, <2>1, <3>1, <3>3, <3>4 DEF Calls, InMain
  <2> QED BY <2>2, <2>3
<1>23. ASSUME Table!NextIndex(t), mine' = mine, upc[t] \in {"copy", "insert"}
      PROVE  Own(t)
  <2> DEFINE i == Table!Slot(mainHash[t], index[t] + 1)
  <2>1. /\ index' = [index EXCEPT ![t] = i]
        /\ UNCHANGED <<tables, upc, mainHash, newCount, hash, ptr>>
    BY <1>23 DEF Table!NextIndex, Table!Set
  <2>2. Slots(mainHash[t])' = Slots(mainHash[t])
    BY <2>1 DEF Slots, Table!Size
  <2>3. i \in Slots(mainHash[t])' /\ i \in Nat
    <3>1. index[t] + 1 \in Nat /\ upc[t] \in InMain
      BY <1>5, <1>23 DEF InMain
    <3> QED BY <1>21, <2>2, <3>1
  <2> HIDE DEF i
  <2>4. /\ index' = [index EXCEPT ![t] = index'[t]] /\ index'[t] = i
        /\ upc' = [upc EXCEPT ![t] = upc[t]]
    BY <1>0, <2>1
  <2>5. upc[t] \in Calls /\ mainHash[t] # 0
    BY <1>0, <1>5, <1>23 DEF InMain
  <2> QED BY <1>4, <1>5, <1>23, <2>1, <2>3, <2>4, <2>5
<1>24. CASE Table!Copy(t)
  <2>1. mine' = mine /\ upc[t] = "copy" /\ (Table!Return(t) \/ Table!NextIndex(t))
    BY <1>24 DEF Table!Copy
  <2> QED BY <1>3, <1>23, <2>1
<1>25. CASE Table!Insert(t)
  <2>1. mine' = mine /\ upc[t] = "insert"
    BY <1>25 DEF Table!Insert
  <2>2. CASE Table!Return(t) \/ Table!NextIndex(t)
    BY <1>3, <1>23, <2>1, <2>2
  <2>3. CASE ~(Table!Return(t) \/ Table!NextIndex(t))
    <3>1. /\ upc' = [upc EXCEPT ![t] = "uncount"]
          /\ UNCHANGED <<mainHash, newCount, index, hash, ptr>>
      BY <1>25, <2>3 DEF Table!Insert, Table!Goto, Table!Set
    <3>2. upc[t] \in InMain
      BY <2>1 DEF InMain
    <3> QED BY <1>4, <1>5, <2>1, <3>1, <3>2 DEF Calls, InMain
  <2> QED BY <2>2, <2>3
<1> QED BY <1>6, <1>7, <1>8, <1>9, <1>10, <1>11, <1>12, <1>13, <1>14, <1>15,
           <1>16, <1>17, <1>18, <1>19, <1>22, <1>24, <1>25 DEF ThreadStep, Table!Resume, OwnerStep

\* The threads that are counted, and have no slot of the table for it yet.
Pending ==
  {t \in Threads :
     upc[t] \in {"check", "grow", "room", "recycle", "insert", "uncount"}}
Counted == count >= Cardinality(Pending)

TokenMoves(k) == Table!TokenMade(k) \/ Table!TokenGone(k)
StepBy(u) ==
  \/ u \in Users /\ OwnerStep(u)
  \/ u \in Threads /\ ThreadStep(u) /\ ~OwnerStep(u)
  \/ u \in Tokens /\ TokenMoves(u)

LEMMA NextSteps ==
  ASSUME Table!Next PROVE \E u \in Users : StepBy(u)
BY DEF Table!Next, StepBy, Users, OwnerStep, ThreadStep, Table!TokenStep,
   TokenMoves

LEMMA TokenOwn ==
  ASSUME Table!Parameters, TableTypes, NEW u \in Tokens, TokenMoves(u)
  PROVE  /\ tables' = tables /\ table' = table /\ Own(u)
         /\ producers' = producers /\ isExplicit' = isExplicit
<1>0. /\ upc \in [Users -> Calls] /\ ptr \in [Users -> 0 .. producers]
      /\ mine \in [Users -> 0 .. producers] /\ u \in Users /\ producers \in Nat
  BY DEF TableTypes, SharedTypes, CallTypes, Users, Table!Parameters
<1>1. CASE Table!TokenMade(u)
  <2>1. /\ upc' = [upc EXCEPT ![u] = "recycle"]
        /\ ptr' = [ptr EXCEPT ![u] = producers]
        /\ UNCHANGED <<tables, table, producers, isExplicit, mainHash, newCount,
                       index, hash, mine>>
    BY <1>1 DEF Table!TokenMade, Table!Goto, Table!Set, Table!tableVars,
                Table!producerVars
  <2> QED BY <1>0, <2>1 DEF Own, Calls
<1>2. CASE Table!TokenGone(u)
  <2>1. /\ mine' = [mine EXCEPT ![u] = 0] /\ upc[u] = "out"
        /\ UNCHANGED <<tables, table, producers, isExplicit, mainHash, newCount,
                       index, hash, upc, ptr>>
    BY <1>2 DEF Table!TokenGone, Table!Set, Table!tableVars, Table!localVars,
                Table!None
  <2> QED BY <1>0, <2>1 DEF Own, Calls
<1> QED BY <1>1, <1>2 DEF TokenMoves

LEMMA StepOwn ==
  ASSUME Table!Parameters, TableTypes, NEW u \in Users, StepBy(u)
  PROVE  /\ Own(u) /\ Grown
         /\ producers' \in 0 .. MaxProducers /\ producers <= producers'
<1>0. producers \in 0 .. MaxProducers /\ MaxProducers \in Nat
      /\ Threads \cap Tokens = {}
  BY DEF TableTypes, SharedTypes, Table!Parameters
<1>1. CASE OwnerStep(u)
  BY <1>1, OwnerOwn, StillTables
<1>2. CASE u \in Threads /\ ThreadStep(u) /\ ~OwnerStep(u)
  <2>1. Own(u) /\ producers' = producers
    BY <1>2, ThreadOwn
  <2>2. Grown
    BY <1>2, Moves, MovesKeep DEF ThreadStep
  <2> QED BY <1>0, <2>1, <2>2
<1>3. CASE u \in Tokens /\ TokenMoves(u)
  BY <1>0, <1>3, TokenOwn, StillTables
<1> QED BY <1>1, <1>2, <1>3 DEF StepBy

LEMMA CountedNext ==
  ASSUME Table!Parameters, TableTypes, Counted, NEW u \in Users, StepBy(u)
  PROVE  count' \in Nat /\ Counted'
<1>0. /\ IsFiniteSet(Threads) /\ Threads \cap Tokens = {} /\ count \in Nat
  <2>1. IsFiniteSet(Users)
    BY DEF Table!Parameters, Table!Users, Users, Table!IsFiniteSet, IsFiniteSet
  <2>2. Threads \subseteq Users
    BY DEF Users
  <2> QED BY <2>1, <2>2, FS_Subset DEF Table!Parameters, TableTypes, SharedTypes
<1>1. Pending \subseteq Threads /\ IsFiniteSet(Pending) /\ Cardinality(Pending) \in Nat
  <2>1. Pending \subseteq Threads
    BY DEF Pending
  <2> QED BY <1>0, <2>1, FS_Subset, FS_CardinalityType
<1>2. \A t \in Threads : t # u => upc'[t] = upc[t]
  BY StepOwn DEF Own, TableTypes, CallTypes, Users
<1>3. upc'[u] \in Calls /\ upc' = [upc EXCEPT ![u] = upc'[u]] /\ upc \in [Users -> Calls]
  BY StepOwn DEF Own, TableTypes, CallTypes
<1>4. ASSUME u \in Pending, u \notin Pending', count' = count - 1
      PROVE  count' \in Nat /\ Counted'
  <2>1. Pending' = Pending \ {u}
    BY <1>2, <1>4 DEF Pending
  <2>2. Cardinality(Pending') = Cardinality(Pending) - 1
    BY <1>0, <1>1, <1>4, <2>1, OneLess
  <2>3. Cardinality(Pending') \in Nat
    BY <1>1, <2>1, FS_Subset, FS_CardinalityType
  <2> QED BY <1>0, <1>1, <1>4, <2>2, <2>3 DEF Counted
<1>5. ASSUME u \notin Pending, u \in Threads, count' = count + 1
      PROVE  count' \in Nat /\ Counted'
  <2>1. Pending' \subseteq Pending \cup {u}
    BY <1>2 DEF Pending
  <2>2. /\ Cardinality(Pending \cup {u}) = Cardinality(Pending) + 1
        /\ IsFiniteSet(Pending \cup {u})
    BY <1>1, <1>5, FS_AddElement
  <2>3. Cardinality(Pending') \in Nat /\ Cardinality(Pending') <= Cardinality(Pending \cup {u})
    BY <2>1, <2>2, FS_Subset, FS_CardinalityType
  <2> QED BY <1>0, <1>1, <1>5, <2>2, <2>3 DEF Counted
<1>6. ASSUME u \in Pending' => u \in Pending, count' = count
      PROVE  count' \in Nat /\ Counted'
  <2>1. Pending' \subseteq Pending
    BY <1>2, <1>6 DEF Pending
  <2>2. Cardinality(Pending') \in Nat /\ Cardinality(Pending') <= Cardinality(Pending)
    BY <1>1, <2>1, FS_Subset, FS_CardinalityType
  <2> QED BY <1>0, <1>1, <1>6, <2>2 DEF Counted
<1>7. CASE u \in Tokens
  <2>1. u \notin Pending' /\ u \notin Threads
    BY <1>0, <1>7 DEF Pending
  <2>2. count' = count
    BY <1>7, <2>1 DEF StepBy, OwnerStep, TokenMoves, Table!Recycle, Table!Create,
         Table!CreateFails, Table!TokenMade, Table!TokenGone, Table!tableVars
  <2> QED BY <1>6, <2>1, <2>2
<1>8. CASE u \in Threads
  <2>0. u \in Users /\ u \notin Tokens
    BY <1>0, <1>8
  <2>1. CASE Table!Count(u)
    <3>1. upc[u] = "search" /\ count' = count + 1
      BY <2>1 DEF Table!Count
    <3> QED BY <1>5, <1>8, <3>1 DEF Pending
  <2>2. CASE Table!GrowFails(u) \/ Table!Uncount(u) \/ Table!CreateFails(u)
    <3>1. /\ upc[u] \in {"grow", "uncount", "recycle"} /\ count' = count - 1
          /\ \/ upc' = [upc EXCEPT ![u] = "unlock"]
             \/ upc' = [upc EXCEPT ![u] = "out"]
      BY <2>0, <2>2 DEF Table!GrowFails, Table!Uncount, Table!CreateFails,
           Table!Return, Table!Goto, Table!Set
    <3>2. upc'[u] \in {"unlock", "out"}
      BY <1>3, <3>1
    <3> QED BY <1>4, <1>8, <3>1, <3>2 DEF Pending
  <2>3. CASE ~(\/ Table!Count(u) \/ Table!GrowFails(u) \/ Table!Uncount(u)
               \/ Table!CreateFails(u))
    <3>1. count' = count
      BY <1>8, <2>0, <2>3 DEF StepBy, OwnerStep, ThreadStep, Table!LoadTable,
         Table!Exit,
         Table!Resume, Table!Search, Table!Copy, Table!Lock, Table!Grow,
         Table!GrownAlready, Table!Unlock, Table!NoLock, Table!Room, Table!NoRoom,
         Table!Recycle, Table!Create, Table!Insert, Table!Remove,
         Table!Recyclable, Table!tableVars
    <3>2. \/ upc[u] \in {"check", "grow", "room", "recycle", "insert", "uncount"}
          \/ upc'[u] \in {"search", "copy", "out", "remove"}
          \/ upc' = upc
      <4>1. \/ upc[u] \in {"check", "grow", "room", "recycle", "insert", "uncount"}
            \/ upc' = [upc EXCEPT ![u] = "search"]
            \/ upc' = [upc EXCEPT ![u] = "copy"]
            \/ upc' = [upc EXCEPT ![u] = "out"]
            \/ upc' = [upc EXCEPT ![u] = "remove"]
            \/ upc' = upc
        BY <1>8, <2>0, <2>3 DEF StepBy, OwnerStep, ThreadStep, Table!LoadTable,
           Table!Exit, Table!Resume, Table!Search, Table!Copy, Table!Lock,
           Table!Grow,
           Table!GrownAlready, Table!Unlock, Table!NoLock, Table!Room,
           Table!NoRoom,
           Table!Recycle, Table!Create, Table!Insert, Table!Remove,
           Table!Recyclable, Table!Return, Table!Goto, Table!Set, Table!NextIndex
      <4> QED BY <1>3, <4>1
    <3>3. u \in Pending' => u \in Pending
      BY <3>2 DEF Pending
    <3> QED BY <1>6, <3>1, <3>3
  <2> QED BY <2>1, <2>2, <2>3
<1> QED BY <1>7, <1>8 DEF Users

\* The producers themselves: at most one is marked.
LEMMA ProducersStep ==
  ASSUME Table!Parameters, TableTypes, NEW u \in Users, StepBy(u)
  PROVE  /\ \/ isExplicit' = isExplicit /\ producers' = producers
            \/ /\ isExplicit' = [isExplicit EXCEPT ![producers + 1] = (u \in Tokens)]
               /\ producers' = producers + 1 /\ mine'[u] = producers + 1
               /\ Table!Create(u) /\ producers + 1 \in 1 .. MaxProducers
         /\ \/ inactive' = inactive /\ mine'[u] = mine[u]
            \/ inactive' = inactive /\ Table!Create(u) /\ mine'[u] = producers + 1
            \/ /\ mine'[u] = 0 /\ inactive' = [inactive EXCEPT ![mine[u]] = TRUE]
               /\ producers' = producers
            \/ /\ mine'[u] = ptr[u] /\ ptr[u] \in 1 .. producers /\ inactive[ptr[u]]
               /\ inactive' = [inactive EXCEPT ![ptr[u]] = FALSE]
               /\ isExplicit[ptr[u]] = (u \in Tokens) /\ producers' = producers
<1>0. /\ producers \in 0 .. MaxProducers /\ MaxProducers \in Nat
      /\ ptr[u] \in 0 .. producers /\ mine \in [Users -> 0 .. producers]
      /\ Threads \cap Tokens = {}
  BY DEF TableTypes, SharedTypes, CallTypes, Table!Parameters
<1>1. CASE Table!Recycle(u)
  <2>1. ptr[u] \in 1 .. producers /\ UNCHANGED <<producers, isExplicit>>
    BY <1>0, <1>1 DEF Table!Recycle, Table!None
  <2>2. CASE inactive[ptr[u]] /\ isExplicit[ptr[u]] = (u \in Tokens)
    <3>1. /\ inactive' = [inactive EXCEPT ![ptr[u]] = FALSE]
          /\ mine' = [mine EXCEPT ![u] = ptr[u]]
      BY <1>1, <2>2 DEF Table!Recycle, Table!Given, Table!Set
    <3> QED BY <1>0, <2>1, <2>2, <3>1
  <2>3. CASE ~(inactive[ptr[u]] /\ isExplicit[ptr[u]] = (u \in Tokens))
    BY <1>1, <2>1, <2>3 DEF Table!Recycle
  <2> QED BY <2>2, <2>3
<1>2. CASE Table!Create(u)
  <2>1. /\ isExplicit' = [isExplicit EXCEPT ![producers + 1] = (u \in Tokens)]
        /\ producers' = producers + 1 /\ inactive' = inactive
        /\ mine' = [mine EXCEPT ![u] = producers + 1] /\ producers < MaxProducers
    BY <1>2 DEF Table!Create, Table!Given, Table!Set
  <2> QED BY <1>0, <1>2, <2>1
<1>3. CASE \/ u \in Tokens /\ Table!TokenGone(u)
           \/ u \in Threads /\ Table!Recyclable(u)
  <2>1. /\ inactive' = [inactive EXCEPT ![mine[u]] = TRUE]
        /\ mine' = [mine EXCEPT ![u] = 0]
        /\ UNCHANGED <<producers, isExplicit>>
    BY <1>3 DEF Table!TokenGone, Table!Recyclable, Table!Set, Table!None
  <2> QED BY <1>0, <2>1
<1>4. CASE ~(\/ Table!Recycle(u) \/ Table!Create(u)
             \/ u \in Tokens /\ Table!TokenGone(u)
             \/ u \in Threads /\ Table!Recyclable(u))
  <2>1. UNCHANGED <<producers, isExplicit, inactive, mine>>
    BY <1>0, <1>4 DEF StepBy, OwnerStep, ThreadStep, TokenMoves, Table!LoadTable,
       Table!Exit, Table!Resume, Table!Search, Table!Count, Table!Copy,
       Table!Lock,
       Table!Grow, Table!GrownAlready, Table!GrowFails, Table!Unlock,
       Table!NoLock,
       Table!Room, Table!NoRoom, Table!CreateFails, Table!Insert, Table!Uncount,
       Table!Remove, Table!TokenMade, Table!producerVars
  <2> QED BY <2>1
<1> QED BY <1>1, <1>2, <1>3, <1>4

AtFlag == {t \in Threads : upc[t] \in {"grow", "unlock"}}
FlagInv ==
  /\ resizing \in BOOLEAN /\ resizing = (AtFlag # {})
  /\ \A t, u \in AtFlag : t = u

LEMMA FlagNext ==
  ASSUME Table!Parameters, TableTypes, FlagInv, NEW u \in Users, StepBy(u)
  PROVE  FlagInv'
<1>0. /\ Threads \cap Tokens = {} /\ upc \in [Users -> Calls]
      /\ \A t \in Threads : t # u => upc'[t] = upc[t]
  BY StepOwn DEF Table!Parameters, Own, TableTypes, CallTypes, Users
<1>1. ASSUME u \in AtFlag', u \notin AtFlag PROVE resizing = FALSE /\ resizing' = TRUE
  <2>1. u \in Threads /\ upc'[u] \in {"grow", "unlock"} /\ u \notin Tokens
        /\ upc[u] \notin {"grow", "unlock"}
    BY <1>0, <1>1 DEF AtFlag
  <2>2. Table!Lock(u)
    BY <1>0, <2>1 DEF StepBy, OwnerStep, ThreadStep, Table!LoadTable,
       Table!Exit, Table!Resume, Table!Search, Table!Count, Table!Copy,
       Table!Grow, Table!GrownAlready, Table!GrowFails, Table!Unlock,
       Table!NoLock,
       Table!Room, Table!NoRoom, Table!Recycle, Table!Create, Table!CreateFails,
       Table!Insert, Table!Uncount, Table!Given, Users,
       Table!Remove, Table!Recyclable, Table!Return, Table!Goto, Table!Set,
       Table!NextIndex
  <2> QED BY <2>2 DEF Table!Lock, FlagInv
<1>2. ASSUME u \in AtFlag, u \notin AtFlag' PROVE resizing' = FALSE
  <2>1. u \in Threads /\ upc[u] \in {"grow", "unlock"} /\ u \notin Tokens
        /\ upc'[u] \notin {"grow", "unlock"}
    BY <1>0, <1>2 DEF AtFlag
  <2>2. Table!Grow(u) \/ Table!GrownAlready(u) \/ Table!Unlock(u)
    BY <1>0, <2>1 DEF StepBy, OwnerStep, ThreadStep, Table!LoadTable,
       Table!Exit, Table!Resume, Table!Search, Table!Count, Table!Copy,
       Table!Lock,
       Table!GrowFails, Table!NoLock,
       Table!Room, Table!NoRoom, Table!Recycle, Table!Create, Table!CreateFails,
       Table!Insert, Table!Uncount, Users,
       Table!Remove, Table!Recyclable, Table!Goto, Table!Set
  <2> QED BY <2>2 DEF Table!Grow, Table!GrownAlready, Table!Unlock
<1>3. ASSUME u \in AtFlag <=> u \in AtFlag' PROVE resizing' = resizing
  <2>1. CASE u \in Tokens
    BY <1>0, <2>1 DEF StepBy, OwnerStep, TokenMoves, Table!Recycle, Table!Create,
       Table!CreateFails, Table!TokenMade, Table!TokenGone, Table!tableVars
  <2>2. CASE u \in Threads
    <3>1. ~Table!Lock(u) /\ ~Table!Grow(u) /\ ~Table!GrownAlready(u) /\ ~Table!Unlock(u)
      BY <1>0, <1>3, <2>2 DEF AtFlag, Table!Lock, Table!Grow, Table!GrownAlready,
         Table!Unlock, Table!Return, Table!Goto, Table!Set, Users
    <3> QED BY <1>0, <2>2, <3>1 DEF StepBy, OwnerStep, ThreadStep,
               Table!LoadTable,
       Table!Exit, Table!Resume, Table!Search, Table!Count, Table!Copy,
       Table!GrowFails, Table!NoLock,
       Table!Room, Table!NoRoom, Table!Recycle, Table!Create, Table!CreateFails,
       Table!Insert, Table!Uncount, Table!Remove, Table!Recyclable,
       Table!tableVars
  <2> QED BY <2>1, <2>2 DEF Users
<1>4. \A t \in Threads \ {u} : (t \in AtFlag') = (t \in AtFlag)
  BY <1>0 DEF AtFlag
<1>5. AtFlag \subseteq Threads /\ AtFlag' \subseteq Threads
  BY DEF AtFlag
<1>6. CASE u \in AtFlag' /\ u \notin AtFlag
  <2>1. AtFlag = {}
    BY <1>1, <1>6 DEF FlagInv
  <2>2. AtFlag' = {u}
    BY <1>4, <1>5, <1>6, <2>1
  <2> QED BY <1>1, <1>6, <2>2 DEF FlagInv
<1>7. CASE u \in AtFlag /\ u \notin AtFlag'
  <2>1. AtFlag = {u}
    BY <1>5, <1>7 DEF FlagInv
  <2>2. AtFlag' = {}
    BY <1>4, <1>5, <1>7, <2>1
  <2> QED BY <1>2, <1>7, <2>2 DEF FlagInv
<1>8. CASE u \in AtFlag <=> u \in AtFlag'
  <2>1. AtFlag' = AtFlag
    BY <1>4, <1>5, <1>8
  <2> QED BY <1>3, <1>8, <2>1 DEF FlagInv
<1> QED BY <1>6, <1>7, <1>8

LEMMA TableTypesNext ==
  ASSUME Table!Parameters, TableTypes, FlagInv, Counted, NEW u \in Users,
         StepBy(u)
  PROVE  TableTypes'
<1>1. CallTypes'
  BY StepOwn, OwnTypes
<1>2. count' \in Nat /\ resizing' \in BOOLEAN /\ producers' \in 0 .. MaxProducers
  BY CountedNext, FlagNext, StepOwn DEF FlagInv
<1>3. /\ isExplicit' \in [1 .. MaxProducers -> BOOLEAN]
      /\ inactive' \in [1 .. MaxProducers -> BOOLEAN]
  <2>1. /\ isExplicit \in [1 .. MaxProducers -> BOOLEAN]
        /\ inactive \in [1 .. MaxProducers -> BOOLEAN]
    BY DEF TableTypes, SharedTypes
  <2>2. ASSUME NEW f \in [1 .. MaxProducers -> BOOLEAN], NEW x, NEW b \in BOOLEAN
        PROVE  [f EXCEPT ![x] = b] \in [1 .. MaxProducers -> BOOLEAN]
    OBVIOUS
  <2>3. TRUE \in BOOLEAN /\ FALSE \in BOOLEAN /\ (u \in Tokens) \in BOOLEAN
    OBVIOUS
  <2>4. \/ isExplicit' = isExplicit
        \/ isExplicit' = [isExplicit EXCEPT ![producers + 1] = (u \in Tokens)]
    BY ProducersStep
  <2>5. \/ inactive' = inactive
        \/ inactive' = [inactive EXCEPT ![mine[u]] = TRUE]
        \/ inactive' = [inactive EXCEPT ![ptr[u]] = FALSE]
    BY ProducersStep
  <2>6. isExplicit' \in [1 .. MaxProducers -> BOOLEAN]
    BY <2>1, <2>2, <2>3, <2>4, Zenon
  <2>7. inactive' \in [1 .. MaxProducers -> BOOLEAN]
    BY <2>1, <2>2, <2>3, <2>5, Zenon
  <2> QED BY <2>6, <2>7
<1>4. /\ table' \in 1 .. MaxTables
      /\ tables' = [h \in 1 .. table' |-> tables'[h]]
      /\ \A h \in 1 .. table' : Shaped(tables'[h])
  BY StepOwn DEF Grown
<1> QED BY <1>1, <1>2, <1>3, <1>4 DEF TableTypes, SharedTypes, Shaped

\* Nobody has an inactive producer, two have different ones, each has one of its
\* kind; and one that is still to be made is not inactive.
OwnersInv ==
  /\ \A p \in 1 .. MaxProducers : p > producers => inactive[p] = FALSE
  /\ \A u \in Users : mine[u] # 0 => inactive[mine[u]] = FALSE
  /\ \A u, v \in Users : mine[u] # 0 /\ mine[u] = mine[v] => u = v
  /\ \A u \in Users : mine[u] # 0 => isExplicit[mine[u]] = (u \in Tokens)

LEMMA OwnersNext ==
  ASSUME Table!Parameters, TableTypes, OwnersInv, NEW u \in Users, StepBy(u)
  PROVE  OwnersInv'
<1>0. /\ producers \in 0 .. MaxProducers /\ MaxProducers \in Nat
      /\ isExplicit \in [1 .. MaxProducers -> BOOLEAN]
      /\ inactive \in [1 .. MaxProducers -> BOOLEAN]
      /\ mine \in [Users -> 0 .. producers] /\ mine[u] \in 0 .. producers
      /\ \A v \in Users \ {u} : mine'[v] = mine[v] /\ mine[v] \in 0 .. producers
  <2>1. /\ producers \in 0 .. MaxProducers /\ MaxProducers \in Nat
        /\ isExplicit \in [1 .. MaxProducers -> BOOLEAN]
        /\ inactive \in [1 .. MaxProducers -> BOOLEAN]
        /\ mine \in [Users -> 0 .. producers]
    BY DEF TableTypes, SharedTypes, CallTypes, Table!Parameters
  <2>2. mine' = [mine EXCEPT ![u] = mine'[u]]
    BY StepOwn DEF Own
  <2> QED BY <2>1, <2>2
<1>1. CASE /\ isExplicit' = [isExplicit EXCEPT ![producers + 1] = (u \in Tokens)]
           /\ producers' = producers + 1 /\ mine'[u] = producers + 1
           /\ Table!Create(u) /\ producers + 1 \in 1 .. MaxProducers
  <2>1. inactive' = inactive
    BY <1>1 DEF Table!Create
  <2>2. \A p \in 1 .. MaxProducers : p > producers' => inactive'[p] = FALSE
    BY <1>0, <1>1, <2>1 DEF OwnersInv
  <2>3. \A v \in Users : mine'[v] # 0 => inactive'[mine'[v]] = FALSE
    BY <1>0, <1>1, <2>1 DEF OwnersInv
  <2>4. \A v, w \in Users : mine'[v] # 0 /\ mine'[v] = mine'[w] => v = w
    BY <1>0, <1>1 DEF OwnersInv
  <2>5. ASSUME NEW v \in Users, mine'[v] # 0
        PROVE  isExplicit'[mine'[v]] = (v \in Tokens)
    <3>1. CASE v = u
      BY <1>0, <1>1, <3>1
    <3>2. CASE v # u
      <4>1. mine'[v] = mine[v] /\ mine[v] \in 1 .. producers
        BY <1>0, <2>5, <3>2
      <4>2. isExplicit'[mine[v]] = isExplicit[mine[v]]
        BY <1>0, <1>1, <4>1
      <4> QED BY <2>5, <4>1, <4>2 DEF OwnersInv
    <3> QED BY <3>1, <3>2
  <2> QED BY <2>2, <2>3, <2>4, <2>5 DEF OwnersInv
<1>2. CASE isExplicit' = isExplicit /\ producers' = producers /\ ~Table!Create(u)
  <2>1. \/ inactive' = inactive /\ mine'[u] = mine[u]
        \/ mine'[u] = 0 /\ inactive' = [inactive EXCEPT ![mine[u]] = TRUE]
        \/ /\ mine'[u] = ptr[u] /\ ptr[u] \in 1 .. producers /\ inactive[ptr[u]]
           /\ inactive' = [inactive EXCEPT ![ptr[u]] = FALSE]
           /\ isExplicit[ptr[u]] = (u \in Tokens)
    BY <1>2, ProducersStep
  <2>2. CASE inactive' = inactive /\ mine'[u] = mine[u]
    <3>1. \A v \in Users : mine'[v] = mine[v]
      BY <1>0, <2>2
    <3> QED BY <1>2, <2>2, <3>1 DEF OwnersInv
  <2>3. CASE mine'[u] = 0 /\ inactive' = [inactive EXCEPT ![mine[u]] = TRUE]
    <3>1. \A v \in Users : mine'[v] # 0 => v # u /\ mine'[v] = mine[v]
      BY <1>0, <2>3
    <3>2. \A v \in Users : mine'[v] # 0 => mine[v] # mine[u]
      BY <3>1 DEF OwnersInv
    <3>3. \A p \in 1 .. MaxProducers : p # mine[u] => inactive'[p] = inactive[p]
      BY <1>0, <2>3
    <3>4. \A p \in 1 .. MaxProducers : p > producers' => inactive'[p] = FALSE
      BY <1>0, <1>2, <3>3 DEF OwnersInv
    <3>5. \A v \in Users : mine'[v] # 0 => inactive'[mine'[v]] = FALSE
      BY <1>0, <3>1, <3>2, <3>3 DEF OwnersInv
    <3> QED BY <1>2, <3>1, <3>4, <3>5 DEF OwnersInv
  <2>4. CASE /\ mine'[u] = ptr[u] /\ ptr[u] \in 1 .. producers /\ inactive[ptr[u]]
             /\ inactive' = [inactive EXCEPT ![ptr[u]] = FALSE]
             /\ isExplicit[ptr[u]] = (u \in Tokens)
    <3>1. \A v \in Users \ {u} : mine'[v] # 0 => mine'[v] # ptr[u]
      BY <1>0, <2>4 DEF OwnersInv
    <3>2. \A p \in 1 .. MaxProducers : p # ptr[u] => inactive'[p] = inactive[p]
      BY <1>0, <2>4
    <3>3. inactive'[ptr[u]] = FALSE
      BY <1>0, <2>4
    <3>4. \A p \in 1 .. MaxProducers : p > producers' => inactive'[p] = FALSE
      BY <1>0, <1>2, <2>4, <3>2 DEF OwnersInv
    <3>5. \A v \in Users : mine'[v] # 0 => inactive'[mine'[v]] = FALSE
      BY <1>0, <2>4, <3>2, <3>3 DEF OwnersInv
    <3>6. \A v, w \in Users : mine'[v] # 0 /\ mine'[v] = mine'[w] => v = w
      BY <1>0, <2>4, <3>1 DEF OwnersInv
    <3>7. \A v \in Users : mine'[v] # 0 => isExplicit'[mine'[v]] = (v \in Tokens)
      BY <1>0, <1>2, <2>4 DEF OwnersInv
    <3> QED BY <3>4, <3>5, <3>6, <3>7 DEF OwnersInv
  <2> QED BY <2>1, <2>2, <2>3, <2>4
<1> QED
  <2>1. Table!Create(u) => producers' = producers + 1
    BY DEF Table!Create
  <2>2. producers # producers + 1
    BY <1>0
  <2> QED BY <1>1, <1>2, <2>1, <2>2, ProducersStep

-----------------------------------------------------------------------------
(* Where a thread is in the tables. *)

\* The slot that a search for t in table h looks at after n others.
Probe(t, h, n) == (hash_thread_id[t] + n) % Table!Size(h)
In(t, h) == \E s \in Slots(h) : tables[h].key[s] = t

\* A search for t in table h comes to s.
Reached(t, h, s) ==
  \E n \in Slots(h) :
    /\ s = Probe(t, h, n)
    /\ \A k \in 0 .. n - 1 : tables[h].key[Probe(t, h, k)] # Table!Free

\* t is in a table at most once, where a search comes to, with its producer.
Traced(t) ==
  \A h \in 1 .. table :
    /\ \A s \in Slots(h) :
         tables[h].key[s] = t => Reached(t, h, s) /\ tables[h].value[s] = mine[t]
    /\ \A s, r \in Slots(h) : tables[h].key[s] = t /\ tables[h].key[r] = t => s = r

\* A thread without a producer is in no table; one with a producer is in one,
\* unless it is being put there or taken out.
Where(t) ==
  /\ upc[t] \in {"copy", "insert"} =>
       /\ Reached(t, mainHash[t], index[t]) /\ ~In(t, mainHash[t])
       /\ mine[t] # 0
  /\ mine[t] = 0 \/ upc[t] = "insert" => \A h \in 1 .. table : ~In(t, h)
  /\ mine[t] # 0 /\ upc[t] \notin {"insert", "remove"} =>
       \E h \in 1 .. table : In(t, h) /\ (upc[t] = "search" => h <= mainHash[t])
  /\ mine[t] # 0 => upc[t] \notin {"check", "grow", "room", "recycle", "unlock"}
  /\ upc[t] = "remove" => \A h \in 1 .. table : h > hash[t] => ~In(t, h)

FoundInv == \A t \in Threads : Traced(t) /\ Where(t)

LEMMA ProbeIn ==
  ASSUME Table!Parameters, SharedTypes, NEW t \in Threads, NEW h \in 1 .. table,
         NEW n \in Nat
  PROVE  Probe(t, h, n) \in Slots(h)
<1>1. hash_thread_id[t] \in Nat /\ Table!Size(h) \in Nat \ {0}
  BY SlotsOf DEF Table!Parameters
<1> QED BY <1>1 DEF Probe, Slots

\* A search for t ends at t's slot, if t has one in the table.
LEMMA SearchIs ==
  ASSUME Table!Parameters, TableTypes, NEW t \in Threads, Traced(t),
         NEW h \in 1 .. table
  PROVE  /\ In(t, h) => /\ Table!Ends(t, h) /\ Table!IsIn(t, h)
                        /\ tables[h].value[Table!EndOf(t, h)] = mine[t]
         /\ Table!Ends(t, h) /\ Table!IsIn(t, h) => In(t, h)
<1>0. SharedTypes
  BY DEF TableTypes
<1>1. ASSUME Table!Ends(t, h), Table!IsIn(t, h) PROVE In(t, h)
  BY <1>0, <1>1, EndIs DEF Table!IsIn, In
<1>2. ASSUME In(t, h)
      PROVE  /\ Table!Ends(t, h) /\ Table!IsIn(t, h)
             /\ tables[h].value[Table!EndOf(t, h)] = mine[t]
  <2>1. PICK s \in Slots(h) : tables[h].key[s] = t
    BY <1>2 DEF In
  <2>2. PICK n \in Slots(h) :
          /\ s = Probe(t, h, n)
          /\ \A k \in 0 .. n - 1 : tables[h].key[Probe(t, h, k)] # Table!Free
    BY <2>1 DEF Traced, Reached
  <2>3. Table!Stops(t, h) =
          {k \in Slots(h) : tables[h].key[Probe(t, h, k)] \in {t, Table!Free}}
    BY DEF Table!Stops, Table!Slot, Probe, Slots
  <2>4. n \in Table!Stops(t, h) /\ Table!Ends(t, h)
    BY <2>1, <2>2, <2>3 DEF Table!Ends
  <2>5. PICK m \in Table!Stops(t, h) :
          /\ Table!EndOf(t, h) = Table!Slot(h, hash_thread_id[t] + m)
          /\ \A k \in Table!Stops(t, h) : m <= k
    BY <1>0, <2>4, EndIs
  <2>6. /\ m \in Slots(h) /\ m <= n /\ m \in Nat /\ n \in Nat
        /\ tables[h].key[Probe(t, h, m)] \in {t, Table!Free}
    BY <1>0, <2>2, <2>3, <2>4, <2>5, SlotsOf DEF Slots
  <2>7. tables[h].key[Probe(t, h, m)] = t
    <3>1. CASE m = n
      BY <2>1, <2>2, <3>1
    <3>2. CASE m # n
      <4>1. m \in 0 .. n - 1
        BY <2>6, <3>2
      <4> QED BY <2>2, <2>6, <4>1
    <3> QED BY <3>1, <3>2
  <2>8. Table!EndOf(t, h) = Probe(t, h, m)
    BY <2>5 DEF Probe, Table!Slot
  <2>9. Probe(t, h, m) \in Slots(h)
    BY <1>0, <2>6, ProbeIn
  <2> QED BY <2>4, <2>7, <2>8, <2>9 DEF Table!IsIn, Traced
<1> QED BY <1>1, <1>2

LEMMA FoundIs ==
  ASSUME Table!Parameters, TableTypes, NEW t \in Threads, Traced(t),
         mainHash[t] \in 1 .. table
  PROVE  /\ Table!Found(t) = {h \in 1 .. mainHash[t] : In(t, h)}
         /\ Table!Found(t) # {} =>
              /\ Table!Newest(Table!Found(t)) \in Table!Found(t)
              /\ \A h \in Table!Found(t) : h <= Table!Newest(Table!Found(t))
<1>0. table \in Nat /\ mainHash[t] \in Nat /\ 1 .. mainHash[t] \subseteq 1 .. table
  BY DEF TableTypes, SharedTypes, Table!Parameters
<1>1. Table!Found(t) = {h \in 1 .. mainHash[t] : In(t, h)}
  BY <1>0, SearchIs DEF Table!Found
<1>2. ASSUME Table!Found(t) # {}
      PROVE  /\ Table!Newest(Table!Found(t)) \in Table!Found(t)
             /\ \A h \in Table!Found(t) : h <= Table!Newest(Table!Found(t))
  <2> DEFINE F == Table!Found(t)
  <2>1. F \in SUBSET (1 .. mainHash[t])
    BY <1>1
  <2> HIDE DEF F
  <2>2. F # {} => \E m \in F : \A i \in F : i <= m
    BY <1>0, <2>1, GreatestMember
  <2> QED BY <1>2, <2>2 DEF F, Table!Newest
<1> QED BY <1>1, <1>2

LEMMA HomePrimed ==
  ASSUME NEW t, NEW m, NEW i, mainHash'[t] = m, index'[t] = i
  PROVE  /\ Reached(t, mainHash[t], index[t])' = Reached(t, m, i)'
         /\ In(t, mainHash[t])' = In(t, m)'
BY DEF Reached, In, Probe, Slots, Table!Size

\* As no slot becomes free again, a search comes to where it came.
LEMMA ReachedKept ==
  ASSUME Table!Parameters, TableTypes, Grown, NEW u \in Threads
  PROVE  \A h \in 1 .. table : \A s : Reached(u, h, s) => Reached(u, h, s)'
<1> SUFFICES ASSUME NEW h \in 1 .. table, NEW s, Reached(u, h, s)
             PROVE  Reached(u, h, s)'
  OBVIOUS
<1>0. SharedTypes
  BY DEF TableTypes
<1>1. Slots(h)' = Slots(h) /\ \A n : Probe(u, h, n)' = Probe(u, h, n)
  BY DEF Grown, Probe
<1>2. PICK n \in Slots(h) :
        /\ s = Probe(u, h, n)
        /\ \A k \in 0 .. n - 1 : tables[h].key[Probe(u, h, k)] # Table!Free
  BY DEF Reached
<1>3. n \in Nat
  BY <1>0, SlotsOf DEF Slots
<1>4. ASSUME NEW k \in 0 .. n - 1
      PROVE  tables'[h].key[Probe(u, h, k)'] # Table!Free
  <2>1. Probe(u, h, k) \in Slots(h)
    BY <1>0, <1>3, ProbeIn
  <2>2. Probe(u, h, k)' = Probe(u, h, k)
    BY <1>1
  <2> QED BY <1>2, <2>1, <2>2 DEF Grown
<1> QED BY <1>1, <1>2, <1>4 DEF Reached

\* What does not change for u while others step.
LEMMA TracesKept ==
  ASSUME Table!Parameters, TableTypes, Grown, NEW u \in Threads, SameFor(u)
  PROVE  /\ \A h \in 1 .. table : In(u, h)' = In(u, h)
         /\ \A h \in 1 .. table' : h \notin 1 .. table => ~In(u, h)'
         /\ \A h \in 1 .. table : \A s : Reached(u, h, s) => Reached(u, h, s)'
         /\ \A h \in 1 .. table : h \in 1 .. table'
         /\ (mine'[u] = mine[u] \/ \A h \in 1 .. table : ~In(u, h)) /\ Traced(u)
              => Traced(u)'
<1>0. /\ table \in Nat /\ table' \in Nat /\ table <= table' /\ u # Table!Free
      /\ SharedTypes
  BY DEF TableTypes, SharedTypes, Table!Parameters, Grown
<1>1. ASSUME NEW h \in 1 .. table
      PROVE  /\ Slots(h)' = Slots(h) /\ h \in 1 .. table'
             /\ \A x \in Slots(h) : (tables'[h].key[x] = u) = (tables[h].key[x] = u)
  BY <1>0 DEF Grown, SameFor
<1>2. ASSUME NEW h \in 1 .. table PROVE In(u, h)' = In(u, h)
  BY <1>1 DEF In
<1>3. ASSUME NEW h \in 1 .. table', h \notin 1 .. table PROVE ~In(u, h)'
  BY <1>0, <1>3 DEF In, Grown
<1>4. \A h \in 1 .. table : \A s : Reached(u, h, s) => Reached(u, h, s)'
  BY ReachedKept
<1>5. ASSUME mine'[u] = mine[u] \/ \A h \in 1 .. table : ~In(u, h), Traced(u)
      PROVE  Traced(u)'
  <2>1. ASSUME NEW h \in 1 .. table', NEW s \in Slots(h)', tables'[h].key[s] = u
        PROVE  /\ h \in 1 .. table /\ s \in Slots(h) /\ tables[h].key[s] = u
               /\ mine'[u] = mine[u]
    <3>1. h \in 1 .. table
      BY <1>3, <2>1 DEF In
    <3>2. s \in Slots(h) /\ tables[h].key[s] = u
      BY <1>1, <2>1, <3>1
    <3> QED BY <1>5, <3>1, <3>2 DEF In
  <2>2. ASSUME NEW h \in 1 .. table', NEW s \in Slots(h)', tables'[h].key[s] = u
        PROVE  Reached(u, h, s)' /\ tables'[h].value[s] = mine'[u]
    <3>1. Reached(u, h, s) /\ tables[h].value[s] = mine[u]
      BY <1>5, <2>1, <2>2 DEF Traced
    <3> QED BY <1>4, <2>1, <2>2, <3>1 DEF SameFor
  <2>3. ASSUME NEW h \in 1 .. table', NEW s \in Slots(h)', NEW r \in Slots(h)',
               tables'[h].key[s] = u, tables'[h].key[r] = u
        PROVE  s = r
    BY <1>5, <2>1, <2>3 DEF Traced
  <2> QED BY <2>2, <2>3 DEF Traced
<1> QED BY <1>1, <1>2, <1>3, <1>4, <1>5

LEMMA OthersFound ==
  ASSUME Table!Parameters, TableTypes, Grown, NEW u \in Threads, SameFor(u),
         Traced(u), Where(u), upc'[u] = upc[u], mine'[u] = mine[u],
         mainHash'[u] = mainHash[u], index'[u] = index[u], hash'[u] = hash[u]
  PROVE  Traced(u)' /\ Where(u)'
<1>1. Traced(u)'
  BY TracesKept
<1>2. ASSUME upc'[u] \in {"copy", "insert"}
      PROVE  /\ Reached(u, mainHash[u], index[u])' /\ ~In(u, mainHash[u])'
             /\ mine'[u] # 0
  <2>1. PICK m \in 1 .. table : mainHash[u] = m
    BY <1>2 DEF TableTypes, SharedTypes, CallTypes, InMain, Table!Parameters
  <2>2. PICK i : index[u] = i
    OBVIOUS
  <2>3. Reached(u, m, i) /\ ~In(u, m) /\ mine[u] # 0
    BY <1>2, <2>1, <2>2 DEF Where
  <2>4. Reached(u, m, i)' /\ ~In(u, m)'
    BY <2>3, TracesKept
  <2> QED BY <2>1, <2>2, <2>3, <2>4, HomePrimed
<1>3. ASSUME mine'[u] = 0 \/ upc'[u] = "insert", NEW h \in 1 .. table'
      PROVE  ~In(u, h)'
  <2>1. \A g \in 1 .. table : ~In(u, g)
    BY <1>3 DEF Where
  <2> QED BY <2>1, TracesKept
<1>4. ASSUME mine'[u] # 0, upc'[u] \notin {"insert", "remove"}
      PROVE  \E h \in 1 .. table' :
               In(u, h)' /\ (upc'[u] = "search" => h <= mainHash'[u])
  <2>1. PICK h \in 1 .. table : In(u, h) /\ (upc[u] = "search" => h <= mainHash[u])
    BY <1>4 DEF Where
  <2>2. h \in 1 .. table' /\ In(u, h)'
    BY <2>1, TracesKept
  <2> QED BY <2>1, <2>2
<1>5. ASSUME upc'[u] = "remove", NEW h \in 1 .. table', h > hash'[u]
      PROVE  ~In(u, h)'
  <2>1. CASE h \in 1 .. table
    <3>1. ~In(u, h)
      BY <1>5, <2>1 DEF Where
    <3> QED BY <2>1, <3>1, TracesKept
  <2>2. CASE h \notin 1 .. table
    BY <2>2, TracesKept
  <2> QED BY <2>1, <2>2
<1>6. mine'[u] # 0 => upc'[u] \notin {"check", "grow", "room", "recycle", "unlock"}
  BY DEF Where
<1> QED BY <1>1, <1>2, <1>3, <1>4, <1>5, <1>6 DEF Where

\* A thread starts where its hash says.
LEMMA ReachedFirst ==
  ASSUME Table!Parameters, SharedTypes, NEW t \in Threads, NEW h \in 1 .. table
  PROVE  Reached(t, h, Table!Slot(h, hash_thread_id[t]))
<1>1. 0 \in Slots(h) /\ hash_thread_id[t] \in Nat
  BY SlotsOf DEF Slots, Table!Parameters
<1>2. Probe(t, h, 0) = Table!Slot(h, hash_thread_id[t])
  BY <1>1 DEF Probe, Table!Slot
<1> QED BY <1>1, <1>2 DEF Reached

\* And goes on to the next slot.
LEMMA ReachedNext ==
  ASSUME Table!Parameters, SharedTypes, NEW t \in Threads, NEW h \in 1 .. table,
         NEW s, Reached(t, h, s), tables[h].key[s] # Table!Free
  PROVE  Reached(t, h, Table!Slot(h, s + 1))
<1> DEFINE M == Table!Size(h)
           a == hash_thread_id[t]
<1>0. a \in Nat /\ M \in Nat \ {0} /\ Slots(h) = 0 .. M - 1
  BY SlotsOf DEF Table!Parameters, Slots
<1>1. PICK n \in Slots(h) :
        /\ s = Probe(t, h, n)
        /\ \A k \in 0 .. n - 1 : tables[h].key[Probe(t, h, k)] # Table!Free
  BY DEF Reached
<1>2. s = (a + n) % M /\ n \in 0 .. M - 1
  BY <1>0, <1>1 DEF Probe
<1>3. Table!Slot(h, s + 1) = (a + (n + 1)) % M
  <2>1. (((a + n) % M) + 1) % M = ((a + n) + 1) % M
    <3>1. a + n \in Int /\ 1 \in Int
      BY <1>0, <1>2
    <3> HIDE DEF a, M
    <3> QED BY <1>0, <3>1, ModKeeps
  <2>2. (a + n) + 1 = a + (n + 1)
    BY SMTT(20), <1>0, <1>2
  <2> QED BY <1>2, <2>1, <2>2 DEF Table!Slot
<1>4. CASE n + 1 < M
  <2>1. n + 1 \in Slots(h) /\ Table!Slot(h, s + 1) = Probe(t, h, n + 1)
    BY <1>0, <1>2, <1>3, <1>4 DEF Probe
  <2>2. ASSUME NEW k \in 0 .. (n + 1) - 1
        PROVE  tables[h].key[Probe(t, h, k)] # Table!Free
    <3>1. k = n \/ k \in 0 .. n - 1
      BY <1>2
    <3> QED BY <1>1, <3>1
  <2> QED BY <2>1, <2>2 DEF Reached
<1>5. CASE ~(n + 1 < M)
  <2>1. n + 1 = M
    BY <1>0, <1>2, <1>5
  <2>2. (a + M) % M = a % M
    <3> HIDE DEF a, M
    <3>1. M \in Nat /\ M % M = 0 /\ a \in Int
      BY <1>0
    <3> QED BY <1>0, <3>1, ModShift
  <2>3. Table!Slot(h, s + 1) = Table!Slot(h, hash_thread_id[t])
    BY <1>3, <2>1, <2>2 DEF Table!Slot
  <2> QED BY <2>3, ReachedFirst
<1> QED BY <1>4, <1>5

\* t puts itself into a slot that it has come to, of a table where it was not.
LEMMA PutFound ==
  ASSUME Table!Parameters, TableTypes, Grown, NEW t \in Threads, Traced(t),
         NEW h \in 1 .. table, NEW s \in Slots(h), PutsAt(t, h, s),
         Reached(t, h, s), ~In(t, h), mine'[t] = mine[t]
  PROVE  Traced(t)' /\ In(t, h)' /\ h \in 1 .. table'
<1>0. /\ SharedTypes /\ table \in Nat /\ table' = table /\ t \in Keys
      /\ mine[t] \in 0 .. MaxProducers
  <2>1. mine[t] \in 0 .. producers /\ producers \in 0 .. MaxProducers
        /\ MaxProducers \in Nat
    BY DEF TableTypes, SharedTypes, CallTypes, Table!Parameters, Users
  <2>2. mine[t] \in 0 .. MaxProducers
    BY <2>1
  <2> QED BY <2>2 DEF TableTypes, SharedTypes, Table!Parameters, PutsAt,
             Writes, Keys
<1>1. \A g \in 1 .. table :
        /\ Table!Size(g)' = Table!Size(g)
        /\ \A x \in Slots(g) :
             /\ tables'[g].key[x] = IF g = h /\ x = s THEN t ELSE tables[g].key[x]
             /\ tables'[g].value[x] =
                  IF g = h /\ x = s THEN mine[t] ELSE tables[g].value[x]
  BY <1>0, WritesKeep DEF PutsAt
<1>2. ASSUME NEW g \in 1 .. table
      PROVE Slots(g)' = Slots(g)
  BY <1>1 DEF Slots
<1>3. \A g \in 1 .. table : \A x : Reached(t, g, x) => Reached(t, g, x)'
  BY ReachedKept
<1>4. ASSUME NEW g \in 1 .. table', NEW x \in Slots(g)', tables'[g].key[x] = t
      PROVE  \/ g = h /\ x = s /\ tables'[g].value[x] = mine[t] /\ Reached(t, g, x)
             \/ /\ g # h /\ x \in Slots(g) /\ tables[g].key[x] = t
                /\ tables'[g].value[x] = mine[t] /\ Reached(t, g, x)
  <2>1. g \in 1 .. table /\ x \in Slots(g)
    BY <1>0, <1>2, <1>4
  <2>2. CASE g = h
    <3>1. x = s
      BY <1>1, <1>4, <2>1, <2>2 DEF In
    <3> QED BY <1>1, <2>1, <2>2, <3>1
  <2>3. CASE g # h
    <3>1. tables[g].key[x] = t /\ tables'[g].value[x] = tables[g].value[x]
      BY <1>1, <1>4, <2>1, <2>3
    <3> QED BY <2>1, <2>3, <3>1 DEF Traced
  <2> QED BY <2>2, <2>3
<1>5. ASSUME NEW g \in 1 .. table', NEW x \in Slots(g)', tables'[g].key[x] = t
      PROVE  Reached(t, g, x)' /\ tables'[g].value[x] = mine'[t]
  BY <1>0, <1>3, <1>4, <1>5
<1>6. ASSUME NEW g \in 1 .. table', NEW x \in Slots(g)', NEW y \in Slots(g)',
             tables'[g].key[x] = t, tables'[g].key[y] = t
      PROVE  x = y
  BY <1>0, <1>4, <1>6 DEF Traced
<1>7. In(t, h)'
  <2>1. tables'[h].key[s] = t /\ s \in Slots(h)'
    BY <1>1, <1>2
  <2> QED BY <2>1 DEF In
<1> QED BY <1>0, <1>5, <1>6, <1>7 DEF Traced

\* t is taken out of a table.
LEMMA TakeFound ==
  ASSUME Table!Parameters, TableTypes, Grown, NEW t \in Threads, Traced(t),
         NEW h \in 1 .. table, NEW s \in Slots(h), TakesAt(t, h, s),
         mine'[t] = mine[t]
  PROVE  /\ Traced(t)' /\ ~In(t, h)' /\ table' = table
         /\ \A g \in 1 .. table : In(t, g)' => In(t, g)
<1>0. /\ SharedTypes /\ table \in Nat /\ table' = table /\ Table!Reusable \in Keys
      /\ tables[h].value[s] \in 0 .. MaxProducers /\ t # Table!Reusable
  <2>1. tables[h].value[s] \in 0 .. MaxProducers
    BY SlotsOf DEF Slots, TableTypes
  <2> QED BY <2>1 DEF TableTypes, SharedTypes, Table!Parameters, TakesAt,
             Writes, Keys
<1>1. \A g \in 1 .. table :
        /\ Table!Size(g)' = Table!Size(g)
        /\ \A x \in Slots(g) :
             /\ tables'[g].key[x] =
                  IF g = h /\ x = s THEN Table!Reusable ELSE tables[g].key[x]
             /\ tables'[g].value[x] =
                  IF g = h /\ x = s THEN tables[h].value[s] ELSE tables[g].value[x]
  BY <1>0, WritesKeep DEF TakesAt
<1>2. ASSUME NEW g \in 1 .. table
      PROVE Slots(g)' = Slots(g)
  BY <1>1 DEF Slots
<1>3. \A g \in 1 .. table : \A x : Reached(t, g, x) => Reached(t, g, x)'
  BY ReachedKept
<1>4. ASSUME NEW g \in 1 .. table', NEW x \in Slots(g)', tables'[g].key[x] = t
      PROVE  /\ g # h /\ x \in Slots(g) /\ tables[g].key[x] = t
             /\ tables'[g].value[x] = mine[t] /\ Reached(t, g, x)
  <2>1. g \in 1 .. table /\ x \in Slots(g)
    BY <1>0, <1>2, <1>4
  <2>2. ~(g = h /\ x = s) /\ tables[g].key[x] = t
        /\ tables'[g].value[x] = tables[g].value[x]
    BY <1>0, <1>1, <1>4, <2>1
  <2>3. g # h
    BY <2>1, <2>2 DEF Traced, TakesAt
  <2> QED BY <2>1, <2>2, <2>3 DEF Traced
<1>5. ASSUME NEW g \in 1 .. table', NEW x \in Slots(g)', tables'[g].key[x] = t
      PROVE  Reached(t, g, x)' /\ tables'[g].value[x] = mine'[t]
  BY <1>0, <1>3, <1>4, <1>5
<1>6. ASSUME NEW g \in 1 .. table', NEW x \in Slots(g)', NEW y \in Slots(g)',
             tables'[g].key[x] = t, tables'[g].key[y] = t
      PROVE  x = y
  BY <1>0, <1>4, <1>6 DEF Traced
<1>7. ~In(t, h)' /\ \A g \in 1 .. table : In(t, g)' => In(t, g)
  BY <1>0, <1>4 DEF In
<1> QED BY <1>0, <1>5, <1>6, <1>7 DEF Traced

\* The steps in which t neither puts itself into a table nor takes itself out.
LEMMA OwnFoundStill ==
  ASSUME Table!Parameters, TableTypes, NEW t \in Threads, StepBy(t), Grown,
         SameFor(t), Traced(t), Where(t), ~Table!Remove(t),
         Table!Copy(t) \/ Table!Insert(t) => Table!NextIndex(t)
  PROVE  Traced(t)' /\ Where(t)'
<1>0. /\ t \in Users /\ t \notin Tokens /\ table \in 1 .. MaxTables /\ MaxTables \in Nat
      /\ upc \in [Users -> Calls] /\ mine \in [Users -> 0 .. producers]
      /\ index \in [Threads -> Nat] /\ mainHash \in [Threads -> 0 .. table]
      /\ hash \in [Threads -> 0 .. table] /\ SharedTypes
      /\ producers \in Nat
  <2>1. t \in Users /\ t \notin Tokens /\ MaxTables \in Nat
    BY DEF Users, Table!Parameters
  <2>2. SharedTypes /\ table \in 1 .. MaxTables /\ producers \in Nat
    BY DEF TableTypes, SharedTypes
  <2>3. /\ upc \in [Users -> Calls] /\ mine \in [Users -> 0 .. producers]
        /\ index \in [Threads -> Nat] /\ mainHash \in [Threads -> 0 .. table]
        /\ hash \in [Threads -> 0 .. table]
    BY DEF TableTypes, CallTypes
  <2> QED BY ONLY <2>1, <2>2, <2>3
<1>1. /\ \A h \in 1 .. table : In(t, h)' = In(t, h) /\ h \in 1 .. table'
      /\ \A h \in 1 .. table' : h \notin 1 .. table => ~In(t, h)'
  BY TracesKept
<1>2. (\A h \in 1 .. table : ~In(t, h)) => \A h \in 1 .. table' : ~In(t, h)'
  BY <1>1
\* Without a producer.
<1>3. ASSUME mine[t] = 0, mine'[t] = 0,
             upc'[t] \notin {"copy", "insert", "remove"}
      PROVE  Traced(t)' /\ Where(t)'
  <2>1. \A h \in 1 .. table : ~In(t, h)
    BY <1>3 DEF Where
  <2>2. Traced(t)'
    BY <2>1, TracesKept
  <2> QED BY <1>2, <1>3, <2>1, <2>2 DEF Where
\* With one, at the beginning and the end of a call.
<1>4. ASSUME mine'[t] = mine[t], upc[t] \in {"out", "search", "uncount"},
             upc'[t] \in {"out", "search"},
             upc'[t] = "search" => mainHash'[t] = table
      PROVE  Traced(t)' /\ Where(t)'
  <2>1. CASE mine[t] = 0
    BY <1>3, <1>4, <2>1
  <2>2. CASE mine[t] # 0
    <3>1. PICK h \in 1 .. table : In(t, h)
      BY <1>4, <2>2 DEF Where
    <3>2. In(t, h)' /\ h \in 1 .. table' /\ (upc'[t] = "search" => h <= mainHash'[t])
      BY <1>0, <1>1, <1>4, <3>1
    <3>3. Traced(t)'
      BY <1>4, TracesKept
    <3> QED BY <1>4, <2>2, <3>2, <3>3 DEF Where
  <2> QED BY <2>1, <2>2
\* A thread that comes to a slot.
<1>5. ASSUME NEW m \in 1 .. table, NEW i, Reached(t, m, i), ~In(t, m),
             mainHash'[t] = m, index'[t] = i, mine'[t] # 0,
             \/ /\ upc'[t] = "insert" /\ \A h \in 1 .. table : ~In(t, h)
             \/ /\ upc'[t] = "copy" /\ mine'[t] = mine[t]
                /\ \E h \in 1 .. table : In(t, h)
      PROVE  Traced(t)' /\ Where(t)'
  <2>1. Reached(t, m, i)' /\ ~In(t, m)'
    BY <1>1, <1>5, ReachedKept
  <2>2. Reached(t, mainHash[t], index[t])' /\ ~In(t, mainHash[t])'
    BY <1>5, <2>1, HomePrimed
  <2>3. Traced(t)'
    BY <1>5, TracesKept
  <2>4. CASE upc'[t] = "insert" /\ \A h \in 1 .. table : ~In(t, h)
    BY <1>2, <1>5, <2>2, <2>3, <2>4 DEF Where
  <2>5. CASE upc'[t] = "copy" /\ \E h \in 1 .. table : In(t, h)
    <3>1. \E h \in 1 .. table' : In(t, h)'
      BY <1>1, <2>5
    <3> QED BY <1>5, <2>2, <2>3, <2>5, <3>1 DEF Where
  <2> QED BY <1>5, <2>4, <2>5
<1>6. ASSUME upc[t] \in InMain \/ upc[t] = "recycle"
      PROVE mainHash[t] \in 1 .. table
  BY <1>0, <1>6 DEF TableTypes, CallTypes
<1>7. CASE Table!LoadTable(t)
  <2>1. /\ upc[t] = "out" /\ upc' = [upc EXCEPT ![t] = "search"] /\ mine' = mine
        /\ mainHash' = [mainHash EXCEPT ![t] = table]
    BY <1>7 DEF Table!LoadTable, Table!Goto, Table!Set
  <2>2. upc'[t] = "search" /\ mainHash'[t] = table
    BY <1>0, <2>1
  <2> QED BY <1>4, <2>1, <2>2
<1>8. CASE Table!Exit(t)
  <2>1. /\ upc[t] = "out" /\ upc' = [upc EXCEPT ![t] = "remove"] /\ mine' = mine
        /\ hash' = [hash EXCEPT ![t] = table] /\ table' = table /\ mine[t] # 0
    BY <1>8 DEF Table!Exit, Table!Goto, Table!Set, Table!None, Table!tableVars
  <2>2. upc'[t] = "remove" /\ hash'[t] = table
    BY <1>0, <2>1
  <2>3. Traced(t)'
    BY <2>1, TracesKept
  <2>4. \A h \in 1 .. table' : ~(h > hash'[t])
    BY <1>0, <2>1, <2>2
  <2> QED BY <2>1, <2>2, <2>3, <2>4 DEF Where
<1>9. CASE Table!Search(t)
  <2> DEFINE F == Table!Found(t)
  <2>1. /\ upc[t] = "search" /\ mainHash[t] \in 1 .. table /\ mine' = mine
        /\ F # {}
    BY <1>6, <1>9 DEF Table!Search, InMain
  <2>2. /\ F = {h \in 1 .. mainHash[t] : In(t, h)} /\ Table!Newest(F) \in F
        /\ \A h \in F : h <= Table!Newest(F)
    BY <2>1, FoundIs
  <2>3. CASE Table!Return(t)
    <3>1. upc' = [upc EXCEPT ![t] = "out"]
      BY <2>3 DEF Table!Return, Table!Goto, Table!Set
    <3>2. upc'[t] = "out"
      BY <1>0, <3>1
    <3> QED BY <1>4, <2>1, <3>2
  <2>4. CASE ~Table!Return(t)
    <3> DEFINE m == mainHash[t]
               i == Table!Slot(m, hash_thread_id[t])
    <3>1. /\ upc' = [upc EXCEPT ![t] = "copy"] /\ Table!Newest(F) # m
          /\ index' = [index EXCEPT ![t] = i] /\ mainHash' = mainHash
      BY <1>9, <2>4 DEF Table!Search, Table!Goto, Table!Set
    <3> HIDE DEF F
    <3>2. upc'[t] = "copy" /\ index'[t] = i /\ mainHash'[t] = m
      BY <1>0, <3>1
    <3>3. Table!Newest(F) \in 1 .. m /\ In(t, Table!Newest(F))
      BY <2>2
    <3>4. Table!Newest(F) \in 1 .. table /\ Table!Newest(F) < m
      BY <1>0, <2>1, <3>1, <3>3
    <3>5. ~In(t, m)
      <4>1. m \notin F
        BY <2>1, <2>2, <3>3, <3>4, <1>0
      <4> QED BY <1>0, <2>1, <2>2, <4>1
    <3>6. mine[t] # 0
      BY <3>3, <3>4 DEF Where
    <3>7. Reached(t, m, i)
      BY <1>0, <2>1, ReachedFirst
    <3> QED BY <1>5, <2>1, <3>2, <3>3, <3>4, <3>5, <3>6, <3>7
  <2> QED BY <2>3, <2>4
<1>10. CASE Table!Count(t)
  <2>1. /\ upc[t] = "search" /\ mainHash[t] \in 1 .. table /\ mine' = mine
        /\ Table!Found(t) = {} /\ upc' = [upc EXCEPT ![t] = "check"]
    BY <1>6, <1>10 DEF Table!Count, Table!Goto, Table!Set, InMain
  <2>2. \A h \in 1 .. mainHash[t] : ~In(t, h)
    BY <2>1, FoundIs
  <2>3. mine[t] = 0
    <3>1. ASSUME NEW h \in 1 .. table, h <= mainHash[t] PROVE ~In(t, h)
      BY <1>0, <2>1, <2>2, <3>1
    <3> QED BY <2>1, <3>1 DEF Where
  <2>4. upc'[t] = "check"
    BY <1>0, <2>1
  <2> QED BY <1>3, <2>1, <2>3, <2>4
<1>11. CASE \/ Table!Lock(t) \/ Table!Grow(t) \/ Table!GrownAlready(t)
            \/ Table!GrowFails(t) \/ Table!NoLock(t) \/ Table!Room(t)
            \/ Table!NoRoom(t) \/ Table!Unlock(t)
  <2>1. /\ upc[t] \in {"check", "grow", "room", "unlock"} /\ mine' = mine
        /\ \E x \in {"grow", "room", "unlock", "recycle", "check", "out"} :
             upc' = [upc EXCEPT ![t] = x]
    BY <1>11 DEF Table!Lock, Table!Grow, Table!GrownAlready, Table!GrowFails,
       Table!NoLock, Table!Room, Table!NoRoom, Table!Unlock, Table!Goto,
       Table!Set,
       Table!Return
  <2>2. upc'[t] \in {"grow", "room", "unlock", "recycle", "check", "out"}
    BY <1>0, <2>1
  <2>3. mine[t] = 0
    BY <2>1 DEF Where
  <2> QED BY <1>3, <2>1, <2>2, <2>3
<1>12. CASE Table!Recycle(t) \/ Table!Create(t)
  <2> DEFINE m == mainHash[t]
             i == Table!Slot(m, hash_thread_id[t])
  <2>1. upc[t] = "recycle" /\ mine[t] = 0 /\ m \in 1 .. table /\ mainHash' = mainHash
    BY <1>6, <1>12 DEF Table!Recycle, Table!Create, Where
  <2>2. \A h \in 1 .. table : ~In(t, h)
    BY <2>1 DEF Where
  <2>3. ASSUME NEW p \in Nat \ {0}, Table!Given(t, p) PROVE Traced(t)' /\ Where(t)'
    <3>1. /\ upc' = [upc EXCEPT ![t] = "insert"] /\ index' = [index EXCEPT ![t] = i]
          /\ mine' = [mine EXCEPT ![t] = p]
      BY <1>0, <2>3 DEF Table!Given, Table!Goto, Table!Set
    <3>2. upc'[t] = "insert" /\ index'[t] = i /\ mainHash'[t] = m /\ mine'[t] # 0
      BY <1>0, <2>1, <3>1
    <3>3. Reached(t, m, i)
      BY <1>0, <2>1, ReachedFirst
    <3> QED BY <1>5, <2>1, <2>2, <3>2, <3>3
  <2>4. CASE Table!Create(t)
    <3>1. Table!Given(t, producers + 1) /\ producers + 1 \in Nat \ {0}
      BY <1>0, <2>4 DEF Table!Create
    <3> QED BY <2>3, <3>1
  <2>5. CASE Table!Recycle(t)
    <3>1. ptr[t] \in Nat \ {0}
      BY <1>0, <2>5 DEF Table!Recycle, Table!None, TableTypes, CallTypes
    <3>2. Table!Given(t, ptr[t]) \/ (upc' = upc /\ mine' = mine)
      BY <2>5 DEF Table!Recycle
    <3>3. CASE upc' = upc /\ mine' = mine
      BY <1>3, <2>1, <3>3
    <3> QED BY <2>3, <3>1, <3>2, <3>3
  <2> QED BY <1>12, <2>4, <2>5
<1>13. CASE Table!CreateFails(t)
  <2>1. upc[t] = "recycle" /\ mine' = mine /\ upc' = [upc EXCEPT ![t] = "out"]
    BY <1>0, <1>13 DEF Table!CreateFails, Table!Return, Table!Goto, Table!Set
  <2>2. upc'[t] = "out" /\ mine[t] = 0
    BY <1>0, <2>1 DEF Where
  <2> QED BY <1>3, <2>1, <2>2
<1>14. CASE Table!Copy(t) \/ Table!Insert(t)
  <2> DEFINE m == mainHash[t]
             i == Table!Slot(m, index[t] + 1)
  <2>1. /\ upc[t] \in {"copy", "insert"} /\ mine' = mine /\ m \in 1 .. table
    BY <1>6, <1>14 DEF Table!Copy, Table!Insert, InMain
  <2>2. /\ index' = [index EXCEPT ![t] = i] /\ upc' = upc /\ mainHash' = mainHash
        /\ tables' = tables
    BY <1>14 DEF Table!NextIndex, Table!Set
  <2>3. tables[m].key[index[t]] # Table!Free
    <3>1. ASSUME tables[m].key[index[t]] = Table!Free PROVE upc'[t] = "out"
      <4>1. Table!Return(t)
        BY <1>14, <3>1 DEF Table!Copy, Table!Insert, Table!Free, Table!Reusable
      <4>2. upc' = [upc EXCEPT ![t] = "out"]
        BY <4>1 DEF Table!Return, Table!Goto, Table!Set
      <4> QED BY <1>0, <4>2
    <3> QED BY <2>1, <2>2, <3>1
  <2>4. Reached(t, m, index[t]) /\ ~In(t, m) /\ mine[t] # 0
    BY <2>1 DEF Where
  <2>5. Reached(t, m, i)
    BY <1>0, <2>1, <2>3, <2>4, ReachedNext
  <2>6. index'[t] = i /\ mainHash'[t] = m /\ upc'[t] = upc[t] /\ mine'[t] = mine[t]
    BY <1>0, <2>1, <2>2
  <2>7. \/ upc[t] = "insert" /\ \A h \in 1 .. table : ~In(t, h)
        \/ upc[t] = "copy" /\ \E h \in 1 .. table : In(t, h)
    BY <2>1, <2>4 DEF Where
  <2> QED BY <1>5, <2>1, <2>4, <2>5, <2>6, <2>7
<1>15. CASE Table!Uncount(t)
  <2>1. upc[t] = "uncount" /\ mine' = mine /\ upc' = [upc EXCEPT ![t] = "out"]
    BY <1>15 DEF Table!Uncount, Table!Return, Table!Goto, Table!Set
  <2>2. upc'[t] = "out"
    BY <1>0, <2>1
  <2> QED BY <1>4, <2>1, <2>2
<1>16. CASE Table!Recyclable(t)
  <2>1. /\ upc[t] = "remove" /\ hash[t] = 0 /\ mine' = [mine EXCEPT ![t] = 0]
        /\ upc' = [upc EXCEPT ![t] = "out"]
    BY <1>16 DEF Table!Recyclable, Table!Return, Table!Goto, Table!Set, Table!None
  <2>2. upc'[t] = "out" /\ mine'[t] = 0
    BY <1>0, <2>1
  <2>3. \A h \in 1 .. table : ~In(t, h)
    BY <1>0, <2>1 DEF Where
  <2>4. Traced(t)'
    BY <2>3, TracesKept
  <2> QED BY <1>2, <2>2, <2>3, <2>4 DEF Where
<1> QED
  BY <1>0, <1>7, <1>8, <1>9, <1>10, <1>11, <1>12, <1>13, <1>14, <1>15, <1>16
     DEF StepBy, OwnerStep, ThreadStep, Table!Resume

\* t puts itself into the table.
LEMMA OwnFoundPut ==
  ASSUME Table!Parameters, TableTypes, NEW t \in Threads, Grown, Traced(t),
         Where(t),
         Table!Copy(t) \/ Table!Insert(t), ~Table!NextIndex(t)
  PROVE  Traced(t)' /\ Where(t)'
<1>a. PICK m, s : m = mainHash[t] /\ s = index[t]
  OBVIOUS
<1>0. /\ t \in Users /\ upc \in [Users -> Calls] /\ SharedTypes
      /\ upc[t] \in {"copy", "insert"} /\ mine' = mine /\ table' = table
      /\ m \in 1 .. table /\ s \in Slots(m)
  <2>1. /\ upc[t] \in {"copy", "insert"} /\ mine' = mine /\ table' = table
    BY DEF Table!Copy, Table!Insert
  <2>2. m \in 0 .. table /\ m # 0 /\ s \in Slots(m) /\ table \in Nat
    BY <1>a, <2>1 DEF TableTypes, SharedTypes, CallTypes, InMain, Table!Parameters
  <2> QED BY <2>1, <2>2 DEF TableTypes, CallTypes, Users
<1>1. Unused(tables[m].key[s]) /\ Table!Put(t, m, s)
  BY <1>a DEF Table!Copy, Table!Insert, Unused
<1>2. PutsAt(t, m, s)
  BY <1>0, <1>1, PutWrites DEF PutsAt
<1>3. Reached(t, m, s) /\ ~In(t, m) /\ mine[t] # 0
  BY <1>a, <1>0 DEF Where
<1>4. Traced(t)' /\ In(t, m)' /\ m \in 1 .. table'
  BY <1>0, <1>2, <1>3, PutFound
<1>5. upc'[t] \in {"out", "uncount"}
  <2>1. \/ upc' = [upc EXCEPT ![t] = "out"]
        \/ upc' = [upc EXCEPT ![t] = "uncount"]
    BY DEF Table!Copy, Table!Insert, Table!Return, Table!Goto, Table!Set
  <2> QED BY <1>0, <2>1
<1>6. \E h \in 1 .. table' : In(t, h)'
  BY <1>4
<1> QED BY <1>0, <1>3, <1>4, <1>5, <1>6 DEF Where

\* t takes itself out of a table.
LEMMA OwnFoundTake ==
  ASSUME Table!Parameters, TableTypes, NEW t \in Threads, Grown, Traced(t),
         Where(t),
         Table!Remove(t)
  PROVE  Traced(t)' /\ Where(t)'
<1>0. /\ hash \in [Threads -> 0 .. table] /\ table \in Nat /\ SharedTypes
      /\ upc[t] = "remove" /\ upc' = upc /\ mine' = mine /\ table' = table
      /\ hash' = [hash EXCEPT ![t] = hash[t] - 1] /\ hash[t] # 0
      /\ Table!Ends(t, hash[t])
  BY DEF TableTypes, SharedTypes, CallTypes, Table!Parameters, Table!Remove,
         Table!Set, Table!None
<1>1. PICK h \in 1 .. table : h = hash[t]
  BY <1>0
<1>2. hash'[t] = h - 1
  BY <1>0, <1>1
<1>3. \A g \in 1 .. table : g > h => ~In(t, g)
  BY <1>0, <1>1 DEF Where
<1>4. CASE Table!IsIn(t, h)
  <2>1. PICK s \in Slots(h) : s = Table!EndOf(t, h)
    BY <1>0, <1>1, EndIs
  <2>2. tables[h].key[s] = t
    BY <1>4, <2>1 DEF Table!IsIn
  <2>3. tables' = [tables EXCEPT ![h].key[s] = Table!Reusable]
    BY <1>1, <1>4, <2>1 DEF Table!Remove
  <2>4. TakesAt(t, h, s)
    BY <1>0, <2>2, <2>3, TakeWrites DEF TakesAt
  <2>5. /\ Traced(t)' /\ ~In(t, h)'
        /\ \A g \in 1 .. table : In(t, g)' => In(t, g)
    BY <1>0, <2>4, TakeFound
  <2>6. ASSUME NEW g \in 1 .. table', g > hash'[t] PROVE ~In(t, g)'
    <3>1. g \in 1 .. table /\ (g = h \/ g > h)
      BY <1>0, <1>2, <2>6
    <3> QED BY <1>3, <2>5, <3>1
  <2>7. mine[t] = 0 => \A g \in 1 .. table' : ~In(t, g)'
    BY <1>0, <2>5 DEF Where
  <2> QED BY <1>0, <2>5, <2>6, <2>7 DEF Where
<1>5. CASE ~Table!IsIn(t, h)
  <2>1. tables' = tables
    BY <1>1, <1>5 DEF Table!Remove
  <2>2. ~In(t, h)
    BY <1>5, SearchIs
  <2>3. SameFor(t)
    BY <2>1 DEF SameFor
  <2>4. Traced(t)'
    BY <1>0, <2>3, TracesKept
  <2>5. \A g \in 1 .. table : In(t, g)' = In(t, g)
    BY <2>3, TracesKept
  <2>6. ASSUME NEW g \in 1 .. table', g > hash'[t] PROVE ~In(t, g)'
    <3>1. g \in 1 .. table /\ (g = h \/ g > h)
      BY <1>0, <1>2, <2>6
    <3> QED BY <1>3, <2>2, <2>5, <3>1
  <2>7. mine[t] = 0 => \A g \in 1 .. table' : ~In(t, g)'
    BY <1>0, <2>5 DEF Where
  <2> QED BY <1>0, <2>4, <2>6, <2>7 DEF Where
<1> QED BY <1>4, <1>5

LEMMA StepSame ==
  ASSUME Table!Parameters, TableTypes, NEW u \in Users, StepBy(u)
  PROVE  /\ Grown /\ \A t \in Threads : t # u => SameFor(t)
         /\ u \in Threads =>
              \/ SameFor(u) \/ Table!Remove(u)
              \/ (Table!Copy(u) \/ Table!Insert(u)) /\ ~Table!NextIndex(u)
<1>0. Threads \cap Tokens = {} /\ SharedTypes
  BY DEF Table!Parameters, TableTypes
<1>1. CASE tables' = tables /\ table' = table
  <2>1. \A t \in Threads : SameFor(t)
    BY <1>1 DEF SameFor
  <2> QED BY <1>1, <2>1, StillTables
<1>2. CASE u \in Threads /\ ThreadStep(u) /\ ~OwnerStep(u)
  <2>1. TableMoves(u)
    BY <1>2, Moves DEF ThreadStep
  <2>2. Grown /\ \A t \in Threads \ {u} : SameFor(t)
    BY <1>2, <2>1, MovesKeep
  <2>3. CASE Table!Grow(u)
    <3>1. Adds
      BY <1>2, <2>3, GrowAdds
    <3>2. SameFor(u)
      BY <1>0, <3>1, AddsKeep DEF SameFor
    <3> QED BY <2>2, <3>2
  <2>4. CASE Table!Copy(u) \/ Table!Insert(u)
    <3>1. ASSUME Table!NextIndex(u) PROVE SameFor(u)
      BY <3>1 DEF Table!NextIndex, SameFor
    <3> QED BY <2>2, <2>4, <3>1
  <2>5. CASE ~Table!Grow(u) /\ ~Table!Copy(u) /\ ~Table!Insert(u) /\ ~Table!Remove(u)
    <3>1. tables' = tables
      BY <1>2, <2>5 DEF OwnerStep, ThreadStep, Table!Resume, Table!LoadTable,
         Table!Exit, Table!Search, Table!Count, Table!Lock, Table!GrownAlready,
         Table!GrowFails, Table!Unlock, Table!NoLock, Table!Room, Table!NoRoom,
         Table!Uncount, Table!Recyclable, Table!tableVars
    <3>2. SameFor(u)
      BY <3>1 DEF SameFor
    <3> QED BY <2>2, <3>2
  <2> QED BY <2>2, <2>3, <2>4, <2>5
<1>3. CASE OwnerStep(u) \/ (u \in Tokens /\ TokenMoves(u))
  <2>1. tables' = tables /\ table' = table
    BY <1>3, OwnerOwn, TokenOwn
  <2> QED BY <1>1, <2>1
<1> QED BY <1>2, <1>3 DEF StepBy

LEMMA FoundNext ==
  ASSUME Table!Parameters, TableTypes, FoundInv, NEW u \in Users, StepBy(u)
  PROVE  FoundInv'
<1> SUFFICES ASSUME NEW t \in Threads PROVE Traced(t)' /\ Where(t)'
  BY DEF FoundInv
<1>0. Traced(t) /\ Where(t) /\ Threads \cap Tokens = {}
  BY DEF FoundInv, Table!Parameters
<1>1. CASE t # u
  <2>1. Own(u) /\ Grown /\ SameFor(t)
    BY <1>1, StepOwn, StepSame
  <2>2. /\ upc'[t] = upc[t] /\ mine'[t] = mine[t] /\ mainHash'[t] = mainHash[t]
        /\ index'[t] = index[t] /\ hash'[t] = hash[t]
    BY <1>1, <2>1 DEF Own, TableTypes, CallTypes, Users
  <2> QED BY <1>0, <2>1, <2>2, OthersFound
<1>2. CASE t = u
  <2>1. Grown
    BY StepSame
  <2>2. CASE (Table!Copy(t) \/ Table!Insert(t)) /\ ~Table!NextIndex(t)
    BY <1>0, <2>1, <2>2, OwnFoundPut
  <2>3. CASE Table!Remove(t)
    BY <1>0, <2>1, <2>3, OwnFoundTake
  <2>4. CASE /\ ~((Table!Copy(t) \/ Table!Insert(t)) /\ ~Table!NextIndex(t))
             /\ ~Table!Remove(t)
    <3>1. SameFor(t)
      BY <1>2, <2>4, StepSame
    <3> QED BY <1>0, <1>2, <2>1, <2>4, <3>1, OwnFoundStill
  <2> QED BY <2>2, <2>3, <2>4
<1> QED BY <1>1, <1>2

-----------------------------------------------------------------------------
TableInv == TableTypes /\ Counted /\ FlagInv /\ OwnersInv /\ FoundInv

LEMMA TableInit ==
  ASSUME Table!Parameters, Table!Init PROVE TableInv
<1>0. /\ table = 1 /\ count = 0 /\ resizing = FALSE /\ producers = 0
      /\ tables = [h \in {1} |-> Table!NewTable(InitialSize)]
      /\ upc = [u \in Users |-> "out"] /\ mine = [u \in Users |-> 0]
      /\ inactive = [p \in 1 .. MaxProducers |-> FALSE]
  BY DEF Table!Init, Table!Users, Users, Table!None, Table!Producers
<1>1. TableTypes
  BY TableTypesInit
<1>2. Counted
  <2>1. Pending = {}
    BY <1>0 DEF Pending, Users
  <2> QED BY <1>0, <2>1, FS_EmptySet DEF Counted
<1>3. FlagInv
  <2>1. AtFlag = {}
    BY <1>0 DEF AtFlag, Users
  <2> QED BY <1>0, <2>1 DEF FlagInv
<1>4. OwnersInv
  BY <1>0 DEF OwnersInv
<1>5. FoundInv
  <2>1. ASSUME NEW h \in 1 .. table, NEW s \in Slots(h), NEW t \in Threads
        PROVE  tables[h].key[s] # t
    <3>1. h = 1 /\ tables[h] = Table!NewTable(InitialSize)
      BY <1>0
    <3>2. DOMAIN tables[h].key = Slots(h)
      BY <1>1, SlotsOf DEF Slots, TableTypes
    <3>3. tables[h].key[s] = Table!Free
      <4>1. tables[h].key = [r \in 0 .. InitialSize - 1 |-> Table!Free]
        BY <3>1 DEF Table!NewTable
      <4>2. s \in 0 .. InitialSize - 1
        BY <3>2, <4>1
      <4> QED BY <4>1, <4>2
    <3> QED BY <3>3 DEF Table!Parameters
  <2>2. \A t \in Threads : \A h \in 1 .. table : ~In(t, h)
    BY <2>1 DEF In
  <2>3. \A t \in Threads : upc[t] = "out" /\ mine[t] = 0
    BY <1>0 DEF Users
  <2> QED BY <2>1, <2>2, <2>3 DEF FoundInv, Traced, Where
<1> QED BY <1>1, <1>2, <1>3, <1>4, <1>5 DEF TableInv

LEMMA TableNext ==
  ASSUME Table!Parameters, TableInv, [Table!Next]_(Table!vars) PROVE TableInv'
<1>1. CASE Table!Next
  <2>1. PICK u \in Users : StepBy(u)
    BY <1>1, NextSteps
  <2> QED BY <2>1, TableTypesNext, CountedNext, FlagNext, OwnersNext, FoundNext
          DEF TableInv
<1>2. CASE UNCHANGED Table!vars
  <2>1. /\ tables' = tables /\ table' = table /\ count' = count
        /\ resizing' = resizing /\ producers' = producers
        /\ isExplicit' = isExplicit /\ inactive' = inactive
        /\ upc' = upc /\ mainHash' = mainHash /\ newCount' = newCount
        /\ index' = index /\ hash' = hash /\ ptr' = ptr /\ mine' = mine
    BY <1>2 DEF Table!vars, Table!tableVars, Table!producerVars, Table!localVars
  <2>2. \A h : Slots(h)' = Slots(h)
    BY <2>1 DEF Slots, Table!Size
  <2>3. SharedTypes'
    BY <2>1 DEF TableInv, TableTypes, SharedTypes, Shaped
  <2>4. CallTypes'
    <3>1. \A t \in Threads : Slots(mainHash[t])' = Slots(mainHash[t])
      BY <2>1 DEF Slots, Table!Size
    <3> QED BY <2>1, <3>1 DEF TableInv, TableTypes, CallTypes
  <2>5. Counted'
    BY <2>1 DEF TableInv, Counted, Pending
  <2>6. FlagInv' /\ OwnersInv'
    BY <2>1 DEF TableInv, FlagInv, AtFlag, OwnersInv
  <2>7. FoundInv'
    <3> SUFFICES ASSUME NEW t \in Threads PROVE Traced(t)' /\ Where(t)'
      BY DEF FoundInv
    <3>1. Traced(t) /\ Where(t)
      BY DEF TableInv, FoundInv
    <3>2. \A h : In(t, h)' = In(t, h)
      BY <2>1 DEF In, Slots, Table!Size
    <3>3. \A h, s : Reached(t, h, s)' = Reached(t, h, s)
      BY <2>1 DEF Reached, Probe, Slots, Table!Size
    <3>4. Traced(t)'
      BY <2>1, <2>2, <3>1, <3>3 DEF Traced
    <3>5. /\ Reached(t, mainHash[t], index[t])' = Reached(t, mainHash[t], index[t])
          /\ In(t, mainHash[t])' = In(t, mainHash[t])
      BY <2>1 DEF Reached, In, Probe, Slots, Table!Size
    <3>6. Where(t)'
      BY <2>1, <3>1, <3>2, <3>5 DEF Where
    <3> QED BY <3>4, <3>6
  <2> QED BY <2>3, <2>4, <2>5, <2>6, <2>7 DEF TableInv, TableTypes
<1> QED BY <1>1, <1>2

LEMMA TableInvHolds == ASSUME Table!Parameters PROVE Table!Spec => []TableInv
BY TableInit, TableNext, PTL DEF Table!Spec

\* The count of slots in use stays a number of slots, though a call that fails and
\* one that reuses a slot take from it, and no local names a table or a producer
\* that is not there.
THEOREM TableTypesHold ==
  ASSUME Table!Parameters PROVE Table!Spec => []Table!TypeOK
<1>1. ASSUME TableInv PROVE Table!TypeOK
  BY <1>1 DEF TableInv, TableTypes, SharedTypes, CallTypes, Table!TypeOK, Users,
     Table!Users
<1> QED BY <1>1, TableInvHolds, PTL

\* The flag of a resize is set just while one thread is at it, also when it gets
\* no memory: whoever waits for a table does not wait for ever.
THEOREM TableFlagHeld ==
  ASSUME Table!Parameters PROVE Table!Spec => []Table!FlagHeld
<1>1. ASSUME TableInv PROVE Table!FlagHeld
  <2>1. FlagInv /\ {t \in Threads : upc[t] \in {"grow", "unlock"}} = AtFlag
    BY <1>1 DEF TableInv, AtFlag
  <2>2. Cardinality(AtFlag) <= 1
    <3>1. CASE AtFlag = {}
      BY <3>1, FS_EmptySet
    <3>2. CASE AtFlag # {}
      <4>1. PICK t \in AtFlag : TRUE
        BY <3>2
      <4>2. AtFlag = {t}
        BY <2>1, <4>1 DEF FlagInv
      <4>3. Cardinality({t}) = 1
        BY FS_Singleton
      <4> QED BY <4>2, <4>3
    <3> QED BY <3>1, <3>2
  <2>3. resizing = (\E t \in Threads : upc[t] \in {"grow", "unlock"})
    BY <2>1 DEF FlagInv, AtFlag
  <2> QED BY <2>1, <2>2, <2>3 DEF Table!FlagHeld, Table!Cardinality, Cardinality
<1> QED BY <1>1, TableInvHolds, PTL

\* No producer is with two threads or tokens, or with one of the other kind, or
\* free to be taken while it is in use.
THEOREM TableOwnersApart ==
  ASSUME Table!Parameters PROVE Table!Spec => []Table!OwnersApart
<1>1. ASSUME TableInv PROVE Table!OwnersApart
  BY <1>1 DEF TableInv, OwnersInv, Table!OwnersApart, Users, Table!Users,
     Table!None
<1> QED BY <1>1, TableInvHolds, PTL

\* A thread that enqueues again finds its own producer, in whatever table its id
\* is and whatever others have done to the slots before it.
THEOREM TableKeepsProducer ==
  ASSUME Table!Parameters PROVE Table!Spec => []Table!KeepsProducer
<1>1. ASSUME TableInv PROVE Table!KeepsProducer
  <2> SUFFICES ASSUME NEW t \in Threads, mine[t] # 0
               PROVE  /\ upc[t] \notin {"check", "grow", "room", "recycle"}
                      /\ upc[t] = "search" /\ Table!Found(t) # {} =>
                           LET h == Table!Newest(Table!Found(t))
                           IN tables[h].value[Table!EndOf(t, h)] = mine[t]
    BY DEF Table!KeepsProducer, Table!None
  <2>1. TableTypes /\ Traced(t) /\ Where(t)
    BY <1>1 DEF TableInv, FoundInv
  <2>2. upc[t] \notin {"check", "grow", "room", "recycle"}
    BY <2>1 DEF Where
  <2>3. ASSUME upc[t] = "search", Table!Found(t) # {}, NEW h,
               h = Table!Newest(Table!Found(t))
        PROVE  tables[h].value[Table!EndOf(t, h)] = mine[t]
    <3>1. mainHash[t] \in 1 .. table /\ table \in Nat
      BY <2>1, <2>3 DEF TableTypes, SharedTypes, CallTypes, InMain,
         Table!Parameters
    <3>2. h \in 1 .. mainHash[t] /\ In(t, h)
      BY <2>1, <2>3, <3>1, FoundIs
    <3>3. h \in 1 .. table
      BY <3>1, <3>2
    <3> QED BY <2>1, <3>2, <3>3, SearchIs
  <2> QED BY <2>2, <2>3
<1> QED BY <1>1, TableInvHolds, PTL

-----------------------------------------------------------------------------
(* Free slots, where no thread exits. *)

\* The threads that are counted.
Ranked ==
  {t \in Threads : mine[t] # 0 \/ upc[t] \in {"check", "grow", "room", "recycle"}}

\* How many may be counted for a table before no more are put into it.
Limit(h) == Table!Half(h) + Table!Size(h) \div 4

\* No slot was given back, later tables are no smaller, and who makes one makes
\* it from the newest.
TablesInv ==
  /\ \A h \in 1 .. table : \A s \in Slots(h) : tables[h].key[s] # Table!Reusable
  /\ \A t \in Threads : upc[t] \notin {"remove", "uncount"}
  /\ \A g, h \in 1 .. table : g <= h => Table!Size(g) <= Table!Size(h)
  /\ \A t \in Threads : upc[t] = "grow" => mainHash[t] = table

\* A thread's rank is the count it read when it was counted.  Those who go into a
\* table have one below its limit.
RankOf(rank, t) ==
  /\ upc[t] \in {"check", "grow", "room"} => rank[t] = newCount[t]
  /\ upc[t] \in {"copy", "recycle", "insert"} => rank[t] < Limit(mainHash[t])
  /\ \A h \in 1 .. table : In(t, h) => rank[t] < Limit(h)

\* No more have a rank up to m than m.
Few(rank) == \A m \in Nat : Cardinality({t \in Ranked : rank[t] <= m}) <= m

RanksInv ==
  /\ count >= Cardinality(Ranked)
  /\ \E rank \in [Threads -> Nat] :
       Few(rank) /\ \A t \in Threads : RankOf(rank, t)

SlotInv == TableInv /\ TablesInv /\ RanksInv

LEMMA RankedFinite ==
  ASSUME Table!Parameters
  PROVE  /\ IsFiniteSet(Ranked) /\ Cardinality(Ranked) \in Nat
         /\ \A S : S \subseteq Ranked =>
              IsFiniteSet(S) /\ Cardinality(S) \in Nat
              /\ Cardinality(S) <= Cardinality(Ranked)
<1>1. IsFiniteSet(Users) /\ Ranked \subseteq Users
  BY DEF Table!Parameters, Table!Users, Users, Table!IsFiniteSet, IsFiniteSet, Ranked
<1>2. IsFiniteSet(Ranked) /\ Cardinality(Ranked) \in Nat
  BY <1>1, FS_Subset, FS_CardinalityType
<1>3. ASSUME NEW S, S \subseteq Ranked
      PROVE  /\ IsFiniteSet(S) /\ Cardinality(S) \in Nat
             /\ Cardinality(S) <= Cardinality(Ranked)
  BY <1>2, <1>3, FS_Subset, FS_CardinalityType
<1> QED BY <1>2, <1>3

\* What a step does to table and to upc, where no thread exits.
LEMMA StepPlaces ==
  ASSUME Table!Parameters, TableInv, TablesInv, Mortal = {}, NEW u \in Users,
         StepBy(u)
  PROVE  /\ \A t \in Threads : t # u =>
              /\ upc'[t] = upc[t] /\ mainHash'[t] = mainHash[t]
              /\ newCount'[t] = newCount[t] /\ mine'[t] = mine[t]
         /\ u \in Threads => ~Table!Remove(u) /\ ~Table!Exit(u) /\ ~Table!Uncount(u)
<1>1. TableTypes /\ Own(u)
  BY StepOwn DEF TableInv
<1>2. ASSUME NEW t \in Threads, t # u
      PROVE  /\ upc'[t] = upc[t] /\ mainHash'[t] = mainHash[t]
             /\ newCount'[t] = newCount[t] /\ mine'[t] = mine[t]
  BY <1>1, <1>2 DEF TableTypes, CallTypes, Own, Users
<1>3. ASSUME u \in Threads
      PROVE  ~Table!Remove(u) /\ ~Table!Exit(u) /\ ~Table!Uncount(u)
  <2>1. upc[u] \notin {"remove", "uncount"}
    BY <1>3 DEF TablesInv
  <2> QED BY <2>1 DEF Table!Remove, Table!Exit, Table!Uncount
<1> QED BY <1>2, <1>3

\* Only Grow makes a table.
LEMMA OnlyGrow ==
  ASSUME Table!Parameters, NEW u \in Users, StepBy(u)
  PROVE  \/ table' = table
         \/ u \in Threads /\ Table!Grow(u)
<1>1. Threads \cap Tokens = {}
  BY DEF Table!Parameters
<1>2. CASE u \in Tokens
  BY <1>1, <1>2 DEF StepBy, OwnerStep, TokenMoves, Table!Recycle, Table!Create,
     Table!CreateFails, Table!TokenMade, Table!TokenGone, Table!tableVars
<1>3. CASE u \in Threads
  BY <1>1, <1>3 DEF StepBy, OwnerStep, ThreadStep, Table!LoadTable, Table!Exit,
     Table!Resume, Table!Search, Table!Count, Table!Copy, Table!Lock,
     Table!GrownAlready, Table!GrowFails, Table!Unlock, Table!NoLock, Table!Room,
     Table!NoRoom, Table!Recycle, Table!Create, Table!CreateFails, Table!Insert,
     Table!Uncount, Table!Remove, Table!Recyclable, Table!tableVars
<1> QED BY <1>2, <1>3 DEF Users

\* Where the calls of a thread go.
LEMMA GoesTo ==
  ASSUME Table!Parameters, TableInv, TablesInv, Mortal = {}, NEW u \in Threads,
         StepBy(u)
  PROVE  /\ upc'[u] = "grow" => mainHash'[u] = table /\ table' = table
         /\ upc'[u] \notin {"remove"}
<1>0. /\ u \in Users /\ u \notin Tokens /\ upc \in [Users -> Calls]
      /\ mainHash \in [Threads -> 0 .. table]
      /\ ~Table!Remove(u) /\ ~Table!Exit(u) /\ ~Table!Uncount(u)
  BY StepPlaces DEF Users, TableInv, TableTypes, CallTypes, Table!Parameters
<1>1. CASE Table!Lock(u)
  BY <1>0, <1>1 DEF Table!Lock, Table!Goto, Table!Set
<1>2. CASE ~Table!Lock(u)
  <2>1. \/ \E x \in {"out", "search", "copy", "check", "unlock", "room", "recycle",
                     "insert", "uncount"} : upc' = [upc EXCEPT ![u] = x]
        \/ upc' = upc /\ upc[u] \in {"copy", "recycle", "insert"}
    BY <1>0, <1>2 DEF StepBy, OwnerStep, ThreadStep, Table!LoadTable, Table!Resume,
       Table!Search, Table!Count, Table!Copy, Table!Grow, Table!GrownAlready,
       Table!GrowFails, Table!Unlock, Table!NoLock, Table!Room, Table!NoRoom,
       Table!Recycle, Table!Create, Table!CreateFails, Table!Insert, Table!Given,
       Table!Recyclable, Table!Return, Table!Goto, Table!Set, Table!NextIndex
  <2> QED BY <1>0, <2>1
<1> QED BY <1>1, <1>2

\* Nobody finds a slot to reuse.
LEMMA NoneReused ==
  ASSUME Table!Parameters, TableInv, TablesInv, Mortal = {}, NEW u \in Threads,
         StepBy(u)
  PROVE  upc'[u] # "uncount"
<1>0. /\ u \in Users /\ u \notin Tokens /\ upc \in [Users -> Calls]
      /\ ~Table!Remove(u) /\ ~Table!Exit(u) /\ ~Table!Uncount(u)
  BY StepPlaces DEF Users, TableInv, TableTypes, CallTypes, Table!Parameters
<1>1. upc[u] # "uncount"
  BY DEF TablesInv
<1>2. CASE Table!Insert(u)
  <2>1. upc[u] = "insert"
    BY <1>2 DEF Table!Insert
  <2>2. mainHash[u] \in 1 .. table /\ index[u] \in Slots(mainHash[u])
    BY <2>1 DEF TableInv, TableTypes, SharedTypes, CallTypes, InMain, Table!Parameters
  <2>3. tables[mainHash[u]].key[index[u]] # Table!Reusable
    BY <2>2 DEF TablesInv
  <2>4. upc' = [upc EXCEPT ![u] = "out"] \/ upc' = upc
    BY <1>2, <2>3 DEF Table!Insert, Table!Return, Table!Goto, Table!Set,
       Table!NextIndex
  <2> QED BY <1>0, <1>1, <2>4
<1>3. CASE ~Table!Insert(u)
  <2>1. \/ \E x \in {"out", "search", "copy", "check", "grow", "unlock", "room",
                     "recycle", "insert"} : upc' = [upc EXCEPT ![u] = x]
        \/ upc' = upc
    BY <1>0, <1>3 DEF StepBy, OwnerStep, ThreadStep, Table!LoadTable, Table!Resume,
       Table!Search, Table!Count, Table!Copy, Table!Lock, Table!Grow,
       Table!GrownAlready, Table!GrowFails, Table!Unlock, Table!NoLock, Table!Room,
       Table!NoRoom, Table!Recycle, Table!Create, Table!CreateFails, Table!Given,
       Table!Recyclable, Table!Return, Table!Goto, Table!Set, Table!NextIndex
  <2> QED BY <1>0, <1>1, <2>1
<1> QED BY <1>2, <1>3

\* The new table is at least twice as large as the newest.
LEMMA NewSize ==
  ASSUME Table!Parameters, TableInv, TablesInv, NEW u \in Threads, Table!Grow(u),
         NEW h, h = table + 1
  PROVE  /\ table' = h /\ mainHash[u] = table
         /\ Table!Size(h)' \in Nat /\ Table!Size(table) <= Table!Size(h)'
<1> DEFINE c == Table!NewCapacity(u)
<1>0. upc[u] = "grow" /\ table' = table + 1
  BY DEF Table!Grow
<1>1. /\ SharedTypes /\ mainHash[u] = table /\ newCount[u] \in Nat
      /\ table \in 1 .. MaxTables /\ MaxTables \in Nat
  BY <1>0 DEF TableInv, TablesInv, TableTypes, SharedTypes, CallTypes,
     Table!Parameters
<1>2. mainHash[u] \in 1 .. table
  BY <1>1
<1>3. c \in Nat \ {0} /\ c >= 2 * Table!Size(mainHash[u])
  BY <1>1, <1>2, CapacityIs
<1>4. Table!Size(table) \in Nat
  BY <1>1, <1>2, SlotsOf
<1>5. tables'[h] = Table!NewTable(c)
  <2>1. tables' = [g \in 1 .. table + 1 |->
                     IF g <= table THEN tables[g] ELSE Table!NewTable(c)]
    BY DEF Table!Grow
  <2> HIDE DEF c
  <2> QED BY <1>1, <2>1
<1> HIDE DEF c
<1>6. Table!Size(h)' = c
  <2>1. tables'[h].key = [s \in 0 .. c - 1 |-> Table!Free]
    BY <1>5 DEF Table!NewTable
  <2>2. DOMAIN tables'[h].key = 0 .. c - 1
    BY <2>1
  <2>3. Cardinality(0 .. c - 1) = c
    BY <1>3, FS_Interval
  <2>4. Table!Size(h)' = Table!Cardinality(0 .. c - 1)
    BY <2>2 DEF Table!Size
  <2> QED BY <2>3, <2>4 DEF Table!Cardinality, Cardinality
<1> QED BY <1>0, <1>1, <1>3, <1>4, <1>6

LEMMA TablesNext ==
  ASSUME Table!Parameters, TableInv, TablesInv, Mortal = {}, NEW u \in Users,
         StepBy(u)
  PROVE  TablesInv'
<1>0. /\ TableTypes /\ SharedTypes /\ Grown /\ table \in 1 .. MaxTables
      /\ MaxTables \in Nat /\ table \in Nat /\ Threads \cap Tokens = {}
      /\ Table!Reusable \notin Threads /\ Table!Reusable # Table!Free
  <2>1. TableTypes /\ SharedTypes
    BY DEF TableInv, TableTypes
  <2>2. Grown
    BY <2>1, StepSame
  <2>3. /\ table \in 1 .. MaxTables /\ MaxTables \in Nat
        /\ Threads \cap Tokens = {} /\ Table!Reusable \notin Threads
    BY <2>1 DEF SharedTypes, Table!Parameters
  <2>4. Table!Reusable # Table!Free
    BY DEF Table!Reusable, Table!Free
  <2> QED BY <2>1, <2>2, <2>3, <2>4
<1>1. table' = table \/ table' = table + 1
  BY OnlyGrow DEF Table!Grow
<1>2. ASSUME NEW h \in 1 .. table', NEW s \in Slots(h)'
      PROVE  tables'[h].key[s] # Table!Reusable
  <2>1. CASE h \notin 1 .. table
    BY <1>0, <1>2, <2>1 DEF Grown
  <2>2. CASE h \in 1 .. table
    <3>1. s \in Slots(h) /\ tables[h].key[s] # Table!Reusable
      BY <1>0, <1>2, <2>2 DEF Grown, TablesInv
    <3>2. CASE tables' = tables
      BY <3>1, <3>2
    <3>3. CASE tables' # tables
      <4>1. /\ u \in Threads
            /\ Table!Copy(u) \/ Table!Insert(u) \/ Table!Grow(u)
        <5>1. CASE u \in Tokens
          BY <1>0, <3>3, <5>1 DEF StepBy, OwnerStep, TokenMoves, Table!Recycle,
             Table!Create, Table!CreateFails, Table!TokenMade, Table!TokenGone,
             Table!tableVars
        <5>2. CASE u \in Threads
          <6>1. ~Table!Remove(u)
            BY <5>2, StepPlaces
          <6> QED BY <1>0, <3>3, <5>2, <6>1 DEF StepBy, OwnerStep, ThreadStep,
                 Table!LoadTable, Table!Exit, Table!Resume, Table!Search, Table!Count,
                 Table!Lock, Table!GrownAlready, Table!GrowFails, Table!Unlock,
                 Table!NoLock, Table!Room, Table!NoRoom, Table!Recycle, Table!Create,
                 Table!CreateFails, Table!Uncount, Table!Recyclable, Table!tableVars
        <5> QED BY <5>1, <5>2 DEF Users
      <4>2. CASE Table!Copy(u) \/ Table!Insert(u)
        <5>1. PICK m, r : m = mainHash[u] /\ r = index[u]
          OBVIOUS
        <5>2. upc[u] \in {"copy", "insert"} /\ table' = table
          BY <4>2 DEF Table!Copy, Table!Insert
        <5>3. m \in 1 .. table /\ r \in Slots(m)
          BY <1>0, <4>1, <5>1, <5>2 DEF TableTypes, CallTypes, InMain
        <5>4. mine[u] \in 0 .. MaxProducers /\ u \in Keys
          <6>1. mine[u] \in 0 .. producers /\ producers \in 0 .. MaxProducers
                /\ MaxProducers \in Nat
            BY <1>0, <4>1 DEF TableTypes, SharedTypes, CallTypes, Users,
               Table!Parameters
          <6> QED BY <4>1, <6>1 DEF Keys
        <5>5. Table!Put(u, m, r)
          BY <3>3, <4>2, <5>1 DEF Table!Copy, Table!Insert, Table!NextIndex
        <5>6. Writes(m, r, u, mine[u])
          BY <1>0, <5>2, <5>3, <5>5, PutWrites
        <5>7. tables'[h].key[s] = IF h = m /\ s = r THEN u ELSE tables[h].key[s]
          BY <1>0, <2>2, <3>1, <5>3, <5>4, <5>6, WritesKeep
        <5> QED BY <1>0, <3>1, <4>1, <5>7
      <4>3. CASE Table!Grow(u)
        <5>1. Adds
          BY <1>0, <4>1, <4>3, GrowAdds
        <5>2. tables'[h] = tables[h]
          BY <2>2, <5>1 DEF Adds
        <5> QED BY <3>1, <5>2
      <4> QED BY <4>1, <4>2, <4>3
    <3> QED BY <3>2, <3>3
  <2> QED BY <2>1, <2>2
<1>3. ASSUME NEW t \in Threads PROVE upc'[t] \notin {"remove", "uncount"}
  <2>1. CASE t = u
    BY <2>1, GoesTo, NoneReused
  <2>2. CASE t # u
    BY <2>2, StepPlaces DEF TablesInv
  <2> QED BY <2>1, <2>2
<1>4. ASSUME NEW g \in 1 .. table', NEW h \in 1 .. table', g <= h
      PROVE  Table!Size(g)' <= Table!Size(h)'
  <2>1. \A f \in 1 .. table : Table!Size(f)' = Table!Size(f) /\ Table!Size(f) \in Nat
    BY <1>0, SlotsOf DEF Grown
  <2>2. CASE h \in 1 .. table
    <3>1. g \in 1 .. table
      BY <1>0, <1>4, <2>2
    <3> QED BY <1>4, <2>1, <2>2, <3>1 DEF TablesInv
  <2>3. CASE h \notin 1 .. table
    <3>1. u \in Threads /\ Table!Grow(u) /\ h = table + 1
      BY <1>0, <1>1, <2>3, OnlyGrow
    <3>2. Table!Size(table) <= Table!Size(h)' /\ Table!Size(h)' \in Nat
      BY <3>1, NewSize
    <3>4. CASE g = h
      BY <3>2, <3>4
    <3>5. CASE g # h
      <4>1. g \in 1 .. table /\ table \in 1 .. table /\ g <= table
        BY <1>0, <1>4, <3>1, <3>5
      <4>2. Table!Size(g) <= Table!Size(table)
        BY <4>1 DEF TablesInv
      <4> QED BY <2>1, <3>2, <4>1, <4>2
    <3> QED BY <3>4, <3>5
  <2> QED BY <2>2, <2>3
<1>5. ASSUME NEW t \in Threads, upc'[t] = "grow" PROVE mainHash'[t] = table'
  <2>1. CASE t = u
    BY <1>5, <2>1, GoesTo
  <2>2. CASE t # u
    <3>1. upc[t] = "grow" /\ mainHash'[t] = mainHash[t]
      BY <1>5, <2>2, StepPlaces
    <3>2. mainHash[t] = table
      BY <3>1 DEF TablesInv
    <3>3. ~(u \in Threads /\ Table!Grow(u))
      BY <2>2, <3>1 DEF TableInv, FlagInv, AtFlag, Table!Grow
    <3> QED BY <3>1, <3>2, <3>3, OnlyGrow
  <2> QED BY <2>1, <2>2
<1> QED BY <1>2, <1>3, <1>4, <1>5 DEF TablesInv

LEMMA LimitPrimed ==
  ASSUME NEW t, NEW m, mainHash'[t] = m
  PROVE  Limit(mainHash[t])' = Limit(m)'
BY DEF Limit, Table!Half, Table!Size

LEMMA LimitKept ==
  ASSUME Grown PROVE \A h \in 1 .. table : Limit(h)' = Limit(h)
BY DEF Grown, Limit, Table!Half

LEMMA LimitIs ==
  ASSUME SharedTypes, NEW h \in 1 .. table
  PROVE  Limit(h) \in Nat /\ Limit(h) <= Table!Size(h)
<1>1. Table!Size(h) \in Nat \ {0}
  BY SlotsOf
<1>2. ASSUME NEW n \in Nat \ {0}
      PROVE  (n \div 2) + (n \div 4) \in Nat /\ (n \div 2) + (n \div 4) <= n
  OBVIOUS
<1> QED BY <1>1, <1>2 DEF Limit, Table!Half

\* A thread that takes no step keeps its rank.
LEMMA RankStays ==
  ASSUME Table!Parameters, TableInv, NEW t \in Threads, NEW rank, NEW new,
         RankOf(rank, t), new[t] = rank[t], Grown, SameFor(t), upc'[t] = upc[t],
         mainHash'[t] = mainHash[t], newCount'[t] = newCount[t]
  PROVE  RankOf(new, t)'
<1>1. TableTypes /\ SharedTypes /\ t \in Users /\ table \in Nat
  BY DEF TableInv, TableTypes, SharedTypes, Users, Table!Parameters
<1>2. upc'[t] \in {"check", "grow", "room"} => new[t] = newCount'[t]
  BY DEF RankOf
<1>3. ASSUME upc'[t] \in {"copy", "recycle", "insert"}
      PROVE  new[t] < Limit(mainHash[t])'
  <2>1. PICK m : m = mainHash[t]
    OBVIOUS
  <2>2. m \in 1 .. table
    BY <1>1, <1>3, <2>1 DEF TableTypes, CallTypes, InMain
  <2>3. rank[t] < Limit(m)
    BY <1>3, <2>1 DEF RankOf
  <2>4. Limit(mainHash[t])' = Limit(m)'
    BY <2>1, LimitPrimed
  <2>5. Limit(m)' = Limit(m)
    BY <2>2, LimitKept
  <2> QED BY <2>3, <2>4, <2>5
<1>4. ASSUME NEW h \in 1 .. table', In(t, h)' PROVE new[t] < Limit(h)'
  <2>1. h \in 1 .. table /\ In(t, h)
    BY <1>1, <1>4, TracesKept
  <2> QED BY <2>1, LimitKept DEF RankOf
<1> QED BY <1>2, <1>3, <1>4 DEF RankOf

\* Fewer that are counted have the same ranks.
LEMMA FewLess ==
  ASSUME Table!Parameters, NEW rank \in [Threads -> Nat], Few(rank),
         Ranked' \subseteq Ranked
  PROVE  Few(rank)'
<1> SUFFICES ASSUME NEW m \in Nat
             PROVE  Cardinality({t \in Ranked' : rank[t] <= m}) <= m
  BY DEF Few
<1> DEFINE S == {t \in Ranked : rank[t] <= m}
           R == {t \in Ranked' : rank[t] <= m}
<1>1. Cardinality(S) <= m
  BY DEF Few
<1>2. S \subseteq Ranked /\ R \subseteq S
  OBVIOUS
<1>3. IsFiniteSet(S) /\ Cardinality(S) \in Nat
  <2> HIDE DEF S
  <2> QED BY <1>2, RankedFinite
<1>4. Cardinality(R) \in Nat /\ Cardinality(R) <= Cardinality(S)
  <2> HIDE DEF R, S
  <2> QED BY <1>2, <1>3, FS_Subset, FS_CardinalityType
<1> HIDE DEF S
<1>5. Cardinality(R) <= m
  BY <1>1, <1>3, <1>4
<1> QED BY <1>5

\* One more, with the new count for a rank.
LEMMA FewMore ==
  ASSUME Table!Parameters, NEW rank \in [Threads -> Nat], Few(rank), NEW n \in Nat,
         NEW u \in Threads, u \notin Ranked, n >= Cardinality(Ranked) + 1,
         Ranked' = Ranked \cup {u}
  PROVE  /\ Few([rank EXCEPT ![u] = n])'
         /\ Cardinality(Ranked') = Cardinality(Ranked) + 1
<1> DEFINE new == [rank EXCEPT ![u] = n]
<1>1. /\ IsFiniteSet(Ranked) /\ Cardinality(Ranked) \in Nat
      /\ Cardinality(Ranked') = Cardinality(Ranked) + 1 /\ IsFiniteSet(Ranked')
  BY RankedFinite, FS_AddElement
<1>2. ASSUME NEW m \in Nat
      PROVE  Cardinality({t \in Ranked' : new[t] <= m}) <= m
  <2> DEFINE R == {t \in Ranked' : new[t] <= m}
             S == {t \in Ranked : rank[t] <= m}
  <2>1. Ranked \subseteq Threads
    BY DEF Ranked
  <2>2. \A t \in Ranked : new[t] = rank[t]
    BY <2>1
  <2>3. CASE m < n
    <3>1. new[u] = n
      OBVIOUS
    <3>2. R = S
      BY <2>2, <2>3, <3>1
    <3> QED BY <3>2 DEF Few
  <2>4. CASE m >= n
    <3>1. R \subseteq Ranked'
      OBVIOUS
    <3>2. Cardinality(R) \in Nat /\ Cardinality(R) <= Cardinality(Ranked')
      <4> HIDE DEF R
      <4> QED BY <1>1, <3>1, FS_Subset, FS_CardinalityType
    <3> HIDE DEF R
    <3>3. Cardinality(R) <= m
      BY <1>1, <2>4, <3>2
    <3> QED BY <3>3 DEF R
  <2> QED BY <2>3, <2>4
<1> QED BY <1>1, <1>2 DEF Few

\* A thread that is counted had no producer.
LEMMA CountsNew ==
  ASSUME Table!Parameters, TableInv, NEW u \in Threads, Table!Count(u)
  PROVE  u \notin Ranked /\ \A h \in 1 .. table : ~In(u, h)
<1>0. /\ upc[u] = "search" /\ Table!Found(u) = {} /\ TableTypes
      /\ Traced(u) /\ Where(u) /\ table \in Nat
  BY DEF Table!Count, TableInv, TableTypes, SharedTypes, FoundInv, Table!Parameters
<1>1. mainHash[u] \in 1 .. table
  BY <1>0 DEF TableTypes, CallTypes, InMain
<1>2. \A h \in 1 .. mainHash[u] : ~In(u, h)
  BY <1>0, <1>1, FoundIs
<1>3. mine[u] = 0
  <2>1. ASSUME mine[u] # 0 PROVE FALSE
    <3>1. PICK h \in 1 .. table : In(u, h) /\ h <= mainHash[u]
      BY <1>0, <2>1 DEF Where
    <3>2. h \in 1 .. mainHash[u]
      BY <1>0, <1>1, <3>1
    <3> QED BY <1>2, <3>1, <3>2
  <2> QED BY <2>1
<1> QED BY <1>0, <1>3 DEF Ranked, Where

\* What a thread that is not counted in a step was before it.
LEMMA RankedBefore ==
  ASSUME Table!Parameters, TableInv, TablesInv, Mortal = {}, NEW u \in Threads,
         StepBy(u), ~Table!Count(u)
  PROVE  \/ upc[u] \in {"check", "grow", "room", "recycle"}
         \/ /\ mine' = mine
            /\ upc'[u] \notin {"check", "grow", "room", "recycle"}
<1>0. /\ u \in Users /\ u \notin Tokens /\ upc \in [Users -> Calls]
      /\ ~Table!Remove(u) /\ ~Table!Exit(u) /\ ~Table!Uncount(u)
      /\ upc[u] \notin {"remove", "uncount"}
  BY StepPlaces DEF Users, TableInv, TableTypes, CallTypes, Table!Parameters, TablesInv
<1>1. \/ upc[u] \in {"check", "grow", "room", "recycle"}
      \/ /\ mine' = mine
         /\ \/ \E x \in {"out", "search", "copy", "uncount"} :
                 upc' = [upc EXCEPT ![u] = x]
            \/ upc' = upc
  BY <1>0 DEF StepBy, OwnerStep, ThreadStep, Table!LoadTable, Table!Resume,
     Table!Search, Table!Copy, Table!Lock, Table!Grow, Table!GrownAlready,
     Table!GrowFails, Table!Unlock, Table!NoLock, Table!Room, Table!NoRoom,
     Table!Recycle, Table!Create, Table!CreateFails, Table!Insert,
     Table!Recyclable, Table!Return, Table!Goto, Table!Set, Table!NextIndex
<1>2. ASSUME NEW x \in {"out", "search", "copy", "uncount"},
             upc' = [upc EXCEPT ![u] = x]
      PROVE  upc'[u] \notin {"check", "grow", "room", "recycle"}
  BY <1>0, <1>2
<1> QED BY <1>1, <1>2

\* Who is counted after a step, and the count.
LEMMA RankedStep ==
  ASSUME Table!Parameters, TableInv, TablesInv, Mortal = {}, NEW u \in Users,
         StepBy(u)
  PROVE  \/ /\ u \in Threads /\ Table!Count(u) /\ u \notin Ranked
            /\ Ranked' = Ranked \cup {u} /\ count' = count + 1
         \/ /\ ~(u \in Threads /\ Table!Count(u))
            /\ u \in Ranked /\ Ranked' = Ranked \ {u} /\ count' = count - 1
         \/ /\ ~(u \in Threads /\ Table!Count(u))
            /\ Ranked' \subseteq Ranked /\ count' = count
<1>0. /\ TableTypes /\ Threads \cap Tokens = {} /\ upc \in [Users -> Calls]
      /\ mine \in [Users -> 0 .. producers]
  BY DEF TableInv, TableTypes, CallTypes, Table!Parameters
<1>1. ASSUME NEW t \in Threads, t # u PROVE (t \in Ranked') = (t \in Ranked)
  BY <1>1, StepPlaces DEF Ranked
<1>2. CASE u \in Tokens
  <2>1. u \notin Threads
    BY <1>0, <1>2
  <2>2. Ranked' \subseteq Ranked
    BY <1>1, <2>1 DEF Ranked
  <2>3. count' = count
    BY <1>2, <2>1 DEF StepBy, OwnerStep, TokenMoves, Table!Recycle, Table!Create,
       Table!CreateFails, Table!TokenMade, Table!TokenGone, Table!tableVars
  <2> QED BY <2>1, <2>2, <2>3
<1>3. CASE u \in Threads /\ Table!Count(u)
  <2>1. u \notin Ranked
    BY <1>3, CountsNew
  <2>2. count' = count + 1 /\ upc' = [upc EXCEPT ![u] = "check"]
    BY <1>3 DEF Table!Count, Table!Goto, Table!Set
  <2>3. u \in Ranked'
    BY <1>0, <1>3, <2>2 DEF Ranked
  <2>4. Ranked' = Ranked \cup {u}
    BY <1>1, <1>3, <2>3 DEF Ranked
  <2> QED BY <1>3, <2>1, <2>2, <2>4
<1>4. CASE u \in Threads /\ (Table!GrowFails(u) \/ Table!CreateFails(u))
  <2>0. u \notin Tokens /\ Where(u)
    BY <1>0, <1>4 DEF TableInv, FoundInv
  <2>1. /\ upc[u] \in {"grow", "recycle"} /\ count' = count - 1 /\ mine' = mine
        /\ upc' = [upc EXCEPT ![u] = "unlock"] \/ upc' = [upc EXCEPT ![u] = "out"]
    BY <1>4, <2>0 DEF Table!GrowFails, Table!CreateFails, Table!Return, Table!Goto,
       Table!Set
  <2>2. mine[u] = 0 /\ upc'[u] \in {"unlock", "out"}
    BY <1>0, <2>0, <2>1 DEF Where
  <2>3. u \in Ranked /\ u \notin Ranked'
    BY <1>4, <2>1, <2>2 DEF Ranked
  <2>4. Ranked' = Ranked \ {u}
    BY <1>1, <2>3 DEF Ranked
  <2>5. ~Table!Count(u)
    BY <2>1 DEF Table!Count
  <2> QED BY <2>1, <2>3, <2>4, <2>5
<1>5. CASE /\ u \in Threads
           /\ ~Table!Count(u) /\ ~Table!GrowFails(u) /\ ~Table!CreateFails(u)
  <2>0. u \notin Tokens /\ ~Table!Uncount(u)
    BY <1>0, <1>5, StepPlaces
  <2>1. count' = count
    BY <1>5, <2>0 DEF StepBy, OwnerStep, ThreadStep, Table!LoadTable, Table!Exit,
       Table!Resume, Table!Search, Table!Copy, Table!Lock, Table!Grow,
       Table!GrownAlready, Table!Unlock, Table!NoLock, Table!Room, Table!NoRoom,
       Table!Recycle, Table!Create, Table!Insert, Table!Remove, Table!Recyclable,
       Table!tableVars
  <2>2. u \in Ranked' => u \in Ranked
    BY <1>5, RankedBefore DEF Ranked
  <2>3. Ranked' \subseteq Ranked
    BY <1>1, <2>2 DEF Ranked
  <2> QED BY <1>5, <2>1, <2>3
<1> QED BY <1>2, <1>3, <1>4, <1>5 DEF Users

\* The rank of the thread that takes the step.
LEMMA RankOwn ==
  ASSUME Table!Parameters, TableInv, TablesInv, Mortal = {}, NEW u \in Threads,
         StepBy(u), ~Table!Count(u), NEW rank \in [Threads -> Nat], RankOf(rank, u)
  PROVE  RankOf(rank, u)'
<1>0. /\ u \in Users /\ u \notin Tokens /\ upc \in [Users -> Calls]
      /\ TableTypes /\ SharedTypes /\ table \in Nat /\ Traced(u) /\ Where(u)
      /\ mainHash \in [Threads -> 0 .. table] /\ newCount \in [Threads -> Nat]
      /\ rank[u] \in Nat
  <2>1. TableTypes /\ SharedTypes /\ CallTypes /\ Traced(u) /\ Where(u)
    BY DEF TableInv, TableTypes, FoundInv
  <2>2. table \in Nat /\ u \in Users /\ u \notin Tokens
    BY <2>1 DEF SharedTypes, Table!Parameters, Users
  <2>3. /\ upc \in [Users -> Calls] /\ mainHash \in [Threads -> 0 .. table]
        /\ newCount \in [Threads -> Nat]
    BY <2>1 DEF CallTypes
  <2> QED BY <2>1, <2>2, <2>3
<1>1. Grown /\ ~Table!Remove(u) /\ ~Table!Exit(u) /\ ~Table!Uncount(u)
      /\ upc[u] \notin {"remove", "uncount"}
  BY <1>0, StepSame, StepPlaces DEF TablesInv
<1>2. ASSUME upc'[u] \in {"check", "grow", "room"} PROVE rank[u] = newCount'[u]
  <2>1. /\ upc[u] \in {"check", "grow", "room"} \/ upc'[u] \notin {"check", "grow", "room"}
        /\ newCount' = newCount \/ upc'[u] \notin {"check", "grow", "room"}
    <3>1. \/ /\ upc[u] \in {"check", "grow", "room"} /\ newCount' = newCount
          \/ \E x \in {"out", "search", "copy", "unlock", "recycle", "insert",
                       "uncount"} : upc' = [upc EXCEPT ![u] = x]
          \/ upc' = upc /\ upc[u] \in {"copy", "recycle", "insert"}
      BY <1>0, <1>1 DEF StepBy, OwnerStep, ThreadStep, Table!LoadTable, Table!Resume,
         Table!Search, Table!Copy, Table!Lock, Table!Grow, Table!GrownAlready,
         Table!GrowFails, Table!Unlock, Table!NoLock, Table!Room, Table!NoRoom,
         Table!Recycle, Table!Create, Table!CreateFails, Table!Insert, Table!Given,
         Table!Recyclable, Table!Return, Table!Goto, Table!Set, Table!NextIndex
    <3> QED BY <1>0, <3>1
  <2> QED BY <1>2, <2>1 DEF RankOf
<1>3. ASSUME upc'[u] \in {"copy", "recycle", "insert"}
      PROVE  rank[u] < Limit(mainHash[u])'
  <2>1. PICK m : m = mainHash[u]
    OBVIOUS
  <2>2. \/ Table!Search(u) \/ Table!Room(u)
        \/ upc[u] \in {"copy", "recycle", "insert"} /\ mainHash' = mainHash
    <3>1. \/ Table!Search(u) \/ Table!Room(u)
          \/ upc[u] \in {"copy", "recycle", "insert"} /\ mainHash' = mainHash
          \/ \E x \in {"out", "search", "check", "grow", "unlock", "room",
                       "uncount"} : upc' = [upc EXCEPT ![u] = x]
      BY <1>0, <1>1 DEF StepBy, OwnerStep, ThreadStep, Table!LoadTable, Table!Resume,
         Table!Copy, Table!Lock, Table!Grow, Table!GrownAlready,
         Table!GrowFails, Table!Unlock, Table!NoLock, Table!NoRoom,
         Table!Recycle, Table!Create, Table!CreateFails, Table!Insert, Table!Given,
         Table!Recyclable, Table!Return, Table!Goto, Table!Set, Table!NextIndex
    <3> QED BY <1>0, <1>3, <3>1
  <2>3. mainHash'[u] = m /\ upc[u] \in {"search", "room", "copy", "recycle", "insert"}
    <3>1. CASE Table!Search(u)
      <4>1. upc' = [upc EXCEPT ![u] = "out"] \/ mainHash' = mainHash
        BY <3>1 DEF Table!Search, Table!Return, Table!Goto, Table!Set
      <4>2. upc'[u] # "out" /\ upc[u] = "search"
        BY <1>3, <3>1 DEF Table!Search
      <4> QED BY <1>0, <2>1, <4>1, <4>2
    <3>2. CASE Table!Room(u)
      BY <2>1, <3>2 DEF Table!Room
    <3> QED BY <2>1, <2>2, <3>1, <3>2
  <2>4. m \in 1 .. table
    BY <1>0, <2>1, <2>3 DEF TableTypes, CallTypes, InMain
  <2>5. rank[u] < Limit(m)
    <3>1. CASE Table!Search(u)
      <4>1. Table!Found(u) # {}
        BY <3>1 DEF Table!Search
      <4>2. PICK g \in 1 .. m : In(u, g)
        BY <1>0, <2>1, <2>4, <4>1, FoundIs
      <4>3. g \in 1 .. table /\ g <= m
        BY <1>0, <2>4, <4>2
      <4>4. rank[u] < Limit(g)
        BY <4>2, <4>3 DEF RankOf
      <4>5. Table!Size(g) <= Table!Size(m)
        BY <2>4, <4>3 DEF TablesInv
      <4>6. Limit(g) <= Limit(m)
        <5>1. Table!Size(g) \in Nat /\ Table!Size(m) \in Nat
          BY <1>0, <2>4, <4>3, SlotsOf
        <5>2. ASSUME NEW a \in Nat, NEW b \in Nat, a <= b
              PROVE  (a \div 2) + (a \div 4) <= (b \div 2) + (b \div 4)
          BY <5>2
        <5> QED BY <4>5, <5>1, <5>2 DEF Limit, Table!Half
      <4>7. Limit(g) \in Nat /\ Limit(m) \in Nat
        BY <1>0, <2>4, <4>3, LimitIs
      <4> QED BY <1>0, <4>4, <4>6, <4>7
    <3>2. CASE Table!Room(u)
      BY <2>1, <3>2 DEF Table!Room, Table!HasRoom, RankOf, Limit
    <3>3. CASE upc[u] \in {"copy", "recycle", "insert"}
      BY <2>1, <3>3 DEF RankOf
    <3> QED BY <2>2, <3>1, <3>2, <3>3
  <2>6. Limit(mainHash[u])' = Limit(m)' /\ Limit(m)' = Limit(m)
    BY <1>1, <2>3, <2>4, LimitPrimed, LimitKept
  <2> QED BY <2>5, <2>6
<1>4. ASSUME NEW h \in 1 .. table', In(u, h)' PROVE rank[u] < Limit(h)'
  <2>1. CASE SameFor(u)
    <3>1. h \in 1 .. table /\ In(u, h)
      BY <1>0, <1>1, <1>4, <2>1, TracesKept
    <3> QED BY <1>1, <3>1, LimitKept DEF RankOf
  <2>2. CASE (Table!Copy(u) \/ Table!Insert(u)) /\ ~Table!NextIndex(u)
    <3>1. PICK m, r : m = mainHash[u] /\ r = index[u]
      OBVIOUS
    <3>2. upc[u] \in {"copy", "insert"} /\ table' = table
      BY <2>2 DEF Table!Copy, Table!Insert
    <3>3. m \in 1 .. table /\ r \in Slots(m)
      BY <1>0, <3>1, <3>2 DEF TableTypes, CallTypes, InMain
    <3>4. mine[u] \in 0 .. MaxProducers /\ u \in Keys
      <4>1. mine[u] \in 0 .. producers /\ producers \in 0 .. MaxProducers
            /\ MaxProducers \in Nat
        BY <1>0 DEF TableTypes, SharedTypes, CallTypes, Table!Parameters
      <4> QED BY <4>1 DEF Keys
    <3>5. Table!Put(u, m, r)
      BY <2>2, <3>1 DEF Table!Copy, Table!Insert
    <3>6. Writes(m, r, u, mine[u])
      BY <1>0, <3>2, <3>3, <3>5, PutWrites
    <3>7. h \in 1 .. table /\ Slots(h)' = Slots(h)
      BY <1>1, <1>4, <3>2 DEF Grown
    <3>8. h = m \/ In(u, h)
      <4>1. PICK s \in Slots(h) : tables'[h].key[s] = u
        BY <1>4, <3>7 DEF In
      <4>2. tables'[h].key[s] = IF h = m /\ s = r THEN u ELSE tables[h].key[s]
        BY <1>0, <3>3, <3>4, <3>6, <3>7, WritesKeep
      <4> QED BY <4>1, <4>2 DEF In
    <3>9. rank[u] < Limit(h)
      BY <3>1, <3>2, <3>7, <3>8 DEF RankOf
    <3> QED BY <1>1, <3>7, <3>9, LimitKept
  <2> QED BY <1>0, <1>1, <2>1, <2>2, StepSame
<1> QED BY <1>2, <1>3, <1>4 DEF RankOf

LEMMA RanksNext ==
  ASSUME Table!Parameters, TableInv, TablesInv, RanksInv, Mortal = {},
         NEW u \in Users, StepBy(u)
  PROVE  RanksInv'
<1>0. /\ TableTypes /\ count \in Nat /\ Grown /\ count >= Cardinality(Ranked)
      /\ \A t \in Threads : t # u => SameFor(t)
  <2>1. TableTypes /\ count \in Nat /\ count >= Cardinality(Ranked)
    BY DEF TableInv, TableTypes, SharedTypes, RanksInv
  <2> QED BY <2>1, StepSame
<1>1. PICK rank \in [Threads -> Nat] :
        Few(rank) /\ \A t \in Threads : RankOf(rank, t)
  BY DEF RanksInv
<1>2. IsFiniteSet(Ranked) /\ Cardinality(Ranked) \in Nat
  BY RankedFinite
<1>3. ASSUME NEW new \in [Threads -> Nat], NEW t \in Threads, t # u, new[t] = rank[t]
      PROVE  RankOf(new, t)'
  BY <1>0, <1>1, <1>3, StepPlaces, RankStays
<1>4. CASE u \in Threads /\ Table!Count(u)
  <2>a. PICK n : n = count + 1
    OBVIOUS
  <2>b. PICK new : new = [rank EXCEPT ![u] = n]
    OBVIOUS
  <2>1. u \notin Ranked /\ Ranked' = Ranked \cup {u} /\ count' = n
    BY <1>4, <2>a, RankedStep
  <2>2. n \in Nat /\ n >= Cardinality(Ranked) + 1
    BY <1>0, <1>2, <2>a
  <2>3. Few(new)' /\ Cardinality(Ranked') = Cardinality(Ranked) + 1
    BY <1>1, <1>4, <2>b, <2>1, <2>2, FewMore
  <2>4. count' >= Cardinality(Ranked')
    BY <1>2, <2>1, <2>2, <2>3
  <2>5. new \in [Threads -> Nat] /\ new[u] = n /\ \A t \in Threads : t # u => new[t] = rank[t]
    BY <1>1, <1>4, <2>b, <2>2
  <2>6. RankOf(new, u)'
    <3>1. /\ upc[u] = "search" /\ upc' = [upc EXCEPT ![u] = "check"]
          /\ newCount' = [newCount EXCEPT ![u] = n] /\ tables' = tables
          /\ table' = table
      BY <1>4, <2>a DEF Table!Count, Table!Goto, Table!Set
    <3>2. upc'[u] = "check" /\ newCount'[u] = n
      BY <1>0, <1>4, <3>1 DEF TableTypes, CallTypes, Users
    <3>3. \A h \in 1 .. table' : ~In(u, h)'
      BY <1>4, <3>1, CountsNew DEF In, Slots, Table!Size
    <3> QED BY <2>5, <3>2, <3>3 DEF RankOf
  <2>7. \A t \in Threads : RankOf(new, t)'
    BY <1>3, <2>5, <2>6
  <2> QED BY <2>3, <2>4, <2>5, <2>7 DEF RanksInv
<1>5. CASE ~(u \in Threads /\ Table!Count(u))
  <2>1. \/ u \in Ranked /\ Ranked' = Ranked \ {u} /\ count' = count - 1
        \/ Ranked' \subseteq Ranked /\ count' = count
    BY <1>5, RankedStep
  <2>2. Few(rank)'
    <3>1. Ranked' \subseteq Ranked
      BY <2>1
    <3> QED BY <1>1, <3>1, FewLess
  <2>3. count' >= Cardinality(Ranked')
    <3>1. CASE u \in Ranked /\ Ranked' = Ranked \ {u} /\ count' = count - 1
      <4>1. Cardinality(Ranked') = Cardinality(Ranked) - 1
        BY <1>2, <3>1, OneLess
      <4> QED BY <1>0, <1>2, <3>1, <4>1
    <3>2. CASE Ranked' \subseteq Ranked /\ count' = count
      <4>1. Cardinality(Ranked') \in Nat /\ Cardinality(Ranked') <= Cardinality(Ranked)
        BY <3>2, RankedFinite
      <4> QED BY <1>0, <1>2, <3>2, <4>1
    <3> QED BY <2>1, <3>1, <3>2
  <2>4. \A t \in Threads : RankOf(rank, t)'
    BY <1>1, <1>3, <1>5, RankOwn
  <2> QED BY <1>1, <2>2, <2>3, <2>4 DEF RanksInv
<1> QED BY <1>4, <1>5

LEMMA SlotInit ==
  ASSUME Table!Parameters, Table!Init PROVE SlotInv
<1>0. /\ table = 1 /\ count = 0 /\ TableInv /\ SharedTypes
      /\ tables = [h \in {1} |-> Table!NewTable(InitialSize)]
      /\ upc = [u \in Users |-> "out"] /\ mine = [u \in Users |-> 0]
  BY TableInit DEF Table!Init, Table!Users, Users, Table!None, TableInv, TableTypes
<1>1. \A t \in Threads : upc[t] = "out" /\ mine[t] = 0
  BY <1>0 DEF Users
<1>2. ASSUME NEW h \in 1 .. table, NEW s \in Slots(h) PROVE tables[h].key[s] = Table!Free
  <2>1. h = 1 /\ tables[h] = Table!NewTable(InitialSize)
    BY <1>0
  <2>2. DOMAIN tables[h].key = Slots(h)
    BY <1>0, SlotsOf DEF Slots
  <2>3. tables[h].key = [r \in 0 .. InitialSize - 1 |-> Table!Free]
    BY <2>1 DEF Table!NewTable
  <2>4. s \in 0 .. InitialSize - 1
    BY <2>2, <2>3
  <2> QED BY <2>3, <2>4
<1>3. TablesInv
  <2>1. Table!Free # Table!Reusable
    BY DEF Table!Free, Table!Reusable
  <2>2. \A g, h \in 1 .. table : g <= h => Table!Size(g) <= Table!Size(h)
    <3>1. Table!Size(1) \in Nat
      BY <1>0, SlotsOf
    <3>2. \A h \in 1 .. table : h = 1
      BY <1>0
    <3> QED BY <3>1, <3>2
  <2> QED BY <1>1, <1>2, <2>1, <2>2 DEF TablesInv
<1>4. Ranked = {}
  BY <1>1 DEF Ranked
<1>5. RanksInv
  <2> DEFINE rank == [t \in Threads |-> 0]
  <2>1. count >= Cardinality(Ranked)
    BY <1>0, <1>4, FS_EmptySet
  <2>2. Few(rank)
    <3>1. ASSUME NEW m \in Nat PROVE Cardinality({t \in Ranked : rank[t] <= m}) <= m
      <4>1. {t \in Ranked : rank[t] <= m} = {}
        BY <1>4
      <4> QED BY <4>1, FS_EmptySet
    <3> QED BY <3>1 DEF Few
  <2>3. \A t \in Threads : RankOf(rank, t)
    <3>1. \A t \in Threads : \A h \in 1 .. table : ~In(t, h)
      BY <1>2 DEF In, Table!Parameters
    <3> QED BY <1>1, <3>1 DEF RankOf
  <2>4. rank \in [Threads -> Nat]
    OBVIOUS
  <2> HIDE DEF rank
  <2> QED BY <2>1, <2>2, <2>3, <2>4 DEF RanksInv
<1> QED BY <1>0, <1>3, <1>5 DEF SlotInv

LEMMA SlotNext ==
  ASSUME Table!Parameters, Mortal = {}, SlotInv, [Table!Next]_(Table!vars)
  PROVE  SlotInv'
<1>0. TableInv' /\ TableInv /\ TablesInv /\ RanksInv
  BY TableNext DEF SlotInv
<1>1. CASE Table!Next
  <2>1. PICK u \in Users : StepBy(u)
    BY <1>1, NextSteps
  <2> QED BY <1>0, <2>1, TablesNext, RanksNext DEF SlotInv
<1>2. CASE UNCHANGED Table!vars
  <2>1. /\ tables' = tables /\ table' = table /\ count' = count
        /\ upc' = upc /\ mainHash' = mainHash /\ newCount' = newCount
        /\ mine' = mine
    BY <1>2 DEF Table!vars, Table!tableVars, Table!producerVars, Table!localVars
  <2>2. TablesInv'
    BY <1>0, <2>1 DEF TablesInv, Slots, Table!Size
  <2>3. Ranked' = Ranked
    BY <2>1 DEF Ranked
  <2>4. PICK rank \in [Threads -> Nat] :
          Few(rank) /\ \A t \in Threads : RankOf(rank, t)
    BY <1>0 DEF RanksInv
  <2>5. Few(rank)'
    BY <2>3, <2>4 DEF Few
  <2>6. ASSUME NEW t \in Threads PROVE RankOf(rank, t)'
    <3>1. Limit(mainHash[t])' = Limit(mainHash[t])
      BY <2>1 DEF Limit, Table!Half, Table!Size
    <3>2. \A h : Limit(h)' = Limit(h) /\ In(t, h)' = In(t, h)
      BY <2>1 DEF Limit, Table!Half, In, Slots, Table!Size
    <3> QED BY <2>1, <2>4, <3>1, <3>2 DEF RankOf
  <2>7. count' >= Cardinality(Ranked')
    BY <1>0, <2>1, <2>3 DEF RanksInv
  <2>8. RanksInv'
    BY <2>4, <2>5, <2>6, <2>7 DEF RanksInv
  <2> QED BY <1>0, <2>2, <2>8 DEF SlotInv
<1> QED BY <1>1, <1>2

\* "at least one slot is free in the hash table": so it is where no thread
\* exits.  No more threads were counted below a table's limit than the limit
\* says, and nobody is in the table twice.
THEOREM TableSlotFree ==
  ASSUME Table!Parameters, Mortal = {} PROVE Table!Spec => []Table!SlotFree
<1>1. ASSUME SlotInv PROVE Table!SlotFree
  <2>0. TableInv /\ TablesInv /\ RanksInv /\ TableTypes /\ SharedTypes
    BY <1>1 DEF SlotInv, TableInv, TableTypes
  <2> SUFFICES ASSUME NEW h \in 1 .. table,
                      \A s \in DOMAIN tables[h].key : tables[h].key[s] # Table!Free
               PROVE  FALSE
    BY DEF Table!SlotFree
  <2> DEFINE n == Table!Size(h)
             T == {t \in Threads : In(t, h)}
             f == [s \in Slots(h) |-> tables[h].key[s]]
  <2>1. n \in Nat \ {0} /\ DOMAIN tables[h].key = Slots(h) /\ Slots(h) = 0 .. n - 1
        /\ \A s \in Slots(h) : tables[h].key[s] \in Keys
    BY <2>0, SlotsOf DEF Slots
  <2>2. \A s \in Slots(h) : tables[h].key[s] \in Threads
    <3>1. ASSUME NEW s \in Slots(h) PROVE tables[h].key[s] \in Threads
      <4>1. tables[h].key[s] # Table!Free /\ tables[h].key[s] # Table!Reusable
        BY <2>0, <2>1 DEF TablesInv
      <4> QED BY <2>1, <4>1 DEF Keys
    <3> QED BY <3>1
  <2>3. f \in [Slots(h) -> T]
    BY <2>2 DEF In
  <2>4. ASSUME NEW s \in Slots(h), NEW r \in Slots(h), f[s] = f[r] PROVE s = r
    <3>1. PICK t \in Threads : tables[h].key[s] = t /\ tables[h].key[r] = t
      BY <2>2, <2>4
    <3>2. Traced(t)
      BY <2>0 DEF TableInv, FoundInv
    <3> QED BY <3>1, <3>2 DEF Traced
  <2>5. PICK rank \in [Threads -> Nat] :
          Few(rank) /\ \A t \in Threads : RankOf(rank, t)
    BY <2>0 DEF RanksInv
  <2>6. ASSUME NEW t \in T PROVE t \in Ranked /\ rank[t] < Limit(h) /\ rank[t] \in Nat
    <3>1. Where(t) /\ RankOf(rank, t)
      BY <2>0, <2>5 DEF TableInv, FoundInv
    <3>2. mine[t] # 0
      BY <3>1 DEF Where
    <3> QED BY <2>5, <3>1, <3>2 DEF RankOf, Ranked
  <2>7. Limit(h) \in Nat /\ Limit(h) <= n
    BY <2>0, LimitIs
  <2>8. PICK t \in T : TRUE
    <3>1. 0 \in Slots(h)
      BY <2>1
    <3> QED BY <2>3, <3>1
  <2> DEFINE m == Limit(h) - 1
             R == {u \in Ranked : rank[u] <= m}
  <2>9. m \in Nat /\ m < n
    BY <2>1, <2>6, <2>7, <2>8
  <2>10. Cardinality(R) <= m
    <3> HIDE DEF m
    <3> QED BY <2>5, <2>9 DEF Few
  <2>11. T \subseteq R
    BY <2>6, <2>7
  <2> HIDE DEF T, R, m, n, f
  <2>12. IsFiniteSet(R) /\ Cardinality(R) \in Nat
    <3>1. R \subseteq Ranked
      BY DEF R
    <3> QED BY <3>1, RankedFinite
  <2>13. IsFiniteSet(T) /\ Cardinality(T) \in Nat /\ Cardinality(T) <= Cardinality(R)
    BY <2>11, <2>12, FS_Subset, FS_CardinalityType
  <2>14. IsFiniteSet(Slots(h)) /\ Cardinality(Slots(h)) = n
    <3>1. 0 \in Int /\ n - 1 \in Int /\ ~(0 > n - 1) /\ (n - 1) - 0 + 1 = n
      BY <2>1
    <3>2. IsFiniteSet(0 .. n - 1) /\ Cardinality(0 .. n - 1) = n
      BY <3>1, FS_Interval
    <3> QED BY <2>1, <3>2
  <2>15. Cardinality(Slots(h)) <= Cardinality(T)
    <3>1. f \in Injection(Slots(h), T)
      BY <2>3, <2>4 DEF Injection, IsInjective
    <3> QED BY <2>13, <3>1, FS_Injection
  <2> QED BY <2>1, <2>9, <2>10, <2>12, <2>13, <2>14, <2>15
<1>2. ASSUME Mortal = {} PROVE Table!Spec => []SlotInv
  BY <1>2, SlotInit, SlotNext, PTL DEF Table!Spec
<1> QED BY <1>1, <1>2, PTL

-----------------------------------------------------------------------------
(***************************************************************************)
(* The list of producers.                                                  *)
(***************************************************************************)

CONSTANTS Quota, MaxBulk, MaxSize, MaxTokens, MaxOffset

VARIABLES
  producerCount, listed, size, nextId, globalOffset, token, pc, at, best,
  bestSize, nonEmpty, left, bulk, start, seen

List == INSTANCE ProducerList WITH ptr <- at

Places == {"out", "score", "best", "sweep", "refused", "place", "current",
           "turn", "others"}
Listed == 0 .. listed

\* What there is, a token, and a call.
SharedShape ==
  /\ producerCount \in 0 .. MaxProducers /\ listed \in 0 .. MaxProducers
  /\ listed \in {producerCount, producerCount - 1}
  /\ size \in [1 .. MaxProducers -> 0 .. MaxSize]
  /\ nextId \in Nat /\ globalOffset \in 0 .. MaxOffset
TokenShape ==
  /\ token \in [id : Nat, last : Int, consumed : 0 .. Quota + 1,
                current : 0 .. MaxProducers, desired : 0 .. MaxProducers,
                placed : 0 .. MaxProducers]
  /\ token.current <= listed /\ token.desired <= listed
CallShape ==
  /\ pc \in Places /\ at \in Listed /\ best \in Listed
  /\ bestSize \in 0 .. MaxSize /\ nonEmpty \in Nat
  /\ left \in 0 .. MaxBulk /\ bulk \in BOOLEAN
  /\ start \in Listed

\* A token's place is what its id and its turns say, while the producers are
\* as many; before its first place it has none of either.
TokenInv ==
  /\ token.id = 0 => token.desired = 0
  /\ IF token.desired = 0 THEN token.last = -1 /\ token.placed = 0
     ELSE token.current # 0
  /\ List!Spread

\* The producers a walk has been at: those above it; and round from the one
\* at hand, those between that one and it.
Above(q) == at < q
Between(q) == IF at < token.current THEN at < q /\ q <= token.current
              ELSE at < q \/ q <= token.current
WalkInv ==
  /\ pc = "out" => best = 0 /\ bestSize = 0 /\ nonEmpty = 0
  /\ pc = "place" => token.id # 0
  /\ pc = "current" => token.current # 0
  /\ pc \in {"score", "sweep", "others"} => at # 0
  /\ pc = "score" => (nonEmpty > 0 \/ bestSize > 0 => best # 0)
  /\ pc = "best" => best # 0
SeenInv ==
  /\ pc = "score" =>
       (nonEmpty = 0 => \A q \in 1 .. start : Above(q) => q \in seen)
  /\ pc = "sweep" => /\ \A q \in 1 .. start : Above(q) => q \in seen
                     /\ best # 0 => best \in seen
  /\ pc = "others" =>
       /\ start <= best /\ at <= best /\ token.current \in 1 .. best
       /\ at # token.current
       /\ \A q \in 1 .. best : Between(q) => q \in seen
  /\ pc = "refused" => \A q \in 1 .. start : q \in seen

ListInv == SharedShape /\ TokenShape /\ CallShape /\ TokenInv /\ WalkInv /\ SeenInv

LEMMA ListConstants ==
  ASSUME List!Parameters
  PROVE  /\ Quota \in Nat /\ MaxProducers \in Nat /\ MaxSize \in Nat
         /\ MaxTokens \in Nat /\ MaxOffset \in Nat /\ MaxBulk \in Nat \ {0}
BY DEF List!Parameters

\* The others leave a call and its token alone, and take nothing off the list.
LEMMA ListElsewhere ==
  ASSUME List!Parameters, ListInv, List!Elsewhere
  PROVE  ListInv'
<1> USE ListConstants DEF List!listVars, List!turnVars, List!callVars,
    List!walkVars, List!Producers
<1> SharedShape
  BY DEF ListInv
<1>1. /\ SharedShape' /\ listed' >= listed
      /\ UNCHANGED <<token, pc, at, best, bestSize, nonEmpty, left, bulk, start, seen>>
  <2>1. CASE List!CountProducer
    BY <2>1 DEF SharedShape, List!CountProducer
  <2>2. CASE List!ListProducer
    BY <2>2 DEF SharedShape, List!ListProducer
  <2>3. CASE List!TokenElsewhere
    BY <2>3 DEF SharedShape, List!TokenElsewhere
  <2>4. CASE List!TurnElsewhere
    BY <2>4 DEF SharedShape, List!TurnElsewhere
  <2>5. ASSUME NEW p \in 1 .. MaxProducers,
               List!Enqueue(p) \/ List!DequeuedElsewhere(p)
        PROVE  /\ SharedShape' /\ listed' >= listed
               /\ UNCHANGED <<token, pc, at, best, bestSize, nonEmpty, left, bulk,
                               start, seen>>
    <3>1. UNCHANGED <<producerCount, listed, nextId, globalOffset, token, pc, at, best,
                      bestSize, nonEmpty, left, bulk, start, seen>>
      BY <2>5 DEF List!Enqueue, List!DequeuedElsewhere
    <3>2. PICK m \in 0 .. MaxSize : size' = [size EXCEPT ![p] = m]
      <4>1. size[p] \in 0 .. MaxSize
        BY DEF SharedShape
      <4>2. CASE List!Enqueue(p)
        <5>1. size[p] + 1 \in 0 .. MaxSize /\ size' = [size EXCEPT ![p] = size[p] + 1]
          BY <4>1, <4>2 DEF List!Enqueue
        <5> QED BY <5>1
      <4>3. CASE List!DequeuedElsewhere(p)
        <5>1. size[p] - 1 \in 0 .. MaxSize /\ size' = [size EXCEPT ![p] = size[p] - 1]
          BY <4>1, <4>3 DEF List!DequeuedElsewhere
        <5> QED BY <5>1
      <4> QED BY <2>5, <4>2, <4>3
    <3>3. SharedShape'
      BY <3>1, <3>2 DEF SharedShape
    <3>4. listed' >= listed
      BY <3>1 DEF SharedShape
    <3> QED BY <3>1, <3>3, <3>4
  <2> QED BY <2>1, <2>2, <2>3, <2>4, <2>5 DEF List!Elsewhere
<1>4. listed \in Int /\ listed' \in Int
  BY <1>1 DEF SharedShape
<1>5. TokenShape'
  BY <1>1, <1>4 DEF ListInv, TokenShape
<1>6. CallShape'
  BY <1>1, <1>4 DEF ListInv, CallShape, Listed
<1>7. TokenInv' /\ WalkInv' /\ SeenInv'
  BY <1>1 DEF ListInv, TokenInv, WalkInv, SeenInv, Above, Between, List!Spread, List!None
<1> QED BY <1>1, <1>5, <1>6, <1>7 DEF ListInv

\* A difference of remainders, and a place n further in a list of S.
LEMMA RemaindersDiffer ==
  ASSUME NEW S \in Nat \ {0}, NEW x \in Int, NEW y \in Int
  PROVE  ((x % S) - (y % S)) % S = (x - y) % S
<1>1. x % S \in Int /\ -y \in Int
  OBVIOUS
<1>2. ((x % S) - (y % S)) % S = ((x % S) - y) % S
  BY <1>1, ModTakes
<1>3. ((x % S) + (-y)) % S = (x + (-y)) % S
  BY <1>1, ModKeeps
<1>4. (x % S) - y = (x % S) + (-y) /\ x - y = x + (-y)
  BY <1>1
<1> QED BY <1>2, <1>3, <1>4

LEMMA OnwardListed ==
  ASSUME listed \in Nat \ {0}, NEW p \in Int, NEW n \in Int
  PROVE  List!Onward(p, n) \in 1 .. listed
<1> DEFINE x == p - 1 - n
<1>1. x \in Int
  OBVIOUS
<1> HIDE DEF x
<1>2. (x % listed) \in 0 .. listed - 1
  BY <1>1
<1> QED BY <1>2 DEF List!Onward, x

LEMMA FirstPlaceIs ==
  ASSUME listed \in Nat \ {0}, producerCount = listed, token.id \in Nat
  PROVE  List!FirstPlace = ((token.id - 1 - ((-1) + 1)) % listed) + 1
<1> DEFINE x == token.id - 1
           r == x % listed
<1>1. x \in Int /\ x - ((-1) + 1) = x
  OBVIOUS
<1>2. r \in 0 .. listed - 1
  BY <1>1
<1>3. List!FirstPlace = ((listed - 1 - (listed - 1 - r)) % listed) + 1
  BY DEF List!FirstPlace, List!Onward, List!Newest
<1> HIDE DEF r
<1>4. listed - 1 - (listed - 1 - r) = r /\ r % listed = r
  BY <1>2, ModSmall
<1> QED BY <1>1, <1>3, <1>4 DEF r

LEMMA ListTokenMade ==
  ASSUME List!Parameters, ListInv, List!TokenMade
  PROVE  ListInv'
<1> USE DEF ListInv
<1> UNCHANGED <<producerCount, listed, size, globalOffset, pc, at, best,
                bestSize, nonEmpty, left, bulk, start, seen>>
  BY DEF List!TokenMade, List!listVars, List!callVars, List!walkVars
<1>1. SharedShape'
  BY DEF SharedShape, List!TokenMade
<1>a. /\ token' = [token EXCEPT !.id = nextId + 1] /\ nextId + 1 \in Nat \ {0}
      /\ token.id = 0 /\ pc = "out"
  BY DEF SharedShape, List!TokenMade, List!None
<1>b. CallShape'
  BY DEF CallShape, Listed
<1>2. /\ TokenShape' /\ token'.id # 0
      /\ token'.current = token.current /\ token'.desired = token.desired
      /\ token'.last = token.last /\ token'.placed = token.placed
  BY <1>a DEF TokenShape
<1>3. TokenInv'
  BY <1>a, <1>2 DEF TokenInv, List!Spread, List!None
<1>4. WalkInv' /\ SeenInv'
  BY <1>a, <1>2 DEF WalkInv, SeenInv
<1> QED BY <1>1, <1>b, <1>2, <1>3, <1>4

\* A call begins.
LEMMA ListDequeue ==
  ASSUME List!Parameters, ListInv, List!Dequeue
  PROVE  ListInv'
<1> USE ListConstants DEF ListInv
<1>1. PICK n \in 1 .. MaxBulk, b \in BOOLEAN :
        /\ List!Call(n, b)
        /\ \/ token.id = 0 /\ List!Walk(listed, "score", "refused")
           \/ token.id = 0 /\ List!Walk(listed, "sweep", "refused")
           \/ List!TokenDequeue(n, b)
  <2>1. 1 \in 1 .. MaxBulk
    OBVIOUS
  <2> QED BY <2>1 DEF List!Dequeue, List!try_dequeue, List!try_dequeue_bulk,
             List!TokenDequeue, List!Newest, List!None
<1>2. /\ UNCHANGED <<producerCount, listed, size, nextId, globalOffset, token, best,
                     bestSize, nonEmpty, seen>>
      /\ pc = "out" /\ left' = n /\ bulk' = b /\ start' = listed
  BY <1>1 DEF List!Call, List!listVars, List!turnVars, List!walkVars
<1>3. \/ pc' \in {"score", "sweep"} /\ at' = listed /\ listed # 0
      \/ pc' = "refused" /\ at' = listed /\ listed = 0
      \/ pc' = "place" /\ at' = at /\ token.id # 0
      \/ pc' = "current" /\ at' = at /\ token.desired # 0
  BY <1>1 DEF List!Walk, List!TokenDequeue, List!None
<1>4. SharedShape' /\ TokenShape' /\ TokenInv'
  <2>1. SharedShape' /\ TokenShape'
    BY <1>2 DEF SharedShape, TokenShape
  <2>2. TokenInv'
    BY <1>2 DEF TokenInv, List!Spread
  <2> QED BY <2>1, <2>2
<1>5. CallShape'
  <2>1. bulk' \in BOOLEAN /\ left' \in 0 .. MaxBulk /\ start' \in 0 .. listed
    BY <1>2 DEF SharedShape
  <2>2. pc' \in Places /\ at' \in 0 .. listed
    BY <1>3 DEF CallShape, SharedShape, Listed, Places
  <2> QED BY <1>2, <2>1, <2>2 DEF CallShape, Listed
<1>6. WalkInv'
  BY <1>2, <1>3 DEF WalkInv, TokenInv
<1>7. SeenInv'
  BY <1>2, <1>3 DEF WalkInv, SeenInv, SharedShape, Above
<1> QED BY <1>4, <1>5, <1>6, <1>7

\* A call ends.
LEMMA ListReturn ==
  ASSUME List!Parameters, ListInv, List!Return, SharedShape', TokenShape', TokenInv'
  PROVE  ListInv'
<1>1. /\ pc' = "out" /\ at' = 0 /\ best' = 0 /\ bestSize' = 0 /\ nonEmpty' = 0
      /\ left' = 0 /\ bulk' = FALSE /\ start' = 0
  BY DEF List!Return, List!None
<1>2. listed' \in Nat
  BY DEF SharedShape
<1>3. CallShape'
  <2>1. bulk' \in BOOLEAN /\ pc' \in Places
    BY <1>1 DEF Places
  <2> QED BY <1>1, <1>2, <2>1, ListConstants DEF CallShape, Listed
<1>4. WalkInv' /\ SeenInv'
  BY <1>1 DEF WalkInv, SeenInv
<1> QED BY <1>3, <1>4 DEF ListInv

\* Elements go, and no more.
LEMMA ListTaken ==
  ASSUME List!Parameters, SharedShape, NEW p \in 1 .. listed,
         NEW n \in Nat, n <= size[p], size' = [size EXCEPT ![p] = @ - n],
         UNCHANGED <<producerCount, listed, nextId>>,
         globalOffset' = globalOffset
  PROVE  SharedShape'
<1> DEFINE m == size[p] - n
<1>1. p \in 1 .. MaxProducers /\ size \in [1 .. MaxProducers -> 0 .. MaxSize]
  BY ListConstants DEF SharedShape
<1>2. size' = [size EXCEPT ![p] = m] /\ m \in 0 .. MaxSize
  BY <1>1, ListConstants
<1> HIDE DEF m
<1>3. size' \in [1 .. MaxProducers -> 0 .. MaxSize]
  BY <1>1, <1>2
<1> QED BY <1>3 DEF SharedShape

LEMMA ListRefused ==
  ASSUME List!Parameters, ListInv, List!Refused
  PROVE  ListInv'
<1>1. List!Return /\ UNCHANGED <<producerCount, listed, size, nextId, globalOffset, token>>
  BY DEF List!Refused, List!listVars, List!turnVars
<1>2. SharedShape' /\ TokenShape'
  BY <1>1 DEF ListInv, SharedShape, TokenShape
<1>3. TokenInv'
  BY <1>1 DEF ListInv, TokenInv, List!Spread
<1> QED BY <1>1, <1>2, <1>3, ListReturn

LEMMA ListTurn ==
  ASSUME List!Parameters, ListInv, List!Turn
  PROVE  ListInv'
<1>1. /\ List!Return /\ UNCHANGED <<producerCount, listed, size, nextId, token>>
      /\ globalOffset' = globalOffset + 1 /\ globalOffset < MaxOffset
  BY DEF List!Turn, List!listVars
<1>2. SharedShape'
  BY <1>1, ListConstants DEF ListInv, SharedShape
<1>3. TokenShape'
  BY <1>1 DEF ListInv, TokenShape
<1>4. TokenInv'
  BY <1>1 DEF ListInv, TokenInv, List!Spread
<1> QED BY <1>1, <1>2, <1>3, <1>4, ListReturn

LEMMA ListScore ==
  ASSUME List!Parameters, ListInv, List!Score
  PROVE  ListInv'
<1> USE ListConstants DEF ListInv
<1> DEFINE some == size[at] > 0
           found == nonEmpty + (IF some THEN 1 ELSE 0)
           on == IF found = 3 THEN 0 ELSE at - 1
<1>1. /\ UNCHANGED <<producerCount, listed, size, nextId, globalOffset, token, left,
                     bulk, start>>
      /\ pc = "score" /\ nonEmpty' = found
      /\ IF size[at] > bestSize THEN bestSize' = size[at] /\ best' = at
         ELSE UNCHANGED <<bestSize, best>>
      /\ seen' = IF size[at] = 0 THEN seen \cup {at} ELSE seen
      /\ at' = on
      /\ pc' = IF on # 0 THEN "score" ELSE IF found > 0 THEN "best" ELSE "refused"
  BY DEF List!Score, List!Walk, List!None, List!listVars, List!turnVars
<1>2. /\ at \in 1 .. listed /\ size[at] \in 0 .. MaxSize /\ nonEmpty \in Nat
      /\ bestSize \in 0 .. MaxSize /\ (nonEmpty > 0 \/ bestSize > 0 => best # 0)
      /\ start \in 0 .. listed
  BY <1>1 DEF WalkInv, CallShape, SharedShape, Listed
<1>3. SharedShape' /\ TokenShape' /\ TokenInv'
  BY <1>1 DEF SharedShape, TokenShape, TokenInv, List!Spread
<1>4. found \in Nat /\ (found > 0 <=> nonEmpty > 0 \/ some) /\ on \in 0 .. listed
  BY <1>2 DEF SharedShape
<1>5. bestSize' \in 0 .. MaxSize /\ best' \in 0 .. listed /\ (found > 0 \/ bestSize' > 0 => best' # 0)
  BY <1>1, <1>2, <1>4 DEF CallShape, Listed
<1>6. CallShape' /\ WalkInv'
  BY <1>1, <1>4, <1>5 DEF CallShape, WalkInv, Listed, Places
<1>7. found = 0 => \A q \in 1 .. start : at <= q => q \in seen'
  BY <1>1, <1>2 DEF SeenInv, Above
<1>8. SeenInv'
  <2>1. CASE found = 0
    <3>1. on = at - 1 /\ pc' \in {"score", "refused"}
      BY <1>1, <2>1
    <3>2. \A q \in 1 .. start : on < q => q \in seen'
      BY <1>7, <1>2, <2>1, <3>1
    <3> QED BY <1>1, <3>1, <3>2 DEF SeenInv, Above
  <2>2. CASE found # 0
    BY <1>1, <1>4, <2>2 DEF SeenInv
  <2> QED BY <2>1, <2>2
<1> QED BY <1>3, <1>6, <1>8

LEMMA ListBest ==
  ASSUME List!Parameters, ListInv, List!Best
  PROVE  ListInv'
<1> USE ListConstants DEF ListInv
<1>1. /\ UNCHANGED <<producerCount, listed, nextId, globalOffset, token>>
      /\ best \in 1 .. listed
      /\ start \in 0 .. listed
  BY DEF List!Best, List!turnVars, WalkInv, CallShape, SharedShape, Listed
<1>2. TokenShape' /\ TokenInv'
  BY <1>1 DEF TokenShape, TokenInv, List!Spread
<1>3. CASE size[best] > 0
  <2>1. List!Return /\ size' = [size EXCEPT ![best] = @ - 1] /\ 1 <= size[best]
    BY <1>1, <1>3 DEF List!Best, SharedShape
  <2>2. SharedShape'
    BY <1>1, <2>1, ListTaken
  <2> QED BY <1>2, <2>1, <2>2, ListReturn
<1>4. CASE ~(size[best] > 0)
  <2>1. /\ seen' = seen \cup {best} /\ at' = listed
        /\ pc' = "sweep"
        /\ UNCHANGED <<size, best, bestSize, nonEmpty, left, bulk, start>>
    BY <1>1, <1>4 DEF List!Best, List!Walk, List!Newest, List!None, List!walkVars, SharedShape
  <2>2. SharedShape' /\ CallShape' /\ WalkInv'
    BY <1>1, <2>1 DEF SharedShape, CallShape, WalkInv, Listed, Places
  <2>3. SeenInv'
    <3>1. \A q \in 1 .. start : q <= listed
      BY <1>1 DEF SharedShape
    <3> QED BY <1>1, <2>1, <3>1 DEF SeenInv, Above, SharedShape
  <2> QED BY <1>2, <2>2, <2>3
<1> QED BY <1>3, <1>4

\* A walk takes what it wants of the elements there are.
LEMMA GotSome ==
  ASSUME List!Parameters, SharedShape, at \in 1 .. listed, left \in Nat
  PROVE  List!Got \in Nat /\ List!Got <= left /\ List!Got <= size[at]
<1>1. size[at] \in Nat
  BY ListConstants DEF SharedShape
<1> QED BY <1>1 DEF List!Got, List!Least

LEMMA ListSweep ==
  ASSUME List!Parameters, ListInv, List!Sweep
  PROVE  ListInv'
<1> USE ListConstants DEF ListInv
<1>1. /\ UNCHANGED <<producerCount, listed, nextId, globalOffset, token>>
      /\ at \in 1 .. listed /\ start \in 0 .. listed /\ left \in 0 .. MaxBulk
      /\ pc = "sweep" /\ size' = [size EXCEPT ![at] = @ - List!Got]
  BY DEF List!Sweep, List!TakeAtPtr, List!turnVars, WalkInv, CallShape, SharedShape, Listed
<1>2. TokenShape' /\ TokenInv'
  BY <1>1 DEF TokenShape, TokenInv, List!Spread
<1>3. List!Got \in Nat /\ List!Got <= left /\ List!Got <= size[at]
  BY <1>1, GotSome
<1>4. SharedShape'
  BY <1>1, <1>3, ListTaken
<1>5. CASE List!Got = left
  <2>1. List!Return
    BY <1>5 DEF List!Sweep
  <2> QED BY <1>2, <1>4, <2>1, ListReturn
<1>6. CASE List!Got # left
  <2>1. /\ seen' = seen \cup {at} /\ left' = left - List!Got
        /\ at' = at - 1 /\ pc' = IF at - 1 = 0 THEN "refused" ELSE "sweep"
        /\ UNCHANGED <<best, bestSize, nonEmpty, bulk, start>>
    BY <1>6 DEF List!Sweep, List!Short, List!Walk, List!None, List!walkVars
  <2>2. CallShape' /\ WalkInv'
    BY <1>1, <1>3, <2>1 DEF SharedShape, CallShape, WalkInv, Listed, Places
  <2>3. SeenInv'
    BY <1>1, <2>1 DEF SeenInv, Above, SharedShape
  <2> QED BY <1>2, <1>4, <2>2, <2>3
<1> QED BY <1>5, <1>6

LEMMA ListSweepPast ==
  ASSUME List!Parameters, ListInv, List!SweepPast
  PROVE  ListInv'
<1> USE ListConstants DEF ListInv
<1>1. /\ UNCHANGED <<producerCount, listed, size, nextId, globalOffset, token, best,
                     bestSize, nonEmpty, left, bulk, start, seen>>
      /\ at \in 1 .. listed /\ start \in 0 .. listed
      /\ pc = "sweep" /\ at = best /\ at' = at - 1
      /\ pc' = IF at - 1 = 0 THEN "refused" ELSE "sweep"
  BY DEF List!SweepPast, List!Walk, List!None, List!listVars, List!turnVars,
     List!walkVars, WalkInv, CallShape, SharedShape, Listed
<1>2. SharedShape' /\ TokenShape' /\ TokenInv'
  BY <1>1 DEF SharedShape, TokenShape, TokenInv, List!Spread
<1>3. CallShape' /\ WalkInv'
  BY <1>1 DEF SharedShape, CallShape, WalkInv, Listed, Places
<1>4. SeenInv'
  BY <1>1 DEF SeenInv, Above, SharedShape
<1> QED BY <1>2, <1>3, <1>4

LEMMA ListPlace ==
  ASSUME List!Parameters, ListInv, List!Place
  PROVE  ListInv'
<1> USE ListConstants DEF ListInv
<1> DEFINE from == IF token.desired = 0 THEN List!FirstPlace ELSE token.desired
           p == List!Onward(from, List!TurnsMissed)
           same == producerCount = listed /\ (token.desired = 0 \/ token.placed = listed)
<1>1. /\ UNCHANGED <<producerCount, listed, size, nextId, globalOffset, at, best,
                     bestSize, nonEmpty, left, bulk, start, seen>>
      /\ pc = "place" /\ pc' = "current"
      /\ listed \in Nat \ {0} /\ producerCount \in Nat \ {0} /\ globalOffset \in Nat
      /\ token.id \in Nat \ {0} /\ token.last \in Int /\ token.desired \in Nat
  <2>1. /\ UNCHANGED <<producerCount, listed, size, nextId, globalOffset, at, best,
                       bestSize, nonEmpty, left, bulk, start, seen>>
        /\ pc = "place" /\ pc' = "current" /\ listed > 0
    BY DEF List!Place, List!listVars, List!turnVars, List!walkVars
  <2>2. listed \in Nat \ {0} /\ producerCount \in Nat \ {0} /\ globalOffset \in Nat
    BY <2>1 DEF SharedShape
  <2>3. token.id \in Nat \ {0} /\ token.last \in Int /\ token.desired \in Nat
    BY <2>1 DEF TokenShape, WalkInv
  <2> QED BY <2>1, <2>2, <2>3
<1>2. token' = [token EXCEPT !.desired = p, !.current = p, !.last = globalOffset,
                  !.consumed = 0, !.placed = IF same THEN listed ELSE 0]
  BY DEF List!Place, List!Placed, List!None
<1>3. from \in Int /\ List!TurnsMissed \in Int
  <2>1. List!FirstPlace \in Int
    <3> DEFINE x == token.id - 1
               r == x % producerCount
    <3>1. x \in Int
      BY <1>1
    <3>2. r \in Int
      BY <1>1, <3>1
    <3> HIDE DEF r
    <3>3. listed \in Int /\ producerCount - 1 - r \in Int
      BY <1>1, <3>2
    <3> QED BY <1>1, <3>3, OnwardListed DEF List!FirstPlace, List!Newest, r
  <2>2. List!TurnsMissed \in Int
    BY <1>1 DEF List!TurnsMissed
  <2> QED BY <1>1, <2>1, <2>2
<1>4. p \in 1 .. listed
  BY <1>1, <1>3, OnwardListed
<1> HIDE DEF p
<1>5. /\ TokenShape' /\ token'.desired = p /\ token'.current = p /\ token'.id = token.id
      /\ token'.last = globalOffset /\ token'.placed = IF same THEN listed ELSE 0
  <2> DEFINE m == IF same THEN listed ELSE 0
  <2>1. m \in 0 .. MaxProducers /\ listed <= MaxProducers
    BY <1>1 DEF SharedShape
  <2>2. token' = [token EXCEPT !.desired = p, !.current = p, !.last = globalOffset,
                    !.consumed = 0, !.placed = m]
    BY <1>2
  <2> HIDE DEF m
  <2>3. /\ TokenShape' /\ token'.desired = p /\ token'.current = p
        /\ token'.id = token.id /\ token'.last = globalOffset /\ token'.placed = m
    <3>1. /\ p \in 0 .. MaxProducers /\ p <= listed /\ globalOffset \in Int
          /\ 0 \in 0 .. Quota + 1 /\ listed' = listed
      BY <1>1, <1>4, <2>1
    <3>2. TokenShape
      OBVIOUS
    <3> HIDE DEF ListInv
    <3> QED BY <2>1, <2>2, <3>1, <3>2 DEF TokenShape
  <2> QED BY <2>3 DEF m
<1>6. ASSUME same
      PROVE  p = ((token.id - 1 - (globalOffset + 1)) % listed) + 1
  <2>1. from = ((token.id - 1 - (token.last + 1)) % listed) + 1
    <3>1. CASE token.desired = 0
      BY <1>1, <1>6, <3>1, FirstPlaceIs DEF TokenInv
    <3>2. CASE token.desired # 0
      BY <1>1, <1>6, <3>2 DEF TokenInv, List!Spread, List!None
    <3> QED BY <3>1, <3>2
  <2>2. List!TurnsMissed = (globalOffset - token.last) % listed
    BY <1>6 DEF List!TurnsMissed
  <2>3. p = ((from - 1 - List!TurnsMissed) % listed) + 1
    BY DEF p, List!Onward
  \* To follow some of the turns and then the rest is to follow all of them.
  <2> DEFINE x == token.id - 1 - (token.last + 1)
             y == globalOffset - token.last
  <2>4. x \in Int /\ y \in Int /\ x - y = token.id - 1 - (globalOffset + 1)
    BY <1>1
  <2> HIDE DEF from, x, y
  <2>5. x % listed \in Int /\ from = (x % listed) + 1 /\ List!TurnsMissed = y % listed
    BY <1>1, <2>1, <2>2, <2>4 DEF x, y
  <2>6. ((x % listed) - (y % listed)) % listed = (x - y) % listed
    BY <1>1, <2>4, RemaindersDiffer
  <2>7. from - 1 = x % listed
    BY <2>5
  <2> QED BY <2>3, <2>4, <2>5, <2>6, <2>7
<1>7. TokenInv'
  BY <1>1, <1>4, <1>5, <1>6 DEF TokenInv, List!Spread, List!None
<1>8. SharedShape' /\ CallShape'
  BY <1>1 DEF SharedShape, CallShape, Listed, Places
<1>9. WalkInv' /\ SeenInv'
  BY <1>1, <1>4, <1>5 DEF WalkInv, SeenInv
<1> QED BY <1>5, <1>7, <1>8, <1>9

LEMMA ListNoPlace ==
  ASSUME List!Parameters, ListInv, List!NoPlace
  PROVE  ListInv'
<1> USE ListConstants DEF ListInv
<1>1. /\ UNCHANGED <<producerCount, listed, size, nextId, globalOffset, token, at, best,
                     bestSize, nonEmpty, left, bulk, start, seen>>
      /\ pc = "place" /\ pc' = "refused" /\ listed = 0
  BY DEF List!NoPlace, List!listVars, List!turnVars, List!walkVars
<1>2. SharedShape' /\ TokenShape' /\ TokenInv' /\ WalkInv'
  BY <1>1 DEF SharedShape, TokenShape, TokenInv, WalkInv, List!Spread
<1>3. CallShape' /\ start = 0
  BY <1>1 DEF CallShape, Listed, Places
<1>4. SeenInv'
  BY <1>1, <1>3 DEF SeenInv
<1> QED BY <1>2, <1>3, <1>4

\* The next in the circle; and what is between the one at hand and that.
LEMMA AfterListed ==
  ASSUME NEW T \in Nat, NEW p \in 1 .. T, NEW c
  PROVE  List!After(p, T, c) \in 1 .. T
BY DEF List!After

LEMMA ListCurrent ==
  ASSUME List!Parameters, ListInv, List!Current
  PROVE  ListInv'
<1> USE ListConstants DEF ListInv
<1> DEFINE p == token.current
           n == List!Least(left, size[p])
           c == List!Least(token.consumed + n, Quota + 1)
           a == List!After(p, listed, p)
<1>1. /\ UNCHANGED <<producerCount, listed, nextId, globalOffset>>
      /\ pc = "current" /\ p \in 1 .. listed /\ left \in 0 .. MaxBulk
      /\ listed \in Nat /\ listed <= MaxProducers /\ start \in 0 .. listed
      /\ size' = [size EXCEPT ![p] = @ - n]
      /\ token' = [token EXCEPT !.consumed = c]
  <2>1. /\ pc = "current" /\ UNCHANGED <<producerCount, listed, nextId, globalOffset>>
        /\ size' = [size EXCEPT ![p] = @ - n]
        /\ token' = [token EXCEPT !.consumed = c]
    BY DEF List!Current, List!turnVars
  <2>2. p \in 1 .. listed /\ listed \in Nat /\ listed <= MaxProducers
    <3>1. p # 0
      BY <2>1 DEF WalkInv
    <3>2. p \in 0 .. MaxProducers /\ p <= listed
      BY DEF TokenShape
    <3>3. listed \in 0 .. MaxProducers
      BY DEF SharedShape
    <3> HIDE DEF p
    <3> QED BY <3>1, <3>2, <3>3
  <2>3. left \in 0 .. MaxBulk /\ start \in 0 .. listed
    BY DEF CallShape, Listed
  <2> QED BY <2>1, <2>2, <2>3
<1>2. n \in Nat /\ n <= left /\ n <= size[p] /\ size[p] \in Nat
  <2>1. size[p] \in Nat
    BY <1>1 DEF SharedShape
  <2> QED BY <1>1, <2>1 DEF List!Least
<1>3. \/ /\ n < left /\ seen' = seen \cup {p} /\ left' = left - n /\ best' = listed
         /\ at' = a /\ pc' = (IF a = p THEN "refused" ELSE "others")
         /\ UNCHANGED <<bestSize, nonEmpty, bulk, start>>
      \/ pc' = "turn" /\ UNCHANGED <<at, best, bestSize, nonEmpty, left, bulk, start, seen>>
      \/ List!Return
  BY DEF List!Current, List!Onto, List!Newest, List!walkVars
<1> HIDE DEF n
<1>4. SharedShape'
  BY <1>1, <1>2, ListTaken
<1>5. /\ TokenShape' /\ token'.current = p /\ token'.desired = token.desired
      /\ token'.last = token.last /\ token'.placed = token.placed /\ token'.id = token.id
  <2>1. token.consumed + n \in Nat /\ Quota + 1 \in Nat
    BY <1>2 DEF TokenShape
  <2>2. c \in 0 .. Quota + 1
    BY <2>1 DEF List!Least
  <2> HIDE DEF c
  <2> QED BY <1>1, <2>2 DEF TokenShape
<1>6. TokenInv'
  BY <1>5 DEF TokenInv, List!Spread
<1>7. CASE List!Return
  BY <1>4, <1>5, <1>6, <1>7, ListReturn
<1>8. CASE pc' = "turn" /\ UNCHANGED <<at, best, bestSize, nonEmpty, left, bulk, start, seen>>
  BY <1>1, <1>4, <1>5, <1>6, <1>8 DEF CallShape, WalkInv, SeenInv, Listed, Places
<1>9. CASE /\ n < left /\ seen' = seen \cup {p} /\ left' = left - n /\ best' = listed
           /\ at' = a /\ pc' = (IF a = p THEN "refused" ELSE "others")
           /\ UNCHANGED <<bestSize, nonEmpty, bulk, start>>
  <2>1. a \in 1 .. listed /\ a = IF p = 1 THEN listed ELSE p - 1
    BY <1>1, AfterListed DEF List!After
  <2> HIDE DEF a
  <2>2. CallShape'
    BY <1>1, <1>2, <1>9, <2>1 DEF CallShape, Listed, Places
  <2>3. WalkInv'
    BY <1>1, <1>9, <2>1 DEF WalkInv
  <2>4. CASE a = p
    <3>1. listed = 1
      BY <1>1, <2>1, <2>4
    <3> QED BY <1>1, <1>4, <1>5, <1>6, <1>9, <2>2, <2>3, <2>4, <3>1 DEF SeenInv
  <2>5. CASE a # p
    <3>1. \A q \in 1 .. listed :
            (IF a < p THEN a < q /\ q <= p ELSE a < q \/ q <= p) => q = p
      BY <1>1, <2>1, <2>5
    <3>2. SeenInv'
      BY <1>1, <1>5, <1>9, <2>1, <2>5, <3>1 DEF SeenInv, Between
    <3> QED BY <1>4, <1>5, <1>6, <2>2, <2>3, <3>2
  <2> QED BY <2>4, <2>5
<1> QED BY <1>3, <1>7, <1>8, <1>9

LEMMA ListOthers ==
  ASSUME List!Parameters, ListInv, List!Others
  PROVE  ListInv'
<1> USE ListConstants DEF ListInv
<1> DEFINE a == List!After(at, best, token'.current)
           c == token.current
           d == token'.current
           g == List!Got
<1>1. /\ UNCHANGED <<producerCount, listed, nextId, globalOffset>>
      /\ pc = "others" /\ at \in 1 .. best /\ c \in 1 .. best /\ at # c
      /\ best \in Nat /\ best <= listed /\ listed <= MaxProducers /\ listed \in Nat
      /\ left \in 0 .. MaxBulk /\ start \in 0 .. best
      /\ \A q \in 1 .. best : Between(q) => q \in seen
  <2>1. pc = "others" /\ UNCHANGED <<producerCount, listed, nextId, globalOffset>>
    BY DEF List!Others, List!turnVars
  <2>2. /\ best \in Nat /\ best <= listed /\ listed <= MaxProducers /\ listed \in Nat
        /\ left \in 0 .. MaxBulk /\ start \in Nat /\ at \in Nat
    BY DEF CallShape, SharedShape, Listed
  <2>3. /\ at # 0 /\ start <= best /\ at <= best /\ c \in 1 .. best /\ at # c
        /\ \A q \in 1 .. best : Between(q) => q \in seen
    BY <2>1 DEF WalkInv, SeenInv
  <2> HIDE DEF c
  <2> QED BY <2>1, <2>2, <2>3
<1>2. g \in Nat /\ g <= left /\ g <= size[at]
  <2>1. at \in 1 .. listed /\ left \in Nat
    BY <1>1
  <2> QED BY <2>1, GotSome
<1>3. /\ size' = [size EXCEPT ![at] = @ - g]
      /\ token' = IF g = 0 THEN token
                  ELSE [token EXCEPT !.current = at, !.consumed = List!Least(g, Quota + 1)]
      /\ \/ g = left /\ List!Return
         \/ /\ g # left /\ seen' = seen \cup {at} /\ left' = left - g
            /\ at' = a /\ pc' = (IF a = d THEN "refused" ELSE "others")
            /\ UNCHANGED <<best, bestSize, nonEmpty, bulk, start>>
  BY DEF List!Others, List!TakeAtPtr, List!Short, List!Onto, List!walkVars
<1> HIDE DEF g
<1>4. SharedShape'
  <2>1. at \in 1 .. listed
    BY <1>1
  <2> QED BY <1>1, <1>2, <1>3, <2>1, ListTaken
<1>5. /\ TokenShape' /\ d = (IF g = 0 THEN c ELSE at) /\ token'.desired = token.desired
      /\ token'.last = token.last /\ token'.placed = token.placed /\ token'.id = token.id
  <2>1. List!Least(g, Quota + 1) \in 0 .. Quota + 1
    BY <1>2 DEF List!Least
  <2>2. CASE g = 0
    BY <1>1, <1>3, <2>2 DEF TokenShape
  <2>3. CASE g # 0
    <3> DEFINE m == List!Least(g, Quota + 1)
    <3>1. token' = [token EXCEPT !.current = at, !.consumed = m]
      BY <1>3, <2>3
    <3> HIDE DEF m
    <3>2. m \in 0 .. Quota + 1 /\ at \in 0 .. MaxProducers /\ at <= listed
      BY <1>1, <2>1 DEF m
    <3> QED BY <1>1, <2>3, <3>1, <3>2 DEF TokenShape
  <2> QED BY <2>2, <2>3
<1>6. TokenInv'
  BY <1>1, <1>5 DEF TokenInv, List!Spread
<1>7. CASE g = left /\ List!Return
  BY <1>4, <1>5, <1>6, <1>7, ListReturn
<1>8. CASE /\ g # left /\ seen' = seen \cup {at} /\ left' = left - g
           /\ at' = a /\ pc' = (IF a = d THEN "refused" ELSE "others")
           /\ UNCHANGED <<best, bestSize, nonEmpty, bulk, start>>
  <2>1. a \in 1 .. best /\ a = IF at = 1 THEN best ELSE at - 1
    BY <1>1, AfterListed DEF List!After
  <2> HIDE DEF a
  <2>2. CallShape'
    BY <1>1, <1>2, <1>8, <2>1 DEF CallShape, Listed, Places
  <2>3. WalkInv'
    BY <1>1, <1>8, <2>1 DEF WalkInv
  \* Between the one at hand and the next there is the one just tried beside
  \* those before; if they are the same, that is all.
  <2>4. \A q \in 1 .. best :
          \/ a = d
          \/ IF a < d THEN a < q /\ q <= d ELSE a < q \/ q <= d
          => Between(q) \/ q = at
    BY <1>1, <1>5, <2>1 DEF Between
  <2>5. \A q \in 1 .. best :
          \/ a = d
          \/ IF a < d THEN a < q /\ q <= d ELSE a < q \/ q <= d
          => q \in seen'
    BY <1>1, <1>8, <2>4
  <2>6. d \in 1 .. best
    BY <1>1, <1>5
  <2>7. SeenInv'
    <3>1. CASE a = d
      BY <1>1, <1>8, <2>5, <3>1 DEF SeenInv
    <3>2. CASE a # d
      BY <1>1, <1>8, <2>1, <2>5, <2>6, <3>2 DEF SeenInv, Between
    <3> QED BY <3>1, <3>2
  <2> QED BY <1>4, <1>5, <1>6, <2>2, <2>3, <2>7
<1> QED BY <1>3, <1>7, <1>8

\* The invariant holds from the start, and every step keeps it.
LEMMA ListInvHolds ==
  ASSUME List!Parameters PROVE List!Spec => []ListInv
<1>1. ASSUME List!Init PROVE ListInv
  <2> USE <1>1, ListConstants DEF List!Init, List!None
  <2>1. SharedShape
    BY DEF SharedShape, List!Producers
  <2>2. TokenShape
    BY DEF TokenShape, List!NoToken
  <2>3. bulk \in BOOLEAN /\ pc \in Places
    BY DEF Places
  <2>4. CallShape
    BY <2>3 DEF CallShape, Listed
  <2>5. TokenInv
    BY DEF TokenInv, List!NoToken, List!Spread
  <2>6. WalkInv /\ SeenInv
    BY DEF WalkInv, SeenInv
  <2> QED BY <2>1, <2>2, <2>4, <2>5, <2>6 DEF ListInv
<1>2. ASSUME ListInv, List!Next PROVE ListInv'
  BY <1>2, ListElsewhere, ListTokenMade, ListDequeue, ListScore, ListBest, ListSweep,
     ListSweepPast, ListRefused, ListPlace, ListNoPlace, ListCurrent, ListTurn,
     ListOthers DEF List!Next
<1>3. ASSUME ListInv, UNCHANGED List!vars PROVE ListInv'
  BY <1>3 DEF List!vars, List!listVars, List!turnVars, List!callVars, List!walkVars,
     ListInv, SharedShape, TokenShape, CallShape, TokenInv, WalkInv, SeenInv, Above,
     Between, List!Spread, Listed
<1> QED BY <1>1, <1>2, <1>3, PTL DEF List!Spec

\* The numbers stay in their bounds, a place is a producer that is listed, and
\* a producer is counted before it is listed.
THEOREM ListTypesHold ==
  ASSUME List!Parameters PROVE List!Spec => []List!TypeOK
<1>1. ASSUME ListInv PROVE List!TypeOK
  BY <1>1, ListConstants DEF ListInv, SharedShape, TokenShape, CallShape, Listed,
     List!TypeOK, List!Producers
<1> QED BY <1>1, ListInvHolds, PTL

\* A call that returns less than was asked for has found each producer that was
\* listed at its start without enough, wherever it began and however elements,
\* turns and the list have changed meanwhile.
THEOREM ListRefusalJustified ==
  ASSUME List!Parameters PROVE List!Spec => []List!RefusalJustified
<1>1. ASSUME ListInv PROVE List!RefusalJustified
  BY <1>1 DEF ListInv, SeenInv, List!RefusalJustified
<1> QED BY <1>1, ListInvHolds, PTL

\* A token's place among the same producers depends on its id and on the turns
\* there were, not on how many of them it followed at once: the tokens of as
\* many consumers as there are producers stay with one each.
THEOREM ListSpread ==
  ASSUME List!Parameters PROVE List!Spec => []List!Spread
<1>1. ASSUME ListInv PROVE List!Spread
  BY <1>1 DEF ListInv, TokenInv
<1> QED BY <1>1, ListInvHolds, PTL

-----------------------------------------------------------------------------
(***************************************************************************)
(* The life of queues.                                                     *)
(***************************************************************************)

CONSTANTS Queues, Tables, Producers

VARIABLES
  alive, members, parent, explicit, listener, newest, prev, entries, made,
  producerOf, tokenOf

Life == INSTANCE QueueLife WITH
  list <- members, isExplicit <- explicit, owner <- listener, hash <- newest,
  producer <- producerOf, token <- tokenOf

All == Queues \cup Tables

\* Each table in use is at home in a queue that is alive, and has a rank there
\* that says how many came before it; the one that is part of the queue is the
\* first, and every other comes next to the one it points to.
NextTo(V, home, rank, h) ==
  /\ V[h] \in All /\ home[V[h]] = home[h] /\ rank[V[h]] < rank[h]
  /\ \A g \in All : home[g] = home[h] =>
       g = h \/ rank[g] <= rank[V[h]] \/ rank[g] > rank[h]
Laid(A, H, V, home, rank) ==
  /\ home \in [All -> Queues \cup {Null}] /\ rank \in [All -> Nat]
  /\ \A q \in Queues :
       rank[q] = 0 /\ V[q] = Null /\ home[q] = IF q \in A THEN q ELSE Null
  /\ \A h \in Tables : IF home[h] = Null THEN V[h] = Null
                       ELSE home[h] \in A /\ NextTo(V, home, rank, h)
  /\ \A q \in A : /\ H[q] \in All /\ home[H[q]] = q
                  /\ \A g \in All : home[g] = q => rank[g] <= rank[H[q]]

\* The tables from h on.
From(home, rank, h) ==
  {h} \cup {g \in All : home[h] # Null /\ home[g] = home[h] /\ rank[g] <= rank[h]}
Search(V, f) ==
  f = [h \in All \cup {Null} |-> IF h = Null THEN {} ELSE {h} \cup f[V[h]]]

LEMMA FromStep ==
  ASSUME Life!Parameters, NEW A \in SUBSET Queues, NEW H, NEW V, NEW home, NEW rank,
         Laid(A, H, V, home, rank), NEW h \in All
  PROVE  \/ V[h] = Null /\ From(home, rank, h) = {h}
         \/ /\ V[h] \in All /\ rank[V[h]] < rank[h]
            /\ From(home, rank, h) = {h} \cup From(home, rank, V[h])
<1>1. /\ home \in [All -> Queues \cup {Null}] /\ rank \in [All -> Nat]
      /\ Null \notin All /\ A \subseteq Queues /\ Queues \subseteq All
  BY DEF Laid, Life!Parameters, All
<1>2. CASE h \in Queues
  <2>1. /\ rank[h] = 0 /\ V[h] = Null /\ home[h] \in {h, Null}
        /\ \A g \in Queues : home[g] \in {g, Null}
        /\ \A g \in Tables : home[g] # Null => rank[g] > 0
    <3>1. /\ rank[h] = 0 /\ V[h] = Null /\ home[h] \in {h, Null}
          /\ \A g \in Queues : home[g] \in {g, Null}
      BY <1>2 DEF Laid
    <3>2. ASSUME NEW g \in Tables, home[g] # Null PROVE rank[g] > 0
      <4>1. V[g] \in All /\ rank[V[g]] < rank[g] /\ g \in All
        BY <3>2 DEF Laid, NextTo, All
      <4> QED BY <1>1, <4>1
    <3> QED BY <3>1, <3>2
  <2>2. ASSUME NEW g \in All, home[h] # Null, home[g] = home[h], rank[g] <= rank[h]
        PROVE  g = h
    BY <1>1, <2>1, <2>2 DEF All
  <2> QED BY <2>1, <2>2 DEF From
<1>3. CASE h \in Tables /\ home[h] = Null
  BY <1>3 DEF Laid, From
<1>4. CASE h \in Tables /\ home[h] # Null
  <2>1. NextTo(V, home, rank, h)
    BY <1>4 DEF Laid
  <2>2. V[h] \in All /\ rank[V[h]] < rank[h]
    BY <2>1 DEF NextTo
  <2>3. ASSUME NEW g \in All, home[g] = home[h]
        PROVE  rank[g] <= rank[h] <=> g = h \/ rank[g] <= rank[V[h]]
    <3>1. g = h \/ rank[g] <= rank[V[h]] \/ rank[g] > rank[h]
      BY <2>1, <2>3 DEF NextTo
    <3>2. rank[g] \in Nat /\ rank[h] \in Nat /\ rank[V[h]] \in Nat
      BY <1>1, <2>2
    <3> QED BY <2>2, <3>1, <3>2
  <2>4. home[V[h]] = home[h]
    BY <2>1 DEF NextTo
  <2>5. From(home, rank, h) = {h} \cup From(home, rank, V[h])
    <3>1. rank[V[h]] \in Nat
      BY <1>1, <2>2
    <3> QED BY <1>4, <2>2, <2>3, <2>4, <3>1 DEF From
  <2> QED BY <2>2, <2>5
<1> QED BY <1>2, <1>3, <1>4 DEF All

\* What a search from the newest table of q goes through: the tables at home there.
LEMMA ChainIs ==
  ASSUME Life!Parameters, alive \in SUBSET Queues, NEW home, NEW rank,
         Laid(alive, newest, prev, home, rank), NEW q \in alive
  PROVE  Life!Chain(q) = {h \in All : home[h] = q}
<1> DEFINE C == [h \in All \cup {Null} |-> IF h = Null THEN {} ELSE From(home, rank, h)]
<1>1. /\ home \in [All -> Queues \cup {Null}] /\ rank \in [All -> Nat]
      /\ Null \notin All /\ alive \subseteq Queues
  BY DEF Laid, Life!Parameters, All
<1>2. Search(prev, C)
  <2>1. ASSUME NEW h \in All
        PROVE  From(home, rank, h) = {h} \cup C[prev[h]]
    <3>1. CASE prev[h] = Null /\ From(home, rank, h) = {h}
      BY <3>1
    <3>2. CASE prev[h] \in All /\ From(home, rank, h) = {h} \cup From(home, rank, prev[h])
      BY <1>1, <3>2
    <3> HIDE DEF C
    <3> QED BY <3>1, <3>2, FromStep
  <2>2. C = [h \in All \cup {Null} |-> IF h = Null THEN {} ELSE From(home, rank, h)]
    OBVIOUS
  <2> HIDE DEF C
  <2>3. [h \in All \cup {Null} |-> IF h = Null THEN {} ELSE From(home, rank, h)]
          = [h \in All \cup {Null} |-> IF h = Null THEN {} ELSE {h} \cup C[prev[h]]]
    BY <1>1, <2>1
  <2> QED BY <2>2, <2>3 DEF Search
<1>3. ASSUME NEW f, Search(prev, f), NEW g \in All
      PROVE  f[g] = From(home, rank, g)
  <2> DEFINE N == {n \in Nat : \A h \in All : rank[h] < n => f[h] = From(home, rank, h)}
  <2>1. 0 \in N
    BY <1>1
  <2>2. ASSUME NEW n \in Nat, n \in N PROVE n + 1 \in N
    <3>1. ASSUME NEW h \in All, rank[h] < n + 1 PROVE f[h] = From(home, rank, h)
      <4>1. f[h] = {h} \cup f[prev[h]] /\ f[Null] = {}
        BY <1>1, <1>3 DEF Search
      <4>2. CASE prev[h] = Null /\ From(home, rank, h) = {h}
        BY <4>1, <4>2
      <4>3. CASE /\ prev[h] \in All /\ rank[prev[h]] < rank[h]
                 /\ From(home, rank, h) = {h} \cup From(home, rank, prev[h])
        <5>1. rank[prev[h]] < n
          BY <1>1, <3>1, <4>3
        <5>2. f[prev[h]] = From(home, rank, prev[h])
          BY <2>2, <4>3, <5>1
        <5> QED BY <4>1, <4>3, <5>2
      <4> QED BY <4>2, <4>3, FromStep
    <3> QED BY <3>1
  <2>3. rank[g] + 1 \in Nat /\ rank[g] < rank[g] + 1
    BY <1>1
  <2>4. rank[g] + 1 \in N
    <3> HIDE DEF N
    <3> QED BY <2>1, <2>2, <2>3, SetInduction
  <2> QED BY <2>3, <2>4
<1>4. \E f : Search(prev, f) /\ Life!Chain(q) = f[newest[q]]
  <2> HIDE DEF C
  <2>1. \E f : f = [h \in All \cup {Null} |-> IF h = Null THEN {} ELSE {h} \cup f[prev[h]]]
    BY <1>2 DEF Search
  <2> QED BY <2>1 DEF Life!Chain, Life!AllTables, Search, All
<1>5. newest[q] \in All /\ home[newest[q]] = q
      /\ \A g \in All : home[g] = q => rank[g] <= rank[newest[q]]
  BY DEF Laid
<1>6. Life!Chain(q) = From(home, rank, newest[q])
  BY <1>3, <1>4, <1>5
<1>7. q # Null
  BY <1>1 DEF All
<1> QED BY <1>5, <1>6, <1>7 DEF From

\* What a table in use has for a thread is that thread's producer in the list of
\* the queue; and each producer that listens to a thread is in some table of its queue.
Entered(E, L, W, home) ==
  /\ \A h \in All : home[h] = Null => E[h] = Life!NoEntries
  /\ \A h \in All, t \in Threads : home[h] # Null /\ E[h][t] # Null =>
       E[h][t] \in L[home[h]] /\ W[E[h][t]] = t
  /\ \A q \in Queues : \A p \in L[q] : W[p] # Null =>
       \E h \in All : home[h] = q /\ E[h][W[p]] = p

\* A queue that is constructed has its first table, and nothing in it.
LEMMA LaidAdded ==
  ASSUME Life!Parameters, NEW A \in SUBSET Queues, NEW H \in [Queues -> All \cup {Null}],
         NEW V, NEW home, NEW rank, Laid(A, H, V, home, rank),
         NEW q \in Queues, q \notin A
  PROVE  Laid(A \cup {q}, [H EXCEPT ![q] = q], V, [home EXCEPT ![q] = q], rank)
<1> DEFINE B == A \cup {q}
           I == [H EXCEPT ![q] = q]
           new == [home EXCEPT ![q] = q]
<1>1. /\ home \in [All -> Queues \cup {Null}] /\ rank \in [All -> Nat]
      /\ Null \notin All /\ q \in All /\ Queues \cap Tables = {}
      /\ home[q] = Null /\ Null \notin A
      /\ \A h \in All : home[h] # q
  BY DEF Laid, Life!Parameters, All
<1>2. /\ new \in [All -> Queues \cup {Null}] /\ new[q] = q
      /\ \A h \in All : h # q => new[h] = home[h]
  BY <1>1
<1>3. I[q] = q /\ \A p \in Queues : p # q => I[p] = H[p]
  OBVIOUS
<1> HIDE DEF new, I
<1>4. \A p \in Queues : rank[p] = 0 /\ V[p] = Null /\ new[p] = IF p \in B THEN p ELSE Null
  BY <1>1, <1>2 DEF Laid, All
<1>5. ASSUME NEW h \in Tables
      PROVE  IF new[h] = Null THEN V[h] = Null
             ELSE new[h] \in B /\ NextTo(V, new, rank, h)
  <2>1. h # q /\ h \in All /\ new[h] = home[h]
    BY <1>1, <1>2 DEF All
  <2>2. CASE home[h] = Null
    BY <2>1, <2>2 DEF Laid
  <2>3. CASE home[h] # Null
    <3>1. home[h] \in A /\ NextTo(V, home, rank, h)
      BY <2>3 DEF Laid
    <3>2. V[h] # q
      BY <1>1, <2>1, <3>1 DEF NextTo
    <3>3. NextTo(V, new, rank, h)
      BY <1>1, <1>2, <2>1, <3>1, <3>2 DEF NextTo
    <3> QED BY <2>1, <2>3, <3>1, <3>3
  <2> QED BY <2>2, <2>3
<1>6. ASSUME NEW p \in B
      PROVE  /\ I[p] \in All /\ new[I[p]] = p
             /\ \A g \in All : new[g] = p => rank[g] <= rank[I[p]]
  <2>1. CASE p = q
    BY <1>1, <1>2, <1>3, <2>1
  <2>2. CASE p # q
    <3>1. /\ H[p] \in All /\ home[H[p]] = p
          /\ \A g \in All : home[g] = p => rank[g] <= rank[H[p]]
      BY <2>2 DEF Laid
    <3> QED BY <1>1, <1>2, <1>3, <2>2, <3>1
  <2> QED BY <2>1, <2>2
<1> QED BY <1>1, <1>2, <1>4, <1>5, <1>6 DEF Laid, new, I

\* A renaming of queues, which takes their first tables along.
Renames(s, A) ==
  /\ s \in [All \cup {Null} -> All \cup {Null}]
  /\ \A x \in All \cup {Null} : s[s[x]] = x
  /\ s[Null] = Null /\ \A h \in Tables : s[h] = h
  /\ \A q \in Queues : s[q] \in Queues /\ (s[q] \in A <=> q \in A)

LEMMA LaidRenamed ==
  ASSUME Life!Parameters, NEW A \in SUBSET Queues, NEW H, NEW V, NEW home, NEW rank,
         Laid(A, H, V, home, rank), NEW s, Renames(s, A),
         NEW I, \A q \in A : I[q] = s[H[s[q]]],
         NEW U, \A h \in All : U[h] = s[V[s[h]]],
         NEW new, new = [h \in All |-> s[home[s[h]]]]
  PROVE  Laid(A, I, U, new, rank)
<1>1. /\ home \in [All -> Queues \cup {Null}] /\ rank \in [All -> Nat]
      /\ Null \notin All /\ Queues \cap Tables = {}
      /\ \A h \in All : s[h] \in All /\ s[s[h]] = h /\ rank[s[h]] = rank[h]
      /\ \A x \in Queues \cup {Null} : s[x] \in Queues \cup {Null} /\ s[s[x]] = x
      /\ s[Null] = Null
  <2>1. \A h \in All : s[h] \in All /\ s[s[h]] = h /\ rank[s[h]] = rank[h]
    BY DEF Laid, Renames, Life!Parameters, All
  <2> QED BY <2>1 DEF Laid, Renames, Life!Parameters, All
<1>2. new \in [All -> Queues \cup {Null}]
  BY <1>1
<1>3. \A q \in Queues : rank[q] = 0 /\ U[q] = Null /\ new[q] = IF q \in A THEN q ELSE Null
  BY <1>1 DEF Laid, Renames, All
<1>4. ASSUME NEW h \in Tables
      PROVE  IF new[h] = Null THEN U[h] = Null
             ELSE new[h] \in A /\ NextTo(U, new, rank, h)
  <2>1. h \in All /\ s[h] = h /\ new[h] = s[home[h]] /\ U[h] = s[V[h]]
    BY DEF Renames, All
  <2>2. CASE home[h] = Null
    BY <1>1, <2>1, <2>2 DEF Laid
  <2>3. CASE home[h] # Null
    <3>1. home[h] \in A /\ NextTo(V, home, rank, h)
      BY <2>3 DEF Laid
    <3>2. new[h] \in A /\ new[h] # Null
      BY <1>1, <2>1, <3>1 DEF Renames, All
    <3>3. V[h] \in All /\ home[V[h]] = home[h] /\ rank[V[h]] < rank[h]
      BY <3>1 DEF NextTo
    <3>4. U[h] \in All /\ new[U[h]] = new[h] /\ rank[U[h]] = rank[V[h]]
      BY <1>1, <2>1, <3>3
    <3>5. ASSUME NEW g \in All, new[g] = new[h]
          PROVE  g = h \/ rank[g] <= rank[U[h]] \/ rank[g] > rank[h]
      <4>1. s[g] \in All /\ home[s[g]] = home[h] /\ rank[s[g]] = rank[g]
        BY <1>1, <2>1, <3>5
      <4>2. s[g] = h \/ rank[s[g]] <= rank[V[h]] \/ rank[s[g]] > rank[h]
        BY <3>1, <4>1 DEF NextTo
      <4> QED BY <1>1, <2>1, <3>4, <4>1, <4>2
    <3> QED BY <3>2, <3>3, <3>4, <3>5 DEF NextTo
  <2> QED BY <2>2, <2>3
<1>5. ASSUME NEW q \in A
      PROVE  /\ I[q] \in All /\ new[I[q]] = q
             /\ \A g \in All : new[g] = q => rank[g] <= rank[I[q]]
  <2>1. s[q] \in A /\ q \in All /\ s[s[q]] = q
    BY <1>1 DEF Renames, All
  <2>2. /\ H[s[q]] \in All /\ home[H[s[q]]] = s[q]
        /\ \A g \in All : home[g] = s[q] => rank[g] <= rank[H[s[q]]]
    BY <2>1 DEF Laid
  <2>3. I[q] \in All /\ new[I[q]] = q /\ rank[I[q]] = rank[H[s[q]]]
    BY <1>1, <2>1, <2>2
  <2>4. ASSUME NEW g \in All, new[g] = q PROVE rank[g] <= rank[I[q]]
    <3>1. s[g] \in All /\ home[s[g]] = s[q] /\ rank[s[g]] = rank[g]
      BY <1>1, <2>4
    <3> QED BY <2>2, <2>3, <3>1
  <2> QED BY <2>3, <2>4
<1> QED BY <1>1, <1>2, <1>3, <1>4, <1>5 DEF Laid

LEMMA EnteredRenamed ==
  ASSUME Life!Parameters, NEW A, NEW E, NEW L, NEW W, NEW home \in [All -> Queues \cup {Null}],
         Entered(E, L, W, home), NEW s, Renames(s, A),
         NEW F, \A h \in All : F[h] = E[s[h]],
         NEW M, \A q \in Queues : M[q] = L[s[q]],
         NEW new, new = [h \in All |-> s[home[s[h]]]]
  PROVE  Entered(F, M, W, new)
<1>1. /\ Null \notin All
      /\ \A h \in All : s[h] \in All /\ s[s[h]] = h
      /\ \A x \in Queues \cup {Null} : s[x] \in Queues \cup {Null} /\ s[s[x]] = x
      /\ s[Null] = Null
  BY DEF Renames, Life!Parameters, All
<1>2. ASSUME NEW h \in All, new[h] = Null PROVE F[h] = Life!NoEntries
  BY <1>1, <1>2 DEF Entered
<1>3. ASSUME NEW h \in All, NEW t \in Threads, new[h] # Null, F[h][t] # Null
      PROVE  F[h][t] \in M[new[h]] /\ W[F[h][t]] = t
  <2>1. s[h] \in All /\ home[s[h]] # Null /\ F[h] = E[s[h]] /\ home[s[h]] \in Queues
    BY <1>1, <1>3
  <2>2. E[s[h]][t] \in L[home[s[h]]] /\ W[E[s[h]][t]] = t
    BY <1>3, <2>1 DEF Entered
  <2>3. new[h] \in Queues /\ M[new[h]] = L[home[s[h]]]
    BY <1>1, <1>3, <2>1
  <2> QED BY <2>1, <2>2, <2>3
<1>4. ASSUME NEW q \in Queues, NEW p \in M[q], W[p] # Null
      PROVE  \E h \in All : new[h] = q /\ F[h][W[p]] = p
  <2>1. s[q] \in Queues /\ p \in L[s[q]] /\ s[s[q]] = q
    BY <1>1 DEF Renames
  <2>2. PICK h \in All : home[h] = s[q] /\ E[h][W[p]] = p
    BY <1>4, <2>1 DEF Entered
  <2>3. s[h] \in All /\ s[s[h]] = h
    BY <1>1
  <2>4. new[s[h]] = q /\ F[s[h]] = E[h]
    BY <2>1, <2>2, <2>3
  <2> QED BY <2>2, <2>3, <2>4
<1> QED BY <1>2, <1>3, <1>4 DEF Entered

\* A producer is in the list of its parent alone, and one that is active is in a
\* list; a queue that is dead has none, and no table.
ListsInv ==
  /\ \A q \in Queues \ alive : members[q] = {} /\ newest[q] = Null
  /\ \A q, r \in Queues : q # r => members[q] \cap members[r] = {}
  /\ \A q \in Queues : \A p \in members[q] : parent[p] = q
  /\ \A p \in Producers : listener[p] # Null \/ tokenOf[p] # Null =>
       \E q \in Queues : p \in members[q]
ChainsInv ==
  \E home, rank : /\ Laid(alive, newest, prev, home, rank)
                  /\ Entered(entries, members, listener, home)
LifeInv == Life!TypeOK /\ ListsInv /\ Life!TokensPaired /\ ChainsInv

LEMMA ListedIs ==
  ASSUME Life!TypeOK, ListsInv, NEW p
  PROVE  p \in Life!Listed <=> \E q \in Queues : p \in members[q]
<1>1. p \in Life!Listed <=> \E q \in alive : p \in members[q]
  BY DEF Life!Listed
<1>2. alive \subseteq Queues /\ \A q \in Queues \ alive : members[q] = {}
  BY DEF Life!TypeOK, ListsInv
<1> QED BY <1>1, <1>2

LEMMA InUseIs ==
  ASSUME Life!Parameters, Life!TypeOK, NEW home, NEW rank,
         Laid(alive, newest, prev, home, rank)
  PROVE  Life!InUse = {h \in All : home[h] # Null}
<1>1. /\ alive \in SUBSET Queues /\ home \in [All -> Queues \cup {Null}]
      /\ Null \notin Queues
      /\ \A h \in All : home[h] # Null => home[h] \in alive
  BY DEF Life!TypeOK, Laid, Life!Parameters, All
<1>2. \A q \in alive : Life!Chain(q) = {h \in All : home[h] = q}
  BY <1>1, ChainIs
<1> QED BY <1>1, <1>2 DEF Life!InUse

\* The producer that is chosen, and what it is to enter it in the list of q.
LEMMA EnterKeeps ==
  ASSUME Life!Parameters, Life!TypeOK, ListsInv, Life!TokensPaired, NEW q \in alive,
         NEW e \in BOOLEAN, NEW p \in Life!Choice(q, e), Life!Enter(q, p, e),
         alive' = alive
  PROVE  /\ p \in Producers /\ listener[p] = Null /\ tokenOf[p] = Null
         /\ members' = [members EXCEPT ![q] = @ \cup {p}]
         /\ members' \in [Queues -> SUBSET Producers]
         /\ parent' \in [Producers -> Queues \cup {Null}]
         /\ explicit' \in [Producers -> BOOLEAN]
         /\ \A r \in Queues \ alive : members'[r] = {}
         /\ \A r, x \in Queues : r # x => members'[r] \cap members'[x] = {}
         /\ \A r \in Queues : \A x \in members'[r] : parent'[x] = r
<1>1. /\ q \in Queues /\ members \in [Queues -> SUBSET Producers]
      /\ parent \in [Producers -> Queues \cup {Null}]
      /\ explicit \in [Producers -> BOOLEAN]
  BY DEF Life!TypeOK
<1>2. \/ p \in members[q] /\ listener[p] = Null /\ tokenOf[p] = Null
      \/ p \in Producers \ Life!Listed
  BY DEF Life!Choice, Life!Inactive
<1>3. p \in Producers /\ \A r \in Queues : r # q => p \notin members[r]
  <2>1. CASE p \in members[q]
    BY <1>1, <2>1 DEF ListsInv
  <2>2. CASE p \in Producers \ Life!Listed
    BY <2>2, ListedIs
  <2> QED BY <1>2, <2>1, <2>2
<1>4. listener[p] = Null /\ tokenOf[p] = Null
  <2>1. CASE p \in Producers \ Life!Listed
    <3>1. ~ \E r \in Queues : p \in members[r]
      BY <2>1, ListedIs
    <3> QED BY <2>1, <3>1 DEF ListsInv
  <2> QED BY <1>2, <2>1
<1>5. /\ members' = [members EXCEPT ![q] = @ \cup {p}]
      /\ parent' = IF p \in members[q] THEN parent ELSE [parent EXCEPT ![p] = q]
      /\ explicit' = [explicit EXCEPT ![p] = e]
  BY DEF Life!Enter, Life!Set
<1>6. members' \in [Queues -> SUBSET Producers] /\ parent' \in [Producers -> Queues \cup {Null}]
  BY <1>1, <1>3, <1>5
<1>7. explicit' \in [Producers -> BOOLEAN]
  BY <1>1, <1>3, <1>5
<1>8. /\ members'[q] = members[q] \cup {p}
      /\ \A r \in Queues : r # q => members'[r] = members[r]
  BY <1>1, <1>5
<1>9. \A r \in Queues \ alive : members'[r] = {}
  BY <1>8 DEF ListsInv
<1>10. \A r, x \in Queues : r # x => members'[r] \cap members'[x] = {}
  BY <1>3, <1>8 DEF ListsInv
<1>11. ASSUME NEW r \in Queues, NEW x \in members'[r] PROVE parent'[x] = r
  <2>1. \A y \in members[q] : parent[y] = q
    BY <1>1 DEF ListsInv
  <2>2. CASE r = q
    <3>1. parent'[p] = q
      BY <1>1, <1>3, <1>5, <2>1
    <3>2. x = p \/ (x \in members[q] /\ x \in Producers)
      BY <1>1, <1>8, <2>2
    <3>3. CASE x \in members[q] /\ x \in Producers /\ x # p
      BY <1>1, <1>5, <2>1, <2>2, <3>3
    <3> QED BY <2>2, <3>1, <3>2, <3>3
  <2>3. CASE r # q
    <3>1. x \in members[r] /\ x # p /\ x \in Producers /\ parent[x] = r
      BY <1>1, <1>3, <1>8, <2>3 DEF ListsInv
    <3> QED BY <1>1, <1>5, <3>1
  <2> QED BY <2>2, <2>3
<1> QED BY <1>3, <1>4, <1>5, <1>6, <1>7, <1>9, <1>10, <1>11

\* Steps that leave producers, lists and tables alone.
LEMMA LifeTokenMoves ==
  ASSUME Life!Parameters, LifeInv, NEW k \in Tokens, NEW l \in Tokens,
         Life!TokenMoved(k, l) \/ Life!TokenSwap(k, l) \/ Life!TokenGone(k)
  PROVE  LifeInv'
<1>1. UNCHANGED <<alive, members, parent, explicit, listener, newest, prev, entries>>
  BY DEF Life!TokenMoved, Life!TokenSwap, Life!TokenGone, Life!ownVars, Life!hashVars
<1>2. ChainsInv'
  <2>1. PICK home, rank : /\ Laid(alive, newest, prev, home, rank)
                          /\ Entered(entries, members, listener, home)
    BY DEF LifeInv, ChainsInv
  <2>2. (Laid(alive, newest, prev, home, rank) /\ Entered(entries, members, listener, home))'
    BY <1>1, <2>1 DEF Laid, Entered
  <2> QED BY <2>2 DEF ChainsInv
<1>3. /\ made \subseteq Tokens /\ producerOf \in [Tokens -> Producers \cup {Null}]
      /\ tokenOf \in [Producers -> Tokens \cup {Null}]
      /\ Null \notin Producers /\ Null \notin Tokens
      /\ \A x \in Tokens : producerOf[x] # Null =>
           x \in made /\ producerOf[x] \in Life!Listed /\ tokenOf[producerOf[x]] = x
      /\ \A p \in Producers : tokenOf[p] # Null => producerOf[tokenOf[p]] = p
  BY DEF LifeInv, Life!TypeOK, Life!TokensPaired, Life!Parameters
<1>4. Life!Listed' = Life!Listed
  BY <1>1 DEF Life!Listed
<1>5. /\ made' \subseteq Tokens /\ producerOf' \in [Tokens -> Producers \cup {Null}]
      /\ tokenOf' \in [Producers -> Tokens \cup {Null}]
      /\ Life!TokensPaired'
      /\ \A p \in Producers : tokenOf'[p] # Null => p \in Life!Listed
  <2>1. CASE Life!TokenMoved(k, l)
    <3>1. /\ k \notin made /\ l \in made /\ made' = made \cup {k}
          /\ producerOf' = [producerOf EXCEPT ![k] = producerOf[l], ![l] = Null]
          /\ tokenOf' = IF producerOf[l] = Null THEN tokenOf
                        ELSE [tokenOf EXCEPT ![producerOf[l]] = k]
      BY <2>1 DEF Life!TokenMoved, Life!Set
    <3> QED BY <1>3, <1>4, <3>1 DEF Life!TokensPaired
  <2>2. CASE Life!TokenSwap(k, l)
    <3>1. /\ k \in made /\ l \in made /\ made' = made /\ k # l
          /\ producerOf' = [producerOf EXCEPT ![k] = producerOf[l], ![l] = producerOf[k]]
          /\ tokenOf' = [x \in Producers |-> IF x = producerOf[l] THEN k
                                             ELSE IF x = producerOf[k] THEN l ELSE tokenOf[x]]
      BY <2>2 DEF Life!TokenSwap
    <3> QED BY <1>3, <1>4, <3>1 DEF Life!TokensPaired
  <2>3. CASE Life!TokenGone(k)
    <3>1. /\ k \in made /\ made' = made \ {k}
          /\ producerOf' = [producerOf EXCEPT ![k] = Null]
          /\ tokenOf' = IF producerOf[k] = Null THEN tokenOf
                        ELSE [tokenOf EXCEPT ![producerOf[k]] = Null]
      BY <2>3 DEF Life!TokenGone, Life!Set
    <3> QED BY <1>3, <1>4, <3>1 DEF Life!TokensPaired
  <2> QED BY <2>1, <2>2, <2>3
<1>6. Life!TypeOK'
  BY <1>1, <1>5 DEF LifeInv, Life!TypeOK, Life!AllTables
<1>7. ListsInv'
  <2>1. \A p \in Producers : tokenOf'[p] # Null => \E q \in Queues : p \in members[q]
    BY <1>5, ListedIs DEF LifeInv
  <2> QED BY <1>1, <2>1 DEF LifeInv, ListsInv
<1> QED BY <1>2, <1>5, <1>6, <1>7 DEF LifeInv

LEMMA LifeTokenMade ==
  ASSUME Life!Parameters, LifeInv, NEW k \in Tokens, NEW q \in Queues, Life!TokenMade(k, q)
  PROVE  LifeInv'
<1> Life!TypeOK /\ ListsInv /\ Life!TokensPaired
  BY DEF LifeInv
<1>1. PICK p \in Life!Choice(q, TRUE) :
        /\ Life!Enter(q, p, TRUE)
        /\ producerOf' = [producerOf EXCEPT ![k] = p] /\ tokenOf' = [tokenOf EXCEPT ![p] = k]
  BY DEF Life!TokenMade, Life!Set
<1>2. /\ k \notin made /\ q \in alive /\ made' = made \cup {k}
      /\ UNCHANGED <<alive, listener, newest, prev, entries>>
  BY DEF Life!TokenMade, Life!hashVars
<1>3. /\ p \in Producers /\ listener[p] = Null /\ tokenOf[p] = Null
      /\ members' = [members EXCEPT ![q] = @ \cup {p}]
      /\ members' \in [Queues -> SUBSET Producers]
      /\ parent' \in [Producers -> Queues \cup {Null}]
      /\ explicit' \in [Producers -> BOOLEAN]
      /\ \A r \in Queues \ alive : members'[r] = {}
      /\ \A r, x \in Queues : r # x => members'[r] \cap members'[x] = {}
      /\ \A r \in Queues : \A x \in members'[r] : parent'[x] = r
  BY <1>1, <1>2, EnterKeeps
<1>4. /\ members'[q] = members[q] \cup {p}
      /\ \A r \in Queues : r # q => members'[r] = members[r]
  BY <1>3 DEF Life!TypeOK
<1>5. Life!TypeOK'
  <2>1. /\ made' \subseteq Tokens /\ producerOf' \in [Tokens -> Producers \cup {Null}]
        /\ tokenOf' \in [Producers -> Tokens \cup {Null}]
    BY <1>1, <1>2, <1>3 DEF Life!TypeOK
  <2> QED BY <1>2, <1>3, <2>1 DEF Life!TypeOK, Life!AllTables
<1>6. ListsInv'
  <2>1. ASSUME NEW x \in Producers, listener'[x] # Null \/ tokenOf'[x] # Null
        PROVE  \E r \in Queues : x \in members'[r]
    <3>1. x = p \/ listener[x] # Null \/ tokenOf[x] # Null
      BY <1>1, <1>2, <2>1 DEF Life!TypeOK
    <3>2. CASE x = p
      BY <1>4, <3>2
    <3>3. CASE listener[x] # Null \/ tokenOf[x] # Null
      BY <1>4, <3>3 DEF ListsInv
    <3> QED BY <3>1, <3>2, <3>3
  <2>2. \A r \in Queues \ alive' : members'[r] = {} /\ newest'[r] = Null
    BY <1>2, <1>3 DEF ListsInv
  <2> QED BY <1>3, <2>1, <2>2 DEF ListsInv
<1>7. Life!TokensPaired'
  <2>1. ASSUME NEW x \in Producers PROVE x \in Life!Listed' <=> x \in Life!Listed \/ x = p
    <3>1. x \in Life!Listed <=> \E r \in Queues : x \in members[r]
      BY ListedIs
    <3>2. x \in Life!Listed' <=> \E r \in Queues : x \in members'[r]
      <4>1. \A r \in Queues : r \notin alive => members'[r] = {}
        BY <1>3
      <4>2. alive' \subseteq Queues
        BY <1>5 DEF Life!TypeOK
      <4> QED BY <1>2, <4>1, <4>2 DEF Life!Listed
    <3> QED BY <1>4, <3>1, <3>2
  <2>2. /\ producerOf'[k] = p /\ \A x \in Tokens : x # k => producerOf'[x] = producerOf[x]
        /\ tokenOf'[p] = k /\ \A x \in Producers : x # p => tokenOf'[x] = tokenOf[x]
        /\ k # Null
    BY <1>1, <1>3 DEF Life!TypeOK, Life!Parameters
  <2>3. \A x \in Tokens : producerOf[x] # Null => x \in made /\ producerOf[x] # p /\ producerOf[x] \in Producers
    BY <1>3 DEF Life!TokensPaired, Life!TypeOK, Life!Parameters
  <2>4. \A x \in Producers : tokenOf[x] # Null => tokenOf[x] # k /\ tokenOf[x] \in Tokens
    BY <1>2, <2>3 DEF Life!TokensPaired, Life!TypeOK, Life!Parameters
  <2> QED BY <1>2, <1>3, <2>1, <2>2, <2>3, <2>4 DEF Life!TokensPaired
<1>8. ChainsInv'
  <2>1. PICK home, rank : /\ Laid(alive, newest, prev, home, rank)
                          /\ Entered(entries, members, listener, home)
    BY DEF LifeInv, ChainsInv
  <2>2. Entered(entries, members', listener, home)
    <3>1. \A r \in Queues : members[r] \subseteq members'[r]
      BY <1>4
    <3>2. ASSUME NEW h \in All, NEW t \in Threads, home[h] # Null, entries[h][t] # Null
          PROVE  entries[h][t] \in members'[home[h]] /\ listener[entries[h][t]] = t
      <4>1. home[h] \in Queues
        BY <2>1, <3>2 DEF Laid
      <4> QED BY <2>1, <3>1, <3>2, <4>1 DEF Entered
    <3>3. ASSUME NEW r \in Queues, NEW x \in members'[r], listener[x] # Null
          PROVE  \E h \in All : home[h] = r /\ entries[h][listener[x]] = x
      <4>1. x # p /\ x \in members[r]
        BY <1>3, <1>4, <3>3
      <4> QED BY <2>1, <3>3, <4>1 DEF Entered
    <3> QED BY <2>1, <3>2, <3>3 DEF Entered
  <2>3. (Laid(alive, newest, prev, home, rank) /\ Entered(entries, members, listener, home))'
    BY <1>2, <2>1, <2>2 DEF Laid, Entered
  <2> QED BY <2>3 DEF ChainsInv
<1> QED BY <1>5, <1>6, <1>7, <1>8 DEF LifeInv

\* What a thread finds in q.
LEMMA WhatIsFound ==
  ASSUME Life!Parameters, Life!TypeOK, NEW home, NEW rank,
         Laid(alive, newest, prev, home, rank), NEW q \in alive, NEW t \in Threads, NEW h
  PROVE  h \in Life!Found(q, t) <=> h \in All /\ home[h] = q /\ entries[h][t] # Null
<1>1. Life!Chain(q) = {g \in All : home[g] = q}
  <2>1. alive \in SUBSET Queues
    BY DEF Life!TypeOK
  <2> QED BY <2>1, ChainIs
<1> QED BY <1>1 DEF Life!Found

LEMMA LifeEnqueueCopies ==
  ASSUME Life!Parameters, LifeInv, NEW t \in Threads, NEW q \in Queues,
         Life!EnqueueCopies(t, q)
  PROVE  LifeInv'
<1> Life!TypeOK /\ ListsInv /\ Life!TokensPaired
  BY DEF LifeInv
<1>1. PICK home, rank : /\ Laid(alive, newest, prev, home, rank)
                        /\ Entered(entries, members, listener, home)
  BY DEF LifeInv, ChainsInv
<1>2. /\ q \in alive /\ entries[newest[q]][t] = Null
      /\ UNCHANGED <<alive, members, parent, explicit, listener, newest, prev, made,
                     producerOf, tokenOf>>
  BY DEF Life!EnqueueCopies, Life!ownVars, Life!tokenVars
<1>3. PICK h \in Life!Found(q, t) :
        entries' = [entries EXCEPT ![newest[q]][t] = entries[h][t]]
  BY DEF Life!EnqueueCopies
<1>4. h \in All /\ home[h] = q /\ entries[h][t] # Null
  BY <1>1, <1>2, <1>3, WhatIsFound
<1>5. /\ newest[q] \in All /\ home[newest[q]] = q /\ q # Null
      /\ entries \in [All -> [Threads -> Producers \cup {Null}]]
  BY <1>1, <1>2 DEF Laid, Life!TypeOK, Life!AllTables, All, Life!Parameters
<1>6. /\ entries' \in [All -> [Threads -> Producers \cup {Null}]]
      /\ entries'[newest[q]][t] = entries[h][t]
      /\ \A g \in All, u \in Threads : g # newest[q] \/ u # t => entries'[g][u] = entries[g][u]
      /\ \A g \in All : g # newest[q] => entries'[g] = entries[g]
  BY <1>3, <1>4, <1>5
<1>7. Life!TypeOK'
  BY <1>2, <1>6 DEF Life!TypeOK, Life!AllTables, All
<1>8. ListsInv' /\ Life!TokensPaired'
  BY <1>2 DEF ListsInv, Life!TokensPaired, Life!Listed
<1>9. Entered(entries', members, listener, home)
  <2>1. \A g \in All : home[g] = Null => entries'[g] = Life!NoEntries
    BY <1>1, <1>5, <1>6 DEF Entered
  <2>2. ASSUME NEW g \in All, NEW u \in Threads, home[g] # Null, entries'[g][u] # Null
        PROVE  entries'[g][u] \in members[home[g]] /\ listener[entries'[g][u]] = u
    <3>1. CASE g = newest[q] /\ u = t
      BY <1>1, <1>4, <1>5, <1>6, <3>1 DEF Entered
    <3>2. CASE g # newest[q] \/ u # t
      BY <1>1, <1>6, <2>2, <3>2 DEF Entered
    <3> QED BY <3>1, <3>2
  <2>3. ASSUME NEW r \in Queues, NEW p \in members[r], listener[p] # Null
        PROVE  \E g \in All : home[g] = r /\ entries'[g][listener[p]] = p
    <3>1. PICK g \in All : home[g] = r /\ entries[g][listener[p]] = p
      BY <1>1, <2>3 DEF Entered
    <3>2. p # Null /\ listener[p] \in Threads
      BY <2>3 DEF Life!TypeOK, Life!Parameters
    <3>3. g # newest[q] \/ listener[p] # t
      BY <1>2, <3>1, <3>2
    <3> QED BY <1>6, <3>1, <3>2, <3>3
  <2> QED BY <2>1, <2>2, <2>3 DEF Entered
<1>10. (Laid(alive, newest, prev, home, rank) /\ Entered(entries, members, listener, home))'
  BY <1>1, <1>2, <1>9 DEF Laid, Entered
<1> QED BY <1>7, <1>8, <1>10 DEF LifeInv, ChainsInv

\* A thread that exits is taken out of all tables of the queues it has producers in.
LEMMA LifeThreadExit ==
  ASSUME Life!Parameters, LifeInv, NEW t \in Threads, Life!ThreadExit(t)
  PROVE  LifeInv'
<1> Life!TypeOK /\ ListsInv /\ Life!TokensPaired
  BY DEF LifeInv
<1>1. PICK home, rank : /\ Laid(alive, newest, prev, home, rank)
                        /\ Entered(entries, members, listener, home)
  BY DEF LifeInv, ChainsInv
<1> DEFINE gone == {p \in Producers : listener[p] = t}
           swept == UNION {Life!Chain(parent[p]) : p \in gone}
<1>2. /\ UNCHANGED <<alive, members, parent, explicit, newest, prev, made,
                     producerOf, tokenOf>>
      /\ entries' = [h \in All |->
           IF h \in swept THEN [entries[h] EXCEPT ![t] = Null] ELSE entries[h]]
      /\ listener' = [p \in Producers |-> IF p \in gone THEN Null ELSE listener[p]]
  BY DEF Life!ThreadExit, Life!ownVars, Life!tokenVars, Life!AllTables, Life!Set, All
<1>3. /\ entries \in [All -> [Threads -> Producers \cup {Null}]]
      /\ Null \notin Producers /\ Null \notin Threads /\ Null \notin Queues
      /\ listener \in [Producers -> Threads \cup {Null}]
      /\ members \in [Queues -> SUBSET Producers] /\ alive \subseteq Queues
      /\ home \in [All -> Queues \cup {Null}]
      /\ \A h \in All : home[h] # Null => home[h] \in alive
  BY <1>1 DEF Life!TypeOK, Life!AllTables, All, Life!Parameters, Laid
<1>4. ASSUME NEW h \in All, home[h] # Null, entries[h][t] # Null PROVE h \in swept
  <2>1. entries[h][t] \in members[home[h]] /\ listener[entries[h][t]] = t
    BY <1>1, <1>4 DEF Entered
  <2>2. home[h] \in alive /\ home[h] \in Queues
    BY <1>3, <1>4
  <2>3. entries[h][t] \in gone /\ parent[entries[h][t]] = home[h]
    BY <1>3, <2>1, <2>2 DEF ListsInv
  <2>4. h \in Life!Chain(home[h])
    <3>1. alive \in SUBSET Queues
      BY <1>3
    <3> QED BY <1>1, <2>2, <3>1, ChainIs
  <2> QED BY <2>3, <2>4
<1> HIDE DEF swept
<1>5. /\ entries' \in [All -> [Threads -> Producers \cup {Null}]]
      /\ \A h \in All, u \in Threads : u # t => entries'[h][u] = entries[h][u]
      /\ \A h \in All : entries'[h][t] = Null \/ home[h] = Null
      /\ \A h \in All : home[h] = Null => entries'[h] = Life!NoEntries
  <2>1. /\ entries' \in [All -> [Threads -> Producers \cup {Null}]]
        /\ \A h \in All, u \in Threads : u # t => entries'[h][u] = entries[h][u]
        /\ \A h \in All : entries'[h][t] = IF h \in swept THEN Null ELSE entries[h][t]
    BY <1>2, <1>3
  <2>2. ASSUME NEW h \in All, home[h] = Null PROVE entries'[h] = Life!NoEntries
    <3>1. entries[h] = [u \in Threads |-> Null]
      BY <1>1, <2>2 DEF Entered, Life!NoEntries
    <3>2. entries'[h] = IF h \in swept THEN [entries[h] EXCEPT ![t] = Null] ELSE entries[h]
      BY <1>2
    <3>3. [entries[h] EXCEPT ![t] = Null] = [u \in Threads |-> Null]
      BY <3>1
    <3> QED BY <3>1, <3>2, <3>3 DEF Life!NoEntries
  <2> QED BY <1>4, <2>1, <2>2
<1>6. /\ listener' \in [Producers -> Threads \cup {Null}]
      /\ \A p \in Producers : listener'[p] # Null => listener'[p] = listener[p] /\ listener[p] # t
      /\ \A p \in Producers : listener[p] # t => listener'[p] = listener[p]
  BY <1>2, <1>3
<1>7. Life!TypeOK'
  BY <1>2, <1>5, <1>6 DEF Life!TypeOK, Life!AllTables, All
<1>8. ListsInv'
  <2>1. \A p \in Producers : listener'[p] # Null \/ tokenOf[p] # Null =>
          \E q \in Queues : p \in members[q]
    BY <1>6 DEF ListsInv
  <2> QED BY <1>2, <2>1 DEF ListsInv
<1>9. Life!TokensPaired'
  BY <1>2 DEF Life!TokensPaired, Life!Listed
<1>10. Entered(entries', members, listener', home)
  <2>1. ASSUME NEW h \in All, NEW u \in Threads, home[h] # Null, entries'[h][u] # Null
        PROVE  entries'[h][u] \in members[home[h]] /\ listener'[entries'[h][u]] = u
    <3>1. u # t /\ entries'[h][u] = entries[h][u]
      BY <1>5, <2>1
    <3>2. entries[h][u] \in members[home[h]] /\ listener[entries[h][u]] = u
      BY <1>1, <2>1, <3>1 DEF Entered
    <3>3. entries[h][u] \in Producers
      BY <1>3, <2>1, <3>1
    <3> QED BY <1>6, <3>1, <3>2, <3>3
  <2>2. ASSUME NEW q \in Queues, NEW p \in members[q], listener'[p] # Null
        PROVE  \E h \in All : home[h] = q /\ entries'[h][listener'[p]] = p
    <3>1. p \in Producers /\ listener'[p] = listener[p] /\ listener[p] # t /\ listener[p] \in Threads
      BY <1>3, <1>6, <2>2
    <3>2. PICK h \in All : home[h] = q /\ entries[h][listener[p]] = p
      BY <1>1, <2>2, <3>1 DEF Entered
    <3> QED BY <1>5, <3>1, <3>2
  <2> QED BY <1>5, <2>1, <2>2 DEF Entered
<1>11. (Laid(alive, newest, prev, home, rank) /\ Entered(entries, members, listener, home))'
  <2>1. Laid(alive, newest, prev, home, rank)'
    BY <1>1, <1>2 DEF Laid
  <2>2. members' = members
    BY <1>2
  <2>3. Entered(entries, members, listener, home)'
    BY ONLY <1>10, <2>2 DEF Entered
  <2> QED BY <2>1, <2>3
<1> QED BY <1>7, <1>8, <1>9, <1>11 DEF LifeInv, ChainsInv

\* The newest table is doubled: g is another one, or as before.
LEMMA LaidGrown ==
  ASSUME Life!Parameters, NEW A \in SUBSET Queues, NEW H \in [Queues -> All \cup {Null}],
         NEW V \in [All -> All \cup {Null}], NEW home, NEW rank,
         Laid(A, H, V, home, rank), NEW q \in A, NEW g \in Tables, home[g] = Null
  PROVE  Laid(A, [H EXCEPT ![q] = g], [V EXCEPT ![g] = H[q]],
              [home EXCEPT ![g] = q], [rank EXCEPT ![g] = rank[H[q]] + 1])
<1> DEFINE I == [H EXCEPT ![q] = g]
           U == [V EXCEPT ![g] = H[q]]
           new == [home EXCEPT ![g] = q]
           order == [rank EXCEPT ![g] = rank[H[q]] + 1]
<1>1. /\ home \in [All -> Queues \cup {Null}] /\ rank \in [All -> Nat]
      /\ Null \notin All /\ q \in Queues /\ g \in All /\ g \notin Queues
      /\ q # Null /\ H[q] \in All /\ home[H[q]] = q /\ H[q] # g
      /\ \A x \in All : home[x] = q => rank[x] <= rank[H[q]]
      /\ Queues \subseteq All
  BY DEF Laid, Life!Parameters, All
<1>2. /\ new \in [All -> Queues \cup {Null}] /\ new[g] = q
      /\ \A x \in All : x # g => new[x] = home[x]
  BY <1>1
<1>3. /\ order \in [All -> Nat] /\ order[g] = rank[H[q]] + 1
      /\ \A x \in All : x # g => order[x] = rank[x]
  <2>1. rank[H[q]] + 1 \in Nat
    BY <1>1
  <2> QED BY <1>1, <2>1
<1>4. I[q] = g /\ (\A x \in Queues : x # q => I[x] = H[x])
      /\ U[g] = H[q] /\ \A x \in All : x # g => U[x] = V[x]
  BY <1>1
<1> HIDE DEF I, U, new, order
<1>5. \A x \in Queues : order[x] = 0 /\ U[x] = Null /\ new[x] = IF x \in A THEN x ELSE Null
  BY <1>1, <1>2, <1>3, <1>4 DEF Laid
<1>6. ASSUME NEW h \in Tables
      PROVE  IF new[h] = Null THEN U[h] = Null
             ELSE new[h] \in A /\ NextTo(U, new, order, h)
  <2>1. CASE h = g
    <3>1. ASSUME NEW x \in All, new[x] = q PROVE x = g \/ order[x] <= order[H[q]]
      BY <1>1, <1>2, <1>3, <3>1
    <3>2. order[H[q]] < order[g] /\ new[H[q]] = q
      BY <1>1, <1>2, <1>3
    <3>3. NextTo(U, new, order, g)
      BY <1>1, <1>2, <1>4, <3>1, <3>2 DEF NextTo
    <3> QED BY <1>1, <1>2, <2>1, <3>3
  <2>2. CASE h # g /\ home[h] = Null
    <3>1. h \in All /\ V[h] = Null
      BY <2>2 DEF Laid, All
    <3> QED BY <1>2, <1>4, <2>2, <3>1
  <2>3. CASE h # g /\ home[h] # Null
    <3>1. h \in All /\ home[h] \in A /\ NextTo(V, home, rank, h)
      BY <2>3 DEF Laid, All
    <3>2. /\ V[h] \in All /\ home[V[h]] = home[h] /\ rank[V[h]] < rank[h] /\ V[h] # g
          /\ rank[h] \in Nat /\ rank[H[q]] \in Nat
      BY <1>1, <2>3, <3>1 DEF NextTo
    <3>3. U[h] = V[h] /\ new[U[h]] = new[h] /\ order[U[h]] < order[h] /\ new[h] = home[h]
      BY <1>2, <1>3, <1>4, <2>3, <3>1, <3>2
    <3>4. ASSUME NEW x \in All, new[x] = new[h]
          PROVE  x = h \/ order[x] <= order[U[h]] \/ order[x] > order[h]
      <4>1. CASE x = g
        <5>1. rank[h] <= rank[H[q]]
          BY <1>1, <1>2, <3>1, <3>3, <3>4, <4>1
        <5> QED BY <1>3, <2>3, <3>1, <3>2, <4>1, <5>1
      <4>2. CASE x # g
        <5>1. x = h \/ rank[x] <= rank[V[h]] \/ rank[x] > rank[h]
          BY <1>2, <3>1, <3>3, <3>4, <4>2 DEF NextTo
        <5> QED BY <1>3, <2>3, <3>1, <3>2, <3>3, <4>2, <5>1
      <4> QED BY <4>1, <4>2
    <3>5. NextTo(U, new, order, h)
      BY <3>2, <3>3, <3>4 DEF NextTo
    <3>6. new[h] # Null
      BY <2>3, <3>3
    <3> QED BY <3>1, <3>3, <3>5, <3>6
  <2> QED BY <2>1, <2>2, <2>3
<1>7. ASSUME NEW p \in A
      PROVE  /\ I[p] \in All /\ new[I[p]] = p
             /\ \A x \in All : new[x] = p => order[x] <= order[I[p]]
  <2>1. CASE p = q
    <3>1. \A x \in All : new[x] = q => order[x] <= order[g]
      BY <1>1, <1>2, <1>3
    <3> QED BY <1>1, <1>2, <1>4, <2>1, <3>1
  <2>2. CASE p # q
    <3>1. /\ H[p] \in All /\ home[H[p]] = p /\ p # Null
          /\ \A x \in All : home[x] = p => rank[x] <= rank[H[p]]
      BY <1>1 DEF Laid, All
    <3>2. I[p] = H[p] /\ H[p] # g
      BY <1>4, <2>2, <3>1
    <3>3. \A x \in All : new[x] = p => x # g
      BY <1>2, <2>2
    <3> QED BY <1>2, <1>3, <3>1, <3>2, <3>3
  <2> QED BY <2>1, <2>2
<1> QED BY <1>2, <1>3, <1>5, <1>6, <1>7 DEF Laid, I, U, new, order

\* A thread's first enqueue in q, with a producer that is inactive or new, put in
\* the newest table or in one that is added.
LEMMA LifeEnqueue ==
  ASSUME Life!Parameters, LifeInv, NEW t \in Threads, NEW q \in Queues, Life!Enqueue(t, q)
  PROVE  LifeInv'
<1> Life!TypeOK /\ ListsInv /\ Life!TokensPaired
  BY DEF LifeInv
<1>1. PICK home, rank : /\ Laid(alive, newest, prev, home, rank)
                        /\ Entered(entries, members, listener, home)
  BY DEF LifeInv, ChainsInv
<1>2. /\ q \in alive /\ Life!Found(q, t) = {}
      /\ UNCHANGED <<alive, made, producerOf, tokenOf>>
  BY DEF Life!Enqueue, Life!tokenVars
<1>3. PICK p \in Life!Choice(q, FALSE), g \in {newest[q]} \cup (Tables \ Life!InUse) :
        /\ Life!Enter(q, p, FALSE) /\ listener' = [listener EXCEPT ![p] = t]
        /\ newest' = [newest EXCEPT ![q] = g]
        /\ prev' = IF g = newest[q] THEN prev ELSE [prev EXCEPT ![g] = newest[q]]
        /\ entries' = [entries EXCEPT ![g][t] = p]
  BY DEF Life!Enqueue, Life!Set
<1>4. /\ p \in Producers /\ listener[p] = Null /\ tokenOf[p] = Null
      /\ members' = [members EXCEPT ![q] = @ \cup {p}]
      /\ members' \in [Queues -> SUBSET Producers]
      /\ parent' \in [Producers -> Queues \cup {Null}]
      /\ explicit' \in [Producers -> BOOLEAN]
      /\ \A r \in Queues \ alive : members'[r] = {}
      /\ \A r, x \in Queues : r # x => members'[r] \cap members'[x] = {}
      /\ \A r \in Queues : \A x \in members'[r] : parent'[x] = r
  BY <1>2, <1>3, EnterKeeps
<1>5. /\ members \in [Queues -> SUBSET Producers] /\ listener \in [Producers -> Threads \cup {Null}]
      /\ newest \in [Queues -> All \cup {Null}] /\ prev \in [All -> All \cup {Null}]
      /\ entries \in [All -> [Threads -> Producers \cup {Null}]]
      /\ alive \subseteq Queues
      /\ Null \notin All /\ Null \notin Producers /\ Null \notin Threads
      /\ home \in [All -> Queues \cup {Null}]
      /\ newest[q] \in All /\ home[newest[q]] = q /\ q \in All
      /\ \A r \in Queues : r # Null
  BY <1>1, <1>2 DEF Life!TypeOK, Life!AllTables, All, Life!Parameters, Laid
<1>6. /\ members'[q] = members[q] \cup {p}
      /\ \A r \in Queues : r # q => members'[r] = members[r]
      /\ listener' \in [Producers -> Threads \cup {Null}] /\ listener'[p] = t
      /\ \A x \in Producers : x # p => listener'[x] = listener[x]
  BY <1>3, <1>4, <1>5
<1>7. g \in All /\ (g # newest[q] => g \in Tables /\ home[g] = Null)
  BY <1>1, <1>3, <1>5, InUseIs DEF All
<1>8. /\ newest' \in [Queues -> All \cup {Null}] /\ prev' \in [All -> All \cup {Null}]
      /\ entries' \in [All -> [Threads -> Producers \cup {Null}]]
      /\ entries'[g][t] = p
      /\ \A h \in All : h # g => entries'[h] = entries[h]
      /\ \A h \in All, u \in Threads : h # g \/ u # t => entries'[h][u] = entries[h][u]
  BY <1>3, <1>4, <1>5, <1>7
<1>9. Life!TypeOK'
  BY <1>2, <1>4, <1>6, <1>8 DEF Life!TypeOK, Life!AllTables, All
<1>10. ListsInv'
  <2>1. ASSUME NEW x \in Producers, listener'[x] # Null \/ tokenOf'[x] # Null
        PROVE  \E r \in Queues : x \in members'[r]
    <3>1. x = p \/ listener[x] # Null \/ tokenOf[x] # Null
      BY <1>2, <1>6, <2>1
    <3>2. CASE x = p
      BY <1>6, <3>2
    <3>3. CASE listener[x] # Null \/ tokenOf[x] # Null
      BY <1>6, <3>3 DEF ListsInv
    <3> QED BY <3>1, <3>2, <3>3
  <2>2. \A r \in Queues \ alive' : members'[r] = {} /\ newest'[r] = Null
    BY <1>2, <1>3, <1>4, <1>5 DEF ListsInv
  <2> QED BY <1>4, <2>1, <2>2 DEF ListsInv
<1>11. Life!TokensPaired'
  <2>1. \A x : x \in Life!Listed => x \in Life!Listed'
    <3>1. \A r \in alive : members[r] \subseteq members'[r]
      BY <1>5, <1>6
    <3> QED BY <1>2, <3>1 DEF Life!Listed
  <2> QED BY <1>2, <2>1 DEF Life!TokensPaired
<1> DEFINE new == IF g = newest[q] THEN home ELSE [home EXCEPT ![g] = q]
           order == IF g = newest[q] THEN rank ELSE [rank EXCEPT ![g] = rank[newest[q]] + 1]
<1>12. Laid(alive, newest', prev', new, order)
  <2>1. CASE g = newest[q]
    <3>1. newest' = newest /\ prev' = prev
      BY <1>3, <1>5, <2>1
    <3> QED BY <1>1, <2>1, <3>1
  <2>2. CASE g # newest[q]
    <3>1. alive \in SUBSET Queues /\ g \in Tables /\ home[g] = Null
      BY <1>5, <1>7, <2>2
    <3>2. Laid(alive, [newest EXCEPT ![q] = g], [prev EXCEPT ![g] = newest[q]],
               [home EXCEPT ![g] = q], [rank EXCEPT ![g] = rank[newest[q]] + 1])
      BY <1>1, <1>2, <1>5, <3>1, LaidGrown
    <3> QED BY <1>3, <2>2, <3>2
  <2> QED BY <2>1, <2>2
<1>13. new[g] = q /\ \A h \in All : h # g => new[h] = home[h]
  BY <1>5, <1>7
<1> HIDE DEF new, order
\* Nobody's entry is overwritten.
<1>14. entries[g][t] = Null /\ \A u \in Threads : home[g] = Null => entries[g][u] = Null
  <2>1. CASE g = newest[q]
    BY <1>1, <1>2, <1>5, <2>1, WhatIsFound
  <2>2. CASE g # newest[q]
    BY <1>1, <1>7, <2>2 DEF Entered, Life!NoEntries
  <2> QED BY <2>1, <2>2
<1>15. Entered(entries', members', listener', new)
  <2>1. ASSUME NEW h \in All, new[h] = Null PROVE entries'[h] = Life!NoEntries
    <3>1. h # g /\ home[h] = Null
      BY <1>5, <1>13, <2>1
    <3> QED BY <1>1, <1>8, <3>1 DEF Entered
  <2>2. ASSUME NEW h \in All, NEW u \in Threads, new[h] # Null, entries'[h][u] # Null
        PROVE  entries'[h][u] \in members'[new[h]] /\ listener'[entries'[h][u]] = u
    <3>1. CASE h = g /\ u = t
      BY <1>6, <1>8, <1>13, <3>1
    <3>2. CASE h # g \/ u # t
      <4>1. entries'[h][u] = entries[h][u] /\ home[h] # Null
        BY <1>8, <1>13, <1>14, <2>2, <3>2
      <4>2. entries[h][u] \in members[home[h]] /\ listener[entries[h][u]] = u
        BY <1>1, <2>2, <4>1 DEF Entered
      <4>3. new[h] = home[h]
        BY <1>5, <1>7, <1>13, <4>1
      <4>4. entries[h][u] \in Producers /\ entries[h][u] # p /\ home[h] \in Queues
        BY <1>4, <1>5, <2>2, <4>1, <4>2
      <4> QED BY <1>6, <4>1, <4>2, <4>3, <4>4
    <3> QED BY <3>1, <3>2
  <2>3. ASSUME NEW r \in Queues, NEW x \in members'[r], listener'[x] # Null
        PROVE  \E h \in All : new[h] = r /\ entries'[h][listener'[x]] = x
    <3>1. CASE x = p
      <4>1. r = q
        BY <1>4, <1>6, <2>3, <3>1
      <4> QED BY <1>6, <1>7, <1>8, <1>13, <3>1, <4>1
    <3>2. CASE x # p
      <4>1. x \in members[r] /\ x \in Producers /\ listener'[x] = listener[x]
            /\ listener[x] \in Threads
        BY <1>4, <1>5, <1>6, <2>3, <3>2
      <4>2. PICK h \in All : home[h] = r /\ entries[h][listener[x]] = x
        BY <1>1, <2>3, <4>1 DEF Entered
      <4>3. h # g \/ listener[x] # t
        BY <1>5, <1>14, <4>1, <4>2
      <4>4. new[h] = r
        BY <1>5, <1>7, <1>13, <4>2
      <4> QED BY <1>8, <4>1, <4>2, <4>3, <4>4
    <3> QED BY <3>1, <3>2
  <2> QED BY <2>1, <2>2, <2>3 DEF Entered
<1>16. ChainsInv'
  <2>1. Laid(alive', newest', prev', new, order)
    BY <1>2, <1>12
  <2>2. \E a, b : Laid(alive', newest', prev', a, b) /\ Entered(entries', members', listener', a)
    BY <1>15, <2>1
  <2> QED BY ONLY <2>2 DEF ChainsInv, Laid, Entered
<1> QED BY <1>9, <1>10, <1>11, <1>16 DEF LifeInv

LEMMA LifeConstruct ==
  ASSUME Life!Parameters, LifeInv, NEW q \in Queues, Life!Construct(q)
  PROVE  LifeInv'
<1> Life!TypeOK /\ ListsInv /\ Life!TokensPaired
  BY DEF LifeInv
<1>1. PICK home, rank : /\ Laid(alive, newest, prev, home, rank)
                        /\ Entered(entries, members, listener, home)
  BY DEF LifeInv, ChainsInv
<1>2. /\ q \notin alive /\ alive' = alive \cup {q} /\ newest' = [newest EXCEPT ![q] = q]
      /\ entries' = [entries EXCEPT ![q] = Life!NoEntries]
      /\ prev' = [prev EXCEPT ![q] = Null]
      /\ UNCHANGED <<members, parent, explicit, listener, made, producerOf, tokenOf>>
  BY DEF Life!Construct, Life!Set, Life!tokenVars
<1>3. /\ alive \in SUBSET Queues /\ newest \in [Queues -> All \cup {Null}]
      /\ prev \in [All -> All \cup {Null}]
      /\ entries \in [All -> [Threads -> Producers \cup {Null}]]
      /\ home \in [All -> Queues \cup {Null}] /\ Null \notin Queues
      /\ prev[q] = Null /\ home[q] = Null /\ q \in All
      /\ members[q] = {}
  BY <1>1, <1>2 DEF Life!TypeOK, Life!AllTables, All, Laid, Life!Parameters, ListsInv
<1>4. prev' = prev /\ entries' = entries
  BY <1>1, <1>2, <1>3 DEF Entered
<1>5. Life!TypeOK'
  <2>1. newest' \in [Queues -> All \cup {Null}] /\ alive' \subseteq Queues
    BY <1>2, <1>3
  <2> QED BY <1>2, <1>4, <2>1 DEF Life!TypeOK, Life!AllTables, All
<1>6. ListsInv'
  BY <1>2, <1>3 DEF ListsInv
<1>7. Life!TokensPaired'
  <2>1. \A x : x \in Life!Listed => x \in Life!Listed'
    BY <1>2 DEF Life!Listed
  <2> QED BY <1>2, <2>1 DEF Life!TokensPaired
<1>8. ChainsInv'
  <2> DEFINE new == [home EXCEPT ![q] = q]
  <2>1. Laid(alive', newest', prev', new, rank)
    <3>1. /\ q \in Queues /\ q \notin alive /\ alive \in SUBSET Queues
          /\ newest \in [Queues -> All \cup {Null}] /\ Laid(alive, newest, prev, home, rank)
      BY <1>1, <1>2, <1>3
    <3>2. Laid(alive \cup {q}, [newest EXCEPT ![q] = q], prev, new, rank)
      BY ONLY Life!Parameters, <3>1, LaidAdded
    <3> QED BY <1>2, <1>4, <3>2
  <2>2. new[q] = q /\ \A h \in All : h # q => new[h] = home[h]
    BY <1>3
  <2> HIDE DEF new
  <2>3. Entered(entries', members', listener', new)
    <3>1. \A h \in All : new[h] = Null => entries[h] = Life!NoEntries
      BY <1>1, <1>3, <2>2 DEF Entered
    <3>2. ASSUME NEW h \in All, NEW t \in Threads, new[h] # Null, entries[h][t] # Null
          PROVE  entries[h][t] \in members[new[h]] /\ listener[entries[h][t]] = t
      <4>1. entries[q] = [u \in Threads |-> Null]
        BY <1>1, <1>3 DEF Entered, Life!NoEntries
      <4>2. h # q
        BY <3>2, <4>1
      <4> QED BY <1>1, <2>2, <3>2, <4>2 DEF Entered
    <3>3. ASSUME NEW r \in Queues, NEW p \in members[r], listener[p] # Null
          PROVE  \E h \in All : new[h] = r /\ entries[h][listener[p]] = p
      <4>1. PICK h \in All : home[h] = r /\ entries[h][listener[p]] = p
        BY <1>1, <3>3 DEF Entered
      <4>2. h # q
        BY <1>3, <4>1
      <4> QED BY <2>2, <4>1, <4>2
    <3>4. Entered(entries, members, listener, new)
      BY <3>1, <3>2, <3>3 DEF Entered
    <3> QED BY <1>2, <1>4, <3>4
  <2>4. \E a, b : Laid(alive', newest', prev', a, b) /\ Entered(entries', members', listener', a)
    BY <2>1, <2>3
  <2> QED BY ONLY <2>4 DEF ChainsInv, Laid, Entered
<1> QED BY <1>5, <1>6, <1>7, <1>8 DEF LifeInv

LEMMA LaidRemoved ==
  ASSUME Life!Parameters, NEW A \in SUBSET Queues, NEW H, NEW V, NEW home, NEW rank,
         Laid(A, H, V, home, rank), NEW q \in A,
         NEW I, \A p \in A : p # q => I[p] = H[p],
         NEW U, \A h \in All : U[h] = IF home[h] = q THEN Null ELSE V[h],
         NEW new, new = [h \in All |-> IF home[h] = q THEN Null ELSE home[h]]
  PROVE  Laid(A \ {q}, I, U, new, rank)
<1>1. /\ home \in [All -> Queues \cup {Null}] /\ rank \in [All -> Nat]
      /\ Queues \subseteq All /\ Tables \subseteq All /\ \A p \in Queues : p # Null
  BY DEF Laid, Life!Parameters, All
<1>2. /\ new \in [All -> Queues \cup {Null}]
      /\ \A h \in All : new[h] # Null => new[h] = home[h] /\ home[h] # q
      /\ \A h \in All : home[h] # q => new[h] = home[h]
      /\ \A h \in All : home[h] = q => new[h] = Null
  BY <1>1
<1>3. \A p \in Queues :
        rank[p] = 0 /\ U[p] = Null /\ new[p] = IF p \in A \ {q} THEN p ELSE Null
  BY <1>1, <1>2 DEF Laid
<1>4. ASSUME NEW h \in Tables
      PROVE  IF new[h] = Null THEN U[h] = Null
             ELSE new[h] \in A \ {q} /\ NextTo(U, new, rank, h)
  <2>1. CASE home[h] = q \/ home[h] = Null
    BY <1>1, <1>2, <2>1 DEF Laid
  <2>2. CASE home[h] # q /\ home[h] # Null
    <3>1. home[h] \in A /\ NextTo(V, home, rank, h) /\ new[h] = home[h] /\ U[h] = V[h]
      BY <1>1, <1>2, <2>2 DEF Laid
    <3>2. V[h] \in All /\ new[V[h]] = new[h]
      BY <1>2, <2>2, <3>1 DEF NextTo
    <3>3. \A g \in All : new[g] = new[h] => home[g] = home[h]
      BY <1>2, <2>2, <3>1
    <3>4. NextTo(U, new, rank, h)
      BY <3>1, <3>2, <3>3 DEF NextTo
    <3> QED BY <2>2, <3>1, <3>4
  <2> QED BY <2>1, <2>2
<1>5. ASSUME NEW p \in A \ {q}
      PROVE  /\ I[p] \in All /\ new[I[p]] = p
             /\ \A g \in All : new[g] = p => rank[g] <= rank[I[p]]
  <2>1. /\ H[p] \in All /\ home[H[p]] = p /\ I[p] = H[p] /\ p # Null
        /\ \A g \in All : home[g] = p => rank[g] <= rank[H[p]]
    BY <1>1 DEF Laid
  <2> QED BY <1>2, <2>1
<1> QED BY <1>1, <1>2, <1>3, <1>4, <1>5 DEF Laid

LEMMA LifeDestroy ==
  ASSUME Life!Parameters, LifeInv, NEW q \in Queues, Life!Destroy(q)
  PROVE  LifeInv'
<1> Life!TypeOK /\ ListsInv /\ Life!TokensPaired
  BY DEF LifeInv
<1>1. PICK home, rank : /\ Laid(alive, newest, prev, home, rank)
                        /\ Entered(entries, members, listener, home)
  BY DEF LifeInv, ChainsInv
<1> DEFINE lost == members[q]
<1>2. /\ q \in alive /\ alive' = alive \ {q} /\ members' = [members EXCEPT ![q] = {}]
      /\ parent' = [p \in Producers |-> IF p \in lost THEN Null ELSE parent[p]]
      /\ explicit' = [p \in Producers |-> p \notin lost /\ explicit[p]]
      /\ listener' = [p \in Producers |-> IF p \in lost THEN Null ELSE listener[p]]
      /\ producerOf' = [k \in Tokens |->
           IF \E p \in lost : tokenOf[p] = k THEN Null ELSE producerOf[k]]
      /\ tokenOf' = [p \in Producers |-> IF p \in lost THEN Null ELSE tokenOf[p]]
      /\ newest' = [newest EXCEPT ![q] = Null]
      /\ prev' = [h \in All |-> IF h \in Life!Chain(q) THEN Null ELSE prev[h]]
      /\ entries' = [h \in All |->
           IF h \in Life!Chain(q) THEN Life!NoEntries ELSE entries[h]]
      /\ made' = made
  BY DEF Life!Destroy, Life!Set, Life!AllTables, All
<1>3. /\ alive \in SUBSET Queues /\ newest \in [Queues -> All \cup {Null}]
      /\ prev \in [All -> All \cup {Null}]
      /\ entries \in [All -> [Threads -> Producers \cup {Null}]]
      /\ members \in [Queues -> SUBSET Producers] /\ parent \in [Producers -> Queues \cup {Null}]
      /\ listener \in [Producers -> Threads \cup {Null}]
      /\ tokenOf \in [Producers -> Tokens \cup {Null}]
      /\ producerOf \in [Tokens -> Producers \cup {Null}]
      /\ home \in [All -> Queues \cup {Null}]
      /\ Null \notin Queues /\ Null \notin Producers /\ Null \notin Tokens /\ Null \notin Threads
      /\ Life!NoEntries \in [Threads -> Producers \cup {Null}]
  BY <1>1 DEF Life!TypeOK, Life!AllTables, All, Laid, Life!Parameters, Life!NoEntries
<1>4. \A h \in All : h \in Life!Chain(q) <=> home[h] = q
  BY <1>1, <1>2, <1>3, ChainIs
<1>5. Life!TypeOK'
  <2>1. explicit' \in [Producers -> BOOLEAN]
    BY <1>2
  <2>2. /\ alive' \subseteq Queues /\ members' \in [Queues -> SUBSET Producers]
        /\ parent' \in [Producers -> Queues \cup {Null}]
        /\ listener' \in [Producers -> Threads \cup {Null}]
        /\ newest' \in [Queues -> All \cup {Null}]
        /\ prev' \in [All -> All \cup {Null}]
    BY <1>2, <1>3
  <2>3. entries' \in [All -> [Threads -> Producers \cup {Null}]]
    BY <1>2, <1>3
  <2>4. /\ producerOf' \in [Tokens -> Producers \cup {Null}]
        /\ tokenOf' \in [Producers -> Tokens \cup {Null}]
    BY <1>2, <1>3
  <2> QED BY <1>2, <2>1, <2>2, <2>3, <2>4 DEF Life!TypeOK, Life!AllTables, All
<1>6. members'[q] = {} /\ \A r \in Queues : r # q => members'[r] = members[r]
  BY <1>2, <1>3
<1>7. /\ \A p \in Producers : p \notin lost =>
           listener'[p] = listener[p] /\ tokenOf'[p] = tokenOf[p] /\ parent'[p] = parent[p]
      /\ \A p \in Producers : p \in lost => listener'[p] = Null /\ tokenOf'[p] = Null
      /\ \A r \in Queues : r # q => members[r] \cap lost = {}
      /\ \A r \in Queues : members[r] \subseteq Producers
  BY <1>2, <1>3 DEF ListsInv
<1>8. ListsInv'
  <2>1. \A r \in Queues \ alive' : members'[r] = {} /\ newest'[r] = Null
    BY <1>2, <1>3, <1>6 DEF ListsInv
  <2>2. \A r, x \in Queues : r # x => members'[r] \cap members'[x] = {}
    BY <1>6 DEF ListsInv
  <2>3. \A r \in Queues : \A p \in members'[r] : parent'[p] = r
    BY <1>6, <1>7 DEF ListsInv
  <2>4. \A p \in Producers : listener'[p] # Null \/ tokenOf'[p] # Null =>
          \E r \in Queues : p \in members'[r]
    BY <1>6, <1>7 DEF ListsInv
  <2> QED BY <2>1, <2>2, <2>3, <2>4 DEF ListsInv
<1>9. Life!TokensPaired'
  <2>1. \A p \in Producers : p \in Life!Listed /\ p \notin lost => p \in Life!Listed'
    BY <1>2, <1>3, <1>6 DEF Life!Listed
  <2>2. ASSUME NEW k \in Tokens, producerOf'[k] # Null
        PROVE  k \in made /\ producerOf'[k] \in Life!Listed' /\ tokenOf'[producerOf'[k]] = k
    <3>1. producerOf'[k] = producerOf[k] /\ ~ \E p \in lost : tokenOf[p] = k
      BY <1>2, <2>2
    <3>2. /\ k \in made /\ producerOf[k] \in Life!Listed /\ tokenOf[producerOf[k]] = k
          /\ producerOf[k] \in Producers
      BY <1>3, <2>2, <3>1 DEF Life!TokensPaired
    <3> QED BY <1>7, <2>1, <3>1, <3>2
  <2>3. ASSUME NEW p \in Producers, tokenOf'[p] # Null
        PROVE  producerOf'[tokenOf'[p]] = p
    <3>1. p \notin lost /\ tokenOf'[p] = tokenOf[p]
      BY <1>7, <2>3
    <3>2. producerOf[tokenOf[p]] = p /\ tokenOf[p] \in Tokens
      BY <1>3, <2>3, <3>1 DEF Life!TokensPaired
    <3>3. ~ \E r \in lost : tokenOf[r] = tokenOf[p]
      BY <1>3, <1>7, <2>3, <3>1, <3>2 DEF Life!TokensPaired
    <3> QED BY <1>2, <3>1, <3>2, <3>3
  <2> QED BY <1>2, <2>2, <2>3 DEF Life!TokensPaired
<1>10. ChainsInv'
  <2> DEFINE new == [h \in All |-> IF home[h] = q THEN Null ELSE home[h]]
  <2>1. Laid(alive', newest', prev', new, rank)
    <3>1. \A r \in alive : r # q => newest'[r] = newest[r]
      BY <1>2, <1>3
    <3>2. \A h \in All : prev'[h] = IF home[h] = q THEN Null ELSE prev[h]
      BY <1>2, <1>4
    <3>3. new = [h \in All |-> IF home[h] = q THEN Null ELSE home[h]]
      OBVIOUS
    <3>4. alive \in SUBSET Queues /\ q \in alive /\ alive' = alive \ {q}
          /\ Laid(alive, newest, prev, home, rank)
      BY <1>1, <1>2, <1>3
    <3> HIDE DEF new
    <3>5. Laid(alive \ {q}, newest', prev', new, rank)
      BY ONLY Life!Parameters, <3>1, <3>2, <3>3, <3>4, LaidRemoved
    <3> QED BY <3>4, <3>5
  <2>2. /\ \A h \in All : home[h] = q => new[h] = Null /\ entries'[h] = Life!NoEntries
        /\ \A h \in All : home[h] # q => new[h] = home[h] /\ entries'[h] = entries[h]
    BY <1>2, <1>4
  <2> HIDE DEF new
  <2>3. Entered(entries', members', listener', new)
    <3>1. \A h \in All : new[h] = Null => entries'[h] = Life!NoEntries
      BY <1>1, <2>2 DEF Entered
    <3>2. ASSUME NEW h \in All, NEW t \in Threads, new[h] # Null, entries'[h][t] # Null
          PROVE  entries'[h][t] \in members'[new[h]] /\ listener'[entries'[h][t]] = t
      <4>1. home[h] # q /\ new[h] = home[h] /\ entries'[h] = entries[h] /\ home[h] \in Queues
        BY <1>3, <2>2, <3>2
      <4>2. entries[h][t] \in members[home[h]] /\ listener[entries[h][t]] = t
        BY <1>1, <3>2, <4>1 DEF Entered
      <4>3. entries[h][t] \in Producers /\ entries[h][t] \notin lost
        BY <1>7, <4>1, <4>2
      <4> QED BY <1>6, <1>7, <4>1, <4>2, <4>3
    <3>3. ASSUME NEW r \in Queues, NEW p \in members'[r], listener'[p] # Null
          PROVE  \E h \in All : new[h] = r /\ entries'[h][listener'[p]] = p
      <4>1. r # q /\ p \in members[r] /\ p \in Producers /\ listener'[p] = listener[p]
        BY <1>6, <1>7, <3>3
      <4>2. PICK h \in All : home[h] = r /\ entries[h][listener[p]] = p
        BY <1>1, <3>3, <4>1 DEF Entered
      <4> QED BY <2>2, <4>1, <4>2
    <3> QED BY <3>1, <3>2, <3>3 DEF Entered
  <2>4. \E a, b : Laid(alive', newest', prev', a, b) /\ Entered(entries', members', listener', a)
    BY <2>1, <2>3
  <2> QED BY ONLY <2>4 DEF ChainsInv, Laid, Entered
<1> QED BY <1>5, <1>8, <1>9, <1>10 DEF LifeInv

\* Two queues are swapped, with all they have; A, E and H say what queues there
\* are then and what tables they had.
LEMMA LifeSwapped ==
  ASSUME Life!Parameters, Life!TypeOK, ListsInv, Life!TokensPaired,
         NEW A \in SUBSET Queues, alive \subseteq A, alive' = A,
         NEW E \in [All -> [Threads -> Producers \cup {Null}]],
         NEW H \in [Queues -> All \cup {Null}], \A r \in Queues \ A : H[r] = Null,
         NEW home, NEW rank, Laid(A, H, prev, home, rank),
         Entered(E, members, listener, home),
         NEW a \in A, NEW b \in A, a # b,
         Life!swap_implicit_producer_hashes(E, H, a, b),
         members' = [members EXCEPT ![a] = members[b], ![b] = members[a]],
         Life!reown_producers(members'),
         UNCHANGED <<explicit, listener, made, producerOf, tokenOf>>
  PROVE  LifeInv'
<1> DEFINE s == [x \in All \cup {Null} |-> IF x = a THEN b ELSE IF x = b THEN a ELSE x]
           new == [h \in All |-> s[home[s[h]]]]
<1>1. /\ alive \in SUBSET Queues /\ A \subseteq Queues /\ Queues \subseteq All /\ Tables \subseteq All
      /\ members \in [Queues -> SUBSET Producers]
      /\ parent \in [Producers -> Queues \cup {Null}]
      /\ prev \in [All -> All \cup {Null}]
      /\ home \in [All -> Queues \cup {Null}] /\ rank \in [All -> Nat]
      /\ Null \notin All /\ a \in Queues /\ b \in Queues /\ a \notin Tables /\ b \notin Tables
      /\ Queues \cap Tables = {}
      /\ \A r \in Queues : prev[r] = Null
      /\ \A r \in A : H[r] \in All
  BY DEF Life!TypeOK, Life!AllTables, All, Laid, Life!Parameters
<1>2. /\ entries' = [E EXCEPT ![a] = E[b], ![b] = E[a]]
      /\ newest' = [H EXCEPT ![a] = IF H[b] = a THEN b ELSE IF H[b] = b THEN a ELSE H[b],
                             ![b] = IF H[a] = a THEN b ELSE IF H[a] = b THEN a ELSE H[a]]
      /\ prev' = [h \in All |->
           IF h \in Tables
             THEN IF prev[h] = a THEN b ELSE IF prev[h] = b THEN a ELSE prev[h]
             ELSE IF h \in {a, b} THEN Null ELSE prev[h]]
  BY DEF Life!swap_implicit_producer_hashes, Life!AllTables, All
<1>3. Renames(s, A)
  BY <1>1 DEF Renames
<1>4. /\ \A x \in All \cup {Null} : s[x] = IF x = a THEN b ELSE IF x = b THEN a ELSE x
      /\ \A x \in All : s[x] \in All /\ s[s[x]] = x
  BY <1>1
<1> HIDE DEF s
<1>5. \A h \in All : entries'[h] = E[s[h]]
  BY <1>1, <1>2, <1>4
<1>6. \A r \in Queues : members'[r] = members[s[r]] /\ s[r] \in Queues
  BY <1>1, <1>4
<1>7. \A r \in A : newest'[r] = s[H[s[r]]]
  <2>1. s[a] = b /\ s[b] = a /\ H[a] \in All /\ H[b] \in All
    BY <1>1, <1>4
  <2>2. newest' = [H EXCEPT ![a] = s[H[b]], ![b] = s[H[a]]]
    BY <1>2, <1>4, <2>1
  <2>3. /\ newest'[a] = s[H[b]] /\ newest'[b] = s[H[a]]
        /\ \A r \in Queues : r \notin {a, b} => newest'[r] = H[r]
    BY <1>1, <2>2
  <2>4. ASSUME NEW r \in A, r # a, r # b PROVE newest'[r] = s[H[s[r]]]
    <3>1. r \in Queues /\ r \in All /\ s[r] = r /\ newest'[r] = H[r]
      BY <1>1, <1>4, <2>3, <2>4
    <3>2. H[r] \in All /\ home[H[r]] = r /\ home[a] = a /\ home[b] = b
      BY <1>1 DEF Laid
    <3>3. H[r] # a /\ H[r] # b
      BY <2>4, <3>2
    <3> QED BY <1>4, <3>1, <3>2, <3>3
  <2> QED BY <2>1, <2>3, <2>4
<1>8. \A h \in All : prev'[h] = s[prev[s[h]]]
  <2>1. ASSUME NEW h \in Queues PROVE prev'[h] = s[prev[s[h]]]
    <3>1. h \in All /\ h \notin Tables /\ s[h] \in Queues /\ s[Null] = Null
      <4>1. s[Null] = Null
        BY <1>1, <1>4
      <4>2. h \in All /\ h \notin Tables
        BY <1>1
      <4> QED BY <1>6, <4>1, <4>2
    <3>2. prev[h] = Null /\ prev[s[h]] = Null
      <4>1. \A r \in Queues : prev[r] = Null
        BY <1>1
      <4>2. h \in Queues /\ s[h] \in Queues
        BY <3>1
      <4> QED BY ONLY <4>1, <4>2
    <3>3. prev'[h] = IF h \in {a, b} THEN Null ELSE prev[h]
      BY <1>2, <3>1
    <3> QED BY <3>1, <3>2, <3>3
  <2>2. ASSUME NEW h \in Tables PROVE prev'[h] = s[prev[s[h]]]
    <3>1. h \in All /\ s[h] = h /\ prev[h] \in All \cup {Null}
      BY <1>1, <1>4
    <3>2. prev'[h] = IF prev[h] = a THEN b ELSE IF prev[h] = b THEN a ELSE prev[h]
      BY <1>2, <3>1
    <3> QED BY <1>4, <3>1, <3>2
  <2> QED BY <2>1, <2>2 DEF All
<1>9. /\ entries' \in [All -> [Threads -> Producers \cup {Null}]]
      /\ newest' \in [Queues -> All \cup {Null}]
      /\ prev' \in [All -> All \cup {Null}]
      /\ members' \in [Queues -> SUBSET Producers]
      /\ \A r \in Queues \ A : newest'[r] = Null
  <2>1. entries' \in [All -> [Threads -> Producers \cup {Null}]]
    BY <1>1, <1>2
  <2>2. newest' \in [Queues -> All \cup {Null}] /\ \A r \in Queues \ A : newest'[r] = Null
    BY <1>1, <1>2
  <2>3. prev' \in [All -> All \cup {Null}]
    BY <1>1, <1>2
  <2>4. members' \in [Queues -> SUBSET Producers]
    BY <1>1
  <2> QED BY <2>1, <2>2, <2>3, <2>4
<1>10. \A r, x \in Queues : r # x => members'[r] \cap members'[x] = {}
  <2>1. ASSUME NEW r \in Queues, NEW x \in Queues, r # x PROVE s[r] # s[x]
    BY <1>1, <1>4, <2>1
  <2>2. \A y, z \in Queues : y # z => members[y] \cap members[z] = {}
    BY DEF ListsInv
  <2>3. ASSUME NEW r \in Queues, NEW x \in Queues, r # x
        PROVE  members'[r] \cap members'[x] = {}
    <3>1. members[s[r]] \cap members[s[x]] = {}
      BY <1>6, <2>1, <2>2, <2>3
    <3> QED BY <1>6, <3>1
  <2> QED BY <2>3
<1>11. /\ parent' \in [Producers -> Queues \cup {Null}]
       /\ \A r \in Queues : \A p \in members'[r] : parent'[p] = r
  <2>1. parent' = [p \in Producers |->
          IF \E r \in Queues : p \in members'[r]
            THEN CHOOSE r \in Queues : p \in members'[r] ELSE parent[p]]
    BY DEF Life!reown_producers
  <2>2. ASSUME NEW p \in Producers, NEW r \in Queues, p \in members'[r]
        PROVE  (CHOOSE x \in Queues : p \in members'[x]) = r
    BY <1>10, <2>2
  <2>3. \A r \in Queues : \A p \in members'[r] : p \in Producers /\ parent'[p] = r
    BY <1>9, <2>1, <2>2
  <2>4. \A p \in Producers : parent'[p] \in Queues \cup {Null}
    <3> SUFFICES ASSUME NEW p \in Producers PROVE parent'[p] \in Queues \cup {Null}
      OBVIOUS
    <3>1. CASE \E r \in Queues : p \in members'[r]
      BY <2>3, <3>1
    <3>2. CASE ~ \E r \in Queues : p \in members'[r]
      BY <1>1, <2>1, <3>2
    <3> QED BY <3>1, <3>2
  <2>5. parent' = [p \in Producers |-> parent'[p]]
    BY <2>1
  <2> QED BY <2>3, <2>4, <2>5
<1>12. Life!TypeOK'
  BY <1>1, <1>9, <1>11 DEF Life!TypeOK, Life!AllTables, All
<1>13. \A p : (\E r \in Queues : p \in members'[r]) <=> \E r \in Queues : p \in members[r]
  <2>1. \A r \in Queues : s[r] \in Queues /\ members'[s[r]] = members[r]
    BY <1>1, <1>4, <1>6
  <2> QED BY <1>6, <2>1
<1>14. ListsInv'
  <2>1. \A r \in Queues \ A : members'[r] = {}
    <3> SUFFICES ASSUME NEW r \in Queues, r \notin A PROVE members'[r] = {}
      OBVIOUS
    <3>1. s[r] = r
      BY <1>1, <1>4
    <3>2. members[r] = {}
      BY DEF ListsInv
    <3> QED BY <1>6, <3>1, <3>2
  <2>2. \A p \in Producers : listener'[p] # Null \/ tokenOf'[p] # Null =>
          \E r \in Queues : p \in members'[r]
    BY <1>13 DEF ListsInv
  <2> QED BY <1>9, <1>10, <1>11, <2>1, <2>2 DEF ListsInv
<1>15. Life!TokensPaired'
  <2>1. \A x : x \in Life!Listed => x \in Life!Listed'
    <3>1. \A r \in Queues : r \notin A => members'[r] = {}
      BY <1>14 DEF ListsInv
    <3>2. \A x : (\E r \in Queues : x \in members'[r]) => x \in Life!Listed'
      BY <1>1, <3>1 DEF Life!Listed
    <3> QED BY <1>13, <3>2, ListedIs
  <2> QED BY <2>1 DEF Life!TokensPaired
<1>16. ChainsInv'
  <2>1. new = [h \in All |-> s[home[s[h]]]]
    OBVIOUS
  <2> HIDE DEF new
  <2>2. Laid(A, newest', prev', new, rank)
    BY ONLY Life!Parameters, A \in SUBSET Queues, Laid(A, H, prev, home, rank),
       <1>3, <1>7, <1>8, <2>1, LaidRenamed
  <2>3. Entered(entries', members', listener, new)
    <3>1. home \in [All -> Queues \cup {Null}] /\ \A r \in Queues : members'[r] = members[s[r]]
      BY <1>1, <1>6
    <3> QED BY ONLY Life!Parameters, Entered(E, members, listener, home), <3>1,
               <1>3, <1>5, <2>1, EnteredRenamed
  <2>4. Laid(alive', newest', prev', new, rank) /\ Entered(entries', members', listener', new)
    BY <2>2, <2>3
  <2>5. \E x, y : Laid(alive', newest', prev', x, y) /\ Entered(entries', members', listener', x)
    BY <2>4
  <2> QED BY ONLY <2>5 DEF ChainsInv, Laid, Entered
<1> QED BY <1>12, <1>14, <1>15, <1>16 DEF LifeInv

LEMMA LifeSwap ==
  ASSUME Life!Parameters, LifeInv, NEW a \in Queues, NEW b \in Queues, Life!Swap(a, b)
  PROVE  LifeInv'
<1> Life!TypeOK /\ ListsInv /\ Life!TokensPaired
  BY DEF LifeInv
<1>1. PICK home, rank : /\ Laid(alive, newest, prev, home, rank)
                        /\ Entered(entries, members, listener, home)
  BY DEF LifeInv, ChainsInv
<1>2. /\ a \in alive /\ b \in alive /\ a # b /\ alive' = alive
      /\ Life!swap_implicit_producer_hashes(entries, newest, a, b)
      /\ members' = [members EXCEPT ![a] = members[b], ![b] = members[a]]
      /\ Life!reown_producers(members')
      /\ UNCHANGED <<explicit, listener, made, producerOf, tokenOf>>
  BY DEF Life!Swap, Life!tokenVars
<1>3. /\ alive \in SUBSET Queues /\ entries \in [All -> [Threads -> Producers \cup {Null}]]
      /\ newest \in [Queues -> All \cup {Null}]
      /\ \A r \in Queues \ alive : newest[r] = Null
  BY DEF Life!TypeOK, Life!AllTables, All, ListsInv
<1> QED BY <1>1, <1>2, <1>3, LifeSwapped

\* A queue is constructed by a move: an empty one, swapped with the other.
LEMMA LifeMoveConstruct ==
  ASSUME Life!Parameters, LifeInv, NEW q \in Queues, NEW other \in Queues,
         Life!MoveConstruct(q, other)
  PROVE  LifeInv'
<1> Life!TypeOK /\ ListsInv /\ Life!TokensPaired
  BY DEF LifeInv
<1>1. PICK home, rank : /\ Laid(alive, newest, prev, home, rank)
                        /\ Entered(entries, members, listener, home)
  BY DEF LifeInv, ChainsInv
<1> DEFINE A == alive \cup {q}
           E == [entries EXCEPT ![q] = Life!NoEntries]
           H == [newest EXCEPT ![q] = q]
           new == [home EXCEPT ![q] = q]
<1>2. /\ q \notin alive /\ other \in alive /\ alive' = A
      /\ Life!swap_implicit_producer_hashes(E, H, q, other)
      /\ members' = [members EXCEPT ![q] = members[other], ![other] = {}]
      /\ Life!reown_producers(members')
      /\ UNCHANGED <<explicit, listener, made, producerOf, tokenOf>>
  BY DEF Life!MoveConstruct, Life!tokenVars
<1>3. /\ alive \in SUBSET Queues /\ entries \in [All -> [Threads -> Producers \cup {Null}]]
      /\ newest \in [Queues -> All \cup {Null}]
      /\ members \in [Queues -> SUBSET Producers] /\ members[q] = {}
      /\ \A r \in Queues \ alive : newest[r] = Null
      /\ home \in [All -> Queues \cup {Null}] /\ q \in All /\ home[q] = Null
      /\ Null \notin Queues
  BY <1>1, <1>2 DEF Life!TypeOK, Life!AllTables, All, ListsInv, Laid, Life!Parameters
<1>4. E = entries
  BY <1>1, <1>3 DEF Entered
<1>5. H \in [Queues -> All \cup {Null}] /\ \A r \in Queues \ A : H[r] = Null
  BY <1>3
<1>6. members' = [members EXCEPT ![q] = members[other], ![other] = members[q]]
  BY <1>2, <1>3
<1>7. Laid(A, H, prev, new, rank)
  <2>1. /\ q \in Queues /\ q \notin alive /\ alive \in SUBSET Queues
        /\ newest \in [Queues -> All \cup {Null}] /\ Laid(alive, newest, prev, home, rank)
    BY <1>1, <1>2, <1>3
  <2> QED BY ONLY Life!Parameters, <2>1, LaidAdded
<1>8. new[q] = q /\ \A h \in All : h # q => new[h] = home[h]
  BY <1>3
<1> HIDE DEF new, E, H
<1>9. Entered(entries, members, listener, new)
  <2>1. \A h \in All : new[h] = Null => entries[h] = Life!NoEntries
    BY <1>1, <1>3, <1>8 DEF Entered
  <2>2. ASSUME NEW h \in All, NEW t \in Threads, new[h] # Null, entries[h][t] # Null
        PROVE  entries[h][t] \in members[new[h]] /\ listener[entries[h][t]] = t
    <3>1. entries[q] = [u \in Threads |-> Null]
      BY <1>1, <1>3 DEF Entered, Life!NoEntries
    <3>2. h # q
      BY <2>2, <3>1
    <3> QED BY <1>1, <1>8, <2>2, <3>2 DEF Entered
  <2>3. ASSUME NEW r \in Queues, NEW p \in members[r], listener[p] # Null
        PROVE  \E h \in All : new[h] = r /\ entries[h][listener[p]] = p
    <3>1. PICK h \in All : home[h] = r /\ entries[h][listener[p]] = p
      BY <1>1, <2>3 DEF Entered
    <3>2. h # q
      BY <1>3, <3>1
    <3> QED BY <1>8, <3>1, <3>2
  <2> QED BY <2>1, <2>2, <2>3 DEF Entered
<1>10. A \in SUBSET Queues /\ alive \subseteq A /\ q \in A /\ other \in A /\ q # other
  BY <1>2, <1>3
<1>11. E \in [All -> [Threads -> Producers \cup {Null}]] /\ Entered(E, members, listener, new)
  BY <1>3, <1>4, <1>9
<1> HIDE DEF A
<1> QED BY ONLY Life!Parameters, Life!TypeOK, ListsInv, Life!TokensPaired,
           <1>2, <1>5, <1>6, <1>7, <1>10, <1>11, LifeSwapped

LEMMA LifeInvHolds ==
  ASSUME Life!Parameters PROVE Life!Spec => []LifeInv
<1>1. ASSUME Life!Init PROVE LifeInv
  <2> USE <1>1 DEF Life!Init
  <2>1. Life!TypeOK
    BY DEF Life!TypeOK, Life!NoEntries, Life!AllTables
  <2>2. ListsInv /\ Life!TokensPaired
    BY DEF ListsInv, Life!TokensPaired
  <2>3. ChainsInv
    <3> DEFINE home == [h \in All |-> Null]
               rank == [h \in All |-> 0]
    <3>1. Laid(alive, newest, prev, home, rank)
      BY DEF Laid, Life!AllTables, All
    <3>2. Entered(entries, members, listener, home)
      BY DEF Entered, Life!AllTables, All
    <3> QED BY <3>1, <3>2 DEF ChainsInv
  <2> QED BY <2>1, <2>2, <2>3 DEF LifeInv
<1>2. ASSUME LifeInv, Life!Next PROVE LifeInv'
  BY <1>2, LifeConstruct, LifeDestroy, LifeMoveConstruct, LifeSwap, LifeThreadExit,
     LifeEnqueue, LifeEnqueueCopies, LifeTokenMade, LifeTokenMoves
     DEF Life!Next, Life!QueueStep, Life!ProducerStep, Life!TokenStep
<1>3. ASSUME LifeInv, UNCHANGED Life!vars PROVE LifeInv'
  <2>1. UNCHANGED <<alive, members, parent, explicit, listener, newest, prev, entries,
                    made, producerOf, tokenOf>>
    BY <1>3 DEF Life!vars, Life!ownVars, Life!hashVars, Life!tokenVars
  <2>2. Life!TypeOK' /\ ListsInv' /\ Life!TokensPaired'
    BY <1>3, <2>1 DEF LifeInv, Life!TypeOK, ListsInv, Life!TokensPaired, Life!Listed
  <2>3. ChainsInv'
    <3>1. PICK home, rank : /\ Laid(alive, newest, prev, home, rank)
                            /\ Entered(entries, members, listener, home)
      BY <1>3 DEF LifeInv, ChainsInv
    <3>2. (Laid(alive, newest, prev, home, rank) /\ Entered(entries, members, listener, home))'
      BY <2>1, <3>1 DEF Laid, Entered
    <3> QED BY <3>2 DEF ChainsInv
  <2> QED BY <2>2, <2>3 DEF LifeInv
<1> QED BY <1>1, <1>2, <1>3, PTL DEF Life!Spec

\* Addresses of queues, tables, producers, threads and tokens stay what they are.
THEOREM LifeTypesHold ==
  ASSUME Life!Parameters PROVE Life!Spec => []Life!TypeOK
<1>1. LifeInv => Life!TypeOK
  BY DEF LifeInv
<1> QED BY <1>1, LifeInvHolds, PTL

\* After any moves and swaps, each queue's tables are its own, and a search among
\* them ends in the one that is part of the queue.
THEOREM LifeChainsApart ==
  ASSUME Life!Parameters PROVE Life!Spec => []Life!ChainsApart
<1>1. ASSUME LifeInv PROVE Life!ChainsApart
  <2>1. PICK home, rank : /\ Laid(alive, newest, prev, home, rank)
                          /\ Entered(entries, members, listener, home)
    BY <1>1 DEF LifeInv, ChainsInv
  <2>2. alive \in SUBSET Queues
    BY <1>1 DEF LifeInv, Life!TypeOK
  <2>3. \A q \in alive : Life!Chain(q) = {h \in All : home[h] = q}
    BY <2>1, <2>2, ChainIs
  <2>4. \A q \in alive : prev[q] = Null /\ \A r \in Queues : home[r] = q <=> r = q
    BY <2>1, <2>2 DEF Laid, Life!Parameters
  <2>5. ASSUME NEW q \in alive
        PROVE  /\ Life!Chain(q) \cap Queues = {q} /\ prev[q] = Null
               /\ \A r \in alive \ {q} : Life!Chain(q) \cap Life!Chain(r) = {}
    BY <2>2, <2>3, <2>4 DEF All
  <2> QED BY <2>5 DEF Life!ChainsApart
<1> QED BY <1>1, LifeInvHolds, PTL

\* A thread that enqueues in the queue its producer was moved to finds that
\* producer, the one that listens to its exit, with this queue for parent.
THEOREM LifeFollowsTheMove ==
  ASSUME Life!Parameters PROVE Life!Spec => []Life!FollowsTheMove
<1>1. ASSUME LifeInv PROVE Life!FollowsTheMove
  <2>1. PICK home, rank : /\ Laid(alive, newest, prev, home, rank)
                          /\ Entered(entries, members, listener, home)
    BY <1>1 DEF LifeInv, ChainsInv
  <2>2. /\ Life!TypeOK /\ ListsInv /\ alive \subseteq Queues
        /\ Null \notin Threads /\ Null \notin Queues
    BY <1>1 DEF LifeInv, Life!TypeOK, Life!Parameters
  <2>3. ASSUME NEW q \in alive, NEW t \in Threads
        PROVE  {entries[h][t] : h \in Life!Found(q, t)} = {p \in members[q] : listener[p] = t}
    <3>1. ASSUME NEW h \in Life!Found(q, t)
          PROVE  entries[h][t] \in members[q] /\ listener[entries[h][t]] = t
      <4>1. h \in All /\ home[h] = q /\ entries[h][t] # Null
        BY <2>1, <2>2, WhatIsFound
      <4> QED BY <2>1, <2>2, <4>1 DEF Entered
    <3>2. ASSUME NEW p \in members[q], listener[p] = t
          PROVE  \E h \in Life!Found(q, t) : entries[h][t] = p
      <4>1. PICK h \in All : home[h] = q /\ entries[h][t] = p
        BY <2>1, <2>2, <3>2 DEF Entered
      <4>2. p # Null
        BY <2>2 DEF Life!TypeOK, Life!Parameters
      <4>3. h \in Life!Found(q, t)
        BY <2>1, <2>2, <4>1, <4>2, WhatIsFound
      <4> QED BY <4>1, <4>3
    <3> QED BY <3>1, <3>2
  <2> QED BY <2>2, <2>3 DEF Life!FollowsTheMove, ListsInv
<1> QED BY <1>1, LifeInvHolds, PTL

\* A token and its producer point to each other or not at all, however tokens are
\* moved and swapped and whatever is destroyed first.
THEOREM LifeTokensPaired ==
  ASSUME Life!Parameters PROVE Life!Spec => []Life!TokensPaired
<1>1. LifeInv => Life!TokensPaired
  BY DEF LifeInv
<1> QED BY <1>1, LifeInvHolds, PTL
=============================================================================
