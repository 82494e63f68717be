------------------------------ MODULE FreeList ------------------------------
(***************************************************************************)
(* moodycamel::ConcurrentQueue::FreeList (src/src/util/concurrentqueue.h): *)
(* a stack of nodes that threads push to and pop from with compare-        *)
(* exchanges.  A thread that looks at the head holds a reference to it, so *)
(* that the head's next cannot change under it; a node that is to go back  *)
(* while others hold references is added by the last one to drop its own.  *)
(*                                                                         *)
(* freeListRefs is a word of two parts, the bit SHOULD_BE_ON_FREELIST and  *)
(* the count of references; the list itself is one.  A load and the        *)
(* compare-exchange on the value loaded are one step when nothing happens  *)
(* if it fails but another load.                                           *)
(***************************************************************************)
EXTENDS Integers, FiniteSets

CONSTANTS
  Threads,
  Nodes,
  Null     \* nullptr

VARIABLES
  freeListHead,
  freeListRefs,  \* node -> the count of references
  should,        \* node -> the bit SHOULD_BE_ON_FREELIST
  freeListNext,
  fpc,           \* next step of a thread's add or try_get
  head,          \* its local of that name
  node,          \* the node it adds, or holds a reference to
  next,          \* the next it has read of that node
  got            \* the node its last try_get has returned

listVars == <<freeListHead, freeListRefs, should, freeListNext>>
localVars == <<fpc, head, node, next, got>>
freeListVars == <<listVars, localVars>>

FreeListInit ==
  /\ freeListHead = Null
  /\ freeListRefs = [n \in Nodes |-> 0] /\ should = [n \in Nodes |-> FALSE]
  /\ freeListNext = [n \in Nodes |-> Null]
  /\ fpc = [t \in Threads |-> "idle"]
  /\ head = [t \in Threads |-> Null] /\ node = [t \in Threads |-> Null]
  /\ next = [t \in Threads |-> Null] /\ got = [t \in Threads |-> Null]

Goto(t, place) == fpc' = [fpc EXCEPT ![t] = place]
Set(f, x, y) == [f EXCEPT ![x] = y]

\* The call of t returns n, or nothing.
Return(t, n) ==
  /\ Goto(t, "idle")
  /\ head' = Set(head, t, Null) /\ node' = Set(node, t, Null)
  /\ next' = Set(next, t, Null) /\ got' = Set(got, t, n)

-----------------------------------------------------------------------------
(* add *)

\* The fetch_add of the bit: add_knowing_refcount_is_zero, or whoever holds
\* the last reference adds the node.
Add(t, n) ==
  /\ fpc[t] = "idle"
  /\ should' = Set(should, n, TRUE)
  /\ IF freeListRefs[n] = 0
       THEN /\ Goto(t, "adding") /\ node' = Set(node, t, n)
            /\ UNCHANGED <<head, next, got>>
       ELSE UNCHANGED localVars
  /\ UNCHANGED <<freeListHead, freeListRefs, freeListNext>>

\* add_knowing_refcount_is_zero.  A call of add has no head loaded; the loop of
\* try_get keeps its own while it adds.
LoadTop(t) ==
  /\ fpc[t] = "adding"
  /\ next' = Set(next, t, freeListHead)
  /\ Goto(t, "link")
  /\ UNCHANGED <<listVars, head, node, got>>

\* freeListNext is stored, ...
Link(t) ==
  /\ fpc[t] = "link"
  /\ freeListNext' = Set(freeListNext, node[t], next[t])
  /\ Goto(t, "count")
  /\ UNCHANGED <<freeListHead, freeListRefs, should, head, node, next, got>>

\* Mutant: the bit is kept.
CountOneKeepsBit(t) ==
  /\ fpc[t] = "count"
  /\ freeListRefs' = Set(freeListRefs, node[t], 1)
  /\ Goto(t, "push")
  /\ UNCHANGED <<freeListHead, should, freeListNext, head, node, next, got>>

\* ... and then a reference count of one, with the bit cleared.
CountOne(t) ==
  /\ fpc[t] = "count"
  /\ freeListRefs' = Set(freeListRefs, node[t], 1)
  /\ should' = Set(should, node[t], FALSE)
  /\ Goto(t, "push")
  /\ UNCHANGED <<freeListHead, freeListNext, head, node, next, got>>

\* The loop of try_get goes on with the head it has.
Resume(t) ==
  IF head[t] = Null THEN Return(t, Null)
  ELSE /\ Goto(t, "grab")
       /\ node' = Set(node, t, Null) /\ next' = Set(next, t, Null)
       /\ UNCHANGED <<head, got>>

Push(t) ==
  /\ fpc[t] = "push"
  /\ IF freeListHead = next[t]
       THEN freeListHead' = node[t] /\ Resume(t)
       ELSE /\ next' = Set(next, t, freeListHead)
            /\ Goto(t, "retry")
            /\ UNCHANGED <<freeListHead, head, node, got>>
  /\ UNCHANGED <<freeListRefs, should, freeListNext>>

\* The add has failed: try again if nobody else has a reference, or leave it
\* to who has.
Retry(t) ==
  /\ fpc[t] = "retry"
  /\ freeListRefs' = Set(freeListRefs, node[t], freeListRefs[node[t]] - 1)
  /\ should' = Set(should, node[t], TRUE)
  /\ IF freeListRefs[node[t]] = 1
       THEN Goto(t, "link") /\ UNCHANGED <<head, node, next, got>>
       ELSE Resume(t)
  /\ UNCHANGED <<freeListHead, freeListNext>>

-----------------------------------------------------------------------------
(* try_get *)

TryGet(t) ==
  /\ fpc[t] = "idle"
  /\ IF freeListHead = Null THEN Return(t, Null)
     ELSE /\ Goto(t, "grab") /\ head' = Set(head, t, freeListHead)
          /\ UNCHANGED <<node, next, got>>
  /\ UNCHANGED listVars

\* Mutant: a reference is taken even of a node that is not on the list.
GrabAny(t) ==
  /\ fpc[t] = "grab"
  /\ freeListRefs' = Set(freeListRefs, head[t], freeListRefs[head[t]] + 1)
  /\ node' = Set(node, t, head[t]) /\ Goto(t, "next")
  /\ UNCHANGED <<freeListHead, should, freeListNext, head, next, got>>

\* A reference to the head, unless the count is zero, ...
Grab(t) ==
  /\ fpc[t] = "grab" /\ freeListRefs[head[t]] # 0
  /\ freeListRefs' = Set(freeListRefs, head[t], freeListRefs[head[t]] + 1)
  /\ node' = Set(node, t, head[t]) /\ Goto(t, "next")
  /\ UNCHANGED <<freeListHead, should, freeListNext, head, next, got>>

\* ... or changes between its load and the compare-exchange: then the head is
\* loaded again.
Reload(t) ==
  /\ fpc[t] = "grab"
  /\ IF freeListHead = Null THEN Return(t, Null)
     ELSE head' = Set(head, t, freeListHead) /\ UNCHANGED <<fpc, node, next, got>>
  /\ UNCHANGED listVars

ReadNext(t) ==
  /\ fpc[t] = "next"
  /\ next' = Set(next, t, freeListNext[node[t]]) /\ Goto(t, "pop")
  /\ UNCHANGED <<listVars, head, node, got>>

Pop(t) ==
  /\ fpc[t] = "pop"
  /\ IF freeListHead = node[t]
       THEN freeListHead' = next[t] /\ Goto(t, "take") /\ UNCHANGED head
       ELSE /\ head' = Set(head, t, freeListHead) /\ Goto(t, "drop")
            /\ UNCHANGED freeListHead
  /\ UNCHANGED <<freeListRefs, should, freeListNext, node, next, got>>

\* Both references go, t's and the list's.
TakeNode(t) ==
  /\ fpc[t] = "take"
  /\ freeListRefs' = Set(freeListRefs, node[t], freeListRefs[node[t]] - 2)
  /\ Return(t, node[t])
  /\ UNCHANGED <<freeListHead, should, freeListNext>>

\* Mutant: two references go, as if the node had been taken.
DropTwo(t) ==
  LET n == node[t]
  IN /\ fpc[t] = "drop"
     /\ freeListRefs' = Set(freeListRefs, n, freeListRefs[n] - 2)
     /\ IF should[n] /\ freeListRefs[n] = 1
          THEN Goto(t, "adding") /\ UNCHANGED <<head, node, next, got>>
          ELSE Resume(t)
     /\ UNCHANGED <<freeListHead, should, freeListNext>>

\* Mutant: nobody adds a node that should be on the list.
DropSilent(t) ==
  /\ fpc[t] = "drop"
  /\ freeListRefs' = Set(freeListRefs, node[t], freeListRefs[node[t]] - 1)
  /\ Resume(t)
  /\ UNCHANGED <<freeListHead, should, freeListNext>>

\* The head has changed: the reference is dropped, and if it was the last one
\* to a node that should be on the list, the node is added.
Drop(t) ==
  LET n == node[t]
  IN /\ fpc[t] = "drop"
     /\ freeListRefs' = Set(freeListRefs, n, freeListRefs[n] - 1)
     /\ IF should[n] /\ freeListRefs[n] = 1
          THEN Goto(t, "adding") /\ UNCHANGED <<head, node, next, got>>
          ELSE Resume(t)
     /\ UNCHANGED <<freeListHead, should, freeListNext>>

FreeListStep(t) ==
  \/ LoadTop(t) \/ Link(t) \/ CountOne(t) \/ Push(t) \/ Retry(t)
  \/ Grab(t) \/ Reload(t) \/ ReadNext(t) \/ Pop(t) \/ TakeNode(t) \/ Drop(t)

-----------------------------------------------------------------------------
(* Properties *)

FreeListTypeOK ==
  /\ freeListHead \in Nodes \cup {Null}
  /\ freeListRefs \in [Nodes -> 0 .. Cardinality(Threads) + 1]
  /\ should \in [Nodes -> BOOLEAN]
  /\ freeListNext \in [Nodes -> Nodes \cup {Null}]
  /\ fpc \in [Threads -> {"idle", "adding", "link", "count", "push", "retry",
                          "grab", "next", "pop", "take", "drop"}]
  /\ \A f \in {head, node, next, got} : f \in [Threads -> Nodes \cup {Null}]

\* The node n places from the head.
Nth[n \in Nat] ==
  IF n = 0 THEN freeListHead
  ELSE IF Nth[n - 1] = Null THEN Null ELSE freeListNext[Nth[n - 1]]
OnList == {Nth[n] : n \in 0 .. Cardinality(Nodes)} \ {Null}
=============================================================================
