----------------------------- MODULE SharedRing -----------------------------
(***************************************************************************)
(* The queues of src/src/util/atomic_queue/atomic_queue.h when several     *)
(* threads push and several pop (SPSC is false): AtomicQueue and           *)
(* AtomicQueueB, whose elements are atomic and NIL where there is none,    *)
(* and AtomicQueue2 and AtomicQueueB2, which keep a state beside each      *)
(* element.  push and pop draw an index and wait for its slot; try_push    *)
(* and try_pop draw one only if the counters say that there is room or an  *)
(* element, and RetryDecorator's push and pop repeat those.                *)
(*                                                                         *)
(* An element is named by the index it was pushed with.  Threads that push *)
(* to one slot in different laps wait for it in no order: an element may   *)
(* be overtaken by one a whole lap younger.                                *)
(***************************************************************************)
EXTENDS Integers, FiniteSets

CONSTANTS
  Threads,
  RingSize,   \* size_, a power of two in the queues the program could build
  IndexMod,   \* number of values of head_ and tail_
  FirstIndex, \* where the counters begin,
  LastIndex,  \* and, a bound, where no index is drawn any more
  MaxAhead,   \* bound: how far push runs ahead of tail_, or pop of head_
  Nil         \* no element

\* What the parameters are.
Parameters ==
  /\ IsFiniteSet(Threads) /\ {RingSize, IndexMod} \subseteq Nat \ {0}
  /\ FirstIndex \in 0 .. IndexMod - 1

\* The difference of the counters is less than half of their range.
CountersWide == RingSize + Cardinality(Threads) < IndexMod \div 2

\* The bound is reached within a turn: no index is drawn twice.
OneTurn == LastIndex \in 0 .. IndexMod - 1

VARIABLES
  atomic,   \* are the elements atomic?
  trying,   \* do all threads use try_push and try_pop only?
  head, tail,
  state,    \* slot -> its state; for atomic elements EMPTY is NIL
  element,  \* slot -> the element there
  pc,       \* next step of a thread's call
  seen,     \* the counter it has loaded, or the index it has drawn
  taken     \* the element it has taken

ringVars == <<head, tail, state, element>>
vars == <<atomic, trying, ringVars, pc, seen, taken>>

Slots == 0 .. RingSize - 1
Slot(i) == i % RingSize

\* The ring is constructed empty, and the counters may have wrapped.
Init ==
  /\ atomic \in BOOLEAN /\ trying \in BOOLEAN
  /\ head = FirstIndex /\ tail = FirstIndex
  /\ state = [s \in Slots |-> "EMPTY"] /\ element = [s \in Slots |-> Nil]
  /\ pc = [t \in Threads |-> "idle"] /\ seen = [t \in Threads |-> 0]
  /\ taken = [t \in Threads |-> Nil]

\* a - b as the code's int.
Apart(a, b) ==
  LET d == (a - b) % IndexMod IN IF d < IndexMod \div 2 THEN d ELSE d - IndexMod

was_size == IF Apart(head, tail) > 0 THEN Apart(head, tail) ELSE 0

Goto(t, place) == pc' = [pc EXCEPT ![t] = place]
Next1(i) == (i + 1) % IndexMod

-----------------------------------------------------------------------------
(* Drawing an index *)

\* push: fetch_add.
Push(t) ==
  /\ pc[t] = "idle" /\ ~trying /\ Apart(head, tail) < MaxAhead /\ head # LastIndex
  /\ head' = Next1(head) /\ seen' = [seen EXCEPT ![t] = head]
  /\ Goto(t, "push")
  /\ UNCHANGED <<tail, state, element, taken>>

\* pop: fetch_add.
Pop(t) ==
  /\ pc[t] = "idle" /\ ~trying /\ Apart(tail, head) < MaxAhead /\ tail # LastIndex
  /\ tail' = Next1(tail) /\ seen' = [seen EXCEPT ![t] = tail]
  /\ Goto(t, "pop")
  /\ UNCHANGED <<head, state, element, taken>>

\* try_push and try_pop load their own counter, ...
TryPush(t) ==
  /\ pc[t] = "idle"
  /\ seen' = [seen EXCEPT ![t] = head] /\ Goto(t, "room")
  /\ UNCHANGED <<ringVars, taken>>
TryPop(t) ==
  /\ pc[t] = "idle"
  /\ seen' = [seen EXCEPT ![t] = tail] /\ Goto(t, "some")
  /\ UNCHANGED <<ringVars, taken>>

Fail(t) == Goto(t, "idle") /\ seen' = [seen EXCEPT ![t] = 0] /\ UNCHANGED <<ringVars, taken>>

\* ... then the other one; they return false, ...
IsFull(t) == pc[t] = "room" /\ Apart(seen[t], tail) >= RingSize /\ Fail(t)
IsEmpty(t) == pc[t] = "some" /\ Apart(head, seen[t]) <= 0 /\ Fail(t)

HasRoom(t) ==
  /\ pc[t] = "room" /\ Apart(seen[t], tail) < RingSize
  /\ Goto(t, "drawHead") /\ UNCHANGED <<ringVars, seen, taken>>
HasSome(t) ==
  /\ pc[t] = "some" /\ Apart(head, seen[t]) > 0
  /\ Goto(t, "drawTail") /\ UNCHANGED <<ringVars, seen, taken>>

\* Mutant: head_ is not compared.
DrawHeadBlind(t) ==
  /\ pc[t] = "drawHead" /\ head # LastIndex
  /\ head' = Next1(head) /\ seen' = [seen EXCEPT ![t] = head] /\ Goto(t, "push")
  /\ UNCHANGED <<tail, state, element, taken>>

\* ... or draw an index with a compare-exchange, which gives a newer value to
\* test if it fails.
DrawHead(t) ==
  /\ pc[t] = "drawHead" /\ head # LastIndex
  /\ IF head = seen[t]
       THEN head' = Next1(head) /\ Goto(t, "push") /\ UNCHANGED seen
       ELSE seen' = [seen EXCEPT ![t] = head] /\ Goto(t, "room") /\ UNCHANGED head
  /\ UNCHANGED <<tail, state, element, taken>>
DrawTail(t) ==
  /\ pc[t] = "drawTail" /\ tail # LastIndex
  /\ IF tail = seen[t]
       THEN tail' = Next1(tail) /\ Goto(t, "pop") /\ UNCHANGED seen
       ELSE seen' = [seen EXCEPT ![t] = tail] /\ Goto(t, "some") /\ UNCHANGED tail
  /\ UNCHANGED <<head, state, element, taken>>

-----------------------------------------------------------------------------
(* do_push and do_pop: a compare-exchange that fails is tried again *)

Mark(t, from, to) ==
  /\ state[Slot(seen[t])] = from
  /\ state' = [state EXCEPT ![Slot(seen[t])] = to]

\* Mutant: the slot's state is loaded, and not exchanged for STORING.
StartStoreUnmarked(t) ==
  /\ pc[t] = "push" /\ ~atomic /\ Mark(t, "EMPTY", "EMPTY")
  /\ Goto(t, "store")
  /\ UNCHANGED <<head, tail, element, seen, taken>>

\* do_push_any
StartStore(t) ==
  /\ pc[t] = "push" /\ ~atomic /\ Mark(t, "EMPTY", "STORING")
  /\ Goto(t, "store")
  /\ UNCHANGED <<head, tail, element, seen, taken>>
Store(t) ==
  /\ pc[t] = "store"
  /\ element' = [element EXCEPT ![Slot(seen[t])] = seen[t]]
  /\ Goto(t, "stored")
  /\ UNCHANGED <<head, tail, state, seen, taken>>
EndStore(t) ==
  /\ pc[t] = "stored"
  /\ state' = [state EXCEPT ![Slot(seen[t])] = "STORED"]
  /\ Goto(t, "idle") /\ seen' = [seen EXCEPT ![t] = 0]
  /\ UNCHANGED <<head, tail, element, taken>>

\* do_pop_any
StartLoad(t) ==
  /\ pc[t] = "pop" /\ ~atomic /\ Mark(t, "STORED", "LOADING")
  /\ Goto(t, "load")
  /\ UNCHANGED <<head, tail, element, seen, taken>>
Load(t) ==
  /\ pc[t] = "load"
  /\ taken' = [taken EXCEPT ![t] = element[Slot(seen[t])]]
  /\ Goto(t, "loaded")
  /\ UNCHANGED <<ringVars, seen>>
EndLoad(t) ==
  /\ pc[t] = "loaded"
  /\ state' = [state EXCEPT ![Slot(seen[t])] = "EMPTY"]
  /\ Goto(t, "idle") /\ seen' = [seen EXCEPT ![t] = 0]
  /\ taken' = [taken EXCEPT ![t] = Nil]
  /\ UNCHANGED <<head, tail, element>>

\* Mutant: stored over whatever is there.
StoreAtomicOver(t) ==
  /\ pc[t] = "push" /\ atomic
  /\ state' = [state EXCEPT ![Slot(seen[t])] = "STORED"]
  /\ element' = [element EXCEPT ![Slot(seen[t])] = seen[t]]
  /\ Goto(t, "idle") /\ seen' = [seen EXCEPT ![t] = 0]
  /\ UNCHANGED <<head, tail, taken>>

\* do_push_atomic
StoreAtomic(t) ==
  /\ pc[t] = "push" /\ atomic /\ Mark(t, "EMPTY", "STORED")
  /\ element' = [element EXCEPT ![Slot(seen[t])] = seen[t]]
  /\ Goto(t, "idle") /\ seen' = [seen EXCEPT ![t] = 0]
  /\ UNCHANGED <<head, tail, taken>>

\* Mutant: a load, and later a store of NIL.
LoadAtomicOnly(t) ==
  /\ pc[t] = "pop" /\ atomic /\ Mark(t, "STORED", "STORED")
  /\ taken' = [taken EXCEPT ![t] = element[Slot(seen[t])]]
  /\ Goto(t, "loaded")
  /\ UNCHANGED <<head, tail, element, seen>>

\* do_pop_atomic: exchange.  The element is the caller's in the next step.
LoadAtomic(t) ==
  /\ pc[t] = "pop" /\ atomic /\ Mark(t, "STORED", "EMPTY")
  /\ taken' = [taken EXCEPT ![t] = element[Slot(seen[t])]]
  /\ Goto(t, "has")
  /\ UNCHANGED <<head, tail, element, seen>>
Has(t) ==
  /\ pc[t] = "has"
  /\ Goto(t, "idle") /\ seen' = [seen EXCEPT ![t] = 0]
  /\ taken' = [taken EXCEPT ![t] = Nil]
  /\ UNCHANGED ringVars

-----------------------------------------------------------------------------
Call(t) == Push(t) \/ Pop(t) \/ TryPush(t) \/ TryPop(t)

Resume(t) ==
  \/ IsFull(t) \/ IsEmpty(t) \/ HasRoom(t) \/ HasSome(t) \/ DrawHead(t) \/ DrawTail(t)
  \/ StartStore(t) \/ Store(t) \/ EndStore(t) \/ StartLoad(t) \/ Load(t) \/ EndLoad(t)
  \/ StoreAtomic(t) \/ LoadAtomic(t) \/ Has(t)

Next == (\E t \in Threads : Call(t) \/ Resume(t)) /\ UNCHANGED <<atomic, trying>>

Spec == Init /\ [][Next]_vars

-----------------------------------------------------------------------------
(* Properties *)

TypeOK ==
  /\ head \in 0 .. IndexMod - 1 /\ tail \in 0 .. IndexMod - 1
  /\ state \in [Slots -> {"EMPTY", "STORING", "STORED", "LOADING"}]
  /\ element \in [Slots -> 0 .. IndexMod - 1 \cup {Nil}]
  /\ seen \in [Threads -> 0 .. IndexMod - 1]
  /\ taken \in [Threads -> 0 .. IndexMod - 1 \cup {Nil}]

At(places, s) == {t \in Threads : pc[t] \in places /\ Slot(seen[t]) = s}

\* An element that is not atomic is touched by one thread at a time, the one
\* that has marked its slot, even when pushes and pops of several laps wait for
\* the same slot.
OneAtASlot ==
  \A s \in Slots :
    /\ Cardinality(At({"store", "stored"}, s)) = (IF state[s] = "STORING" THEN 1 ELSE 0)
    /\ Cardinality(At({"load", "loaded"}, s)) =
         (IF state[s] = "LOADING" THEN 1 ELSE 0)

\* Every index drawn by a push and not by a pop is an element: stored, being
\* stored, or waiting to be; and every one drawn by a pop too soon is a thread
\* that waits.  So no element is lost or popped twice.
Stored == {s \in Slots : state[s] = "STORED"}
Pushing == {t \in Threads : pc[t] \in {"push", "store", "stored"}}
Popping == {t \in Threads : pc[t] = "pop"}
ElementsCounted ==
  Apart(head, tail) = Cardinality(Stored) + Cardinality(Pushing) - Cardinality(Popping)

\* No element is taken by two threads, nor taken and still there.
TakenOnce ==
  \A t \in Threads : taken[t] # Nil =>
    /\ \A u \in Threads \ {t} : taken[u] # taken[t]
    /\ \A s \in Stored : element[s] # taken[t]

\* try_push draws an index only if there is room and try_pop only if there is
\* an element, though each loads the two counters at different times.
CountersBound == trying => Apart(head, tail) \in 0 .. RingSize
=============================================================================
