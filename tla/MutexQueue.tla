----------------------------- MODULE MutexQueue -----------------------------
(***************************************************************************)
(* AtomicQueueMutexT (src/src/util/atomic_queue/atomic_queue_mutex.h): a   *)
(* bounded queue whose try_push and try_pop hold a lock, which is one of   *)
(* TicketSpinlock ("ticket") and UnfairSpinlock ("unfair") of spinlock.h   *)
(* or a mutex of the system, Spinlock or std::mutex ("mutex").  Nothing it *)
(* guards is atomic, hence one step per access.  An element is named by    *)
(* the index it was pushed with.                                           *)
(***************************************************************************)
EXTENDS Integers, FiniteSets

CONSTANTS
  Threads,
  RingSize,   \* size_: a power of two, for head_ % size_ jumps at the wrap if not
  IndexMod,   \* number of values of head_ and tail_, and of a ticket
  FirstIndex, \* where the counters begin,
  LastIndex,  \* and, a bound, where nothing is pushed any more
  Nil         \* no element

\* What the parameters are: there is a ticket for every thread and one to spare,
\* and the counters tell a full queue from an empty one.
Parameters ==
  /\ IsFiniteSet(Threads) /\ {RingSize, IndexMod} \subseteq Nat \ {0}
  /\ Cardinality(Threads) < IndexMod /\ RingSize < IndexMod
  /\ IndexMod % RingSize = 0 /\ FirstIndex \in 0 .. IndexMod - 1

VARIABLES
  kind,         \* the lock's class
  ticket, next, \* ticket_ and next_ of a TicketSpinlock
  lock,         \* lock_ of an UnfairSpinlock, or the system's
  head, tail, element,
  pc,           \* next step of a thread's call
  op,           \* the call, "push" or "pop"
  mine,         \* its ticket
  got           \* the element it has popped

lockVars == <<kind, ticket, next, lock>>
queueVars == <<head, tail, element>>
callVars == <<op, mine, got>>
vars == <<lockVars, queueVars, pc, callVars>>

Slots == 0 .. RingSize - 1

Init ==
  /\ kind \in {"ticket", "unfair", "mutex"}
  /\ ticket = FirstIndex /\ next = FirstIndex /\ lock = 0
  /\ head = FirstIndex /\ tail = FirstIndex /\ element = [s \in Slots |-> Nil]
  /\ pc = [t \in Threads |-> "idle"] /\ op = [t \in Threads |-> "pop"]
  /\ mine = [t \in Threads |-> 0] /\ got = [t \in Threads |-> Nil]

Goto(t, place) == pc' = [pc EXCEPT ![t] = place]
Next1(i) == (i + 1) % IndexMod
Ahead == (head - tail) % IndexMod

-----------------------------------------------------------------------------
(* lock *)

Call(t, o) ==
  /\ pc[t] = "idle" /\ (o = "push" => head # LastIndex)
  /\ op' = [op EXCEPT ![t] = o]
  /\ Goto(t, "wait")
  /\ IF kind = "ticket"
       THEN ticket' = Next1(ticket) /\ mine' = [mine EXCEPT ![t] = ticket]
       ELSE UNCHANGED <<ticket, mine>>
  /\ UNCHANGED <<kind, next, lock, queueVars, got>>

\* TicketSpinlock: position is 0.
Turn(t) ==
  /\ kind = "ticket" /\ pc[t] = "wait" /\ mine[t] = next
  /\ Goto(t, "test") /\ UNCHANGED <<lockVars, queueVars, callVars>>

\* The system's lock.
Acquire(t) ==
  /\ kind = "mutex" /\ pc[t] = "wait" /\ lock = 0
  /\ lock' = 1 /\ Goto(t, "test")
  /\ UNCHANGED <<kind, ticket, next, queueVars, callVars>>

\* UnfairSpinlock: the load sees 0, and the exchange may not any more.
See(t) ==
  /\ kind = "unfair" /\ pc[t] = "wait" /\ lock = 0
  /\ Goto(t, "exchange") /\ UNCHANGED <<lockVars, queueVars, callVars>>

\* Mutant: what the exchange returns is not looked at.
ExchangeBlind(t) ==
  /\ pc[t] = "exchange"
  /\ lock' = 1 /\ Goto(t, "test")
  /\ UNCHANGED <<kind, ticket, next, queueVars, callVars>>

Exchange(t) ==
  /\ pc[t] = "exchange"
  /\ lock' = 1 /\ Goto(t, IF lock = 0 THEN "test" ELSE "wait")
  /\ UNCHANGED <<kind, ticket, next, queueVars, callVars>>

-----------------------------------------------------------------------------
(* try_push and try_pop, inside *)

\* Mutant: the difference is not taken modulo the word.
MayUnbounded(t) == IF op[t] = "push" THEN head < tail + RingSize ELSE head # tail

May(t) == IF op[t] = "push" THEN Ahead < RingSize ELSE head # tail

Test(t) ==
  /\ pc[t] = "test" /\ Goto(t, IF May(t) THEN "move" ELSE "leave")
  /\ UNCHANGED <<lockVars, queueVars, callVars>>

Move(t) ==
  /\ pc[t] = "move" /\ Goto(t, "count")
  /\ IF op[t] = "push"
       THEN element' = [element EXCEPT ![head % RingSize] = head] /\ UNCHANGED got
       ELSE got' = [got EXCEPT ![t] = element[tail % RingSize]] /\ UNCHANGED element
  /\ UNCHANGED <<lockVars, head, tail, op, mine>>

Count(t) ==
  /\ pc[t] = "count" /\ Goto(t, "leave")
  /\ IF op[t] = "push" THEN head' = Next1(head) /\ UNCHANGED tail
                       ELSE tail' = Next1(tail) /\ UNCHANGED head
  /\ UNCHANGED <<lockVars, element, callVars>>

\* Mutant: unlock() in place of unlock(ticket): it passes next_ + 1 on.
LeaveSkips(t) ==
  /\ pc[t] = "leave" /\ Goto(t, "idle")
  /\ IF kind = "ticket" THEN next' = Next1(Next1(next)) /\ UNCHANGED lock
                        ELSE lock' = 0 /\ UNCHANGED next
  /\ op' = [op EXCEPT ![t] = "pop"] /\ mine' = [mine EXCEPT ![t] = 0]
  /\ got' = [got EXCEPT ![t] = Nil]
  /\ UNCHANGED <<kind, ticket, queueVars>>

\* unlock, by the destructor of the scoped lock.
Leave(t) ==
  /\ pc[t] = "leave" /\ Goto(t, "idle")
  /\ IF kind = "ticket" THEN next' = Next1(mine[t]) /\ UNCHANGED lock
                        ELSE lock' = 0 /\ UNCHANGED next
  /\ op' = [op EXCEPT ![t] = "pop"] /\ mine' = [mine EXCEPT ![t] = 0]
  /\ got' = [got EXCEPT ![t] = Nil]
  /\ UNCHANGED <<kind, ticket, queueVars>>

Next ==
  \E t \in Threads :
    \/ Call(t, "push") \/ Call(t, "pop")
    \/ Turn(t) \/ Acquire(t) \/ See(t) \/ Exchange(t)
    \/ Test(t) \/ Move(t) \/ Count(t) \/ Leave(t)

Spec == Init /\ [][Next]_vars

-----------------------------------------------------------------------------
(* Properties *)

TypeOK ==
  /\ {ticket, next, head, tail} \subseteq 0 .. IndexMod - 1 /\ lock \in {0, 1}
  /\ element \in [Slots -> 0 .. IndexMod - 1 \cup {Nil}]
  /\ op \in [Threads -> {"push", "pop"}] /\ mine \in [Threads -> 0 .. IndexMod - 1]
  /\ got \in [Threads -> 0 .. IndexMod - 1 \cup {Nil}]

Inside == {t \in Threads : pc[t] \in {"test", "move", "count", "leave"}}

\* Of each lock: no two threads are inside at the same time.
OneInside == Cardinality(Inside) <= 1

\* Each ticket from next_ on is some thread's, and no other's: so the turn
\* comes to every thread that waits, in the order they came, and to no thread
\* that does not, even when the tickets wrap.
TurnsWhole ==
  LET InCall == {t \in Threads : pc[t] # "idle"}
  IN kind = "ticket" =>
       /\ \A t, u \in InCall : mine[t] = mine[u] => t = u
       /\ {mine[t] : t \in InCall} =
            {(next + n) % IndexMod : n \in 0 .. ((ticket - next) % IndexMod) - 1}

\* The elements there are RingSize at most, the ones pushed last, in order, and a
\* pop gets the oldest: the queue is first-in first-out over the wrap.
InOrder ==
  /\ Ahead <= RingSize
  /\ \A n \in 0 .. Ahead - 1 :
       element[(tail + n) % RingSize] = (tail + n) % IndexMod
  /\ \A t \in Threads : pc[t] = "count" /\ op[t] = "pop" => got[t] = tail
=============================================================================
