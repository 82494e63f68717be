------------------------------- MODULE Barrier -------------------------------
(***************************************************************************)
(* atomic_queue::Barrier (src/src/util/atomic_queue/barrier.h): threads    *)
(* wait until another one, which waits for all of them, releases them.     *)
(* A thread may call wait again while others have not left yet; it then    *)
(* may keep these inside, and for ever.                                    *)
(***************************************************************************)
EXTENDS Integers, FiniteSets

CONSTANTS
  Threads,
  MaxRounds \* bound: calls of wait by each thread

\* What the parameters are.
Parameters == IsFiniteSet(Threads) /\ MaxRounds \in Nat

VARIABLES
  counter,       \* counter_
  inside,        \* the threads in wait
  arrived, left, \* thread -> the calls of wait it has begun, and ended
  releasing      \* has release found the counter it expects?

vars == <<counter, inside, arrived, left, releasing>>

Init ==
  /\ counter = 0 /\ inside = {} /\ releasing = FALSE
  /\ arrived = [t \in Threads |-> 0] /\ left = [t \in Threads |-> 0]

Arrive(t) ==
  /\ t \notin inside /\ arrived[t] < MaxRounds
  /\ counter' = counter + 1 /\ inside' = inside \cup {t}
  /\ arrived' = [arrived EXCEPT ![t] = @ + 1]
  /\ UNCHANGED <<left, releasing>>

Go(t) ==
  /\ t \in inside /\ counter = 0
  /\ inside' = inside \ {t} /\ left' = [left EXCEPT ![t] = @ + 1]
  /\ UNCHANGED <<counter, arrived, releasing>>

\* Mutant: the counter need only have reached what is expected less one.
SeeEarly ==
  /\ ~releasing /\ counter >= Cardinality(Threads) - 1
  /\ releasing' = TRUE /\ UNCHANGED <<counter, inside, arrived, left>>

See ==
  /\ ~releasing /\ counter = Cardinality(Threads)
  /\ releasing' = TRUE /\ UNCHANGED <<counter, inside, arrived, left>>

Release ==
  /\ releasing /\ counter' = 0 /\ releasing' = FALSE
  /\ UNCHANGED <<inside, arrived, left>>

Next == See \/ Release \/ \E t \in Threads : Arrive(t) \/ Go(t)

Spec == Init /\ [][Next]_vars

-----------------------------------------------------------------------------
(* Properties *)

TypeOK ==
  /\ counter \in 0 .. Cardinality(Threads) /\ inside \subseteq Threads
  /\ {arrived, left} \subseteq [Threads -> 0 .. MaxRounds]
  /\ releasing \in BOOLEAN

\* No thread ends its n-th wait before every thread has begun its n-th, also
\* if some come back before others have left.
NobodyEarly == \A t, u \in Threads : left[t] <= arrived[u]
=============================================================================
