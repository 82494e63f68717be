---------------------------- MODULE ProducerBase ----------------------------
(***************************************************************************)
(* moodycamel::ConcurrentQueue (src/src/util/concurrentqueue.h) keeps one  *)
(* sub-queue per producer.  This module is what its two kinds share: the   *)
(* four counters of ProducerBase, and the protocol by which consumers      *)
(* claim elements with them, the first part of dequeue and dequeue_bulk    *)
(* (dequeue is the case max = 1).  What follows a claim is BlockStore.     *)
(*                                                                         *)
(* Each step touches shared memory once, but for the three loads of the    *)
(* first estimate: made at three moments they give no more than one moment *)
(* and a smaller max.                                                      *)
(***************************************************************************)
EXTENDS CircularIndex, FiniteSetsExt

CONSTANTS
  Consumers,  \* threads that dequeue
  MaxBulk     \* bound: the most elements one call asks for or brings

\* What the parameters are: a call is for fewer elements than half the indices.
BaseParameters ==
  /\ IsFiniteSet(Consumers) /\ MaxBulk \in Nat \ {0}
  /\ 2 * MaxBulk < IndexMod

VARIABLES
  tailIndex, headIndex,
  dequeueOptimisticCount, dequeueOvercommit,
  cpc,        \* next step of a consumer's call
  overcommit, \* its load of dequeueOvercommit
  mine,       \* its value of dequeueOptimisticCount
  want,       \* desiredCount
  left        \* actualCount: the elements it may claim, or has claimed

counterVars == <<tailIndex, headIndex, dequeueOptimisticCount, dequeueOvercommit>>
claimVars == <<cpc, overcommit, mine, want, left>>
baseVars == <<counterVars, claimVars>>

BaseInit ==
  /\ tailIndex = 0 /\ headIndex = 0
  /\ dequeueOptimisticCount = 0 /\ dequeueOvercommit = 0
  /\ cpc = [c \in Consumers |-> "idle"]
  /\ overcommit = [c \in Consumers |-> 0] /\ mine = [c \in Consumers |-> 0]
  /\ want = [c \in Consumers |-> 0] /\ left = [c \in Consumers |-> 0]

Goto(c, place) == cpc' = [cpc EXCEPT ![c] = place]

\* A call returns, with n elements: its locals are gone.
Leave(c, n) ==
  /\ Goto(c, "idle")
  /\ overcommit' = [overcommit EXCEPT ![c] = 0]
  /\ mine' = [mine EXCEPT ![c] = 0] /\ want' = [want EXCEPT ![c] = 0]
  /\ left' = [left EXCEPT ![c] = n]

\* The elements there seem to be: nobody's claim goes beyond them.
Seen(counted, over) == (tailIndex - (counted - over)) % IndexMod

-----------------------------------------------------------------------------
\* The first estimate; a call that finds nothing returns 0 without a trace.
DequeueCall(c, max) ==
  LET seen == Seen(dequeueOptimisticCount, dequeueOvercommit)
  IN /\ cpc[c] = "idle"
     /\ circular_less_than(0, seen)
     /\ Goto(c, "reserve")
     /\ want' = [want EXCEPT ![c] = IF seen < max THEN seen ELSE max]
     /\ overcommit' = [overcommit EXCEPT ![c] = dequeueOvercommit]
     /\ UNCHANGED <<counterVars, mine, left>>

Reserve(c) ==
  /\ cpc[c] = "reserve"
  /\ mine' = [mine EXCEPT ![c] = dequeueOptimisticCount]
  /\ dequeueOptimisticCount' = Plus(dequeueOptimisticCount, want[c])
  /\ Goto(c, "decide")
  /\ UNCHANGED <<tailIndex, headIndex, dequeueOvercommit,
                 overcommit, want, left>>

\* Mutant: one that finds any element takes as many as it wants.
DecideAll(c) ==
  LET seen == Seen(mine[c], overcommit[c])
      actual == IF circular_less_than(0, seen) THEN want[c] ELSE 0
  IN /\ cpc[c] = "decide"
     /\ left' = [left EXCEPT ![c] = actual]
     /\ Goto(c, IF actual < want[c] THEN "giveback" ELSE "claim")
     /\ UNCHANGED <<counterVars, overcommit, mine, want>>

\* The tail is loaded again; left is the actualCount that may be taken.
Decide(c) ==
  LET seen == Seen(mine[c], overcommit[c])
      actual == IF ~circular_less_than(0, seen) THEN 0
                ELSE IF want[c] < seen THEN want[c] ELSE seen
  IN /\ cpc[c] = "decide"
     /\ left' = [left EXCEPT ![c] = actual]
     /\ Goto(c, IF actual < want[c] THEN "giveback" ELSE "claim")
     /\ UNCHANGED <<counterVars, overcommit, mine, want>>

\* Mutant: all that was reserved is given back, even if some of it is there.
GiveBackAll(c) ==
  /\ cpc[c] = "giveback"
  /\ dequeueOvercommit' = Plus(dequeueOvercommit, want[c])
  /\ IF left[c] = 0 THEN Leave(c, 0)
     ELSE Goto(c, "claim") /\ UNCHANGED <<overcommit, mine, want, left>>
  /\ UNCHANGED <<tailIndex, headIndex, dequeueOptimisticCount>>

\* What was reserved and is not there is put into dequeueOvercommit.
GiveBack(c) ==
  /\ cpc[c] = "giveback"
  /\ dequeueOvercommit' = Plus(dequeueOvercommit, want[c] - left[c])
  /\ IF left[c] = 0 THEN Leave(c, 0)
     ELSE Goto(c, "claim") /\ UNCHANGED <<overcommit, mine, want, left>>
  /\ UNCHANGED <<tailIndex, headIndex, dequeueOptimisticCount>>

\* Given actualCount elements, headIndex moves over them; the claim goes on
\* in BlockStore, and here is over.
Claim(c) ==
  /\ cpc[c] = "claim"
  /\ headIndex' = Plus(headIndex, left[c])
  /\ Leave(c, 0)
  /\ UNCHANGED <<tailIndex, dequeueOptimisticCount, dequeueOvercommit>>

ClaimStep(c) == Reserve(c) \/ Decide(c) \/ GiveBack(c) \/ Claim(c)

\* The end of an enqueue of n elements; full is the producer's leeway check.
Publish(n) ==
  /\ circular_less_than(headIndex, Plus(tailIndex, n))
  /\ tailIndex' = Plus(tailIndex, n)
  /\ UNCHANGED <<headIndex, dequeueOptimisticCount, dequeueOvercommit, claimVars>>

BaseNext ==
  \/ \E n \in 1 .. MaxBulk : Publish(n)
  \/ \E c \in Consumers :
       ClaimStep(c) \/ \E n \in 1 .. MaxBulk : DequeueCall(c, n)

BaseSpec == BaseInit /\ [][BaseNext]_baseVars

size_approx ==
  IF circular_less_than(headIndex, tailIndex)
  THEN Distance(headIndex, tailIndex) ELSE 0

-----------------------------------------------------------------------------
(* Properties *)

BaseTypeOK ==
  /\ tailIndex \in Indices /\ headIndex \in Indices
  /\ dequeueOptimisticCount \in Indices /\ dequeueOvercommit \in Indices
  /\ cpc \in [Consumers -> {"idle", "reserve", "decide", "giveback", "claim"}]
  /\ overcommit \in [Consumers -> Indices] /\ mine \in [Consumers -> Indices]
  /\ want \in [Consumers -> 0 .. MaxBulk] /\ left \in [Consumers -> 0 .. MaxBulk]

\* While the counters have not gone half way round, they compare as numbers.
BelowHalf ==
  tailIndex <= IndexMod \div 2 /\ dequeueOptimisticCount <= IndexMod \div 2

\* No claim goes beyond the elements that are there, whatever order the
\* reservations, refusals and give-backs of several consumers come in.
HeadWithinTail == Distance(headIndex, tailIndex) <= IndexMod \div 2

\* What each has reserved and neither claimed nor given back.
Reserved ==
  [c \in Consumers |->
     CASE cpc[c] \in {"decide", "giveback"} -> want[c]
       [] cpc[c] = "claim" -> left[c]
       [] OTHER -> 0]

\* The difference of the two counters is the head plus the reservations in
\* flight: a refused dequeue leaves nothing behind that hides an element.
NothingHidden ==
  Distance(dequeueOvercommit, dequeueOptimisticCount) =
    Plus(headIndex, SumFunction(Reserved))
=============================================================================
