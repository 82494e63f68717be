--------------------------- MODULE BlockingQueue ---------------------------
(***************************************************************************)
(* moodycamel::BlockingConcurrentQueue                                     *)
(* (src/src/util/blockingconcurrentqueue.h): a ConcurrentQueue and a       *)
(* LightweightSemaphore that counts its elements.  An enqueue signals after *)
(* the inner enqueue; a dequeue first obtains as many units as it wants    *)
(* elements and then repeats the inner dequeue until it has them, on the   *)
(* ground that they are there.                                             *)
(*                                                                         *)
(* One producer, so one sub-queue: ProducerBase is the inner queue up to   *)
(* the claim, LightweightSemaphore the semaphore, each with its own steps. *)
(***************************************************************************)
EXTENDS ProducerBase

CONSTANTS
  MaxElements \* bound: the elements in the queue at a time

VARIABLES
  count, sema, posting, pc, max, limit, \* of LightweightSemaphore
  got,        \* units a consumer has obtained and not turned into elements
  signalling  \* elements of the producer's call that it has yet to signal

S == INSTANCE LightweightSemaphore
       WITH Threads <- Consumers, MaxMany <- MaxBulk, MaxCount <- MaxElements

semaVars == <<count, sema, posting, pc, max, limit, got>>
vars == <<baseVars, semaVars, signalling>>

Init == BaseInit /\ S!Init /\ signalling = 0

-----------------------------------------------------------------------------
(* Producer: enqueue, enqueue_bulk, try_enqueue, try_enqueue_bulk *)

Enqueue(n) ==
  /\ signalling = 0
  /\ Distance(headIndex, tailIndex) + n <= MaxElements
  /\ Publish(n)
  /\ signalling' = n
  /\ UNCHANGED semaVars

\* Mutant: one unit for all the elements of a bulk.
SignalOne ==
  /\ signalling > 0
  /\ S!Signal(1)
  /\ signalling' = 0
  /\ UNCHANGED baseVars

\* sema->signal(count), if the inner enqueue has succeeded.
Signal ==
  /\ signalling > 0
  /\ S!Signal(signalling)
  /\ signalling' = 0
  /\ UNCHANGED baseVars

Post == S!Post /\ UNCHANGED <<baseVars, signalling>>

-----------------------------------------------------------------------------
(* Consumers *)

\* What the parameters are.
Parameters ==
  BaseParameters /\ S!Parameters /\ MaxElements < IndexMod

Idle(c) == pc[c] = "idle" /\ cpc[c] = "idle" /\ got[c] = 0

\* try_dequeue, try_dequeue_bulk
TryDequeue(c, n) ==
  /\ Idle(c)
  /\ IF n = 1 THEN S!TryWait(c) ELSE S!TryWaitMany(c, n)
  /\ UNCHANGED <<baseVars, signalling>>

\* wait_dequeue, wait_dequeue_timed, wait_dequeue_bulk, wait_dequeue_bulk_timed
WaitDequeue(c, n, l) ==
  /\ Idle(c)
  /\ IF n = 1 THEN S!Wait(c, l) ELSE S!WaitMany(c, n, l)
  /\ UNCHANGED <<baseVars, signalling>>

Resume(c) == S!Resume(c) /\ UNCHANGED <<baseVars, signalling>>

\* One more turn of the loop around the inner try_dequeue(_bulk).  A turn whose
\* first estimate is that there is nothing changes nothing.
InnerDequeue(c) ==
  /\ got[c] > 0
  /\ \E n \in 1 .. got[c] : DequeueCall(c, n)
  /\ UNCHANGED <<semaVars, signalling>>

\* A step of that turn; at its end the elements are the caller's.
InnerStep(c) ==
  /\ ClaimStep(c)
  /\ got' = IF cpc[c] = "claim" THEN [got EXCEPT ![c] = @ - left[c]] ELSE got
  /\ UNCHANGED <<count, sema, posting, pc, max, limit, signalling>>

available == S!availableApprox  \* size_approx

-----------------------------------------------------------------------------
Next ==
  \/ \E n \in 1 .. MaxBulk : Enqueue(n)
  \/ Signal \/ Post
  \/ \E c \in Consumers :
       \/ \E n \in 1 .. MaxBulk :
            TryDequeue(c, n)
            \/ \E l \in {"none", "zero", "some"} : WaitDequeue(c, n, l)
       \/ Resume(c) \/ InnerDequeue(c) \/ InnerStep(c)

Spec == Init /\ [][Next]_vars

\* A thread inside a call goes on, and the OS lets a post be made and taken.
\* Nobody has to call anything.
Fairness ==
  /\ WF_vars(Signal) /\ WF_vars(Post)
  /\ \A c \in Consumers :
       WF_vars(Resume(c)) /\ WF_vars(InnerDequeue(c)) /\ WF_vars(InnerStep(c))

FairSpec == Spec /\ Fairness

-----------------------------------------------------------------------------
(* Properties *)

TypeOK == BaseTypeOK /\ S!TypeOK /\ signalling \in 0 .. MaxBulk

\* The units each consumer has: one in hand while it asks for more.
Obtained ==
  [c \in Consumers |-> got[c] + (IF pc[c] = "more" THEN 1 ELSE 0)]

\* Of the semaphore: no sleeper is forgotten, none woken that need not be.
WakeupsCovered == S!WakeupsCovered

\* Every element in the queue is a unit of the semaphore, a unit a consumer
\* has obtained, or one the producer has yet to signal: so who has a unit
\* finds an element, and size_approx is never more than there is.
ElementsAreUnits ==
  /\ Distance(headIndex, tailIndex) =
       S!Units + SumFunction(Obtained) + signalling
  /\ available <= Distance(headIndex, tailIndex)

\* A consumer has a unit, or there are elements and all consumers sleep
\* without a timeout.
Due ==
  \/ \E c \in Consumers : Obtained[c] > 0
  \/ /\ tailIndex # headIndex
     /\ \A c \in Consumers : pc[c] = "asleep" /\ limit[c] = "none"

\* While an element is due, one will be taken: the loop around the inner
\* dequeue, which may fail with elements there, cannot fail for everybody for
\* ever.  (For one consumer it can, while the others take all there is.)
ElementsMove == <>[]Due => []<><<headIndex' # headIndex>>_vars
=============================================================================
