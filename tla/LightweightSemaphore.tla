------------------------ MODULE LightweightSemaphore ------------------------
(***************************************************************************)
(* moodycamel::LightweightSemaphore (src/src/util/lightweightsemaphore.h): *)
(* a count in user space in front of an OS semaphore.  A thread that finds *)
(* the count positive takes what it wants with a compare-exchange; one     *)
(* that does not decrements the count below zero and sleeps on the OS      *)
(* semaphore, to which signal posts once per thread the count says sleeps. *)
(* A thread whose wait times out has to take its decrement back, racing    *)
(* with the signal that may already have counted it.                       *)
(*                                                                         *)
(* A load and the compare-exchange that succeeds on the value loaded are   *)
(* one step; a compare-exchange that fails changes nothing.  m_maxSpins is *)
(* left out: a thread spins for as long as it likes.                       *)
(***************************************************************************)
EXTENDS Integers, FiniteSets

CONSTANTS
  Threads,  \* the threads that wait
  MaxMany,  \* largest max of waitMany and count of signal
  MaxCount  \* bound: signal is called while m_count + count is at most this

\* What the parameters are.
Parameters ==
  /\ IsFiniteSet(Threads)
  /\ MaxMany \in Nat \ {0} /\ MaxCount \in Nat

VARIABLES
  count,    \* m_count
  sema,     \* the OS semaphore m_sema
  posting,  \* posts that calls of signal have still to make
  pc,       \* next step of a thread's wait
  max,      \* the wait's argument max, 1 for wait()
  limit,    \* its timeout: "none" (< 0), "zero" (= 0), "some" (> 0)
  got       \* units the last call returned: 0 for false

semaVars == <<count, sema, posting>>
callVars == <<max, limit>>
lwVars == <<semaVars, pc, callVars, got>>

Init ==
  /\ count = 0 /\ sema = 0 /\ posting = 0
  /\ pc = [t \in Threads |-> "idle"]
  /\ max = [t \in Threads |-> 1]
  /\ limit = [t \in Threads |-> "none"]
  /\ got = [t \in Threads |-> 0]

Goto(t, place) ==
  pc' = [pc EXCEPT ![t] = place] /\ UNCHANGED <<callVars, got>>

Return(t, n) ==
  /\ pc' = [pc EXCEPT ![t] = "idle"] /\ got' = [got EXCEPT ![t] = n]
  /\ max' = [max EXCEPT ![t] = 1] /\ limit' = [limit EXCEPT ![t] = "none"]

\* What a greedy caller leaves in the count.
Left(n) == IF count > n THEN count - n ELSE 0

-----------------------------------------------------------------------------
(* Calls that do not wait *)

\* Mutant: a unit is taken from a count of zero.
TryWaitZero(t) ==
  /\ pc[t] = "idle"
  /\ IF count >= 0
       THEN count' = count - 1 /\ Return(t, 1)
       ELSE UNCHANGED count /\ Return(t, 0)
  /\ UNCHANGED <<sema, posting>>

TryWait(t) ==
  /\ pc[t] = "idle"
  /\ IF count > 0
       THEN count' = count - 1 /\ Return(t, 1)
       ELSE UNCHANGED count /\ Return(t, 0)
  /\ UNCHANGED <<sema, posting>>

TryWaitMany(t, n) ==
  /\ pc[t] = "idle"
  /\ IF count > 0
       THEN count' = Left(n) /\ Return(t, count - Left(n))
       ELSE UNCHANGED count /\ Return(t, 0)
  /\ UNCHANGED <<sema, posting>>

-----------------------------------------------------------------------------
(* Calls that wait *)

\* wait and waitMany try first, and then spin.
WaitMany(t, n, l) ==
  /\ pc[t] = "idle"
  /\ IF count > 0
       THEN count' = Left(n) /\ Return(t, count - Left(n))
       ELSE /\ pc' = [pc EXCEPT ![t] = "spin"] /\ UNCHANGED <<count, got>>
            /\ max' = [max EXCEPT ![t] = n]
            /\ limit' = [limit EXCEPT ![t] = l]
  /\ UNCHANGED <<sema, posting>>

Wait(t, l) == WaitMany(t, 1, l)

\* A turn of the spin loop finds the count positive.
SpinTake(t) ==
  /\ pc[t] = "spin" /\ count > 0
  /\ count' = Left(max[t]) /\ Return(t, count - Left(max[t]))
  /\ UNCHANGED <<sema, posting>>

\* One unit has been obtained after the spin: waitMany tries for the others.
Obtained(t) ==
  IF max[t] > 1 THEN Goto(t, "more") ELSE Return(t, 1)

\* The spin is over: fetch_sub, and sleep unless the count was positive.
FetchSub(t) ==
  /\ pc[t] = "spin"
  /\ count' = count - 1
  /\ IF count > 0 THEN Obtained(t)
     ELSE Goto(t, IF limit[t] = "zero" THEN "undo" ELSE "asleep")
  /\ UNCHANGED <<sema, posting>>

Wake(t) ==
  /\ pc[t] = "asleep" /\ sema > 0
  /\ sema' = sema - 1 /\ Obtained(t)
  /\ UNCHANGED <<count, posting>>

TimeOut(t) ==
  /\ pc[t] = "asleep" /\ limit[t] = "some"
  /\ Goto(t, "undo")
  /\ UNCHANGED semaVars

\* Mutant: the decrement is taken back whatever the count says.
UndoRetractAlways(t) ==
  /\ pc[t] = "undo"
  /\ count' = count + 1 /\ Return(t, 0)
  /\ UNCHANGED <<sema, posting>>

\* The count says that nobody has signalled for t yet: take the decrement back.
UndoRetract(t) ==
  /\ pc[t] = "undo" /\ count < 0
  /\ count' = count + 1 /\ Return(t, 0)
  /\ UNCHANGED <<sema, posting>>

\* The count says that somebody has: there is a post to claim, now or soon.
UndoSeen(t) ==
  /\ pc[t] = "undo" /\ count >= 0
  /\ Goto(t, "claim")
  /\ UNCHANGED semaVars

\* Mutant: the post is taken to be there already.
UndoClaimBlind(t) ==
  /\ pc[t] = "claim"
  /\ sema' = sema - 1 /\ Obtained(t)
  /\ UNCHANGED <<count, posting>>

UndoClaim(t) ==
  /\ pc[t] = "claim"
  /\ IF sema > 0
       THEN sema' = sema - 1 /\ Obtained(t)
       ELSE UNCHANGED sema /\ Goto(t, "undo")
  /\ UNCHANGED <<count, posting>>

\* waitMany's tryWaitMany(max - 1), after the unit it waited for.
TakeMore(t) ==
  /\ pc[t] = "more"
  /\ IF count > 0
       THEN count' = Left(max[t] - 1)
            /\ Return(t, 1 + count - Left(max[t] - 1))
       ELSE UNCHANGED count /\ Return(t, 1)
  /\ UNCHANGED <<sema, posting>>

-----------------------------------------------------------------------------
(* signal *)

\* Mutant: a signal for several wakes one sleeper only.
SignalOnce(n) ==
  /\ count + n <= MaxCount
  /\ count' = count + n
  /\ posting' = posting + (IF count >= 0 THEN 0 ELSE 1)
  /\ UNCHANGED <<sema, pc, callVars, got>>

Signal(n) ==
  /\ count + n <= MaxCount
  /\ count' = count + n
  /\ posting' = posting + (IF count >= 0 THEN 0 ELSE IF -count < n THEN -count ELSE n)
  /\ UNCHANGED <<sema, pc, callVars, got>>

\* sem_post: which of the calls of signal makes the post does not matter.
Post ==
  /\ posting > 0
  /\ posting' = posting - 1 /\ sema' = sema + 1
  /\ UNCHANGED <<count, pc, callVars, got>>

availableApprox == IF count > 0 THEN count ELSE 0

-----------------------------------------------------------------------------
Resume(t) ==
  \/ SpinTake(t) \/ FetchSub(t) \/ Wake(t) \/ TimeOut(t) \/ TakeMore(t)
  \/ UndoRetract(t) \/ UndoSeen(t) \/ UndoClaim(t)

CallSema(t) ==
  \/ TryWait(t) \/ \E l \in {"none", "zero", "some"} : Wait(t, l)
  \/ \E n \in 1 .. MaxMany :
       TryWaitMany(t, n) \/ \E l \in {"none", "zero", "some"} : WaitMany(t, n, l)

Next ==
  \/ \E t \in Threads : CallSema(t) \/ Resume(t)
  \/ \E n \in 1 .. MaxMany : Signal(n)
  \/ Post

Spec == Init /\ [][Next]_lwVars

-----------------------------------------------------------------------------
(* Properties *)

TypeOK ==
  /\ count \in Int /\ sema \in Nat /\ posting \in Nat
  /\ pc \in [Threads ->
       {"idle", "spin", "asleep", "undo", "claim", "more"}]
  /\ max \in [Threads -> 1 .. MaxMany]
  /\ limit \in [Threads -> {"none", "zero", "some"}]
  /\ got \in [Threads -> Nat]

\* The threads that have decremented the count in vain and not yet undone it.
Waiting == {t \in Threads : pc[t] \in {"asleep", "undo", "claim"}}

\* Every such thread is either counted in a negative m_count or has a post of
\* its own, made or about to be: a signal that overlaps any number of waits
\* and timeouts neither forgets a sleeper nor wakes one too many.
WakeupsCovered ==
  sema + posting = Cardinality(Waiting) - (IF count < 0 THEN -count ELSE 0)

\* The units that were signalled and that nobody has got.
Units == count + Cardinality(Waiting)

\* Units are handed out once each, and a wait that times out leaves no unit
\* behind that no other thread waits for.
Sem == INSTANCE Semaphore WITH avail <- Units, waiting <- Waiting
ImplementsSemaphore == Sem!Spec
=============================================================================
