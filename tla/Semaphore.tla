----------------------------- MODULE Semaphore -----------------------------
(***************************************************************************)
(* What a LightweightSemaphore promises its callers: units signalled are   *)
(* handed out once each.  A thread that finds a unit nobody waits for      *)
(* takes it at once; otherwise it waits, and a thread may give up waiting  *)
(* only while there are fewer units than threads waiting, so that no unit  *)
(* is left behind by a thread that gives up.                               *)
(***************************************************************************)
EXTENDS Integers, FiniteSets

CONSTANT Threads

VARIABLES
  avail,   \* units signalled and not handed out
  waiting  \* the threads that wait for one

semVars == <<avail, waiting>>

Init == avail = 0 /\ waiting = {}

Unreserved == avail - Cardinality(waiting)

Signal == avail' \in Nat /\ avail' > avail /\ UNCHANGED waiting

Take == \E n \in 1 .. Unreserved : avail' = avail - n /\ UNCHANGED waiting

Wait(t) ==
  /\ t \notin waiting /\ Unreserved <= 0
  /\ waiting' = waiting \cup {t} /\ UNCHANGED avail

Wake(t) ==
  /\ t \in waiting /\ avail > 0
  /\ avail' = avail - 1 /\ waiting' = waiting \ {t}

GiveUp(t) ==
  /\ t \in waiting /\ Unreserved < 0
  /\ waiting' = waiting \ {t} /\ UNCHANGED avail

Next == Signal \/ Take \/ \E t \in Threads : Wait(t) \/ Wake(t) \/ GiveUp(t)

Spec == Init /\ [][Next]_semVars
=============================================================================
