-------------------------------- MODULE Fifo --------------------------------
(***************************************************************************)
(* What a request queue promises the two stages it connects: elements come *)
(* out in the order they went in, none is lost or repeated, at most        *)
(* Capacity of them wait, and a push into a full queue or a pop from an    *)
(* empty one waits.                                                        *)
(***************************************************************************)
EXTENDS Naturals, Sequences

CONSTANTS Elements, None, Capacity

VARIABLES
  q,        \* the elements waiting
  pending,  \* the element of the push in progress
  got       \* the element of the pop in progress, once it has one

fifoVars == <<q, pending, got>>

Init == q = <<>> /\ pending = None /\ got = None

Offer(e) == pending = None /\ pending' = e /\ UNCHANGED <<q, got>>

Enq ==
  /\ pending # None /\ Len(q) < Capacity
  /\ q' = Append(q, pending) /\ pending' = None
  /\ UNCHANGED got

Deq ==
  /\ got = None /\ q # <<>>
  /\ got' = Head(q) /\ q' = Tail(q)
  /\ UNCHANGED pending

Hand == got # None /\ got' = None /\ UNCHANGED <<q, pending>>

Next == (\E e \in Elements : Offer(e)) \/ Enq \/ Deq \/ Hand

Spec == Init /\ [][Next]_fifoVars

\* A push is completed once there is room, and elements keep being taken.
FairSpec ==
  Spec /\ WF_fifoVars(Enq) /\ WF_fifoVars(Deq) /\ WF_fifoVars(Hand)
=============================================================================
