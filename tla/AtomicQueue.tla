---------------------------- MODULE AtomicQueue ----------------------------
(***************************************************************************)
(* The queue between two stages: atomic_queue::AtomicQueueB2 with SPSC set *)
(* (src/src/util/atomic_queue/atomic_queue.h), instantiated as             *)
(* RequestQueue in queue_generator.h.  One producer thread calls push, one *)
(* consumer thread calls pop, and both wait by spinning.                   *)
(*                                                                         *)
(* head_ is touched by the producer only and tail_ by the consumer only;   *)
(* the threads meet at the state of a slot, stored with release and loaded *)
(* with acquire, so that steps on sequentially consistent memory cover     *)
(* what they can observe.  The counters are 32 bits wide and wrap:         *)
(* IndexMod stands for 2^32.                                               *)
(***************************************************************************)
EXTENDS Integers, Sequences

CONSTANTS
  Elements,  \* pointers to request contexts
  None,      \* the null pointer of a slot never used
  Size,      \* size_, a power of two in the code
  IndexMod,  \* number of values of head_ and tail_
  Remap      \* remap_index: a permutation of the slots (module IndexRemap)

ASSUME AtomicQueueAssumption ==
  /\ None \notin Elements
  /\ Size \in Nat \ {0}
  /\ IndexMod \in Nat /\ IndexMod > Size /\ IndexMod % Size = 0
  /\ Remap \in [0 .. Size - 1 -> 0 .. Size - 1]
  /\ \A i, j \in 0 .. Size - 1 : Remap[i] = Remap[j] => i = j

VARIABLES
  head, tail,        \* head_, tail_
  states, elements,  \* states_, elements_
  ppc, phead, pelem, \* producer: next step of push, its head and its element
  cpc, ctail, celem  \* consumer: next step of pop, its tail and its element

pVars == <<head, ppc, phead, pelem>>
cVars == <<tail, cpc, ctail, celem>>
vars == <<pVars, cVars, states, elements>>

Slots == 0 .. Size - 1
Indices == 0 .. IndexMod - 1
Slot(i) == Remap[i % Size]

Init ==
  /\ head = 0 /\ tail = 0
  /\ states = [s \in Slots |-> "EMPTY"] /\ elements = [s \in Slots |-> None]
  /\ ppc = "idle" /\ phead = 0 /\ pelem = None
  /\ cpc = "idle" /\ ctail = 0 /\ celem = None

-----------------------------------------------------------------------------
(* Producer: push *)

\* Mutant: the counter is taken for unbounded.
PushCallUnbounded(e) ==
  /\ ppc = "idle"
  /\ phead' = head /\ head' = head + 1
  /\ pelem' = e /\ ppc' = "wait"
  /\ UNCHANGED <<cVars, states, elements>>

PushCall(e) ==
  /\ ppc = "idle"
  /\ phead' = head /\ head' = (head + 1) % IndexMod
  /\ pelem' = e /\ ppc' = "wait"
  /\ UNCHANGED <<cVars, states, elements>>

\* Mutant: the producer does not wait for the slot.
PushWaitNot ==
  /\ ppc = "wait" /\ ppc' = "fill"
  /\ UNCHANGED <<cVars, head, phead, pelem, states, elements>>

\* The spin loop of do_push_any ends.
PushWait ==
  /\ ppc = "wait" /\ states[Slot(phead)] = "EMPTY"
  /\ ppc' = "fill"
  /\ UNCHANGED <<cVars, head, phead, pelem, states, elements>>

PushFill ==
  /\ ppc = "fill"
  /\ elements' = [elements EXCEPT ![Slot(phead)] = pelem]
  /\ ppc' = "publish"
  /\ UNCHANGED <<cVars, head, phead, pelem, states>>

PushPublish ==
  /\ ppc = "publish"
  /\ states' = [states EXCEPT ![Slot(phead)] = "STORED"]
  /\ ppc' = "idle" /\ pelem' = None
  /\ UNCHANGED <<cVars, head, phead, elements>>

-----------------------------------------------------------------------------
(* Consumer: pop *)

PopCall ==
  /\ cpc = "idle"
  /\ ctail' = tail /\ tail' = (tail + 1) % IndexMod
  /\ cpc' = "wait"
  /\ UNCHANGED <<pVars, celem, states, elements>>

\* Mutant: the slot is given back before the element is read.
PopWaitReleases ==
  /\ cpc = "wait" /\ states[Slot(ctail)] = "STORED"
  /\ states' = [states EXCEPT ![Slot(ctail)] = "EMPTY"]
  /\ cpc' = "take"
  /\ UNCHANGED <<pVars, tail, ctail, celem, elements>>

PopWait ==
  /\ cpc = "wait" /\ states[Slot(ctail)] = "STORED"
  /\ cpc' = "take"
  /\ UNCHANGED <<pVars, tail, ctail, celem, states, elements>>

PopTake ==
  /\ cpc = "take"
  /\ celem' = elements[Slot(ctail)]
  /\ cpc' = "release"
  /\ UNCHANGED <<pVars, tail, ctail, states, elements>>

\* Mutant: the slot is never given back.
PopReleaseKeeps ==
  /\ cpc = "release"
  /\ cpc' = "idle" /\ celem' = None
  /\ UNCHANGED <<pVars, tail, ctail, states, elements>>

PopRelease ==
  /\ cpc = "release"
  /\ states' = [states EXCEPT ![Slot(ctail)] = "EMPTY"]
  /\ cpc' = "idle" /\ celem' = None
  /\ UNCHANGED <<pVars, tail, ctail, elements>>

-----------------------------------------------------------------------------
Push == PushWait \/ PushFill \/ PushPublish
Pop == PopCall \/ PopWait \/ PopTake \/ PopRelease
Next == (\E e \in Elements : PushCall(e)) \/ Push \/ Pop

Spec == Init /\ [][Next]_vars

\* Both threads are scheduled; a stage pops again once it has handed on what
\* it popped, and pushes whenever it likes.
FairSpec == Spec /\ WF_vars(Push) /\ WF_vars(Pop)

-----------------------------------------------------------------------------
(* Properties *)

TypeOK ==
  /\ head \in Indices /\ tail \in Indices
  /\ states \in [Slots -> {"EMPTY", "STORED"}]
  /\ elements \in [Slots -> Elements \cup {None}]
  /\ ppc \in {"idle", "wait", "fill", "publish"}
  /\ phead \in Indices /\ pelem \in Elements \cup {None}
  /\ cpc \in {"idle", "wait", "take", "release"}
  /\ ctail \in Indices /\ celem \in Elements \cup {None}

\* elements_ is not atomic: the producer's store to a slot and the consumer's
\* load from it never meet, however far the counters run ahead or wrap.
SlotExclusive ==
  ppc = "fill" /\ cpc = "take" => Slot(phead) # Slot(ctail)

\* The indices pushed and not taken yet, in order: the consumer's tail_ runs
\* ahead of them by one while a pop waits.
Pushed == IF ppc = "idle" THEN head ELSE phead
Taken == IF cpc \in {"wait", "take"} THEN ctail ELSE tail
Waiting == [i \in 1 .. (Pushed - Taken) % IndexMod |->
              elements[Slot(Taken + i - 1)]]

Queue == INSTANCE Fifo WITH
  Capacity <- Size, q <- Waiting, pending <- pelem, got <- celem

\* The ring is a bounded first-in first-out queue: each step of push or pop
\* is a step of the abstract queue or none at all.  And no push waits for ever
\* for a slot, nor a pop for an element that is there.
ImplementsFairFifo == Queue!FairSpec
=============================================================================
