------------------------------ MODULE SubQueue ------------------------------
(***************************************************************************)
(* A sub-queue of moodycamel::ConcurrentQueue is of one kind for good      *)
(* (ProducerBase::isExplicit, src/src/util/concurrentqueue.h), and each    *)
(* operation goes to that kind's.                                          *)
(***************************************************************************)
EXTENDS BlockStore

CONSTANT Kinds  \* the values of isExplicit to start with

VARIABLES
  isExplicit,
  tailBlock, ppc, count, chain,                            \* of both kinds
  entry, emptyFlags, next, slotsUsed, nextSlot, original,
  injected, thrown,                                        \* of ExplicitProducer
  index_of, key, value, done, undone                       \* of ImplicitProducer

explicitVars == <<entry, emptyFlags, next, slotsUsed, nextSlot, original,
                 injected, thrown>>
implicitVars == <<index_of, key, value, done, undone>>
vars == <<storeVars, isExplicit, tailBlock, ppc, count, chain, explicitVars, implicitVars>>

Explicit == INSTANCE ExplicitProducer
Implicit == INSTANCE ImplicitProducer

Init ==
  /\ isExplicit \in Kinds
  /\ IF isExplicit
       THEN /\ Explicit!Init
            /\ index_of = None /\ key = None /\ value = None
            /\ done = None /\ undone = None
       ELSE /\ Implicit!Init
            /\ entry = None /\ emptyFlags = None /\ next = None
            /\ slotsUsed = None /\ nextSlot = None /\ original = None
            /\ injected = None /\ thrown = None

Next ==
  /\ UNCHANGED isExplicit
  /\ \/ isExplicit /\ Explicit!Next /\ UNCHANGED implicitVars
     \/ ~isExplicit /\ Implicit!Next /\ UNCHANGED explicitVars

Spec == Init /\ [][Next]_vars

-----------------------------------------------------------------------------
(* Properties *)

TypeOK == IF isExplicit THEN Explicit!TypeOK ELSE Implicit!TypeOK

\* No failed call of an explicit producer has kept a block it had inserted.  Such
\* a block is flagged empty and no slot is counted for it: used again, its entry
\* may take the slot of a block that has elements, and who claims one of them
\* looks in the wrong block.
NothingInjected == isExplicit => ~injected

\* Until then a consumer that has found its slot, in the block index of whatever
\* moment, finds there the block with its elements.
ClaimIsThere ==
  NothingInjected =>
    IF isExplicit THEN Explicit!ClaimIsThere ELSE Implicit!ClaimIsThere

\* Implicit: every block is free, or in one entry of the index, or in the hands
\* of whoever takes it out.
BlockInOnePlace == ~isExplicit => Implicit!BlockInOnePlace

\* Explicit: every block that has elements is in the index, at its base, until a
\* failed call keeps a block it had inserted.
HoldersIndexed == isExplicit /\ ~injected => Explicit!HoldersIndexed

\* Explicit: the list of blocks is one circle through all blocks in use, those
\* that failed calls have kept included.
RingWhole == isExplicit => Explicit!RingWhole

\* Both: whenever the queue is destroyed, the elements that remain are, once
\* each, and no cell that holds none.
DestructorTakesRest ==
  IF isExplicit THEN Explicit!DestructorTakesRest ELSE Implicit!DestructorTakesRest

\* Of an explicit producer that is so if no failed call has kept a block, flagged
\* empty or, where a constructor threw, not.
DestroyedWhole ==
  NothingInjected /\ (isExplicit => ~thrown) => DestructorTakesRest
=============================================================================
