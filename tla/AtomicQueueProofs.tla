------------------------- MODULE AtomicQueueProofs -------------------------
(***************************************************************************)
(* Theorems about AtomicQueue, for every size, index width and remapping:  *)
(* the two threads never meet at a slot, and every step of the ring is a   *)
(* step of the queue of Fifo or none.                                      *)
(***************************************************************************)
EXTENDS AtomicQueue, NatFacts, SequenceTheorems, TLAPS

\* A slot the producer is at work on is EMPTY and one the consumer is at work
\* on is STORED: why the two are never the same.
SlotStates ==
  /\ ppc \in {"fill", "publish"} => states[Slot(phead)] = "EMPTY"
  /\ cpc \in {"take", "release"} => states[Slot(ctail)] = "STORED"

QInv == TypeOK /\ SlotStates

\* remap_index(i & (size_ - 1)) is a slot, and incrementing a counter stays
\* within its word.
LEMMA SlotInRange ==
  ASSUME NEW i \in Indices
  PROVE  Slot(i) \in Slots /\ (i + 1) % IndexMod \in Indices
<1>1. i % Size \in Slots
  BY AtomicQueueAssumption DEF Indices, Slots
<1>2. Slot(i) \in Slots
  BY <1>1, AtomicQueueAssumption DEF Slot, Slots
<1>3. (i + 1) % IndexMod \in Indices
  BY AtomicQueueAssumption DEF Indices
<1> QED BY <1>2, <1>3

LEMMA InitQInv == Init => QInv
<1>1. 0 \in Indices
  BY AtomicQueueAssumption DEF Indices
<1> QED BY <1>1 DEF Init, QInv, TypeOK, SlotStates

LEMMA NextQInv == QInv /\ [Next]_vars => QInv'
<1> SUFFICES ASSUME QInv, [Next]_vars PROVE QInv'
  OBVIOUS
<1>a. /\ Slot(phead) \in Slots /\ Slot(ctail) \in Slots
      /\ (head + 1) % IndexMod \in Indices
      /\ (tail + 1) % IndexMod \in Indices
  BY SlotInRange DEF QInv, TypeOK
<1>1. CASE \E e \in Elements : PushCall(e)
  <2> PICK e \in Elements : PushCall(e)
    BY <1>1
  <2> QED BY <1>a DEF PushCall, QInv, TypeOK, SlotStates, cVars, Slot
<1>2. CASE PushWait
  BY <1>2 DEF PushWait, QInv, TypeOK, SlotStates, cVars, Slot
<1>3. CASE PushFill
  BY <1>3, <1>a DEF PushFill, QInv, TypeOK, SlotStates, cVars, Slot
<1>4. CASE PushPublish
  BY <1>4, <1>a DEF PushPublish, QInv, TypeOK, SlotStates, cVars, Slot
<1>5. CASE PopCall
  BY <1>5, <1>a DEF PopCall, QInv, TypeOK, SlotStates, pVars, Slot
<1>6. CASE PopWait
  BY <1>6 DEF PopWait, QInv, TypeOK, SlotStates, pVars, Slot
<1>7. CASE PopTake
  BY <1>7, <1>a DEF PopTake, QInv, TypeOK, SlotStates, pVars, Slot
<1>8. CASE PopRelease
  BY <1>8, <1>a DEF PopRelease, QInv, TypeOK, SlotStates, pVars, Slot
<1>9. CASE UNCHANGED vars
  BY <1>9 DEF QInv, TypeOK, SlotStates, vars, pVars, cVars, Slot
<1> QED
  BY <1>1, <1>2, <1>3, <1>4, <1>5, <1>6, <1>7, <1>8, <1>9
  DEF Next, Push, Pop

THEOREM QueueInvariant == Spec => []QInv
BY InitQInv, NextQInv, PTL DEF Spec

\* The variables of a push and a pop keep their types: in particular both
\* counters stay within their word.
THEOREM QueueTypes == Spec => []TypeOK
<1>1. QInv => TypeOK
  BY DEF QInv
<1> QED BY <1>1, QueueInvariant, PTL

\* The producer's store to an element of elements_ and the consumer's load
\* are never on the same slot at the same time.
THEOREM QueueSlotExclusive == Spec => []SlotExclusive
<1>1. QInv => SlotExclusive
  BY DEF QInv, SlotStates, SlotExclusive
<1> QED BY <1>1, QueueInvariant, PTL

-----------------------------------------------------------------------------
(* The ring is the queue of Fifo *)

\* A slot is given back one step after its element is taken: the indices of
\* STORED slots start at Released, and there are Stored of them.
Released == IF cpc = "idle" THEN tail ELSE ctail
Stored == (Pushed - Released) % IndexMod

\* The ring turns as one: from Released on, Stored slots hold an element and
\* the others none.
Ring ==
  /\ Stored <= Size
  /\ \A i \in Slots :
       IF i < Stored
       THEN /\ states[Slot(Released + i)] = "STORED"
            /\ elements[Slot(Released + i)] \in Elements
       ELSE states[Slot(Released + i)] = "EMPTY"

\* What the next step of a push says of its head, of its slot and of its
\* element, and the next step of a pop of its tail.
Pushing ==
  /\ IF ppc = "idle" THEN pelem = None ELSE pelem \in Elements
  /\ ppc # "idle" => head = (phead + 1) % IndexMod
  /\ ppc \in {"fill", "publish"} => Stored < Size
  /\ ppc = "publish" => elements[Slot(phead)] = pelem
Popping ==
  /\ IF cpc = "release" THEN celem \in Elements ELSE celem = None
  /\ cpc # "idle" => tail = (ctail + 1) % IndexMod
  /\ cpc \in {"take", "release"} => Stored > 0

RInv == QInv /\ Ring /\ Pushing /\ Popping

\* What the proofs of arithmetic need of the constants.
LEMMA SizeFacts ==
  /\ Size \in Nat \ {0} /\ IndexMod \in Nat \ {0} /\ IndexMod > Size
  /\ IndexMod % Size = 0
BY AtomicQueueAssumption

\* How the distance between two counters changes when one is incremented.
LEMMA Distance ==
  ASSUME NEW i \in Indices, NEW j \in Indices, NEW d, d = (j - i) % IndexMod
  PROVE  /\ d \in 0 .. IndexMod - 1
         /\ d + 1 < IndexMod => (((j + 1) % IndexMod) - i) % IndexMod = d + 1
         /\ d >= 1 => (j - ((i + 1) % IndexMod)) % IndexMod = d - 1
         /\ i + d = j \/ i + d = j + IndexMod
<1> DEFINE ii == (i + 1) % IndexMod
           jj == (j + 1) % IndexMod
<1>1. d = IF i <= j THEN j - i ELSE j - i + IndexMod
  BY SizeFacts, ModDifference DEF Indices
<1>2. jj = IF j + 1 = IndexMod THEN 0 ELSE j + 1
  BY SizeFacts, ModNext DEF Indices
<1>3. ii = IF i + 1 = IndexMod THEN 0 ELSE i + 1
  BY SizeFacts, ModNext DEF Indices
<1> HIDE DEF ii, jj
<1>4. ii \in Indices /\ jj \in Indices
  BY <1>2, <1>3, SizeFacts DEF Indices
<1>5. (jj - i) % IndexMod = IF i <= jj THEN jj - i ELSE jj - i + IndexMod
  BY <1>4, SizeFacts, ModDifference DEF Indices
<1>6. (j - ii) % IndexMod = IF ii <= j THEN j - ii ELSE j - ii + IndexMod
  BY <1>4, SizeFacts, ModDifference DEF Indices
<1>7. /\ d \in 0 .. IndexMod - 1
      /\ d + 1 < IndexMod => (jj - i) % IndexMod = d + 1
      /\ d >= 1 => (j - ii) % IndexMod = d - 1
      /\ i + d = j \/ i + d = j + IndexMod
  BY <1>1, <1>2, <1>3, <1>5, <1>6, SizeFacts DEF Indices
<1> QED BY <1>7 DEF ii, jj

\* Slots of one turn of the ring are different.
LEMMA SlotsApart ==
  ASSUME NEW x \in Int, NEW i \in Slots, NEW j \in Slots,
         Slot(x + i) = Slot(x + j)
  PROVE  i = j
<1>1. (x + i) % Size \in Slots /\ (x + j) % Size \in Slots
  BY SizeFacts DEF Slots
<1>2. (x + i) % Size = (x + j) % Size
  BY <1>1, AtomicQueueAssumption DEF Slot, Slots
<1> QED BY <1>2, SizeFacts, ModApart DEF Slots

\* A counter that wraps and one that does not name the same slot, and Size
\* further on it is again that slot.
LEMMA SlotWraps ==
  ASSUME NEW x \in Int
  PROVE  /\ Slot(x + IndexMod) = Slot(x) /\ Slot(x + Size) = Slot(x)
         /\ Slot(x) \in Slots
<1>1. (x + IndexMod) % Size = x % Size
  BY SizeFacts, ModShift
<1>2. (x + Size) % Size = x % Size
  <2>1. Size % Size = 0
    BY SizeFacts
  <2> QED BY <2>1, SizeFacts, ModShift
<1>3. x % Size \in Slots
  BY SizeFacts DEF Slots
<1> QED BY <1>1, <1>2, <1>3, AtomicQueueAssumption DEF Slot, Slots

\* The slot a counter names after it is incremented.
LEMMA SlotNext ==
  ASSUME NEW k \in Indices, NEW i \in Nat
  PROVE  Slot(((k + 1) % IndexMod) + i) = Slot(k + 1 + i)
<1>1. (k + 1) % IndexMod = IF k + 1 = IndexMod THEN 0 ELSE k + 1
  BY SizeFacts, ModNext DEF Indices
<1>2. CASE k + 1 = IndexMod
  <2>1. k + 1 + i = i + IndexMod
    BY <1>2, SizeFacts DEF Indices
  <2> QED BY <1>1, <1>2, <2>1, SlotWraps
<1> QED BY <1>1, <1>2

\* The slot the next element goes to is the one behind the stored ones.
LEMMA PushedSlot ==
  ASSUME QInv
  PROVE  /\ Pushed \in Indices /\ Released \in Indices /\ Stored \in Nat
         /\ Stored < IndexMod /\ Slot(Pushed) = Slot(Released + Stored)
<1>1. Pushed \in Indices /\ Released \in Indices
  BY DEF QInv, TypeOK, Pushed, Released
<1>2. /\ Stored \in 0 .. IndexMod - 1
      /\ Released + Stored = Pushed \/ Released + Stored = Pushed + IndexMod
  BY <1>1, Distance DEF Stored
<1>3. Slot(Pushed + IndexMod) = Slot(Pushed)
  BY <1>1, SlotWraps DEF Indices
<1> QED BY <1>1, <1>2, <1>3, SizeFacts

-----------------------------------------------------------------------------
\* The ring starts empty.
LEMMA RInvInit == Init => RInv
<1> SUFFICES ASSUME Init PROVE RInv
  OBVIOUS
<1>1. QInv
  BY InitQInv
<1>2. Stored = 0
  BY SizeFacts DEF Init, Stored, Pushed, Released
<1>3. ASSUME NEW i \in Slots PROVE Slot(Released + i) \in Slots
  <2>1. Released + i \in Int
    BY DEF Init, Released, Slots
  <2> QED BY <2>1, SlotWraps
<1> QED BY <1>1, <1>2, <1>3, SizeFacts
        DEF RInv, Ring, Pushing, Popping, Init, Slots

\* A step that leaves the ring as it is.
LEMMA RingQuiet ==
  ASSUME Ring, UNCHANGED <<states, elements>>,
         Pushed' = Pushed, Released' = Released
  PROVE  Ring' /\ Stored' = Stored
BY DEF Ring, Stored, Slot

\* Every step of push or pop turns the ring or leaves it as it is: a push
\* that finds its slot EMPTY finds room, a pop that finds its slot STORED
\* finds an element.
LEMMA RInvStep == RInv /\ [Next]_vars => RInv'
<1> SUFFICES ASSUME RInv, [Next]_vars PROVE RInv'
  OBVIOUS
<1>q. QInv /\ QInv'
  BY NextQInv DEF RInv
<1>a. /\ Pushed \in Indices /\ Released \in Indices /\ Stored \in Nat
      /\ Stored < IndexMod /\ Slot(Pushed) = Slot(Released + Stored)
  BY <1>q, PushedSlot
<1>b. \A i \in Nat : Slot(Released + i) \in Slots
  BY <1>a, SlotWraps DEF Indices
<1> USE SizeFacts
<1>1. ASSUME NEW e \in Elements, PushCall(e) PROVE RInv'
  <2>1. Pushed' = Pushed /\ Released' = Released
    BY <1>1 DEF PushCall, Pushed, Released, cVars
  <2>2. Ring' /\ Stored' = Stored
    BY <1>1, <2>1, RingQuiet DEF RInv, PushCall
  <2> QED BY <1>1, <1>q, <2>2
          DEF PushCall, RInv, Pushing, Popping, cVars
<1>2. CASE PushWait
  <2>1. Pushed' = Pushed /\ Released' = Released
    BY <1>2 DEF PushWait, Pushed, Released, cVars
  <2>2. Ring' /\ Stored' = Stored
    BY <1>2, <2>1, RingQuiet DEF RInv, PushWait
  <2>3. Stored < Size
    <3>1. states[Slot(Released + Stored)] = "EMPTY"
      BY <1>2, <1>a DEF PushWait, Pushed
    <3>2. Stored = Size => Slot(Released + Stored) = Slot(Released + 0)
      BY <1>a, SlotWraps DEF Indices
    <3>3. Stored = Size => states[Slot(Released + 0)] = "STORED"
      BY DEF RInv, Ring, Slots
    <3> QED BY <1>a, <3>1, <3>2, <3>3 DEF RInv, Ring
  <2> QED BY <1>2, <1>q, <2>2, <2>3
          DEF PushWait, RInv, Pushing, Popping, cVars
<1>3. CASE PushFill
  <2>1. Pushed' = Pushed /\ Released' = Released /\ Stored' = Stored
        /\ Stored < Size /\ ppc = "fill" /\ Pushed = phead
    BY <1>3 DEF PushFill, Pushed, Released, Stored, cVars, RInv, Pushing
  <2>2. ASSUME NEW i \in Slots, i < Stored
        PROVE  elements'[Slot(Released + i)] = elements[Slot(Released + i)]
    <3>1. Slot(Released + i) # Slot(phead)
      <4>1. Stored \in Slots /\ Released \in Int /\ i # Stored
        BY <1>a, <2>1, <2>2 DEF Slots, Indices
      <4> QED BY <1>a, <2>1, <4>1, SlotsApart
    <3>2. elements' = [elements EXCEPT ![Slot(phead)] = pelem]
      BY <1>3 DEF PushFill
    <3>3. Slot(Released + i) \in Slots
      BY <1>b DEF Slots
    <3> QED BY <1>q, <3>1, <3>2, <3>3 DEF QInv, TypeOK
  <2>3. Ring'
    BY <1>3, <2>1, <2>2 DEF RInv, Ring, PushFill, Slot
  <2>4. elements'[Slot(phead)] = pelem
    BY <1>3, <1>a, <1>b, <1>q, <2>1 DEF PushFill, QInv, TypeOK
  <2> QED BY <1>3, <1>q, <2>1, <2>3, <2>4
          DEF PushFill, RInv, Pushing, Popping, cVars, Slot
<1>4. CASE PushPublish
  <2>1. /\ Pushed = phead /\ Pushed' = head /\ head = (Pushed + 1) % IndexMod
        /\ Released' = Released /\ Stored < Size /\ UNCHANGED elements
        /\ elements[Slot(Pushed)] \in Elements
    BY <1>4 DEF PushPublish, Pushed, Released, cVars, RInv, Pushing
  <2>2. Stored' = Stored + 1
    <3>1. Stored + 1 < IndexMod
      BY <1>a, <2>1
    <3> QED BY <1>a, <2>1, <3>1, Distance DEF Stored
  <2>3. \A s \in Slots : states'[s] = IF s = Slot(Pushed) THEN "STORED"
                                       ELSE states[s]
    BY <1>4, <1>q, <2>1 DEF PushPublish, QInv, TypeOK
  <2>4. ASSUME NEW i \in Slots
        PROVE  IF i < Stored + 1
               THEN /\ states'[Slot(Released + i)] = "STORED"
                    /\ elements[Slot(Released + i)] \in Elements
               ELSE states'[Slot(Released + i)] = "EMPTY"
    <3>1. Slot(Released + i) = Slot(Pushed) => i = Stored
      <4>1. Stored \in Slots /\ Released \in Int
        BY <1>a, <2>1 DEF Slots, Indices
      <4> QED BY <1>a, <4>1, SlotsApart
    <3>2. Slot(Released + i) \in Slots
      BY <1>b DEF Slots
    <3>3. CASE i = Stored
      <4>1. Slot(Released + i) = Slot(Pushed) /\ i < Stored + 1
        BY <1>a, <3>3
      <4>2. states'[Slot(Released + i)] = "STORED"
        BY <2>3, <3>2, <4>1
      <4> QED BY <2>1, <4>1, <4>2
    <3>4. CASE i # Stored
      <4>1. states'[Slot(Released + i)] = states[Slot(Released + i)]
        BY <2>3, <3>1, <3>2, <3>4
      <4>2. i < Stored + 1 <=> i < Stored
        BY <1>a, <3>4 DEF Slots
      <4> QED BY <4>1, <4>2 DEF RInv, Ring
    <3> QED BY <3>3, <3>4
  <2>5. Ring'
    BY <1>a, <2>1, <2>2, <2>4 DEF Ring, Slot
  <2>6. Pushing'
    BY <1>4 DEF PushPublish, Pushing
  <2>7. Popping'
    BY <1>4, <1>a, <2>2 DEF PushPublish, RInv, Popping, cVars
  <2> QED BY <1>q, <2>5, <2>6, <2>7 DEF RInv
<1>5. CASE PopCall
  <2>1. Pushed' = Pushed /\ Released' = Released
    BY <1>5 DEF PopCall, Pushed, Released, pVars
  <2>2. Ring' /\ Stored' = Stored
    BY <1>5, <2>1, RingQuiet DEF RInv, PopCall
  <2> QED BY <1>5, <1>q, <2>2
          DEF PopCall, RInv, Pushing, Popping, pVars, Slot
<1>6. CASE PopWait
  <2>1. Pushed' = Pushed /\ Released' = Released
    BY <1>6 DEF PopWait, Pushed, Released, pVars
  <2>2. Ring' /\ Stored' = Stored
    BY <1>6, <2>1, RingQuiet DEF RInv, PopWait
  <2>3. Stored > 0
    <3>1. states[Slot(Released + 0)] = "STORED"
      BY <1>6, <1>q DEF PopWait, Released, QInv, TypeOK, Indices
    <3> QED BY <1>a, <3>1 DEF RInv, Ring, Slots
  <2> QED BY <1>6, <1>q, <2>2, <2>3
          DEF PopWait, RInv, Pushing, Popping, pVars, Slot
<1>7. CASE PopTake
  <2>1. Pushed' = Pushed /\ Released' = Released /\ Released = ctail
    BY <1>7 DEF PopTake, Pushed, Released, pVars
  <2>2. Ring' /\ Stored' = Stored
    BY <1>7, <2>1, RingQuiet DEF RInv, PopTake
  <2>3. elements[Slot(ctail)] \in Elements /\ Stored > 0
    <3>1. Stored > 0
      BY <1>7 DEF RInv, Popping, PopTake
    <3>2. elements[Slot(Released + 0)] \in Elements
      BY <1>a, <3>1 DEF RInv, Ring, Slots
    <3> QED BY <1>a, <2>1, <3>1, <3>2 DEF Indices
  <2> QED BY <1>7, <1>q, <2>2, <2>3
          DEF PopTake, RInv, Pushing, Popping, pVars, Slot
<1>8. CASE PopRelease
  <2>1. /\ Pushed' = Pushed /\ Released = ctail /\ Released' = tail
        /\ tail = (Released + 1) % IndexMod /\ UNCHANGED elements
        /\ Stored > 0
    BY <1>8 DEF PopRelease, Pushed, Released, pVars, RInv, Popping
  <2>2. Stored' = Stored - 1
    <3>1. Stored >= 1
      BY <1>a, <2>1
    <3> QED BY <1>a, <2>1, <3>1, Distance DEF Stored
  <2>3. \A s \in Slots : states'[s] = IF s = Slot(Released) THEN "EMPTY"
                                       ELSE states[s]
    BY <1>8, <1>q, <2>1 DEF PopRelease, QInv, TypeOK
  <2>4. ASSUME NEW i \in Slots
        PROVE  IF i < Stored - 1
               THEN /\ states'[Slot(Released' + i)] = "STORED"
                    /\ elements[Slot(Released' + i)] \in Elements
               ELSE states'[Slot(Released' + i)] = "EMPTY"
    <3>0. i \in Nat /\ Released \in Nat /\ Released + 0 = Released
      BY <1>a DEF Slots, Indices
    <3>1. Slot(Released' + i) = Slot(Released + (i + 1))
      <4>1. Slot(((Released + 1) % IndexMod) + i) = Slot(Released + 1 + i)
        BY <1>a, <3>0, SlotNext
      <4>2. Released + 1 + i = Released + (i + 1)
        BY <3>0
      <4> QED BY <2>1, <4>1, <4>2
    <3>2. Slot(Released + (i + 1)) \in Slots
      BY <1>b, <3>0
    <3>3. CASE i + 1 = Size
      <4>1. Slot(Released + (i + 1)) = Slot(Released)
        BY <3>0, <3>3, SlotWraps
      <4>2. ~(i < Stored - 1)
        BY <1>a, <3>0, <3>3 DEF RInv, Ring
      <4> QED BY <2>3, <3>1, <3>2, <4>1, <4>2
    <3>4. CASE i + 1 # Size
      <4>1. i + 1 \in Slots /\ 0 \in Slots /\ i + 1 # 0
        BY <3>0, <3>4 DEF Slots
      <4>2. Slot(Released + (i + 1)) # Slot(Released)
        <5>0. Released \in Int
          BY <3>0
        <5>1. \A x \in Int : \A y, z \in Slots :
                y # z => Slot(x + y) # Slot(x + z)
          BY SlotsApart, Zenon
        <5>2. Slot(Released + (i + 1)) # Slot(Released + 0)
          BY <3>0, <4>1, <5>0, <5>1, Zenon
        <5> QED BY <3>0, <5>2
      <4>3. states'[Slot(Released + (i + 1))]
              = states[Slot(Released + (i + 1))]
        BY <2>3, <3>2, <4>2
      <4>4. i < Stored - 1 <=> i + 1 < Stored
        BY <1>a, <3>0
      <4> QED BY <3>1, <4>1, <4>3, <4>4 DEF RInv, Ring
    <3> QED BY <3>3, <3>4
  <2>5. Ring'
    <3>1. Stored' <= Size
      BY <1>a, <2>2 DEF RInv, Ring
    <3> QED BY <2>1, <2>2, <2>4, <3>1 DEF Ring, Slot
  <2>6. Popping'
    BY <1>8 DEF PopRelease, Popping
  <2>7. Pushing'
    BY <1>8, <1>a, <2>2 DEF PopRelease, RInv, Pushing, pVars, Slot, Ring
  <2> QED BY <1>q, <2>5, <2>6, <2>7 DEF RInv
<1>9. CASE UNCHANGED vars
  <2>1. /\ Pushed' = Pushed /\ Released' = Released
        /\ UNCHANGED <<states, elements>>
    BY <1>9 DEF Pushed, Released, vars, pVars, cVars
  <2>2. Ring' /\ Stored' = Stored
    BY <2>1, RingQuiet DEF RInv
  <2> QED BY <1>9, <1>q, <2>2
          DEF RInv, Pushing, Popping, vars, pVars, cVars, Slot
<1> QED
  BY <1>1, <1>2, <1>3, <1>4, <1>5, <1>6, <1>7, <1>8, <1>9
  DEF Next, Push, Pop

-----------------------------------------------------------------------------
\* An element that is taken and whose slot is not given back yet has left the
\* abstract queue: the others wait in the slots behind it.
Gone == IF cpc = "release" THEN 1 ELSE 0

\* What waits in the abstract queue, by the slots it waits in.
WaitingThere ==
  /\ Stored - Gone \in Nat
  /\ Waiting = [i \in 1 .. Stored - Gone |->
                  elements[Slot(Released + (Gone + (i - 1)))]]
  /\ Waiting \in Seq(Elements) /\ Len(Waiting) = Stored - Gone

\* The consumer's tail runs ahead of the slots it gave back by the element
\* it holds, and the abstract queue starts behind that one.
LEMMA WaitingSlots ==
  ASSUME RInv
  PROVE  /\ Stored - Gone \in Nat
         /\ Waiting = [i \in 1 .. Stored - Gone |->
                         elements[Slot(Released + (Gone + (i - 1)))]]
<1>1. /\ Pushed \in Indices /\ Released \in Indices /\ Stored \in Nat
  BY PushedSlot DEF RInv
<1>2. CASE cpc # "release"
  <2>1. Taken = Released /\ Gone = 0 /\ (Pushed - Taken) % IndexMod = Stored
    BY <1>2 DEF Taken, Released, Gone, Stored, RInv, QInv, TypeOK
  <2>2. ASSUME NEW i \in 1 .. Stored
        PROVE  Taken + i - 1 = Released + (Gone + (i - 1))
    BY <1>1, <2>1 DEF Indices
  <2> QED BY <1>1, <2>1, <2>2 DEF Waiting
<1>3. CASE cpc = "release"
  <2>1. /\ Taken = (Released + 1) % IndexMod /\ Gone = 1 /\ Stored >= 1
        /\ Taken \in Indices
    BY <1>1, <1>3 DEF Taken, Released, Gone, RInv, Popping, QInv, TypeOK
  <2>2. (Pushed - Taken) % IndexMod = Stored - 1
    BY <1>1, <2>1, Distance DEF Stored
  <2>3. ASSUME NEW i \in 1 .. Stored - 1
        PROVE  Slot(Taken + i - 1) = Slot(Released + (Gone + (i - 1)))
    <3>1. i - 1 \in Nat /\ Taken + (i - 1) = Taken + i - 1
          /\ Released + 1 + (i - 1) = Released + (Gone + (i - 1))
      BY <1>1, <2>1 DEF Indices
    <3>2. PICK k \in Nat : k = i - 1
      BY <3>1
    <3>3. Slot(((Released + 1) % IndexMod) + k) = Slot(Released + 1 + k)
      BY <1>1, SlotNext
    <3> QED BY <2>1, <3>1, <3>2, <3>3
  <2> QED BY <1>1, <2>1, <2>2, <2>3 DEF Waiting
<1> QED BY <1>2, <1>3

\* They are elements, so that the abstract queue is a sequence of elements.
LEMMA WaitingElements ==
  ASSUME RInv
  PROVE  Waiting \in Seq(Elements) /\ Len(Waiting) = Stored - Gone
<1>1. /\ Stored - Gone \in Nat /\ Stored \in Nat /\ Stored <= Size
      /\ Waiting = [i \in 1 .. Stored - Gone |->
                      elements[Slot(Released + (Gone + (i - 1)))]]
  BY WaitingSlots, PushedSlot DEF RInv, Ring
<1>2. ASSUME NEW i \in 1 .. Stored - Gone
      PROVE  elements[Slot(Released + (Gone + (i - 1)))] \in Elements
  <2>1. PICK k \in Slots : k = Gone + (i - 1) /\ k < Stored
    BY <1>1, SizeFacts DEF Slots, Gone
  <2> QED BY <2>1 DEF RInv, Ring
<1> QED BY <1>1, <1>2

\* Both of these at once, to be cited of a state and of the next one.
LEMMA WaitingIsThere == RInv => WaitingThere
BY WaitingSlots, WaitingElements DEF WaitingThere

\* The ring turns as one in every state push and pop reach.
LEMMA RInvHolds == Spec => []RInv
BY RInvInit, RInvStep, PTL DEF Spec

\* The request queue is a bounded first-in first-out queue, whatever its size
\* and however often its 32-bit counters wrap: each step of push and pop is a
\* step of the abstract queue (Offer when push is called, Enq when the slot is
\* published, Deq when the element is read, Hand when the slot is given back)
\* or leaves it as it is.
THEOREM QueueImplementsFifo == Spec => Queue!Spec
<1>1. Init => Queue!Init
  <2> SUFFICES ASSUME Init PROVE Queue!Init
    OBVIOUS
  <2>1. (Pushed - Taken) % IndexMod = 0
    BY SizeFacts DEF Init, Pushed, Taken
  <2> QED BY <2>1 DEF Init, Queue!Init, Waiting
<1>2. RInv /\ RInv' /\ [Next]_vars => [Queue!Next]_(Queue!fifoVars)
  <2> SUFFICES ASSUME RInv, RInv', [Next]_vars
               PROVE  Queue!Next \/ UNCHANGED <<Waiting, pelem, celem>>
    BY DEF Queue!fifoVars
  <2>q. /\ Pushed \in Indices /\ Released \in Indices /\ Stored \in Nat
        /\ Slot(Pushed) = Slot(Released + Stored)
        /\ Waiting \in Seq(Elements) /\ Len(Waiting) = Stored - Gone
        /\ Gone \in {0, 1}
    BY PushedSlot, WaitingElements DEF RInv, Gone
  <2>w. /\ Stored - Gone \in Nat
        /\ Waiting = [i \in 1 .. Stored - Gone |->
                        elements[Slot(Released + (Gone + (i - 1)))]]
    BY WaitingSlots
  <2>x. /\ (Stored - Gone)' \in Nat
        /\ Waiting' = [i \in 1 .. (Stored - Gone)' |->
                        elements[Slot(Released + (Gone + (i - 1)))]']
        /\ Waiting' \in Seq(Elements) /\ Len(Waiting') = (Stored - Gone)'
    <3>1. (RInv => WaitingThere)'
      BY WaitingIsThere, PTL
    <3> QED BY <3>1 DEF WaitingThere
  <2>1. ASSUME NEW e \in Elements, PushCall(e) PROVE Queue!Next
    <3>1. Pushed' = Pushed /\ Taken' = Taken /\ UNCHANGED <<elements, celem>>
      BY <2>1 DEF PushCall, Pushed, Taken, cVars
    <3>2. Waiting' = Waiting
      BY <3>1 DEF Waiting, Slot
    <3>3. pelem = None /\ pelem' = e
      BY <2>1 DEF PushCall, RInv, Pushing
    <3> QED BY <3>1, <3>2, <3>3 DEF Queue!Next, Queue!Offer
  <2>2. CASE PushWait
    <3>1. Pushed' = Pushed /\ Taken' = Taken
          /\ UNCHANGED <<elements, pelem, celem>>
      BY <2>2 DEF PushWait, Pushed, Taken, cVars
    <3> QED BY <3>1 DEF Waiting, Slot
  <2>3. CASE PushFill
    <3>1. /\ Pushed' = Pushed /\ Taken' = Taken /\ UNCHANGED <<pelem, celem>>
          /\ Released' = Released /\ Stored' = Stored /\ Gone' = Gone
          /\ Pushed = phead /\ Stored < Size
      BY <2>3 DEF PushFill, Pushed, Taken, Released, Stored, Gone, cVars,
                  RInv, Pushing
    <3>2. ASSUME NEW i \in 1 .. Stored - Gone
          PROVE  elements'[Slot(Released + (Gone + (i - 1)))]
                   = elements[Slot(Released + (Gone + (i - 1)))]
      <4>1. PICK k \in Slots : k = Gone + (i - 1) /\ k # Stored
        BY <2>q, <2>w, <3>1, SizeFacts DEF Slots
      <4>2. Slot(Released + k) # Slot(phead)
        <5>1. Stored \in Slots /\ Released \in Int
          BY <2>q, <3>1, SizeFacts DEF Slots, Indices
        <5> QED BY <2>q, <3>1, <4>1, <5>1, SlotsApart
      <4>3. Slot(Released + k) \in Slots
        <5>1. Released + k \in Int
          BY <2>q DEF Slots, Indices
        <5> QED BY <5>1, SlotWraps
      <4>4. elements'[Slot(Released + k)] = elements[Slot(Released + k)]
        BY <2>3, <4>2, <4>3 DEF PushFill, RInv, QInv, TypeOK
      <4> QED BY <4>1, <4>4
    <3>3. Waiting' = Waiting
      BY <2>w, <2>x, <3>1, <3>2 DEF Slot
    <3> QED BY <3>1, <3>3
  <2>4. CASE PushPublish
    <3>1. /\ Released' = Released /\ Gone' = Gone /\ UNCHANGED elements
          /\ Pushed = phead /\ Pushed' = (Pushed + 1) % IndexMod
          /\ Stored < Size /\ elements[Slot(Pushed)] = pelem
          /\ pelem \in Elements /\ pelem' = None /\ celem' = celem
      BY <2>4 DEF PushPublish, Pushed, Released, Gone, cVars, RInv, Pushing
    <3>2. Stored' = Stored + 1
      <4>1. Stored + 1 < IndexMod
        BY <2>q, <3>1, SizeFacts
      <4> QED BY <2>q, <3>1, <4>1, Distance DEF Stored
    <3>3. /\ (Stored - Gone)' = (Stored - Gone) + 1
          /\ Waiting' = [i \in 1 .. Len(Waiting) + 1 |->
                          elements[Slot(Released + (Gone + (i - 1)))]]
      BY <2>q, <2>w, <2>x, <3>1, <3>2 DEF Slot
    <3>4. Gone + ((Len(Waiting) + 1) - 1) = Stored
      BY <2>q
    <3>5. Waiting' = Append(Waiting, pelem)
      <4>1. /\ Append(Waiting, pelem) \in Seq(Elements)
            /\ Len(Append(Waiting, pelem)) = Len(Waiting) + 1
            /\ Append(Waiting, pelem)[Len(Waiting) + 1] = pelem
            /\ \A i \in 1 .. Len(Waiting) :
                 Append(Waiting, pelem)[i] = Waiting[i]
        BY <2>q, <3>1, AppendProperties
      <4>2. ASSUME NEW i \in 1 .. Len(Waiting) + 1
            PROVE  Waiting'[i] = Append(Waiting, pelem)[i]
        <5>1. CASE i = Len(Waiting) + 1
          BY <2>q, <3>1, <3>3, <3>4, <4>1, <5>1
        <5>2. CASE i # Len(Waiting) + 1
          <6>1. i \in 1 .. Len(Waiting) /\ i \in 1 .. Stored - Gone
            BY <2>q, <5>2
          <6> QED BY <2>w, <3>3, <4>1, <6>1
        <5> QED BY <5>1, <5>2
      <4>3. Len(Waiting') = Len(Append(Waiting, pelem))
        BY <2>q, <2>x, <3>3, <4>1
      <4> QED BY <2>q, <2>x, <4>1, <4>2, <4>3, SeqEqual
    <3>6. pelem # None /\ Len(Waiting) < Size
      <4>1. pelem # None
        BY <3>1, AtomicQueueAssumption
      <4>2. Len(Waiting) < Size
        <5>1. Len(Waiting) = Stored - Gone /\ Stored < Size
          BY <2>q, <3>1
        <5>2. Stored \in Nat /\ Gone \in Nat /\ Size \in Nat
          BY <2>q, AtomicQueueAssumption
        <5> HIDE DEF Stored, Gone
        <5> QED BY <5>1, <5>2
      <4> QED BY <4>1, <4>2
    <3> QED BY <3>1, <3>5, <3>6 DEF Queue!Next, Queue!Enq
  <2>5. CASE PopCall
    <3>1. Pushed' = Pushed /\ Taken' = Taken
          /\ UNCHANGED <<elements, pelem, celem>>
      BY <2>5 DEF PopCall, Pushed, Taken, pVars
    <3> QED BY <3>1 DEF Waiting, Slot
  <2>6. CASE PopWait
    <3>1. Pushed' = Pushed /\ Taken' = Taken
          /\ UNCHANGED <<elements, pelem, celem>>
      BY <2>6 DEF PopWait, Pushed, Taken, pVars
    <3> QED BY <3>1 DEF Waiting, Slot
  <2>7. CASE PopTake
    <3>1. /\ Released' = Released /\ Stored' = Stored /\ Gone = 0 /\ Gone' = 1
          /\ UNCHANGED <<elements, pelem>> /\ Released = ctail /\ Stored > 0
          /\ celem = None /\ celem' = elements[Slot(ctail)]
      BY <2>7 DEF PopTake, Pushed, Released, Stored, Gone, pVars, RInv, Popping
    <3>2. /\ Waiting = [i \in 1 .. Stored |->
                         elements[Slot(Released + (i - 1))]]
          /\ Waiting' = [i \in 1 .. Stored - 1 |->
                          elements[Slot(Released + i)]]
      <4>1. /\ Stored - Gone = Stored /\ (Stored - Gone)' = Stored - 1
            /\ \A i \in Int : Gone + (i - 1) = i - 1 /\ Gone' + (i - 1) = i
        BY <2>q, <3>1
      <4> QED BY <2>w, <2>x, <3>1, <4>1 DEF Slot
    <3>3. Len(Waiting) = Stored /\ Waiting # <<>>
      BY <2>q, <3>1
    <3>t. /\ Head(Waiting) = Waiting[1]
          /\ Tail(Waiting) \in Seq(Elements)
          /\ Len(Tail(Waiting)) = Stored - 1
          /\ \A i \in 1 .. Stored - 1 : Tail(Waiting)[i] = Waiting[i + 1]
      BY <2>q, <3>3, HeadTailProperties
    <3>4. celem' = Head(Waiting)
      <4>1. Released + (1 - 1) = ctail /\ 1 \in 1 .. Stored
        BY <2>q, <3>1 DEF Indices
      <4>2. Waiting[1] = elements[Slot(ctail)]
        BY <3>2, <4>1
      <4> QED BY <3>1, <3>t, <4>2
    <3>5. Waiting' = Tail(Waiting)
      <4>1. Len(Waiting') = Stored - 1
        BY <2>q, <2>x, <3>1
      <4>2. ASSUME NEW i \in 1 .. Stored - 1
            PROVE  Waiting[i + 1] = elements[Slot(Released + i)]
        <5>1. i + 1 \in 1 .. Stored /\ (i + 1) - 1 = i
          BY <2>q
        <5> QED BY <3>2, <5>1
      <4>3. \A i \in 1 .. Len(Waiting') : Waiting'[i] = Tail(Waiting)[i]
        BY <3>2, <3>t, <4>1, <4>2
      <4> QED BY <2>x, <3>t, <4>1, <4>3, SeqEqual
    <3> QED BY <3>1, <3>3, <3>4, <3>5 DEF Queue!Next, Queue!Deq
  <2>8. CASE PopRelease
    <3>1. Pushed' = Pushed /\ Taken' = Taken
          /\ UNCHANGED <<elements, pelem>> /\ celem' = None
          /\ celem \in Elements
      BY <2>8 DEF PopRelease, Pushed, Taken, pVars, RInv, Popping
    <3>2. Waiting' = Waiting
      BY <3>1 DEF Waiting, Slot
    <3>3. celem # None
      BY <3>1, AtomicQueueAssumption
    <3> QED BY <3>1, <3>2, <3>3 DEF Queue!Next, Queue!Hand
  <2>9. CASE UNCHANGED vars
    BY <2>9 DEF vars, pVars, cVars, Waiting, Pushed, Taken, Slot
  <2> QED
    BY <2>1, <2>2, <2>3, <2>4, <2>5, <2>6, <2>7, <2>8, <2>9
    DEF Next, Push, Pop
<1> QED
  BY <1>1, <1>2, RInvHolds, PTL DEF Spec, Queue!Spec
=============================================================================
