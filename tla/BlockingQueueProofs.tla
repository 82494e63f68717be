------------------------ MODULE BlockingQueueProofs ------------------------
(***************************************************************************)
(* The client's queue, for any number of consumers, any bulk and any type  *)
(* of index: no sleeper is forgotten, the elements in the queue are the    *)
(* units of the semaphore, and its two-level count is a Semaphore.         *)
(*                                                                         *)
(* What a step does to the counts depends on the place the thread goes to  *)
(* and on the units it gets (Moves); each of the semaphore's steps is one  *)
(* of five kinds (TakeEffect to QuietEffect), with one Effect.  The queue  *)
(* adds that the elements balance with the units, and that a call claims   *)
(* no more than it has (CallsAgree).                                       *)
(***************************************************************************)
EXTENDS BlockingQueue, NatFacts

-----------------------------------------------------------------------------
(***************************************************************************)
(* The claims of ProducerBase, for any number of consumers: a refused      *)
(* dequeue leaves nothing behind, however often the counters wrap; and no  *)
(* consumer claims an element that is not there, while the counters have   *)
(* not gone half way round.                                                *)
(*                                                                         *)
(* A consumer decides with its own position in the order of reservations,  *)
(* less what it knew to be given back, while others before and behind it   *)
(* are still undecided.  Why the elements granted never exceed those there *)
(* (Fits): of the undecided consumers an initial part, in the order of     *)
(* reservations, is covered, that is, all they want is there besides all   *)
(* that is granted; and whoever comes later sees no more than what is left *)
(* when all before it have got what they want.                             *)
(***************************************************************************)

Half == IndexMod \div 2
Undecided == {c \in Consumers : cpc[c] = "decide"}
Earlier(c) == {d \in Undecided : mine[d] < mine[c]}

\* What is granted to each, if those of s get all they want.
Granting(s) ==
  [c \in Consumers |->
     IF cpc[c] \in {"giveback", "claim"} THEN left[c]
     ELSE IF c \in s THEN want[c] ELSE 0]
Granted(s) == SumFunction(Granting(s))

\* The counters are the sums they stand for, and the locals are in order.
Counted ==
  /\ dequeueOptimisticCount =
       headIndex + dequeueOvercommit + SumFunction(Reserved)
  /\ \A c \in Consumers :
       /\ cpc[c] \in {"reserve", "decide"} =>
            want[c] > 0 /\ overcommit[c] <= dequeueOvercommit
       /\ cpc[c] = "decide" =>
            /\ overcommit[c] <= mine[c]
            /\ mine[c] + want[c] <= dequeueOptimisticCount
       /\ cpc[c] \in {"giveback", "claim"} => left[c] <= want[c]
  /\ \A c, d \in Undecided : mine[c] = mine[d] => c = d

\* Those of s are the covered ones.
FitsWith(s) ==
  /\ s \subseteq Undecided
  /\ \A c \in s, d \in Undecided \ s : mine[c] < mine[d]
  /\ headIndex + Granted(s) <= tailIndex
  /\ \A d \in Undecided \ s, e \in SUBSET Consumers :
       e = Earlier(d) => headIndex + Granted(e) <= mine[d] - overcommit[d]

Fits == \E s \in SUBSET Consumers : FitsWith(s)

ClaimInv == BaseTypeOK /\ Counted /\ Fits

-----------------------------------------------------------------------------
(* Indices and sums *)

\* What the proofs of arithmetic need of the constants.
LEMMA ClaimFacts ==
  ASSUME BaseParameters
  PROVE  /\ IndexMod \in Nat \ {0} /\ Half \in Nat /\ 2 * Half <= IndexMod
         /\ IndexMod <= 2 * Half + 1 /\ 0 \in Indices /\ Indices \subseteq Nat
         /\ MaxBulk \in Nat /\ 0 \in 0 .. MaxBulk /\ 2 * MaxBulk < IndexMod
         /\ Half < IndexMod /\ Half + MaxBulk < IndexMod
BY IndexModAssumption DEF BaseParameters, Indices, Half

\* Below the wrap, an index moves on as a number does.
LEMMA PlusSmall ==
  ASSUME BaseParameters, NEW i \in Nat, NEW n \in Nat, i + n < IndexMod
  PROVE  Plus(i, n) = i + n /\ Plus(i, n) \in Indices
<1>1. IndexMod \in Nat \ {0} /\ i + n \in 0 .. IndexMod - 1
  BY ClaimFacts
<1> QED BY <1>1, ModSmall DEF Plus, Indices

\* The sum of what is reserved and the sums of what is granted are numbers, no
\* less than each term, and the first the greatest.
LEMMA ClaimSums ==
  ASSUME BaseParameters, BaseTypeOK, NEW s
  PROVE  /\ Reserved \in [Consumers -> Nat] /\ SumFunction(Reserved) \in Nat
         /\ \A c \in Consumers : Reserved[c] <= SumFunction(Reserved)
         /\ Granting(s) \in [Consumers -> Nat] /\ Granted(s) \in Nat
         /\ \A c \in Consumers : Granting(s)[c] <= Granted(s)
<1>1. Reserved \in [Consumers -> Nat] /\ Granting(s) \in [Consumers -> Nat]
  BY DEF Reserved, Granting, BaseTypeOK, BaseParameters
<1>2. IsFiniteSet(Consumers)
  BY DEF BaseParameters
<1>3. PICK f \in [Consumers -> Nat], g \in [Consumers -> Nat] :
        f = Reserved /\ g = Granting(s)
  BY <1>1
<1>4. /\ SumFunction(f) \in Nat /\ \A c \in Consumers : f[c] <= SumFunction(f)
      /\ SumFunction(g) \in Nat /\ \A c \in Consumers : g[c] <= SumFunction(g)
  BY <1>2, SumBounds
<1> QED BY <1>1, <1>3, <1>4, Zenon DEF Granted

\* Nothing is granted that has not been reserved.
LEMMA GrantedReserved ==
  ASSUME BaseParameters, BaseTypeOK, Counted, NEW s \in SUBSET Undecided
  PROVE  Granted(s) <= SumFunction(Reserved)
<1>1. IsFiniteSet(Consumers)
  BY DEF BaseParameters
<1>2. Reserved \in [Consumers -> Nat] /\ Granting(s) \in [Consumers -> Nat]
  BY ClaimSums
<1>3. \A c \in Consumers : Granting(s)[c] <= Reserved[c]
  BY DEF Granting, Reserved, Counted, BaseTypeOK, Undecided, BaseParameters
<1>4. PICK f \in [Consumers -> Int], g \in [Consumers -> Int] :
        f = Reserved /\ g = Granting(s)
  BY <1>2
<1>5. \A c \in Consumers : g[c] <= f[c]
  BY <1>3, <1>4
<1>6. SumFunction(g) <= SumFunction(f)
  BY <1>1, <1>5, SumMonotone
<1> QED BY <1>4, <1>6, Zenon DEF Granted

\* The sums change by what changes for the one consumer that takes a step.
LEMMA ReservedChange ==
  ASSUME BaseParameters, BaseTypeOK, BaseTypeOK', NEW c \in Consumers,
         \A d \in Consumers : d # c =>
           cpc'[d] = cpc[d] /\ want'[d] = want[d] /\ left'[d] = left[d]
  PROVE  SumFunction(Reserved') =
           SumFunction(Reserved) + (Reserved'[c] - Reserved[c])
<1>1. IsFiniteSet(Consumers)
  BY DEF BaseParameters
<1>2. Reserved \in [Consumers -> Int] /\ Reserved' \in [Consumers -> Int]
  BY DEF Reserved, BaseTypeOK, BaseParameters
<1>3. \A d \in Consumers : d # c => Reserved'[d] = Reserved[d]
  BY DEF Reserved
<1>4. PICK f \in [Consumers -> Int], g \in [Consumers -> Int] :
        f = Reserved /\ g = Reserved'
  BY <1>2
<1>5. \A d \in Consumers : d # c => g[d] = f[d]
  BY <1>3, <1>4
<1>6. SumFunction(g) = SumFunction(f) + (g[c] - f[c])
  BY <1>1, <1>5, SumChange
<1> QED BY <1>4, <1>6, Zenon

\* Granted to s before, and to t afterwards, who differ in c at most.
LEMMA GrantedChange ==
  ASSUME BaseParameters, BaseTypeOK, BaseTypeOK', NEW c \in Consumers,
         \A d \in Consumers : d # c =>
           cpc'[d] = cpc[d] /\ want'[d] = want[d] /\ left'[d] = left[d],
         NEW s, NEW t, \A d \in Consumers : d # c => (d \in s <=> d \in t)
  PROVE  Granted(t)' = Granted(s) + (Granting(t)'[c] - Granting(s)[c])
<1>1. IsFiniteSet(Consumers)
  BY DEF BaseParameters
<1>2. Granting(s) \in [Consumers -> Int] /\ Granting(t)' \in [Consumers -> Int]
  BY DEF Granting, BaseTypeOK, BaseParameters
<1>3. \A d \in Consumers : d # c => Granting(t)'[d] = Granting(s)[d]
  BY DEF Granting
<1>4. PICK f \in [Consumers -> Int], g \in [Consumers -> Int] :
        f = Granting(s) /\ g = Granting(t)'
  BY <1>2
<1>5. \A d \in Consumers : d # c => g[d] = f[d]
  BY <1>3, <1>4
<1>6. SumFunction(g) = SumFunction(f) + (g[c] - f[c])
  BY <1>1, <1>5, SumChange
<1> QED BY <1>4, <1>6, Zenon DEF Granted

-----------------------------------------------------------------------------
(* Types *)

\* An index that moves on is an index.
LEMMA MovesOn ==
  ASSUME BaseParameters, NEW i \in Indices, NEW n \in -MaxBulk .. MaxBulk
  PROVE  Plus(i, n) \in Indices
<1>1. IndexMod \in Nat \ {0} /\ i + n \in Int
  BY ClaimFacts
<1> QED BY <1>1 DEF Plus, Indices

\* What a consumer decides to take is no more than it wants.
LEMMA DecideActual ==
  ASSUME BaseParameters, BaseTypeOK, NEW c \in Consumers, Decide(c)
  PROVE  \E n \in 0 .. MaxBulk :
           /\ n <= want[c] /\ left' = [left EXCEPT ![c] = n]
           /\ Goto(c, IF n < want[c] THEN "giveback" ELSE "claim")
           /\ n > 0 => LET seen == Seen(mine[c], overcommit[c])
                       IN n <= seen /\ circular_less_than(0, seen)
<1> DEFINE seen == Seen(mine[c], overcommit[c])
           actual == IF ~circular_less_than(0, seen) THEN 0
                     ELSE IF want[c] < seen THEN want[c] ELSE seen
<1>1. seen \in Nat
  <2>1. tailIndex - (mine[c] - overcommit[c]) \in Int
    BY ClaimFacts DEF BaseTypeOK
  <2> QED BY <2>1, ClaimFacts DEF Seen
<1>2. want[c] \in 0 .. MaxBulk /\ MaxBulk \in Nat
  BY ClaimFacts DEF BaseTypeOK
<1>3. left' = [left EXCEPT ![c] = actual]
      /\ Goto(c, IF actual < want[c] THEN "giveback" ELSE "claim")
  BY DEF Decide
<1> HIDE DEF seen
<1>4. actual \in 0 .. MaxBulk /\ actual <= want[c]
      /\ (actual > 0 => actual <= seen /\ circular_less_than(0, seen))
  BY <1>1, <1>2
<1> HIDE DEF actual
<1> QED BY <1>3, <1>4 DEF seen

\* Every step keeps the types.
LEMMA BaseTypes ==
  ASSUME BaseParameters, BaseTypeOK, [BaseNext]_baseVars
  PROVE  BaseTypeOK'
<1> USE DEF BaseTypeOK
<1>0. MaxBulk \in Nat /\ 0 \in 0 .. MaxBulk /\ 0 \in Indices
  BY ClaimFacts
<1>1. ASSUME NEW n \in 1 .. MaxBulk, Publish(n) PROVE BaseTypeOK'
  <2>1. n \in -MaxBulk .. MaxBulk
    BY <1>0
  <2>2. tailIndex' \in Indices
    BY <1>1, <2>1, MovesOn DEF Publish
  <2> QED BY <1>1, <2>2 DEF Publish, claimVars
<1>2. ASSUME NEW c \in Consumers, NEW n \in 1 .. MaxBulk, DequeueCall(c, n)
      PROVE  BaseTypeOK'
  <2> DEFINE seen == Seen(dequeueOptimisticCount, dequeueOvercommit)
  <2>1. seen \in Nat
    <3>1. tailIndex - (dequeueOptimisticCount - dequeueOvercommit) \in Int
      BY ClaimFacts
    <3> QED BY <3>1, ClaimFacts DEF Seen
  <2> HIDE DEF seen
  <2>2. (IF seen < n THEN seen ELSE n) \in 0 .. MaxBulk
    BY <1>0, <2>1
  <2>3. want' \in [Consumers -> 0 .. MaxBulk]
    BY <1>2, <2>2 DEF DequeueCall, seen
  <2> QED BY <1>2, <2>3 DEF DequeueCall, counterVars, Goto
<1>3. ASSUME NEW c \in Consumers, Reserve(c) PROVE BaseTypeOK'
  <2>1. want[c] \in -MaxBulk .. MaxBulk
    BY <1>0
  <2>2. dequeueOptimisticCount' \in Indices
    BY <1>3, <2>1, MovesOn DEF Reserve
  <2> QED BY <1>3, <2>2 DEF Reserve, Goto
<1>4. ASSUME NEW c \in Consumers, Decide(c) PROVE BaseTypeOK'
  <2>1. PICK n \in 0 .. MaxBulk :
          /\ left' = [left EXCEPT ![c] = n]
          /\ Goto(c, IF n < want[c] THEN "giveback" ELSE "claim")
    BY <1>4, DecideActual
  <2> QED BY <1>4, <2>1 DEF Decide, Goto, counterVars
<1>5. ASSUME NEW c \in Consumers, GiveBack(c) PROVE BaseTypeOK'
  <2>1. want[c] - left[c] \in -MaxBulk .. MaxBulk
    BY <1>0
  <2>2. dequeueOvercommit' \in Indices
    BY <1>5, <2>1, MovesOn DEF GiveBack
  <2>3. CASE left[c] = 0
    BY <1>0, <1>5, <2>2, <2>3 DEF GiveBack, Leave, Goto
  <2>4. CASE left[c] # 0
    BY <1>5, <2>2, <2>4 DEF GiveBack, Goto
  <2> QED BY <2>3, <2>4
<1>6. ASSUME NEW c \in Consumers, Claim(c) PROVE BaseTypeOK'
  <2>1. left[c] \in -MaxBulk .. MaxBulk
    BY <1>0
  <2>2. headIndex' \in Indices
    BY <1>6, <2>1, MovesOn DEF Claim
  <2> QED BY <1>0, <1>6, <2>2 DEF Claim, Leave, Goto
<1>7. CASE UNCHANGED baseVars
  BY <1>7 DEF baseVars, counterVars, claimVars
<1> QED
  BY <1>1, <1>2, <1>3, <1>4, <1>5, <1>6, <1>7 DEF BaseNext, ClaimStep

\* At first there are no reservations, and no elements.
LEMMA ClaimInit ==
  ASSUME BaseParameters, BaseInit
  PROVE  BaseTypeOK /\ SumFunction(Reserved) = 0 /\ Granted({}) = 0
<1>1. BaseTypeOK
  BY ClaimFacts DEF BaseInit, BaseTypeOK
<1>2. IsFiniteSet(Consumers)
  BY DEF BaseParameters
<1>3. PICK f \in [Consumers -> Int], g \in [Consumers -> Int] :
        f = Reserved /\ g = Granting({})
  BY <1>1, ClaimSums
<1>4. \A c \in Consumers : Reserved[c] = 0 /\ Granting({})[c] = 0
  BY DEF BaseInit, Reserved, Granting
<1>5. \A c \in Consumers : f[c] = 0 /\ g[c] = 0
  BY <1>3, <1>4
<1>6. SumFunction(f) = 0 /\ SumFunction(g) = 0
  BY <1>2, <1>5, SumZero
<1> QED BY <1>1, <1>3, <1>6, Zenon DEF Granted

-----------------------------------------------------------------------------
(* Nothing is hidden, whether the counters have wrapped or not *)

\* The difference of two counters that move on by n and m.
LEMMA DifferenceMoves ==
  ASSUME NEW M \in Nat \ {0}, NEW o \in Int, NEW v \in Int,
         NEW n \in Int, NEW m \in Int
  PROVE  (((o + n) % M) - ((v + m) % M)) % M = (((o - v) % M) + (n - m)) % M
<1> DEFINE a == (o + n) % M
<1>1. (a - ((v + m) % M)) % M = (a - (v + m)) % M
  <2>1. a \in Int /\ v + m \in Int
    OBVIOUS
  <2> HIDE DEF a
  <2> QED BY <2>1, ModTakes
<1>2. (a + (-(v + m))) % M = ((o + n) + (-(v + m))) % M
  <2>1. o + n \in Int /\ -(v + m) \in Int
    OBVIOUS
  <2> QED BY <2>1, ModKeeps
<1>3. (((o - v) % M) + (n - m)) % M = ((o - v) + (n - m)) % M
  <2>1. o - v \in Int /\ n - m \in Int
    OBVIOUS
  <2> QED BY <2>1, ModKeeps
<1>4. a \in Int
  OBVIOUS
<1> HIDE DEF a
<1>5. a - (v + m) = a + (-(v + m))
  BY <1>4
<1>6. (o + n) + (-(v + m)) = (o - v) + (n - m)
  OBVIOUS
<1>7. (a - ((v + m) % M)) % M = (((o - v) % M) + (n - m)) % M
  BY <1>1, <1>2, <1>3, <1>5, <1>6
<1> QED BY <1>7 DEF a

\* Counters that move on by n, m and k keep the balance, if the sum does.
LEMMA HiddenKept ==
  ASSUME BaseParameters, BaseTypeOK, NothingHidden, NEW n \in Int,
         NEW m \in Int,
         NEW k \in Int, NEW d \in Int, n - m = k + d,
         dequeueOptimisticCount' = Plus(dequeueOptimisticCount, n),
         dequeueOvercommit' = Plus(dequeueOvercommit, m),
         headIndex' = Plus(headIndex, k),
         SumFunction(Reserved') = SumFunction(Reserved) + d
  PROVE  NothingHidden'
<1>1. PICK r \in Int : r = SumFunction(Reserved)
  BY ClaimSums
<1>2. PICK s \in Int : s = SumFunction(Reserved')
  BY <1>1
<1>3. IndexMod \in Nat \ {0} /\ s = r + d
  BY <1>1, <1>2, ClaimFacts
<1>4. /\ dequeueOptimisticCount \in Int /\ dequeueOvercommit \in Int
      /\ headIndex \in Int
  BY ClaimFacts DEF BaseTypeOK
<1>5. (dequeueOptimisticCount - dequeueOvercommit) % IndexMod =
        (headIndex + r) % IndexMod
  BY <1>1 DEF NothingHidden, Distance, Plus
<1>6. (dequeueOptimisticCount' - dequeueOvercommit') % IndexMod =
        (headIndex' + (r + d)) % IndexMod
  <2>1. PICK o \in Int, v \in Int, h \in Int, M \in Nat \ {0} :
          /\ o = dequeueOptimisticCount /\ v = dequeueOvercommit
          /\ h = headIndex /\ M = IndexMod
    BY <1>3, <1>4
  <2>2. (((o + n) % M) - ((v + m) % M)) % M = (((o - v) % M) + (n - m)) % M
    BY DifferenceMoves, SMTT(60)
  <2>3. (((h + k) % M) + (r + d)) % M = (((h + r) % M) + (k + d)) % M
    <3>1. \A x \in Int : (((h + k) % M) + x) % M = ((h + k) + x) % M
      <4>1. h + k \in Int
        OBVIOUS
      <4> QED BY <4>1, ModKeeps
    <3>2. \A x \in Int : (((h + r) % M) + x) % M = ((h + r) + x) % M
      <4>1. h + r \in Int
        OBVIOUS
      <4> QED BY <4>1, ModKeeps
    <3>3. r + d \in Int /\ k + d \in Int
          /\ (h + k) + (r + d) = (h + r) + (k + d)
      OBVIOUS
    <3> QED BY <3>1, <3>2, <3>3
  <2>4. (o - v) % M = (h + r) % M
    BY <1>5, <2>1
  <2>5. (((o + n) % M) - ((v + m) % M)) % M = (((h + k) % M) + (r + d)) % M
    BY <2>2, <2>3, <2>4
  <2> QED BY <2>1, <2>5, Zenon DEF Plus
<1>7. Distance(dequeueOvercommit', dequeueOptimisticCount') =
       Plus(headIndex', s)
  BY <1>3, <1>6 DEF Distance, Plus
<1> QED BY <1>2, <1>7, Zenon DEF NothingHidden

\* A counter that stays moves on by nothing.
LEMMA PlusNothing ==
  ASSUME BaseParameters, NEW i \in Indices
  PROVE  Plus(i, 0) = i
<1>1. IndexMod \in Nat \ {0} /\ i \in 0 .. IndexMod - 1
  BY ClaimFacts DEF Indices
<1>2. i % IndexMod = i
  BY <1>1, ModSmall
<1> QED BY <1>1, <1>2 DEF Plus

\* What each consumer's step does to the counters and to what it has reserved.
LEMMA ReservedMoves ==
  ASSUME BaseParameters, BaseTypeOK, [BaseNext]_baseVars
  PROVE  \E n \in 0 .. MaxBulk, m \in -MaxBulk .. MaxBulk,
            k \in 0 .. MaxBulk, d \in Int :
           /\ n - m = k + d /\ (Counted => m >= 0)
           /\ dequeueOptimisticCount' = Plus(dequeueOptimisticCount, n)
           /\ dequeueOvercommit' = Plus(dequeueOvercommit, m)
           /\ headIndex' = Plus(headIndex, k)
           /\ SumFunction(Reserved') = SumFunction(Reserved) + d
<1>0. BaseTypeOK' /\ SumFunction(Reserved) \in Nat
  BY BaseTypes, ClaimSums
<1>1. /\ Plus(dequeueOptimisticCount, 0) = dequeueOptimisticCount
      /\ Plus(dequeueOvercommit, 0) = dequeueOvercommit
      /\ Plus(headIndex, 0) = headIndex
  BY PlusNothing DEF BaseTypeOK
<1>2. ASSUME UNCHANGED <<headIndex, dequeueOptimisticCount, dequeueOvercommit,
                         claimVars>>
      PROVE  /\ dequeueOptimisticCount' = Plus(dequeueOptimisticCount, 0)
             /\ dequeueOvercommit' = Plus(dequeueOvercommit, 0)
             /\ headIndex' = Plus(headIndex, 0)
             /\ SumFunction(Reserved') = SumFunction(Reserved) + 0
  <2>1. Reserved' = Reserved
    BY <1>2 DEF Reserved, claimVars
  <2>2. SumFunction(Reserved') = SumFunction(Reserved)
    BY <2>1
  <2> QED BY <1>0, <1>1, <1>2, <2>2
<1>3. ASSUME NEW c \in Consumers,
             ClaimStep(c) \/ \E n \in 1 .. MaxBulk : DequeueCall(c, n)
      PROVE  /\ SumFunction(Reserved') =
                  SumFunction(Reserved) + (Reserved'[c] - Reserved[c])
             /\ Reserved[c] \in Int /\ Reserved'[c] \in Int
  <2>1. \A d \in Consumers : d # c =>
          cpc'[d] = cpc[d] /\ want'[d] = want[d] /\ left'[d] = left[d]
    BY <1>3 DEF ClaimStep, Reserve, Decide, GiveBack, Claim, DequeueCall, Goto,
                Leave, BaseTypeOK
  <2>2. SumFunction(Reserved') =
          SumFunction(Reserved) + (Reserved'[c] - Reserved[c])
    BY <1>0, <2>1, ReservedChange
  <2>3. Reserved[c] \in Int /\ Reserved'[c] \in Int
    BY <1>0 DEF Reserved, BaseTypeOK, BaseParameters
  <2> QED BY <2>2, <2>3
<1>4. ASSUME NEW c \in Consumers, \E n \in 1 .. MaxBulk : DequeueCall(c, n)
      PROVE  Reserved'[c] - Reserved[c] = 0
  BY <1>4 DEF DequeueCall, Reserved, Goto, BaseTypeOK
<1>5. ASSUME NEW c \in Consumers, Reserve(c)
      PROVE  Reserved'[c] - Reserved[c] = want[c]
  BY <1>5 DEF Reserve, Reserved, Goto, BaseTypeOK, BaseParameters
<1>6. ASSUME NEW c \in Consumers, Decide(c)
      PROVE  Reserved'[c] - Reserved[c] = 0
  <2>1. PICK n \in 0 .. MaxBulk :
          /\ n <= want[c] /\ left' = [left EXCEPT ![c] = n]
          /\ Goto(c, IF n < want[c] THEN "giveback" ELSE "claim")
    BY <1>6, DecideActual
  <2>2. want' = want /\ cpc[c] = "decide"
    BY <1>6 DEF Decide
  <2> QED BY <2>1, <2>2 DEF Reserved, Goto, BaseTypeOK, BaseParameters
<1>7. ASSUME NEW c \in Consumers, GiveBack(c)
      PROVE  Reserved'[c] - Reserved[c] = -(want[c] - left[c])
  BY <1>7 DEF GiveBack, Reserved, Goto, Leave, BaseTypeOK, BaseParameters
<1>8. ASSUME NEW c \in Consumers, Claim(c)
      PROVE  Reserved'[c] - Reserved[c] = -left[c]
  BY <1>8 DEF Claim, Reserved, Goto, Leave, BaseTypeOK, BaseParameters
<1>9. /\ \A c \in Consumers :
           want[c] \in 0 .. MaxBulk /\ left[c] \in 0 .. MaxBulk
      /\ MaxBulk \in Nat /\ 0 \in 0 .. MaxBulk /\ 0 \in -MaxBulk .. MaxBulk
  BY ClaimFacts DEF BaseTypeOK
<1>10. CASE \E n \in 1 .. MaxBulk : Publish(n)
  BY <1>2, <1>9, <1>10 DEF Publish
<1>11. CASE UNCHANGED baseVars
  BY <1>2, <1>9, <1>11 DEF baseVars, counterVars
<1>12. ASSUME NEW c \in Consumers, \E n \in 1 .. MaxBulk : DequeueCall(c, n)
       PROVE  /\ dequeueOptimisticCount' = Plus(dequeueOptimisticCount, 0)
              /\ dequeueOvercommit' = Plus(dequeueOvercommit, 0)
              /\ headIndex' = Plus(headIndex, 0)
              /\ SumFunction(Reserved') = SumFunction(Reserved) + 0
  <2>1. UNCHANGED counterVars
    BY <1>12 DEF DequeueCall
  <2> QED BY <1>1, <1>3, <1>4, <1>12, <2>1 DEF counterVars
<1>13. ASSUME NEW c \in Consumers, Reserve(c)
       PROVE  /\ dequeueOptimisticCount' =
                   Plus(dequeueOptimisticCount, want[c])
              /\ dequeueOvercommit' = Plus(dequeueOvercommit, 0)
              /\ headIndex' = Plus(headIndex, 0)
              /\ SumFunction(Reserved') = SumFunction(Reserved) + want[c]
  <2>1. SumFunction(Reserved') = SumFunction(Reserved) + want[c]
    BY <1>3, <1>5, <1>13 DEF ClaimStep
  <2> QED BY <1>1, <1>13, <2>1 DEF Reserve
<1>14. ASSUME NEW c \in Consumers, Decide(c)
       PROVE  /\ dequeueOptimisticCount' = Plus(dequeueOptimisticCount, 0)
              /\ dequeueOvercommit' = Plus(dequeueOvercommit, 0)
              /\ headIndex' = Plus(headIndex, 0)
              /\ SumFunction(Reserved') = SumFunction(Reserved) + 0
  <2>1. SumFunction(Reserved') = SumFunction(Reserved) + 0
    BY <1>3, <1>6, <1>14 DEF ClaimStep
  <2>2. UNCHANGED counterVars
    BY <1>14 DEF Decide
  <2> QED BY <1>1, <2>1, <2>2 DEF counterVars
<1>15. ASSUME NEW c \in Consumers, GiveBack(c)
       PROVE  /\ dequeueOptimisticCount' = Plus(dequeueOptimisticCount, 0)
              /\ dequeueOvercommit' =
                   Plus(dequeueOvercommit, want[c] - left[c])
              /\ headIndex' = Plus(headIndex, 0)
              /\ SumFunction(Reserved') =
                   SumFunction(Reserved) + (-(want[c] - left[c]))
  <2>1. SumFunction(Reserved') =
          SumFunction(Reserved) + (-(want[c] - left[c]))
    BY <1>3, <1>7, <1>15 DEF ClaimStep
  <2> QED BY <1>1, <1>15, <2>1 DEF GiveBack
<1>16. ASSUME NEW c \in Consumers, Claim(c)
       PROVE  /\ dequeueOptimisticCount' = Plus(dequeueOptimisticCount, 0)
              /\ dequeueOvercommit' = Plus(dequeueOvercommit, 0)
              /\ headIndex' = Plus(headIndex, left[c])
              /\ SumFunction(Reserved') = SumFunction(Reserved) + (-left[c])
  <2>1. SumFunction(Reserved') = SumFunction(Reserved) + (-left[c])
    BY <1>3, <1>8, <1>16 DEF ClaimStep
  <2> QED BY <1>1, <1>16, <2>1 DEF Claim
<1>17. CASE \E c \in Consumers :
              ClaimStep(c) \/ \E n \in 1 .. MaxBulk : DequeueCall(c, n)
  <2>1. PICK c \in Consumers :
          ClaimStep(c) \/ \E n \in 1 .. MaxBulk : DequeueCall(c, n)
    BY <1>17
  <2>2. CASE \E n \in 1 .. MaxBulk : DequeueCall(c, n)
    BY <1>9, <1>12, <2>2
  <2>3. CASE Reserve(c)
    BY <1>9, <1>13, <2>3
  <2>4. CASE Decide(c)
    BY <1>9, <1>14, <2>4
  <2>5. CASE GiveBack(c)
    <3>1. /\ want[c] - left[c] \in -MaxBulk .. MaxBulk
          /\ Counted => want[c] - left[c] >= 0
          /\ -(want[c] - left[c]) \in Int
          /\ 0 - (want[c] - left[c]) = 0 + (-(want[c] - left[c]))
      BY <1>9, <2>5 DEF Counted, GiveBack
    <3> QED BY <1>9, <1>15, <2>5, <3>1
  <2>6. CASE Claim(c)
    <3>1. -left[c] \in Int /\ 0 - 0 = left[c] + (-left[c])
      BY <1>9
    <3> QED BY <1>9, <1>16, <2>6, <3>1
  <2> QED BY <2>1, <2>2, <2>3, <2>4, <2>5, <2>6 DEF ClaimStep
<1> QED BY <1>10, <1>11, <1>17 DEF BaseNext

\* At first all counters are 0.
LEMMA HiddenInit ==
  ASSUME BaseParameters, BaseInit
  PROVE  NothingHidden
<1>1. IndexMod \in Nat \ {0} /\ 0 \in 0 .. IndexMod - 1
  BY ClaimFacts DEF Indices
<1>2. 0 % IndexMod = 0
  BY <1>1, ModSmall
<1>3. SumFunction(Reserved) = 0
  BY ClaimInit
<1> QED BY <1>2, <1>3 DEF NothingHidden, Distance, Plus, BaseInit

\* Every step keeps the balance of the counters.
LEMMA HiddenStep ==
  ASSUME BaseParameters, BaseTypeOK, NothingHidden, [BaseNext]_baseVars
  PROVE  NothingHidden'
<1>1. PICK n \in 0 .. MaxBulk, m \in -MaxBulk .. MaxBulk,
           k \in 0 .. MaxBulk, d \in Int :
        /\ n - m = k + d
        /\ dequeueOptimisticCount' = Plus(dequeueOptimisticCount, n)
        /\ dequeueOvercommit' = Plus(dequeueOvercommit, m)
        /\ headIndex' = Plus(headIndex, k)
        /\ SumFunction(Reserved') = SumFunction(Reserved) + d
  BY ReservedMoves
<1>2. n \in Int /\ m \in Int /\ k \in Int
  BY ClaimFacts
<1> QED BY <1>1, <1>2, HiddenKept

\* ReserveGiveBack (dequeue and dequeue_bulk): what the counters say is claimed
\* is what has been claimed and what is reserved at the moment, for any number
\* of consumers and however often the counters wrap.
THEOREM ClaimsNothingHidden ==
  ASSUME BaseParameters
  PROVE  BaseSpec => []NothingHidden
<1>1. BaseInit => BaseTypeOK /\ NothingHidden
  BY ClaimInit, HiddenInit
<1>2. BaseTypeOK /\ NothingHidden /\ [BaseNext]_baseVars
        => BaseTypeOK' /\ NothingHidden'
  BY BaseTypes, HiddenStep
<1> QED BY <1>1, <1>2, PTL DEF BaseSpec

-----------------------------------------------------------------------------
(* The counters and the locals, below the wrap *)

\* What is seen to be there, when it is compared right, is there.
LEMMA SeenRight ==
  ASSUME BaseParameters, NEW t \in Int, NEW x \in Int,
         circular_less_than(0, (t - x) % IndexMod)
  PROVE  /\ ((t - x) % IndexMod) > 0
         /\ t \in 0 .. Half /\ x \in 0 .. Half => (t - x) % IndexMod = t - x
<1> DEFINE y == (t - x) % IndexMod
<1>0. /\ IndexMod \in Nat \ {0} /\ Half \in Nat /\ 0 \in 0 .. IndexMod - 1
      /\ Half < IndexMod
  BY ClaimFacts DEF Indices
<1>1. y \in 0 .. IndexMod - 1 /\ t - x \in Int
  BY <1>0
<1> HIDE DEF y
<1>2. (0 - y) % IndexMod = IF y <= 0 THEN 0 - y ELSE 0 - y + IndexMod
  BY <1>0, <1>1, ModDifference
<1>3. (0 - y) % IndexMod > Half
  BY DEF circular_less_than, Distance, y, Half
<1>4. y > 0 /\ y < IndexMod - Half
  BY <1>0, <1>1, <1>2, <1>3
<1>5. ASSUME t \in 0 .. Half, x \in 0 .. Half PROVE y = t - x
  <2>1. t \in 0 .. IndexMod - 1 /\ x \in 0 .. IndexMod - 1
    BY <1>0, <1>5
  <2>2. y = IF x <= t THEN t - x ELSE t - x + IndexMod
    BY <1>0, <2>1, ModDifference DEF y
  <2> QED BY <1>0, <1>4, <1>5, <2>2
<1> QED BY <1>4, <1>5 DEF y

\* Below half the range, what is reserved, given back and claimed is all there.
LEMMA CountersBounded ==
  ASSUME BaseParameters, BaseTypeOK, Counted, BelowHalf
  PROVE  /\ tailIndex \in 0 .. Half /\ headIndex \in 0 .. Half
         /\ dequeueOptimisticCount \in 0 .. Half
         /\ dequeueOvercommit \in 0 .. dequeueOptimisticCount
         /\ dequeueOvercommit \in 0 .. Half
<1>1. PICK r \in Nat : r = SumFunction(Reserved)
  BY ClaimSums
<1>2. dequeueOptimisticCount = headIndex + dequeueOvercommit + r
  BY <1>1 DEF Counted
<1>3. /\ tailIndex \in Nat /\ headIndex \in Nat
      /\ dequeueOptimisticCount \in Nat /\ dequeueOvercommit \in Nat
      /\ Half \in Nat
  BY ClaimFacts DEF BaseTypeOK
<1>4. tailIndex <= Half /\ dequeueOptimisticCount <= Half
  BY DEF BelowHalf, Half
<1> QED BY <1>2, <1>3, <1>4

\* No counter wraps in a step, and the sum stays what it stands for.
LEMMA CountersKept ==
  ASSUME BaseParameters, BaseTypeOK, Counted, BelowHalf, [BaseNext]_baseVars
  PROVE  /\ dequeueOptimisticCount' =
              headIndex' + dequeueOvercommit' + SumFunction(Reserved')
         /\ dequeueOptimisticCount' >= dequeueOptimisticCount
         /\ dequeueOvercommit' >= dequeueOvercommit
<1>1. PICK n \in 0 .. MaxBulk, m \in -MaxBulk .. MaxBulk,
           k \in 0 .. MaxBulk, d \in Int :
        /\ n - m = k + d /\ m >= 0
        /\ dequeueOptimisticCount' = Plus(dequeueOptimisticCount, n)
        /\ dequeueOvercommit' = Plus(dequeueOvercommit, m)
        /\ headIndex' = Plus(headIndex, k)
        /\ SumFunction(Reserved') = SumFunction(Reserved) + d
  BY ReservedMoves
<1>2. PICK r \in Nat : r = SumFunction(Reserved)
  BY ClaimSums
<1>3. dequeueOptimisticCount = headIndex + dequeueOvercommit + r
  BY <1>2 DEF Counted
<1>4. PICK o \in 0 .. Half, v \in 0 .. Half, h \in 0 .. Half :
        o = dequeueOptimisticCount /\ v = dequeueOvercommit /\ h = headIndex
  BY CountersBounded
<1>5. /\ Half \in Nat /\ Half + MaxBulk < IndexMod /\ MaxBulk \in Nat
      /\ IndexMod \in Nat
  BY ClaimFacts
<1>6. /\ o \in Nat /\ v \in Nat /\ h \in Nat /\ n \in Nat /\ m \in Nat
      /\ k \in Nat
      /\ o + n < IndexMod /\ v + m < IndexMod /\ h + k < IndexMod
  BY <1>1, <1>5
<1>7. Plus(o, n) = o + n /\ Plus(v, m) = v + m /\ Plus(h, k) = h + k
  BY <1>6, PlusSmall
<1>8. dequeueOptimisticCount' = o + n /\ dequeueOvercommit' = v + m
      /\ headIndex' = h + k /\ SumFunction(Reserved') = r + d
  BY <1>1, <1>2, <1>4, <1>7
<1> QED BY <1>1, <1>3, <1>4, <1>6, <1>8

\* Every step keeps the counters' sums and the locals.
LEMMA CountedStep ==
  ASSUME BaseParameters, BaseTypeOK, Counted, BelowHalf, [BaseNext]_baseVars
  PROVE  Counted'
<1> DEFINE Local(c) ==
             /\ cpc[c] \in {"reserve", "decide"} =>
                  want[c] > 0 /\ overcommit[c] <= dequeueOvercommit
             /\ cpc[c] = "decide" =>
                  /\ overcommit[c] <= mine[c]
                  /\ mine[c] + want[c] <= dequeueOptimisticCount
             /\ cpc[c] \in {"giveback", "claim"} => left[c] <= want[c]
           Apart(c, d) ==
             cpc[c] = "decide" /\ cpc[d] = "decide"
             /\ mine[c] = mine[d] => c = d
<1>0. /\ BaseTypeOK' /\ dequeueOptimisticCount' >= dequeueOptimisticCount
      /\ dequeueOvercommit' >= dequeueOvercommit
      /\ dequeueOptimisticCount' =
              headIndex' + dequeueOvercommit' + SumFunction(Reserved')
  BY BaseTypes, CountersKept
<1>1. /\ \A c \in Consumers :
           want[c] \in Nat /\ left[c] \in Nat /\ mine[c] \in Nat
           /\ overcommit[c] \in Nat
      /\ dequeueOptimisticCount \in Nat /\ dequeueOvercommit \in Nat
      /\ dequeueOptimisticCount' \in Nat /\ dequeueOvercommit' \in Nat
      /\ dequeueOvercommit <= dequeueOptimisticCount
  <2>1. /\ dequeueOptimisticCount' \in Indices
        /\ dequeueOvercommit' \in Indices
        /\ Indices \subseteq Nat /\ 0 .. MaxBulk \subseteq Nat
    BY <1>0, ClaimFacts DEF BaseTypeOK
  <2>2. dequeueOvercommit <= dequeueOptimisticCount
    BY CountersBounded
  <2> QED BY <2>1, <2>2 DEF BaseTypeOK
<1>2. (\A c \in Consumers : Local(c)) /\ \A c, d \in Consumers : Apart(c, d)
  BY DEF Counted, Undecided
<1>3. ASSUME NEW c \in Consumers, UNCHANGED <<cpc[c], want[c], overcommit[c],
                                             mine[c], left[c]>>
      PROVE  Local(c)'
  BY <1>0, <1>1, <1>2, <1>3
<1>4. ASSUME UNCHANGED claimVars
      PROVE  (\A c \in Consumers : Local(c)')
             /\ \A c, d \in Consumers : Apart(c, d)'
  BY <1>2, <1>3, <1>4 DEF claimVars
<1>5. ASSUME NEW c \in Consumers,
             ClaimStep(c) \/ \E n \in 1 .. MaxBulk : DequeueCall(c, n)
      PROVE  /\ \A d \in Consumers : d # c =>
                  UNCHANGED <<cpc[d], want[d], overcommit[d], mine[d],
                         left[d]>>
             /\ \A d \in Consumers : d # c => Local(d)'
  <2>1. \A d \in Consumers : d # c =>
          UNCHANGED <<cpc[d], want[d], overcommit[d], mine[d], left[d]>>
    BY <1>5 DEF ClaimStep, Reserve, Decide, GiveBack, Claim, DequeueCall, Goto,
                Leave, BaseTypeOK
  <2> HIDE DEF Local
  <2> QED BY <1>3, <2>1
<1>6. ASSUME NEW c \in Consumers, \E n \in 1 .. MaxBulk : DequeueCall(c, n)
      PROVE  Local(c)' /\ \A d \in Consumers : Apart(c, d)' /\ Apart(d, c)'
  <2>1. PICK n \in 1 .. MaxBulk : DequeueCall(c, n)
    BY <1>6
  <2> DEFINE seen == Seen(dequeueOptimisticCount, dequeueOvercommit)
  <2>2. seen > 0 /\ seen \in Nat
    <3>1. /\ dequeueOptimisticCount - dequeueOvercommit \in Int
          /\ tailIndex \in Int /\ IndexMod \in Nat \ {0}
      BY <1>1, ClaimFacts DEF BaseTypeOK
    <3>2. seen > 0
      BY <2>1, <3>1, SeenRight DEF DequeueCall, Seen
    <3> QED BY <3>1, <3>2 DEF Seen
  <2> HIDE DEF seen
  <2>3. want'[c] = IF seen < n THEN seen ELSE n
    BY <2>1 DEF DequeueCall, BaseTypeOK, seen
  <2>4. want'[c] > 0
    BY <2>2, <2>3, ClaimFacts
  <2>5. cpc'[c] = "reserve" /\ overcommit'[c] = dequeueOvercommit
        /\ dequeueOvercommit' = dequeueOvercommit
    BY <2>1 DEF DequeueCall, BaseTypeOK, Goto, counterVars
  <2> QED BY <1>1, <2>4, <2>5
<1>7. ASSUME NEW c \in Consumers, Reserve(c)
      PROVE  Local(c)' /\ \A d \in Consumers : Apart(c, d)' /\ Apart(d, c)'
  <2>1. /\ cpc[c] = "reserve" /\ cpc'[c] = "decide"
        /\ mine'[c] = dequeueOptimisticCount
        /\ overcommit'[c] = overcommit[c] /\ want'[c] = want[c]
        /\ dequeueOvercommit' = dequeueOvercommit
    BY <1>7 DEF Reserve, Goto, BaseTypeOK
  <2>2. dequeueOptimisticCount' = dequeueOptimisticCount + want[c]
    <3>1. /\ dequeueOptimisticCount \in 0 .. Half /\ want[c] \in 0 .. MaxBulk
          /\ Half + MaxBulk < IndexMod /\ Half \in Nat /\ MaxBulk \in Nat
          /\ IndexMod \in Nat
      BY CountersBounded, ClaimFacts DEF BaseTypeOK
    <3>2. dequeueOptimisticCount + want[c] < IndexMod
      BY <3>1
    <3> QED BY <1>1, <1>7, <3>2, PlusSmall DEF Reserve
  <2>3. want[c] > 0 /\ overcommit[c] <= dequeueOvercommit
    BY <1>2, <2>1
  <2>4. Local(c)'
    BY <1>1, <2>1, <2>2, <2>3
  <2>5. ASSUME NEW d \in Consumers, d # c, cpc'[d] = "decide"
        PROVE  mine'[d] < mine'[c] /\ mine'[d] \in Nat /\ mine'[c] \in Nat
    <3>1. cpc[d] = "decide" /\ mine'[d] = mine[d]
      BY <1>7, <2>5 DEF Reserve, Goto, BaseTypeOK
    <3>2. want[d] > 0 /\ mine[d] + want[d] <= dequeueOptimisticCount
      BY <1>2, <3>1
    <3> QED BY <1>1, <2>1, <3>1, <3>2
  <2> QED BY <2>4, <2>5
<1>8. ASSUME NEW c \in Consumers, Decide(c) \/ GiveBack(c) \/ Claim(c)
      PROVE  Local(c)' /\ \A d \in Consumers : Apart(c, d)' /\ Apart(d, c)'
  <2>1. cpc'[c] \in {"idle", "giveback", "claim"}
    <3>1. CASE Decide(c)
      <4>1. PICK n \in 0 .. MaxBulk :
              Goto(c, IF n < want[c] THEN "giveback" ELSE "claim")
        BY <3>1, DecideActual
      <4> QED BY <4>1 DEF Goto, BaseTypeOK
    <3>2. CASE GiveBack(c) \/ Claim(c)
      BY <3>2 DEF GiveBack, Claim, Leave, Goto, BaseTypeOK
    <3> QED BY <1>8, <3>1, <3>2
  <2>2. cpc'[c] \in {"giveback", "claim"} => left'[c] <= want'[c]
    <3>1. CASE Decide(c)
      <4>1. PICK n \in 0 .. MaxBulk :
              n <= want[c] /\ left' = [left EXCEPT ![c] = n]
        BY <3>1, DecideActual
      <4>2. want' = want /\ left'[c] = n
        BY <3>1, <4>1 DEF Decide, BaseTypeOK
      <4> QED BY <4>1, <4>2
    <3>2. CASE GiveBack(c)
      BY <1>2, <3>2 DEF GiveBack, Leave, Goto, BaseTypeOK
    <3>3. CASE Claim(c)
      BY <3>3 DEF Claim, Leave, Goto, BaseTypeOK
    <3> QED BY <1>8, <3>1, <3>2, <3>3
  <2> QED BY <2>1, <2>2
<1>9. ASSUME NEW c \in Consumers,
             ClaimStep(c) \/ \E n \in 1 .. MaxBulk : DequeueCall(c, n)
      PROVE  (\A d \in Consumers : Local(d)')
             /\ \A d, e \in Consumers : Apart(d, e)'
  <2>1. Local(c)' /\ \A d \in Consumers : Apart(c, d)' /\ Apart(d, c)'
    BY <1>6, <1>7, <1>8, <1>9 DEF ClaimStep
  <2>2. ASSUME NEW d \in Consumers, NEW e \in Consumers, d # c, e # c
        PROVE  Apart(d, e)'
    BY <1>2, <1>5, <1>9, <2>2
  <2> HIDE DEF Local, Apart
  <2> QED BY <1>5, <1>9, <2>1, <2>2
<1>10. (\A c \in Consumers : Local(c)') /\ \A c, d \in Consumers : Apart(c, d)'
  <2>1. CASE \E n \in 1 .. MaxBulk : Publish(n)
    <3>1. UNCHANGED claimVars
      BY <2>1 DEF Publish
    <3> HIDE DEF Local, Apart
    <3> QED BY <1>4, <3>1
  <2>2. CASE UNCHANGED baseVars
    <3>1. UNCHANGED claimVars
      BY <2>2 DEF baseVars
    <3> HIDE DEF Local, Apart
    <3> QED BY <1>4, <3>1
  <2>3. CASE \E c \in Consumers :
               ClaimStep(c) \/ \E n \in 1 .. MaxBulk : DequeueCall(c, n)
    <3> HIDE DEF Local, Apart
    <3> QED BY <1>9, <2>3
  <2> QED BY <2>1, <2>2, <2>3 DEF BaseNext
<1> QED BY <1>0, <1>10 DEF Counted, Undecided

-----------------------------------------------------------------------------
(* Claims fit *)

\* The numbers of a consumer that has reserved.
LEMMA DecidingFacts ==
  ASSUME BaseParameters, BaseTypeOK, Counted, BelowHalf
  PROVE  /\ \A d \in Undecided :
              /\ d \in Consumers /\ want[d] \in Nat /\ want[d] > 0
              /\ mine[d] \in 0 .. Half /\ overcommit[d] \in 0 .. mine[d]
              /\ mine[d] - overcommit[d] \in 0 .. Half
              /\ mine[d] < dequeueOptimisticCount
         /\ \A d, e \in Undecided : mine[d] = mine[e] => d = e
<1>1. /\ dequeueOptimisticCount \in Nat /\ dequeueOptimisticCount <= Half
      /\ Half \in Nat
  BY CountersBounded, ClaimFacts
<1>2. \A d \in Consumers :
        want[d] \in Nat /\ mine[d] \in Nat /\ overcommit[d] \in Nat
  BY ClaimFacts DEF BaseTypeOK
<1>3. ASSUME NEW d \in Undecided
      PROVE  /\ d \in Consumers /\ want[d] > 0 /\ overcommit[d] <= mine[d]
             /\ mine[d] + want[d] <= dequeueOptimisticCount
  BY DEF Undecided, Counted
<1>4. ASSUME NEW d \in Undecided
      PROVE  /\ d \in Consumers /\ want[d] \in Nat /\ want[d] > 0
             /\ mine[d] \in 0 .. Half /\ overcommit[d] \in 0 .. mine[d]
             /\ mine[d] - overcommit[d] \in 0 .. Half
             /\ mine[d] < dequeueOptimisticCount
  BY <1>1, <1>2, <1>3
<1> QED BY <1>4 DEF Counted

\* A step that no undecided consumer sees: what is claimed was granted.
LEMMA FitsUnseen ==
  ASSUME BaseParameters, BaseTypeOK, BaseTypeOK', Fits,
         Undecided' = Undecided, tailIndex' >= tailIndex,
         \A d \in Undecided :
           mine'[d] = mine[d] /\ overcommit'[d] = overcommit[d],
         \A e \in SUBSET Consumers : e \subseteq Undecided =>
           headIndex' + Granted(e)' = headIndex + Granted(e)
  PROVE  Fits'
<1>1. PICK s \in SUBSET Consumers : FitsWith(s)
  BY DEF Fits
<1>2. s \subseteq Undecided
  BY <1>1 DEF FitsWith
<1>3. headIndex' + Granted(s)' <= tailIndex'
  <2>1. headIndex + Granted(s) <= tailIndex
    BY <1>1 DEF FitsWith
  <2>2. /\ headIndex \in Int /\ tailIndex \in Int /\ tailIndex' \in Int
        /\ Granted(s) \in Int
    BY ClaimSums, ClaimFacts DEF BaseTypeOK
  <2>3. headIndex' + Granted(s)' = headIndex + Granted(s)
    BY <1>2
  <2> QED BY <2>1, <2>2, <2>3
<1>4. ASSUME NEW d \in Undecided' \ s, NEW e \in SUBSET Consumers,
             e = Earlier(d)'
      PROVE  headIndex' + Granted(e)' <= mine'[d] - overcommit'[d]
  <2>1. d \in Undecided \ s /\ e = Earlier(d) /\ e \subseteq Undecided
    BY <1>4 DEF Earlier
  <2>2. headIndex + Granted(e) <= mine[d] - overcommit[d]
    BY <1>1, <2>1 DEF FitsWith
  <2>3. headIndex' + Granted(e)' = headIndex + Granted(e)
    BY <2>1
  <2>4. mine'[d] = mine[d] /\ overcommit'[d] = overcommit[d]
    BY <2>1
  <2> QED BY <2>2, <2>3, <2>4
<1>5. \A a \in s, d \in Undecided' \ s : mine'[a] < mine'[d]
  BY <1>1, <1>2 DEF FitsWith
<1>6. FitsWith(s)'
  BY <1>2, <1>3, <1>4, <1>5 DEF FitsWith
<1> QED BY <1>6 DEF Fits

\* One that reserves comes after all who are undecided, and all that is
\* reserved fits before it.
LEMMA FitsReserve ==
  ASSUME BaseParameters, BaseTypeOK, BaseTypeOK', Counted, BelowHalf, Fits,
         NEW c \in Consumers, Reserve(c)
  PROVE  Fits'
<1>1. PICK s \in SUBSET Consumers : FitsWith(s)
  BY DEF Fits
<1>2. s \subseteq Undecided /\ c \notin Undecided /\ c \notin s
  BY <1>1 DEF FitsWith, Undecided, Reserve
<1>3. /\ mine'[c] = dequeueOptimisticCount /\ overcommit'[c] = overcommit[c]
      /\ \A d \in Consumers : d # c =>
           /\ cpc'[d] = cpc[d] /\ want'[d] = want[d] /\ left'[d] = left[d]
           /\ mine'[d] = mine[d] /\ overcommit'[d] = overcommit[d]
      /\ headIndex' = headIndex /\ tailIndex' = tailIndex
      /\ cpc[c] = "reserve" /\ cpc'[c] = "decide"
  BY DEF Reserve, Goto, BaseTypeOK
<1>4. Undecided' = Undecided \cup {c}
  BY <1>3 DEF Undecided
<1>5. ASSUME NEW e \in SUBSET Consumers, c \notin e
      PROVE  Granted(e)' = Granted(e)
  <2>1. Granted(e)' = Granted(e) + (Granting(e)'[c] - Granting(e)[c])
    <3>1. \A d \in Consumers : d # c =>
            cpc'[d] = cpc[d] /\ want'[d] = want[d] /\ left'[d] = left[d]
      BY <1>3
    <3> QED BY <3>1, GrantedChange
  <2>2. Granting(e)'[c] = 0 /\ Granting(e)[c] = 0
    BY <1>3, <1>5 DEF Granting
  <2>3. Granted(e) \in Nat
    BY ClaimSums
  <2> QED BY <2>1, <2>2, <2>3
<1>6. headIndex' + Granted(s)' <= tailIndex'
  BY <1>1, <1>2, <1>3, <1>5 DEF FitsWith
<1>7. \A d \in Undecided : mine[d] < dequeueOptimisticCount
  BY DecidingFacts
<1>8. ASSUME NEW d \in Undecided' \ s, NEW e \in SUBSET Consumers,
             e = Earlier(d)'
      PROVE  headIndex' + Granted(e)' <= mine'[d] - overcommit'[d]
  <2>1. CASE d = c
    <3>1. e = Undecided
      <4>1. e = {x \in Undecided \cup {c} : mine'[x] < mine'[c]}
        BY <1>4, <1>8, <2>1 DEF Earlier
      <4>2. ~(mine'[c] < mine'[c])
        BY <1>3, ClaimFacts DEF BaseTypeOK
      <4>3. \A x \in Undecided : mine'[x] = mine[x]
        BY <1>2, <1>3 DEF Undecided
      <4> QED BY <1>3, <1>7, <4>1, <4>2, <4>3
    <3>2. Granted(e)' = Granted(e)
      BY <1>2, <1>5, <3>1
    <3>3. Granted(e) <= SumFunction(Reserved)
      BY <3>1, GrantedReserved
    <3>4. PICK g \in Nat, r \in Nat :
            g = Granted(e) /\ r = SumFunction(Reserved)
      BY ClaimSums
    <3>5. /\ dequeueOptimisticCount = headIndex + dequeueOvercommit + r
          /\ overcommit[c] <= dequeueOvercommit
      BY <1>3, <3>4 DEF Counted
    <3>6. /\ headIndex \in Nat /\ dequeueOvercommit \in Nat
          /\ overcommit[c] \in Nat
      BY ClaimFacts DEF BaseTypeOK
    <3>7. headIndex + g <= dequeueOptimisticCount - overcommit[c]
      BY <3>3, <3>4, <3>5, <3>6
    <3> QED BY <1>3, <2>1, <3>2, <3>4, <3>7
  <2>2. CASE d # c
    <3>1. d \in Undecided \ s
      BY <1>4, <2>2
    <3>2. ~(dequeueOptimisticCount < mine[d])
      <4>1. mine[d] \in Nat /\ dequeueOptimisticCount \in Nat
        BY <3>1, ClaimFacts DEF BaseTypeOK, Undecided
      <4> QED BY <1>7, <3>1, <4>1
    <3>3. e = Earlier(d) /\ c \notin e
      BY <1>2, <1>3, <1>4, <1>8, <3>1, <3>2 DEF Earlier, Undecided
    <3>4. headIndex + Granted(e) <= mine[d] - overcommit[d]
      BY <1>1, <3>1, <3>3 DEF FitsWith
    <3>5. Granted(e)' = Granted(e)
      BY <1>5, <3>3
    <3>6. mine'[d] = mine[d] /\ overcommit'[d] = overcommit[d]
      BY <1>3, <2>2, <3>1 DEF Undecided
    <3> QED BY <1>3, <3>4, <3>5, <3>6
  <2> QED BY <2>1, <2>2
<1>9. ASSUME NEW a \in s, NEW d \in Undecided' \ s
      PROVE  mine'[a] < mine'[d]
  <2>1. a \in Undecided /\ mine'[a] = mine[a]
    BY <1>2, <1>3 DEF Undecided
  <2>2. CASE d = c
    BY <1>3, <1>7, <2>1, <2>2
  <2>3. CASE d # c
    BY <1>1, <1>3, <1>4, <2>1, <2>3 DEF FitsWith, Undecided
  <2> QED BY <2>2, <2>3
<1>10. FitsWith(s)'
  BY <1>2, <1>4, <1>6, <1>8, <1>9 DEF FitsWith
<1> QED BY <1>10 DEF Fits

\* One that decides: if covered or given nothing, the others stay covered;
\* if it was not and gets something, then all before it are covered now.
LEMMA FitsDecide ==
  ASSUME BaseParameters, BaseTypeOK, BaseTypeOK', Counted, BelowHalf, Fits,
         NEW c \in Consumers, Decide(c)
  PROVE  Fits'
<1>1. PICK s \in SUBSET Consumers : FitsWith(s)
  BY DEF Fits
<1>2. PICK n \in 0 .. MaxBulk :
        /\ n <= want[c] /\ left' = [left EXCEPT ![c] = n]
        /\ Goto(c, IF n < want[c] THEN "giveback" ELSE "claim")
        /\ n > 0 => LET seen == Seen(mine[c], overcommit[c])
                    IN n <= seen /\ circular_less_than(0, seen)
  BY DecideActual
<1>3. PICK b \in SUBSET Consumers : b = Earlier(c)
  BY DEF Earlier, Undecided
<1>4. /\ c \in Undecided /\ cpc'[c] \in {"giveback", "claim"} /\ left'[c] = n
      /\ \A d \in Consumers : d # c =>
           cpc'[d] = cpc[d] /\ want'[d] = want[d] /\ left'[d] = left[d]
      /\ UNCHANGED <<counterVars, overcommit, mine, want>>
  BY <1>2 DEF Decide, Goto, BaseTypeOK, Undecided
<1>5. Undecided' = Undecided \ {c}
  BY <1>4 DEF Undecided
<1>6. n \in Nat /\ want[c] \in Nat
  BY <1>2, <1>4, ClaimFacts, DecidingFacts
<1>7. ASSUME NEW e \in SUBSET Consumers, NEW f \in SUBSET Consumers,
             \A d \in Consumers : d # c => (d \in e <=> d \in f)
      PROVE  Granted(f)' = Granted(e) + (n - (IF c \in e THEN want[c] ELSE 0))
  <2>1. Granted(f)' = Granted(e) + (Granting(f)'[c] - Granting(e)[c])
    <3>1. \A d \in Consumers : d # c =>
            cpc'[d] = cpc[d] /\ want'[d] = want[d] /\ left'[d] = left[d]
      BY <1>4
    <3> QED BY <1>7, <3>1, GrantedChange
  <2>2. Granting(f)'[c] = n
    BY <1>4 DEF Granting
  <2>3. Granting(e)[c] = IF c \in e THEN want[c] ELSE 0
    BY <1>4 DEF Granting, Undecided
  <2> QED BY <2>1, <2>2, <2>3
<1>8. /\ headIndex \in Nat /\ tailIndex \in 0 .. Half
      /\ \A e \in SUBSET Consumers : Granted(e) \in Nat
      /\ \A d \in Undecided : mine[d] \in Nat /\ overcommit[d] \in Nat
  BY ClaimSums, ClaimFacts, CountersBounded, DecidingFacts
<1>9. ASSUME NEW t \in SUBSET Consumers, t \subseteq Undecided',
             headIndex + Granted(t)' <= tailIndex,
             \A a \in t, d \in Undecided' \ t : mine[a] < mine[d],
             \A d \in Undecided' \ t :
               d \notin s /\ (n = 0 \/ mine[c] < mine[d])
      PROVE  Fits'
  <2>1. ASSUME NEW d \in Undecided' \ t, NEW e \in SUBSET Consumers,
               e = Earlier(d)'
        PROVE  headIndex' + Granted(e)' <= mine'[d] - overcommit'[d]
    <3>1. PICK f \in SUBSET Consumers : f = Earlier(d)
      BY DEF Earlier, Undecided
    <3>2. d \in Undecided \ s
      BY <1>5, <1>9
    <3>3. headIndex + Granted(f) <= mine[d] - overcommit[d]
      BY <1>1, <3>1, <3>2 DEF FitsWith
    <3>4. \A x \in Consumers : x # c => (x \in f <=> x \in e)
      BY <1>4, <1>5, <2>1, <3>1 DEF Earlier
    <3>5. Granted(e)' = Granted(f) + (n - (IF c \in f THEN want[c] ELSE 0))
      BY <1>7, <3>4
    <3>6. n = 0 \/ c \in f
      BY <1>4, <1>9, <3>1 DEF Earlier
    <3>7. n - (IF c \in f THEN want[c] ELSE 0) <= 0
          /\ n - (IF c \in f THEN want[c] ELSE 0) \in Int
      BY <1>2, <1>6, <3>6
    <3>8. /\ headIndex \in Nat /\ Granted(f) \in Nat
          /\ mine[d] - overcommit[d] \in Int
      BY <1>8, <3>2
    <3>9. headIndex + Granted(e)' <= mine[d] - overcommit[d]
      BY <3>3, <3>5, <3>7, <3>8
    <3> QED BY <1>4, <3>9 DEF counterVars
  <2>2. FitsWith(t)'
    BY <1>4, <1>9, <2>1 DEF FitsWith, counterVars
  <2> QED BY <2>2 DEF Fits
<1>10. CASE n = 0 \/ c \in s
  <2> DEFINE t == s \ {c}
  <2>1. t \subseteq Undecided' /\ t \in SUBSET Consumers
    BY <1>1, <1>5 DEF FitsWith
  <2>2. headIndex + Granted(t)' <= tailIndex
    <3>1. Granted(t)' = Granted(s) + (n - (IF c \in s THEN want[c] ELSE 0))
      BY <1>7, <2>1
    <3>2. n - (IF c \in s THEN want[c] ELSE 0) <= 0
          /\ n - (IF c \in s THEN want[c] ELSE 0) \in Int
      BY <1>2, <1>6, <1>10
    <3>3. headIndex + Granted(s) <= tailIndex
      BY <1>1 DEF FitsWith
    <3>4. tailIndex \in Int /\ headIndex \in Int /\ Granted(s) \in Int
      BY <1>8
    <3> QED BY <3>1, <3>2, <3>3, <3>4
  <2>3. \A a \in t, d \in Undecided' \ t : mine[a] < mine[d]
    BY <1>1, <1>5 DEF FitsWith
  <2>4. \A d \in Undecided' \ t : d \notin s /\ (n = 0 \/ mine[c] < mine[d])
    BY <1>1, <1>5, <1>10 DEF FitsWith
  <2> HIDE DEF t
  <2> QED BY <1>9, <2>1, <2>2, <2>3, <2>4
<1>11. CASE n # 0 /\ c \notin s
  <2>1. b \subseteq Undecided' /\ c \notin b
    BY <1>3, <1>5, <1>8 DEF Earlier
  <2>2. headIndex + Granted(b)' <= tailIndex
    <3>1. Granted(b)' = Granted(b) + n
      <4>1. Granted(b)' = Granted(b) + (n - 0)
        BY <1>7, <2>1
      <4> QED BY <1>6, <4>1
    <3>2. headIndex + Granted(b) <= mine[c] - overcommit[c]
      BY <1>1, <1>3, <1>4, <1>11 DEF FitsWith
    <3>3. n <= Seen(mine[c], overcommit[c])
          /\ circular_less_than(0, Seen(mine[c], overcommit[c]))
      BY <1>2, <1>6, <1>11
    <3>4. PICK x \in 0 .. Half : x = mine[c] - overcommit[c]
      BY <1>4, DecidingFacts
    <3>5. PICK y \in 0 .. Half : y = tailIndex
      BY <1>8
    <3>6. Seen(mine[c], overcommit[c]) = (y - x) % IndexMod
      BY <3>4, <3>5 DEF Seen
    <3>7. (y - x) % IndexMod = y - x
      <4>1. x \in Int /\ y \in Int
        BY ClaimFacts
      <4> QED BY <3>3, <3>6, <4>1, SeenRight
    <3>8. /\ headIndex \in Nat /\ Granted(b) \in Nat
          /\ x \in Nat /\ y \in Nat
      BY <1>8, ClaimFacts
    <3>9. headIndex + (Granted(b) + n) <= y
      BY <1>6, <3>2, <3>3, <3>4, <3>6, <3>7, <3>8
    <3> QED BY <3>1, <3>5, <3>9
  <2>3. ASSUME NEW d \in Undecided' \ b
        PROVE  mine[c] < mine[d] /\ d \in Undecided /\ d \notin s
    <3>1. d \in Undecided /\ d # c /\ ~(mine[d] < mine[c])
      BY <1>3, <1>5 DEF Earlier
    <3>2. mine[d] # mine[c]
      BY <1>4, <3>1, DecidingFacts
    <3>3. mine[c] < mine[d]
      BY <1>4, <1>8, <3>1, <3>2
    <3>4. d \in s => mine[d] < mine[c]
      BY <1>1, <1>4, <1>11 DEF FitsWith
    <3> QED BY <3>1, <3>3, <3>4
  <2>4. ASSUME NEW a \in b, NEW d \in Undecided' \ b
        PROVE  mine[a] < mine[d]
    <3>1. mine[a] < mine[c] /\ a \in Undecided
      BY <1>3 DEF Earlier
    <3> QED BY <1>4, <1>8, <2>3, <3>1
  <2> QED BY <1>9, <2>1, <2>2, <2>3, <2>4
<1> QED BY <1>10, <1>11

\* Every step leaves claims that fit.
LEMMA FitsStep ==
  ASSUME BaseParameters, ClaimInv, BelowHalf, [BaseNext]_baseVars
  PROVE  Fits'
<1> USE DEF ClaimInv
<1>1. BaseTypeOK' /\ BaseTypeOK /\ Counted /\ Fits
  BY BaseTypes
<1>2. ASSUME UNCHANGED claimVars, headIndex' =
       headIndex, tailIndex' >= tailIndex
      PROVE  Fits'
  <2>1. Undecided' = Undecided
    BY <1>2 DEF Undecided, claimVars
  <2>2. \A d \in Undecided :
          mine'[d] = mine[d] /\ overcommit'[d] = overcommit[d]
    BY <1>2 DEF claimVars
  <2>3. ASSUME NEW e \in SUBSET Consumers PROVE Granted(e)' = Granted(e)
    <3>1. Granting(e)' = Granting(e)
      BY <1>2 DEF Granting, claimVars
    <3> QED BY <3>1 DEF Granted
  <2> QED BY <1>1, <1>2, <2>1, <2>2, <2>3, FitsUnseen
<1>3. CASE \E n \in 1 .. MaxBulk : Publish(n)
  <2>1. PICK n \in 1 .. MaxBulk : Publish(n)
    BY <1>3
  <2>2. PICK t \in 0 .. Half : t = tailIndex
    BY <1>1, CountersBounded
  <2>3. t \in Nat /\ n \in Nat /\ t + n < IndexMod
    BY ClaimFacts
  <2>4. tailIndex' = t + n
    BY <2>1, <2>2, <2>3, PlusSmall DEF Publish
  <2>5. tailIndex' >= tailIndex
    BY <2>2, <2>3, <2>4
  <2> QED BY <1>2, <2>1, <2>5 DEF Publish
<1>4. CASE UNCHANGED baseVars
  <2>1. tailIndex' >= tailIndex
    BY <1>4, <1>1, ClaimFacts DEF baseVars, counterVars, BaseTypeOK
  <2> QED BY <1>2, <1>4, <2>1 DEF baseVars, counterVars
<1>5. ASSUME NEW c \in Consumers,
             GiveBack(c) \/ Claim(c) \/
                    \E n \in 1 .. MaxBulk : DequeueCall(c, n)
      PROVE  Fits'
  <2>1. /\ \A d \in Consumers : d # c =>
             /\ cpc'[d] = cpc[d] /\ want'[d] = want[d] /\ left'[d] = left[d]
             /\ mine'[d] = mine[d] /\ overcommit'[d] = overcommit[d]
        /\ cpc[c] # "decide" /\ cpc'[c] # "decide" /\ tailIndex' = tailIndex
    BY <1>1, <1>5 DEF GiveBack, Claim, DequeueCall, Goto, Leave, BaseTypeOK,
                      counterVars
  <2>2. Undecided' = Undecided /\ c \notin Undecided
    BY <2>1 DEF Undecided
  <2>3. \A d \in Undecided :
          mine'[d] = mine[d] /\ overcommit'[d] = overcommit[d]
    BY <2>1 DEF Undecided
  <2>4. tailIndex' >= tailIndex
    BY <1>1, <2>1, ClaimFacts DEF BaseTypeOK
  <2>5. ASSUME NEW e \in SUBSET Consumers, e \subseteq Undecided
        PROVE  /\ Granted(e)' = Granted(e) + (Granting(e)'[c] - Granting(e)[c])
               /\ Granted(e) \in Nat
    <3>1. \A d \in Consumers : d # c =>
            cpc'[d] = cpc[d] /\ want'[d] = want[d] /\ left'[d] = left[d]
      BY <2>1
    <3> QED BY <1>1, <3>1, GrantedChange, ClaimSums
  <2>6. headIndex \in Nat
    BY <1>1, ClaimFacts DEF BaseTypeOK
  <2>7. ASSUME NEW e \in SUBSET Consumers, e \subseteq Undecided
        PROVE  headIndex' + Granted(e)' = headIndex + Granted(e)
    <3>1. c \notin e
      BY <2>2, <2>7
    <3>2. CASE \E n \in 1 .. MaxBulk : DequeueCall(c, n)
      <4>1. Granting(e)'[c] = 0 /\ Granting(e)[c] = 0 /\ headIndex' = headIndex
        BY <1>1, <3>1, <3>2
           DEF Granting, DequeueCall, Goto, BaseTypeOK, counterVars
      <4> QED BY <2>5, <2>6, <2>7, <4>1
    <3>3. CASE GiveBack(c)
      <4>1. /\ Granting(e)'[c] = left[c] /\ Granting(e)[c] = left[c]
            /\ headIndex' = headIndex /\ left[c] \in Int
        BY <1>1, <3>1, <3>3, ClaimFacts
           DEF Granting, GiveBack, Leave, Goto, BaseTypeOK
      <4> QED BY <2>5, <2>6, <2>7, <4>1
    <3>4. CASE Claim(c)
      <4>1. Granting(e)'[c] = 0 /\ Granting(e)[c] = left[c]
        BY <1>1, <3>1, <3>4 DEF Granting, Claim, Leave, Goto, BaseTypeOK
      <4>2. headIndex' = headIndex + left[c] /\ left[c] \in Nat
        <5>1. PICK h \in 0 .. Half, n \in 0 .. MaxBulk :
                h = headIndex /\ n = left[c]
          BY <1>1, CountersBounded DEF BaseTypeOK
        <5>2. h \in Nat /\ n \in Nat /\ h + n < IndexMod
          BY ClaimFacts
        <5> QED BY <3>4, <5>1, <5>2, PlusSmall DEF Claim
      <4> QED BY <2>5, <2>6, <2>7, <4>1, <4>2
    <3> QED BY <1>5, <3>2, <3>3, <3>4
  <2> QED BY <1>1, <2>2, <2>3, <2>4, <2>7, FitsUnseen
<1>6. ASSUME NEW c \in Consumers, Reserve(c) \/ Decide(c) PROVE Fits'
  BY <1>1, <1>6, FitsReserve, FitsDecide
<1> QED BY <1>3, <1>4, <1>5, <1>6 DEF BaseNext, ClaimStep

\* At first nothing is claimed.
LEMMA FitsInit ==
  ASSUME BaseParameters, BaseInit
  PROVE  ClaimInv
<1>1. BaseTypeOK /\ SumFunction(Reserved) = 0 /\ Granted({}) = 0
  BY ClaimInit
<1>2. Undecided = {}
  BY DEF Undecided, BaseInit
<1>3. Counted
  BY <1>1, <1>2 DEF Counted, BaseInit
<1>4. FitsWith({})
  BY <1>1, <1>2 DEF FitsWith, BaseInit
<1> QED BY <1>1, <1>3, <1>4 DEF ClaimInv, Fits

\* Claims that fit keep the head within the tail.
LEMMA FitsWithin ==
  ASSUME BaseParameters, ClaimInv, BelowHalf
  PROVE  HeadWithinTail
<1>1. PICK s \in SUBSET Consumers : headIndex + Granted(s) <= tailIndex
  BY DEF ClaimInv, Fits, FitsWith
<1>2. PICK g \in Nat, h \in 0 .. Half, t \in 0 .. Half :
        g = Granted(s) /\ h = headIndex /\ t = tailIndex
  BY ClaimSums, CountersBounded DEF ClaimInv
<1>3. h <= t /\ t - h <= Half
  BY <1>1, <1>2, ClaimFacts
<1>4. /\ h \in 0 .. IndexMod - 1 /\ t \in 0 .. IndexMod - 1
      /\ IndexMod \in Nat \ {0}
  BY ClaimFacts
<1>5. (t - h) % IndexMod = t - h
  BY <1>3, <1>4, ModDifference
<1> QED BY <1>2, <1>3, <1>5 DEF HeadWithinTail, Distance, Half

\* DequeueCall to Claim (dequeue and dequeue_bulk): while the counters have not
\* gone half way round, nobody claims an element that is not there, for any
\* number of consumers and whatever the order of their reservations, refusals
\* and give-backs.
THEOREM ClaimsHeadWithinTail ==
  ASSUME BaseParameters
  PROVE  BaseSpec /\ []BelowHalf => []HeadWithinTail
<1>1. BaseInit => ClaimInv
  BY FitsInit
<1>2. ClaimInv /\ BelowHalf /\ [BaseNext]_baseVars => ClaimInv'
  BY BaseTypes, CountedStep, FitsStep DEF ClaimInv
<1>3. ClaimInv /\ BelowHalf => HeadWithinTail
  BY FitsWithin
<1> QED BY <1>1, <1>2, <1>3, PTL DEF BaseSpec

-----------------------------------------------------------------------------
(* The whole queue: the semaphore, the claims and the elements            *)

\* What is true of the calls in progress: a consumer waits for a unit or turns
\* units into elements, it never asks the inner queue for more elements than it
\* has units, and it claims no more than it asked for.
CallsAgree ==
  \A c \in Consumers :
    /\ got[c] <= MaxBulk
    /\ pc[c] # "idle" => got[c] = 0
    /\ cpc[c] # "idle" => want[c] <= got[c]
    /\ cpc[c] \in {"giveback", "claim"} => left[c] <= want[c]

QueueInv == TypeOK /\ CallsAgree /\ WakeupsCovered /\ ElementsAreUnits

-----------------------------------------------------------------------------
(* The semaphore *)

Places == {"idle", "spin", "asleep", "undo", "claim", "more"}
Sleeping == {"asleep", "undo", "claim"}
Waiters == Cardinality(S!Waiting)
Asleep(n) == IF n < 0 THEN -n ELSE 0

\* What the semaphore counts with is what the library counts with.
LEMMA SameCardinality ==
  /\ \A s : S!Cardinality(s) = Cardinality(s)
  /\ \A s : S!Sem!Cardinality(s) = Cardinality(s)
BY DEF S!Cardinality, S!Sem!Cardinality, Cardinality

\* The same with the numbers that the proofs use.
LEMMA Counts ==
  /\ S!Units = count + Waiters
  /\ WakeupsCovered <=> sema + posting = Waiters - Asleep(count)
BY SameCardinality
   DEF S!Units, Waiters, WakeupsCovered, S!WakeupsCovered, Asleep

\* How many threads wait, after one has gone from one place to another.
LEMMA WaitingCount ==
  ASSUME IsFiniteSet(Consumers), NEW c \in Consumers, NEW p,
         pc \in [Consumers -> Places], pc' = [pc EXCEPT ![c] = p]
  PROVE  /\ Waiters \in Nat
         /\ Waiters' = Waiters + (IF p \in Sleeping THEN 1 ELSE 0)
                         - (IF pc[c] \in Sleeping THEN 1 ELSE 0)
         /\ S!Waiting' = IF p \in Sleeping THEN S!Waiting \cup {c}
                         ELSE S!Waiting \ {c}
         /\ c \in S!Waiting <=> pc[c] \in Sleeping
<1>1. IsFiniteSet(S!Waiting) /\ Cardinality(S!Waiting) \in Nat
  BY FS_Subset, FS_CardinalityType DEF S!Waiting
<1>2. c \in S!Waiting <=> pc[c] \in Sleeping
  BY DEF S!Waiting, Sleeping
<1>3. S!Waiting' = IF p \in Sleeping THEN S!Waiting \cup {c}
                   ELSE S!Waiting \ {c}
  BY DEF S!Waiting, Sleeping, Places
<1>4. PICK W : W = S!Waiting
  OBVIOUS
<1>5. PICK V : V = S!Waiting'
  OBVIOUS
<1>6. /\ IsFiniteSet(W) /\ Cardinality(W) \in Nat
      /\ c \in W <=> pc[c] \in Sleeping
      /\ V = IF p \in Sleeping THEN W \cup {c} ELSE W \ {c}
  BY <1>1, <1>2, <1>3, <1>4, <1>5, Zenon
<1>7. Cardinality(V) = Cardinality(W) + (IF p \in Sleeping THEN 1 ELSE 0)
                         - (IF pc[c] \in Sleeping THEN 1 ELSE 0)
  <2>1. CASE p \in Sleeping
    <3>1. V = W \cup {c}
      BY <1>6, <2>1
    <3>2. Cardinality(V) = IF c \in W THEN Cardinality(W)
                           ELSE Cardinality(W) + 1
      BY <1>6, <3>1, FS_AddElement, Zenon
    <3> QED BY <1>6, <2>1, <3>2
  <2>2. CASE p \notin Sleeping
    <3>1. V = W \ {c}
      BY <1>6, <2>2
    <3>2. Cardinality(V) = IF c \in W THEN Cardinality(W) - 1
                           ELSE Cardinality(W)
      BY <1>6, <3>1, FS_RemoveElement, Zenon
    <3> QED BY <1>6, <2>2, <3>2
  <2> QED BY <2>1, <2>2
<1> QED BY <1>2, <1>3, <1>4, <1>5, <1>6, <1>7 DEF Waiters

\* What a step of the semaphore taken by consumer c does.
Effect(c) ==
  /\ S!TypeOK'
  /\ got'[c] <= MaxBulk /\ (pc'[c] # "idle" => got'[c] = 0)
  /\ \A x \in Consumers : x # c => pc'[x] = pc[x] /\ got'[x] = got[x]
  /\ WakeupsCovered'
  /\ S!Units' + Obtained'[c] = S!Units + Obtained[c]
  /\ [S!Sem!Next]_<<S!Units, S!Waiting>>

\* The invariant, for a step of consumer c.
LEMMA Known ==
  ASSUME Parameters, QueueInv, NEW c \in Consumers
  PROVE  /\ IsFiniteSet(Consumers) /\ S!TypeOK
         /\ pc \in [Consumers -> Places] /\ got \in [Consumers -> Nat]
         /\ pc[c] \in Places /\ got[c] \in Nat /\ max[c] \in 1 .. MaxBulk
         /\ pc[c] # "idle" => got[c] = 0
         /\ count \in Int /\ sema \in Nat /\ posting \in Nat
         /\ MaxBulk \in Nat \ {0}
         /\ sema + posting = Waiters - Asleep(count)
         /\ Obtained[c] = IF pc[c] = "more" THEN 1 ELSE got[c]
<1>1. /\ pc[c] # "idle" => got[c] = 0
      /\ S!TypeOK /\ WakeupsCovered
  BY DEF QueueInv, CallsAgree, TypeOK
<1>2. IsFiniteSet(Consumers) /\ MaxBulk \in Nat \ {0}
  BY DEF Parameters, BaseParameters
<1>3. /\ pc \in [Consumers -> Places] /\ got \in [Consumers -> Nat]
      /\ pc[c] \in Places /\ got[c] \in Nat /\ max[c] \in 1 .. MaxBulk
      /\ count \in Int /\ sema \in Nat /\ posting \in Nat
  BY <1>1 DEF S!TypeOK, Places
<1>4. sema + posting = Waiters - Asleep(count)
  BY <1>1, Counts
<1>5. Obtained[c] = IF pc[c] = "more" THEN 1 ELSE got[c]
  BY <1>1, <1>3 DEF Obtained
<1> QED BY <1>1, <1>2, <1>3, <1>4, <1>5

\* A consumer c goes on to p, with g units: what becomes of the counts.
Moves(c, p, g) ==
  /\ pc' = [pc EXCEPT ![c] = p] /\ got' = [got EXCEPT ![c] = g]
  /\ p \in Places /\ g \in 0 .. MaxBulk /\ (p # "idle" => g = 0)
  /\ S!TypeOK'

One(p) == IF p \in Sleeping THEN 1 ELSE 0

\* The counts after a consumer has moved from one place to another.
LEMMA MoveFacts ==
  ASSUME Parameters, QueueInv, NEW c \in Consumers, NEW p, NEW g,
         Moves(c, p, g)
  PROVE  /\ Waiters \in Nat /\ Waiters' = Waiters + One(p) - One(pc[c])
         /\ S!Units = count + Waiters /\ S!Units' = count' + Waiters'
         /\ WakeupsCovered' <=> sema' + posting' = Waiters' - Asleep(count')
         /\ S!Sem!Unreserved = count
         /\ Obtained'[c] = IF p = "more" THEN 1 ELSE g
         /\ got'[c] <= MaxBulk /\ (pc'[c] # "idle" => got'[c] = 0)
         /\ \A x \in Consumers : x # c => pc'[x] = pc[x] /\ got'[x] = got[x]
         /\ S!Waiting' = IF p \in Sleeping THEN S!Waiting \cup {c}
                         ELSE S!Waiting \ {c}
         /\ c \in S!Waiting <=> pc[c] \in Sleeping
<1>1. /\ IsFiniteSet(Consumers) /\ pc \in [Consumers -> Places]
      /\ got \in [Consumers -> Nat] /\ MaxBulk \in Nat
  BY Known
<1>2. /\ Waiters \in Nat /\ Waiters' = Waiters + One(p) - One(pc[c])
      /\ S!Waiting' = IF p \in Sleeping THEN S!Waiting \cup {c}
                      ELSE S!Waiting \ {c}
      /\ c \in S!Waiting <=> pc[c] \in Sleeping
  BY <1>1, WaitingCount DEF Moves, One
<1>3. S!Units = count + Waiters
  BY Counts
<1>4. /\ S!Units' = count' + Waiters'
      /\ WakeupsCovered' <=> sema' + posting' = Waiters' - Asleep(count')
  <2>1. (/\ S!Units = count + Waiters
         /\ WakeupsCovered <=> sema + posting = Waiters - Asleep(count))'
    BY Counts, PTL
  <2> QED BY <2>1 DEF Asleep
<1>5. S!Sem!Unreserved = count
  <2>1. S!Sem!Unreserved = S!Units - Waiters
    BY SameCardinality DEF S!Sem!Unreserved, Waiters
  <2>2. count \in Int
    BY Known
  <2> QED BY <1>2, <1>3, <2>1, <2>2
<1>6. /\ got'[c] = g /\ pc'[c] = p
      /\ \A x \in Consumers : x # c => pc'[x] = pc[x] /\ got'[x] = got[x]
  BY <1>1 DEF Moves
<1>7. Obtained'[c] = IF p = "more" THEN 1 ELSE g
  BY <1>6 DEF Obtained, Moves
<1>8. got'[c] <= MaxBulk /\ (pc'[c] # "idle" => got'[c] = 0)
  BY <1>1, <1>6 DEF Moves
<1> QED BY <1>2, <1>3, <1>4, <1>5, <1>6, <1>7, <1>8

\* A consumer takes k units at once, or finds none.
LEMMA TakeEffect ==
  ASSUME Parameters, QueueInv, NEW c \in Consumers, NEW p, NEW g,
         Moves(c, p, g), pc[c] \notin Sleeping, p \notin Sleeping,
         NEW k \in Nat, k = 0 \/ k <= count,
         count' = count - k, UNCHANGED <<sema, posting>>,
         Obtained[c] + k = IF p = "more" THEN 1 ELSE g
  PROVE  Effect(c)
<1>1. Waiters' = Waiters /\ S!Waiting' = S!Waiting /\ Waiters \in Nat
  <2>1. /\ Waiters \in Nat /\ Waiters' = Waiters + One(p) - One(pc[c])
        /\ S!Waiting' = S!Waiting \ {c} /\ c \notin S!Waiting
    BY MoveFacts
  <2> QED BY <2>1 DEF One
<1>2. count \in Int /\ Obtained[c] \in Nat
  BY Known
<1>3. Asleep(count') = Asleep(count)
  BY <1>2 DEF Asleep
<1>4. WakeupsCovered'
  BY <1>1, <1>3, Known, MoveFacts
<1>5. S!Units = count + Waiters /\ S!Units' = count - k + Waiters
  BY <1>1, MoveFacts
<1>6. [S!Sem!Next]_<<S!Units, S!Waiting>>
  <2>1. CASE k = 0
    BY <1>1, <1>2, <1>5, <2>1
  <2>2. CASE k # 0
    <3>1. k \in 1 .. S!Sem!Unreserved
      BY <1>2, <2>2, MoveFacts
    <3>2. S!Units' = S!Units - k
      BY <1>1, <1>2, <1>5
    <3>3. S!Sem!Take
      BY <1>1, <3>1, <3>2 DEF S!Sem!Take
    <3> QED BY <3>3 DEF S!Sem!Next
  <2> QED BY <2>1, <2>2
<1>7. S!Units' + Obtained'[c] = S!Units + Obtained[c]
  BY <1>1, <1>2, <1>5, MoveFacts
<1> QED BY <1>4, <1>6, <1>7, MoveFacts DEF Effect, Moves

\* A consumer decrements a count of zero or less, and waits.
LEMMA ParkEffect ==
  ASSUME Parameters, QueueInv, NEW c \in Consumers, NEW p \in Sleeping,
         Moves(c, p, 0), pc[c] = "spin", count <= 0,
         count' = count - 1, UNCHANGED <<sema, posting>>
  PROVE  Effect(c)
<1>1. /\ Waiters' = Waiters + 1 /\ Waiters \in Nat
      /\ S!Waiting' = S!Waiting \cup {c} /\ c \notin S!Waiting
  BY MoveFacts DEF One, Sleeping
<1>2. count \in Int /\ Obtained[c] = 0
  BY Known
<1>3. Asleep(count') = Asleep(count) + 1 /\ Asleep(count) \in Nat
  BY <1>2 DEF Asleep
<1>4. WakeupsCovered'
  BY <1>1, <1>3, Known, MoveFacts
<1>5. S!Units' = S!Units
  BY <1>1, <1>2, MoveFacts
<1>6. S!Sem!Wait(c)
  BY <1>1, <1>5, MoveFacts DEF S!Sem!Wait
<1>7. S!Units' + Obtained'[c] = S!Units + Obtained[c]
  BY <1>1, <1>2, <1>5, MoveFacts DEF Sleeping
<1> QED BY <1>4, <1>6, <1>7, MoveFacts DEF Effect, Moves, S!Sem!Next

\* A consumer that waits takes a post, and with it a unit.
LEMMA WokenEffect ==
  ASSUME Parameters, QueueInv, NEW c \in Consumers, NEW p, NEW g,
         Moves(c, p, g), pc[c] \in Sleeping,
         (p = "more" /\ g = 0) \/ (p = "idle" /\ g = 1),
         sema > 0, sema' = sema - 1, UNCHANGED <<count, posting>>
  PROVE  Effect(c)
<1>1. /\ Waiters' = Waiters - 1 /\ Waiters \in Nat
      /\ S!Waiting' = S!Waiting \ {c} /\ c \in S!Waiting
  BY MoveFacts DEF One, Sleeping
<1>2. /\ count \in Int /\ Obtained[c] = 0 /\ sema \in Nat /\ posting \in Nat
      /\ sema + posting = Waiters - Asleep(count)
  BY Known DEF Sleeping
<1>3. Asleep(count) \in Nat /\ Asleep(count) >= -count
  BY <1>2 DEF Asleep
<1>4. WakeupsCovered'
  BY <1>1, <1>2, <1>3, MoveFacts
<1>5. S!Units' = S!Units - 1 /\ S!Units > 0
  BY <1>1, <1>2, <1>3, MoveFacts
<1>6. S!Sem!Wake(c)
  BY <1>1, <1>5 DEF S!Sem!Wake
<1>7. S!Units' + Obtained'[c] = S!Units + Obtained[c]
  BY <1>1, <1>2, <1>5, MoveFacts
<1> QED BY <1>4, <1>6, <1>7, MoveFacts DEF Effect, Moves, S!Sem!Next

\* A consumer takes its decrement back.
LEMMA RetractEffect ==
  ASSUME Parameters, QueueInv, NEW c \in Consumers, Moves(c, "idle", 0),
         pc[c] \in Sleeping, count < 0,
         count' = count + 1, UNCHANGED <<sema, posting>>
  PROVE  Effect(c)
<1>1. /\ Waiters' = Waiters - 1 /\ Waiters \in Nat
      /\ S!Waiting' = S!Waiting \ {c} /\ c \in S!Waiting
  BY MoveFacts DEF One, Sleeping
<1>2. /\ count \in Int /\ Obtained[c] = 0 /\ sema \in Nat /\ posting \in Nat
      /\ sema + posting = Waiters - Asleep(count)
  BY Known DEF Sleeping
<1>3. Asleep(count') = Asleep(count) - 1 /\ Asleep(count) \in Nat
  BY <1>2 DEF Asleep
<1>4. WakeupsCovered'
  BY <1>1, <1>2, <1>3, MoveFacts
<1>5. S!Units' = S!Units
  BY <1>1, <1>2, MoveFacts
<1>6. S!Sem!GiveUp(c)
  BY <1>1, <1>5, MoveFacts DEF S!Sem!GiveUp
<1>7. S!Units' + Obtained'[c] = S!Units + Obtained[c]
  BY <1>1, <1>2, <1>5, MoveFacts
<1> QED BY <1>4, <1>6, <1>7, MoveFacts DEF Effect, Moves, S!Sem!Next

\* A consumer goes on and the semaphore stays as it is.
LEMMA QuietEffect ==
  ASSUME Parameters, QueueInv, NEW c \in Consumers, NEW p,
         Moves(c, p, 0), Obtained[c] = 0, p # "more",
         p \in Sleeping <=> pc[c] \in Sleeping,
         UNCHANGED <<count, sema, posting>>
  PROVE  Effect(c)
<1>1. Waiters' = Waiters /\ S!Waiting' = S!Waiting /\ Waiters \in Nat
  <2>1. /\ Waiters \in Nat /\ Waiters' = Waiters + One(p) - One(pc[c])
        /\ S!Waiting' = IF p \in Sleeping THEN S!Waiting \cup {c}
                        ELSE S!Waiting \ {c}
        /\ c \in S!Waiting <=> pc[c] \in Sleeping
    BY MoveFacts
  <2>2. CASE p \in Sleeping
    BY <2>1, <2>2 DEF One
  <2>3. CASE p \notin Sleeping
    BY <2>1, <2>3 DEF One
  <2> QED BY <2>2, <2>3
<1>2. count \in Int /\ sema + posting = Waiters - Asleep(count)
  BY Known
<1>4. WakeupsCovered'
  BY <1>1, <1>2, MoveFacts
<1>5. S!Units' = S!Units
  BY <1>1, <1>2, MoveFacts
<1>7. S!Units' + Obtained'[c] = S!Units + Obtained[c]
  BY <1>1, <1>2, <1>5, MoveFacts
<1> QED BY <1>1, <1>4, <1>5, <1>7, MoveFacts DEF Effect, Moves

-----------------------------------------------------------------------------
(* Each step of the semaphore's is one of these *)

\* The units a greedy caller gets.
LEMMA LeftFacts ==
  ASSUME NEW n \in Nat, count \in Int, count > 0
  PROVE  /\ S!Left(n) \in Nat /\ count - S!Left(n) \in 0 .. n
         /\ count - S!Left(n) <= count
BY DEF S!Left

\* try_dequeue, try_dequeue_bulk.
LEMMA TryWaitEffect ==
  ASSUME Parameters, QueueInv, NEW c \in Consumers, NEW n \in 1 .. MaxBulk,
         Idle(c), S!TryWait(c) \/ S!TryWaitMany(c, n)
  PROVE  Effect(c)
<1>1. /\ pc[c] = "idle" /\ got[c] = 0 /\ Obtained[c] = 0
      /\ count \in Int /\ MaxBulk \in Nat \ {0}
  BY Known DEF Idle
<1>2. PICK k \in 0 .. n : /\ k = 0 \/ k <= count
                          /\ count' = count - k /\ UNCHANGED <<sema, posting>>
                          /\ S!Return(c, k)
  <2>1. CASE count > 0 /\ S!TryWait(c)
    BY <1>1, <2>1 DEF S!TryWait
  <2>2. CASE count > 0 /\ S!TryWaitMany(c, n)
    <3>1. n \in Nat
      OBVIOUS
    <3>2. /\ count' = count - (count - S!Left(n))
          /\ S!Return(c, count - S!Left(n)) /\ UNCHANGED <<sema, posting>>
      BY <1>1, <2>2, <3>1, LeftFacts DEF S!TryWaitMany
    <3> QED BY <1>1, <2>2, <3>1, <3>2, LeftFacts
  <2>3. CASE ~(count > 0)
    BY <1>1, <2>3 DEF S!TryWait, S!TryWaitMany
  <2> QED BY <2>1, <2>2, <2>3
<1>3. S!TypeOK'
  BY <1>1, <1>2, Known DEF S!TypeOK, S!Return
<1>4. Moves(c, "idle", k)
  BY <1>1, <1>2, <1>3 DEF Moves, S!Return, Places
<1> QED BY <1>1, <1>2, <1>4, TakeEffect DEF Sleeping
\* wait_dequeue, wait_dequeue_bulk and those with a timeout: one that finds
\* nothing spins first.
LEMMA WaitEffect ==
  ASSUME Parameters, QueueInv, NEW c \in Consumers, NEW n \in 1 .. MaxBulk,
         NEW l \in {"none", "zero", "some"},
         Idle(c), S!Wait(c, l) \/ S!WaitMany(c, n, l)
  PROVE  Effect(c)
<1>1. /\ pc[c] = "idle" /\ got[c] = 0 /\ Obtained[c] = 0
      /\ count \in Int /\ MaxBulk \in Nat \ {0}
  BY Known DEF Idle
<1>2. PICK m \in 1 .. MaxBulk : S!WaitMany(c, m, l)
  BY <1>1 DEF S!Wait
<1>3. CASE count > 0
  <2>1. PICK k \in 0 .. m : /\ k <= count /\ count' = count - k
                            /\ UNCHANGED <<sema, posting>> /\ S!Return(c, k)
    <3>1. m \in Nat
      OBVIOUS
    <3>2. /\ count' = count - (count - S!Left(m))
          /\ S!Return(c, count - S!Left(m)) /\ UNCHANGED <<sema, posting>>
      BY <1>1, <1>2, <1>3, <3>1, LeftFacts DEF S!WaitMany
    <3> QED BY <1>1, <1>3, <3>1, <3>2, LeftFacts
  <2>2. S!TypeOK'
    BY <1>1, <2>1, Known DEF S!TypeOK, S!Return
  <2>3. Moves(c, "idle", k)
    BY <1>1, <2>1, <2>2 DEF Moves, S!Return, Places
  <2> QED BY <1>1, <2>1, <2>3, TakeEffect DEF Sleeping
<1>4. CASE ~(count > 0)
  <2>1. /\ pc' = [pc EXCEPT ![c] = "spin"] /\ UNCHANGED <<count, got>>
        /\ max' = [max EXCEPT ![c] = m] /\ limit' = [limit EXCEPT ![c] = l]
        /\ UNCHANGED <<sema, posting>>
    BY <1>2, <1>4 DEF S!WaitMany
  <2>2. S!TypeOK'
    BY <2>1, Known DEF S!TypeOK
  <2>3. got' = [got EXCEPT ![c] = 0]
    BY <1>1, <2>1, Known
  <2>4. Moves(c, "spin", 0)
    <3>1. 0 \in 0 .. MaxBulk
      BY <1>1
    <3> QED BY <2>1, <2>2, <2>3, <3>1, Zenon DEF Moves, Places
  <2> QED BY <1>1, <2>1, <2>4, QuietEffect DEF Sleeping
<1> QED BY <1>3, <1>4

\* A consumer that has its first unit is done, or asks for more.
LEMMA ObtainedMoves ==
  ASSUME Parameters, QueueInv, NEW c \in Consumers, pc[c] # "idle",
         S!Obtained(c), S!TypeOK'
  PROVE  \/ Moves(c, "more", 0) \/ Moves(c, "idle", 1)
<1>1. got = [got EXCEPT ![c] = 0] /\ 0 \in 0 .. MaxBulk /\ 1 \in 0 .. MaxBulk
  BY Known
<1>2. CASE max[c] > 1
  <2>1. pc' = [pc EXCEPT ![c] = "more"] /\ got' = got
    BY <1>2 DEF S!Obtained, S!Goto
  <2> QED BY <1>1, <2>1 DEF Moves, Places
<1>3. CASE ~(max[c] > 1)
  <2>1. pc' = [pc EXCEPT ![c] = "idle"] /\ got' = [got EXCEPT ![c] = 1]
    BY <1>3 DEF S!Obtained, S!Return
  <2> QED BY <1>1, <2>1 DEF Moves, Places
<1> QED BY <1>2, <1>3

\* A turn of the spin loop that finds the count positive.
LEMMA SpinTakeEffect ==
  ASSUME Parameters, QueueInv, NEW c \in Consumers, S!SpinTake(c)
  PROVE  Effect(c)
<1>1. /\ pc[c] = "spin" /\ got[c] = 0 /\ Obtained[c] = 0 /\ count > 0
      /\ count \in Int /\ MaxBulk \in Nat \ {0} /\ max[c] \in 1 .. MaxBulk
  BY Known DEF S!SpinTake
<1>2. PICK k \in 0 .. MaxBulk :
         /\ k <= count /\ count' = count - k
         /\ UNCHANGED <<sema, posting>> /\ S!Return(c, k)
  <2>1. max[c] \in Nat
    BY <1>1
  <2>2. /\ count' = count - (count - S!Left(max[c]))
        /\ S!Return(c, count - S!Left(max[c])) /\ UNCHANGED <<sema, posting>>
    BY <1>1, <2>1, LeftFacts DEF S!SpinTake
  <2> QED BY <1>1, <2>1, <2>2, LeftFacts
<1>3. S!TypeOK'
  BY <1>1, <1>2, Known DEF S!TypeOK, S!Return
<1>4. Moves(c, "idle", k)
  BY <1>1, <1>2, <1>3 DEF Moves, S!Return, Places
<1> QED BY <1>1, <1>2, <1>4, TakeEffect DEF Sleeping

\* The decrement after the spin, with which a consumer gets a unit or sleeps.
LEMMA FetchSubEffect ==
  ASSUME Parameters, QueueInv, NEW c \in Consumers, S!FetchSub(c)
  PROVE  Effect(c)
<1>1. /\ pc[c] = "spin" /\ got[c] = 0 /\ Obtained[c] = 0
      /\ count \in Int /\ MaxBulk \in Nat \ {0} /\ max[c] \in 1 .. MaxBulk
      /\ count' = count - 1 /\ UNCHANGED <<sema, posting>>
  BY Known DEF S!FetchSub
<1>2. CASE count > 0
  <2>1. S!Obtained(c)
    BY <1>2 DEF S!FetchSub
  <2>2. S!TypeOK'
    BY <1>1, <2>1, Known DEF S!TypeOK, S!Obtained, S!Goto, S!Return, S!callVars
  <2>3. CASE Moves(c, "more", 0)
    BY <1>1, <1>2, <2>3, TakeEffect DEF Sleeping
  <2>4. CASE Moves(c, "idle", 1)
    BY <1>1, <1>2, <2>4, TakeEffect DEF Sleeping
  <2> QED BY <1>1, <2>1, <2>2, <2>3, <2>4, ObtainedMoves
<1>3. CASE ~(count > 0)
  <2>1. PICK p \in {"undo", "asleep"} : S!Goto(c, p)
    BY <1>3 DEF S!FetchSub
  <2>2. S!TypeOK'
    BY <1>1, <2>1, Known DEF S!TypeOK, S!Goto, S!callVars
  <2>3. got' = [got EXCEPT ![c] = 0]
    BY <1>1, <2>1, Known DEF S!Goto
  <2>4. Moves(c, p, 0) /\ p \in Sleeping
    <3>1. 0 \in 0 .. MaxBulk /\ p \in Sleeping /\ p \in Places
      BY <1>1 DEF Places, Sleeping
    <3>2. pc' = [pc EXCEPT ![c] = p]
      BY <2>1 DEF S!Goto
    <3> QED BY <2>2, <2>3, <3>1, <3>2, Zenon DEF Moves
  <2> QED BY <1>1, <1>3, <2>4, ParkEffect
<1> QED BY <1>2, <1>3

\* The post that ends a sleep, on time or found by one whose time was up.
LEMMA PostTaken ==
  ASSUME Parameters, QueueInv, NEW c \in Consumers, pc[c] \in Sleeping,
         sema > 0, sema' = sema - 1, UNCHANGED <<count, posting>>,
         S!Obtained(c)
  PROVE  Effect(c)
<1>1. S!TypeOK' /\ pc[c] # "idle"
  BY Known
     DEF S!TypeOK, S!Obtained, S!Goto, S!Return, S!callVars, Sleeping
<1>2. Moves(c, "more", 0) \/ Moves(c, "idle", 1)
  BY <1>1, ObtainedMoves
<1>3. PICK p, g : /\ Moves(c, p, g)
                  /\ (p = "more" /\ g = 0) \/ (p = "idle" /\ g = 1)
  BY <1>2, Zenon
<1> QED BY <1>3, WokenEffect

\* A consumer that sleeps goes on without a change of the counts.
LEMMA GotoEffect ==
  ASSUME Parameters, QueueInv, NEW c \in Consumers, pc[c] \in Sleeping,
         NEW p \in Sleeping, S!Goto(c, p), UNCHANGED <<count, sema, posting>>
  PROVE  Effect(c)
<1>1. got[c] = 0 /\ Obtained[c] = 0 /\ MaxBulk \in Nat \ {0}
  BY Known DEF Sleeping
<1>2. S!TypeOK'
  BY Known DEF S!TypeOK, S!Goto, S!callVars, Sleeping
<1>3. got' = [got EXCEPT ![c] = 0]
  BY <1>1, Known DEF S!Goto
<1>4. Moves(c, p, 0) /\ p # "more"
  <2>1. 0 \in 0 .. MaxBulk /\ p \in Places /\ p # "more"
    BY <1>1 DEF Places, Sleeping
  <2>2. pc' = [pc EXCEPT ![c] = p]
    BY DEF S!Goto
  <2> QED BY <1>2, <1>3, <2>1, <2>2, Zenon DEF Moves
<1> QED BY <1>1, <1>4, QuietEffect

\* waitMany's attempt at the rest, after the unit it has waited for.
LEMMA TakeMoreEffect ==
  ASSUME Parameters, QueueInv, NEW c \in Consumers, S!TakeMore(c)
  PROVE  Effect(c)
<1>1. /\ pc[c] = "more" /\ got[c] = 0 /\ Obtained[c] = 1
      /\ count \in Int /\ MaxBulk \in Nat \ {0} /\ max[c] \in 1 .. MaxBulk
  BY Known DEF S!TakeMore
<1>2. PICK k \in 0 .. MaxBulk - 1 :
         /\ k = 0 \/ k <= count
         /\ count' = count - k
         /\ UNCHANGED <<sema, posting>> /\ S!Return(c, 1 + k)
  <2>1. CASE count > 0
    <3>1. PICK m \in Nat : m = max[c] - 1
      BY <1>1
    <3>2. PICK r \in Nat : r = S!Left(m)
      BY <1>1, <2>1, LeftFacts
    <3>3. count - r \in 0 .. m /\ count - r <= count
      BY <1>1, <2>1, <3>2, LeftFacts
    <3>4. /\ count' = r /\ S!Return(c, 1 + count - r)
          /\ UNCHANGED <<sema, posting>>
      BY <2>1, <3>1, <3>2 DEF S!TakeMore
    <3>5. PICK k \in 0 .. m : k = count - r
      BY <3>3
    <3>6. 1 + count - r = 1 + k /\ count' = count - k /\ k <= count
          /\ k \in 0 .. MaxBulk - 1
      BY <1>1, <3>1, <3>2, <3>3, <3>4, <3>5
    <3>7. S!Return(c, 1 + k)
      BY <3>4, <3>6
    <3> QED BY <3>4, <3>6, <3>7
  <2>2. CASE ~(count > 0)
    <3>1. UNCHANGED count /\ S!Return(c, 1) /\ UNCHANGED <<sema, posting>>
      BY <2>2 DEF S!TakeMore
    <3>2. count' = count - 0 /\ 1 + 0 = 1 /\ 0 \in 0 .. MaxBulk - 1
      BY <1>1, <3>1
    <3> QED BY <3>1, <3>2
  <2> QED BY <2>1, <2>2
<1>3. S!TypeOK'
  BY <1>1, <1>2, Known DEF S!TypeOK, S!Return
<1>4. Moves(c, "idle", 1 + k)
  BY <1>1, <1>2, <1>3 DEF Moves, S!Return, Places
<1> QED BY <1>1, <1>2, <1>4, TakeEffect DEF Sleeping

\* Any step inside a wait.
LEMMA ResumeEffect ==
  ASSUME Parameters, QueueInv, NEW c \in Consumers, S!Resume(c)
  PROVE  Effect(c)
<1>1. CASE S!SpinTake(c)
  BY <1>1, SpinTakeEffect
<1>2. CASE S!FetchSub(c)
  BY <1>2, FetchSubEffect
<1>3. CASE S!Wake(c)
  BY <1>3, PostTaken DEF S!Wake, Sleeping
<1>4. CASE S!TimeOut(c)
  BY <1>4, GotoEffect DEF S!TimeOut, S!semaVars, Sleeping
<1>5. CASE S!TakeMore(c)
  BY <1>5, TakeMoreEffect
<1>6. CASE S!UndoRetract(c)
  <2>1. /\ pc[c] \in Sleeping /\ count < 0 /\ count' = count + 1
        /\ UNCHANGED <<sema, posting>> /\ S!Return(c, 0)
    BY <1>6 DEF S!UndoRetract, Sleeping
  <2>2. S!TypeOK' /\ MaxBulk \in Nat
    BY <2>1, Known DEF S!TypeOK, S!Return
  <2>3. Moves(c, "idle", 0)
    BY <2>1, <2>2 DEF Moves, S!Return, Places
  <2> QED BY <2>1, <2>3, RetractEffect
<1>7. CASE S!UndoSeen(c)
  BY <1>7, GotoEffect DEF S!UndoSeen, S!semaVars, Sleeping
<1>8. CASE S!UndoClaim(c)
  <2>1. CASE sema > 0
    BY <1>8, <2>1, PostTaken DEF S!UndoClaim, Sleeping
  <2>2. CASE ~(sema > 0)
    BY <1>8, <2>2, GotoEffect DEF S!UndoClaim, Sleeping
  <2> QED BY <2>1, <2>2
<1> QED BY <1>1, <1>2, <1>3, <1>4, <1>5, <1>6, <1>7, <1>8 DEF S!Resume
-----------------------------------------------------------------------------
(* The producer's calls of the semaphore *)

\* A step that moves no consumer changes nothing of who waits.
LEMMA SameWaiting ==
  ASSUME Parameters, QueueInv, UNCHANGED pc
  PROVE  /\ S!Waiting' = S!Waiting /\ Waiters \in Nat
         /\ S!Units = count + Waiters /\ S!Units' = count' + Waiters
         /\ WakeupsCovered' <=> sema' + posting' = Waiters - Asleep(count')
<1>1. S!Waiting' = S!Waiting /\ Waiters' = Waiters
  BY DEF S!Waiting, Waiters
<1>2. (/\ S!Units = count + Waiters
       /\ WakeupsCovered <=> sema + posting = Waiters - Asleep(count))'
  BY Counts, PTL
<1>3. Waiters \in Nat
  <2>1. IsFiniteSet(Consumers) /\ S!Waiting \in SUBSET Consumers
    BY DEF Parameters, BaseParameters, S!Waiting
  <2> QED BY <2>1, FS_Subset, FS_CardinalityType DEF Waiters
<1> QED BY <1>1, <1>2, <1>3, Counts DEF Asleep

\* A signal of n: as many posts as there are sleepers it covers, n more units.
LEMMA SignalEffect ==
  ASSUME Parameters, QueueInv, NEW n \in 1 .. MaxBulk, S!Signal(n)
  PROVE  /\ S!TypeOK' /\ WakeupsCovered'
         /\ S!Units' = S!Units + n
         /\ UNCHANGED <<pc, got>>
         /\ [S!Sem!Next]_<<S!Units, S!Waiting>>
<1>1. /\ S!TypeOK /\ WakeupsCovered /\ MaxBulk \in Nat \ {0}
      /\ count \in Int /\ sema \in Nat /\ posting \in Nat
  BY DEF QueueInv, TypeOK, S!TypeOK, Parameters, BaseParameters
<1>2. /\ count' = count + n /\ sema' = sema /\ UNCHANGED <<pc, got>>
      /\ posting' = posting + Asleep(count) - Asleep(count')
      /\ posting' \in Nat
  BY <1>1 DEF S!Signal, S!callVars, Asleep
<1>3. S!TypeOK'
  BY <1>1, <1>2 DEF S!TypeOK, S!Signal, S!callVars
<1>4. /\ S!Waiting' = S!Waiting /\ Waiters \in Nat
      /\ S!Units = count + Waiters /\ S!Units' = count' + Waiters
      /\ WakeupsCovered' <=> sema' + posting' = Waiters - Asleep(count')
  BY <1>2, SameWaiting
<1>5. /\ sema + posting = Waiters - Asleep(count)
      /\ Asleep(count) \in Nat /\ Asleep(count) >= -count
      /\ Asleep(count') \in Nat
  BY <1>1, <1>2, Counts DEF Asleep
<1>6. WakeupsCovered'
  BY <1>1, <1>2, <1>4, <1>5
<1>7. S!Units' = S!Units + n /\ S!Units \in Nat
  BY <1>1, <1>2, <1>4, <1>5
<1>8. S!Sem!Signal
  BY <1>4, <1>7 DEF S!Sem!Signal
<1> QED BY <1>2, <1>3, <1>6, <1>7, <1>8 DEF S!Sem!Next

\* A post only passes from the signals to the OS semaphore.
LEMMA PostEffect ==
  ASSUME Parameters, QueueInv, S!Post
  PROVE  /\ S!TypeOK' /\ WakeupsCovered'
         /\ UNCHANGED <<count, pc, got>>
         /\ UNCHANGED <<S!Units, S!Waiting>>
<1>1. /\ S!TypeOK /\ WakeupsCovered
      /\ count \in Int /\ sema \in Nat /\ posting \in Nat
  BY DEF QueueInv, TypeOK, S!TypeOK
<1>2. /\ count' = count /\ UNCHANGED <<pc, got>>
      /\ posting' = posting - 1 /\ sema' = sema + 1 /\ posting > 0
  BY DEF S!Post, S!callVars
<1>3. S!TypeOK'
  BY <1>1, <1>2 DEF S!TypeOK, S!Post, S!callVars
<1>4. /\ S!Waiting' = S!Waiting /\ Waiters \in Nat
      /\ S!Units = count + Waiters /\ S!Units' = count' + Waiters
      /\ WakeupsCovered' <=> sema' + posting' = Waiters - Asleep(count')
  BY <1>2, SameWaiting
<1>5. /\ sema + posting = Waiters - Asleep(count)
      /\ Asleep(count') = Asleep(count)
  BY <1>1, <1>2, Counts
<1>6. WakeupsCovered'
  <2>1. Asleep(count) \in Int
    BY <1>1 DEF Asleep
  <2> QED BY <1>1, <1>2, <1>4, <1>5, <2>1
<1> QED BY <1>2, <1>3, <1>4, <1>6

-----------------------------------------------------------------------------
(* The counters *)

\* Going on from i by no more than the way to j shortens that way.
LEMMA DistanceBack ==
  ASSUME NEW i \in Indices, NEW j \in Indices, NEW l \in 0 .. Distance(i, j)
  PROVE  Distance(Plus(i, l), j) = Distance(i, j) - l /\ Plus(i, l) \in Indices
<1>1. /\ IndexMod \in Nat \ {0} /\ i \in 0 .. IndexMod - 1
      /\ j \in 0 .. IndexMod - 1
  BY IndexModAssumption DEF Indices
<1>2. Distance(i, j) = IF i <= j THEN j - i ELSE j - i + IndexMod
  BY <1>1, ModDifference DEF Distance
<1>3. l \in 0 .. IndexMod /\ i % IndexMod = i
  BY <1>1, <1>2, ModSmall
<1>4. Plus(i, l) = IF i + l < IndexMod THEN i + l ELSE i + l - IndexMod
  BY <1>1, <1>3, ModAdd DEF Plus
<1>5. PICK k \in 0 .. IndexMod - 1 : k = Plus(i, l)
  <2>1. Plus(i, l) \in 0 .. IndexMod - 1
    BY <1>1, <1>3 DEF Plus
  <2> QED BY <2>1
<1>6. Distance(k, j) = IF k <= j THEN j - k ELSE j - k + IndexMod
  BY <1>1, <1>5, ModDifference DEF Distance
<1> QED BY <1>1, <1>2, <1>4, <1>5, <1>6 DEF Indices

\* Going on from j lengthens the way from i, unless it wraps.
LEMMA DistanceOn ==
  ASSUME NEW i \in Indices, NEW j \in Indices, NEW n \in Nat,
         Distance(i, j) + n < IndexMod
  PROVE  Distance(i, Plus(j, n)) = Distance(i, j) + n /\ Plus(j, n) \in Indices
<1>1. /\ IndexMod \in Nat \ {0} /\ i \in 0 .. IndexMod - 1
      /\ j \in 0 .. IndexMod - 1
  BY IndexModAssumption DEF Indices
<1>2. Distance(i, j) = IF i <= j THEN j - i ELSE j - i + IndexMod
  BY <1>1, ModDifference DEF Distance
<1>3. n \in 0 .. IndexMod /\ j % IndexMod = j
  BY <1>1, <1>2, ModSmall
<1>4. Plus(j, n) = IF j + n < IndexMod THEN j + n ELSE j + n - IndexMod
  BY <1>1, <1>3, ModAdd DEF Plus
<1>5. PICK k \in 0 .. IndexMod - 1 : k = Plus(j, n)
  <2>1. Plus(j, n) \in 0 .. IndexMod - 1
    BY <1>1, <1>3 DEF Plus
  <2> QED BY <2>1
<1>6. Distance(i, k) = IF i <= k THEN k - i ELSE k - i + IndexMod
  BY <1>1, <1>5, ModDifference DEF Distance
<1> QED BY <1>1, <1>2, <1>4, <1>5, <1>6 DEF Indices

\* A sum of two indices or a difference is one.
LEMMA IndexTypes ==
  ASSUME NEW i \in Indices, NEW j \in Indices, NEW k \in Indices, NEW n \in Nat
  PROVE  Plus(i, n) \in Indices /\ Distance(i, j) \in Indices
         /\ (i - (j - k)) % IndexMod \in Indices /\ Indices \subseteq Nat
BY IndexModAssumption DEF Plus, Distance, Indices

-----------------------------------------------------------------------------
(* The units the consumers hold *)

Held == SumFunction(Obtained)

\* What consumers hold is a natural number, and so is the sum.
LEMMA ObtainedType ==
  ASSUME Parameters, S!TypeOK
  PROVE  /\ Obtained \in [Consumers -> Nat] /\ Held \in Nat
         /\ \A c \in Consumers : Obtained[c] <= Held
<1>1. Obtained \in [Consumers -> Nat]
  BY DEF Obtained, S!TypeOK
<1>2. IsFiniteSet(Consumers)
  BY DEF Parameters, BaseParameters
<1>3. PICK f \in [Consumers -> Nat] : f = Obtained
  BY <1>1
<1>4. SumFunction(f) \in Nat /\ \A c \in Consumers : f[c] <= SumFunction(f)
  BY <1>2, SumBounds
<1> QED BY <1>1, <1>3, <1>4, Zenon DEF Held

\* What all hold changes by what it changes for the one that takes a step.
LEMMA HeldChange ==
  ASSUME Parameters, S!TypeOK, S!TypeOK', NEW c \in Consumers,
         \A x \in Consumers : x # c => pc'[x] = pc[x] /\ got'[x] = got[x]
  PROVE  Held' = Held + (Obtained'[c] - Obtained[c])
<1>1. Obtained \in [Consumers -> Nat]
  BY ObtainedType
<1>2. (Obtained \in [Consumers -> Nat])'
  BY DEF Obtained, S!TypeOK
<1>3. IsFiniteSet(Consumers)
  BY DEF Parameters, BaseParameters
<1>4. \A x \in Consumers : x # c => Obtained'[x] = Obtained[x]
  BY DEF Obtained
<1>5. PICK f \in [Consumers -> Nat] : f = Obtained
  BY <1>1
<1>6. PICK g \in [Consumers -> Nat] : g = Obtained'
  BY <1>2
<1>7. \A x \in Consumers : x # c => g[x] = f[x]
  BY <1>4, <1>5, <1>6, Zenon
<1>8. f \in [Consumers -> Int] /\ g \in [Consumers -> Int]
  OBVIOUS
<1>9. SumFunction(g) = SumFunction(f) + (g[c] - f[c])
  BY <1>3, <1>7, <1>8, SumChange
<1>10. Held = SumFunction(f) /\ Held' = SumFunction(g)
  BY <1>5, <1>6, Zenon DEF Held
<1> QED BY <1>5, <1>6, <1>9, <1>10, Zenon

\* Nor do the consumers hold anything else when none of their state changes.
LEMMA HeldSame ==
  ASSUME UNCHANGED <<pc, got>>
  PROVE  Obtained' = Obtained /\ Held' = Held
BY DEF Obtained, Held

\* At the start they hold nothing.
LEMMA InitHeld ==
  ASSUME Parameters, Init
  PROVE  Held = 0
<1>1. Obtained = [c \in Consumers |-> 0]
  BY DEF Init, S!Init, Obtained
<1>2. PICK f \in [Consumers -> Int] :
        f = Obtained /\ \A c \in Consumers : f[c] = 0
  BY <1>1
<1>3. SumFunction(f) = 0
  BY <1>2, SumZero DEF Parameters, BaseParameters
<1> QED BY <1>2, <1>3, Zenon DEF Held
-----------------------------------------------------------------------------
(* Every step keeps the invariant *)

\* The parts of ElementsAreUnits: the second follows from the first.
InQueue == Distance(headIndex, tailIndex)
Balance == InQueue = S!Units + Held + signalling

\* size_approx is at most what there is because the units balance.
LEMMA ElementsBalance ==
  ASSUME Parameters, TypeOK, WakeupsCovered
  PROVE  ElementsAreUnits <=> Balance
<1>1. /\ S!TypeOK /\ signalling \in Nat /\ count \in Int
      /\ sema \in Nat /\ posting \in Nat
  BY DEF TypeOK, S!TypeOK, Parameters, BaseParameters
<1>2. Held \in Nat
  BY <1>1, ObtainedType
<1>3. Waiters \in Nat
  <2>1. IsFiniteSet(Consumers) /\ S!Waiting \in SUBSET Consumers
    BY DEF Parameters, BaseParameters, S!Waiting
  <2> QED BY <2>1, FS_Subset, FS_CardinalityType DEF Waiters
<1>4. S!Units = count + Waiters /\ sema + posting = Waiters - Asleep(count)
  BY Counts
<1>5. available <= S!Units /\ S!Units \in Int
  <2>1. available = IF count > 0 THEN count ELSE 0
    BY DEF available, S!availableApprox
  <2>2. Asleep(count) = IF count < 0 THEN -count ELSE 0
    BY DEF Asleep
  <2> QED BY <1>1, <1>3, <1>4, <2>1, <2>2
<1>6. available \in Int
  BY <1>1 DEF available, S!availableApprox
<1>7. Balance => available <= InQueue
  BY <1>1, <1>2, <1>5, <1>6 DEF Balance
<1> QED BY <1>7 DEF ElementsAreUnits, Balance, InQueue, Held

\* What the invariant is for the arithmetic of a step.
LEMMA InvParts ==
  Parameters =>
    (QueueInv <=> TypeOK /\ CallsAgree /\ WakeupsCovered /\ Balance)
BY ElementsBalance DEF QueueInv

\* The same of the state after a step.
LEMMA InvAfter ==
  ASSUME Parameters, TypeOK', CallsAgree', WakeupsCovered', Balance'
  PROVE  QueueInv'
<1>1. Parameters'
  BY DEF Parameters, BaseParameters, S!Parameters
<1> QED BY <1>1, InvParts, PTL

\* The numbers of a state that satisfies the invariant.
LEMMA InvNumbers ==
  ASSUME Parameters, QueueInv
  PROVE  /\ Held \in Nat /\ S!Units \in Nat /\ signalling \in 0 .. MaxBulk
         /\ MaxBulk \in Nat \ {0} /\ InQueue \in Nat
         /\ InQueue = S!Units + Held + signalling
         /\ \A c \in Consumers : Obtained[c] \in Nat /\ Obtained[c] <= Held
         /\ headIndex \in Indices /\ tailIndex \in Indices
<1>1. /\ S!TypeOK /\ BaseTypeOK /\ signalling \in 0 .. MaxBulk
      /\ count \in Int /\ sema \in Nat /\ posting \in Nat
      /\ headIndex \in Indices /\ tailIndex \in Indices
      /\ WakeupsCovered /\ MaxBulk \in Nat \ {0}
  BY DEF QueueInv, TypeOK, S!TypeOK, Parameters, BaseParameters, BaseTypeOK
<1>2. Held \in Nat /\ \A c \in Consumers :
                        Obtained[c] \in Nat /\ Obtained[c] <= Held
  BY <1>1, ObtainedType
<1>3. S!Units \in Nat
  <2>1. Waiters \in Nat
    <3>1. IsFiniteSet(Consumers) /\ S!Waiting \in SUBSET Consumers
      BY DEF Parameters, BaseParameters, S!Waiting
    <3> QED BY <3>1, FS_Subset, FS_CardinalityType DEF Waiters
  <2>2. S!Units = count + Waiters /\ sema + posting = Waiters - Asleep(count)
    BY <1>1, Counts
  <2>3. Asleep(count) = IF count < 0 THEN -count ELSE 0
    BY DEF Asleep
  <2> QED BY <1>1, <2>1, <2>2, <2>3
<1>4. InQueue = S!Units + Held + signalling
  BY InvParts DEF Balance
<1> QED BY <1>1, <1>2, <1>3, <1>4

\* It holds at the start.
LEMMA InitInv ==
  ASSUME Parameters, Init
  PROVE  QueueInv
<1>1. MaxBulk \in Nat \ {0} /\ IndexMod \in Nat /\ IndexMod > 1
      /\ IsFiniteSet(Consumers)
  BY IndexModAssumption DEF Parameters, BaseParameters
<1>2. 0 \in Indices
  BY <1>1 DEF Indices
<1>3. BaseTypeOK
  BY <1>1, <1>2 DEF Init, BaseInit, BaseTypeOK
<1>4. S!TypeOK
  BY <1>1 DEF Init, S!Init, S!TypeOK
<1>5. TypeOK
  BY <1>1, <1>3, <1>4 DEF TypeOK, Init
<1>6. CallsAgree
  BY <1>1 DEF Init, BaseInit, S!Init, CallsAgree
<1>7. Waiters = 0
  <2>1. S!Waiting = {}
    BY DEF Init, S!Init, S!Waiting
  <2> QED BY <2>1, FS_EmptySet DEF Waiters
<1>8. count = 0 /\ sema = 0 /\ posting = 0 /\ signalling = 0
      /\ headIndex = 0 /\ tailIndex = 0
  BY DEF Init, BaseInit, S!Init
<1>9. WakeupsCovered /\ S!Units = 0
  BY <1>7, <1>8, Counts DEF Asleep
<1>10. InQueue = 0
  <2>1. 0 \in 0 .. IndexMod - 1 /\ 0 - 0 = 0
    BY <1>1
  <2> QED BY <1>1, <1>8, <2>1, ModSmall DEF InQueue, Distance
<1>11. Balance
  BY <1>8, <1>9, <1>10, InitHeld DEF Balance
<1> QED BY <1>5, <1>6, <1>9, <1>11, InvParts

\* A step of the semaphore's taken by a consumer.
LEMMA ConsumerStep ==
  ASSUME Parameters, QueueInv, NEW c \in Consumers, Effect(c),
         UNCHANGED <<baseVars, signalling>>, pc[c] # "idle" \/ Idle(c)
  PROVE  QueueInv'
<1>1. /\ S!TypeOK /\ S!TypeOK' /\ WakeupsCovered'
      /\ \A x \in Consumers : x # c => pc'[x] = pc[x] /\ got'[x] = got[x]
      /\ got'[c] <= MaxBulk /\ (pc'[c] # "idle" => got'[c] = 0)
      /\ S!Units' + Obtained'[c] = S!Units + Obtained[c]
  BY DEF Effect, QueueInv, TypeOK
<1>2. TypeOK'
  BY <1>1 DEF QueueInv, TypeOK, BaseTypeOK, baseVars, counterVars, claimVars
<1>3. UNCHANGED <<cpc, want, left>>
  BY DEF baseVars, claimVars
<1>4. CallsAgree'
  <2>1. ASSUME NEW x \in Consumers
        PROVE  /\ got'[x] <= MaxBulk
               /\ pc'[x] # "idle" => got'[x] = 0
               /\ cpc'[x] # "idle" => want'[x] <= got'[x]
               /\ cpc'[x] \in {"giveback", "claim"} => left'[x] <= want'[x]
    <3>1. CASE x # c
      BY <1>1, <1>3, <3>1 DEF QueueInv, CallsAgree
    <3>2. CASE x = c /\ Idle(c)
      BY <1>1, <1>3, <3>2 DEF Idle
    <3>3. CASE x = c /\ pc[c] # "idle"
      <4>1. /\ cpc[c] # "idle" => want[c] <= 0
            /\ cpc[c] \in {"giveback", "claim"} => left[c] <= want[c]
        BY <3>3 DEF QueueInv, CallsAgree
      <4>2. want[c] \in Int /\ got'[c] \in Nat
        <5>1. want[c] \in 0 .. MaxBulk
          BY DEF QueueInv, TypeOK, BaseTypeOK
        <5>2. got'[c] \in Nat
          BY <1>1 DEF S!TypeOK
        <5> QED BY <5>1, <5>2
      <4> QED BY <1>1, <1>3, <3>3, <4>1, <4>2
    <3> QED BY <3>1, <3>2, <3>3
  <2> QED BY <2>1 DEF CallsAgree
<1>5. Balance'
  <2>1. Held' = Held + (Obtained'[c] - Obtained[c])
    BY <1>1, HeldChange
  <2>2. InQueue' = InQueue /\ signalling' = signalling
    BY DEF InQueue, baseVars, counterVars
  <2>3. /\ Held \in Nat /\ S!Units \in Nat /\ signalling \in Nat
        /\ Obtained[c] \in Nat /\ InQueue = S!Units + Held + signalling
    BY InvNumbers
  <2>4. Obtained'[c] \in Nat /\ S!Units' \in Int
    <3>1. Obtained'[c] \in Nat
      BY <1>1 DEF Obtained, S!TypeOK
    <3>2. (S!Units = count + Waiters)'
      BY Counts, PTL
    <3>3. IsFiniteSet(Consumers) /\ S!Waiting' \in SUBSET Consumers
      BY DEF Parameters, BaseParameters, S!Waiting
    <3>4. Waiters' \in Nat
      BY <3>3, FS_Subset, FS_CardinalityType DEF Waiters
    <3>5. count' \in Int
      BY <1>1 DEF S!TypeOK
    <3> QED BY <3>1, <3>2, <3>4, <3>5
  <2> QED BY <1>1, <2>1, <2>2, <2>3, <2>4 DEF Balance
<1> QED BY <1>1, <1>2, <1>4, <1>5, InvAfter
\* The inner enqueue of n elements, which the producer has yet to signal.
LEMMA EnqueueStep ==
  ASSUME Parameters, QueueInv, NEW n \in 1 .. MaxBulk, Enqueue(n)
  PROVE  QueueInv'
<1>1. /\ signalling = 0 /\ InQueue + n <= MaxElements
      /\ tailIndex' = Plus(tailIndex, n) /\ headIndex' = headIndex
      /\ signalling' = n
      /\ UNCHANGED <<dequeueOptimisticCount, dequeueOvercommit>>
      /\ UNCHANGED claimVars /\ UNCHANGED semaVars
  BY DEF Enqueue, Publish, InQueue
<1>2. n \in Nat /\ InQueue \in Nat /\ MaxElements \in Nat /\ IndexMod \in Nat
      /\ MaxElements < IndexMod /\ headIndex \in Indices
      /\ tailIndex \in Indices /\ MaxBulk \in Nat
  BY InvNumbers, IndexModAssumption DEF Parameters, S!Parameters
<1>3. InQueue' = InQueue + n /\ tailIndex' \in Indices
  BY <1>1, <1>2, DistanceOn DEF InQueue
<1>4. TypeOK'
  <2>1. BaseTypeOK'
    BY <1>1, <1>3 DEF QueueInv, TypeOK, BaseTypeOK, claimVars
  <2>2. S!TypeOK'
    BY <1>1 DEF QueueInv, TypeOK, S!TypeOK, semaVars
  <2> QED BY <1>1, <1>2, <2>1, <2>2 DEF TypeOK
<1>5. CallsAgree'
  BY <1>1 DEF QueueInv, CallsAgree, semaVars, claimVars
<1>6. UNCHANGED <<count, sema, posting, pc, got>>
  BY <1>1 DEF semaVars
<1>7. S!Units' = S!Units /\ WakeupsCovered'
  <2>1. S!Waiting' = S!Waiting
    BY <1>6 DEF S!Waiting
  <2> QED BY <1>6, <2>1
          DEF QueueInv, WakeupsCovered, S!WakeupsCovered, S!Units
<1>8. Balance'
  BY <1>1, <1>2, <1>3, <1>6, <1>7, HeldSame, InvNumbers DEF Balance
<1> QED BY <1>4, <1>5, <1>7, <1>8, InvAfter

\* The signal after it turns them into units.
LEMMA SignalStep ==
  ASSUME Parameters, QueueInv, Signal
  PROVE  QueueInv' /\ [S!Sem!Next]_<<S!Units, S!Waiting>>
<1>1. PICK n \in 1 .. MaxBulk : n = signalling
  BY InvNumbers DEF Signal
<1>2. S!Signal(n) /\ signalling' = 0 /\ UNCHANGED baseVars
  BY <1>1 DEF Signal
<1>3. /\ S!TypeOK' /\ WakeupsCovered' /\ S!Units' = S!Units + n
      /\ UNCHANGED <<pc, got>>
      /\ [S!Sem!Next]_<<S!Units, S!Waiting>>
  BY <1>2, SignalEffect
<1>4. TypeOK'
  <2>1. BaseTypeOK'
    BY <1>2 DEF QueueInv, TypeOK, BaseTypeOK, baseVars, counterVars, claimVars
  <2> QED BY <1>2, <1>3, <2>1, InvNumbers DEF TypeOK
<1>5. CallsAgree'
  BY <1>2, <1>3 DEF QueueInv, CallsAgree, baseVars, claimVars
<1>6. Balance'
  <2>1. InQueue' = InQueue
    BY <1>2 DEF InQueue, baseVars, counterVars
  <2>2. Held' = Held
    BY <1>3, HeldSame
  <2> QED BY <1>1, <1>2, <1>3, <2>1, <2>2, InvNumbers DEF Balance
<1> QED BY <1>3, <1>4, <1>5, <1>6, InvAfter

\* A post changes neither units nor elements.
LEMMA PostStep ==
  ASSUME Parameters, QueueInv, Post
  PROVE  QueueInv' /\ UNCHANGED <<S!Units, S!Waiting>>
<1>1. S!Post /\ UNCHANGED baseVars /\ signalling' = signalling
  BY DEF Post
<1>2. /\ S!TypeOK' /\ WakeupsCovered' /\ UNCHANGED <<pc, got>>
      /\ UNCHANGED <<S!Units, S!Waiting>>
  BY <1>1, PostEffect
<1>3. TypeOK'
  BY <1>1, <1>2
     DEF QueueInv, TypeOK, BaseTypeOK, baseVars, counterVars, claimVars
<1>4. CallsAgree'
  BY <1>1, <1>2 DEF QueueInv, CallsAgree, baseVars, claimVars
<1>5. Balance'
  <2>1. InQueue' = InQueue
    BY <1>1 DEF InQueue, baseVars, counterVars
  <2>2. Held' = Held
    BY <1>2, HeldSame
  <2> QED BY <1>1, <1>2, <2>1, <2>2, InvNumbers DEF Balance
<1> QED BY <1>2, <1>3, <1>4, <1>5, InvAfter

\* What the inner queue's steps leave alone.
LEMMA InnerKeeps ==
  ASSUME Parameters, QueueInv,
         UNCHANGED <<count, sema, posting, pc, max, limit>>
  PROVE  UNCHANGED <<S!Units, S!Waiting>> /\ WakeupsCovered'
<1>1. S!Waiting' = S!Waiting
  BY DEF S!Waiting
<1> QED BY <1>1 DEF QueueInv, WakeupsCovered, S!WakeupsCovered, S!Units

\* A turn of the inner dequeue asks for no more elements than c has units.
LEMMA InnerDequeueStep ==
  ASSUME Parameters, QueueInv, NEW c \in Consumers, InnerDequeue(c)
  PROVE  QueueInv' /\ UNCHANGED <<S!Units, S!Waiting>>
<1>1. PICK n \in 1 .. got[c] : DequeueCall(c, n)
  BY DEF InnerDequeue
<1>2. UNCHANGED semaVars /\ signalling' = signalling
  BY DEF InnerDequeue
<1>3. PICK seen : seen = Seen(dequeueOptimisticCount, dequeueOvercommit)
  OBVIOUS
<1>4. /\ cpc' = [cpc EXCEPT ![c] = "reserve"]
      /\ want' = [want EXCEPT ![c] = IF seen < n THEN seen ELSE n]
      /\ overcommit' = [overcommit EXCEPT ![c] = dequeueOvercommit]
      /\ UNCHANGED <<tailIndex, headIndex, dequeueOptimisticCount,
                     dequeueOvercommit, mine, left>>
  BY <1>1, <1>3 DEF DequeueCall, Goto, counterVars
<1>5. BaseTypeOK /\ CallsAgree /\ S!TypeOK
  BY DEF QueueInv, TypeOK
<1>6. seen \in Nat
  <2>1. /\ tailIndex \in Indices /\ dequeueOptimisticCount \in Indices
        /\ dequeueOvercommit \in Indices
    BY <1>5 DEF BaseTypeOK
  <2> QED BY <1>3, <2>1, IndexTypes DEF Seen
<1>7. got[c] \in Nat /\ got[c] <= MaxBulk /\ MaxBulk \in Nat
  BY <1>5, InvNumbers DEF CallsAgree, S!TypeOK
<1>8. PICK w \in 0 .. MaxBulk :
         w = (IF seen < n THEN seen ELSE n) /\ w <= got[c]
  BY <1>6, <1>7
<1>9. want' = [want EXCEPT ![c] = w]
  BY <1>4, <1>8
<1>10. TypeOK'
  <2>1. BaseTypeOK'
    BY <1>4, <1>5, <1>9 DEF BaseTypeOK
  <2>2. S!TypeOK'
    BY <1>2, <1>5 DEF S!TypeOK, semaVars
  <2> QED BY <1>2, <2>1, <2>2, InvNumbers DEF TypeOK
<1>11. UNCHANGED <<count, sema, posting, pc, max, limit, got>>
  BY <1>2 DEF semaVars
<1>12. CallsAgree'
  <2>1. ASSUME NEW x \in Consumers
        PROVE  /\ got'[x] <= MaxBulk
               /\ pc'[x] # "idle" => got'[x] = 0
               /\ cpc'[x] # "idle" => want'[x] <= got'[x]
               /\ cpc'[x] \in {"giveback", "claim"} => left'[x] <= want'[x]
    <3>1. CASE x # c
      BY <1>4, <1>5, <1>9, <1>11, <3>1 DEF CallsAgree, BaseTypeOK
    <3>2. CASE x = c
      <4>1. cpc'[c] = "reserve" /\ want'[c] = w
        BY <1>4, <1>5, <1>9 DEF BaseTypeOK
      <4> QED BY <1>5, <1>8, <1>11, <3>2, <4>1 DEF CallsAgree
    <3> QED BY <3>1, <3>2
  <2> QED BY <2>1 DEF CallsAgree
<1>13. UNCHANGED <<S!Units, S!Waiting>> /\ WakeupsCovered'
  BY <1>11, InnerKeeps
<1>14. Balance'
  <2>1. InQueue' = InQueue
    BY <1>4 DEF InQueue
  <2>2. Held' = Held
    BY <1>11, HeldSame
  <2> QED BY <1>2, <1>13, <2>1, <2>2, InvNumbers DEF Balance
<1> QED BY <1>10, <1>12, <1>13, <1>14, InvAfter
\* A step of the inner dequeue keeps the types, and asks for no more.
LEMMA ClaimTypes ==
  ASSUME Parameters, QueueInv, NEW c \in Consumers, ClaimStep(c)
  PROVE  /\ BaseTypeOK'
         /\ \A x \in Consumers : x # c => /\ cpc'[x] = cpc[x]
                                          /\ want'[x] = want[x]
                                          /\ left'[x] = left[x]
         /\ cpc[c] # "idle" /\ cpc[c] # "claim" =>
              /\ cpc'[c] # "idle" => want'[c] = want[c]
              /\ cpc'[c] \in {"giveback", "claim"} => left'[c] <= want'[c]
              /\ UNCHANGED <<headIndex, tailIndex>>
         /\ cpc[c] = "claim" => /\ headIndex' = Plus(headIndex, left[c])
                                /\ tailIndex' = tailIndex /\ cpc'[c] = "idle"
         /\ cpc[c] # "idle"
<1>1. BaseTypeOK /\ CallsAgree
  BY DEF QueueInv, TypeOK
<1>2. /\ cpc[c] \in {"giveback", "claim"} => left[c] <= want[c]
      /\ want[c] \in 0 .. MaxBulk /\ left[c] \in 0 .. MaxBulk
      /\ want[c] \in Nat /\ left[c] \in Nat
      /\ overcommit[c] \in Indices /\ mine[c] \in Indices
      /\ tailIndex \in Indices /\ headIndex \in Indices
      /\ dequeueOptimisticCount \in Indices /\ dequeueOvercommit \in Indices
      /\ MaxBulk \in Nat \ {0} /\ 0 \in 0 .. MaxBulk /\ 0 \in Indices
  <2>1. 0 \in Indices
    BY IndexModAssumption DEF Indices
  <2>2. want[c] \in 0 .. MaxBulk /\ left[c] \in 0 .. MaxBulk
    BY <1>1 DEF BaseTypeOK
  <2> QED BY <1>1, <2>1, <2>2, InvNumbers DEF BaseTypeOK, CallsAgree
<1>3. CASE Reserve(c)
  <2>1. /\ cpc[c] = "reserve" /\ cpc' = [cpc EXCEPT ![c] = "decide"]
        /\ mine' = [mine EXCEPT ![c] = dequeueOptimisticCount]
        /\ dequeueOptimisticCount' = Plus(dequeueOptimisticCount, want[c])
        /\ UNCHANGED <<tailIndex, headIndex, dequeueOvercommit, overcommit,
                       want, left>>
    BY <1>3 DEF Reserve, Goto
  <2>2. dequeueOptimisticCount' \in Indices
    BY <1>2, <2>1, IndexTypes
  <2>3. BaseTypeOK'
    BY <1>1, <1>2, <2>1, <2>2 DEF BaseTypeOK
  <2> QED BY <1>1, <2>1, <2>3 DEF BaseTypeOK
<1>4. CASE Decide(c)
  <2>1. PICK seen : seen = Seen(mine[c], overcommit[c])
    OBVIOUS
  <2>2. seen \in Nat
    BY <1>2, <2>1, IndexTypes DEF Seen
  <2>3. PICK actual : actual = IF ~circular_less_than(0, seen) THEN 0
                               ELSE IF want[c] < seen THEN want[c] ELSE seen
    OBVIOUS
  <2>4. actual \in 0 .. MaxBulk /\ actual <= want[c]
    BY <1>2, <2>2, <2>3
  <2>5. PICK p \in {"giveback", "claim"} :
           p = IF actual < want[c] THEN "giveback" ELSE "claim"
    OBVIOUS
  <2>6. /\ cpc[c] = "decide" /\ cpc' = [cpc EXCEPT ![c] = p]
        /\ left' = [left EXCEPT ![c] = actual]
        /\ UNCHANGED counterVars /\ UNCHANGED <<overcommit, mine, want>>
    BY <1>4, <2>1, <2>3, <2>5 DEF Decide, Goto
  <2>7. UNCHANGED <<tailIndex, headIndex, dequeueOptimisticCount,
                    dequeueOvercommit>>
    BY <2>6 DEF counterVars
  <2>8. BaseTypeOK'
    BY <1>1, <2>4, <2>6, <2>7 DEF BaseTypeOK
  <2> QED BY <1>1, <2>4, <2>6, <2>7, <2>8 DEF BaseTypeOK
<1>5. CASE GiveBack(c)
  <2>1. want[c] - left[c] \in Nat
    BY <1>2, <1>5 DEF GiveBack
  <2>2. dequeueOvercommit' \in Indices
    BY <1>2, <1>5, <2>1, IndexTypes DEF GiveBack
  <2>3. CASE left[c] = 0
    <3>1. /\ cpc[c] = "giveback" /\ cpc' = [cpc EXCEPT ![c] = "idle"]
          /\ overcommit' = [overcommit EXCEPT ![c] = 0]
          /\ mine' = [mine EXCEPT ![c] = 0] /\ want' = [want EXCEPT ![c] = 0]
          /\ left' = [left EXCEPT ![c] = 0]
          /\ UNCHANGED <<tailIndex, headIndex, dequeueOptimisticCount>>
      BY <1>5, <2>3 DEF GiveBack, Leave, Goto
    <3>2. BaseTypeOK'
      BY <1>1, <1>2, <2>2, <3>1 DEF BaseTypeOK
    <3> QED BY <1>1, <3>1, <3>2 DEF BaseTypeOK
  <2>4. CASE left[c] # 0
    <3>1. /\ cpc[c] = "giveback" /\ cpc' = [cpc EXCEPT ![c] = "claim"]
          /\ UNCHANGED <<overcommit, mine, want, left>>
          /\ UNCHANGED <<tailIndex, headIndex, dequeueOptimisticCount>>
      BY <1>5, <2>4 DEF GiveBack, Goto
    <3>2. BaseTypeOK'
      BY <1>1, <1>2, <2>2, <3>1 DEF BaseTypeOK
    <3> QED BY <1>1, <1>2, <3>1, <3>2 DEF BaseTypeOK
  <2> QED BY <2>3, <2>4
<1>6. CASE Claim(c)
  <2>1. /\ cpc[c] = "claim" /\ cpc' = [cpc EXCEPT ![c] = "idle"]
        /\ overcommit' = [overcommit EXCEPT ![c] = 0]
        /\ mine' = [mine EXCEPT ![c] = 0] /\ want' = [want EXCEPT ![c] = 0]
        /\ left' = [left EXCEPT ![c] = 0]
        /\ headIndex' = Plus(headIndex, left[c])
        /\ UNCHANGED <<tailIndex, dequeueOptimisticCount, dequeueOvercommit>>
    BY <1>6 DEF Claim, Leave, Goto
  <2>2. headIndex' \in Indices
    BY <1>2, <2>1, IndexTypes
  <2>3. BaseTypeOK'
    BY <1>1, <1>2, <2>1, <2>2 DEF BaseTypeOK
  <2> QED BY <1>1, <2>1, <2>3 DEF BaseTypeOK
<1> QED BY <1>3, <1>4, <1>5, <1>6 DEF ClaimStep

\* A claim takes elements and as many of the consumer's units.
LEMMA InnerStepStep ==
  ASSUME Parameters, QueueInv, NEW c \in Consumers, InnerStep(c)
  PROVE  QueueInv' /\ UNCHANGED <<S!Units, S!Waiting>>
<1>1. /\ ClaimStep(c)
      /\ got' = IF cpc[c] = "claim" THEN [got EXCEPT ![c] = @ - left[c]]
                ELSE got
      /\ UNCHANGED <<count, sema, posting, pc, max, limit, signalling>>
  BY DEF InnerStep
<1>2. /\ BaseTypeOK'
      /\ \A x \in Consumers : x # c => /\ cpc'[x] = cpc[x]
                                       /\ want'[x] = want[x]
                                       /\ left'[x] = left[x]
      /\ cpc[c] # "claim" =>
           /\ cpc'[c] # "idle" => want'[c] = want[c]
           /\ cpc'[c] \in {"giveback", "claim"} => left'[c] <= want'[c]
           /\ UNCHANGED <<headIndex, tailIndex>>
      /\ cpc[c] = "claim" => /\ headIndex' = Plus(headIndex, left[c])
                             /\ tailIndex' = tailIndex /\ cpc'[c] = "idle"
      /\ cpc[c] # "idle"
  BY <1>1, ClaimTypes
<1>3. /\ BaseTypeOK /\ CallsAgree /\ S!TypeOK /\ signalling \in 0 .. MaxBulk
  BY DEF QueueInv, TypeOK
<1>4. UNCHANGED <<S!Units, S!Waiting>> /\ WakeupsCovered'
  BY <1>1, InnerKeeps
<1>5. /\ got[c] \in Nat /\ left[c] \in Nat /\ want[c] \in Nat
      /\ want[c] <= got[c] /\ got[c] <= MaxBulk
      /\ pc[c] # "idle" => got[c] = 0
      /\ cpc[c] = "claim" => left[c] <= want[c]
  <2>1. want[c] \in 0 .. MaxBulk /\ left[c] \in 0 .. MaxBulk
    BY <1>3 DEF BaseTypeOK
  <2> QED BY <1>2, <1>3, <2>1 DEF CallsAgree, S!TypeOK
<1>6. CASE cpc[c] = "claim"
  <2>1. PICK g \in Nat : g = got[c] - left[c] /\ g <= got[c]
    BY <1>5, <1>6
  <2>2. got' = [got EXCEPT ![c] = g]
    BY <1>1, <1>3, <1>6, <2>1 DEF S!TypeOK
  <2>3. S!TypeOK'
    BY <1>1, <1>3, <2>2 DEF S!TypeOK
  <2>4. TypeOK'
    BY <1>1, <1>2, <1>3, <2>3 DEF TypeOK
  <2>5. got'[c] = g /\ \A x \in Consumers : x # c => got'[x] = got[x]
    BY <1>3, <2>2 DEF S!TypeOK
  <2>6. CallsAgree'
    <3>1. ASSUME NEW x \in Consumers
          PROVE  /\ got'[x] <= MaxBulk
                 /\ pc'[x] # "idle" => got'[x] = 0
                 /\ cpc'[x] # "idle" => want'[x] <= got'[x]
                 /\ cpc'[x] \in {"giveback", "claim"} => left'[x] <= want'[x]
      <4>1. CASE x # c
        BY <1>1, <1>2, <1>3, <2>5, <4>1 DEF CallsAgree
      <4>2. CASE x = c
        <5>1. cpc'[x] = "idle" /\ got'[x] = g /\ pc'[x] = pc[c]
          BY <1>1, <1>2, <1>6, <2>5, <4>2
        <5>2. g <= MaxBulk /\ (got[c] = 0 => g = 0)
          BY <1>5, <2>1, InvNumbers
        <5> QED BY <1>5, <5>1, <5>2
      <4> QED BY <4>1, <4>2
    <3> QED BY <3>1 DEF CallsAgree
  <2>7. Obtained'[c] = Obtained[c] - left[c] /\ left[c] <= Obtained[c]
    <3>1. /\ Obtained[c] = got[c] + (IF pc[c] = "more" THEN 1 ELSE 0)
          /\ Obtained'[c] = got'[c] + (IF pc'[c] = "more" THEN 1 ELSE 0)
      BY DEF Obtained
    <3> QED BY <1>1, <1>5, <1>6, <2>1, <2>5, <3>1
  <2>8. Held' = Held + (Obtained'[c] - Obtained[c])
    BY <1>1, <1>3, <2>3, <2>5, HeldChange
  <2>9. InQueue' = InQueue - left[c]
    <3>1. /\ Held \in Nat /\ S!Units \in Nat /\ signalling \in Nat
          /\ InQueue \in Nat /\ InQueue = S!Units + Held + signalling
          /\ Obtained[c] \in Nat /\ Obtained[c] <= Held
          /\ headIndex \in Indices /\ tailIndex \in Indices
      BY InvNumbers
    <3>2. left[c] \in 0 .. Distance(headIndex, tailIndex)
      BY <1>5, <2>7, <3>1 DEF InQueue
    <3> QED BY <1>2, <1>6, <3>1, <3>2, DistanceBack DEF InQueue
  <2>10. Balance'
    BY <1>1, <1>4, <1>5, <2>7, <2>8, <2>9, InvNumbers DEF Balance
  <2> QED BY <1>4, <2>4, <2>6, <2>10, InvAfter
<1>7. CASE cpc[c] # "claim"
  <2>1. got' = got
    BY <1>1, <1>7
  <2>2. TypeOK'
    BY <1>1, <1>2, <1>3, <2>1 DEF TypeOK, S!TypeOK
  <2>3. CallsAgree'
    <3>1. ASSUME NEW x \in Consumers
          PROVE  /\ got'[x] <= MaxBulk
                 /\ pc'[x] # "idle" => got'[x] = 0
                 /\ cpc'[x] # "idle" => want'[x] <= got'[x]
                 /\ cpc'[x] \in {"giveback", "claim"} => left'[x] <= want'[x]
      <4>1. CASE x # c
        BY <1>1, <1>2, <1>3, <2>1, <4>1 DEF CallsAgree
      <4>2. CASE x = c
        BY <1>1, <1>2, <1>5, <1>7, <2>1, <4>2
      <4> QED BY <4>1, <4>2
    <3> QED BY <3>1 DEF CallsAgree
  <2>4. InQueue' = InQueue /\ Held' = Held
    BY <1>1, <1>2, <1>7, <2>1, HeldSame DEF InQueue
  <2>5. Balance'
    BY <1>1, <1>4, <2>4, InvNumbers DEF Balance
  <2> QED BY <1>4, <2>2, <2>3, <2>5, InvAfter
<1> QED BY <1>6, <1>7

\* A consumer's call of the semaphore, or a step of one.
LEMMA CallStep ==
  ASSUME Parameters, QueueInv, NEW c \in Consumers,
         NEW n \in 1 .. MaxBulk, NEW l \in {"none", "zero", "some"},
         TryDequeue(c, n) \/ WaitDequeue(c, n, l) \/ Resume(c)
  PROVE  QueueInv' /\ [S!Sem!Next]_<<S!Units, S!Waiting>>
<1>1. CASE TryDequeue(c, n)
  <2>1. /\ Idle(c) /\ (S!TryWait(c) \/ S!TryWaitMany(c, n))
        /\ UNCHANGED <<baseVars, signalling>>
    BY <1>1 DEF TryDequeue
  <2>2. Effect(c)
    BY <2>1, TryWaitEffect
  <2> QED BY <2>1, <2>2, ConsumerStep DEF Effect
<1>2. CASE WaitDequeue(c, n, l)
  <2>1. /\ Idle(c) /\ (S!Wait(c, l) \/ S!WaitMany(c, n, l))
        /\ UNCHANGED <<baseVars, signalling>>
    BY <1>2 DEF WaitDequeue
  <2>2. Effect(c)
    BY <2>1, WaitEffect
  <2> QED BY <2>1, <2>2, ConsumerStep DEF Effect
<1>3. CASE Resume(c)
  <2>1. S!Resume(c) /\ UNCHANGED <<baseVars, signalling>>
    BY <1>3 DEF Resume
  <2>2. Effect(c)
    BY <2>1, ResumeEffect
  <2>3. pc[c] # "idle"
    BY <2>1 DEF S!Resume, S!SpinTake, S!FetchSub, S!Wake, S!TimeOut,
                S!TakeMore, S!UndoRetract, S!UndoSeen, S!UndoClaim
  <2> QED BY <2>1, <2>2, <2>3, ConsumerStep DEF Effect
<1> QED BY <1>1, <1>2, <1>3

\* A step of others.
LEMMA StutterStep ==
  ASSUME Parameters, QueueInv, UNCHANGED vars
  PROVE  QueueInv' /\ UNCHANGED <<S!Units, S!Waiting>>
<1>1. UNCHANGED <<count, sema, posting, pc, max, limit, got, signalling>>
      /\ UNCHANGED <<tailIndex, headIndex, dequeueOptimisticCount,
                     dequeueOvercommit, cpc, overcommit, mine, want, left>>
  BY DEF vars, baseVars, counterVars, claimVars, semaVars
<1>2. UNCHANGED <<S!Units, S!Waiting>> /\ WakeupsCovered'
  BY <1>1, InnerKeeps
<1>3. TypeOK'
  BY <1>1 DEF QueueInv, TypeOK, BaseTypeOK, S!TypeOK
<1>4. CallsAgree'
  BY <1>1 DEF QueueInv, CallsAgree
<1>5. Held' = Held /\ InQueue' = InQueue
  BY <1>1, HeldSame DEF InQueue
<1>6. Balance'
  BY <1>1, <1>2, <1>5, InvNumbers DEF Balance
<1> QED BY <1>2, <1>3, <1>4, <1>6, InvAfter

\* An enqueue is no step of the semaphore's.
LEMMA EnqueueKeeps ==
  ASSUME NEW n, Enqueue(n)
  PROVE  UNCHANGED <<S!Units, S!Waiting>>
BY DEF Enqueue, semaVars, S!Units, S!Waiting

\* Every step keeps the invariant, and is a step of the semaphore or none.
LEMMA QueueStep ==
  ASSUME Parameters, QueueInv, [Next]_vars
  PROVE  QueueInv' /\ [S!Sem!Next]_<<S!Units, S!Waiting>>
<1>1. ASSUME NEW n \in 1 .. MaxBulk, Enqueue(n)
      PROVE  QueueInv' /\ [S!Sem!Next]_<<S!Units, S!Waiting>>
  BY <1>1, EnqueueStep, EnqueueKeeps
<1>2. CASE Signal
  BY <1>2, SignalStep
<1>3. CASE Post
  BY <1>3, PostStep
<1>4. ASSUME NEW c \in Consumers, NEW n \in 1 .. MaxBulk, TryDequeue(c, n)
      PROVE  QueueInv' /\ [S!Sem!Next]_<<S!Units, S!Waiting>>
  <2>1. PICK l \in {"none", "zero", "some"} : TRUE
    OBVIOUS
  <2> QED BY <1>4, <2>1, CallStep
<1>5. ASSUME NEW c \in Consumers, NEW n \in 1 .. MaxBulk,
             NEW l \in {"none", "zero", "some"}, WaitDequeue(c, n, l)
      PROVE  QueueInv' /\ [S!Sem!Next]_<<S!Units, S!Waiting>>
  BY <1>5, CallStep
<1>6. ASSUME NEW c \in Consumers, Resume(c)
      PROVE  QueueInv' /\ [S!Sem!Next]_<<S!Units, S!Waiting>>
  <2>1. PICK n \in 1 .. MaxBulk : TRUE
    BY InvNumbers
  <2>2. PICK l \in {"none", "zero", "some"} : TRUE
    OBVIOUS
  <2> QED BY <1>6, <2>1, <2>2, CallStep
<1>7. ASSUME NEW c \in Consumers, InnerDequeue(c)
      PROVE  QueueInv' /\ [S!Sem!Next]_<<S!Units, S!Waiting>>
  BY <1>7, InnerDequeueStep
<1>8. ASSUME NEW c \in Consumers, InnerStep(c)
      PROVE  QueueInv' /\ [S!Sem!Next]_<<S!Units, S!Waiting>>
  BY <1>8, InnerStepStep
<1>9. CASE UNCHANGED vars
  BY <1>9, StutterStep
<1> QED
  <2>1. CASE Next
    BY <1>1, <1>2, <1>3, <1>4, <1>5, <1>6, <1>7, <1>8, <2>1 DEF Next
  <2> QED BY <1>9, <2>1

\* The semaphore starts with no unit and nobody waiting.
LEMMA InitSem ==
  ASSUME Parameters, Init
  PROVE  S!Sem!Init
<1>1. S!Waiting = {}
  BY DEF Init, S!Init, S!Waiting
<1>2. S!Units = 0
  <2>1. Waiters = 0
    BY <1>1, FS_EmptySet DEF Waiters
  <2>2. count = 0
    BY DEF Init, S!Init
  <2> QED BY <2>1, <2>2, Counts
<1> QED BY <1>1, <1>2 DEF S!Sem!Init

-----------------------------------------------------------------------------
(* The theorems *)

\* In every reachable state the invariant holds.
THEOREM BlockingInvariant == ASSUME Parameters PROVE Spec => []QueueInv
<1>1. Init => QueueInv
  BY InitInv
<1>2. QueueInv /\ [Next]_vars => QueueInv'
  BY QueueStep
<1> QED BY <1>1, <1>2, PTL DEF Spec

\* The counters of the queue and of the semaphore, and the calls in progress,
\* have their types.
THEOREM BlockingTypes == ASSUME Parameters PROVE Spec => []TypeOK
<1>1. QueueInv => TypeOK
  BY DEF QueueInv
<1> QED BY <1>1, BlockingInvariant, PTL

\* Of any number of consumers that wait, time out and take their decrement back
\* while signals overtake them, each that sleeps is counted in a negative
\* m_count or has a post of its own: none is forgotten, none woken in vain.
THEOREM BlockingWakeupsCovered ==
  ASSUME Parameters PROVE Spec => []WakeupsCovered
<1>1. QueueInv => WakeupsCovered
  BY DEF QueueInv
<1> QED BY <1>1, BlockingInvariant, PTL

\* Every element in the queue is a unit of the semaphore, one that a consumer
\* has obtained, or one yet to be signalled: the loop around the inner dequeue
\* does not wait for an element that is not there.
THEOREM BlockingElementsAreUnits ==
  ASSUME Parameters PROVE Spec => []ElementsAreUnits
<1>1. QueueInv => ElementsAreUnits
  BY DEF QueueInv
<1> QED BY <1>1, BlockingInvariant, PTL

\* m_count and the OS semaphore are one semaphore: each unit signalled is
\* handed out once, and a wait that times out leaves none behind that nobody
\* waits for.
THEOREM BlockingImplementsSemaphore ==
  ASSUME Parameters PROVE Spec => S!ImplementsSemaphore
<1>1. Init => S!Sem!Init
  BY InitSem
<1>2. QueueInv /\ [Next]_vars => [S!Sem!Next]_(S!Sem!semVars)
  BY QueueStep DEF S!Sem!semVars
<1> QED BY <1>1, <1>2, BlockingInvariant, PTL
    DEF S!ImplementsSemaphore, S!Sem!Spec, Spec

\* The queue is one of the uses of the inner queue that ProducerBase allows: a
\* consumer's units bound what it asks for.
THEOREM BlockingUsesBase == ASSUME Parameters PROVE Spec => BaseSpec
<1>1. Init => BaseInit
  BY DEF Init
<1>2. ASSUME QueueInv, [Next]_vars PROVE [BaseNext]_baseVars
  <2>1. ASSUME NEW n \in 1 .. MaxBulk, Enqueue(n) PROVE BaseNext
    BY <2>1 DEF Enqueue, BaseNext
  <2>2. ASSUME NEW c \in Consumers, InnerDequeue(c) PROVE BaseNext
    <3>1. got[c] \in Nat /\ got[c] <= MaxBulk /\ MaxBulk \in Nat
      BY <1>2, InvNumbers DEF QueueInv, CallsAgree, TypeOK, S!TypeOK
    <3>2. PICK n \in 1 .. got[c] : DequeueCall(c, n)
      BY <2>2 DEF InnerDequeue
    <3>3. n \in 1 .. MaxBulk
      BY <3>1, <3>2
    <3> QED BY <3>2, <3>3 DEF BaseNext
  <2>3. ASSUME NEW c \in Consumers, InnerStep(c) PROVE BaseNext
    BY <2>3 DEF InnerStep, BaseNext
  <2>4. Next => BaseNext \/ UNCHANGED baseVars
    BY <2>1, <2>2, <2>3 DEF Next, Signal, Post, TryDequeue, WaitDequeue, Resume
  <2>5. UNCHANGED vars => UNCHANGED baseVars
    BY DEF vars
  <2> QED BY <1>2, <2>4, <2>5
<1> QED BY <1>1, <1>2, BlockingInvariant, PTL DEF Spec, BaseSpec

\* So a refused dequeue of the client's queue leaves nothing behind either.
THEOREM BlockingNothingHidden ==
  ASSUME Parameters PROVE Spec => []NothingHidden
<1>1. BaseParameters
  BY DEF Parameters
<1> QED BY <1>1, BlockingUsesBase, ClaimsNothingHidden, PTL
=============================================================================
