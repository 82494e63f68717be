----------------------------- MODULE UtilProofs -----------------------------
(***************************************************************************)
(* Theorems about the parts of src/src/util that stand beside the queues   *)
(* of the program, for any number of threads and any sizes: the queue      *)
(* behind a lock, with its three kinds of lock; the barrier; the pool of   *)
(* buffers; the ring that several threads push to and pop from; and the    *)
(* Bloom filter.                                                           *)
(***************************************************************************)
EXTENDS MutexQueue, NatFacts, Sequences, Functions

-----------------------------------------------------------------------------
(* The locks *)

Places == {"idle", "wait", "exchange", "test", "move", "count", "leave"}
Numbers == 0 .. IndexMod - 1
InCall == {t \in Threads : pc[t] # "idle"}
Gap == (ticket - next) % IndexMod

\* Only an unfair lock is taken with an exchange.
LockTypes ==
  /\ TypeOK /\ kind \in {"ticket", "unfair", "mutex"}
  /\ pc \in [Threads -> Places]
  /\ \A t \in Threads : pc[t] = "exchange" => kind = "unfair"

\* The tickets that are out are those from next_ on, one for each call, and
\* the call that is inside has the first.
Tickets ==
  /\ Gap = Cardinality(InCall)
  /\ \A t, u \in InCall : mine[t] = mine[u] => t = u
  /\ \A t \in InCall : \E n \in 0 .. Gap - 1 : mine[t] = (next + n) % IndexMod
  /\ \A n \in 0 .. Gap - 1 : \E t \in InCall : mine[t] = (next + n) % IndexMod
  /\ \A t \in Inside : mine[t] = next

\* The other locks: who is inside has set lock_, and is alone.
Word ==
  /\ lock = 0 => Inside = {}
  /\ \A t, u \in Inside : t = u

LockInv ==
  /\ LockTypes
  /\ kind = "ticket" => Tickets
  /\ kind # "ticket" => Word

\* With either kind of lock, who is inside is alone.
LEMMA LockExcludes == LockInv => \A t, u \in Inside : t = u
BY DEF LockInv, LockTypes, Tickets, Word, Inside, InCall

\* At first nobody holds a lock or a ticket.
LEMMA LockInit == Parameters /\ Init => LockInv
<1> SUFFICES ASSUME Parameters, Init PROVE LockInv
  OBVIOUS
<1>1. 0 \in Numbers /\ FirstIndex \in Numbers
  BY DEF Parameters, Numbers
<1>2. InCall = {} /\ Inside = {}
  BY DEF InCall, Inside, Init
<1>3. LockTypes
  BY <1>1 DEF LockTypes, TypeOK, Init, Places, Numbers
<1>4. Gap = 0
  <2>1. ticket = next /\ next \in Int
    BY <1>1 DEF Init, Numbers
  <2> QED BY <1>1, <2>1, ModSmall DEF Gap, Parameters, Numbers
<1>5. Tickets
  BY <1>2, <1>4, FS_EmptySet DEF Tickets
<1> QED BY <1>2, <1>3, <1>5 DEF LockInv, Word

\* The number after the last is 0, as ++ on a counter has it.
LEMMA NextNumber ==
  ASSUME Parameters, NEW i \in Numbers
  PROVE  Next1(i) \in Numbers
BY DEF Parameters, Numbers, Next1

\* Every step keeps the types.
LEMMA TypesStep ==
  ASSUME Parameters, LockTypes, [Next]_vars
  PROVE  LockTypes'
<1>1. /\ \A i \in Numbers : Next1(i) \in Numbers
      /\ 0 \in Numbers
  BY NextNumber DEF Parameters, Numbers
<1> USE <1>1 DEF LockTypes, TypeOK, Places, Goto, lockVars, queueVars, callVars
<1> HIDE DEF Next1
<1>2. ASSUME NEW t \in Threads, NEW o \in {"push", "pop"}, Call(t, o)
      PROVE  LockTypes'
  BY <1>2 DEF Call, Numbers
<1>3. ASSUME NEW t \in Threads, Turn(t) \/ Acquire(t) \/ See(t) \/ Exchange(t)
      PROVE  LockTypes'
  BY <1>3 DEF Turn, Acquire, See, Exchange
<1>4. ASSUME NEW t \in Threads, Test(t) PROVE LockTypes'
  BY <1>4 DEF Test
<1>5. ASSUME NEW t \in Threads, Move(t) PROVE LockTypes'
  <2>1. head % RingSize \in Slots /\ tail % RingSize \in Slots
    BY DEF Parameters, Slots
  <2> QED BY <1>5, <2>1 DEF Move
<1>6. ASSUME NEW t \in Threads, Count(t) PROVE LockTypes'
  BY <1>6 DEF Count, Numbers
<1>7. ASSUME NEW t \in Threads, Leave(t) PROVE LockTypes'
  BY <1>7 DEF Leave, Numbers
<1>8. CASE UNCHANGED vars
  BY <1>8 DEF vars
<1> QED BY <1>2, <1>3, <1>4, <1>5, <1>6, <1>7, <1>8 DEF Next

\* A call takes the ticket after the last one that is out.
LEMMA TicketsCall ==
  ASSUME Parameters, LockTypes, Tickets, kind = "ticket",
         NEW t \in Threads, NEW o \in {"push", "pop"}, Call(t, o)
  PROVE  Tickets'
<1>1. /\ ticket \in Numbers /\ next \in Numbers /\ IndexMod \in Nat \ {0}
      /\ \A u \in Threads : mine[u] \in Numbers
  BY DEF LockTypes, TypeOK, Numbers, Parameters
<1>2. /\ ticket' = Next1(ticket) /\ next' = next
      /\ pc' = [pc EXCEPT ![t] = "wait"] /\ mine' = [mine EXCEPT ![t] = ticket]
  BY DEF Call, Goto
<1>3. InCall' = InCall \cup {t} /\ t \notin InCall /\ Inside' = Inside
  BY <1>2 DEF InCall, Inside, Call, LockTypes
<1>4. mine'[t] = ticket /\ \A u \in InCall : mine'[u] = mine[u]
  BY <1>2, <1>3 DEF LockTypes, TypeOK, InCall
<1>5. /\ Cardinality(InCall') = Gap + 1
      /\ Gap \in Nat /\ Gap + 1 < IndexMod
  <2>1. InCall \subseteq Threads /\ InCall' \subseteq Threads
    BY DEF InCall
  <2>2. /\ IsFiniteSet(InCall) /\ Cardinality(InCall) \in Nat
        /\ Cardinality(InCall') <= Cardinality(Threads)
        /\ Cardinality(Threads) \in Nat
    BY <2>1, FS_Subset, FS_CardinalityType DEF Parameters
  <2>3. Cardinality(InCall') = Cardinality(InCall) + 1
    BY <1>3, <2>2, FS_AddElement
  <2> QED BY <2>2, <2>3 DEF Tickets, Parameters
<1>6. /\ Gap' = Gap + 1
      /\ next + Gap = ticket \/ next + Gap = ticket + IndexMod
  <2>1. next \in 0 .. IndexMod - 1 /\ ticket \in 0 .. IndexMod - 1
    BY <1>1 DEF Numbers
  <2>2. Gap + 1 < IndexMod =>
          (((ticket + 1) % IndexMod) - next) % IndexMod = Gap + 1
    BY <1>1, <2>1, ModDistance DEF Gap
  <2>3. next + Gap = ticket \/ next + Gap = ticket + IndexMod
    BY <1>1, <2>1, ModSpan DEF Gap
  <2> QED BY <1>2, <1>5, <2>2, <2>3 DEF Gap, Next1
<1>7. ticket = (next + Gap) % IndexMod
  BY <1>1, <1>6, ModSmall DEF Numbers
<1>8. \A u \in InCall : mine[u] # ticket
  <2> SUFFICES ASSUME NEW u \in InCall, mine[u] = ticket PROVE FALSE
    OBVIOUS
  <2>1. PICK n \in 0 .. Gap - 1 : mine[u] = (next + n) % IndexMod
    BY DEF Tickets
  <2>2. n \in 0 .. IndexMod - 1 /\ Gap \in 0 .. IndexMod - 1 /\ next \in Int
    BY <1>1, <1>5 DEF Numbers
  <2>3. n = Gap
    BY <1>1, <1>7, <2>1, <2>2, ModApart
  <2> QED BY <1>5, <2>3
<1>9. 0 .. Gap' - 1 = (0 .. Gap - 1) \cup {Gap}
  BY <1>5, <1>6
<1>10. ASSUME NEW u \in InCall'
       PROVE  \E n \in 0 .. Gap' - 1 : mine'[u] = (next' + n) % IndexMod
  BY <1>2, <1>3, <1>4, <1>7, <1>9 DEF Tickets
<1>11. ASSUME NEW n \in 0 .. Gap' - 1
       PROVE  \E u \in InCall' : mine'[u] = (next' + n) % IndexMod
  BY <1>2, <1>3, <1>4, <1>7, <1>9 DEF Tickets
<1>12. \A u, v \in InCall' : mine'[u] = mine'[v] => u = v
  BY <1>3, <1>4, <1>8 DEF Tickets
<1>13. \A u \in Inside' : mine'[u] = next'
  BY <1>2, <1>3, <1>4 DEF Tickets, Inside, InCall
<1> QED BY <1>5, <1>6, <1>10, <1>11, <1>12, <1>13 DEF Tickets

\* Who leaves had the first ticket: the next one is the first now.
LEMMA TicketsLeave ==
  ASSUME Parameters, LockTypes, Tickets, kind = "ticket",
         NEW t \in Threads, Leave(t)
  PROVE  Tickets'
<1>1. /\ ticket \in Numbers /\ next \in Numbers /\ IndexMod \in Nat \ {0}
      /\ next \in Int /\ \A u \in Threads : mine[u] \in Numbers
  BY DEF LockTypes, TypeOK, Numbers, Parameters
<1>2. t \in Inside /\ t \in InCall /\ mine[t] = next
  BY DEF Leave, Inside, InCall, Tickets
<1>3. /\ ticket' = ticket /\ next' = Next1(next)
      /\ pc' = [pc EXCEPT ![t] = "idle"] /\ mine' = [mine EXCEPT ![t] = 0]
  BY <1>2 DEF Leave, Goto
<1>4. InCall' = InCall \ {t} /\ Inside' = {}
  <2>1. Inside = {t}
    BY <1>2 DEF Tickets, Inside, InCall
  <2> QED BY <1>3, <2>1 DEF InCall, Inside, LockTypes
<1>5. \A u \in InCall' : mine'[u] = mine[u]
  BY <1>3, <1>4 DEF LockTypes, TypeOK, InCall
<1>6. Cardinality(InCall') = Gap - 1 /\ Gap \in Nat \ {0} /\ Gap < IndexMod
  <2>1. InCall \subseteq Threads
    BY DEF InCall
  <2>2. /\ IsFiniteSet(InCall) /\ Cardinality(InCall) \in Nat
        /\ Cardinality(InCall) <= Cardinality(Threads)
        /\ Cardinality(Threads) \in Nat
    BY <2>1, FS_Subset, FS_CardinalityType DEF Parameters
  <2>3. Cardinality(InCall') = Cardinality(InCall) - 1
    BY <1>2, <1>4, <2>2, FS_RemoveElement
  <2>4. Cardinality(InCall) # 0
    BY <1>2, <2>2, FS_EmptySet
  <2> QED BY <2>2, <2>3, <2>4 DEF Tickets, Parameters
<1>7. Gap' = Gap - 1
  <2>1. next \in 0 .. IndexMod - 1 /\ ticket \in 0 .. IndexMod - 1
    BY <1>1 DEF Numbers
  <2>2. Gap >= 1 => (ticket - ((next + 1) % IndexMod)) % IndexMod = Gap - 1
    BY <1>1, <2>1, ModDistance DEF Gap
  <2>3. Gap >= 1
    BY <1>6
  <2> QED BY <1>3, <2>2, <2>3 DEF Gap, Next1
<1>8. next = (next + 0) % IndexMod
  BY <1>1, ModSmall DEF Numbers
<1>9. \A n \in Int : (next' + n) % IndexMod = (next + (n + 1)) % IndexMod
  <2> SUFFICES ASSUME NEW n \in Int
               PROVE  (next' + n) % IndexMod = (next + (n + 1)) % IndexMod
    OBVIOUS
  <2>1. next + 1 \in Int /\ (next + 1) + n = next + (n + 1)
    BY <1>1
  <2>2. (((next + 1) % IndexMod) + n) % IndexMod = ((next + 1) + n) % IndexMod
    BY <1>1, <2>1, ModKeeps
  <2> QED BY <1>3, <2>1, <2>2 DEF Next1
<1>10. ASSUME NEW u \in InCall'
       PROVE  \E n \in 0 .. Gap' - 1 : mine'[u] = (next' + n) % IndexMod
  <2>1. PICK n \in 0 .. Gap - 1 : mine[u] = (next + n) % IndexMod
    BY <1>4 DEF Tickets
  <2>2. n # 0
    BY <1>2, <1>4, <1>8, <2>1 DEF Tickets
  <2>3. n - 1 \in 0 .. Gap' - 1 /\ n - 1 \in Int /\ n = (n - 1) + 1
    BY <1>6, <1>7, <2>1, <2>2
  <2>4. mine'[u] = (next' + (n - 1)) % IndexMod
    BY <1>5, <1>9, <2>1, <2>3
  <2> QED BY <2>3, <2>4
<1>11. ASSUME NEW n \in 0 .. Gap' - 1
       PROVE  \E u \in InCall' : mine'[u] = (next' + n) % IndexMod
  <2> HIDE DEF Gap
  <2>1. n \in Int /\ n + 1 \in 0 .. Gap - 1 /\ n + 1 # 0
        /\ n + 1 \in 0 .. IndexMod - 1 /\ 0 \in 0 .. IndexMod - 1
    <3>1. n \in 0 .. (Gap - 1) - 1
      BY <1>7
    <3> QED BY <1>1, <1>6, <3>1
  <2>2. PICK u \in InCall : mine[u] = (next + (n + 1)) % IndexMod
    BY <2>1 DEF Tickets
  <2>3. u # t
    BY <1>1, <1>2, <1>8, <2>1, <2>2, ModApart
  <2> QED BY <1>4, <1>5, <1>9, <2>1, <2>2, <2>3
<1>12. \A u, v \in InCall' : mine'[u] = mine'[v] => u = v
  BY <1>4, <1>5 DEF Tickets
<1> QED BY <1>4, <1>6, <1>7, <1>10, <1>11, <1>12 DEF Tickets

\* The other steps draw no ticket and pass none on.
LEMMA TicketsKept ==
  ASSUME LockTypes, Tickets, NEW t \in Threads, kind = "ticket",
         Turn(t) \/ Test(t) \/ Move(t) \/ Count(t)
  PROVE  Tickets'
<1>1. UNCHANGED <<ticket, next, mine>> /\ InCall' = InCall
  BY DEF Turn, Test, Move, Count, Goto, lockVars, callVars, InCall, LockTypes
<1>2. Gap' = Gap
  BY <1>1 DEF Gap
<1>3. \A u \in Inside' : u \in Inside \/ mine[u] = next
  BY DEF Turn, Test, Move, Count, Goto, Inside, LockTypes
<1> QED BY <1>1, <1>2, <1>3 DEF Tickets

\* Every step keeps the locks.
LEMMA LockStep == Parameters /\ LockInv /\ [Next]_vars => LockInv'
<1> SUFFICES ASSUME Parameters, LockInv, [Next]_vars PROVE LockInv'
  OBVIOUS
<1>1. LockTypes'
  BY TypesStep DEF LockInv
<1>2. kind' = kind
  BY DEF Next, vars, lockVars, Call, Turn, Acquire, See, Exchange, Test, Move,
         Count, Leave
<1>3. CASE UNCHANGED vars
  BY <1>3
         DEF vars, lockVars, callVars, LockInv, LockTypes, TypeOK, Tickets,
       Word,
              Inside, InCall, Gap, queueVars
<1>4. ASSUME kind = "ticket", Next PROVE Tickets'
  <2>1. PICK t \in Threads :
          \/ Call(t, "push") \/ Call(t, "pop")
          \/ Turn(t) \/ Acquire(t) \/ See(t) \/ Exchange(t)
          \/ Test(t) \/ Move(t) \/ Count(t) \/ Leave(t)
    BY <1>4 DEF Next
  <2>2. ~Acquire(t) /\ ~See(t) /\ ~Exchange(t)
    BY <1>4 DEF Acquire, See, Exchange, LockInv, LockTypes
  <2> QED BY <1>4, <2>1, <2>2, TicketsCall, TicketsKept, TicketsLeave
         DEF LockInv
<1>5. ASSUME kind # "ticket", NEW t \in Threads,
             \/ Call(t, "push") \/ Call(t, "pop") \/ See(t)
             \/ Test(t) \/ Move(t) \/ Count(t)
      PROVE  Word'
  <2>1. lock' = lock /\ Inside' = Inside
    BY <1>5
           DEF Call, See, Test, Move, Count, Goto, lockVars, Inside,
           LockInv, LockTypes
  <2> QED BY <1>5, <2>1 DEF Word, LockInv
<1>6. ASSUME kind # "ticket", NEW t \in Threads, Acquire(t) \/ Exchange(t)
      PROVE  Word'
  BY <1>6 DEF Acquire, Exchange, Goto, Inside, Word, LockInv, LockTypes
<1>7. ASSUME kind # "ticket", NEW t \in Threads, Leave(t) PROVE Word'
  BY <1>7 DEF Leave, Goto, Inside, Word, LockInv, LockTypes
<1> QED BY <1>1, <1>2, <1>3, <1>4, <1>5, <1>6, <1>7 DEF Next, LockInv, Turn

\* What the theorems on the locks rest on, for every value of the constants.
THEOREM MutexLocks == ASSUME Parameters PROVE Spec => []LockInv
<1>1. Init => LockInv
  BY LockInit
<1>2. LockInv /\ [Next]_vars => LockInv'
  BY LockStep
<1> QED BY <1>1, <1>2, PTL DEF Spec

\* No two threads are inside at the same time.
THEOREM MutexOneInside == ASSUME Parameters PROVE Spec => []OneInside
<1>1. LockInv => OneInside
  <2> SUFFICES ASSUME LockInv PROVE Cardinality(Inside) <= 1
    BY DEF OneInside
  <2>1. CASE Inside = {}
    BY <2>1, FS_EmptySet
  <2>2. CASE Inside # {}
    <3>1. PICK t \in Inside : Inside = {t}
      BY <2>2, LockExcludes
    <3>2. Cardinality({t}) = 1
      BY FS_Singleton
    <3> QED BY <3>1, <3>2
  <2> QED BY <2>1, <2>2
<1> QED BY <1>1, MutexLocks, PTL

\* The tickets out are those from next_ on: the turn comes to every thread that
\* waits, in the order they came, though tickets wrap.
THEOREM MutexTurnsWhole == ASSUME Parameters PROVE Spec => []TurnsWhole
<1>1. LockInv => TurnsWhole
  <2> SUFFICES ASSUME LockInv, kind = "ticket" PROVE TurnsWhole
    BY DEF TurnsWhole
  <2>1. {mine[t] : t \in InCall} = {(next + n) % IndexMod : n \in 0 .. Gap - 1}
    BY DEF LockInv, Tickets
  <2> QED BY <2>1 DEF LockInv, Tickets, TurnsWhole, InCall, Gap
<1> QED BY <1>1, MutexLocks, PTL

-----------------------------------------------------------------------------
(* The queue behind the lock *)

\* The elements are the indices from tail_ to head_, in order.
InSlots ==
  /\ Ahead <= RingSize
  /\ \A n \in 0 .. Ahead - 1 :
       element[(tail + n) % RingSize] = (tail + n) % IndexMod

\* What the call that is inside has found and done so far.
Doing ==
  \A t \in Inside :
    /\ pc[t] \in {"move", "count"} => May(t)
    /\ pc[t] = "count" =>
         IF op[t] = "push" THEN element[head % RingSize] = head ELSE got[t] =
                tail

MutexInv == LockInv /\ InSlots /\ Doing

\* A counter that wraps and one that does not name the same slot.
LEMMA NextSlot ==
  ASSUME Parameters, NEW i \in Numbers, NEW n \in Nat
  PROVE  /\ (Next1(i) + n) % RingSize = (i + (n + 1)) % RingSize
         /\ (Next1(i) + n) % IndexMod = (i + (n + 1)) % IndexMod
<1>1. /\ IndexMod \in Nat \ {0} /\ RingSize \in Nat \ {0}
      /\ i \in 0 .. IndexMod - 1
      /\ IndexMod \in Nat /\ IndexMod % RingSize = 0
      /\ i + 1 \in Int /\ n \in Int /\ (i + 1) + n = i + (n + 1)
  BY DEF Parameters, Numbers
<1>2. (((i + 1) % IndexMod) + n) % IndexMod = ((i + 1) + n) % IndexMod
  BY <1>1, ModKeeps
<1>3. (((i + 1) % IndexMod) + n) % RingSize = ((i + 1) + n) % RingSize
  <2>1. (i + 1) % IndexMod = IF i + 1 = IndexMod THEN 0 ELSE i + 1
    BY <1>1, ModNext
  <2>2. CASE i + 1 = IndexMod
    <3>1. (n + IndexMod) % RingSize = n % RingSize
      BY <1>1, ModShift
    <3>2. (i + 1) + n = n + IndexMod /\ 0 + n = n
      BY <1>1, <2>2
    <3> QED BY <2>1, <2>2, <3>1, <3>2
  <2> QED BY <2>1, <2>2
<1> QED BY <1>1, <1>2, <1>3 DEF Next1

\* head_ is Ahead further on than tail_, and how an increment changes that.
LEMMA HeadAhead ==
  ASSUME Parameters, head \in Numbers, tail \in Numbers
  PROVE  /\ Ahead \in Nat /\ Ahead < IndexMod /\ (Ahead = 0 <=> head = tail)
         /\ head = (tail + Ahead) % IndexMod
         /\ head % RingSize = (tail + Ahead) % RingSize
         /\ Ahead + 1 < IndexMod => (Next1(head) - tail) % IndexMod = Ahead + 1
         /\ Ahead >= 1 => (head - Next1(tail)) % IndexMod = Ahead - 1
<1>1. /\ IndexMod \in Nat \ {0} /\ RingSize \in Nat \ {0}
      /\ head \in 0 .. IndexMod - 1 /\ tail \in 0 .. IndexMod - 1
      /\ IndexMod \in Nat /\ IndexMod % RingSize = 0 /\ head \in Int
  BY DEF Parameters, Numbers
<1>2. Ahead \in 0 .. IndexMod - 1
  BY <1>1, ModDistance DEF Ahead
<1>a. IndexMod \in Nat \ {0}
  BY <1>1
<1>b. tail \in 0 .. IndexMod - 1 /\ head \in 0 .. IndexMod - 1
  BY <1>1
<1>3. tail + Ahead = head \/ tail + Ahead = head + IndexMod
  BY <1>a, <1>b, ModSpan DEF Ahead
<1>4. Ahead + 1 < IndexMod => (Next1(head) - tail) % IndexMod = Ahead + 1
  BY <1>a, <1>b, ModDistance DEF Ahead, Next1
<1>5. Ahead >= 1 => (head - Next1(tail)) % IndexMod = Ahead - 1
  BY <1>a, <1>b, ModDistance DEF Ahead, Next1
<1> HIDE DEF Ahead
<1>6. head = (tail + Ahead) % IndexMod
  BY <1>1, <1>3, ModSmall
<1>7. (head + IndexMod) % RingSize = head % RingSize
  BY <1>1, ModShift
<1>8. Ahead = 0 <=> head = tail
  <2>1. head = tail => Ahead = 0
    <3>1. (head - head) % IndexMod = 0
      BY <1>1, ModSmall
    <3> QED BY <3>1 DEF Ahead
  <2> QED BY <1>1, <1>3, <2>1
<1> QED BY <1>1, <1>2, <1>3, <1>4, <1>5, <1>6, <1>7, <1>8

\* At first the queue is empty and nobody is inside.
LEMMA MutexInit == Parameters /\ Init => MutexInv
<1> SUFFICES ASSUME Parameters, Init PROVE MutexInv
  OBVIOUS
<1>1. LockInv
  BY LockInit
<1>2. Ahead = 0
  <2>1. head \in Numbers /\ tail \in Numbers /\ head = tail
    BY DEF Init, Parameters, Numbers
  <2> QED BY <2>1, HeadAhead
<1>3. InSlots
  BY <1>2 DEF InSlots, Parameters
<1>4. Doing
  BY DEF Init, Doing, Inside
<1> QED BY <1>1, <1>3, <1>4 DEF MutexInv

\* A step outside the lock, or the first and the last step inside.
LEMMA InSlotsKept ==
  ASSUME InSlots, UNCHANGED queueVars
  PROVE  InSlots'
BY DEF InSlots, Ahead, queueVars

\* Who moves an element writes past the last or reads the first.
LEMMA MutexMove ==
  ASSUME Parameters, MutexInv, NEW t \in Threads, Move(t)
  PROVE  InSlots' /\ Doing'
<1>1. /\ Inside = {t} /\ May(t) /\ head \in Numbers /\ tail \in Numbers
      /\ RingSize \in Nat \ {0} /\ IndexMod \in Nat /\ tail \in Int
  BY LockExcludes
     DEF MutexInv, Move, Doing, Inside, LockInv, LockTypes, TypeOK, Numbers,
            Parameters
<1>2. /\ UNCHANGED <<head, tail, op>> /\ Ahead' = Ahead
      /\ Inside' = {t} /\ pc'[t] = "count"
  BY <1>1 DEF Move, Goto, lockVars, Ahead, Inside, MutexInv, LockInv, LockTypes
<1>3. May(t)'
  BY <1>1, <1>2 DEF May
<1>4. Ahead \in Nat /\ head % RingSize = (tail + Ahead) % RingSize
      /\ (Ahead = 0 <=> head = tail) /\ head = (tail + Ahead) % IndexMod
  BY <1>1, HeadAhead
<1>5. CASE op[t] = "push"
  <2>1. element' = [element EXCEPT ![head % RingSize] = head]
        /\ Ahead < RingSize
    BY <1>1, <1>5 DEF Move, May
  <2>2. element'[head % RingSize] = head
    <3>1. head % RingSize \in Slots
      BY <1>1 DEF Slots, Numbers
    <3> QED BY <2>1, <3>1 DEF MutexInv, LockInv, LockTypes, TypeOK
  <2>3. ASSUME NEW n \in 0 .. Ahead - 1
        PROVE  element'[(tail + n) % RingSize] = (tail + n) % IndexMod
    <3>1. n \in 0 .. RingSize - 1 /\ Ahead \in 0 .. RingSize - 1 /\ n # Ahead
      BY <1>1, <1>4, <2>1
    <3>2. (tail + n) % RingSize # head % RingSize
      BY <1>1, <1>4, <3>1, ModApart
    <3>3. (tail + n) % RingSize \in Slots
      BY <1>1, <3>1 DEF Slots, Numbers
    <3> QED BY <2>1, <3>2, <3>3
           DEF MutexInv, InSlots, LockInv, LockTypes, TypeOK
  <2> QED BY <1>2, <1>3, <1>5, <2>2, <2>3 DEF InSlots, Doing, MutexInv
<1>6. CASE op[t] # "push"
  <2>1. UNCHANGED element
        /\ got' = [got EXCEPT ![t] = element[tail % RingSize]]
    BY <1>6 DEF Move
  <2>2. 0 \in 0 .. Ahead - 1 /\ tail + 0 = tail
    BY <1>1, <1>4, <1>6 DEF May
  <2>3. element[tail % RingSize] = tail
    <3>1. tail % IndexMod = tail
      BY <1>1, ModSmall DEF Numbers, Parameters
    <3> QED BY <2>2, <3>1 DEF MutexInv, InSlots
  <2>4. got'[t] = tail
    BY <2>1, <2>3 DEF MutexInv, LockInv, LockTypes, TypeOK
  <2>5. InSlots'
    BY <1>2, <2>1, InSlotsKept DEF MutexInv, queueVars
  <2> QED BY <1>2, <1>3, <1>6, <2>4, <2>5 DEF Doing
<1> QED BY <1>5, <1>6

\* Who counts makes the contents one longer or one shorter.
LEMMA MutexCount ==
  ASSUME Parameters, MutexInv, NEW t \in Threads, Count(t)
  PROVE  InSlots' /\ Doing'
<1>1. /\ Inside = {t} /\ May(t) /\ head \in Numbers /\ tail \in Numbers
      /\ RingSize \in Nat \ {0} /\ IndexMod \in Nat /\ RingSize < IndexMod
  BY LockExcludes
     DEF MutexInv, Count, Doing, Inside, LockInv, LockTypes, TypeOK, Numbers,
            Parameters
<1>2. /\ element' = element /\ Inside' = {t} /\ pc'[t] = "leave"
      /\ op[t] = "push" => head' = Next1(head) /\ tail' = tail
      /\ op[t] # "push" => tail' = Next1(tail) /\ head' = head
  BY <1>1 DEF Count, Goto, Inside, MutexInv, LockInv, LockTypes
<1>3. Doing'
  BY <1>2 DEF Doing
<1>4. /\ Ahead \in Nat /\ Ahead <= RingSize /\ (Ahead = 0 <=> head = tail)
      /\ head % RingSize = (tail + Ahead) % RingSize
      /\ head = (tail + Ahead) % IndexMod
  BY <1>1, HeadAhead DEF MutexInv, InSlots
<1>5. CASE op[t] = "push"
  <2>1. Ahead < RingSize /\ element[head % RingSize] = head
    BY <1>1, <1>5 DEF May, Doing, MutexInv, Count
  <2>2. Ahead' = Ahead + 1
    <3>1. Ahead + 1 < IndexMod
      BY <1>1, <1>4, <2>1
    <3>2. (Next1(head) - tail) % IndexMod = Ahead + 1
      BY <1>1, <3>1, HeadAhead
    <3> QED BY <1>2, <1>5, <3>2 DEF Ahead
  <2>3. ASSUME NEW n \in 0 .. Ahead' - 1
        PROVE  element[(tail + n) % RingSize] = (tail + n) % IndexMod
    <3>1. n \in 0 .. Ahead - 1 \/ n = Ahead
      BY <1>4, <2>2, <2>3
    <3> QED BY <1>4, <2>1, <3>1 DEF MutexInv, InSlots
  <2>4. Ahead' <= RingSize
    BY <1>1, <1>4, <2>1, <2>2
  <2> QED BY <1>2, <1>3, <1>5, <2>3, <2>4 DEF InSlots
<1>6. CASE op[t] # "push"
  <2>1. Ahead >= 1
    BY <1>1, <1>4, <1>6 DEF May
  <2>2. Ahead' = Ahead - 1
    <3>1. (head - Next1(tail)) % IndexMod = Ahead - 1
      BY <1>1, <2>1, HeadAhead
    <3> QED BY <1>2, <1>6, <3>1 DEF Ahead
  <2>3. ASSUME NEW n \in 0 .. Ahead' - 1
        PROVE  element[(tail' + n) % RingSize] = (tail' + n) % IndexMod
    <3>1. n \in 0 .. (Ahead - 1) - 1
      BY <2>2
    <3>2. n \in Nat /\ n + 1 \in 0 .. Ahead - 1
      BY <1>4, <3>1
    <3>3. /\ (tail' + n) % RingSize = (tail + (n + 1)) % RingSize
          /\ (tail' + n) % IndexMod = (tail + (n + 1)) % IndexMod
      BY <1>1, <1>2, <1>6, <3>2, NextSlot
    <3> QED BY <3>2, <3>3 DEF MutexInv, InSlots
  <2>4. Ahead' <= RingSize
    BY <1>1, <1>4, <2>1, <2>2
  <2> QED BY <1>2, <1>3, <2>3, <2>4 DEF InSlots
<1> QED BY <1>5, <1>6

\* The other steps leave the queue alone, and what the call inside knows.
LEMMA DoingKept ==
  ASSUME MutexInv, NEW t \in Threads,
         \/ Call(t, "push") \/ Call(t, "pop") \/ Turn(t) \/ Acquire(t)
         \/ See(t) \/ Exchange(t) \/ Test(t) \/ Leave(t)
  PROVE  InSlots' /\ Doing'
<1>1. UNCHANGED queueVars
  BY DEF Call, Turn, Acquire, See, Exchange, Test, Leave
<1>2. InSlots'
  BY <1>1, InSlotsKept DEF MutexInv
<1>3. Ahead' = Ahead
  BY <1>1 DEF Ahead, queueVars
<1>4. ASSUME NEW u \in Threads, u \in Inside'
      PROVE  /\ pc'[u] \in {"move", "count"} => May(u)'
             /\ pc'[u] = "count" =>
                  IF op'[u] = "push" THEN element[head % RingSize] = head
                  ELSE got'[u] = tail
  <2>1. CASE u # t
    <3>1. pc'[u] = pc[u] /\ op'[u] = op[u] /\ got'[u] = got[u] /\ u \in Inside
      BY <1>4, <2>1
         DEF Call, Turn, Acquire, See, Exchange, Test, Leave, Goto, callVars,
             Inside, MutexInv, LockInv, LockTypes, TypeOK
    <3>2. May(u)' <=> May(u)
      BY <1>1, <1>3, <3>1 DEF May, queueVars
    <3> QED BY <1>1, <3>1, <3>2 DEF MutexInv, Doing, queueVars
  <2>2. CASE u = t
    <3>1. pc'[t] # "count"
      BY DEF Call, Turn, Acquire, See, Exchange, Test, Leave, Goto,
             MutexInv, LockInv, LockTypes
    <3>2. pc'[t] = "move" => Test(t) /\ May(t)
      BY DEF Call, Turn, Acquire, See, Exchange, Test, Leave, Goto,
             MutexInv, LockInv, LockTypes
    <3>3. Test(t) => (May(t)' <=> May(t))
      BY <1>1, <1>3 DEF May, Test, callVars, queueVars
    <3> QED BY <2>2, <3>1, <3>2, <3>3
  <2> QED BY <2>1, <2>2
<1>5. Doing'
  BY <1>1, <1>4 DEF Doing, Inside, queueVars
<1> QED BY <1>2, <1>5

\* Every step keeps the queue behind the lock.
LEMMA MutexStep == Parameters /\ MutexInv /\ [Next]_vars => MutexInv'
<1> SUFFICES ASSUME Parameters, MutexInv, [Next]_vars PROVE MutexInv'
  OBVIOUS
<1>1. LockInv'
  BY LockStep DEF MutexInv
<1>2. CASE UNCHANGED vars
  <2>1. UNCHANGED queueVars /\ Inside' = Inside /\ Ahead' = Ahead
        /\ UNCHANGED <<head, tail, element, pc, op, got>>
    BY <1>2 DEF vars, queueVars, callVars, Inside, Ahead
  <2>2. Doing'
    BY <2>1 DEF MutexInv, Doing, May
  <2> QED BY <1>1, <2>1, <2>2, InSlotsKept DEF MutexInv
<1>3. CASE Next
  <2>1. PICK t \in Threads :
          \/ Call(t, "push") \/ Call(t, "pop")
          \/ Turn(t) \/ Acquire(t) \/ See(t) \/ Exchange(t)
          \/ Test(t) \/ Move(t) \/ Count(t) \/ Leave(t)
    BY <1>3 DEF Next
  <2> QED BY <1>1, <2>1, MutexMove, MutexCount, DoingKept DEF MutexInv
<1> QED BY <1>2, <1>3

\* The queue behind the lock is first-in first-out, when its counters wrap too.
THEOREM MutexInOrder == ASSUME Parameters PROVE Spec => []InOrder
<1>1. Init => MutexInv
  BY MutexInit
<1>2. MutexInv /\ [Next]_vars => MutexInv'
  BY MutexStep
<1>3. MutexInv => InOrder
  <2> SUFFICES ASSUME MutexInv PROVE InOrder
    OBVIOUS
  <2>1. \A t \in Threads : pc[t] = "count" /\ op[t] = "pop" => got[t] = tail
    BY DEF MutexInv, Doing, Inside
  <2> QED BY <2>1 DEF MutexInv, InSlots, InOrder
<1> QED BY <1>1, <1>2, <1>3, PTL DEF Spec

-----------------------------------------------------------------------------
(* The barrier: with r releases behind them, each thread has begun r waits or  *)
(* r + 1, and the counter is the number of those that have begun r + 1.        *)

CONSTANT MaxRounds

VARIABLES counter, inside, arrived, left, releasing

Bar == INSTANCE Barrier

Begun(r) == {t \in Threads : arrived[t] = r + 1}

Round(r) ==
  /\ counter = Cardinality(Begun(r))
  /\ \A t \in Threads :
       \/ t \in inside /\ arrived[t] \in {r, r + 1} /\ left[t] = arrived[t] - 1
       \/ t \notin inside /\ arrived[t] = r /\ left[t] = r
  /\ releasing => Begun(r) = Threads

BarInv ==
  /\ counter \in Nat /\ inside \subseteq Threads /\ releasing \in BOOLEAN
  /\ arrived \in [Threads -> Nat] /\ left \in [Threads -> Nat]
  /\ \E r \in Nat : Round(r)

\* What the barrier counts with is what the library counts with.
LEMMA BarrierCounts ==
  /\ Bar!Parameters => IsFiniteSet(Threads)
  /\ \A s : Bar!Cardinality(s) = Cardinality(s)
BY
       DEF Bar!Parameters, Bar!IsFiniteSet, IsFiniteSet, Bar!Cardinality,
           Cardinality

\* The threads that have begun a wait are finitely many.
LEMMA FiniteBegun ==
  ASSUME Bar!Parameters, NEW r
  PROVE  IsFiniteSet(Begun(r)) /\ Cardinality(Begun(r)) \in Nat
<1>1. Begun(r) \subseteq Threads
  BY DEF Begun
<1> QED
  BY <1>1, BarrierCounts, FS_Subset, FS_CardinalityType

\* At first nobody has begun.
LEMMA BarrierInit == Bar!Parameters /\ Bar!Init => BarInv
<1> SUFFICES ASSUME Bar!Parameters, Bar!Init PROVE BarInv
  OBVIOUS
<1>1. Begun(0) = {}
  BY DEF Begun, Bar!Init
<1>2. Round(0)
  BY <1>1, FS_EmptySet DEF Round, Bar!Init
<1> QED
  BY <1>2 DEF BarInv, Bar!Init

\* Every step of a thread keeps the barrier.
LEMMA BarrierStep == Bar!Parameters /\ BarInv /\ [Bar!Next]_Bar!vars => BarInv'
<1> SUFFICES ASSUME Bar!Parameters, BarInv, [Bar!Next]_Bar!vars PROVE BarInv'
  OBVIOUS
<1>r. PICK r \in Nat : Round(r)
  BY DEF BarInv
<1>n. CASE \E t \in Threads : Bar!Arrive(t)
  <2>1. PICK t \in Threads : Bar!Arrive(t)
    BY <1>n
  <2>2. arrived[t] = r /\ left[t] = r /\ t \notin Begun(r)
    BY <1>r, <2>1 DEF Round, Bar!Arrive, Begun
  <2>3. Begun(r)' = Begun(r) \cup {t}
    BY <2>1, <2>2 DEF Bar!Arrive, Begun, BarInv
  <2>4. counter' = Cardinality(Begun(r)')
    BY <1>r, <2>1, <2>2, <2>3, FiniteBegun, FS_AddElement DEF Round, Bar!Arrive
  <2>5. \A u \in Threads :
          \/ u \in inside' /\ arrived'[u] \in {r, r + 1}
             /\ left'[u] = arrived'[u] - 1
          \/ u \notin inside' /\ arrived'[u] = r /\ left'[u] = r
    BY <1>r, <2>1, <2>2 DEF Round, Bar!Arrive, BarInv
  <2>6. ~releasing'
    BY <1>r, <2>1, <2>2 DEF Round, Bar!Arrive
  <2>7. Round(r)'
    BY <2>4, <2>5, <2>6 DEF Round
  <2> QED
    BY <2>1, <2>7 DEF BarInv, Bar!Arrive
<1>g. CASE \E t \in Threads : Bar!Go(t)
  <2>1. PICK t \in Threads : Bar!Go(t)
    BY <1>g
  <2>2. Begun(r) = {}
    BY <1>r, <2>1, FiniteBegun, FS_EmptySet DEF Round, Bar!Go
  <2>3. arrived[t] = r /\ left[t] = r - 1
    BY <1>r, <2>1, <2>2 DEF Round, Begun, BarInv, Bar!Go
  <2>4. Begun(r)' = Begun(r)
    BY <2>1 DEF Bar!Go, Begun
  <2>5. \A u \in Threads :
          \/ u \in inside' /\ arrived'[u] \in {r, r + 1}
             /\ left'[u] = arrived'[u] - 1
          \/ u \notin inside' /\ arrived'[u] = r /\ left'[u] = r
    BY <1>r, <2>1, <2>3 DEF Round, Bar!Go, BarInv
  <2>6. Round(r)'
    BY <1>r, <2>1, <2>4, <2>5 DEF Round, Bar!Go
  <2> QED
    BY <2>1, <2>6 DEF BarInv, Bar!Go
<1>s. CASE Bar!See
  <2>1. Begun(r) \subseteq Threads
    BY DEF Begun
  <2>2. Begun(r) = Threads
    <3>1. Cardinality(Begun(r)) = Cardinality(Threads) /\ IsFiniteSet(Threads)
      BY <1>r, <1>s, BarrierCounts DEF Round, Bar!See
    <3> QED BY <2>1, <3>1, FS_Subset
  <2>3. Round(r)'
    BY <1>r, <1>s, <2>2 DEF Round, Bar!See, Begun
  <2> QED
    BY <1>s, <2>3 DEF BarInv, Bar!See
<1>l. CASE Bar!Release
  <2>1. \A t \in Threads : t \in inside /\ arrived[t] = r + 1 /\ left[t] = r
    BY <1>r, <1>l DEF Round, Bar!Release, Begun, BarInv
  <2>2. Begun(r + 1)' = {}
    BY <1>l, <2>1 DEF Bar!Release, Begun
  <2>3. Round(r + 1)'
    BY <1>l, <2>1, <2>2, FS_EmptySet DEF Round, Bar!Release
  <2>4. r + 1 \in Nat
    OBVIOUS
  <2>5. \E q \in Nat : Round(q)'
    BY <2>3, <2>4
  <2> QED
    BY <1>l, <2>5 DEF BarInv, Bar!Release
<1>u. CASE UNCHANGED Bar!vars
  <2>1. Round(r)'
    BY <1>r, <1>u DEF Round, Begun, Bar!vars
  <2> QED
    BY <1>u, <2>1 DEF BarInv, Bar!vars
<1> QED
  BY <1>n, <1>g, <1>s, <1>l, <1>u DEF Bar!Next

\* No thread ends its n-th wait before every thread has begun its n-th.
THEOREM BarrierNobodyEarly == ASSUME Bar!Parameters PROVE Bar!Spec =>
       []Bar!NobodyEarly
<1>1. Bar!Init => BarInv
  BY BarrierInit
<1>2. BarInv /\ [Bar!Next]_Bar!vars => BarInv'
  BY BarrierStep
<1>3. BarInv => Bar!NobodyEarly
  <2> SUFFICES ASSUME BarInv, NEW t \in Threads, NEW u \in Threads
               PROVE  left[t] <= arrived[u]
    BY DEF Bar!NobodyEarly
  <2>1. PICK r \in Nat : Round(r)
    BY DEF BarInv
  <2>2. left[t] <= r /\ r <= arrived[u]
    BY <2>1 DEF Round, BarInv
  <2> QED
    BY <2>1, <2>2 DEF BarInv
<1> QED
  BY <1>1, <1>2, <1>3, PTL DEF Bar!Spec

-----------------------------------------------------------------------------
(* The pool of buffers: the buffers handed out last are the ones the counter   *)
(* has just passed, of which no two agree modulo their number unless it leapt. *)

CONSTANTS Counts, IntMod, SizeMod

VARIABLES chunk_cnt, cursor, recent

Bufs == INSTANCE BufPool

\* The counter before the least int is the greatest.
Wrapped(x) == IF x < -(IntMod \div 2) THEN x + IntMod ELSE x

BufInv ==
  LET n == Len(recent)
  IN /\ chunk_cnt \in Counts /\ Bufs!TypeOK
     /\ recent \in Seq(Int) /\ n <= chunk_cnt
     /\ \A i \in 1 .. n : recent[i] = Bufs!BufOf(Wrapped((cursor - n) + (i - 1)), chunk_cnt)

\* What the pool counts with is what the library counts with.
LEMMA BufCounts == \A s : Bufs!Cardinality(s) = Cardinality(s)
BY DEF Bufs!Cardinality, Cardinality

\* What the proofs of arithmetic need of the pool's constants.
LEMMA BufFacts ==
  ASSUME Bufs!Parameters, BufInv
  PROVE  /\ IntMod \in Nat \ {0} /\ SizeMod \in Nat \ {0} /\ SizeMod >= IntMod
         /\ IntMod \div 2 \in Nat \ {0} /\ IntMod = 2 * (IntMod \div 2)
         /\ SizeMod % IntMod = 0
         /\ chunk_cnt \in 1 .. IntMod \div 2 - 1
         /\ cursor \in -(IntMod \div 2) .. IntMod \div 2 - 1
         /\ recent \in Seq(Int) /\ Len(recent) \in Nat /\ Len(recent) <= chunk_cnt
         /\ chunk_cnt \in Nat \ {0} /\ chunk_cnt + 1 <= IntMod \div 2
         /\ chunk_cnt < IntMod \div 2 /\ cursor \in Int
         /\ recent \in [1 .. Len(recent) -> Int]
<1>1. /\ IntMod \in Nat \ {0} /\ SizeMod \in Nat \ {0}
      /\ IntMod % 2 = 0 /\ SizeMod % IntMod = 0
      /\ chunk_cnt \in 1 .. IntMod \div 2 - 1
      /\ cursor \in -(IntMod \div 2) .. IntMod \div 2 - 1
  BY DEF Bufs!Parameters, BufInv, Bufs!TypeOK
<1>a. recent \in Seq(Int) /\ Len(recent) \in Nat /\ Len(recent) <= chunk_cnt
  BY DEF BufInv
<1>2. IntMod = 2 * (IntMod \div 2) /\ IntMod \div 2 \in Nat \ {0}
  BY <1>1
<1>3. SizeMod >= IntMod
  <2>1. ASSUME SizeMod < IntMod PROVE FALSE
    <3>1. SizeMod \in 0 .. IntMod - 1
      BY <1>1, <2>1
    <3> QED BY <1>1, <3>1, ModSmall
  <2> QED BY <1>1, <2>1
<1> DEFINE h == IntMod \div 2
<1>4. h \in Nat /\ chunk_cnt \in 1 .. h - 1 /\ cursor \in -h .. h - 1
  BY <1>1, <1>2
<1> HIDE DEF h
<1>5. chunk_cnt \in Nat \ {0} /\ chunk_cnt + 1 <= h /\ chunk_cnt < h /\ cursor \in Int
  BY <1>4
<1>6. recent \in [1 .. Len(recent) -> Int]
  BY <1>a
<1> QED BY <1>1, <1>a, <1>2, <1>3, <1>5, <1>6 DEF h

\* Counted back from the next value of the counter or from this one.
LEMMA CursorNext ==
  ASSUME Bufs!Parameters, BufInv, Bufs!GetBuf,
         NEW x \in Int, x < 0, -x <= IntMod \div 2
  PROVE  Wrapped(cursor' + x) = Wrapped(cursor + (x + 1))
<1> DEFINE h == IntMod \div 2
<1>1. h \in Nat \ {0} /\ IntMod = 2 * h /\ cursor \in -h .. h - 1 /\ -x <= h
  BY BufFacts
<1>2. cursor' = IF cursor = h - 1 THEN -h ELSE cursor + 1
  BY DEF Bufs!GetBuf
<1>3. \A y : Wrapped(y) = IF y < -h THEN y + IntMod ELSE y
  BY DEF Wrapped
<1> HIDE DEF h
<1>4. CASE cursor = h - 1
  <2>1. cursor' + x = x - h /\ x - h < -h /\ (x - h) + IntMod = cursor + (x + 1)
    BY <1>1, <1>2, <1>4
  <2>2. ~(cursor + (x + 1) < -h)
    BY <1>1, <1>4
  <2> QED BY <1>3, <2>1, <2>2
<1>5. CASE cursor # h - 1
  <2>1. cursor' + x = cursor + (x + 1)
    BY <1>1, <1>2, <1>5
  <2> QED BY <2>1
<1> QED BY <1>4, <1>5

\* At first no buffer is handed out.
LEMMA BufInit == Bufs!Parameters /\ Bufs!Init => BufInv
<1> SUFFICES ASSUME Bufs!Parameters, Bufs!Init PROVE BufInv
  OBVIOUS
<1>1. /\ chunk_cnt \in Counts /\ chunk_cnt \in Nat \ {0}
      /\ cursor = 0 /\ recent = <<>> /\ Len(recent) = 0 /\ recent \in Seq(Int)
  BY DEF Bufs!Parameters, Bufs!Init
<1>2. Bufs!TypeOK
  <2>1. IntMod \in Nat \ {0} /\ IntMod % 2 = 0
    BY DEF Bufs!Parameters
  <2>2. IntMod \div 2 \in Int /\ IntMod \div 2 >= 1
    BY <2>1
  <2> QED BY <1>1, <2>2 DEF Bufs!TypeOK
<1> QED BY <1>1, <1>2 DEF BufInv

\* A counter's value is not before the least int.
LEMMA WrappedIs ==
  ASSUME Bufs!Parameters, BufInv PROVE Wrapped(cursor) = cursor
<1> DEFINE h == IntMod \div 2
<1>1. h \in Nat /\ cursor \in -h .. h - 1
  BY BufFacts
<1>2. Wrapped(cursor) = IF cursor < -h THEN cursor + IntMod ELSE cursor
  BY DEF Wrapped
<1> HIDE DEF h
<1> QED BY <1>1, <1>2

\* One more buffer handed out: the last ones are the last of the counter.
LEMMA BufStep ==
  Bufs!Parameters /\ BufInv /\ [Bufs!GetBuf]_Bufs!vars => BufInv'
<1> SUFFICES ASSUME Bufs!Parameters, BufInv, [Bufs!GetBuf]_Bufs!vars
             PROVE  BufInv'
  OBVIOUS
<1>a. \A x, c : Bufs!BufOf(x, c) = (x % SizeMod) % c
  BY DEF Bufs!BufOf
<1>1. CASE UNCHANGED Bufs!vars
  BY <1>1 DEF Bufs!vars, BufInv, Bufs!TypeOK, Bufs!BufOf, Wrapped
<1>2. CASE Bufs!GetBuf
  <2> DEFINE n == Len(recent)
             b == Bufs!BufOf(cursor, chunk_cnt)
             all == Append(recent, b)
             Of(x) == Bufs!BufOf(Wrapped(x), chunk_cnt)
  <2>1. /\ chunk_cnt \in Nat \ {0} /\ cursor \in Int /\ IntMod \in Nat \ {0}
        /\ recent \in Seq(Int) /\ n \in Nat /\ n <= chunk_cnt
        /\ SizeMod \in Nat \ {0} /\ IntMod \div 2 \in Nat /\ chunk_cnt + 1 <= IntMod \div 2
    <3> HIDE DEF n
    <3> QED BY BufFacts DEF n
  <2>c. chunk_cnt \in Nat /\ n \in Nat /\ n <= chunk_cnt
    BY <2>1
  <2>b. b \in Int
    <3>1. cursor % SizeMod \in Int
      BY <2>1
    <3>2. (cursor % SizeMod) % chunk_cnt \in Int
      BY <2>1, <3>1
    <3> QED BY <3>2, <1>a
  <2>2. /\ chunk_cnt' = chunk_cnt /\ chunk_cnt \in Counts
        /\ recent' = IF Len(all) > chunk_cnt THEN Tail(all) ELSE all
    BY <1>2 DEF Bufs!GetBuf, BufInv
  <2>3. Bufs!TypeOK' /\ cursor' \in Int
    <3>1. cursor \in -(IntMod \div 2) .. IntMod \div 2 - 1
          /\ IntMod \div 2 \in Int
      BY <2>1 DEF BufInv, Bufs!TypeOK
    <3>2. cursor' \in -(IntMod \div 2) .. IntMod \div 2 - 1
      BY <1>2, <3>1 DEF Bufs!GetBuf
    <3> QED BY <3>1, <3>2 DEF Bufs!TypeOK
  <2> HIDE DEF b
  <2>4. /\ all \in Seq(Int) /\ Len(all) = n + 1 /\ all[n + 1] = b
        /\ \A i \in 1 .. n : all[i] = recent[i]
    BY <2>1, <2>b
  <2>5. ASSUME NEW i \in 1 .. n + 1
        PROVE  all[i] = Of((cursor - n) + (i - 1))
    <3>1. CASE i = n + 1
      <4>1. (cursor - n) + (i - 1) = cursor
        BY <2>1, <3>1
      <4>2. Of((cursor - n) + (i - 1)) = b
        BY <4>1, WrappedIs DEF b
      <4> QED BY <2>4, <3>1, <4>2
    <3>2. CASE i # n + 1
      <4>1. i \in 1 .. n
        BY <2>1, <3>2
      <4> QED BY <2>4, <4>1 DEF BufInv
    <3> QED BY <3>1, <3>2
  <2>8. ASSUME NEW x \in Int, x < 0, -x <= chunk_cnt + 1
        PROVE  Of(cursor' + x) = Of(cursor + (x + 1))
    <3>1. -x <= IntMod \div 2
      BY <2>1, <2>8
    <3> QED BY <1>2, <2>8, <3>1, CursorNext
  <2>9. (\A x : Of(x)' = Of(x)) /\ chunk_cnt' = chunk_cnt
    BY <2>2 DEF Bufs!BufOf, Wrapped
  <2> HIDE DEF n, all, Of
  <2>6. CASE n + 1 <= chunk_cnt
    <3>1. recent' = all /\ Len(recent') = n + 1
      BY <2>c, <2>2, <2>4, <2>6
    <3>2. ASSUME NEW i \in 1 .. n + 1
          PROVE  recent'[i] = Of((cursor' - (n + 1)) + (i - 1))
      <4>1. /\ i - 1 - (n + 1) \in Int /\ i - 1 - (n + 1) < 0
            /\ -(i - 1 - (n + 1)) <= chunk_cnt + 1
            /\ (cursor' - (n + 1)) + (i - 1) = cursor' + (i - 1 - (n + 1))
            /\ (cursor - n) + (i - 1) = cursor + ((i - 1 - (n + 1)) + 1)
        BY <2>1, <2>3, <2>6
      <4>2. Of(cursor' + (i - 1 - (n + 1))) = Of(cursor + ((i - 1 - (n + 1)) + 1))
        BY <2>8, <4>1
      <4> QED BY <2>5, <3>1, <4>1, <4>2
    <3> QED BY <2>2, <2>3, <2>4, <2>6, <2>9, <3>1, <3>2 DEF BufInv, Of
  <2>7. CASE n + 1 > chunk_cnt
    <3>1. /\ recent' = Tail(all) /\ n = chunk_cnt /\ Len(recent') = n
          /\ recent' \in Seq(Int) /\ \A i \in 1 .. n : recent'[i] = all[i + 1]
      BY <2>c, <2>2, <2>4, <2>7
    <3>2. ASSUME NEW i \in 1 .. n
          PROVE  recent'[i] = Of((cursor' - n) + (i - 1))
      <4>1. /\ i - 1 - n \in Int /\ i + 1 \in 1 .. n + 1
            /\ i - 1 - n < 0 /\ -(i - 1 - n) <= chunk_cnt + 1
            /\ (cursor' - n) + (i - 1) = cursor' + (i - 1 - n)
            /\ (cursor - n) + ((i + 1) - 1) = cursor + ((i - 1 - n) + 1)
        BY <2>1, <2>3
      <4>2. Of(cursor' + (i - 1 - n)) = Of(cursor + ((i - 1 - n) + 1))
        BY <2>8, <4>1
      <4>3. all[i + 1] = Of((cursor - n) + ((i + 1) - 1))
        BY <2>5, <4>1
      <4> QED BY <3>1, <4>1, <4>2, <4>3
    <3> QED BY <2>1, <2>2, <2>3, <2>9, <3>1, <3>2 DEF BufInv, Of
  <2> QED BY <2>1, <2>6, <2>7
<1> QED BY <1>1, <1>2

\* With a count that divides the counter's range, or where the counter has not
\* leapt, the buffers follow one another.
LEMMA BufsFollow ==
  ASSUME Bufs!Parameters, BufInv, IntMod % chunk_cnt = 0 \/ ~Bufs!Leapt
  PROVE  \E x \in Int : \A i \in 1 .. Len(recent) : recent[i] = (x + (i - 1)) % chunk_cnt
<1> DEFINE n == Len(recent)
           h == IntMod \div 2
<1>1. /\ IntMod \in Nat \ {0} /\ SizeMod \in Nat \ {0} /\ SizeMod >= IntMod
      /\ h \in Nat \ {0} /\ IntMod = 2 * h /\ SizeMod % IntMod = 0
      /\ chunk_cnt \in Nat \ {0} /\ chunk_cnt < h /\ cursor \in -h .. h - 1
      /\ n \in Nat /\ n <= chunk_cnt
  <2> HIDE DEF n, h
  <2> QED BY BufFacts DEF n, h
<1>2. \A i \in 1 .. n :
        recent[i] = (Wrapped((cursor - n) + (i - 1)) % SizeMod) % chunk_cnt
  BY DEF BufInv, Bufs!BufOf
<1>3. \A x : Wrapped(x) = IF x < -h THEN x + IntMod ELSE x
  BY DEF Wrapped
<1>4. Bufs!Leapt <=> cursor % h \in 1 .. n - 1
  BY DEF Bufs!Leapt
<1> HIDE DEF n, h
<1>5. \A x \in Int : 0 <= x /\ x < h => x % SizeMod = x
  BY <1>1, ModSmall
<1>6. \A x \in Int : -h <= x /\ x < 0 => x % SizeMod = x + SizeMod
  <2> SUFFICES ASSUME NEW x \in Int, -h <= x, x < 0 PROVE x % SizeMod = x + SizeMod
    OBVIOUS
  <2>1. x + SizeMod \in 0 .. SizeMod - 1 /\ (x + SizeMod) - SizeMod = x
    BY <1>1
  <2> QED BY <1>1, <2>1, ModSmall
<1>7. CASE IntMod % chunk_cnt = 0
  <2>0. /\ chunk_cnt \in Nat \ {0} /\ IntMod \in Nat \ {0} /\ SizeMod \in Int
        /\ SizeMod % IntMod = 0
    BY <1>1
  <2>1. SizeMod % chunk_cnt = 0
    <3>1. (SizeMod % IntMod) % chunk_cnt = SizeMod % chunk_cnt
      BY <2>0, <1>7, ModMod
    <3>2. 0 % chunk_cnt = 0
      BY <2>0, ModSmall
    <3> QED BY <2>0, <3>1, <3>2
  <2>2. ASSUME NEW i \in 1 .. n PROVE recent[i] = ((cursor - n) + (i - 1)) % chunk_cnt
    <3> DEFINE y == (cursor - n) + (i - 1)
    <3>1. y \in Int
      BY <1>1
    <3> HIDE DEF y
    <3>2. Wrapped(y) \in Int /\ Wrapped(y) % chunk_cnt = y % chunk_cnt
      <4>0. IntMod \in Nat /\ chunk_cnt \in Nat \ {0} /\ y + IntMod \in Int
        BY <2>0, <3>1
      <4>1. (y + IntMod) % chunk_cnt = y % chunk_cnt
        BY <4>0, <1>7, <3>1, ModShift
      <4>2. Wrapped(y) = y + IntMod \/ Wrapped(y) = y
        BY <1>3
      <4> QED BY <3>1, <4>0, <4>1, <4>2
    <3>3. (Wrapped(y) % SizeMod) % chunk_cnt = Wrapped(y) % chunk_cnt
      <4>1. SizeMod \in Nat \ {0}
        BY <1>1
      <4> QED BY <2>0, <2>1, <3>2, <4>1, ModMod
    <3> QED BY <1>2, <3>2, <3>3 DEF y
  <2>3. cursor - n \in Int
    BY <1>1
  <2> QED BY <2>2, <2>3 DEF n
<1>8. CASE ~Bufs!Leapt
  <2>1. ~(cursor % h \in 1 .. n - 1)
    BY <1>4, <1>8
  <2>2. CASE cursor > 0
    <3>1. cursor % h = cursor /\ cursor >= n
      <4>1. cursor % h = cursor
        BY <1>1, <2>2, ModSmall
      <4> QED BY <1>1, <2>1, <2>2, <4>1
    <3>2. ASSUME NEW i \in 1 .. n PROVE recent[i] = ((cursor - n) + (i - 1)) % chunk_cnt
      <4>1. (cursor - n) + (i - 1) \in Int /\ 0 <= (cursor - n) + (i - 1)
            /\ (cursor - n) + (i - 1) < h /\ ~((cursor - n) + (i - 1) < -h)
        BY <1>1, <3>1
      <4> QED BY <1>2, <1>3, <1>5, <4>1
    <3>3. cursor - n \in Int
      BY <1>1
    <3> QED BY <3>2, <3>3 DEF n
  <2>3. CASE cursor = 0
    <3>2. ASSUME NEW i \in 1 .. n PROVE recent[i] = ((SizeMod - n) + (i - 1)) % chunk_cnt
      <4>1. (cursor - n) + (i - 1) \in Int /\ -h <= (cursor - n) + (i - 1)
            /\ (cursor - n) + (i - 1) < 0 /\ ~((cursor - n) + (i - 1) < -h)
            /\ (cursor - n) + (i - 1) + SizeMod = (SizeMod - n) + (i - 1)
        BY <1>1, <2>3
      <4> QED BY <1>2, <1>3, <1>6, <4>1
    <3>3. SizeMod - n \in Int
      BY <1>1
    <3> QED BY <3>2, <3>3 DEF n
  <2>4. CASE cursor < 0 /\ cursor > -h
    <3>1. cursor + h >= n
      <4>1. cursor + h \in 0 .. h - 1 /\ (cursor + h) - h = cursor
        BY <1>1, <2>4
      <4>2. cursor % h = cursor + h
        BY <1>1, <4>1, ModSmall
      <4> QED BY <1>1, <2>1, <2>4, <4>2
    <3>2. ASSUME NEW i \in 1 .. n
          PROVE  recent[i] = ((SizeMod + cursor - n) + (i - 1)) % chunk_cnt
      <4>1. (cursor - n) + (i - 1) \in Int /\ -h <= (cursor - n) + (i - 1)
            /\ (cursor - n) + (i - 1) < 0 /\ ~((cursor - n) + (i - 1) < -h)
            /\ (cursor - n) + (i - 1) + SizeMod = (SizeMod + cursor - n) + (i - 1)
        BY <1>1, <2>4, <3>1
      <4> QED BY <1>2, <1>3, <1>6, <4>1
    <3>3. SizeMod + cursor - n \in Int
      BY <1>1
    <3> QED BY <3>2, <3>3 DEF n
  <2>5. CASE cursor = -h
    <3>2. ASSUME NEW i \in 1 .. n PROVE recent[i] = ((h - n) + (i - 1)) % chunk_cnt
      <4>1. (cursor - n) + (i - 1) < -h
            /\ (cursor - n) + (i - 1) + IntMod = (h - n) + (i - 1)
            /\ (h - n) + (i - 1) \in Int /\ 0 <= (h - n) + (i - 1)
            /\ (h - n) + (i - 1) < h
        BY <1>1, <2>5
      <4> QED BY <1>2, <1>3, <1>5, <4>1
    <3>3. h - n \in Int
      BY <1>1
    <3> QED BY <3>2, <3>3 DEF n
  <2> QED BY <1>1, <2>2, <2>3, <2>4, <2>5
<1> QED BY <1>7, <1>8

\* A caller has its buffer alone until chunk_cnt more are asked for, and it is
\* one of the pool's, though the counter is an int that wraps: whatever the
\* count where the counter has not leapt meanwhile, and always if the count
\* divides the counter's range.
THEOREM PoolBuffersApart ==
  ASSUME Bufs!Parameters PROVE Bufs!Spec => []Bufs!BuffersApart
<1>1. Bufs!Init => BufInv
  BY BufInit
<1>2. BufInv /\ [Bufs!GetBuf]_Bufs!vars => BufInv'
  BY BufStep
<1>3. BufInv => Bufs!BuffersApart
  <2> SUFFICES ASSUME BufInv PROVE Bufs!BuffersApart
    OBVIOUS
  <2> DEFINE n == Len(recent)
             S == Bufs!ToSet(recent)
  <2>1. /\ chunk_cnt \in Nat \ {0} /\ cursor \in Int /\ n \in Nat
        /\ SizeMod \in Nat \ {0} /\ IntMod \in Nat
        /\ n <= chunk_cnt /\ recent \in [1 .. n -> Int]
    BY BufFacts
  <2>2. S = {recent[i] : i \in 1 .. n}
    BY <2>1 DEF Bufs!ToSet
  <2>3. ASSUME NEW i \in 1 .. n PROVE recent[i] \in 0 .. chunk_cnt - 1
    <3> DEFINE y == Wrapped((cursor - n) + (i - 1))
    <3>1. y \in Int
      BY <2>1 DEF Wrapped
    <3>2. recent[i] = (y % SizeMod) % chunk_cnt
      BY DEF BufInv, Bufs!BufOf
    <3> HIDE DEF y
    <3>3. y % SizeMod \in Int
      BY <2>1, <3>1
    <3> HIDE DEF n
    <3>4. (y % SizeMod) % chunk_cnt \in 0 .. chunk_cnt - 1
      BY <2>1, <3>3
    <3> QED BY <3>2, <3>4
  <2>7. ASSUME IntMod % chunk_cnt = 0 \/ ~Bufs!Leapt PROVE Cardinality(S) = n
    <3>1. PICK x \in Int : \A i \in 1 .. n : recent[i] = (x + (i - 1)) % chunk_cnt
      BY <2>7, BufsFollow
    <3>4. ASSUME NEW i \in 1 .. n, NEW j \in 1 .. n, recent[i] = recent[j]
          PROVE  i = j
      <4>1. i - 1 \in 0 .. chunk_cnt - 1 /\ j - 1 \in 0 .. chunk_cnt - 1
        BY <2>1
      <4>2. i - 1 = j - 1
        BY <2>1, <3>1, <3>4, <4>1, ModApart
      <4> QED BY <4>2
    <3>5. recent \in Bijection(1 .. n, S)
      BY <2>1, <2>2, <3>4 DEF Bijection, Injection, Surjection, IsInjective
    <3> QED BY <2>1, <3>5, FS_CountingElements DEF ExistsBijection
  <2> QED BY <2>2, <2>3, <2>7, BufCounts DEF Bufs!BuffersApart
<1> QED BY <1>1, <1>2, <1>3, PTL DEF Bufs!Spec

-----------------------------------------------------------------------------
(***************************************************************************)
(* The ring of many pushers and poppers: the state of a slot is the mark   *)
(* of the one thread that is at the element there, or there is none.       *)
(***************************************************************************)
CONSTANT MaxAhead

VARIABLES atomic, trying, state, seen, taken

Ring == INSTANCE SharedRing

\* The state in which a thread leaves the slot of its index, while it is there.
Sets(t) ==
  IF pc[t] \in {"store", "stored"} THEN "STORING"
  ELSE IF pc[t] \in {"load", "loaded"} THEN "LOADING" ELSE "none"

SlotOf(t) == Ring!Slot(seen[t])

RingTypes ==
  /\ head \in Numbers /\ tail \in Numbers
  /\ state \in [Slots -> {"EMPTY", "STORING", "STORED", "LOADING"}]
  /\ seen \in [Threads -> Numbers]
  /\ pc \in [Threads -> {"idle", "room", "some", "drawHead", "drawTail", "push",
                         "pop", "store", "stored", "load", "loaded", "has"}]

\* Who is at a slot has marked it, is alone, and a marked slot has somebody.
RingMarks ==
  /\ \A t \in Threads : Sets(t) # "none" => state[SlotOf(t)] = Sets(t)
  /\ \A t, u \in Threads :
       Sets(t) # "none" /\ Sets(u) # "none" /\ SlotOf(t) = SlotOf(u) => t = u
  /\ \A s \in Slots : state[s] \in {"STORING", "LOADING"} =>
       \E t \in Threads : Sets(t) = state[s] /\ SlotOf(t) = s

RingInv == RingTypes /\ RingMarks

\* Indices and slots.
LEMMA RingFacts ==
  ASSUME Ring!Parameters
  PROVE  /\ 0 \in Numbers /\ FirstIndex \in Numbers
         /\ \A i \in Numbers : Ring!Slot(i) \in Slots /\ Ring!Next1(i) \in Numbers
<1>1. IndexMod \in Nat \ {0} /\ RingSize \in Nat \ {0}
  BY DEF Ring!Parameters
<1>2. \A i \in Numbers : i \in Int /\ i + 1 \in Int
  BY <1>1 DEF Numbers
<1>3. \A i \in Int : i % RingSize \in 0 .. RingSize - 1
  BY <1>1
<1>4. \A i \in Int : i % IndexMod \in 0 .. IndexMod - 1
  BY <1>1
<1>5. 0 \in Numbers
  BY <1>1 DEF Numbers
<1>6. FirstIndex \in Numbers
  BY DEF Ring!Parameters, Numbers
<1>7. \A i \in Numbers : Ring!Slot(i) \in Slots
  BY <1>2, <1>3, Zenon DEF Ring!Slot, Slots
<1>8. \A i \in Numbers : Ring!Next1(i) \in Numbers
  BY <1>2, <1>4, Zenon DEF Ring!Next1, Numbers
<1> QED BY <1>5, <1>6, <1>7, <1>8

\* At first all slots are empty, and nobody is at one.
LEMMA RingInit == Ring!Parameters /\ Ring!Init => RingInv
<1> SUFFICES ASSUME Ring!Parameters, Ring!Init PROVE RingInv
  OBVIOUS
<1>1. RingTypes
  BY RingFacts DEF RingTypes, Ring!Init, Ring!Slots, Slots
<1>2. \A t \in Threads : Sets(t) = "none"
  BY DEF Sets, Ring!Init
<1>3. \A s \in Slots : state[s] = "EMPTY"
  BY DEF Ring!Init, Ring!Slots, Slots
<1> QED BY <1>1, <1>2, <1>3 DEF RingInv, RingMarks

\* A step of one thread that marks a slot, gives its mark up, or changes a slot
\* that has no mark.
LEMMA MarksKept ==
  ASSUME RingMarks, NEW t \in Threads, NEW k \in Slots,
         \A i \in Threads : SlotOf(i) \in Slots,
         \A u \in Threads : u # t => Sets(u)' = Sets(u) /\ SlotOf(u)' = SlotOf(u),
         \A s \in Slots : s # k => state'[s] = state[s],
         Sets(t) # "none" => SlotOf(t) = k,
         Sets(t) = "none" => state[k] \notin {"STORING", "LOADING"},
         Sets(t)' # "none" => SlotOf(t)' = k /\ state'[k] = Sets(t)',
         Sets(t)' = "none" => state'[k] \notin {"STORING", "LOADING"}
  PROVE  RingMarks'
<1>1. \A u \in Threads : Sets(u) \in {"none", "STORING", "LOADING"}
  BY DEF Sets
<1>2. \A u \in Threads : u # t /\ Sets(u) # "none" => SlotOf(u) # k
  BY <1>1 DEF RingMarks
<1>3. \A u \in Threads : Sets(u)' # "none" => state'[SlotOf(u)'] = Sets(u)'
  BY <1>2 DEF RingMarks
<1>4. \A u, w \in Threads :
        Sets(u)' # "none" /\ Sets(w)' # "none" /\ SlotOf(u)' = SlotOf(w)' => u = w
  BY <1>2 DEF RingMarks
<1>5. ASSUME NEW s \in Slots, state'[s] \in {"STORING", "LOADING"}
      PROVE  \E u \in Threads : Sets(u)' = state'[s] /\ SlotOf(u)' = s
  <2>1. CASE s = k
    BY <1>5, <2>1
  <2>2. CASE s # k
    <3>1. PICK u \in Threads : Sets(u) = state[s] /\ SlotOf(u) = s
      BY <1>5, <2>2 DEF RingMarks
    <3>2. u # t
      BY <1>5, <2>2, <3>1
    <3> QED BY <1>5, <2>2, <3>1, <3>2
  <2> QED BY <2>1, <2>2
<1> QED BY <1>3, <1>4, <1>5 DEF RingMarks

\* A step that leaves the slots and who is at them alone.
LEMMA MarksSame ==
  ASSUME RingMarks, state' = state,
         \A u \in Threads : Sets(u)' = Sets(u)
                            /\ (Sets(u) # "none" => SlotOf(u)' = SlotOf(u))
  PROVE  RingMarks'
BY DEF RingMarks

\* Every step keeps the marks.
LEMMA RingStep == Ring!Parameters /\ RingInv /\ [Ring!Next]_Ring!vars => RingInv'
<1> SUFFICES ASSUME Ring!Parameters, RingInv, [Ring!Next]_Ring!vars
             PROVE  RingInv'
  OBVIOUS
<1> USE DEF RingInv
<1>0. /\ RingTypes /\ RingMarks
      /\ \A i \in Threads : SlotOf(i) \in Slots /\ seen[i] \in Numbers
      /\ 0 \in Numbers /\ Ring!Next1(head) \in Numbers
      /\ Ring!Next1(tail) \in Numbers
  BY RingFacts DEF RingTypes, SlotOf
<1>1. CASE UNCHANGED Ring!vars
  BY <1>1 DEF Ring!vars, Ring!ringVars, RingTypes, RingMarks, Sets, SlotOf
<1>2. ASSUME NEW t \in Threads,
             Ring!Call(t) \/ Ring!IsFull(t) \/ Ring!IsEmpty(t) \/ Ring!HasRoom(t)
             \/ Ring!HasSome(t) \/ Ring!DrawHead(t) \/ Ring!DrawTail(t)
             \/ Ring!Store(t) \/ Ring!Load(t) \/ Ring!Has(t)
      PROVE  RingInv'
  <2>1. RingTypes'
    BY <1>0, <1>2
       DEF RingTypes, Ring!Call, Ring!Push, Ring!Pop, Ring!TryPush, Ring!TryPop,
           Ring!IsFull, Ring!IsEmpty, Ring!HasRoom, Ring!HasSome, Ring!DrawHead,
           Ring!DrawTail, Ring!Store, Ring!Load, Ring!Has, Ring!Goto, Ring!Fail,
           Ring!ringVars
  <2>2. state' = state
    BY <1>2
       DEF Ring!Call, Ring!Push, Ring!Pop, Ring!TryPush, Ring!TryPop,
           Ring!IsFull, Ring!IsEmpty, Ring!HasRoom, Ring!HasSome, Ring!DrawHead,
           Ring!DrawTail, Ring!Store, Ring!Load, Ring!Has, Ring!Fail,
           Ring!ringVars
  <2>3. \A u \in Threads : Sets(u)' = Sets(u)
                           /\ (Sets(u) # "none" => SlotOf(u)' = SlotOf(u))
    BY <1>0, <1>2
       DEF RingTypes, Sets, SlotOf, Ring!Call, Ring!Push, Ring!Pop, Ring!TryPush,
           Ring!TryPop, Ring!IsFull, Ring!IsEmpty, Ring!HasRoom, Ring!HasSome,
           Ring!DrawHead, Ring!DrawTail, Ring!Store, Ring!Load, Ring!Has,
           Ring!Goto, Ring!Fail
  <2> QED BY <1>0, <2>1, <2>2, <2>3, MarksSame
<1>3. ASSUME NEW t \in Threads,
             Ring!StartStore(t) \/ Ring!StartLoad(t) \/ Ring!StoreAtomic(t)
             \/ Ring!LoadAtomic(t) \/ Ring!EndStore(t) \/ Ring!EndLoad(t)
      PROVE  RingInv'
  <2>1. RingTypes'
    BY <1>0, <1>3
       DEF RingTypes, Ring!StartStore, Ring!StartLoad, Ring!StoreAtomic,
           Ring!LoadAtomic, Ring!EndStore, Ring!EndLoad, Ring!Goto, Ring!Mark
  <2>2. PICK k \in Slots : k = SlotOf(t)
    BY <1>0
  <2>3. \A u \in Threads : u # t => Sets(u)' = Sets(u) /\ SlotOf(u)' = SlotOf(u)
    BY <1>0, <1>3
       DEF RingTypes, Sets, SlotOf, Ring!StartStore, Ring!StartLoad,
           Ring!StoreAtomic, Ring!LoadAtomic, Ring!EndStore, Ring!EndLoad,
           Ring!Goto
  <2>4. \A s \in Slots : s # k => state'[s] = state[s]
    BY <1>0, <1>3, <2>2
       DEF RingTypes, SlotOf, Ring!StartStore, Ring!StartLoad, Ring!StoreAtomic,
           Ring!LoadAtomic, Ring!EndStore, Ring!EndLoad, Ring!Mark
  <2>5. /\ Sets(t) = "none" => state[k] \notin {"STORING", "LOADING"}
        /\ Sets(t)' # "none" => SlotOf(t)' = k /\ state'[k] = Sets(t)'
        /\ Sets(t)' = "none" => state'[k] \notin {"STORING", "LOADING"}
    BY <1>0, <1>3, <2>2
       DEF RingTypes, Sets, SlotOf, Ring!StartStore, Ring!StartLoad,
           Ring!StoreAtomic, Ring!LoadAtomic, Ring!EndStore, Ring!EndLoad,
           Ring!Goto, Ring!Mark
  <2>6. RingMarks'
    BY <1>0, <2>2, <2>3, <2>4, <2>5, MarksKept
  <2> QED BY <2>1, <2>6
<1> QED BY <1>1, <1>2, <1>3 DEF Ring!Next, Ring!Resume

\* The library's Cardinality in the instance.
LEMMA RingCardinality == \A s : Ring!Cardinality(s) = Cardinality(s)
BY DEF Ring!Cardinality, Cardinality

\* StartStore to EndLoad (do_push_any and do_pop_any): for any number of threads
\* and slots, pushes and pops of several laps that wait for one slot never have
\* two threads at the element there.
THEOREM RingOneAtASlot ==
  ASSUME Ring!Parameters PROVE Ring!Spec => []Ring!OneAtASlot
<1>1. Ring!Init => RingInv
  BY RingInit
<1>2. RingInv /\ [Ring!Next]_Ring!vars => RingInv'
  BY RingStep
<1>3. RingInv => Ring!OneAtASlot
  <2> SUFFICES ASSUME RingInv PROVE Ring!OneAtASlot
    OBVIOUS
  <2>1. ASSUME NEW s \in Slots, NEW places, NEW m \in {"STORING", "LOADING"},
               \A t \in Threads : pc[t] \in places <=> Sets(t) = m
        PROVE  Cardinality(Ring!At(places, s)) = IF state[s] = m THEN 1 ELSE 0
    <3>1. CASE state[s] = m
      <4>1. PICK t \in Threads : Sets(t) = m /\ SlotOf(t) = s
        BY <3>1 DEF RingInv, RingMarks
      <4>2. Ring!At(places, s) = {t}
        BY <2>1, <4>1 DEF RingInv, RingMarks, Ring!At, SlotOf
      <4> QED BY <3>1, <4>2, FS_Singleton
    <3>2. CASE state[s] # m
      <4>1. Ring!At(places, s) = {}
        BY <2>1, <3>2 DEF RingInv, RingMarks, Ring!At, SlotOf
      <4> QED BY <3>2, <4>1, FS_EmptySet
    <3> QED BY <3>1, <3>2
  <2>2. /\ \A t \in Threads : pc[t] \in {"store", "stored"} <=> Sets(t) = "STORING"
        /\ \A t \in Threads : pc[t] \in {"load", "loaded"} <=> Sets(t) = "LOADING"
    BY DEF Sets
  <2> QED BY <2>1, <2>2, RingCardinality DEF Ring!OneAtASlot, Ring!Slots, Slots
<1> QED BY <1>1, <1>2, <1>3, PTL DEF Ring!Spec

-----------------------------------------------------------------------------
(***************************************************************************)
(* What the ring holds.                                                    *)
(***************************************************************************)

\* The counters differ, but for turns, by the elements that were pushed and not
\* popped.
Owed ==
  Cardinality(Ring!Stored) + Cardinality(Ring!Pushing)
    - Cardinality(Ring!Popping)
RingCount == \E q \in Int : head - tail = Owed + q * IndexMod

\* The sizes are numbers.
LEMMA OwedParts ==
  ASSUME Ring!Parameters
  PROVE  /\ IsFiniteSet(Threads) /\ IsFiniteSet(Slots)
         /\ Ring!Stored \in SUBSET Slots
         /\ Ring!Pushing \in SUBSET Threads /\ Ring!Popping \in SUBSET Threads
         /\ Cardinality(Ring!Stored) \in 0 .. RingSize
         /\ Cardinality(Ring!Pushing) \in 0 .. Cardinality(Threads)
         /\ Cardinality(Ring!Popping) \in 0 .. Cardinality(Threads)
         /\ Cardinality(Threads) \in Nat
<1>1. IsFiniteSet(Threads) /\ RingSize \in Nat \ {0}
  BY DEF Ring!Parameters, Ring!IsFiniteSet, IsFiniteSet
<1>2. IsFiniteSet(Slots) /\ Cardinality(Slots) = RingSize
  <2>1. RingSize - 1 \in Int /\ 0 \in Int
    BY <1>1
  <2> QED BY <1>1, <2>1, FS_Interval DEF Slots
<1>3. /\ Ring!Stored \in SUBSET Slots
      /\ Ring!Pushing \in SUBSET Threads /\ Ring!Popping \in SUBSET Threads
  BY DEF Ring!Stored, Ring!Slots, Slots, Ring!Pushing, Ring!Popping
<1>4. Cardinality(Threads) \in Nat
  BY <1>1, FS_CardinalityType
<1>5. /\ Cardinality(Ring!Stored) \in Nat
      /\ Cardinality(Ring!Stored) <= Cardinality(Slots)
  BY <1>2, <1>3, SubsetSizes
<1>6. /\ Cardinality(Ring!Pushing) \in Nat
      /\ Cardinality(Ring!Pushing) <= Cardinality(Threads)
  BY <1>1, <1>3, SubsetSizes
<1>7. /\ Cardinality(Ring!Popping) \in Nat
      /\ Cardinality(Ring!Popping) <= Cardinality(Threads)
  BY <1>1, <1>3, SubsetSizes
<1>8. /\ Cardinality(Ring!Stored) \in 0 .. RingSize
      /\ Cardinality(Ring!Pushing) \in 0 .. Cardinality(Threads)
      /\ Cardinality(Ring!Popping) \in 0 .. Cardinality(Threads)
  BY <1>1, <1>2, <1>4, <1>5, <1>6, <1>7
<1> QED BY <1>1, <1>2, <1>3, <1>4, <1>8

\* And so they are after a step.
LEMMA OwedPartsNext ==
  ASSUME Ring!Parameters
  PROVE  /\ Cardinality(Ring!Stored') \in Nat
         /\ Cardinality(Ring!Pushing') \in Nat
         /\ Cardinality(Ring!Popping') \in Nat
<1>1. /\ Ring!Stored' \in SUBSET Slots
      /\ Ring!Pushing' \in SUBSET Threads /\ Ring!Popping' \in SUBSET Threads
  BY DEF Ring!Stored, Ring!Slots, Slots, Ring!Pushing, Ring!Popping
<1> QED BY <1>1, OwedParts, SubsetSizes

\* The sets after a step.
LEMMA RingSets ==
  ASSUME Ring!Parameters, RingInv, NEW t \in Threads,
         Ring!Call(t) \/ Ring!Resume(t)
  PROVE  \/ /\ UNCHANGED <<Ring!Stored, Ring!Pushing, Ring!Popping>>
            /\ UNCHANGED <<head, tail>>
         \/ /\ head' = Ring!Next1(head) /\ tail' = tail
            /\ t \notin Ring!Pushing /\ Ring!Pushing' = Ring!Pushing \cup {t}
            /\ UNCHANGED <<Ring!Stored, Ring!Popping>>
         \/ /\ tail' = Ring!Next1(tail) /\ head' = head
            /\ t \notin Ring!Popping /\ Ring!Popping' = Ring!Popping \cup {t}
            /\ UNCHANGED <<Ring!Stored, Ring!Pushing>>
         \/ /\ UNCHANGED <<head, tail, Ring!Popping>>
            /\ t \in Ring!Pushing /\ Ring!Pushing' = Ring!Pushing \ {t}
            /\ SlotOf(t) \notin Ring!Stored
            /\ Ring!Stored' = Ring!Stored \cup {SlotOf(t)}
         \/ /\ UNCHANGED <<head, tail, Ring!Pushing>>
            /\ t \in Ring!Popping /\ Ring!Popping' = Ring!Popping \ {t}
            /\ SlotOf(t) \in Ring!Stored
            /\ Ring!Stored' = Ring!Stored \ {SlotOf(t)}
<1> USE DEF RingInv
<1>1. /\ RingTypes /\ RingMarks /\ SlotOf(t) \in Slots
      /\ Ring!Slots = Slots
  BY RingFacts DEF RingTypes, SlotOf, Ring!Slots, Slots
<1>2. CASE \/ Ring!TryPush(t) \/ Ring!TryPop(t) \/ Ring!IsFull(t)
           \/ Ring!IsEmpty(t) \/ Ring!HasRoom(t) \/ Ring!HasSome(t)
           \/ Ring!Store(t) \/ Ring!Load(t) \/ Ring!Has(t)
  <2>1. UNCHANGED <<head, tail, state>>
    BY <1>2
       DEF Ring!TryPush, Ring!TryPop, Ring!IsFull, Ring!IsEmpty, Ring!HasRoom,
           Ring!HasSome, Ring!Store, Ring!Load, Ring!Has, Ring!Fail,
           Ring!ringVars
  <2>2. \A u \in Threads :
          /\ pc'[u] \in {"push", "store", "stored"}
               <=> pc[u] \in {"push", "store", "stored"}
          /\ pc'[u] = "pop" <=> pc[u] = "pop"
    BY <1>1, <1>2
       DEF RingTypes, Ring!TryPush, Ring!TryPop, Ring!IsFull, Ring!IsEmpty,
           Ring!HasRoom, Ring!HasSome, Ring!Store, Ring!Load, Ring!Has,
           Ring!Fail, Ring!Goto
  <2> QED BY <2>1, <2>2 DEF Ring!Stored, Ring!Pushing, Ring!Popping
<1>3. CASE Ring!Push(t) \/ Ring!DrawHead(t)
  <2>1. state' = state /\ tail' = tail
    BY <1>3 DEF Ring!Push, Ring!DrawHead
  <2>2. CASE head' = Ring!Next1(head) /\ pc' = [pc EXCEPT ![t] = "push"]
             /\ pc[t] \in {"idle", "drawHead"}
    BY <1>1, <2>1, <2>2 DEF RingTypes, Ring!Stored, Ring!Pushing, Ring!Popping
  <2>3. CASE head' = head /\ pc' = [pc EXCEPT ![t] = "room"]
             /\ pc[t] \in {"idle", "drawHead"}
    BY <1>1, <2>1, <2>3 DEF RingTypes, Ring!Stored, Ring!Pushing, Ring!Popping
  <2> QED BY <1>3, <2>2, <2>3 DEF Ring!Push, Ring!DrawHead, Ring!Goto
<1>4. CASE Ring!Pop(t) \/ Ring!DrawTail(t)
  <2>1. state' = state /\ head' = head
    BY <1>4 DEF Ring!Pop, Ring!DrawTail
  <2>2. CASE tail' = Ring!Next1(tail) /\ pc' = [pc EXCEPT ![t] = "pop"]
             /\ pc[t] \in {"idle", "drawTail"}
    BY <1>1, <2>1, <2>2 DEF RingTypes, Ring!Stored, Ring!Pushing, Ring!Popping
  <2>3. CASE tail' = tail /\ pc' = [pc EXCEPT ![t] = "some"]
             /\ pc[t] \in {"idle", "drawTail"}
    BY <1>1, <2>1, <2>3 DEF RingTypes, Ring!Stored, Ring!Pushing, Ring!Popping
  <2> QED BY <1>4, <2>2, <2>3 DEF Ring!Pop, Ring!DrawTail, Ring!Goto
<1>5. CASE Ring!StartStore(t) \/ Ring!EndLoad(t)
  <2>1. PICK k \in Slots : k = SlotOf(t)
    BY <1>1
  <2>2. /\ UNCHANGED <<head, tail>>
        /\ state[k] \in {"EMPTY", "LOADING"}
        /\ \E m \in {"EMPTY", "STORING"} : state' = [state EXCEPT ![k] = m]
        /\ \/ pc[t] = "push" /\ pc' = [pc EXCEPT ![t] = "store"]
           \/ pc[t] = "loaded" /\ pc' = [pc EXCEPT ![t] = "idle"]
    BY <1>1, <1>5, <2>1
       DEF RingMarks, Sets, SlotOf, Ring!StartStore, Ring!EndLoad, Ring!Mark,
           Ring!Goto
  <2> QED BY <1>1, <2>2
          DEF RingTypes, Ring!Stored, Ring!Pushing, Ring!Popping
<1>6. CASE Ring!EndStore(t) \/ Ring!StoreAtomic(t)
  <2>1. PICK k \in Slots : k = SlotOf(t)
    BY <1>1
  <2>2. /\ UNCHANGED <<head, tail>> /\ state[k] \in {"EMPTY", "STORING"}
        /\ state' = [state EXCEPT ![k] = "STORED"]
        /\ pc[t] \in {"push", "stored"} /\ pc' = [pc EXCEPT ![t] = "idle"]
    BY <1>1, <1>6, <2>1
       DEF RingMarks, Sets, SlotOf, Ring!EndStore, Ring!StoreAtomic, Ring!Mark,
           Ring!Goto
  <2> QED BY <1>1, <2>1, <2>2
          DEF RingTypes, Ring!Stored, Ring!Pushing, Ring!Popping
<1>7. CASE Ring!StartLoad(t) \/ Ring!LoadAtomic(t)
  <2>1. PICK k \in Slots : k = SlotOf(t)
    BY <1>1
  <2>2. /\ UNCHANGED <<head, tail>> /\ state[k] = "STORED"
        /\ \E m \in {"EMPTY", "LOADING"} : state' = [state EXCEPT ![k] = m]
        /\ pc[t] = "pop"
        /\ \E p \in {"load", "has"} : pc' = [pc EXCEPT ![t] = p]
    BY <1>1, <1>7, <2>1
       DEF SlotOf, Ring!StartLoad, Ring!LoadAtomic, Ring!Mark, Ring!Goto
  <2> QED BY <1>1, <2>1, <2>2
          DEF RingTypes, Ring!Stored, Ring!Pushing, Ring!Popping
<1> QED BY <1>2, <1>3, <1>4, <1>5, <1>6, <1>7 DEF Ring!Call, Ring!Resume

\* An index is drawn for every element owed, and every element owed was drawn.
LEMMA CountStep ==
  ASSUME Ring!Parameters, RingInv, RingCount, [Ring!Next]_Ring!vars
  PROVE  RingCount'
<1>1. PICK q \in Int : head - tail = Owed + q * IndexMod
  BY DEF RingCount
<1>2. /\ IndexMod \in Nat \ {0} /\ head \in 0 .. IndexMod - 1
      /\ tail \in 0 .. IndexMod - 1
  BY DEF Ring!Parameters, RingInv, RingTypes, Numbers
<1>3. \A i \in 0 .. IndexMod - 1 :
        Ring!Next1(i) = i + 1 \/ Ring!Next1(i) = i + 1 - IndexMod
  BY <1>2, ModNext DEF Ring!Next1
<1> DEFINE s == Cardinality(Ring!Stored)
           p == Cardinality(Ring!Pushing)
           r == Cardinality(Ring!Popping)
<1>4. s \in Int /\ p \in Int /\ r \in Int
  BY OwedParts
<1>8. /\ head' \in Int /\ tail' \in Int
      /\ s' \in Int /\ p' \in Int /\ r' \in Int
  <2>1. RingInv'
    BY RingStep
  <2>2. head' \in Numbers /\ tail' \in Numbers
    BY <2>1 DEF RingInv, RingTypes
  <2>3. s' \in Int /\ p' \in Int /\ r' \in Int
    BY OwedPartsNext
  <2> QED BY <1>2, <2>2, <2>3 DEF Numbers
<1>5. Owed = s + p - r /\ Owed' = s' + p' - r'
  BY DEF Owed
<1>6. CASE UNCHANGED Ring!vars
  <2>1. Owed' = Owed /\ head' = head /\ tail' = tail
    BY <1>6
       DEF Owed, Ring!vars, Ring!ringVars, Ring!Stored, Ring!Slots,
           Ring!Pushing, Ring!Popping
  <2> QED BY <1>1, <2>1 DEF RingCount
<1>7. ASSUME NEW t \in Threads, Ring!Call(t) \/ Ring!Resume(t)
      PROVE  RingCount'
  <2>1. CASE head' - tail' = head - tail + (Owed' - Owed)
             \/ head' - tail' = head - tail + (Owed' - Owed) - IndexMod
             \/ head' - tail' = head - tail + (Owed' - Owed) + IndexMod
    <3>1. Owed \in Int /\ Owed' \in Int /\ head' \in Int /\ tail' \in Int
      BY <1>4, <1>5, <1>8
    <3>2. /\ q * IndexMod \in Int /\ q - 1 \in Int /\ q + 1 \in Int
          /\ (q - 1) * IndexMod = q * IndexMod - IndexMod
          /\ (q + 1) * IndexMod = q * IndexMod + IndexMod
      BY <1>2
    <3>3. \E w \in {q, q - 1, q + 1} : head' - tail' = Owed' + w * IndexMod
      BY <1>1, <1>2, <2>1, <3>1, <3>2
    <3> QED BY <3>2, <3>3 DEF RingCount
  <2>2. CASE UNCHANGED <<Ring!Stored, Ring!Pushing, Ring!Popping, head, tail>>
    <3>1. s' = s /\ p' = p /\ r' = r
      BY <2>2
    <3> HIDE DEF s, p, r
    <3> QED BY <1>2, <1>4, <1>5, <2>1, <2>2, <3>1
  <2>3. CASE /\ head' = Ring!Next1(head) /\ tail' = tail
             /\ t \notin Ring!Pushing /\ Ring!Pushing' = Ring!Pushing \cup {t}
             /\ UNCHANGED <<Ring!Stored, Ring!Popping>>
    <3>1. p' = p + 1
      BY <2>3, OwedParts, OneMore
    <3>2. s' = s /\ r' = r
      BY <2>3
    <3> HIDE DEF s, p, r
    <3> QED BY <1>2, <1>3, <1>4, <1>5, <2>1, <2>3, <3>1, <3>2
  <2>4. CASE /\ tail' = Ring!Next1(tail) /\ head' = head
             /\ t \notin Ring!Popping /\ Ring!Popping' = Ring!Popping \cup {t}
             /\ UNCHANGED <<Ring!Stored, Ring!Pushing>>
    <3>1. r' = r + 1
      BY <2>4, OwedParts, OneMore
    <3>2. s' = s /\ p' = p
      BY <2>4
    <3> HIDE DEF s, p, r
    <3> QED BY <1>2, <1>3, <1>4, <1>5, <2>1, <2>4, <3>1, <3>2
  <2>5. CASE /\ UNCHANGED <<head, tail, Ring!Popping>>
             /\ t \in Ring!Pushing /\ Ring!Pushing' = Ring!Pushing \ {t}
             /\ SlotOf(t) \notin Ring!Stored
             /\ Ring!Stored' = Ring!Stored \cup {SlotOf(t)}
    <3>1. p' = p - 1
      BY <2>5, OwedParts, OneLess
    <3>2. s' = s + 1
      BY <2>5, OwedParts, OneMore
    <3>3. r' = r
      BY <2>5
    <3> HIDE DEF s, p, r
    <3> QED BY <1>2, <1>4, <1>5, <2>1, <2>5, <3>1, <3>2, <3>3
  <2>6. CASE /\ UNCHANGED <<head, tail, Ring!Pushing>>
             /\ t \in Ring!Popping /\ Ring!Popping' = Ring!Popping \ {t}
             /\ SlotOf(t) \in Ring!Stored
             /\ Ring!Stored' = Ring!Stored \ {SlotOf(t)}
    <3>1. r' = r - 1
      BY <2>6, OwedParts, OneLess
    <3>2. s' = s - 1
      BY <2>6, OwedParts, OneLess
    <3>3. p' = p
      BY <2>6
    <3> HIDE DEF s, p, r
    <3> QED BY <1>2, <1>4, <1>5, <2>1, <2>6, <3>1, <3>2, <3>3
  <2> QED BY <1>7, <2>2, <2>3, <2>4, <2>5, <2>6, RingSets
<1> QED BY <1>6, <1>7 DEF Ring!Next

\* The ring is empty at first.
LEMMA CountInit == ASSUME Ring!Parameters, Ring!Init PROVE RingCount
<1>1. Ring!Stored = {} /\ Ring!Pushing = {} /\ Ring!Popping = {}
  BY DEF Ring!Init, Ring!Stored, Ring!Pushing, Ring!Popping, Ring!Slots
<1>2. Owed = 0
  BY <1>1, FS_EmptySet DEF Owed
<1>3. head - tail = 0 + 0 * IndexMod
  BY DEF Ring!Init, Ring!Parameters
<1> QED BY <1>2, <1>3 DEF RingCount

\* Two counters less than half their range apart.
LEMMA ApartIs ==
  ASSUME NEW M \in Nat \ {0}, NEW i \in 0 .. M - 1, NEW j \in 0 .. M - 1,
         NEW c \in Int, NEW q \in Int, i - j = c + q * M,
         -c < M \div 2, c < M \div 2
  PROVE  c = IF (i - j) % M < M \div 2 THEN (i - j) % M ELSE ((i - j) % M) - M
<1>1. (i - j) % M = IF j <= i THEN i - j ELSE i - j + M
  BY ModDifference
<1>2. q >= 2 => q * M >= 2 * M
  OBVIOUS
<1>3. q <= -2 => q * M <= -2 * M
  OBVIOUS
<1>4. q * M \in Int /\ 2 * (M \div 2) <= M /\ M <= 2 * (M \div 2) + 1
      /\ M \div 2 \in Nat
  OBVIOUS
<1>5. q \in {-1, 0, 1}
  BY <1>2, <1>3, <1>4
<1> QED BY <1>1, <1>4, <1>5

\* push to pop, try_push and try_pop: for any number of threads and slots, and
\* however often the counters wrap, the elements in the ring and those that are
\* being pushed are the difference of the counters, less the pops that wait.
THEOREM RingElementsCounted ==
  ASSUME Ring!Parameters, Ring!CountersWide
  PROVE  Ring!Spec => []Ring!ElementsCounted
<1>1. Ring!Init => RingInv /\ RingCount
  BY RingInit, CountInit
<1>2. RingInv /\ RingCount /\ [Ring!Next]_Ring!vars => RingInv' /\ RingCount'
  BY RingStep, CountStep
<1>3. RingInv /\ RingCount => Ring!ElementsCounted
  <2> SUFFICES ASSUME RingInv, RingCount PROVE Ring!ElementsCounted
    OBVIOUS
  <2>1. PICK q \in Int : head - tail = Owed + q * IndexMod
    BY DEF RingCount
  <2>2. /\ IndexMod \in Nat \ {0} /\ head \in 0 .. IndexMod - 1
        /\ tail \in 0 .. IndexMod - 1 /\ RingSize \in Nat
    BY DEF Ring!Parameters, RingInv, RingTypes, Numbers
  <2>3. Owed \in Int /\ -Owed < IndexMod \div 2 /\ Owed < IndexMod \div 2
    BY <2>2, OwedParts, RingCardinality DEF Owed, Ring!CountersWide
  <2>4. Ring!Apart(head, tail) = Owed
    BY <2>1, <2>2, <2>3, ApartIs DEF Ring!Apart
  <2> QED BY <2>4, RingCardinality DEF Ring!ElementsCounted, Owed
<1> QED BY <1>1, <1>2, <1>3, PTL DEF Ring!Spec

-----------------------------------------------------------------------------
(***************************************************************************)
(* Whose an element is.  Within a turn an index names one element, and it  *)
(* is in one place until it is gone: not drawn yet ("new"), with the       *)
(* thread that pushes it ("push"), in its slot ("slot"), or with the       *)
(* thread that has taken it off an atomic slot ("has").                    *)
(***************************************************************************)
TurnOf(i) == (i - FirstIndex) % IndexMod
PlaceKinds == {"new", "push", "slot", "has"}

RingLocals ==
  /\ element \in [Slots -> Numbers \cup {Nil}]
  /\ taken \in [Threads -> Numbers \cup {Nil}]
  /\ TurnOf(head) <= TurnOf(LastIndex)
  /\ \A t \in Threads :
       /\ pc[t] = "stored" => element[SlotOf(t)] = seen[t]
       /\ pc[t] = "loaded" => taken[t] = element[SlotOf(t)]
       /\ taken[t] # Nil => pc[t] \in {"loaded", "has"}

PlacedAt(place, who) ==
  /\ \A t \in Threads :
       /\ pc[t] \in {"push", "store", "stored"} =>
            place[seen[t]] = "push" /\ who[seen[t]] = t
       /\ pc[t] = "has" =>
            /\ taken[t] \in Numbers
            /\ place[taken[t]] = "has" /\ who[taken[t]] = t
  /\ \A s \in Slots : state[s] \in {"STORED", "LOADING"} =>
       /\ element[s] \in Numbers
       /\ place[element[s]] = "slot" /\ who[element[s]] = s
  /\ \A i \in Numbers : TurnOf(i) >= TurnOf(head) => place[i] = "new"

RingPlaces ==
  \E place \in [Numbers -> PlaceKinds], who \in [Numbers -> Threads \cup Slots] :
    PlacedAt(place, who)

TakenInv == RingInv /\ RingLocals /\ RingPlaces

\* Before the last index the counters go on by one.
LEMMA TurnNext ==
  ASSUME Ring!Parameters, Ring!OneTurn, NEW h \in Numbers,
         TurnOf(h) <= TurnOf(LastIndex), h # LastIndex
  PROVE  TurnOf(Ring!Next1(h)) = TurnOf(h) + 1 /\ TurnOf(h) + 1 <= TurnOf(LastIndex)
<1>1. /\ IndexMod \in Nat \ {0} /\ h \in 0 .. IndexMod - 1
      /\ FirstIndex \in 0 .. IndexMod - 1 /\ LastIndex \in 0 .. IndexMod - 1
  BY DEF Ring!Parameters, Ring!OneTurn, Numbers
<1>2. Ring!Next1(h) = IF h + 1 = IndexMod THEN 0 ELSE h + 1
  BY <1>1, ModNext DEF Ring!Next1
<1>3. Ring!Next1(h) \in 0 .. IndexMod - 1
  BY <1>1, <1>2
<1>4. \A i \in 0 .. IndexMod - 1 :
        TurnOf(i) = IF FirstIndex <= i THEN i - FirstIndex
                  ELSE i - FirstIndex + IndexMod
  BY <1>1, ModDifference DEF TurnOf
<1> QED BY <1>1, <1>2, <1>3, <1>4

\* No two indices are at the same place of a turn.
LEMMA TurnApart ==
  ASSUME Ring!Parameters, NEW i \in Numbers, NEW j \in Numbers,
         TurnOf(i) = TurnOf(j)
  PROVE  i = j /\ TurnOf(i) \in Nat
<1>1. /\ IndexMod \in Nat \ {0} /\ FirstIndex \in 0 .. IndexMod - 1
      /\ i \in 0 .. IndexMod - 1 /\ j \in 0 .. IndexMod - 1
  BY DEF Ring!Parameters, Numbers
<1>2. \A k \in 0 .. IndexMod - 1 :
        TurnOf(k) = IF FirstIndex <= k THEN k - FirstIndex
                  ELSE k - FirstIndex + IndexMod
  BY <1>1, ModDifference DEF TurnOf
<1> QED BY <1>1, <1>2

\* At first every index is to be drawn.
LEMMA TakenInit ==
  ASSUME Ring!Parameters, Ring!OneTurn, Ring!Init PROVE TakenInv
<1>1. RingInv
  BY RingInit
<1>2. head \in Numbers /\ LastIndex \in Numbers /\ FirstIndex \in Numbers
  BY RingFacts DEF Ring!Init, Ring!OneTurn, Numbers
<1>3. TurnOf(head) <= TurnOf(LastIndex)
  <2>1. TurnOf(head) = 0
    BY <1>2, ModSmall DEF TurnOf, Ring!Init, Ring!Parameters, Numbers
  <2>2. TurnOf(LastIndex) \in Nat
    BY <1>2, TurnApart
  <2> QED BY <2>1, <2>2
<1>4. RingLocals
  BY <1>3 DEF RingLocals, Ring!Init, Ring!Slots, Slots
<1>5. PlacedAt([i \in Numbers |-> "new"], [i \in Numbers |-> 0])
  BY DEF PlacedAt, Ring!Init, Ring!Slots, Slots
<1>6. RingPlaces
  <2>1. 0 \in Slots
    BY DEF Ring!Parameters, Slots
  <2>2. /\ [i \in Numbers |-> "new"] \in [Numbers -> PlaceKinds]
        /\ [i \in Numbers |-> 0] \in [Numbers -> Threads \cup Slots]
    BY <2>1 DEF PlaceKinds
  <2> QED BY <1>5, <2>2 DEF RingPlaces
<1> QED BY <1>1, <1>4, <1>6 DEF TakenInv

\* Marks are of use to who is at a slot.
LEMMA AloneAt ==
  ASSUME Ring!Parameters, RingInv
  PROVE  /\ \A t \in Threads :
              /\ SlotOf(t) \in Slots /\ seen[t] \in Numbers
              /\ pc[t] \in {"store", "stored"} => state[SlotOf(t)] = "STORING"
              /\ pc[t] \in {"load", "loaded"} => state[SlotOf(t)] = "LOADING"
         /\ \A t, u \in Threads :
              /\ {pc[t], pc[u]} \subseteq {"store", "stored", "load", "loaded"}
              /\ SlotOf(t) = SlotOf(u)
              => t = u
<1>1. \A t \in Threads : SlotOf(t) \in Slots /\ seen[t] \in Numbers
  BY RingFacts DEF RingInv, RingTypes, SlotOf
<1> QED BY <1>1 DEF RingInv, RingMarks, Sets

\* What a step leaves of the elements.
LEMMA LocalsStep ==
  ASSUME Ring!Parameters, Ring!OneTurn, TakenInv, NEW t \in Threads,
         Ring!Call(t) \/ Ring!Resume(t)
  PROVE  RingLocals'
<1> USE DEF TakenInv
<1>1. /\ RingTypes /\ RingLocals /\ seen[t] \in Numbers /\ SlotOf(t) \in Slots
      /\ head \in Numbers
  BY AloneAt DEF RingInv, RingTypes
<1>2. /\ element' \in [Slots -> Numbers \cup {Nil}]
      /\ taken' \in [Threads -> Numbers \cup {Nil}]
  <2>1. \/ element' = element
        \/ element' = [element EXCEPT ![SlotOf(t)] = seen[t]]
    BY DEF SlotOf, Ring!Call, Ring!Push, Ring!Pop, Ring!TryPush, Ring!TryPop,
           Ring!Resume, Ring!IsFull, Ring!IsEmpty, Ring!HasRoom, Ring!HasSome,
           Ring!DrawHead, Ring!DrawTail, Ring!StartStore, Ring!Store,
           Ring!EndStore, Ring!StartLoad, Ring!Load, Ring!EndLoad,
           Ring!StoreAtomic, Ring!LoadAtomic, Ring!Has, Ring!Fail, Ring!ringVars
  <2>2. \/ taken' = taken
        \/ taken' = [taken EXCEPT ![t] = element[SlotOf(t)]]
        \/ taken' = [taken EXCEPT ![t] = Nil]
    BY DEF SlotOf, Ring!Call, Ring!Push, Ring!Pop, Ring!TryPush, Ring!TryPop,
           Ring!Resume, Ring!IsFull, Ring!IsEmpty, Ring!HasRoom, Ring!HasSome,
           Ring!DrawHead, Ring!DrawTail, Ring!StartStore, Ring!Store,
           Ring!EndStore, Ring!StartLoad, Ring!Load, Ring!EndLoad,
           Ring!StoreAtomic, Ring!LoadAtomic, Ring!Has, Ring!Fail
  <2> QED BY <1>1, <2>1, <2>2 DEF RingLocals
<1>3. TurnOf(head') <= TurnOf(LastIndex)
  <2>1. head' = head \/ (head' = Ring!Next1(head) /\ head # LastIndex)
    BY DEF Ring!Call, Ring!Push, Ring!Pop, Ring!TryPush, Ring!TryPop,
           Ring!Resume, Ring!IsFull, Ring!IsEmpty, Ring!HasRoom, Ring!HasSome,
           Ring!DrawHead, Ring!DrawTail, Ring!StartStore, Ring!Store,
           Ring!EndStore, Ring!StartLoad, Ring!Load, Ring!EndLoad,
           Ring!StoreAtomic, Ring!LoadAtomic, Ring!Has, Ring!Fail, Ring!ringVars
  <2> QED BY <1>1, <2>1, TurnNext DEF RingLocals
<1>4. ASSUME NEW u \in Threads
      PROVE  /\ pc'[u] = "stored" => element'[SlotOf(u)'] = seen'[u]
             /\ pc'[u] = "loaded" => taken'[u] = element'[SlotOf(u)']
             /\ taken'[u] # Nil => pc'[u] \in {"loaded", "has"}
  <2>1. CASE \/ Ring!Call(t) \/ Ring!IsFull(t) \/ Ring!IsEmpty(t)
             \/ Ring!HasRoom(t) \/ Ring!HasSome(t) \/ Ring!DrawHead(t)
             \/ Ring!DrawTail(t)
    BY <1>1, <2>1
       DEF RingLocals, RingTypes, SlotOf, Ring!Call, Ring!Push, Ring!Pop,
           Ring!TryPush, Ring!TryPop, Ring!IsFull, Ring!IsEmpty, Ring!HasRoom,
           Ring!HasSome, Ring!DrawHead, Ring!DrawTail, Ring!Fail, Ring!Goto,
           Ring!ringVars
  <2>2. CASE Ring!StartStore(t) \/ Ring!EndStore(t) \/ Ring!StartLoad(t)
             \/ Ring!EndLoad(t) \/ Ring!Has(t)
    BY <1>1, <2>2
       DEF RingLocals, RingTypes, SlotOf, Ring!StartStore, Ring!EndStore,
           Ring!StartLoad, Ring!EndLoad, Ring!Has, Ring!Goto, Ring!ringVars
  <2>3. CASE Ring!Load(t) \/ Ring!LoadAtomic(t)
    BY <1>1, <2>3
       DEF RingLocals, RingTypes, SlotOf, Ring!Load, Ring!LoadAtomic, Ring!Goto,
           Ring!ringVars
  <2>4. CASE Ring!Store(t) \/ Ring!StoreAtomic(t)
    <3>1. PICK k \in Slots : k = SlotOf(t)
      BY <1>1
    <3>2. element' = [element EXCEPT ![k] = seen[t]] /\ taken' = taken
      BY <2>4, <3>1 DEF SlotOf, Ring!Store, Ring!StoreAtomic
    <3>3. /\ \A w \in Threads \ {t} : pc'[w] = pc[w] /\ seen'[w] = seen[w]
          /\ pc[t] \in {"store", "push"}
          /\ \/ pc'[t] = "stored" /\ seen'[t] = seen[t]
             \/ pc'[t] = "idle"
      BY <1>1, <2>4 DEF RingTypes, Ring!Store, Ring!StoreAtomic, Ring!Goto
    <3>4. ASSUME NEW w \in Threads \ {t}, pc[w] \in {"stored", "loaded"}
          PROVE  SlotOf(w) # k
      <4>1. pc[t] = "store" => SlotOf(w) # SlotOf(t)
        BY <3>4, AloneAt
      <4>2. pc[t] = "push" => state[k] = "EMPTY"
        BY <2>4, <3>1 DEF Ring!Store, Ring!StoreAtomic, Ring!Mark, SlotOf
      <4>3. state[SlotOf(w)] # "EMPTY"
        BY <3>4, AloneAt
      <4> QED BY <3>1, <3>3, <4>1, <4>2, <4>3
    <3>5. CASE u = t
      BY <1>1, <3>1, <3>2, <3>3, <3>5 DEF RingLocals, SlotOf
    <3>6. CASE u # t
      <4>1. SlotOf(u)' = SlotOf(u) /\ SlotOf(u) \in Slots
        BY <3>3, <3>6, AloneAt DEF SlotOf
      <4> QED BY <1>1, <3>2, <3>3, <3>4, <3>6, <4>1 DEF RingLocals
    <3> QED BY <3>5, <3>6
  <2> QED BY <2>1, <2>2, <2>3, <2>4 DEF Ring!Resume
<1> QED BY <1>2, <1>3, <1>4 DEF RingLocals

\* An element goes from one place to the next, or nothing does.
LEMMA PlacesStep ==
  ASSUME Ring!Parameters, Ring!OneTurn, TakenInv, NEW t \in Threads,
         Ring!Call(t) \/ Ring!Resume(t)
  PROVE  RingPlaces'
<1> USE DEF TakenInv
<1>1. PICK place \in [Numbers -> PlaceKinds],
           who \in [Numbers -> Threads \cup Slots] : PlacedAt(place, who)
  BY DEF RingPlaces
<1>2. /\ RingTypes /\ RingLocals /\ head \in Numbers
      /\ \A u \in Threads : SlotOf(u) \in Slots /\ seen[u] \in Numbers
  BY AloneAt DEF RingInv, RingTypes
<1>3. PICK k \in Slots : k = SlotOf(t)
  BY <1>2
<1>4. ASSUME PlacedAt(place, who)' PROVE RingPlaces'
  BY <1>4 DEF RingPlaces
<1>5. ASSUME NEW x \in Numbers, NEW p \in PlaceKinds,
             NEW w \in Threads \cup Slots,
             PlacedAt([place EXCEPT ![x] = p], [who EXCEPT ![x] = w])'
      PROVE  RingPlaces'
  <2>1. /\ [place EXCEPT ![x] = p] \in [Numbers -> PlaceKinds]
        /\ [who EXCEPT ![x] = w] \in [Numbers -> Threads \cup Slots]
    OBVIOUS
  <2> QED BY <1>5, <2>1 DEF RingPlaces
<1>6. CASE \/ Ring!TryPush(t) \/ Ring!Pop(t) \/ Ring!TryPop(t)
           \/ Ring!IsFull(t) \/ Ring!IsEmpty(t) \/ Ring!HasRoom(t)
           \/ Ring!HasSome(t) \/ Ring!DrawTail(t)
           \/ (Ring!DrawHead(t) /\ head # seen[t])
  <2>1. PlacedAt(place, who)'
    BY <1>1, <1>2, <1>6
       DEF PlacedAt, RingTypes, Ring!Pop, Ring!TryPush, Ring!TryPop, Ring!IsFull,
           Ring!IsEmpty, Ring!HasRoom, Ring!HasSome, Ring!DrawHead,
           Ring!DrawTail, Ring!Fail, Ring!Goto, Ring!ringVars
  <2> QED BY <1>4, <2>1
<1>7. CASE Ring!Push(t) \/ (Ring!DrawHead(t) /\ head = seen[t])
  <2>1. /\ head' = Ring!Next1(head) /\ head # LastIndex
        /\ pc' = [pc EXCEPT ![t] = "push"] /\ pc[t] \in {"idle", "drawHead"}
        /\ seen'[t] = head /\ \A u \in Threads \ {t} : seen'[u] = seen[u]
        /\ UNCHANGED <<state, element, taken>>
    BY <1>2, <1>7 DEF RingTypes, Ring!Push, Ring!DrawHead, Ring!Goto
  <2>2. TurnOf(head') = TurnOf(head) + 1 /\ TurnOf(head) \in Nat
    BY <1>2, <2>1, TurnNext, TurnApart DEF RingLocals
  <2>3. \A i \in Numbers : TurnOf(i) \in Nat
    BY TurnApart
  <2>4. place[head] = "new"
    BY <1>1, <1>2, <2>2 DEF PlacedAt
  <2>a. PICK h \in Numbers : h = head
    BY <1>2
  <2> DEFINE P == [place EXCEPT ![h] = "push"]
             W == [who EXCEPT ![h] = t]
  <2>5. \A i \in Numbers : TurnOf(i) >= TurnOf(head') => P[i] = "new"
    BY <1>1, <1>2, <2>a, <2>2, <2>3 DEF PlacedAt
  <2>6. PlacedAt(P, W)'
    <3>1. \A u \in Threads :
            /\ pc'[u] \in {"push", "store", "stored"} =>
                 P[seen'[u]] = "push" /\ W[seen'[u]] = u
            /\ pc'[u] = "has" =>
                 /\ taken'[u] \in Numbers
                 /\ P[taken'[u]] = "has" /\ W[taken'[u]] = u
      BY <1>1, <1>2, <2>1, <2>a, <2>4 DEF PlacedAt, RingTypes
    <3>2. \A s \in Slots : state'[s] \in {"STORED", "LOADING"} =>
            /\ element'[s] \in Numbers
            /\ P[element'[s]] = "slot" /\ W[element'[s]] = s
      BY <1>1, <1>2, <2>1, <2>a, <2>4 DEF PlacedAt
    <3> QED BY <2>5, <3>1, <3>2 DEF PlacedAt
  <2> QED BY <1>2, <1>5, <2>6 DEF PlaceKinds
<1>8. CASE Ring!StartStore(t) \/ Ring!Store(t) \/ Ring!StartLoad(t)
           \/ Ring!Load(t) \/ Ring!EndLoad(t) \/ Ring!Has(t)
  <2>1. /\ UNCHANGED head
        /\ \A u \in Threads \ {t} :
             UNCHANGED <<pc[u], seen[u], taken[u]>>
        /\ pc'[t] \in {"push", "store", "stored"} =>
             pc[t] \in {"push", "store"} /\ seen'[t] = seen[t]
        /\ pc'[t] # "has"
    BY <1>2, <1>8
       DEF RingTypes, RingLocals, Ring!StartStore, Ring!Store, Ring!StartLoad,
           Ring!Load, Ring!EndLoad, Ring!Has, Ring!Goto, Ring!ringVars
  <2>2. ASSUME NEW s \in Slots, state'[s] \in {"STORED", "LOADING"}
        PROVE  state[s] \in {"STORED", "LOADING"} /\ element'[s] = element[s]
    <3>1. CASE Ring!Store(t)
      <4>1. state[k] = "STORING" /\ state' = state
            /\ element' = [element EXCEPT ![k] = seen[t]]
        BY <1>3, <3>1, AloneAt DEF Ring!Store, SlotOf
      <4> QED BY <1>2, <2>2, <4>1 DEF RingLocals
    <3>2. CASE ~Ring!Store(t)
      BY <1>2, <1>3, <1>8, <2>2, <3>2
         DEF RingTypes, SlotOf, Ring!StartStore, Ring!StartLoad, Ring!Load,
             Ring!EndLoad, Ring!Has, Ring!Mark, Ring!ringVars
    <3> QED BY <3>1, <3>2
  <2>3. PlacedAt(place, who)'
    BY <1>1, <2>1, <2>2 DEF PlacedAt
  <2> QED BY <1>4, <2>3
<1>9. CASE Ring!EndStore(t) \/ Ring!StoreAtomic(t)
  <2>1. PICK x \in Numbers : x = seen[t]
    BY <1>2
  <2> DEFINE P == [place EXCEPT ![x] = "slot"]
             W == [who EXCEPT ![x] = k]
  <2>2. /\ UNCHANGED <<head, taken>>
        /\ \A u \in Threads \ {t} : UNCHANGED <<pc[u], seen[u]>>
        /\ pc[t] \in {"push", "stored"} /\ pc'[t] = "idle"
        /\ state[k] \in {"EMPTY", "STORING"}
        /\ \A s \in Slots \ {k} : UNCHANGED <<state[s], element[s]>>
        /\ element'[k] = x
    <3>1. CASE Ring!EndStore(t)
      <4>1. state[k] = "STORING" /\ element[k] = x
        BY <1>2, <1>3, <2>1, <3>1, AloneAt DEF Ring!EndStore, RingLocals
      <4> QED BY <1>2, <1>3, <3>1, <4>1
              DEF RingTypes, SlotOf, Ring!EndStore, Ring!Goto
    <3>2. CASE Ring!StoreAtomic(t)
      BY <1>2, <1>3, <2>1, <3>2
         DEF RingTypes, RingLocals, SlotOf, Ring!StoreAtomic, Ring!Mark, Ring!Goto
    <3> QED BY <1>9, <3>1, <3>2
  <2>3. place[x] = "push" /\ who[x] = t
    BY <1>1, <2>1, <2>2 DEF PlacedAt
  <2>4. \A i \in Numbers : TurnOf(i) >= TurnOf(head') => P[i] = "new"
    BY <1>1, <2>2, <2>3 DEF PlacedAt
  <2>5. PlacedAt(P, W)'
    <3>1. \A u \in Threads :
            /\ pc'[u] \in {"push", "store", "stored"} =>
                 P[seen'[u]] = "push" /\ W[seen'[u]] = u
            /\ pc'[u] = "has" =>
                 /\ taken'[u] \in Numbers
                 /\ P[taken'[u]] = "has" /\ W[taken'[u]] = u
      BY <1>1, <1>2, <2>2, <2>3 DEF PlacedAt
    <3>2. \A s \in Slots : state'[s] \in {"STORED", "LOADING"} =>
            /\ element'[s] \in Numbers
            /\ P[element'[s]] = "slot" /\ W[element'[s]] = s
      BY <1>1, <2>2, <2>3 DEF PlacedAt
    <3> QED BY <2>4, <3>1, <3>2 DEF PlacedAt
  <2> QED BY <1>5, <2>5 DEF PlaceKinds
<1>10. CASE Ring!LoadAtomic(t)
  <2>1. /\ UNCHANGED <<head, element>> /\ state[k] = "STORED"
        /\ \A u \in Threads \ {t} : UNCHANGED <<pc[u], seen[u], taken[u]>>
        /\ pc'[t] = "has" /\ taken'[t] = element[k]
        /\ state'[k] = "EMPTY" /\ \A s \in Slots \ {k} : UNCHANGED state[s]
    BY <1>2, <1>3, <1>10
       DEF RingTypes, RingLocals, SlotOf, Ring!LoadAtomic, Ring!Mark, Ring!Goto
  <2>2. PICK x \in Numbers : x = element[k] /\ place[x] = "slot" /\ who[x] = k
    BY <1>1, <2>1 DEF PlacedAt
  <2> DEFINE P == [place EXCEPT ![x] = "has"]
             W == [who EXCEPT ![x] = t]
  <2>4. \A i \in Numbers : TurnOf(i) >= TurnOf(head') => P[i] = "new"
    BY <1>1, <2>1, <2>2 DEF PlacedAt
  <2>5. PlacedAt(P, W)'
    <3>1. \A u \in Threads :
            /\ pc'[u] \in {"push", "store", "stored"} =>
                 P[seen'[u]] = "push" /\ W[seen'[u]] = u
            /\ pc'[u] = "has" =>
                 /\ taken'[u] \in Numbers
                 /\ P[taken'[u]] = "has" /\ W[taken'[u]] = u
      BY <1>1, <1>2, <2>1, <2>2 DEF PlacedAt
    <3>2. \A s \in Slots : state'[s] \in {"STORED", "LOADING"} =>
            /\ element'[s] \in Numbers
            /\ P[element'[s]] = "slot" /\ W[element'[s]] = s
      BY <1>1, <2>1, <2>2 DEF PlacedAt
    <3> QED BY <2>4, <3>1, <3>2 DEF PlacedAt
  <2> QED BY <1>5, <2>5 DEF PlaceKinds
<1> QED BY <1>6, <1>7, <1>8, <1>9, <1>10, Zenon DEF Ring!Call, Ring!Resume

\* push to pop: within a turn of the counters no element is taken by two
\* threads, nor taken and left in the ring, for any number of threads and slots.
THEOREM RingTakenOnce ==
  ASSUME Ring!Parameters, Ring!OneTurn PROVE Ring!Spec => []Ring!TakenOnce
<1>1. Ring!Init => TakenInv
  BY TakenInit
<1>2. TakenInv /\ [Ring!Next]_Ring!vars => TakenInv'
  <2> SUFFICES ASSUME TakenInv, [Ring!Next]_Ring!vars PROVE TakenInv'
    OBVIOUS
  <2>1. RingInv'
    BY RingStep DEF TakenInv
  <2>2. CASE UNCHANGED Ring!vars
    <3>1. RingLocals' /\ RingPlaces'
      BY <2>2
         DEF TakenInv, RingLocals, RingPlaces, PlacedAt, SlotOf, Ring!Slot,
             Ring!vars, Ring!ringVars
    <3> QED BY <2>1, <3>1 DEF TakenInv
  <2>3. CASE Ring!Next
    BY <2>1, <2>3, LocalsStep, PlacesStep DEF Ring!Next, TakenInv
  <2> QED BY <2>2, <2>3
<1>3. TakenInv => Ring!TakenOnce
  <2> SUFFICES ASSUME TakenInv, NEW t \in Threads, taken[t] # Nil
               PROVE  /\ \A u \in Threads \ {t} : taken[u] # taken[t]
                      /\ \A s \in Ring!Stored : element[s] # taken[t]
    BY DEF Ring!TakenOnce
  <2>1. PICK place \in [Numbers -> PlaceKinds],
             who \in [Numbers -> Threads \cup Slots] : PlacedAt(place, who)
    BY DEF TakenInv, RingPlaces
  <2>2. ASSUME NEW u \in Threads, taken[u] # Nil
        PROVE  \/ /\ pc[u] = "has"
                  /\ place[taken[u]] = "has" /\ who[taken[u]] = u
               \/ /\ pc[u] = "loaded" /\ state[SlotOf(u)] = "LOADING"
                  /\ SlotOf(u) \in Slots /\ place[taken[u]] = "slot"
                  /\ who[taken[u]] = SlotOf(u)
    BY <2>1, <2>2, AloneAt DEF TakenInv, RingLocals, PlacedAt
  <2>3. ASSUME NEW u \in Threads \ {t}, taken[u] = taken[t] PROVE FALSE
    BY <2>2, <2>3, AloneAt DEF TakenInv
  <2>4. ASSUME NEW s \in Ring!Stored, element[s] = taken[t] PROVE FALSE
    <3>1. s \in Slots /\ state[s] = "STORED"
      BY DEF Ring!Stored, Ring!Slots, Slots
    <3>2. place[element[s]] = "slot" /\ who[element[s]] = s
      BY <2>1, <3>1 DEF PlacedAt
    <3> QED BY <2>2, <2>4, <3>1, <3>2
  <2> QED BY <2>3, <2>4
<1> QED BY <1>1, <1>2, <1>3, PTL DEF Ring!Spec

-----------------------------------------------------------------------------
(* try_push and try_pop *)

\* What a call has seen of the counters stays true while they move on, within
\* a turn.
TryInv ==
  trying =>
    /\ TurnOf(tail) <= TurnOf(head) /\ TurnOf(head) <= TurnOf(tail) + RingSize
    /\ TurnOf(head) <= TurnOf(LastIndex)
    /\ \A t \in Threads :
         /\ pc[t] = "room" => TurnOf(seen[t]) <= TurnOf(head)
         /\ pc[t] = "drawHead" => TurnOf(seen[t]) < TurnOf(tail) + RingSize
         /\ pc[t] \in {"some", "drawTail"} => TurnOf(seen[t]) <= TurnOf(tail)
         /\ pc[t] = "drawTail" => TurnOf(seen[t]) < TurnOf(head)

\* How the code compares two counters of a turn.
LEMMA ApartTurns ==
  ASSUME Ring!Parameters, NEW i \in Numbers, NEW j \in Numbers
  PROVE  /\ TurnOf(i) \in 0 .. IndexMod - 1 /\ TurnOf(j) \in 0 .. IndexMod - 1
         /\ (i - j) % IndexMod = IF TurnOf(j) <= TurnOf(i) THEN TurnOf(i) - TurnOf(j)
                                 ELSE TurnOf(i) - TurnOf(j) + IndexMod
<1>1. /\ IndexMod \in Nat \ {0} /\ FirstIndex \in 0 .. IndexMod - 1
      /\ i \in 0 .. IndexMod - 1 /\ j \in 0 .. IndexMod - 1
  BY DEF Ring!Parameters, Numbers
<1>2. \A k \in 0 .. IndexMod - 1 :
        TurnOf(k) = IF FirstIndex <= k THEN k - FirstIndex
                  ELSE k - FirstIndex + IndexMod
  BY <1>1, ModDifference DEF TurnOf
<1>3. (i - j) % IndexMod = IF j <= i THEN i - j ELSE i - j + IndexMod
  BY <1>1, ModDifference
<1> QED BY <1>1, <1>2, <1>3

\* A step of the try_ calls.
LEMMA TryStep ==
  ASSUME Ring!Parameters, Ring!OneTurn, Ring!CountersWide, RingInv, TryInv,
         trying, trying' = trying, NEW t \in Threads,
         Ring!Call(t) \/ Ring!Resume(t)
  PROVE  TryInv'
<1>1. /\ RingTypes /\ head \in Numbers /\ tail \in Numbers
      /\ \A u \in Threads : seen[u] \in Numbers
  BY DEF RingInv, RingTypes
<1>2. /\ RingSize \in Nat \ {0} /\ IndexMod \in Nat \ {0}
      /\ RingSize < IndexMod \div 2 /\ 2 * (IndexMod \div 2) <= IndexMod
  <2>1. Cardinality(Threads) \in Nat
    BY OwedParts
  <2>2. RingSize \in Nat \ {0} /\ IndexMod \in Nat \ {0}
    BY DEF Ring!Parameters
  <2> QED BY <2>1, <2>2, RingCardinality DEF Ring!CountersWide
<1>3. \A i \in Numbers : TurnOf(i) \in 0 .. IndexMod - 1
  BY ApartTurns
<1>4. LastIndex \in Numbers
  BY DEF Ring!OneTurn, Numbers
<1>5. CASE \/ Ring!StartStore(t) \/ Ring!Store(t) \/ Ring!EndStore(t)
           \/ Ring!StartLoad(t) \/ Ring!Load(t) \/ Ring!EndLoad(t)
           \/ Ring!StoreAtomic(t) \/ Ring!LoadAtomic(t) \/ Ring!Has(t)
           \/ Ring!IsFull(t) \/ Ring!IsEmpty(t)
  <2>1. /\ UNCHANGED <<head, tail>>
        /\ pc'[t] \notin {"room", "drawHead", "drawTail", "some"}
        /\ \A u \in Threads \ {t} : UNCHANGED <<pc[u], seen[u]>>
    BY <1>1, <1>5
       DEF RingTypes, Ring!StartStore, Ring!Store, Ring!EndStore, Ring!StartLoad,
           Ring!Load, Ring!EndLoad, Ring!StoreAtomic, Ring!LoadAtomic, Ring!Has,
           Ring!IsFull, Ring!IsEmpty, Ring!Fail, Ring!Goto, Ring!ringVars
  <2> QED BY <2>1 DEF TryInv
<1>6. CASE Ring!TryPush(t) \/ Ring!TryPop(t)
  <2>1. /\ UNCHANGED <<head, tail>>
        /\ \/ pc'[t] = "room" /\ seen'[t] = head
           \/ pc'[t] = "some" /\ seen'[t] = tail
        /\ \A u \in Threads \ {t} : UNCHANGED <<pc[u], seen[u]>>
    BY <1>1, <1>6
       DEF RingTypes, Ring!TryPush, Ring!TryPop, Ring!Goto, Ring!ringVars
  <2> QED BY <1>1, <1>3, <2>1 DEF TryInv
<1>7. CASE Ring!HasRoom(t)
  <2>1. Ring!Apart(seen[t], tail) < RingSize
    BY <1>7 DEF Ring!HasRoom
  <2>2. PICK a \in 0 .. IndexMod - 1, b \in 0 .. IndexMod - 1 :
          a = TurnOf(seen[t]) /\ b = TurnOf(tail)
    BY <1>1, <1>3
  <2>3. (seen[t] - tail) % IndexMod = IF b <= a THEN a - b ELSE a - b + IndexMod
    BY <1>1, <2>2, ApartTurns
  <2>4. a <= b + RingSize
    <3>1. TurnOf(seen[t]) <= TurnOf(head)
      BY <1>7 DEF TryInv, Ring!HasRoom
    <3> QED BY <1>1, <1>2, <1>3, <2>2, <3>1 DEF TryInv
  <2>5. a < b + RingSize
    <3>1. CASE b <= a
      <4>1. a - b < IndexMod \div 2
        BY <1>2, <2>4
      <4>2. Ring!Apart(seen[t], tail) = a - b
        BY <2>3, <3>1, <4>1 DEF Ring!Apart
      <4> QED BY <1>2, <2>1, <4>2
    <3> QED BY <1>2, <3>1
  <2>6. /\ UNCHANGED <<head, tail, seen>> /\ pc'[t] = "drawHead"
        /\ \A u \in Threads \ {t} : UNCHANGED pc[u]
    BY <1>1, <1>7 DEF RingTypes, Ring!HasRoom, Ring!Goto, Ring!ringVars
  <2> QED BY <2>2, <2>5, <2>6 DEF TryInv
<1>8. CASE Ring!HasSome(t)
  <2>1. Ring!Apart(head, seen[t]) > 0
    BY <1>8 DEF Ring!HasSome
  <2>2. PICK a \in 0 .. IndexMod - 1, b \in 0 .. IndexMod - 1 :
          a = TurnOf(head) /\ b = TurnOf(seen[t])
    BY <1>1, <1>3
  <2>3. (head - seen[t]) % IndexMod = IF b <= a THEN a - b ELSE a - b + IndexMod
    BY <1>1, <2>2, ApartTurns
  <2>4. b <= a
    <3>1. TurnOf(seen[t]) <= TurnOf(tail)
      BY <1>8 DEF TryInv, Ring!HasSome
    <3> QED BY <1>1, <1>3, <2>2, <3>1 DEF TryInv
  <2>5. b < a
    <3>1. CASE a = b
      <4>1. (head - seen[t]) % IndexMod = 0
        BY <2>3, <3>1
      <4>2. Ring!Apart(head, seen[t]) = 0
        BY <1>2, <4>1 DEF Ring!Apart
      <4> QED BY <2>1, <4>2
    <3> QED BY <2>4, <3>1
  <2>6. /\ UNCHANGED <<head, tail, seen>>
        /\ pc[t] = "some" /\ pc'[t] = "drawTail"
        /\ \A u \in Threads \ {t} : UNCHANGED pc[u]
    BY <1>1, <1>8 DEF RingTypes, Ring!HasSome, Ring!Goto, Ring!ringVars
  <2> QED BY <2>2, <2>5, <2>6 DEF TryInv
<1>9. CASE Ring!DrawHead(t)
  <2>1. CASE head # seen[t]
    <3>1. /\ UNCHANGED <<head, tail>> /\ pc'[t] = "room" /\ seen'[t] = head
          /\ \A u \in Threads \ {t} : UNCHANGED <<pc[u], seen[u]>>
      BY <1>1, <1>9, <2>1 DEF RingTypes, Ring!DrawHead, Ring!Goto
    <3> QED BY <1>1, <1>3, <3>1 DEF TryInv
  <2>2. CASE head = seen[t]
    <3>1. /\ head' = Ring!Next1(head) /\ head # LastIndex
          /\ UNCHANGED <<tail, seen>> /\ pc'[t] = "push"
          /\ \A u \in Threads \ {t} : UNCHANGED pc[u]
      BY <1>1, <1>9, <2>2 DEF RingTypes, Ring!DrawHead, Ring!Goto
    <3>2. /\ TurnOf(head') = TurnOf(head) + 1
          /\ TurnOf(head) + 1 <= TurnOf(LastIndex)
      BY <1>1, <3>1, TurnNext DEF TryInv
    <3>3. TurnOf(head) < TurnOf(tail) + RingSize
      BY <1>9, <2>2 DEF TryInv, Ring!DrawHead
    <3> QED BY <1>1, <1>2, <1>3, <3>1, <3>2, <3>3 DEF TryInv
  <2> QED BY <2>1, <2>2
<1>10. CASE Ring!DrawTail(t)
  <2>1. CASE tail # seen[t]
    <3>1. /\ UNCHANGED <<head, tail>> /\ pc'[t] = "some" /\ seen'[t] = tail
          /\ \A u \in Threads \ {t} : UNCHANGED <<pc[u], seen[u]>>
      BY <1>1, <1>10, <2>1 DEF RingTypes, Ring!DrawTail, Ring!Goto
    <3> QED BY <1>1, <1>3, <3>1 DEF TryInv
  <2>2. CASE tail = seen[t]
    <3>1. /\ tail' = Ring!Next1(tail) /\ tail # LastIndex
          /\ UNCHANGED <<head, seen>> /\ pc'[t] = "pop"
          /\ \A u \in Threads \ {t} : UNCHANGED pc[u]
      BY <1>1, <1>10, <2>2 DEF RingTypes, Ring!DrawTail, Ring!Goto
    <3>2. TurnOf(tail) <= TurnOf(LastIndex)
      BY <1>1, <1>3, <1>4 DEF TryInv
    <3>3. TurnOf(tail') = TurnOf(tail) + 1
      BY <1>1, <3>1, <3>2, TurnNext
    <3>4. TurnOf(tail) < TurnOf(head)
      BY <1>10, <2>2 DEF TryInv, Ring!DrawTail
    <3> QED BY <1>1, <1>2, <1>3, <3>1, <3>3, <3>4 DEF TryInv
  <2> QED BY <2>1, <2>2
<1>11. ~Ring!Push(t) /\ ~Ring!Pop(t)
  BY DEF Ring!Push, Ring!Pop
<1> QED BY <1>5, <1>6, <1>7, <1>8, <1>9, <1>10, <1>11, Zenon
        DEF Ring!Call, Ring!Resume

\* TryPush to DrawTail: try_push draws an index only if there is room and try_pop
\* only if there is an element, though each loads the two counters at different
\* times, for any number of threads and slots and within a turn of the counters.
THEOREM RingCountersBound ==
  ASSUME Ring!Parameters, Ring!OneTurn, Ring!CountersWide
  PROVE  Ring!Spec => []Ring!CountersBound
<1>1. Ring!Init => RingInv /\ TryInv
  <2> SUFFICES ASSUME Ring!Init PROVE RingInv /\ TryInv
    OBVIOUS
  <2>1. RingInv /\ TakenInv
    BY RingInit, TakenInit
  <2>2. TurnOf(head) \in Int /\ RingSize \in Nat /\ tail = head
    BY <2>1, ApartTurns DEF RingInv, RingTypes, Ring!Parameters, Ring!Init
  <2> QED BY <2>1, <2>2 DEF TryInv, TakenInv, RingLocals, Ring!Init
<1>2. RingInv /\ TryInv /\ [Ring!Next]_Ring!vars => RingInv' /\ TryInv'
  <2> SUFFICES ASSUME RingInv, TryInv, [Ring!Next]_Ring!vars
               PROVE  RingInv' /\ TryInv'
    OBVIOUS
  <2>1. RingInv'
    BY RingStep
  <2>2. CASE UNCHANGED Ring!vars
    BY <2>1, <2>2 DEF TryInv, Ring!vars, Ring!ringVars
  <2>3. CASE Ring!Next
    <3>1. trying' = trying
      BY <2>3 DEF Ring!Next
    <3>2. CASE ~trying
      BY <2>1, <3>1, <3>2 DEF TryInv
    <3>3. CASE trying
      BY <2>1, <2>3, <3>1, <3>3, TryStep DEF Ring!Next
    <3> QED BY <3>2, <3>3
  <2> QED BY <2>2, <2>3
<1>3. RingInv /\ TryInv => Ring!CountersBound
  <2> SUFFICES ASSUME RingInv, TryInv, trying
               PROVE  Ring!Apart(head, tail) \in 0 .. RingSize
    BY DEF Ring!CountersBound
  <2>1. head \in Numbers /\ tail \in Numbers
    BY DEF RingInv, RingTypes
  <2>2. Cardinality(Threads) \in Nat /\ RingSize \in Nat \ {0}
        /\ IndexMod \in Nat \ {0}
    BY OwedParts DEF Ring!Parameters
  <2>3. RingSize < IndexMod \div 2
    BY <2>2, RingCardinality DEF Ring!CountersWide
  <2>4. PICK a \in Nat, b \in Nat : a = TurnOf(head) /\ b = TurnOf(tail)
    BY <2>1, <2>2, ApartTurns
  <2>5. (head - tail) % IndexMod = a - b /\ b <= a /\ a - b <= RingSize
    BY <2>1, <2>2, <2>4, ApartTurns DEF TryInv
  <2> QED BY <2>2, <2>3, <2>5 DEF Ring!Apart
<1> QED BY <1>1, <1>2, <1>3, PTL DEF Ring!Spec

-----------------------------------------------------------------------------
(***************************************************************************)
(* The Bloom filter.                                                       *)
(***************************************************************************)

CONSTANTS
  Elements, Hash, WordBits, IntBits, MAX_SEEDS, MAX_FILTER_SIZE, MaxInput,
  MaxPerElt

VARIABLES params, data, added, fits

Filter == INSTANCE BloomFilter

LEMMA ProductPositive ==
  ASSUME NEW a \in Nat \ {0}, NEW b \in Nat \ {0}
  PROVE  a * b \in Nat \ {0} /\ a * b >= a /\ (a * b) \div a = b
<1>1. a * b \in Nat /\ b * a = a * b
  OBVIOUS
<1>2. a * b >= a
  OBVIOUS
<1>3. (a * b) \div a = b
  OBVIOUS
<1> QED BY <1>1, <1>2, <1>3

\* The word of a bit, and the bit in it.
LEMMA WordOfBit ==
  ASSUME NEW a \in Nat \ {0}, NEW b \in Nat \ {0}, NEW x \in 0 .. a * b - 1
  PROVE  x \div a \in 0 .. b - 1 /\ x % a \in 0 .. a - 1
<1>1. x % a \in 0 .. a - 1
  OBVIOUS
<1>2. x = a * (x \div a) + (x % a) /\ x \div a \in Nat
  OBVIOUS
<1>3. x \div a < b
  <2> DEFINE q == x \div a
  <2>1. ASSUME q >= b PROVE FALSE
    <3>1. a * q >= a * b
      <4> HIDE DEF q
      <4>1. q \in Nat
        BY <1>2 DEF q
      <4> QED BY <2>1, <4>1
    <3> QED BY <1>1, <1>2, <3>1
  <2>2. q \in Nat
    BY <1>2
  <2> QED BY <2>1, <2>2
<1> QED BY <1>1, <1>2, <1>3

LEMMA SamePowers == Filter!Pow2 = Pow2
BY DEF Filter!Pow2, Pow2

LEMMA LogIs ==
  ASSUME NEW n \in Nat \ {0}
  PROVE  LET s == Filter!Log2(n)
         IN s \in Nat /\ Pow2[s] <= n /\ n < Pow2[s + 1]
<1>1. \E s \in 0 .. n : Pow2[s] <= n /\ n < Pow2[s + 1]
  BY LogExists
<1>2. Filter!Log2(n) = CHOOSE s \in 0 .. n : Pow2[s] <= n /\ n < Pow2[s + 1]
  BY SamePowers DEF Filter!Log2
<1>3. Filter!Log2(n) \in 0 .. n /\ Pow2[Filter!Log2(n)] <= n
      /\ n < Pow2[Filter!Log2(n) + 1]
  BY <1>1, <1>2
<1> QED BY <1>3

\* What get_optimal_paramset makes of bits that are a positive int: a power of
\* two of them in whole words.
FilterSized(p) ==
  /\ p.num_hashes \in 0 .. MAX_SEEDS /\ p.sft \in Nat
  /\ p.filter_size \in Nat \ {0} /\ Pow2[p.sft] = WordBits * p.filter_size

\* A product that is an int is not changed.
LEMMA AsIntIs ==
  ASSUME Filter!Parameters, NEW n \in 1 .. IntMod \div 2 - 1
  PROVE  Filter!AsInt(n) = n
<1> DEFINE h == IntMod \div 2
<1>1. IntMod \in Nat \ {0} /\ IntMod = 2 * h /\ h \in Nat
  BY DEF Filter!Parameters
<1> HIDE DEF h
<1>2. n \in Nat /\ n + h \in 0 .. IntMod - 1
  BY <1>1 DEF h
<1>3. (n + h) % IntMod = n + h
  BY <1>1, <1>2, ModSmall
<1>4. Filter!AsInt(n) = ((n + h) % IntMod) - h
  BY DEF Filter!AsInt, h
<1> QED BY <1>1, <1>2, <1>3, <1>4

LEMMA ParamsSized ==
  ASSUME Filter!Parameters, NEW input \in 0 .. MaxInput,
         NEW hashes \in 0 .. MAX_SEEDS + 1, NEW per \in 0 .. MaxPerElt,
         per * input \in 1 .. IntMod \div 2 - 1
  PROVE  FilterSized(Filter!get_optimal_paramset(input, hashes, per))
<1> DEFINE m == per * input
           words == (m + WordBits - 1) \div WordBits
           size == Filter!Words(input, per)
           sft == Filter!Log2(WordBits * size)
           p == Filter!get_optimal_paramset(input, hashes, per)
<1>0. /\ hashes \in Nat
      /\ WordBits \in Nat \ {0} /\ MAX_SEEDS \in Nat /\ MAX_FILTER_SIZE \in Nat \ {0}
  <2>1. WordBits \in Nat \ {0}
    BY SamePowers, PowersPositive DEF Filter!Parameters
  <2> QED BY <2>1 DEF Filter!Parameters
<1>a. m \in Nat \ {0} /\ Filter!AsInt(m) = m
  <2>1. \A x : x \in 1 .. IntMod \div 2 - 1 => x \in Nat \ {0}
    OBVIOUS
  <2>2. m \in 1 .. IntMod \div 2 - 1
    OBVIOUS
  <2> HIDE DEF m
  <2> QED BY <2>1, <2>2, AsIntIs
<1>b. size = Filter!Least(words, MAX_FILTER_SIZE)
  BY <1>a DEF Filter!Words
<1>2. words \in Nat \ {0}
  <2> HIDE DEF m
  <2>1. m + WordBits - 1 = WordBits + (m - 1) /\ m - 1 \in Nat
    BY <1>0, <1>a
  <2>2. ASSUME NEW w \in Nat \ {0}, NEW r \in Nat PROVE (w + r) \div w \in Nat \ {0}
    OBVIOUS
  <2> QED BY <1>0, <2>1, <2>2
<1>3. size \in Nat \ {0}
  <2> HIDE DEF words, size
  <2> QED BY <1>0, <1>2, <1>b DEF Filter!Least
<1>1. p = [num_hashes |-> Filter!Least(hashes, MAX_SEEDS), sft |-> sft,
           filter_size |-> Pow2[sft] \div WordBits]
  <2>1. size > 0
    <3> HIDE DEF size
    <3> QED BY <1>3
  <2> QED BY <2>1, SamePowers DEF Filter!get_optimal_paramset
<1>4. WordBits * size \in Nat \ {0} /\ WordBits * size >= WordBits
  <2> HIDE DEF size
  <2> QED BY <1>0, <1>3, ProductPositive
<1>5. sft \in Nat /\ WordBits * size < Pow2[sft + 1]
  <2> DEFINE n == WordBits * size
  <2>1. n \in Nat \ {0}
    BY <1>4
  <2> HIDE DEF n
  <2>2. LET s == Filter!Log2(n)
        IN s \in Nat /\ Pow2[s] <= n /\ n < Pow2[s + 1]
    BY <2>1, LogIs
  <2> QED BY <2>2 DEF n
<1>6. PICK w \in Nat : WordBits = Pow2[w]
  BY SamePowers DEF Filter!Parameters
<1> HIDE DEF sft, size, words, p, m
<1>7. sft >= w
  <2>1. ASSUME sft + 1 <= w PROVE FALSE
    <3>1. w - (sft + 1) \in Nat /\ sft + 1 \in Nat /\ sft + 1 + (w - (sft + 1)) = w
      BY <1>5, <1>6, <2>1
    <3>2. Pow2[w] = Pow2[sft + 1] * Pow2[w - (sft + 1)]
      BY <3>1, PowersAdd
    <3>3. Pow2[sft + 1] \in Nat \ {0} /\ Pow2[w - (sft + 1)] \in Nat \ {0}
      BY <3>1, PowersPositive
    <3>4. Pow2[sft + 1] * Pow2[w - (sft + 1)] >= Pow2[sft + 1]
      BY <3>3, ProductPositive
    <3>5. WordBits >= Pow2[sft + 1]
      BY <1>6, <3>2, <3>4
    <3> QED BY <1>0, <1>4, <1>5, <3>3, <3>5
  <2> QED BY <1>5, <1>6, <2>1
<1>8. Pow2[sft] = WordBits * Pow2[sft - w] /\ Pow2[sft - w] \in Nat \ {0}
  <2>1. sft - w \in Nat /\ w + (sft - w) = sft
    BY <1>5, <1>6, <1>7
  <2> QED BY <1>6, <2>1, PowersAdd, PowersPositive
<1>9. Pow2[sft] \div WordBits = Pow2[sft - w]
  BY <1>0, <1>8, ProductPositive
<1>10. Filter!Least(hashes, MAX_SEEDS) \in 0 .. MAX_SEEDS
  BY <1>0 DEF Filter!Least
<1> QED BY <1>1, <1>5, <1>8, <1>9, <1>10 DEF FilterSized, p

\* What it makes whatever number of bits is asked for.
LEMMA ParamsAnyhow ==
  ASSUME Filter!Parameters, NEW input \in 0 .. MaxInput,
         NEW hashes \in 0 .. MAX_SEEDS + 1, NEW per \in 0 .. MaxPerElt
  PROVE  LET p == Filter!get_optimal_paramset(input, hashes, per)
         IN p.num_hashes \in 0 .. MAX_SEEDS /\ p.sft \in Nat
<1> DEFINE m == per * input
           size == Filter!Words(input, per)
           sft == Filter!Log2(WordBits * size)
           p == Filter!get_optimal_paramset(input, hashes, per)
<1>0. /\ hashes \in Nat /\ WordBits \in Nat \ {0} /\ MAX_SEEDS \in Nat
      /\ MAX_FILTER_SIZE \in Nat \ {0} /\ IntMod \in Nat \ {0} /\ m \in Int
  <2>1. WordBits \in Nat \ {0}
    BY SamePowers, PowersPositive DEF Filter!Parameters
  <2>2. input \in Nat /\ per \in Nat
    BY DEF Filter!Parameters
  <2> QED BY <2>1, <2>2 DEF Filter!Parameters
<1>1. size \in Int
  <2> HIDE DEF m
  <2>1. Filter!AsInt(m) \in Int
    BY <1>0 DEF Filter!AsInt
  <2>2. (Filter!AsInt(m) + WordBits - 1) \div WordBits \in Int
    BY <1>0, <2>1
  <2> QED BY <1>0, <2>2 DEF Filter!Words, Filter!Least, m
<1>2. size > 0 => sft \in Nat
  <2> SUFFICES ASSUME size > 0 PROVE sft \in Nat
    OBVIOUS
  <2> DEFINE n == WordBits * size
  <2>1. n \in Nat \ {0}
    <3> HIDE DEF size
    <3> QED BY <1>0, <1>1, ProductPositive
  <2> HIDE DEF n
  <2>2. LET s == Filter!Log2(n) IN s \in Nat
    BY <2>1, LogIs
  <2> QED BY <2>2 DEF n
<1>3. p = [num_hashes |-> Filter!Least(hashes, MAX_SEEDS),
           sft |-> IF size > 0 THEN sft ELSE 0,
           filter_size |-> Pow2[IF size > 0 THEN sft ELSE 0] \div WordBits]
  BY SamePowers DEF Filter!get_optimal_paramset
<1>4. Filter!Least(hashes, MAX_SEEDS) \in 0 .. MAX_SEEDS
  BY <1>0 DEF Filter!Least
<1> HIDE DEF p, sft, size, m
<1> QED BY <1>2, <1>3, <1>4 DEF p

FilterInv ==
  /\ params.num_hashes \in 0 .. MAX_SEEDS /\ params.sft \in Nat
  /\ fits => FilterSized(params)
  /\ Filter!TypeOK
  /\ \A e \in added : \A i \in Filter!Seeds : Filter!Word(e, i) \in DOMAIN data
  /\ \A e \in added : \A w \in DOMAIN data : Filter!Sets(e, w) \subseteq data[w]

LEMMA BitIs ==
  ASSUME Filter!Parameters, params.num_hashes \in 0 .. MAX_SEEDS, params.sft \in Nat,
         NEW e \in Elements, NEW i \in Filter!Seeds
  PROVE  Filter!Bit(e, i) \in Nat
<1>1. Hash[e][i] \in Nat /\ WordBits \in Nat \ {0} /\ Pow2[params.sft] \in Nat \ {0}
  <2>1. i \in 0 .. MAX_SEEDS - 1
    BY DEF Filter!Seeds, Filter!Parameters
  <2> QED BY <2>1, SamePowers, PowersPositive DEF Filter!Parameters
<1>2. \A x \in Nat, y \in Nat \ {0} : x % y \in Nat
  OBVIOUS
<1> QED BY <1>1, <1>2, SamePowers DEF Filter!Bit, Filter!hash_mod

LEMMA HashIs ==
  ASSUME Filter!Parameters, FilterSized(params), NEW e \in Elements,
         NEW i \in Filter!Seeds
  PROVE  /\ Filter!Word(e, i) \in 0 .. params.filter_size - 1
         /\ Filter!Bit(e, i) \in 0 .. WordBits - 1
<1> DEFINE n == params.filter_size
<1>1. WordBits \in Nat \ {0} /\ n \in Nat \ {0} /\ Pow2[params.sft] = WordBits * n
  BY SamePowers, PowersPositive DEF Filter!Parameters, FilterSized
<1>2. Hash[e][i] \in Nat
  <2>1. params.num_hashes \in 0 .. MAX_SEEDS /\ MAX_SEEDS \in Nat
    BY DEF FilterSized, Filter!Parameters
  <2>2. i \in 0 .. MAX_SEEDS - 1
    BY <2>1 DEF Filter!Seeds
  <2> QED BY <2>2 DEF Filter!Parameters
<1>3. WordBits * n \in Nat \ {0}
  BY <1>1, ProductPositive
<1>4. Filter!hash_mod(e, i) \in 0 .. WordBits * n - 1
  <2>1. ASSUME NEW x \in Nat, NEW m \in Nat \ {0} PROVE x % m \in 0 .. m - 1
    OBVIOUS
  <2> QED BY <1>1, <1>2, <1>3, <2>1, SamePowers DEF Filter!hash_mod
<1> HIDE DEF n
<1>5. /\ Filter!hash_mod(e, i) \div WordBits \in 0 .. n - 1
      /\ Filter!hash_mod(e, i) % WordBits \in 0 .. WordBits - 1
  BY <1>1, <1>4, WordOfBit
<1> QED BY <1>5 DEF Filter!Word, Filter!Bit, n

\* Some bit of a word comes out of every shift.
LEMMA ShiftedIn ==
  ASSUME Filter!Parameters, NEW n \in Nat
  PROVE  Filter!Shifted(n) # {} /\ Filter!Shifted(n) \subseteq 0 .. WordBits - 1
<1> DEFINE b == n % IntBits
<1>1. IntBits \in Nat \ {0} /\ WordBits \in Nat /\ IntBits <= WordBits
  BY SamePowers, PowersPositive DEF Filter!Parameters
<1>2. b \in 0 .. IntBits - 1
  BY <1>1
<1>3. Filter!Shifted(n) = IF b = IntBits - 1 THEN b .. WordBits - 1 ELSE {b}
  BY DEF Filter!Shifted
<1> HIDE DEF b
<1>4. b \in Filter!Shifted(n)
  BY <1>1, <1>2, <1>3
<1>5. Filter!Shifted(n) \subseteq 0 .. WordBits - 1
  BY <1>1, <1>2, <1>3
<1> QED BY <1>4, <1>5

LEMMA FilterInit ==
  ASSUME Filter!Parameters, Filter!Init PROVE FilterInv
<1>1. PICK input \in 0 .. MaxInput, hashes \in 0 .. MAX_SEEDS + 1,
           per \in 0 .. MaxPerElt :
        /\ params = Filter!get_optimal_paramset(input, hashes, per)
        /\ fits = (per * input \in 1 .. IntMod \div 2 - 1)
  BY DEF Filter!Init
<1>2. /\ params.num_hashes \in 0 .. MAX_SEEDS /\ params.sft \in Nat
      /\ fits => FilterSized(params)
  BY <1>1, ParamsSized, ParamsAnyhow
<1>3. data = [w \in 0 .. params.filter_size - 1 |-> {}] /\ added = {}
  BY DEF Filter!Init
<1>4. Filter!TypeOK
  BY <1>3 DEF Filter!TypeOK
<1> QED BY <1>2, <1>3, <1>4 DEF FilterInv

LEMMA FilterNext ==
  ASSUME Filter!Parameters, FilterInv, [Filter!Next]_(Filter!vars) PROVE FilterInv'
<1> DEFINE W == 0 .. params.filter_size - 1
<1>0. /\ params.num_hashes \in 0 .. MAX_SEEDS /\ params.sft \in Nat
      /\ fits => FilterSized(params)
      /\ added \subseteq Elements /\ DOMAIN data = W
      /\ data \in [W -> SUBSET (0 .. WordBits - 1)]
      /\ \A e \in added : \A i \in Filter!Seeds : Filter!Word(e, i) \in W
      /\ \A e \in added : \A w \in W : Filter!Sets(e, w) \subseteq data[w]
  BY DEF FilterInv, Filter!TypeOK
<1>1. ASSUME NEW e \in Elements, Filter!add(e) PROVE FilterInv'
  <2>1. /\ params' = params /\ fits' = fits /\ added' = added \cup {e}
        /\ data' = [w \in W |-> data[w] \cup Filter!Sets(e, w)]
        /\ \A i \in Filter!Seeds : Filter!Word(e, i) \in W
    BY <1>0, <1>1 DEF Filter!add
  <2>2. /\ \A x, w : Filter!Sets(x, w)' = Filter!Sets(x, w)
        /\ \A x, w : Filter!Word(x, w)' = Filter!Word(x, w)
        /\ Filter!Seeds' = Filter!Seeds
    BY <2>1 DEF Filter!Sets, Filter!Seeds, Filter!Word, Filter!Bit, Filter!hash_mod,
       Filter!Shifted
  <2>3. ASSUME NEW w PROVE Filter!Sets(e, w) \subseteq 0 .. WordBits - 1
    <3>1. ASSUME NEW i \in Filter!Seeds
          PROVE  Filter!Shifted(Filter!Bit(e, i)) \subseteq 0 .. WordBits - 1
      <4>1. Filter!Bit(e, i) \in Nat
        BY <1>0, BitIs
      <4> QED BY <4>1, ShiftedIn
    <3> QED BY <3>1 DEF Filter!Sets
  <2>4. /\ params'.num_hashes \in 0 .. MAX_SEEDS /\ params'.sft \in Nat
        /\ fits' => FilterSized(params')
    BY <1>0, <2>1
  <2>5. Filter!TypeOK'
    <3>1. data' \in [W -> SUBSET (0 .. WordBits - 1)]
      BY <1>0, <2>1, <2>3
    <3> QED BY <1>0, <2>1, <3>1 DEF Filter!TypeOK
  <2>6. ASSUME NEW x \in added', NEW w \in W
        PROVE  Filter!Sets(x, w) \subseteq data'[w]
    BY <1>0, <2>1, <2>6
  <2>7. DOMAIN data' = W /\ \A x \in added' : \A i \in Filter!Seeds : Filter!Word(x, i) \in W
    BY <1>0, <2>1
  <2> HIDE DEF W
  <2> QED BY <2>2, <2>4, <2>5, <2>6, <2>7 DEF FilterInv, FilterSized
<1>2. CASE UNCHANGED Filter!vars
  <2>1. params' = params /\ data' = data /\ added' = added /\ fits' = fits
    BY <1>2 DEF Filter!vars
  <2>2. /\ \A x, w : Filter!Sets(x, w)' = Filter!Sets(x, w)
        /\ \A x, w : Filter!Word(x, w)' = Filter!Word(x, w)
        /\ Filter!Seeds' = Filter!Seeds
    BY <2>1 DEF Filter!Sets, Filter!Seeds, Filter!Word, Filter!Bit, Filter!hash_mod,
       Filter!Shifted
  <2> QED BY <2>1, <2>2 DEF FilterInv, FilterSized, Filter!TypeOK
<1> QED BY <1>1, <1>2 DEF Filter!Next

LEMMA FilterInvHolds == ASSUME Filter!Parameters PROVE Filter!Spec => []FilterInv
BY FilterInit, FilterNext, PTL DEF Filter!Spec

\* If the bits asked for are a positive int, the size that get_optimal_paramset
\* rounds down to a power of two, as log2 is truncated, is a number of whole
\* words, and every hash falls on one of them.
THEOREM FilterHashInFilter ==
  ASSUME Filter!Parameters PROVE Filter!Spec => []Filter!HashInFilter
<1>1. ASSUME FilterInv, fits
      PROVE  /\ params.filter_size > 0 /\ Pow2[params.sft] = WordBits * params.filter_size
             /\ \A e \in Elements, i \in Filter!Seeds : Filter!Word(e, i) \in DOMAIN data
  <2>1. FilterSized(params) /\ DOMAIN data = 0 .. params.filter_size - 1
    BY <1>1 DEF FilterInv, Filter!TypeOK
  <2>2. \A e \in Elements, i \in Filter!Seeds : Filter!Word(e, i) \in DOMAIN data
    BY <2>1, HashIs
  <2> QED BY <2>1, <2>2 DEF FilterSized
<1>2. FilterInv => Filter!HashInFilter
  BY <1>1, SamePowers DEF Filter!HashInFilter
<1> QED BY <1>2, FilterInvHolds, PTL

\* mayBePresent never denies an element that add was called with, though add
\* shifts an int and so sets the same bit for two hashes or many for one.
THEOREM FilterDeniesNone ==
  ASSUME Filter!Parameters PROVE Filter!Spec => []Filter!NoFalseNegative
<1>1. ASSUME FilterInv PROVE Filter!NoFalseNegative
  <2> SUFFICES ASSUME NEW e \in added, NEW i \in Filter!Seeds
               PROVE  data[Filter!Word(e, i)]
                        \cap Filter!Shifted(Filter!Bit(e, i)) # {}
    BY DEF Filter!NoFalseNegative, Filter!mayBePresent
  <2>1. e \in Elements
    BY <1>1 DEF FilterInv, Filter!TypeOK
  <2>2. Filter!Word(e, i) \in DOMAIN data /\ Filter!Bit(e, i) \in Nat
    BY <1>1, <2>1, BitIs DEF FilterInv
  <2>3. Filter!Shifted(Filter!Bit(e, i)) \subseteq Filter!Sets(e, Filter!Word(e, i))
    BY DEF Filter!Sets
  <2>4. Filter!Sets(e, Filter!Word(e, i)) \subseteq data[Filter!Word(e, i)]
    BY <1>1, <2>2 DEF FilterInv
  <2>5. Filter!Shifted(Filter!Bit(e, i)) # {}
    BY <2>2, ShiftedIn
  <2> QED BY <2>3, <2>4, <2>5
<1> QED BY <1>1, FilterInvHolds, PTL
=============================================================================
