---------------------------- MODULE ProducerList ----------------------------
(***************************************************************************)
(* moodycamel::ConcurrentQueue (src/src/util/concurrentqueue.h) lists its  *)
(* sub-queues, one per producer, the newest first.  This module is how a   *)
(* dequeue goes through that list: without a token by the sizes it sees,   *)
(* with a ConsumerToken from the place it was given, which moves on when   *)
(* any consumer has had its quota from one producer.                       *)
(*                                                                         *)
(* One consumer is followed.  What the others do to it is that elements    *)
(* disappear, ids are drawn and the offset advances.  A sub-queue is a     *)
(* number of elements here, and a dequeue from it one step: the modules on *)
(* ProducerBase are about those.                                           *)
(***************************************************************************)
EXTENDS Integers

CONSTANTS
  Quota,        \* EXPLICIT_CONSUMER_CONSUMPTION_QUOTA_BEFORE_ROTATE
  MaxBulk,      \* bound: the most elements a call asks for
  MaxProducers, \* bound: the producers there can be
  MaxSize,      \* bound: the elements of one producer
  MaxTokens,    \* bound: the tokens constructed before
  MaxOffset     \* bound: the turns there can be

VARIABLES
  producerCount, \* may be ahead of the list by a producer being added
  listed,        \* the producers in the list, numbered in order of creation
  size,          \* producer -> elements
  nextId,        \* nextExplicitConsumerId
  globalOffset,  \* globalExplicitConsumerOffset
  token,         \* the consumer's ConsumerToken
  pc,            \* next step of its call
  ptr, best, bestSize, nonEmpty, \* locals of the call
  left,          \* elements still wanted
  bulk,          \* is it a bulk call?
  start, seen    \* history: the producers listed at the call's start, and
                 \* those that appeared empty since

listVars == <<producerCount, listed, size>>
turnVars == <<nextId, globalOffset>>
walkVars == <<best, bestSize, nonEmpty>>
callVars == <<pc, ptr, walkVars, left, bulk, start, seen>>
vars == <<listVars, turnVars, token, callVars>>

Parameters ==
  /\ {Quota, MaxProducers, MaxSize, MaxTokens, MaxOffset} \subseteq Nat
  /\ MaxBulk \in Nat \ {0}

None == 0
Producers == 1 .. MaxProducers
Newest == listed  \* producerListTail

\* A token that is not constructed, ids being numbered from 1; last is
\* lastKnownGlobalOffset.  placed is not in the code: how many producers there
\* were at its placings, None if not always as many.
NoToken == [id |-> None, last |-> -1, consumed |-> 0,
            current |-> None, desired |-> None, placed |-> None]

Init ==
  /\ producerCount = 0 /\ listed = 0 /\ size = [p \in Producers |-> 0]
  /\ nextId = 0 /\ globalOffset = 0 /\ token = NoToken
  /\ pc = "out" /\ ptr = None /\ best = None /\ bestSize = 0 /\ nonEmpty = 0
  /\ left = 0 /\ bulk = FALSE /\ start = 0 /\ seen = {}

Least(a, b) == IF a < b THEN a ELSE b

-----------------------------------------------------------------------------
(* The others *)

\* add_producer counts the new one, and then puts it at the head of the list.
CountProducer ==
  /\ producerCount = listed /\ producerCount < MaxProducers
  /\ producerCount' = producerCount + 1
  /\ UNCHANGED <<listed, size, turnVars, token, callVars>>
ListProducer ==
  /\ listed < producerCount
  /\ listed' = listed + 1
  /\ UNCHANGED <<producerCount, size, turnVars, token, callVars>>

Enqueue(p) ==
  /\ p <= listed /\ size[p] < MaxSize
  /\ size' = [size EXCEPT ![p] = @ + 1]
  /\ UNCHANGED <<producerCount, listed, turnVars, token, callVars>>

DequeuedElsewhere(p) ==
  /\ size[p] > 0
  /\ size' = [size EXCEPT ![p] = @ - 1]
  /\ UNCHANGED <<producerCount, listed, turnVars, token, callVars>>

TokenElsewhere ==
  /\ nextId < MaxTokens /\ nextId' = nextId + 1
  /\ UNCHANGED <<listVars, globalOffset, token, callVars>>

TurnElsewhere ==
  /\ globalOffset < MaxOffset /\ globalOffset' = globalOffset + 1
  /\ UNCHANGED <<listVars, nextId, token, callVars>>

-----------------------------------------------------------------------------
(* Calls *)

\* ConsumerToken(queue)
TokenMade ==
  /\ pc = "out" /\ token.id = None
  /\ token' = [token EXCEPT !.id = nextId + 1] /\ nextId' = nextId + 1
  /\ UNCHANGED <<listVars, globalOffset, callVars>>

Call(n, isBulk) ==
  /\ pc = "out"
  /\ left' = n /\ bulk' = isBulk /\ start' = listed
  /\ UNCHANGED <<listVars, turnVars, token, walkVars, seen>>

Return ==
  /\ pc' = "out" /\ ptr' = None /\ best' = None /\ bestSize' = 0 /\ nonEmpty' = 0
  /\ left' = 0 /\ bulk' = FALSE /\ start' = 0 /\ seen' = {}

\* A walk along the list goes on at p, or here at its end.
Walk(p, place, end) == pc' = (IF p = None THEN end ELSE place) /\ ptr' = p

\* Without a token: one element, by size; or several, in the list's order,
\* which is also try_dequeue_non_interleaved.
try_dequeue ==
  token.id = None /\ Call(1, FALSE) /\ Walk(Newest, "score", "refused")
try_dequeue_bulk(n) ==
  token.id = None /\ Call(n, TRUE) /\ Walk(Newest, "sweep", "refused")

\* With one: first to its place, if it has none yet or there was a turn.
TokenDequeue(n, isBulk) ==
  /\ token.id # None /\ Call(n, isBulk)
  /\ pc' = IF token.desired = None \/ token.last # globalOffset
             THEN "place" ELSE "current"
  /\ UNCHANGED ptr

\* The call returns less than was asked for.
Refused == pc = "refused" /\ Return /\ UNCHANGED <<listVars, turnVars, token>>

-----------------------------------------------------------------------------
(* try_dequeue and try_dequeue_bulk without a token *)

\* Up to three producers that have something are compared.
Score ==
  LET found == nonEmpty + (IF size[ptr] > 0 THEN 1 ELSE 0)
  IN /\ pc = "score"
     /\ nonEmpty' = found
     /\ IF size[ptr] > bestSize THEN bestSize' = size[ptr] /\ best' = ptr
        ELSE UNCHANGED <<bestSize, best>>
     /\ seen' = IF size[ptr] = 0 THEN seen \cup {ptr} ELSE seen
     /\ Walk(IF found = 3 THEN None ELSE ptr - 1, "score",
             IF found > 0 THEN "best" ELSE "refused")
     /\ UNCHANGED <<listVars, turnVars, token, left, bulk, start>>

Best ==
  /\ pc = "best"
  /\ IF size[best] > 0 THEN size' = [size EXCEPT ![best] = @ - 1] /\ Return
     ELSE /\ seen' = seen \cup {best}
          /\ Walk(Newest, "sweep", "refused")
          /\ UNCHANGED <<size, walkVars, left, bulk, start>>
  /\ UNCHANGED <<producerCount, listed, turnVars, token>>

\* What the producer at ptr has is taken, as far as it is wanted.
Got == Least(left, size[ptr])
TakeAtPtr == size' = [size EXCEPT ![ptr] = @ - Got]

\* It has not enough.
Short == seen' = seen \cup {ptr} /\ left' = left - Got

\* One after the other to the end of the list, ...
Sweep ==
  /\ pc = "sweep" /\ ptr # best
  /\ TakeAtPtr
  /\ IF Got = left THEN Return
     ELSE Short /\ Walk(ptr - 1, "sweep", "refused") /\ UNCHANGED <<walkVars, bulk, start>>
  /\ UNCHANGED <<producerCount, listed, turnVars, token>>

\* ... but for the one that was tried first.
SweepPast ==
  /\ pc = "sweep" /\ ptr = best
  /\ Walk(ptr - 1, "sweep", "refused")
  /\ UNCHANGED <<listVars, turnVars, token, walkVars, left, bulk, start, seen>>

-----------------------------------------------------------------------------
(* update_current_producer_after_rotation *)

\* n times next_prod from p, and round to the newest.
Onward(p, n) == ((p - 1 - n) % listed) + 1

\* "offset is from start, not end"
FirstPlace == Onward(Newest, producerCount - 1 - ((token.id - 1) % producerCount))

Placed(p) ==
  token' = [token EXCEPT !.desired = p, !.current = p, !.last = globalOffset,
              !.consumed = 0,
              !.placed = IF producerCount = listed /\ (token.desired = None \/ @ = listed)
                         THEN listed ELSE None]

TurnsMissed == (globalOffset - token.last) % producerCount

\* Mutant: a first place takes no account of the turns there were before.
PlaceAtFirst ==
  /\ pc = "place" /\ listed > 0
  /\ Placed(IF token.desired = None THEN FirstPlace ELSE Onward(token.desired, TurnsMissed))
  /\ pc' = "current"
  /\ UNCHANGED <<listVars, turnVars, ptr, walkVars, left, bulk, start, seen>>

\* To its first place if it had none, and on by the turns it has not followed.
Place ==
  /\ pc = "place" /\ listed > 0
  /\ Placed(Onward(IF token.desired = None THEN FirstPlace ELSE token.desired, TurnsMissed))
  /\ pc' = "current"
  /\ UNCHANGED <<listVars, turnVars, ptr, walkVars, left, bulk, start, seen>>

NoPlace ==
  /\ pc = "place" /\ listed = 0
  /\ pc' = "refused"
  /\ UNCHANGED <<listVars, turnVars, token, ptr, walkVars, left, bulk, start, seen>>

-----------------------------------------------------------------------------
(* try_dequeue and try_dequeue_bulk with a token *)

\* Mutant: the walk ends at the oldest.
AfterToEnd(p, tail, current) == IF p = 1 THEN current ELSE p - 1

\* The next after p in the circle that begins with the tail loaded.
After(p, tail, current) == IF p = 1 THEN tail ELSE p - 1

\* The walk round the others goes on at p, or ends there.
Onto(p, current) == pc' = (IF p = current THEN "refused" ELSE "others") /\ ptr' = p

\* From the producer at hand.  The quota is tested only when it had enough,
\* and for equality if one element was asked for.  consumed has 32 bits and is
\* capped here: beyond the quota its value does not matter.
Current ==
  LET p == token.current
      n == Least(left, size[p])
      consumed == token.consumed + n
  IN /\ pc = "current"
     /\ size' = [size EXCEPT ![p] = @ - n]
     /\ token' = [token EXCEPT !.consumed = Least(consumed, Quota + 1)]
     /\ CASE n < left ->
               /\ seen' = seen \cup {p} /\ left' = left - n
               /\ best' = Newest  \* the local tail
               /\ Onto(After(p, Newest, p), p)
               /\ UNCHANGED <<bestSize, nonEmpty, bulk, start>>
          [] n = left /\ (consumed = Quota \/ (bulk /\ consumed > Quota)) ->
               pc' = "turn" /\ UNCHANGED <<ptr, walkVars, left, bulk, start, seen>>
          [] OTHER -> Return
     /\ UNCHANGED <<producerCount, listed, turnVars>>

Turn ==
  /\ pc = "turn" /\ globalOffset < MaxOffset
  /\ globalOffset' = globalOffset + 1
  /\ Return
  /\ UNCHANGED <<listVars, nextId, token>>

\* From the others in turn, until round to the one at hand, which is the last
\* that had anything.
Others ==
  /\ pc = "others"
  /\ TakeAtPtr
  /\ token' = IF Got = 0 THEN token
              ELSE [token EXCEPT !.current = ptr, !.consumed = Least(Got, Quota + 1)]
  /\ IF Got = left THEN Return
     ELSE /\ Short
          /\ Onto(After(ptr, best, token'.current), token'.current)
          /\ UNCHANGED <<walkVars, bulk, start>>
  /\ UNCHANGED <<producerCount, listed, turnVars>>

-----------------------------------------------------------------------------
Elsewhere ==
  \/ CountProducer \/ ListProducer \/ TokenElsewhere \/ TurnElsewhere
  \/ \E p \in Producers : Enqueue(p) \/ DequeuedElsewhere(p)

Dequeue ==
  \/ try_dequeue \/ TokenDequeue(1, FALSE)
  \/ \E n \in 1 .. MaxBulk : try_dequeue_bulk(n) \/ TokenDequeue(n, TRUE)

Next ==
  \/ Elsewhere \/ TokenMade \/ Dequeue
  \/ Score \/ Best \/ Sweep \/ SweepPast \/ Refused
  \/ Place \/ NoPlace \/ Current \/ Turn \/ Others

Spec == Init /\ [][Next]_vars

-----------------------------------------------------------------------------
(* Properties *)

TypeOK ==
  /\ producerCount \in 0 .. MaxProducers
  /\ listed \in {producerCount, producerCount - 1}
  /\ size \in [Producers -> 0 .. MaxSize]
  /\ globalOffset \in 0 .. MaxOffset
  /\ {token.current, token.desired, ptr, best} \subseteq 0 .. listed
  /\ token.consumed \in 0 .. Quota + 1 /\ left \in 0 .. MaxBulk

\* "Returns false if all producer streams appeared empty at the time they were
\* checked": a call that returns less than was asked for has found each
\* producer there was at its start without enough, whichever it began with,
\* however elements and turns moved meanwhile.
RefusalJustified == pc = "refused" => 1 .. start \subseteq seen

\* "make everyone rotate": among the same producers a token's place depends on
\* its id and on the turns it has followed alone, not on when it was first
\* placed or on how many turns it took at once; so no two tokens are sent to
\* one producer while there are as many producers as tokens.
Spread ==
  token.placed # None =>
    token.desired = ((token.id - 1 - (token.last + 1)) % token.placed) + 1
=============================================================================
