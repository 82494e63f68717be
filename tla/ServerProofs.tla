---------------------------- MODULE ServerProofs ----------------------------
(***************************************************************************)
(* The server for any number of contexts, keys, values, memtables and      *)
(* datagrams and queues of any capacity: every context has one owner, the  *)
(* store the server runs is the dictionary of AbstractKV, and the five     *)
(* threads and four queues behave as the one loop of SerialServer.         *)
(*                                                                         *)
(* The argument.  PipeInv says of every place in the pipeline which        *)
(* contexts are there (Apart, NoneLost) and what they hold (Contents), and *)
(* InCall ties the call in progress to the command in hand.  The contexts  *)
(* in the order of the pipeline, cut where the store is, are the inbox and *)
(* the outbox of SerialServer: a push or a pop inside one of the halves    *)
(* leaves the list as it is, since a queue and the hand next to it are     *)
(* read together, and the step in which a call takes effect moves one      *)
(* context from the front of the first half to the end of the second.      *)
(***************************************************************************)
EXTENDS Server, KVStoreProofs

USE DEF WorkerAt

-----------------------------------------------------------------------------
\* The contexts that wait for thread t, and the one it is working on.
Waiting(t) == {queue[t][i] : i \in 1 .. Len(queue[t])}
Holding(t) == {hand[t]} \ {NoCtx}

\* No context is in two places.
Apart ==
  /\ \A t \in Consumers : \A i, j \in 1 .. Len(queue[t]) :
       queue[t][i] = queue[t][j] => i = j
  /\ \A t, u \in Consumers : t # u => Waiting(t) \cap Waiting(u) = {}
  /\ \A t, u \in Threads : t # u => Holding(t) \cap Holding(u) = {}
  /\ \A t \in Threads, u \in Consumers : Holding(t) \cap Waiting(u) = {}

\* Where a context is says what it holds: a message as it was received, then
\* the command made of it, the result of that command, and the reply.
Received == Waiting("input") \cup Holding("rx")
Commands == Waiting("memtable") \cup Holding("input") \cup Holding("memtable")
Results == Waiting("output")
Answers == Waiting("tx") \cup Holding("output") \cup Holding("tx")
Owned == Received \cup Commands \cup Results \cup Answers

GoodReturn(r) ==
  r \in Returns /\ (r.status = "READ_PASS" => r.val \in Values)

Contents ==
  /\ \A c \in Owned : heap[c] # Free
  /\ \A c \in Received : heap[c].original_body \in Messages
  /\ \A c \in Commands :
       /\ heap[c].original_body \in Messages \ {Garbage}
       /\ heap[c].body = CmdOf(heap[c].original_body)
  /\ \A c \in Results :
       /\ heap[c].original_body \in Messages \ {Garbage}
       /\ GoodReturn(heap[c].body)
  /\ \A c \in Answers : heap[c].original_body \in Replies

\* Nothing else is allocated but what failed to parse.
Lost(c) == heap[c].original_body = Garbage /\ heap[c].id \in leaked
NoneLost == \A c \in Allocated : c \in Owned \/ Lost(c)

\* The memtable stage is in a call of the store only while it has a context.
Calling ==
  /\ wpc # "idle" => hand["memtable"] # NoCtx
  /\ wpc = "return" => GoodReturn(ret)

\* A reply sent, a context waiting or in hand: each is of a datagram received.
Busy == [t \in Threads |-> IF hand[t] = NoCtx THEN 0 ELSE 1]
Queued ==
  Len(queue["input"]) + Len(queue["memtable"]) + Len(queue["output"])
    + Len(queue["tx"])
InHands ==
  Busy["rx"] + Busy["input"] + Busy["memtable"] + Busy["output"] + Busy["tx"]
Load == Queued + InHands
Accounted == Len(wire) + Load <= received

PipeTypeOK ==
  /\ heap \in [Ctxs -> {Free} \cup
       [kind : {"ctx"}, id : 1 .. MaxRecv,
        original_body : Messages \cup Replies,
        body : Puts \cup Gets \cup Returns \cup {Uninit}]]
  /\ queue \in [Consumers -> Seq(Ctxs)]
  /\ \A t \in Consumers : Len(queue[t]) <= QueueCap
  /\ hand \in [Threads -> Ctxs \cup {NoCtx}]
  /\ received \in 0 .. MaxRecv
  /\ wire \in Seq([id : 1 .. MaxRecv, text : Texts])
  /\ leaked \subseteq 1 .. MaxRecv

PipeInv ==
  /\ PipeTypeOK /\ Apart /\ Contents /\ NoneLost /\ Calling /\ Accounted

-----------------------------------------------------------------------------
(* Moving a context *)

\* The threads that pop are threads, and none of them is rx.
LEMMA ThreadFacts ==
  /\ Consumers = {"input", "memtable", "output", "tx"}
  /\ Consumers \subseteq Threads
BY DEF Consumers, Threads

\* How many wait changes with the queue that changes.
LEMMA QueuedChange ==
  ASSUME \A u \in Consumers : Len(queue[u]) \in Int /\ Len(queue'[u]) \in Int,
         NEW t \in Consumers,
         \A u \in Consumers : u # t => queue'[u] = queue[u]
  PROVE  Queued' = Queued + (Len(queue'[t]) - Len(queue[t]))
<1> DEFINE i == Len(queue["input"])
           m == Len(queue["memtable"])
           o == Len(queue["output"])
           x == Len(queue["tx"])
           d == Len(queue'[t]) - Len(queue[t])
<1>1. t \in {"input", "memtable", "output", "tx"}
  BY DEF Threads, Consumers
<1>2. /\ i \in Int /\ m \in Int /\ o \in Int /\ x \in Int
      /\ i' \in Int /\ m' \in Int /\ o' \in Int /\ x' \in Int
  BY DEF Threads, Consumers
<1>3. /\ t # "input" => i' = i
      /\ t # "memtable" => m' = m
      /\ t # "output" => o' = o
      /\ t # "tx" => x' = x
  BY DEF Threads, Consumers
<1>4. /\ t = "input" => d = i' - i
      /\ t = "memtable" => d = m' - m
      /\ t = "output" => d = o' - o
      /\ t = "tx" => d = x' - x
  OBVIOUS
<1>5. Queued = i + m + o + x /\ Queued' = i' + m' + o' + x'
  BY DEF Queued
<1>6. Queued' = Queued + d
  <2> HIDE DEF i, m, o, x, d
  <2>1. CASE t = "input"
    <3>1. d = i' - i /\ m' = m /\ o' = o /\ x' = x
      BY <1>3, <1>4, <2>1
    <3> QED BY <1>2, <1>5, <3>1
  <2>2. CASE t = "memtable"
    <3>1. d = m' - m /\ i' = i /\ o' = o /\ x' = x
      BY <1>3, <1>4, <2>2
    <3> QED BY <1>2, <1>5, <3>1
  <2>3. CASE t = "output"
    <3>1. d = o' - o /\ i' = i /\ m' = m /\ x' = x
      BY <1>3, <1>4, <2>3
    <3> QED BY <1>2, <1>5, <3>1
  <2>4. CASE t = "tx"
    <3>1. d = x' - x /\ i' = i /\ m' = m /\ o' = o
      BY <1>3, <1>4, <2>4
    <3> QED BY <1>2, <1>5, <3>1
  <2> QED BY <1>1, <2>1, <2>2, <2>3, <2>4
<1> QED BY <1>6

\* How many are in hand changes with the hand that changes.
LEMMA InHandsChange ==
  ASSUME NEW t \in Threads,
         \A u \in Threads : u # t => hand'[u] = hand[u]
  PROVE  InHands' = InHands + (Busy'[t] - Busy[t])
<1> DEFINE r == Busy["rx"]
           i == Busy["input"]
           m == Busy["memtable"]
           o == Busy["output"]
           x == Busy["tx"]
           d == Busy'[t] - Busy[t]
<1>1. t \in {"rx", "input", "memtable", "output", "tx"}
  BY DEF Threads
<1>2. /\ r \in Int /\ i \in Int /\ m \in Int /\ o \in Int /\ x \in Int
      /\ r' \in Int /\ i' \in Int /\ m' \in Int /\ o' \in Int /\ x' \in Int
  BY DEF Busy, Threads
<1>3. /\ t # "rx" => r' = r
      /\ t # "input" => i' = i
      /\ t # "memtable" => m' = m
      /\ t # "output" => o' = o
      /\ t # "tx" => x' = x
  BY DEF Busy, Threads
<1>4. /\ t = "rx" => d = r' - r
      /\ t = "input" => d = i' - i
      /\ t = "memtable" => d = m' - m
      /\ t = "output" => d = o' - o
      /\ t = "tx" => d = x' - x
  OBVIOUS
<1>5. InHands = r + i + m + o + x /\ InHands' = r' + i' + m' + o' + x'
  BY DEF InHands
<1>6. InHands' = InHands + d
  <2> HIDE DEF r, i, m, o, x, d
  <2> QED BY <1>1, <1>2, <1>3, <1>4, <1>5
<1> QED BY <1>6

\* The counts are integers.
LEMMA CountTypes ==
  ASSUME PipeTypeOK
  PROVE  /\ Queued \in Int /\ InHands \in Int /\ Len(wire) \in Int
         /\ received \in Int
<1>1. Busy \in [Threads -> Int] /\ \A u \in Consumers : Len(queue[u]) \in Int
  BY DEF Busy, PipeTypeOK
<1>2. /\ Busy["rx"] \in Int /\ Busy["input"] \in Int
      /\ Busy["memtable"] \in Int /\ Busy["output"] \in Int
      /\ Busy["tx"] \in Int
  BY <1>1 DEF Threads
<1>3. /\ Len(queue["input"]) \in Int /\ Len(queue["memtable"]) \in Int
      /\ Len(queue["output"]) \in Int /\ Len(queue["tx"]) \in Int
  BY <1>1 DEF Threads, Consumers
<1>4. Queued \in Int
  BY <1>3 DEF Queued
<1>5. InHands \in Int
  BY <1>2 DEF InHands
<1> QED BY <1>4, <1>5 DEF PipeTypeOK

\* A pop takes the context at the head, and only that one, off the queue.
LEMMA PopEffect ==
  ASSUME PipeTypeOK, Apart, NEW t \in Consumers, Pop(t)
  PROVE  /\ Head(queue[t]) \in Waiting(t) /\ Head(queue[t]) \in Ctxs
         /\ Waiting(t)' = Waiting(t) \ {Head(queue[t])}
         /\ \A u \in Consumers : u # t => Waiting(u)' = Waiting(u)
         /\ queue' \in [Consumers -> Seq(Ctxs)]
         /\ \A u \in Consumers : Len(queue'[u]) <= QueueCap
         /\ Queued' = Queued - 1
         /\ \A u \in Consumers : \A i, j \in 1 .. Len(queue'[u]) :
              queue'[u][i] = queue'[u][j] => i = j
<1> DEFINE q == queue[t]
           c == Head(q)
           n == Len(q)
<1>1. q \in Seq(Ctxs) /\ q # <<>> /\ n \in Nat /\ n <= QueueCap
  BY DEF PipeTypeOK, Pop
<1>2. n >= 1
  BY <1>1
<1>3. /\ c = q[1] /\ c \in Ctxs /\ Tail(q) \in Seq(Ctxs)
      /\ Len(Tail(q)) = n - 1
      /\ \A i \in 1 .. n - 1 : Tail(q)[i] = q[i + 1]
  BY <1>1, HeadTailProperties
<1>4. /\ queue' = [queue EXCEPT ![t] = Tail(q)]
      /\ DOMAIN queue = Consumers
  BY DEF Pop, PipeTypeOK
<1>5. queue'[t] = Tail(q) /\ \A u \in Consumers : u # t => queue'[u] = queue[u]
  BY <1>4
<1>6. \A i, j \in 1 .. n : q[i] = q[j] => i = j
  BY DEF Apart
<1> HIDE DEF q, c, n
<1>7. {Tail(q)[i] : i \in 1 .. n - 1} = {q[i] : i \in 1 .. n} \ {c}
  <2>1. ASSUME NEW i \in 1 .. n - 1
        PROVE  Tail(q)[i] \in {q[k] : k \in 1 .. n} \ {c}
    <3>1. i + 1 \in 1 .. n /\ 1 \in 1 .. n /\ i + 1 # 1
      BY <1>1
    <3>2. q[i + 1] # q[1]
      BY <1>6, <3>1
    <3> QED BY <1>3, <3>1, <3>2
  <2>2. ASSUME NEW i \in 1 .. n, q[i] # c
        PROVE  q[i] \in {Tail(q)[k] : k \in 1 .. n - 1}
    <3>1. PICK k \in 1 .. n - 1 : i = k + 1
      <4>1. i # 1
        BY <1>3, <2>2
      <4>2. i - 1 \in 1 .. n - 1 /\ i = (i - 1) + 1
        BY <1>1, <4>1
      <4> QED BY <4>2
    <3> QED BY <1>3, <3>1
  <2> QED BY <2>1, <2>2
<1>8. \A i, j \in 1 .. n - 1 : Tail(q)[i] = Tail(q)[j] => i = j
  <2> SUFFICES ASSUME NEW i \in 1 .. n - 1, NEW j \in 1 .. n - 1,
                      Tail(q)[i] = Tail(q)[j]
               PROVE  i = j
    OBVIOUS
  <2>1. i + 1 \in 1 .. n /\ j + 1 \in 1 .. n
    BY <1>1
  <2>2. q[i + 1] = q[j + 1]
    BY <1>3
  <2>3. i + 1 = j + 1
    BY <1>6, <2>1, <2>2
  <2> QED BY <2>3
<1>9. Waiting(t) = {q[i] : i \in 1 .. n} /\ Waiting(t)' = Waiting(t) \ {c}
  <2>1. Waiting(t) = {q[i] : i \in 1 .. n}
    BY DEF Waiting, q, n
  <2>2. Waiting(t)' = {Tail(q)[i] : i \in 1 .. Len(Tail(q))}
    BY <1>5, Zenon DEF Waiting
  <2> QED BY <1>3, <1>7, <2>1, <2>2
<1>10. \A u \in Consumers : u # t => Waiting(u)' = Waiting(u)
  BY <1>5 DEF Waiting
<1>11. queue' \in [Consumers -> Seq(Ctxs)]
  BY <1>3, <1>4 DEF PipeTypeOK
<1>12. Queued' = Queued - 1
  <2>1. Len(queue'[t]) = Len(queue[t]) - 1 /\ Len(queue[t]) \in Int
    <3>1. n = Len(queue[t])
      BY DEF q, n
    <3> QED BY <1>1, <1>3, <1>5, <3>1
  <2>2. Queued' = Queued + (Len(queue'[t]) - Len(queue[t]))
    <3>1. \A u \in Consumers : Len(queue[u]) \in Int /\ Len(queue'[u]) \in Int
      BY <1>11 DEF PipeTypeOK
    <3> QED BY <1>5, <3>1, QueuedChange
  <2> QED BY <2>1, <2>2, CountTypes
<1>13. \A u \in Consumers : Len(queue'[u]) <= QueueCap
  <2>1. QueueCap \in Nat /\ \A u \in Consumers : Len(queue[u]) <= QueueCap
    BY ServerAssumption DEF PipeTypeOK
  <2> QED BY <1>1, <1>3, <1>5, <2>1
<1>14. \A u \in Consumers : \A i, j \in 1 .. Len(queue'[u]) :
         queue'[u][i] = queue'[u][j] => i = j
  BY <1>3, <1>5, <1>8 DEF Apart
<1>15. c \in Waiting(t)
  BY <1>1, <1>2, <1>3, <1>9
<1> QED BY <1>3, <1>9, <1>10, <1>11, <1>12, <1>13, <1>14, <1>15 DEF c, q

\* A push puts the context of a thread, and nothing else, into the queue.
LEMMA PushEffect ==
  ASSUME PipeTypeOK, Apart, NEW t \in Threads, NEW to \in Consumers,
         Push(t, to)
  PROVE  /\ hand[t] \in Ctxs /\ Holding(t) = {hand[t]} /\ Holding(t)' = {}
         /\ \A u \in Threads : u # t => Holding(u)' = Holding(u)
         /\ InHands' = InHands - 1
         /\ Waiting(to)' = Waiting(to) \cup {hand[t]}
         /\ \A u \in Consumers : u # to => Waiting(u)' = Waiting(u)
         /\ hand' \in [Threads -> Ctxs \cup {NoCtx}]
         /\ queue' \in [Consumers -> Seq(Ctxs)]
         /\ \A u \in Consumers : Len(queue'[u]) <= QueueCap
         /\ Queued' = Queued + 1
         /\ Apart'
<1> DEFINE q == queue[to]
           c == hand[t]
           n == Len(q)
<1>1. q \in Seq(Ctxs) /\ n \in Nat /\ n + 1 <= QueueCap /\ c \in Ctxs
  BY ServerAssumption DEF PipeTypeOK, Push
<1>2. /\ Append(q, c) \in Seq(Ctxs) /\ Len(Append(q, c)) = n + 1
      /\ \A i \in 1 .. n : Append(q, c)[i] = q[i]
      /\ Append(q, c)[n + 1] = c
  BY <1>1, AppendProperties
<1>3. /\ queue' = [queue EXCEPT ![to] = Append(q, c)]
      /\ hand' = [hand EXCEPT ![t] = NoCtx]
      /\ DOMAIN queue = Consumers /\ DOMAIN hand = Threads /\ c # NoCtx
  BY DEF Push, PipeTypeOK
<1>4. /\ queue'[to] = Append(q, c)
      /\ \A u \in Consumers : u # to => queue'[u] = queue[u]
      /\ hand'[t] = NoCtx /\ \A u \in Threads : u # t => hand'[u] = hand[u]
  BY <1>3
<1>5. \A i, j \in 1 .. n : q[i] = q[j] => i = j
  BY DEF Apart
<1>6. Holding(t) = {c} /\ Holding(t)' = {}
      /\ \A u \in Threads : u # t => Holding(u)' = Holding(u)
  BY <1>3, <1>4 DEF Holding
<1>7. Waiting(to) = {q[i] : i \in 1 .. n} /\ c \notin Waiting(to)
  <2>1. Waiting(to) = {q[i] : i \in 1 .. n}
    BY Zenon DEF Waiting
  <2>2. c \notin Waiting(to)
    BY <1>6 DEF Apart
  <2> QED BY <2>1, <2>2
<1>8. InHands' = InHands - 1
  <2>1. Busy[t] = 1 /\ Busy'[t] = 0
    BY <1>3, <1>4 DEF Busy
  <2> QED BY <1>4, <2>1, InHandsChange, CountTypes
<1> HIDE DEF q, c, n
<1>9. {Append(q, c)[i] : i \in 1 .. n + 1} = {q[i] : i \in 1 .. n} \cup {c}
  <2>1. ASSUME NEW i \in 1 .. n + 1
        PROVE  Append(q, c)[i] \in {q[k] : k \in 1 .. n} \cup {c}
    <3>1. i = n + 1 \/ i \in 1 .. n
      BY <1>1
    <3> QED BY <1>2, <3>1
  <2>2. ASSUME NEW i \in 1 .. n
        PROVE  q[i] \in {Append(q, c)[k] : k \in 1 .. n + 1}
    <3>1. i \in 1 .. n + 1
      BY <1>1
    <3> QED BY <1>2, <3>1
  <2>3. c \in {Append(q, c)[k] : k \in 1 .. n + 1}
    <3>1. n + 1 \in 1 .. n + 1
      BY <1>1
    <3> QED BY <1>2, <3>1
  <2> QED BY <2>1, <2>2, <2>3
<1>10. Waiting(to)' = Waiting(to) \cup {c}
       /\ \A u \in Consumers : u # to => Waiting(u)' = Waiting(u)
  <2>1. Waiting(to)' = {Append(q, c)[i] : i \in 1 .. Len(Append(q, c))}
    BY <1>4, Zenon DEF Waiting
  <2>2. \A u \in Consumers : u # to => Waiting(u)' = Waiting(u)
    BY <1>4 DEF Waiting
  <2> QED BY <1>2, <1>7, <1>9, <2>1, <2>2
<1>11. \A i, j \in 1 .. n + 1 : Append(q, c)[i] = Append(q, c)[j] => i = j
  <2> SUFFICES ASSUME NEW i \in 1 .. n + 1, NEW j \in 1 .. n + 1,
                      Append(q, c)[i] = Append(q, c)[j]
               PROVE  i = j
    OBVIOUS
  <2>1. (i = n + 1 \/ i \in 1 .. n) /\ (j = n + 1 \/ j \in 1 .. n)
    BY <1>1
  <2>2. \A k \in 1 .. n : q[k] # c
    BY <1>7
  <2> QED BY <1>2, <1>5, <2>1, <2>2
<1>12. \A u \in Consumers : \A i, j \in 1 .. Len(queue'[u]) :
         queue'[u][i] = queue'[u][j] => i = j
  <2> SUFFICES ASSUME NEW u \in Consumers
               PROVE  \A i, j \in 1 .. Len(queue'[u]) :
                        queue'[u][i] = queue'[u][j] => i = j
    OBVIOUS
  <2>1. CASE u = to
    <3>1. queue'[u] = Append(q, c) /\ Len(Append(q, c)) = n + 1
      BY <1>2, <1>4, <2>1
    <3> QED BY <1>11, <3>1
  <2>2. CASE u # to
    <3>1. queue'[u] = queue[u]
      BY <1>4, <2>2
    <3> QED BY <3>1 DEF Apart
  <2> QED BY <2>1, <2>2
<1>13. Apart'
  <2>1. \A u, w \in Consumers : u # w => Waiting(u)' \cap Waiting(w)' = {}
    BY <1>6, <1>10 DEF Apart
  <2>2. \A u, w \in Threads : u # w => Holding(u)' \cap Holding(w)' = {}
    BY <1>6 DEF Apart
  <2>3. \A u \in Threads, w \in Consumers : Holding(u)' \cap Waiting(w)' = {}
    BY <1>6, <1>10 DEF Apart
  <2> QED BY <1>12, <2>1, <2>2, <2>3 DEF Apart
<1>14. /\ queue' \in [Consumers -> Seq(Ctxs)]
       /\ hand' \in [Threads -> Ctxs \cup {NoCtx}]
  BY <1>2, <1>3 DEF PipeTypeOK
<1>15. Queued' = Queued + 1
  <2>1. Len(queue'[to]) = Len(queue[to]) + 1 /\ Len(queue[to]) \in Int
    <3>1. n = Len(queue[to])
      BY DEF q, n
    <3> QED BY <1>1, <1>2, <1>4, <3>1
  <2>2. Queued' = Queued + (Len(queue'[to]) - Len(queue[to]))
    <3>1. \A u \in Consumers : Len(queue[u]) \in Int /\ Len(queue'[u]) \in Int
      BY <1>14 DEF PipeTypeOK
    <3> QED BY <1>4, <3>1, QueuedChange
  <2> QED BY <2>1, <2>2, CountTypes
<1>16. \A u \in Consumers : Len(queue'[u]) <= QueueCap
  BY <1>1, <1>2, <1>4 DEF PipeTypeOK
<1> QED BY <1>1, <1>6, <1>8, <1>10, <1>13, <1>14, <1>15, <1>16 DEF c

\* A thread takes what it pops into its hand.
LEMMA TakeEffect ==
  ASSUME PipeTypeOK, Apart, NEW t \in Consumers, Take(t)
  PROVE  /\ Head(queue[t]) \in Waiting(t) /\ Head(queue[t]) \in Ctxs
         /\ hand'[t] = Head(queue[t]) /\ Holding(t) = {}
         /\ Waiting(t)' = Waiting(t) \ {Head(queue[t])}
         /\ \A u \in Consumers : u # t => Waiting(u)' = Waiting(u)
         /\ Holding(t)' = {Head(queue[t])}
         /\ \A u \in Threads : u # t => Holding(u)' = Holding(u)
         /\ InHands' = InHands + 1
         /\ hand' \in [Threads -> Ctxs \cup {NoCtx}]
         /\ queue' \in [Consumers -> Seq(Ctxs)]
         /\ \A u \in Consumers : Len(queue'[u]) <= QueueCap
         /\ Queued' = Queued - 1
         /\ Apart'
<1> DEFINE c == Head(queue[t])
<1>1. Pop(t) /\ hand[t] = NoCtx /\ hand' = [hand EXCEPT ![t] = c]
  BY DEF Take, Pop
<1>2. /\ c \in Waiting(t) /\ c \in Ctxs
      /\ Waiting(t)' = Waiting(t) \ {c}
      /\ \A u \in Consumers : u # t => Waiting(u)' = Waiting(u)
      /\ queue' \in [Consumers -> Seq(Ctxs)]
      /\ \A u \in Consumers : Len(queue'[u]) <= QueueCap
      /\ Queued' = Queued - 1
      /\ \A u \in Consumers : \A i, j \in 1 .. Len(queue'[u]) :
           queue'[u][i] = queue'[u][j] => i = j
  BY <1>1, PopEffect
<1> HIDE DEF c
<1>3. /\ hand'[t] = c /\ \A u \in Threads : u # t => hand'[u] = hand[u]
      /\ hand' \in [Threads -> Ctxs \cup {NoCtx}] /\ c # NoCtx
  BY <1>1, <1>2, ThreadFacts, ServerAssumption DEF PipeTypeOK
<1>4. /\ Holding(t) = {} /\ Holding(t)' = {c}
      /\ \A u \in Threads : u # t => Holding(u)' = Holding(u)
  BY <1>1, <1>3 DEF Holding
<1>b. InHands' = InHands + 1
  <2>1. Busy[t] = 0 /\ Busy'[t] = 1
    BY <1>1, <1>3, ThreadFacts DEF Busy
  <2> QED BY <1>3, <2>1, InHandsChange, CountTypes, ThreadFacts
<1>p. /\ Waiting(t)' = Waiting(t) \ {c} /\ c \in Waiting(t)
      /\ \A u \in Consumers : u # t => Waiting(u)' = Waiting(u)
  BY <1>2
<1>5. Apart'
  <2>1. \A u, w \in Consumers : u # w => Waiting(u)' \cap Waiting(w)' = {}
    BY <1>p DEF Apart
  <2>2. \A u, w \in Threads : u # w => Holding(u)' \cap Holding(w)' = {}
    BY <1>p, <1>4 DEF Apart
  <2>3. \A u \in Threads, w \in Consumers : Holding(u)' \cap Waiting(w)' = {}
    BY <1>p, <1>4 DEF Apart
  <2> QED BY <1>2, <2>1, <2>2, <2>3 DEF Apart
<1> QED BY <1>2, <1>3, <1>4, <1>b, <1>5 DEF c

\* A thread is done with its context and frees it.
LEMMA LetGoEffect ==
  ASSUME PipeTypeOK, Apart, NEW t \in Threads, hand[t] # NoCtx, LetGo(t),
         UNCHANGED queue
  PROVE  /\ hand[t] \in Ctxs /\ Holding(t) = {hand[t]} /\ Holding(t)' = {}
         /\ \A u \in Threads : u # t => Holding(u)' = Holding(u)
         /\ InHands' = InHands - 1
         /\ \A u \in Consumers : Waiting(u)' = Waiting(u)
         /\ hand' \in [Threads -> Ctxs \cup {NoCtx}]
         /\ Apart'
<1>1. /\ hand'[t] = NoCtx /\ \A u \in Threads : u # t => hand'[u] = hand[u]
      /\ hand' \in [Threads -> Ctxs \cup {NoCtx}]
  BY DEF LetGo, PipeTypeOK
<1>2. /\ hand[t] \in Ctxs /\ Holding(t) = {hand[t]} /\ Holding(t)' = {}
      /\ \A u \in Threads : u # t => Holding(u)' = Holding(u)
  BY <1>1 DEF Holding, PipeTypeOK
<1>b. InHands' = InHands - 1
  <2>1. Busy[t] = 1 /\ Busy'[t] = 0
    BY <1>1 DEF Busy
  <2> QED BY <1>1, <2>1, InHandsChange, CountTypes
<1>3. \A u \in Consumers : Waiting(u)' = Waiting(u)
  BY DEF Waiting
<1>4. Apart'
  <2>1. \A u, w \in Consumers : u # w => Waiting(u)' \cap Waiting(w)' = {}
    BY <1>3 DEF Apart
  <2>2. \A u, w \in Threads : u # w => Holding(u)' \cap Holding(w)' = {}
    BY <1>2 DEF Apart
  <2>3. \A u \in Threads, w \in Consumers : Holding(u)' \cap Waiting(w)' = {}
    BY <1>2, <1>3 DEF Apart
  <2>4. \A u \in Consumers : \A i, j \in 1 .. Len(queue'[u]) :
          queue'[u][i] = queue'[u][j] => i = j
    BY DEF Apart
  <2> QED BY <2>1, <2>2, <2>3, <2>4 DEF Apart
<1> QED BY <1>1, <1>2, <1>b, <1>3, <1>4

-----------------------------------------------------------------------------
(* What contexts hold *)

\* A context is at one of the four stages of its way.
LEMMA StagesApart ==
  ASSUME PipeTypeOK, Apart
  PROVE  /\ Owned \subseteq Ctxs
         /\ Received \cap Commands = {} /\ Received \cap Results = {}
         /\ Received \cap Answers = {} /\ Commands \cap Results = {}
         /\ Commands \cap Answers = {} /\ Results \cap Answers = {}
<1>1. \A t \in Consumers : Waiting(t) \subseteq Ctxs
  BY DEF Waiting, PipeTypeOK
<1>2. \A t \in Threads : Holding(t) \subseteq Ctxs
  BY DEF Holding, PipeTypeOK
<1>3. /\ {"input", "memtable", "output", "tx"} = Consumers
      /\ {"rx", "input", "memtable", "output", "tx"} = Threads
  BY DEF Threads, Consumers
<1>4. Owned \subseteq Ctxs
  BY <1>1, <1>2, <1>3 DEF Owned, Received, Commands, Results, Answers
<1>5. /\ \A t, u \in Consumers : t # u => Waiting(t) \cap Waiting(u) = {}
      /\ \A t, u \in Threads : t # u => Holding(t) \cap Holding(u) = {}
      /\ \A t \in Threads, u \in Consumers : Holding(t) \cap Waiting(u) = {}
  BY DEF Apart
<1>6. /\ Waiting("input") \cap Waiting("memtable") = {}
      /\ Waiting("input") \cap Waiting("output") = {}
      /\ Waiting("input") \cap Waiting("tx") = {}
      /\ Waiting("memtable") \cap Waiting("output") = {}
      /\ Waiting("memtable") \cap Waiting("tx") = {}
      /\ Waiting("output") \cap Waiting("tx") = {}
  BY <1>3, <1>5
<1>7. /\ Holding("rx") \cap Holding("input") = {}
      /\ Holding("rx") \cap Holding("memtable") = {}
      /\ Holding("rx") \cap Holding("output") = {}
      /\ Holding("rx") \cap Holding("tx") = {}
      /\ Holding("input") \cap Holding("output") = {}
      /\ Holding("input") \cap Holding("tx") = {}
      /\ Holding("memtable") \cap Holding("output") = {}
      /\ Holding("memtable") \cap Holding("tx") = {}
  BY <1>3, <1>5
<1>8. \A t \in {"rx", "input", "memtable", "output", "tx"} :
        /\ Holding(t) \cap Waiting("input") = {}
        /\ Holding(t) \cap Waiting("memtable") = {}
        /\ Holding(t) \cap Waiting("output") = {}
        /\ Holding(t) \cap Waiting("tx") = {}
  BY <1>3, <1>5
<1> QED BY <1>4, <1>6, <1>7, <1>8 DEF Received, Commands, Results, Answers

\* A step that moves contexts within their stage and leaves them as they are.
LEMMA QuietContents ==
  ASSUME Contents, NoneLost, UNCHANGED <<heap, leaked>>,
         Received' = Received, Commands' = Commands, Results' = Results,
         Answers' = Answers
  PROVE  Contents' /\ NoneLost'
BY DEF Contents, NoneLost, Lost, Owned, Allocated

\* The command made of a message is one the memtable stage can carry out.
LEMMA CmdOfType ==
  ASSUME NEW msg \in Messages, msg # Garbage
  PROVE  CmdOf(msg) \in Puts \cup Gets \cup {Uninit}
<1>1. CASE msg \in Reads
  BY <1>1 DEF CmdOf, Reads, Gets
<1>2. CASE msg \in Writes
  BY <1>2 DEF CmdOf, Writes, Puts
<1>3. CASE msg = Unknown
  BY <1>3 DEF CmdOf, Unknown
<1> QED BY <1>1, <1>2, <1>3 DEF Messages

\* The text of a result is one of the texts of a reply.
LEMMA TextType ==
  ASSUME NEW r, GoodReturn(r)
  PROVE  Text(r) \in Texts
BY DEF GoodReturn, Returns, Statuses, Text, Texts

\* What the calls of the store say of a command: it has operands.
LEMMA CommandType ==
  ASSUME NEW cmd \in Puts \cup Gets \cup {Uninit}
  PROVE  /\ cmd.op = "get" => cmd.key \in Keys
         /\ cmd.op = "put" => cmd.key \in Keys /\ cmd.val \in Values
BY DEF Puts, Gets, Uninit

\* A step inside a call is one of a call in progress, and leaves it that call.
LEMMA InsideFacts ==
  ASSUME Inside
  PROVE  Worker /\ wpc # "idle" /\ UNCHANGED req
BY DEF Inside, Worker, PutScan, PutReject, PutAssert, PutFind, PutOldSize,
   PutAssign, PutCount, PutFull, PutSeal, PutSignal, GetFind, GetRead

\* A step of the server is one of the store's worker, or leaves the store as
\* it is, but for the process that may end when a body does not parse or
\* recvfrom fails.
LEMMA StoreStep ==
  ASSUME PipeTypeOK, Apart, Contents, [ServerNext]_serverVars
  PROVE  \/ Worker
         \/ UNCHANGED vars
         \/ /\ alive' \in BOOLEAN
            /\ UNCHANGED <<mtVars, wVars, fVars, flush_sema, closing>>
<1>1. ASSUME MemCall PROVE Worker
  <2>1. Held("memtable").body \in Puts \cup Gets \cup {Uninit}
    <3>1. hand["memtable"] \in Commands
      BY <1>1 DEF MemCall, Commands, Holding
    <3> QED BY <3>1, CmdOfType DEF Contents, Held
  <2>2. EmptyKey \in Keys /\ EmptyVal \in Values
    BY ServerAssumption, MemTableAssumption
  <2> QED BY <1>1, <2>1, <2>2, CommandType DEF MemCall, Worker, Call
<1>2. MemStep => Worker
  BY DEF MemStep, Worker
<1>3. MemPush => Worker
  BY DEF MemPush, Worker
<1> QED BY <1>1, <1>2, <1>3
    DEF ServerNext, RxRecv, RxFail, RxPush, Input, InputPop, InputDrop,
        InputPush, Memtable, MemPop, MemDrop, Output, OutPop, OutPush, Tx,
        TxPop, TxSend, serverVars

\* Every step of the server keeps the invariant of the store.
LEMMA KInvServer ==
  ASSUME KInv, PipeTypeOK, Apart, Contents, [ServerNext]_serverVars
  PROVE  KInv'
<1>1. CASE Worker
  BY <1>1, WorkerKInv
<1>2. CASE UNCHANGED vars
  BY <1>2, KInvStep DEF CloseNext
<1>3. CASE alive' \in BOOLEAN
           /\ UNCHANGED <<mtVars, wVars, fVars, flush_sema, closing>>
  BY <1>3 DEF KInv, TypeOK, MemTableTypeOK, Control, Writing, Written,
     FlushMark, mtVars, wVars, chosen, locals, history, fVars
<1> QED BY <1>1, <1>2, <1>3, StoreStep

-----------------------------------------------------------------------------
(* The pipeline, step by step *)

\* The pipeline is empty at first.
LEMMA PipeInit == ServerInit => PipeInv
<1> SUFFICES ASSUME ServerInit PROVE PipeInv
  OBVIOUS
<1> USE DEF ServerInit
<1>1. \A t \in Consumers : queue[t] = <<>> /\ Len(queue[t]) = 0
  OBVIOUS
<1>2. PipeTypeOK
  BY <1>1, ServerAssumption DEF PipeTypeOK
<1>3. /\ \A t \in Consumers : Waiting(t) = {}
      /\ \A t \in Threads : Holding(t) = {} /\ Busy[t] = 0
  BY <1>1 DEF Waiting, Holding, Busy
<1>4. Apart
  BY <1>1, <1>3 DEF Apart
<1>5. Received = {} /\ Commands = {} /\ Results = {} /\ Answers = {}
      /\ Allocated = {}
  BY <1>3 DEF Received, Commands, Results, Answers, Allocated, Threads,
     Consumers
<1>6. Contents /\ NoneLost
  BY <1>5 DEF Contents, NoneLost, Owned
<1>7. Calling
  BY DEF Calling, Init
<1>8. Accounted
  <2>1. Queued = 0 /\ InHands = 0
    BY <1>1, <1>3 DEF Queued, InHands, Threads, Consumers
  <2> QED BY <2>1 DEF Accounted, Load
<1> QED BY <1>2, <1>4, <1>6, <1>7, <1>8 DEF PipeInv

\* rx: a new context is nowhere yet.
LEMMA RxRecvStep ==
  ASSUME PipeInv, NEW msg \in Messages, RxRecv(msg)
  PROVE  PipeInv'
<1> USE DEF PipeInv
<1> DEFINE c == Fresh
           x == [kind |-> "ctx", id |-> received', original_body |-> msg,
                 body |-> Uninit]
<1>1. c \in Ctxs /\ heap[c] = Free /\ c \notin Owned
  <2>1. \E d \in Ctxs : heap[d] = Free
    BY DEF RxRecv, Allocated
  <2>2. c \in Ctxs /\ heap[c] = Free
    BY <2>1 DEF Fresh
  <2> QED BY <2>2 DEF Contents
<1>2. /\ heap' = [heap EXCEPT ![c] = x] /\ hand["rx"] = NoCtx
      /\ hand' = [hand EXCEPT !["rx"] = c]
      /\ UNCHANGED <<queue, wire, leaked, vars>>
      /\ received' = received + 1 /\ received' \in 1 .. MaxRecv
  BY ServerAssumption DEF RxRecv, PipeTypeOK
<1>3. x \in [kind : {"ctx"}, id : 1 .. MaxRecv,
             original_body : Messages \cup Replies,
             body : Puts \cup Gets \cup Returns \cup {Uninit}]
      /\ x # Free /\ x.original_body = msg
  BY <1>2 DEF Free
<1> HIDE DEF c, x
<1>4. /\ heap'[c] = x /\ \A d \in Ctxs : d # c => heap'[d] = heap[d]
  BY <1>1, <1>2 DEF PipeTypeOK
<1>5. PipeTypeOK'
  BY <1>1, <1>2, <1>3 DEF PipeTypeOK, Threads
<1>6. /\ Holding("rx") = {} /\ Holding("rx")' = {c}
      /\ \A u \in Threads : u # "rx" => Holding(u)' = Holding(u)
      /\ \A u \in Consumers : Waiting(u)' = Waiting(u)
  <2>1. /\ hand'["rx"] = c /\ c # NoCtx
        /\ \A u \in Threads : u # "rx" => hand'[u] = hand[u]
    BY <1>1, <1>2, ServerAssumption DEF PipeTypeOK, Threads
  <2>2. \A u \in Consumers : Waiting(u)' = Waiting(u)
    BY <1>2 DEF Waiting
  <2> QED BY <1>2, <2>1, <2>2 DEF Holding
<1>7. /\ \A t \in Consumers : c \notin Waiting(t)
      /\ \A t \in Threads : c \notin Holding(t)
  BY <1>1 DEF Owned, Received, Commands, Results, Answers, Threads, Consumers
<1>8. Apart'
  <2>1. \A u, w \in Consumers : u # w => Waiting(u)' \cap Waiting(w)' = {}
    BY <1>6 DEF Apart
  <2>2. \A u, w \in Threads : u # w => Holding(u)' \cap Holding(w)' = {}
    BY <1>1, <1>6, <1>7 DEF Apart
  <2>3. \A u \in Threads, w \in Consumers : Holding(u)' \cap Waiting(w)' = {}
    BY <1>1, <1>6, <1>7 DEF Apart
  <2>4. \A u \in Consumers : \A i, j \in 1 .. Len(queue'[u]) :
          queue'[u][i] = queue'[u][j] => i = j
    BY <1>2 DEF Apart
  <2> QED BY <2>1, <2>2, <2>3, <2>4 DEF Apart
<1>9. /\ Received' = Received \cup {c} /\ Commands' = Commands
      /\ Results' = Results /\ Answers' = Answers
  BY <1>6 DEF Received, Commands, Results, Answers, Threads, Consumers
<1>10. Contents' /\ NoneLost'
  <2>1. Contents'
    BY <1>1, <1>3, <1>4, <1>9, StagesApart DEF Contents, Owned
  <2>2. NoneLost'
    BY <1>1, <1>2, <1>4, <1>9 DEF NoneLost, Lost, Owned, Allocated
  <2> QED BY <2>1, <2>2
<1>11. Calling'
  BY <1>2 DEF Calling, vars, wVars, PipeTypeOK, Threads
<1>12. Accounted'
  <2>1. Load' = Load + 1
    <3>1. InHands' = InHands + (Busy'["rx"] - Busy["rx"])
      BY <1>2, InHandsChange DEF PipeTypeOK, Threads
    <3>b. Busy["rx"] = 0 /\ Busy'["rx"] = 1
      BY <1>1, <1>2, ServerAssumption DEF Busy, PipeTypeOK, Threads
    <3>2. Queued' = Queued
      BY <1>2 DEF Queued
    <3> QED BY <3>1, <3>b, <3>2, CountTypes DEF Load
  <2>2. Load \in Int /\ Len(wire) \in Int /\ received \in Int
    BY CountTypes DEF Load
  <2> QED BY <1>2, <2>1, <2>2 DEF Accounted
<1> QED BY <1>5, <1>8, <1>10, <1>11, <1>12

\* A step that moves a context on within its stage.
LEMMA MoveStep ==
  ASSUME PipeInv, UNCHANGED <<heap, ends>>,
         hand' \in [Threads -> Ctxs \cup {NoCtx}],
         queue' \in [Consumers -> Seq(Ctxs)],
         \A u \in Consumers : Len(queue'[u]) <= QueueCap,
         Apart', Calling', Load' = Load,
         Received' = Received, Commands' = Commands, Results' = Results,
         Answers' = Answers
  PROVE  PipeInv'
<1>1. PipeTypeOK'
  BY DEF PipeInv, PipeTypeOK, ends
<1>2. Contents' /\ NoneLost'
  BY QuietContents DEF PipeInv, ends
<1>3. Accounted'
  BY DEF PipeInv, Accounted, ends
<1> QED BY <1>1, <1>2, <1>3 DEF PipeInv

\* Where the contexts are after such a step.
LEMMA PushStep ==
  ASSUME PipeInv, NEW t \in Threads, NEW to \in Consumers, Push(t, to),
         <<t, to>> \in {<<"rx", "input">>, <<"input", "memtable">>,
                       <<"output", "tx">>},
         UNCHANGED <<vars, heap, ends>>
  PROVE  PipeInv'
<1>1. /\ Holding(t) = {hand[t]} /\ Holding(t)' = {}
      /\ \A u \in Threads : u # t => Holding(u)' = Holding(u)
      /\ InHands' = InHands - 1
      /\ Waiting(to)' = Waiting(to) \cup {hand[t]}
      /\ \A u \in Consumers : u # to => Waiting(u)' = Waiting(u)
      /\ hand' \in [Threads -> Ctxs \cup {NoCtx}]
      /\ queue' \in [Consumers -> Seq(Ctxs)]
      /\ \A u \in Consumers : Len(queue'[u]) <= QueueCap
      /\ Queued' = Queued + 1
      /\ Apart'
  BY PushEffect DEF PipeInv
<1>2. /\ Received' = Received /\ Commands' = Commands
      /\ Results' = Results /\ Answers' = Answers
  <2>1. \/ t = "rx" /\ to = "input"
        \/ t = "input" /\ to = "memtable"
        \/ t = "output" /\ to = "tx"
    OBVIOUS
  <2>2. CASE t = "rx" /\ to = "input"
    BY <1>1, <2>2
    DEF Received, Commands, Results, Answers, Threads, Consumers
  <2>3. CASE t = "input" /\ to = "memtable"
    BY <1>1, <2>3
    DEF Received, Commands, Results, Answers, Threads, Consumers
  <2>4. CASE t = "output" /\ to = "tx"
    BY <1>1, <2>4
    DEF Received, Commands, Results, Answers, Threads, Consumers
  <2> QED BY <2>1, <2>2, <2>3, <2>4
<1>3. Calling'
  <2>1. t # "memtable"
    OBVIOUS
  <2>2. hand'["memtable"] = hand["memtable"]
    BY <2>1 DEF Push, PipeInv, PipeTypeOK, Threads
  <2> QED BY <2>2 DEF PipeInv, Calling, vars, wVars
<1>4. Load' = Load
  BY <1>1, CountTypes DEF Load, PipeInv
<1> QED BY <1>1, <1>2, <1>3, <1>4, MoveStep

\* A context taken from a queue stays at its stage.
LEMMA TakeStep ==
  ASSUME PipeInv, NEW t \in {"memtable", "tx"}, Take(t),
         UNCHANGED <<vars, heap, ends>>
  PROVE  PipeInv'
<1>0. t \in Consumers
  BY DEF Consumers, Threads
<1>1. /\ Holding(t) = {} /\ Head(queue[t]) \in Waiting(t)
      /\ Waiting(t)' = Waiting(t) \ {Head(queue[t])}
      /\ \A u \in Consumers : u # t => Waiting(u)' = Waiting(u)
      /\ Holding(t)' = {Head(queue[t])}
      /\ \A u \in Threads : u # t => Holding(u)' = Holding(u)
      /\ hand'[t] = Head(queue[t]) /\ Head(queue[t]) \in Ctxs
      /\ InHands' = InHands + 1 /\ Queued' = Queued - 1
      /\ hand' \in [Threads -> Ctxs \cup {NoCtx}]
      /\ queue' \in [Consumers -> Seq(Ctxs)]
      /\ \A u \in Consumers : Len(queue'[u]) <= QueueCap
      /\ Apart'
  BY <1>0, TakeEffect DEF PipeInv
<1>2. /\ Received' = Received /\ Commands' = Commands
      /\ Results' = Results /\ Answers' = Answers
  <2>1. CASE t = "memtable"
    BY <1>1, <2>1
    DEF Received, Commands, Results, Answers, Threads, Consumers
  <2>2. CASE t = "tx"
    BY <1>1, <2>2
    DEF Received, Commands, Results, Answers, Threads, Consumers
  <2> QED BY <2>1, <2>2
<1>3. Calling'
  <2>1. hand["memtable"] # NoCtx => hand'["memtable"] # NoCtx
    BY <1>0, <1>1, ServerAssumption DEF Take, PipeInv, PipeTypeOK, Threads
  <2> QED BY <2>1 DEF PipeInv, Calling, vars, wVars
<1>4. Load' = Load
  BY <1>1, CountTypes DEF Load, PipeInv
<1> QED BY <1>1, <1>2, <1>3, <1>4, MoveStep

\* A step of the store: what it returns is what the reply can be made of.
LEMMA StoreReturns ==
  ASSUME KInv, Calling, MemStep
  PROVE  Calling'
<1> USE DEF Calling
<1>1. hand' = hand /\ wpc # "idle"
  BY InsideFacts DEF MemStep, pipeVars
<1>2. ASSUME GetRead PROVE GoodReturn(ret')
  <2> DEFINE v == Entry(Searched, req.key)
  <2>1. v \in Values
    <3>1. Searched \in Tables /\ req.key \in Keys /\ TypeOK
      BY <1>2, SearchedType DEF GetRead, KInv, Control, Gets
    <3> QED BY <3>1, EntryType
  <2> HIDE DEF v
  <2>2. ret' = [status |-> "READ_PASS", val |-> v]
    BY <1>2 DEF GetRead, Return, v
  <2> QED BY <2>1, <2>2 DEF GoodReturn, Returns, Statuses, Maybe
<1>3. ASSUME ~GetRead, wpc' = "return" PROVE GoodReturn(ret')
  <2>1. \/ ret' = [status |-> "WRITE_PASS", val |-> NoValue]
        \/ ret' = [status |-> "WAIT_FLUSH", val |-> NoValue]
        \/ ret' = [status |-> "READ_FAIL", val |-> NoValue]
    BY <1>3 DEF MemStep, Inside, PutScan, PutReject, PutAssert, PutFind,
       PutOldSize, PutAssign, PutCount, PutFull, PutSeal, PutSignal, GetFind,
       Return
  <2> QED BY <2>1 DEF GoodReturn, Returns, Statuses, Maybe
<1> QED BY <1>1, <1>2, <1>3

\* Nothing moves: neither does what depends on where the contexts are.
LEMMA PlacesKept ==
  ASSUME Apart, UNCHANGED <<queue, hand>>
  PROVE  Apart'
<1>1. /\ \A t \in Consumers : Waiting(t)' = Waiting(t)
      /\ \A t \in Threads : Holding(t)' = Holding(t)
  BY DEF Waiting, Holding
<1>2. \A t \in Consumers : \A i, j \in 1 .. Len(queue'[t]) :
        queue'[t][i] = queue'[t][j] => i = j
  BY DEF Apart
<1> QED BY <1>1, <1>2 DEF Apart

\* A step that moves nothing keeps the pipeline as it is.
LEMMA KeptStep ==
  ASSUME PipeInv, UNCHANGED pipeVars, Calling'
  PROVE  PipeInv'
<1>1. /\ Received' = Received /\ Commands' = Commands
      /\ Results' = Results /\ Answers' = Answers
  BY DEF Received, Commands, Results, Answers, Waiting, Holding, pipeVars
<1>2. Apart'
  BY PlacesKept DEF PipeInv, pipeVars
<1>3. Load' = Load
  BY DEF Load, Queued, InHands, Busy, pipeVars
<1>4. /\ hand' \in [Threads -> Ctxs \cup {NoCtx}]
      /\ queue' \in [Consumers -> Seq(Ctxs)]
      /\ \A u \in Consumers : Len(queue'[u]) <= QueueCap
  BY DEF PipeInv, PipeTypeOK, pipeVars
<1> QED BY <1>1, <1>2, <1>3, <1>4, MoveStep DEF pipeVars

\* A step of a call moves no context.
LEMMA StoreStepPipe ==
  ASSUME KInv, PipeInv, MemCall \/ MemStep
  PROVE  PipeInv'
<1>1. UNCHANGED pipeVars
  BY DEF MemCall, MemStep
<1>2. Calling'
  <2>1. CASE MemStep
    BY <2>1, StoreReturns DEF PipeInv
  <2>2. CASE MemCall
    BY <1>1, <2>2 DEF MemCall, Calling, GetCall, PutCall, pipeVars
  <2> QED BY <2>1, <2>2
<1> QED BY <1>1, <1>2, KeptStep

\* What a stage writes into the context it holds.
Context == [kind : {"ctx"}, id : 1 .. MaxRecv,
            original_body : Messages \cup Replies,
            body : Puts \cup Gets \cup Returns \cup {Uninit}]

\* A context whose message and body are written stays a context.
LEMMA HeapWrite ==
  ASSUME PipeTypeOK, NEW c \in Ctxs, heap[c] # Free,
         NEW o \in Messages \cup Replies,
         NEW b \in Puts \cup Gets \cup Returns \cup {Uninit},
         heap' = [heap EXCEPT ![c].original_body = o, ![c].body = b]
  PROVE  /\ heap' \in [Ctxs -> {Free} \cup Context]
         /\ heap'[c] # Free /\ heap'[c].original_body = o /\ heap'[c].body = b
         /\ heap'[c].id = heap[c].id
         /\ \A d \in Ctxs : d # c => heap'[d] = heap[d]
<1>1. heap \in [Ctxs -> {Free} \cup Context] /\ heap[c] \in Context
  BY DEF PipeTypeOK, Context
<1>2. heap' = [heap EXCEPT ![c] = [heap[c] EXCEPT !.original_body = o,
                                                  !.body = b]]
  BY <1>1
<1> DEFINE x == [heap[c] EXCEPT !.original_body = o, !.body = b]
<1>3. /\ x \in Context /\ x.original_body = o /\ x.body = b /\ x # Free
      /\ x.id = heap[c].id
  BY <1>1 DEF Context, Free
<1> HIDE DEF x
<1>4. heap' = [heap EXCEPT ![c] = x]
  BY <1>2 DEF x
<1> QED BY <1>1, <1>3, <1>4

\* A context whose body is written stays a context.
LEMMA HeapWriteBody ==
  ASSUME PipeTypeOK, NEW c \in Ctxs, heap[c] # Free,
         NEW b \in Puts \cup Gets \cup Returns \cup {Uninit},
         heap' = [heap EXCEPT ![c].body = b]
  PROVE  /\ heap' \in [Ctxs -> {Free} \cup Context]
         /\ heap'[c] # Free /\ heap'[c].original_body = heap[c].original_body
         /\ heap'[c].body = b /\ heap'[c].id = heap[c].id
         /\ \A d \in Ctxs : d # c => heap'[d] = heap[d]
<1>1. heap \in [Ctxs -> {Free} \cup Context] /\ heap[c] \in Context
  BY DEF PipeTypeOK, Context
<1> DEFINE x == [heap[c] EXCEPT !.body = b]
<1>3. /\ x \in Context /\ x.original_body = heap[c].original_body
      /\ x.body = b /\ x # Free /\ x.id = heap[c].id
  BY <1>1 DEF Context, Free
<1>4. heap' = [heap EXCEPT ![c] = x]
  BY <1>1
<1> HIDE DEF x
<1> QED BY <1>1, <1>3, <1>4

\* input: the message becomes a command.
LEMMA InputPopStep ==
  ASSUME PipeInv, InputPop
  PROVE  PipeInv'
<1> DEFINE c == Head(queue["input"])
           b == CmdOf(heap[c].original_body)
<1>0. "input" \in Consumers /\ Take("input")
  BY DEF Consumers, Threads, InputPop
<1>1. /\ Holding("input") = {} /\ c \in Waiting("input") /\ c \in Ctxs
      /\ Waiting("input")' = Waiting("input") \ {c}
      /\ \A u \in Consumers : u # "input" => Waiting(u)' = Waiting(u)
      /\ Holding("input")' = {c}
      /\ \A u \in Threads : u # "input" => Holding(u)' = Holding(u)
      /\ InHands' = InHands + 1 /\ Queued' = Queued - 1
      /\ hand' \in [Threads -> Ctxs \cup {NoCtx}]
      /\ queue' \in [Consumers -> Seq(Ctxs)]
      /\ \A u \in Consumers : Len(queue'[u]) <= QueueCap
      /\ Apart'
  BY <1>0, TakeEffect DEF PipeInv
<1>2. /\ Received' = Received \ {c} /\ Commands' = Commands \cup {c}
      /\ Results' = Results /\ Answers' = Answers
      /\ c \in Received
  BY <1>1, <1>0 DEF Received, Commands, Results, Answers, Threads, Consumers,
     PipeInv, Apart
<1>3. /\ heap[c] # Free /\ heap[c].original_body \in Messages \ {Garbage}
      /\ heap' = [heap EXCEPT ![c].body = b]
      /\ b \in Puts \cup Gets \cup {Uninit}
      /\ b = CmdOf(heap[c].original_body)
  BY <1>2, CmdOfType DEF PipeInv, Contents, Owned, InputPop
<1> HIDE DEF c, b
<1>4. /\ heap' \in [Ctxs -> {Free} \cup Context]
      /\ heap'[c] # Free /\ heap'[c].original_body = heap[c].original_body
      /\ heap'[c].body = b
      /\ \A d \in Ctxs : d # c => heap'[d] = heap[d]
  BY <1>1, <1>3, HeapWriteBody DEF PipeInv
<1>5. PipeTypeOK'
  BY <1>1, <1>4 DEF PipeTypeOK, PipeInv, InputPop, Context, ends
<1>6. Contents' /\ NoneLost'
  <2>1. Contents'
    BY <1>1, <1>2, <1>3, <1>4, StagesApart DEF PipeInv, Contents, Owned
  <2>2. UNCHANGED leaked
    BY DEF InputPop, ends
  <2>3. NoneLost'
    BY <1>1, <1>2, <1>4, <2>2 DEF PipeInv, NoneLost, Lost, Owned, Allocated
  <2> QED BY <2>1, <2>3
<1>7. Calling'
  <2>1. hand'["memtable"] = hand["memtable"]
    BY DEF InputPop, Take, PipeInv, PipeTypeOK, Threads
  <2> QED BY <2>1 DEF PipeInv, Calling, InputPop, vars, wVars
<1>8. Accounted'
  BY <1>1, CountTypes DEF PipeInv, Accounted, Load, InputPop, ends
<1> QED BY <1>1, <1>5, <1>6, <1>7, <1>8 DEF PipeInv

\* input: what does not parse is neither passed on nor freed.
LEMMA InputDropStep ==
  ASSUME PipeInv, InputDrop
  PROVE  PipeInv'
<1> DEFINE c == Head(queue["input"])
<1>0. "input" \in Consumers /\ Pop("input") /\ UNCHANGED <<heap, hand>>
      /\ UNCHANGED <<received, wire>> /\ UNCHANGED wVars
      /\ heap[c].original_body = Garbage
      /\ leaked' = leaked \cup {heap[c].id}
  BY DEF Consumers, Threads, InputDrop
<1>1. /\ c \in Waiting("input") /\ c \in Ctxs
      /\ Waiting("input")' = Waiting("input") \ {c}
      /\ \A u \in Consumers : u # "input" => Waiting(u)' = Waiting(u)
      /\ Queued' = Queued - 1
      /\ queue' \in [Consumers -> Seq(Ctxs)]
      /\ \A u \in Consumers : Len(queue'[u]) <= QueueCap
      /\ \A u \in Consumers : \A i, j \in 1 .. Len(queue'[u]) :
           queue'[u][i] = queue'[u][j] => i = j
  BY <1>0, PopEffect DEF PipeInv
<1> HIDE DEF c
<1>2. \A u \in Threads : Holding(u)' = Holding(u)
  BY <1>0 DEF Holding
<1>3. Apart'
  <2>1. \A u, w \in Consumers : u # w => Waiting(u)' \cap Waiting(w)' = {}
    BY <1>1 DEF PipeInv, Apart
  <2>2. \A u, w \in Threads : u # w => Holding(u)' \cap Holding(w)' = {}
    BY <1>2 DEF PipeInv, Apart
  <2>3. \A u \in Threads, w \in Consumers : Holding(u)' \cap Waiting(w)' = {}
    BY <1>1, <1>2 DEF PipeInv, Apart
  <2> QED BY <1>1, <2>1, <2>2, <2>3 DEF Apart
<1>4. /\ Received' = Received \ {c} /\ Commands' = Commands
      /\ Results' = Results /\ Answers' = Answers
  BY <1>0, <1>1, <1>2 DEF Received, Commands, Results, Answers, Threads,
     Consumers, PipeInv, Apart
<1>5. Contents' /\ NoneLost'
  BY <1>0, <1>4 DEF PipeInv, Contents, NoneLost, Lost, Owned, Allocated
<1>6. PipeTypeOK'
  <2>1. heap[c] # Free
    BY <1>1 DEF Received, PipeInv, Contents, Owned
  <2>2. heap[c].id \in 1 .. MaxRecv
    BY <1>1, <2>1 DEF PipeInv, PipeTypeOK
  <2> QED BY <1>0, <1>1, <2>2 DEF PipeInv, PipeTypeOK
<1>7. Calling'
  BY <1>0 DEF PipeInv, Calling, wVars
<1>8. Accounted'
  <2>1. InHands' = InHands
    BY <1>0 DEF InHands, Busy
  <2> QED BY <1>0, <1>1, <2>1, CountTypes DEF PipeInv, Accounted, Load
<1> QED BY <1>3, <1>5, <1>6, <1>7, <1>8 DEF PipeInv

\* A thread frees the context it holds.
LEMMA FreeStep ==
  ASSUME PipeInv, NEW t \in {"memtable", "tx"}, hand[t] # NoCtx, LetGo(t),
         heap' = [heap EXCEPT ![hand[t]] = Free],
         UNCHANGED <<queue, received>>,
         t = "memtable" => wpc = "idle", UNCHANGED vars,
         leaked \subseteq leaked', leaked' \subseteq leaked \cup {heap[hand[t]].id},
         wire' \in Seq([id : 1 .. MaxRecv, text : Texts]),
         Len(wire') <= Len(wire) + 1
  PROVE  PipeInv'
<1> DEFINE c == hand[t]
<1>0. leaked' \subseteq leaked \cup {heap[c].id}
  OBVIOUS
<1>1. /\ c \in Ctxs /\ Holding(t) = {c} /\ Holding(t)' = {}
      /\ \A u \in Threads : u # t => Holding(u)' = Holding(u)
      /\ InHands' = InHands - 1
      /\ \A u \in Consumers : Waiting(u)' = Waiting(u)
      /\ hand' \in [Threads -> Ctxs \cup {NoCtx}]
      /\ Apart'
  BY LetGoEffect DEF PipeInv, Threads
<1>2. /\ heap'[c] = Free /\ \A d \in Ctxs : d # c => heap'[d] = heap[d]
      /\ heap' \in [Ctxs -> {Free} \cup Context]
  BY <1>1 DEF PipeInv, PipeTypeOK, Context
<1> HIDE DEF c
<1>3. /\ Received' = Received /\ Results' = Results
      /\ Commands' = (IF t = "memtable" THEN Commands \ {c} ELSE Commands)
      /\ Answers' = (IF t = "tx" THEN Answers \ {c} ELSE Answers)
      /\ c \in Owned /\ (t = "memtable" => c \in Commands)
      /\ (t = "tx" => c \in Answers)
  <2>1. CASE t = "memtable"
    BY <1>1, <2>1 DEF Received, Commands, Results, Answers, Owned, Threads,
       Consumers, PipeInv, Apart
  <2>2. CASE t = "tx"
    BY <1>1, <2>2 DEF Received, Commands, Results, Answers, Owned, Threads,
       Consumers, PipeInv, Apart
  <2> QED BY <2>1, <2>2
<1>4. Owned' = Owned \ {c} /\ Owned \subseteq Ctxs
  BY <1>3, StagesApart DEF Owned, PipeInv
<1>5. Contents'
  <2>1. \A d \in Owned' : heap'[d] = heap[d]
    BY <1>2, <1>4
  <2> QED BY <1>3, <1>4, <2>1 DEF PipeInv, Contents, Owned
<1>6. NoneLost'
  <2>1. Allocated' = Allocated \ {c}
    BY <1>2 DEF Allocated
  <2>2. \A d \in Allocated' : heap'[d] = heap[d]
    BY <1>2, <2>1 DEF Allocated
  <2> QED BY <1>4, <2>1, <2>2 DEF PipeInv, NoneLost, Lost
<1>7. PipeTypeOK'
  <2>1. heap[c] # Free
    BY <1>3 DEF PipeInv, Contents
  <2>2. heap[c].id \in 1 .. MaxRecv
    BY <1>1, <2>1 DEF PipeInv, PipeTypeOK
  <2> QED BY <1>0, <1>1, <1>2, <2>2 DEF PipeInv, PipeTypeOK, Context
<1>8. Calling'
  <2>1. CASE t = "memtable"
    BY <2>1 DEF Calling, vars, wVars
  <2>2. CASE t = "tx"
    <3>1. hand'["memtable"] = hand["memtable"]
      BY <2>2 DEF LetGo, PipeInv, PipeTypeOK, Threads
    <3> QED BY <3>1 DEF PipeInv, Calling, vars, wVars
  <2> QED BY <2>1, <2>2
<1>9. Accounted'
  <2>1. Queued' = Queued
    BY DEF Queued
  <2>2. Len(wire') \in Int
    OBVIOUS
  <2> QED BY <1>1, <2>1, <2>2, CountTypes DEF PipeInv, Accounted, Load
<1> QED BY <1>1, <1>5, <1>6, <1>7, <1>8, <1>9 DEF PipeInv

\* memtable: a command of neither type is dropped.
LEMMA MemDropStep ==
  ASSUME PipeInv, MemDrop
  PROVE  PipeInv'
<1>1. /\ Len(wire') <= Len(wire) + 1
      /\ wire' \in Seq([id : 1 .. MaxRecv, text : Texts])
  BY DEF MemDrop, PipeInv, PipeTypeOK
<1> QED BY <1>1, FreeStep DEF MemDrop, Held

\* tx: the reply is sent.
LEMMA TxSendStep ==
  ASSUME PipeInv, TxSend
  PROVE  PipeInv'
<1> DEFINE c == hand["tx"]
           x == [id |-> Held("tx").id, text |-> Held("tx").original_body.text]
<1>1. c \in Answers /\ c \in Ctxs
  BY DEF TxSend, Answers, Holding, PipeInv, PipeTypeOK, Threads
<1>2. heap[c] \in Context /\ heap[c].original_body \in Replies
  BY <1>1 DEF PipeInv, Contents, Owned, PipeTypeOK, Context
<1>3. x \in [id : 1 .. MaxRecv, text : Texts]
  BY <1>2 DEF Held, Context, Replies
<1> HIDE DEF x
<1>4. /\ wire' = Append(wire, x)
      /\ wire \in Seq([id : 1 .. MaxRecv, text : Texts])
  BY DEF TxSend, x, PipeInv, PipeTypeOK
<1>5. /\ Len(wire') <= Len(wire) + 1
      /\ wire' \in Seq([id : 1 .. MaxRecv, text : Texts])
  BY <1>3, <1>4, AppendProperties
<1> QED BY <1>5, FreeStep DEF TxSend

\* memtable: the result takes the place of the command.
LEMMA MemPushStep ==
  ASSUME PipeInv, MemPush
  PROVE  PipeInv'
<1> DEFINE c == hand["memtable"]
<1>0. /\ "memtable" \in Threads /\ "output" \in Consumers
      /\ Push("memtable", "output") /\ GoodReturn(ret)
      /\ heap' = [heap EXCEPT ![c].body = ret] /\ wpc' = "idle"
      /\ UNCHANGED <<received, wire, leaked>>
  BY DEF Threads, Consumers, MemPush, Answered, PipeInv, Calling, ends
<1>1. /\ c \in Ctxs /\ Holding("memtable") = {c} /\ Holding("memtable")' = {}
      /\ \A u \in Threads : u # "memtable" => Holding(u)' = Holding(u)
      /\ InHands' = InHands - 1
      /\ Waiting("output")' = Waiting("output") \cup {c}
      /\ \A u \in Consumers : u # "output" => Waiting(u)' = Waiting(u)
      /\ hand' \in [Threads -> Ctxs \cup {NoCtx}]
      /\ queue' \in [Consumers -> Seq(Ctxs)]
      /\ \A u \in Consumers : Len(queue'[u]) <= QueueCap
      /\ Queued' = Queued + 1
      /\ Apart'
  BY <1>0, PushEffect DEF PipeInv
<1> HIDE DEF c
<1>2. /\ Received' = Received /\ Commands' = Commands \ {c}
      /\ Results' = Results \cup {c} /\ Answers' = Answers
      /\ c \in Commands
  BY <1>1 DEF Received, Commands, Results, Answers, Threads, Consumers,
     PipeInv, Apart
<1>3. /\ heap[c] # Free /\ heap[c].original_body \in Messages \ {Garbage}
      /\ ret \in Returns
  BY <1>0, <1>2 DEF PipeInv, Contents, Owned, GoodReturn
<1>4. /\ heap' \in [Ctxs -> {Free} \cup Context]
      /\ heap'[c] # Free /\ heap'[c].original_body = heap[c].original_body
      /\ heap'[c].body = ret
      /\ \A d \in Ctxs : d # c => heap'[d] = heap[d]
  BY <1>0, <1>1, <1>3, HeapWriteBody DEF PipeInv
<1>5. PipeTypeOK'
  BY <1>0, <1>1, <1>4 DEF PipeTypeOK, PipeInv, Context
<1>6. Contents' /\ NoneLost'
  BY <1>0, <1>1, <1>2, <1>3, <1>4, StagesApart
  DEF PipeInv, Contents, NoneLost, Lost, Owned, Allocated
<1>7. Calling'
  BY <1>0 DEF Calling
<1>8. Accounted'
  BY <1>0, <1>1, CountTypes DEF PipeInv, Accounted, Load
<1> QED BY <1>1, <1>5, <1>6, <1>7, <1>8 DEF PipeInv

\* output: the reply takes the place of the request.
LEMMA OutPopStep ==
  ASSUME PipeInv, OutPop
  PROVE  PipeInv'
<1> DEFINE c == Head(queue["output"])
           o == Reply(Text(heap[c].body))
<1>0. /\ "output" \in Consumers /\ Take("output")
      /\ UNCHANGED <<vars, received, wire, leaked>>
      /\ heap' = [heap EXCEPT ![c].original_body = o, ![c].body = Uninit]
  BY DEF Consumers, Threads, OutPop, ends
<1>1. /\ Holding("output") = {} /\ c \in Waiting("output") /\ c \in Ctxs
      /\ Waiting("output")' = Waiting("output") \ {c}
      /\ \A u \in Consumers : u # "output" => Waiting(u)' = Waiting(u)
      /\ Holding("output")' = {c}
      /\ \A u \in Threads : u # "output" => Holding(u)' = Holding(u)
      /\ InHands' = InHands + 1 /\ Queued' = Queued - 1
      /\ hand' \in [Threads -> Ctxs \cup {NoCtx}]
      /\ queue' \in [Consumers -> Seq(Ctxs)]
      /\ \A u \in Consumers : Len(queue'[u]) <= QueueCap
      /\ Apart'
  BY <1>0, TakeEffect DEF PipeInv
<1>2. /\ Received' = Received /\ Commands' = Commands
      /\ Results' = Results \ {c} /\ Answers' = Answers \cup {c}
      /\ c \in Results
  <2>1. /\ Received' = Received /\ Commands' = Commands
    BY <1>1 DEF Received, Commands, Threads, Consumers
  <2>2. /\ Results' = Results \ {c} /\ Answers' = Answers \cup {c}
        /\ c \in Results
    BY <1>1 DEF Results, Answers, Threads, Consumers
  <2> QED BY <2>1, <2>2
<1>3. /\ heap[c] # Free /\ o \in Replies
  <2>1. GoodReturn(heap[c].body) /\ heap[c] # Free
    BY <1>2 DEF PipeInv, Contents, Owned
  <2> QED BY <2>1, TextType DEF Reply, Replies
<1> HIDE DEF c, o
<1>4. /\ heap' \in [Ctxs -> {Free} \cup Context]
      /\ heap'[c] # Free /\ heap'[c].original_body = o
      /\ \A d \in Ctxs : d # c => heap'[d] = heap[d]
  BY <1>0, <1>1, <1>3, HeapWrite DEF PipeInv
<1>5. PipeTypeOK'
  BY <1>0, <1>1, <1>4 DEF PipeTypeOK, PipeInv, Context
<1>6. Contents' /\ NoneLost'
  <2>1. Contents'
    BY <1>1, <1>2, <1>3, <1>4, StagesApart DEF PipeInv, Contents, Owned
  <2>2. NoneLost'
    BY <1>0, <1>1, <1>2, <1>4 DEF PipeInv, NoneLost, Lost, Owned, Allocated
  <2> QED BY <2>1, <2>2
<1>7. Calling'
  <2>1. hand'["memtable"] = hand["memtable"]
    BY <1>0 DEF Take, PipeInv, PipeTypeOK, Threads
  <2> QED BY <1>0, <2>1 DEF PipeInv, Calling, vars, wVars
<1>8. Accounted'
  BY <1>0, <1>1, CountTypes DEF PipeInv, Accounted, Load
<1> QED BY <1>1, <1>5, <1>6, <1>7, <1>8 DEF PipeInv

\* A step that leaves the pipeline alone.
LEMMA QuietStep ==
  ASSUME PipeInv, RxFail \/ UNCHANGED serverVars
  PROVE  PipeInv'
<1>1. UNCHANGED pipeVars /\ UNCHANGED <<wpc, ret>>
  BY DEF RxFail, serverVars, vars, wVars
<1>2. Calling'
  BY <1>1 DEF PipeInv, Calling, pipeVars
<1> QED BY <1>1, <1>2, KeptStep

\* Every step of the server keeps the invariant of the pipeline.
LEMMA PipeInvStep ==
  KInv /\ PipeInv /\ [ServerNext]_serverVars => KInv' /\ PipeInv'
<1> SUFFICES ASSUME KInv, PipeInv, [ServerNext]_serverVars
             PROVE  KInv' /\ PipeInv'
  OBVIOUS
<1>1. KInv'
  BY KInvServer DEF PipeInv
<1> SUFFICES PipeInv'
  BY <1>1
<1>2. ASSUME NEW msg \in Messages, RxRecv(msg) PROVE PipeInv'
  BY <1>2, RxRecvStep
<1>3. CASE RxPush
  BY <1>3, PushStep DEF RxPush, Threads, Consumers
<1>4. CASE InputPop
  BY <1>4, InputPopStep
<1>5. CASE InputDrop
  BY <1>5, InputDropStep
<1>6. CASE InputPush
  BY <1>6, PushStep DEF InputPush, Threads, Consumers
<1>7. CASE MemPop
  BY <1>7, TakeStep DEF MemPop
<1>8. CASE MemCall \/ MemStep
  BY <1>8, StoreStepPipe
<1>9. CASE MemDrop
  BY <1>9, MemDropStep
<1>10. CASE MemPush
  BY <1>10, MemPushStep
<1>11. CASE OutPop
  BY <1>11, OutPopStep
<1>12. CASE OutPush
  BY <1>12, PushStep DEF OutPush, Threads, Consumers
<1>13. CASE TxPop
  BY <1>13, TakeStep DEF TxPop
<1>14. CASE TxSend
  BY <1>14, TxSendStep
<1>15. CASE RxFail \/ UNCHANGED serverVars
  BY <1>15, QuietStep
<1> QED BY <1>2, <1>3, <1>4, <1>5, <1>6, <1>7, <1>8, <1>9, <1>10, <1>11,
           <1>12, <1>13, <1>14, <1>15
        DEF ServerNext, Input, Memtable, Output, Tx

\* The store and the pipeline keep their invariants.
LEMMA ServerInvariant == ServerSpec => [](KInv /\ PipeInv)
<1>1. ServerInit => KInv
  BY KInvInit DEF ServerInit
<1> QED BY <1>1, PipeInit, PipeInvStep, PTL DEF ServerSpec

-----------------------------------------------------------------------------
(* One owner *)

\* s lists the members of S, each of them once.
Lists(s, S) ==
  /\ s \in Seq(Ctxs)
  /\ \A i, j \in 1 .. Len(s) : s[i] = s[j] => i = j
  /\ \A c : c \in S <=> \E i \in 1 .. Len(s) : s[i] = c

\* Lists of different contexts, one after the other.
LEMMA ListsJoin ==
  ASSUME NEW s, NEW t, NEW S, NEW T, Lists(s, S), Lists(t, T),
         S \cap T = {}
  PROVE  Lists(s \o t, S \cup T)
<1> DEFINE u == s \o t
           m == Len(s)
           n == Len(t)
<1>1. s \in Seq(Ctxs) /\ t \in Seq(Ctxs) /\ m \in Nat /\ n \in Nat
  BY DEF Lists
<1>2. /\ u \in Seq(Ctxs) /\ Len(u) = m + n
      /\ \A i \in 1 .. m + n : u[i] = IF i <= m THEN s[i] ELSE t[i - m]
  BY <1>1, ConcatProperties
<1>3. /\ \A i, j \in 1 .. m : s[i] = s[j] => i = j
      /\ \A i, j \in 1 .. n : t[i] = t[j] => i = j
      /\ \A c : c \in S <=> \E i \in 1 .. m : s[i] = c
      /\ \A c : c \in T <=> \E i \in 1 .. n : t[i] = c
  BY DEF Lists
<1> HIDE DEF u, m, n
<1>4. ASSUME NEW i \in 1 .. m + n
      PROVE  \/ i \in 1 .. m /\ u[i] = s[i] /\ u[i] \in S
             \/ i - m \in 1 .. n /\ u[i] = t[i - m] /\ u[i] \in T
  <2>1. CASE i <= m
    BY <1>1, <1>2, <1>3, <2>1
  <2>2. CASE ~(i <= m)
    <3>1. i - m \in 1 .. n /\ u[i] = t[i - m]
      BY <1>1, <1>2, <2>2
    <3> QED BY <1>3, <3>1
  <2> QED BY <2>1, <2>2
<1>5. ASSUME NEW i \in 1 .. m + n, NEW j \in 1 .. m + n, u[i] = u[j]
      PROVE  i = j
  <2>1. CASE i \in 1 .. m /\ u[i] = s[i] /\ u[i] \in S
    <3>1. j \in 1 .. m /\ u[j] = s[j]
      BY <1>4, <1>5, <2>1
    <3> QED BY <1>3, <1>5, <2>1, <3>1
  <2>2. CASE i - m \in 1 .. n /\ u[i] = t[i - m] /\ u[i] \in T
    <3>1. j - m \in 1 .. n /\ u[j] = t[j - m]
      BY <1>4, <1>5, <2>2
    <3>2. i - m = j - m
      BY <1>3, <1>5, <2>2, <3>1
    <3> QED BY <1>1, <3>2
  <2> QED BY <1>4, <2>1, <2>2
<1>6. ASSUME NEW c \in S PROVE \E i \in 1 .. m + n : u[i] = c
  <2>1. PICK i \in 1 .. m : s[i] = c
    BY <1>3
  <2>2. i \in 1 .. m + n /\ i <= m
    BY <1>1
  <2> QED BY <1>2, <2>1, <2>2
<1>7. ASSUME NEW c \in T PROVE \E i \in 1 .. m + n : u[i] = c
  <2>1. PICK k \in 1 .. n : t[k] = c
    BY <1>3
  <2>2. PICK i \in 1 .. m + n : i = m + k /\ ~(i <= m) /\ i - m = k
    BY <1>1
  <2>3. u[i] = t[i - m]
    BY <1>2, <2>2
  <2> QED BY <2>1, <2>2, <2>3
<1>8. \A c : c \in S \cup T <=> \E i \in 1 .. m + n : u[i] = c
  BY <1>4, <1>6, <1>7
<1> QED BY <1>2, <1>5, <1>8 DEF Lists, u

\* The empty list has no member.
LEMMA ListsEmpty == Lists(<<>>, {})
BY DEF Lists

\* A queue lists the contexts that wait in it.
LEMMA QueueLists ==
  ASSUME PipeTypeOK, Apart, NEW t \in Consumers
  PROVE  Lists(queue[t], Waiting(t))
BY DEF PipeTypeOK, Apart, Lists, Waiting

\* A hand lists the context a thread is working on, if any.
LEMMA HandLists ==
  ASSUME PipeTypeOK, NEW t \in Threads
  PROVE  Lists(InHand(t), Holding(t))
<1>1. CASE hand[t] = NoCtx
  BY <1>1, ListsEmpty DEF InHand, Holding
<1>2. CASE hand[t] # NoCtx
  <2>1. hand[t] \in Ctxs
    BY <1>2 DEF PipeTypeOK
  <2>2. Holding(t) = {hand[t]} /\ InHand(t) = <<hand[t]>>
    BY <1>2 DEF Holding, InHand
  <2>3. <<hand[t]>> \in Seq(Ctxs) /\ Len(<<hand[t]>>) = 1
        /\ <<hand[t]>>[1] = hand[t]
    BY <2>1
  <2>4. \A i \in 1 .. 1 : i = 1
    OBVIOUS
  <2> QED BY <2>2, <2>3, <2>4 DEF Lists
<1> QED BY <1>1, <1>2

\* The contexts whose commands have not been executed, and those whose have.
Unserved ==
  (IF Executed THEN {} ELSE Holding("memtable")) \cup Waiting("memtable")
    \cup Holding("input") \cup Waiting("input") \cup Holding("rx")
Served ==
  Holding("tx") \cup Waiting("tx") \cup Holding("output")
    \cup Waiting("output")
    \cup (IF Executed THEN Holding("memtable") ELSE {})

\* A context that has an owner is on one side of the store.
LEMMA ServedApart ==
  ASSUME Apart
  PROVE  Owned = Served \cup Unserved /\ Served \cap Unserved = {}
<1> DEFINE hx == Holding("tx")
           ho == Holding("output")
           hm == Holding("memtable")
           hi == Holding("input")
           hr == Holding("rx")
           wx == Waiting("tx")
           wo == Waiting("output")
           wm == Waiting("memtable")
           w == Waiting("input")
<1>1. /\ hx \cap (ho \cup hm \cup hi \cup hr) = {}
      /\ ho \cap (hm \cup hi \cup hr) = {}
      /\ hm \cap (hi \cup hr) = {} /\ hi \cap hr = {}
  BY DEF Apart, Threads
<1>2. /\ wx \cap (wo \cup wm \cup w) = {}
      /\ wo \cap (wm \cup w) = {} /\ wm \cap w = {}
  BY DEF Apart, Consumers, Threads
<1>3. (hx \cup ho \cup hm \cup hi \cup hr)
        \cap (wx \cup wo \cup wm \cup w) = {}
  BY DEF Apart, Consumers, Threads
<1>4. Owned = hx \cup ho \cup hm \cup hi \cup hr \cup wx \cup wo \cup wm \cup w
  BY DEF Owned, Received, Commands, Results, Answers
<1>5. /\ Unserved
           = (IF Executed THEN {} ELSE hm) \cup wm \cup hi \cup w \cup hr
      /\ Served = hx \cup wx \cup ho \cup wo \cup (IF Executed THEN hm ELSE {})
  BY DEF Unserved, Served
<1> HIDE DEF hx, ho, hm, hi, hr, wx, wo, wm, w
<1> QED BY <1>1, <1>2, <1>3, <1>4, <1>5

\* Before lists what has not been executed.
LEMMA BeforeLists ==
  ASSUME PipeTypeOK, Apart
  PROVE  Lists(Before, Unserved)
<1> DEFINE next == IF Executed THEN <<>> ELSE InHand("memtable")
           Rest == IF Executed THEN {} ELSE Holding("memtable")
           hi == Holding("input")
           hr == Holding("rx")
           wm == Waiting("memtable")
           w == Waiting("input")
<1>1. /\ Lists(next, Rest) /\ Lists(queue["memtable"], wm)
      /\ Lists(InHand("input"), hi) /\ Lists(queue["input"], w)
      /\ Lists(InHand("rx"), hr)
  BY HandLists, QueueLists, ListsEmpty DEF Threads, Consumers
<1>2. /\ Rest \cap wm = {} /\ (Rest \cup wm) \cap hi = {}
      /\ (Rest \cup wm \cup hi) \cap w = {}
      /\ (Rest \cup wm \cup hi \cup w) \cap hr = {}
  BY DEF Apart, Threads, Consumers
<1>3. /\ Before = next \o queue["memtable"] \o InHand("input")
                    \o queue["input"] \o InHand("rx")
      /\ Unserved = Rest \cup wm \cup hi \cup w \cup hr
  BY DEF Before, Unserved
<1> HIDE DEF next, Rest, hi, hr, wm, w
<1>4. Lists(next \o queue["memtable"], Rest \cup wm)
  BY <1>1, <1>2, ListsJoin
<1>5. Lists(next \o queue["memtable"] \o InHand("input"), Rest \cup wm \cup hi)
  BY <1>1, <1>2, <1>4, ListsJoin
<1>6. Lists(next \o queue["memtable"] \o InHand("input") \o queue["input"],
            Rest \cup wm \cup hi \cup w)
  BY <1>1, <1>2, <1>5, ListsJoin
<1> QED BY <1>1, <1>2, <1>3, <1>6, ListsJoin

\* Done lists what has been executed and not been sent.
LEMMA DoneLists ==
  ASSUME PipeTypeOK, Apart
  PROVE  Lists(Done, Served)
<1> DEFINE last == IF Executed THEN InHand("memtable") ELSE <<>>
           Last == IF Executed THEN Holding("memtable") ELSE {}
           hx == Holding("tx")
           ho == Holding("output")
           wx == Waiting("tx")
           wo == Waiting("output")
<1>1. /\ Lists(InHand("tx"), hx) /\ Lists(queue["tx"], wx)
      /\ Lists(InHand("output"), ho) /\ Lists(queue["output"], wo)
      /\ Lists(last, Last)
  BY HandLists, QueueLists, ListsEmpty DEF Threads, Consumers
<1>2. /\ hx \cap wx = {} /\ (hx \cup wx) \cap ho = {}
      /\ (hx \cup wx \cup ho) \cap wo = {}
      /\ (hx \cup wx \cup ho \cup wo) \cap Last = {}
  BY DEF Apart, Threads, Consumers
<1>3. /\ Done = InHand("tx") \o queue["tx"] \o InHand("output")
                  \o queue["output"] \o last
      /\ Served = hx \cup wx \cup ho \cup wo \cup Last
  BY DEF Done, Served
<1> HIDE DEF last, Last, hx, ho, wx, wo
<1>4. Lists(InHand("tx") \o queue["tx"], hx \cup wx)
  BY <1>1, <1>2, ListsJoin
<1>5. Lists(InHand("tx") \o queue["tx"] \o InHand("output"),
            hx \cup wx \cup ho)
  BY <1>1, <1>2, <1>4, ListsJoin
<1>6. Lists(InHand("tx") \o queue["tx"] \o InHand("output")
              \o queue["output"], hx \cup wx \cup ho \cup wo)
  BY <1>1, <1>2, <1>5, ListsJoin
<1> QED BY <1>1, <1>2, <1>3, <1>6, ListsJoin

\* The pipeline lists the contexts that have an owner.
LEMMA PipelineLists ==
  ASSUME PipeTypeOK, Apart
  PROVE  Lists(Pipeline, Owned)
BY BeforeLists, DoneLists, ServedApart, ListsJoin DEF Pipeline

\* What is in flight is not negative, so that no more is sent than received.
LEMMA SentReceived == PipeInv => Len(wire) <= received
<1> SUFFICES ASSUME PipeInv PROVE Len(wire) <= received
  OBVIOUS
<1>1. \A u \in Consumers : Len(queue[u]) \in Nat
  BY DEF PipeInv, PipeTypeOK
<1>2. Queued \in Nat
  <2>1. /\ Len(queue["input"]) \in Nat /\ Len(queue["memtable"]) \in Nat
        /\ Len(queue["output"]) \in Nat /\ Len(queue["tx"]) \in Nat
    BY <1>1 DEF Consumers, Threads
  <2>2. \A i, m, o, x \in Nat : i + m + o + x \in Nat
    OBVIOUS
  <2> QED BY <2>1, <2>2, Zenon DEF Queued
<1>3. InHands \in Nat
  <2>1. \A u \in Threads : Busy[u] \in Nat
    BY DEF Busy
  <2>2. /\ Busy["rx"] \in Nat /\ Busy["input"] \in Nat
        /\ Busy["memtable"] \in Nat /\ Busy["output"] \in Nat
        /\ Busy["tx"] \in Nat
    BY <2>1 DEF Threads
  <2> QED BY <2>2 DEF InHands
<1> QED BY <1>2, <1>3, CountTypes DEF PipeInv, Accounted, Load

\* A context has one owner: it is in one hand or in one place of one queue
\* (connection_handler.cpp, io_stage.cpp, memtable_stage.cpp hand it on by its
\* pointer), what is in the pipeline has not been freed, and only what failed
\* to parse is lost.
THEOREM ServerOneOwner == ServerSpec => []OneOwner
<1>1. KInv /\ PipeInv => OneOwner
  <2> SUFFICES ASSUME KInv, PipeInv PROVE OneOwner
    OBVIOUS
  <2>1. Lists(Pipeline, Owned)
    BY PipelineLists DEF PipeInv
  <2>2. DOMAIN Pipeline = 1 .. Len(Pipeline)
    BY <2>1 DEF Lists
  <2>3. ServerTypeOK
    BY SentReceived DEF PipeInv, PipeTypeOK, ServerTypeOK, KInv
  <2>4. \A i, j \in DOMAIN Pipeline : Pipeline[i] = Pipeline[j] => i = j
    BY <2>1, <2>2 DEF Lists
  <2>5. \A i \in DOMAIN Pipeline : heap[Pipeline[i]] # Free
    BY <2>1, <2>2 DEF Lists, PipeInv, Contents
  <2>6. \A c \in Allocated :
          \/ \E i \in DOMAIN Pipeline : Pipeline[i] = c
          \/ heap[c].original_body = Garbage /\ heap[c].id \in leaked
    BY <2>1, <2>2 DEF Lists, PipeInv, NoneLost, Lost
  <2> QED BY <2>3, <2>4, <2>5, <2>6 DEF OneOwner
<1> QED BY <1>1, ServerInvariant, PTL

-----------------------------------------------------------------------------
(* The store of the server *)

\* The call in progress is that of the command in hand.
CallMatches(msg) ==
  IF msg = Unknown
  THEN req \in {[op |-> "get", key |-> EmptyKey],
                [op |-> "put", key |-> EmptyKey, val |-> EmptyVal]}
  ELSE req = CmdOf(msg)
InCall ==
  wpc # "idle" => CallMatches(heap[hand["memtable"]].original_body)

StoreInv == KInv /\ FInv /\ SInv /\ BInv
ServerInv == StoreInv /\ PipeInv /\ InCall

\* Every step of the server keeps the invariant of the store as built.
LEMMA StoreInvServer ==
  ASSUME StoreInv, KInv', PipeInv, [ServerNext]_serverVars
  PROVE  StoreInv'
<1> USE DEF StoreInv
<1>1. CASE Worker
  <2>1. FInv'
    BY <1>1, FInvStep DEF FlushNext
  <2>2. SInv' /\ BInv'
    BY <1>1, WorkerSInv, BInvStep
  <2> QED BY <2>1, <2>2
<1>2. CASE UNCHANGED <<mtVars, wVars, fVars, flush_sema, closing>>
  <2>1. FInv'
    BY <1>2 DEF FInv, WriterAlone, NoLostSignal, ClosedIsFull, DumpIsCurrent,
       RecordFixed, TargetClosed, ReadAfterClear, SealedIsFull, Writing,
       Searched, NewKey, mtVars, wVars, chosen, fVars
  <2>2. SInv'
    BY <1>2, QuietSInv DEF mtVars, wVars, fVars, chosen, locals, history
  <2>3. BInv'
    BY <1>2 DEF BInv, Filled, Chosen, Missed, Searched, NewKey, Calls,
       mtVars, wVars, chosen, history, fVars
  <2> QED BY <2>1, <2>2, <2>3
<1> QED BY <1>1, <1>2, StoreStep DEF PipeInv, vars

\* The message of the command in hand stays what it is.
LEMMA MessageKept ==
  ASSUME PipeInv, hand["memtable"] # NoCtx,
         hand'["memtable"] = hand["memtable"], [ServerNext]_serverVars
  PROVE  heap'[hand["memtable"]].original_body
           = heap[hand["memtable"]].original_body
<1> DEFINE c == hand["memtable"]
<1>1. c \in Ctxs /\ c \in Holding("memtable") /\ heap[c] # Free
      /\ \A d : heap[d] = Free => d # c
  BY DEF PipeInv, PipeTypeOK, Threads, Holding, Contents, Owned, Commands
<1>2. \A d : d \in Waiting("input") \cup Waiting("output") \cup Holding("tx")
               => d # c
  BY <1>1 DEF PipeInv, Apart, Threads, Consumers
<1>3. \A t \in Consumers : Take(t) => Head(queue[t]) \in Waiting(t)
  BY TakeEffect DEF PipeInv
<1>4. heap \in [Ctxs -> {Free} \cup Context]
  BY DEF PipeInv, PipeTypeOK, Context
<1> HIDE DEF c
<1>5. ASSUME NEW msg \in Messages, RxRecv(msg)
      PROVE  heap'[c].original_body = heap[c].original_body
  <2>1. Fresh # c
    <3>1. \E d \in Ctxs : heap[d] = Free
      BY <1>5 DEF RxRecv, Allocated
    <3> QED BY <3>1, <1>1 DEF Fresh
  <2> QED BY <1>1, <1>4, <1>5, <2>1 DEF RxRecv
<1>6. CASE InputPop
  <2>1. "input" \in Consumers /\ Take("input")
    BY <1>6 DEF InputPop, Consumers, Threads
  <2>2. Head(queue["input"]) # c
    BY <1>2, <1>3, <2>1
  <2>3. heap'[c] = heap[c]
    BY <1>1, <1>4, <1>6, <2>2 DEF InputPop
  <2> QED BY <2>3 DEF c
<1>7. CASE OutPop
  <2>1. "output" \in Consumers /\ Take("output")
    BY <1>7 DEF OutPop, Consumers, Threads
  <2>2. Head(queue["output"]) # c
    BY <1>2, <1>3, <2>1
  <2>3. heap'[c] = heap[c]
    BY <1>1, <1>4, <1>7, <2>2 DEF OutPop
  <2> QED BY <2>3 DEF c
<1>8. CASE MemDrop
  BY <1>8 DEF MemDrop, LetGo, PipeInv, PipeTypeOK, Threads
<1>9. CASE MemPush
  BY <1>9 DEF MemPush, Push, PipeInv, PipeTypeOK, Threads
<1>10. CASE TxSend
  <2>1. hand["tx"] # c
    BY <1>2, <1>10 DEF TxSend, Holding
  <2>2. heap'[c] = heap[c]
    BY <1>1, <1>4, <1>10, <2>1 DEF TxSend
  <2> QED BY <2>2 DEF c
<1>11. CASE UNCHANGED heap
  BY <1>11
<1> QED BY <1>5, <1>6, <1>7, <1>8, <1>9, <1>10, <1>11
        DEF ServerNext, RxFail, RxPush, Input, InputDrop, InputPush, Memtable,
            MemPop, MemCall, MemStep, Output, OutPush, Tx, TxPop, serverVars,
            pipeVars, c

\* The call in progress stays that of the command in hand.
LEMMA InCallStep ==
  ASSUME KInv, PipeInv, InCall, [ServerNext]_serverVars
  PROVE  InCall'
<1> DEFINE c == hand["memtable"]
<1>1. ASSUME MemCall PROVE InCall'
  <2> DEFINE msg == heap[c].original_body
  <2>1. UNCHANGED pipeVars /\ c \in Commands
    BY <1>1 DEF MemCall, Commands, Holding
  <2>2. /\ msg \in Reads \cup Writes \cup {Unknown}
        /\ heap[c].body = CmdOf(msg)
    BY <2>1 DEF PipeInv, Contents, Messages
  <2>3. CallMatches(msg)'
    <3>1. CASE msg \in Reads
      <4>1. CmdOf(msg) = [op |-> "get", key |-> msg.key] /\ msg # Unknown
        BY <3>1 DEF CmdOf, Reads, Unknown
      <4>2. req' = CmdOf(msg)
        BY <1>1, <2>2, <4>1 DEF MemCall, Held, GetCall
      <4> QED BY <2>1, <4>1, <4>2 DEF CallMatches, pipeVars
    <3>2. CASE msg \in Writes
      <4>1. /\ CmdOf(msg) = [op |-> "put", key |-> msg.key, val |-> msg.val]
            /\ msg # Unknown
        BY <3>2 DEF CmdOf, Writes, Unknown
      <4>2. req' = CmdOf(msg)
        BY <1>1, <2>2, <4>1 DEF MemCall, Held, PutCall
      <4> QED BY <2>1, <4>1, <4>2 DEF CallMatches, pipeVars
    <3>3. CASE msg = Unknown
      <4>1. CmdOf(msg) = Uninit
        BY <3>3 DEF CmdOf, Unknown
      <4>2. req' \in {[op |-> "get", key |-> EmptyKey],
                      [op |-> "put", key |-> EmptyKey, val |-> EmptyVal]}
        BY <1>1, <2>2, <4>1 DEF MemCall, Held, PutCall, GetCall, Uninit
      <4> QED BY <2>1, <3>3, <4>2 DEF CallMatches, pipeVars
    <3> QED BY <2>2, <3>1, <3>2, <3>3
  <2> QED BY <2>1, <2>3 DEF InCall, pipeVars
<1>2. ASSUME wpc # "idle", UNCHANGED <<req, hand>> PROVE InCall'
  <2>1. c # NoCtx
    BY <1>2 DEF PipeInv, Calling
  <2>2. heap'[c].original_body = heap[c].original_body
    BY <1>2, <2>1, MessageKept
  <2> QED BY <1>2, <2>2 DEF InCall, CallMatches
<1>3. CASE MemStep
  <2>1. wpc # "idle" /\ UNCHANGED <<req, hand>>
    BY <1>3, InsideFacts DEF MemStep, pipeVars
  <2> QED BY <1>2, <2>1
<1>4. CASE MemPush
  BY <1>4 DEF MemPush, Answered, InCall
<1>5. CASE MemPop
  BY <1>5 DEF MemPop, Take, Pop, PipeInv, Calling, InCall, vars, wVars
<1>6. CASE MemDrop
  BY <1>6 DEF MemDrop, InCall, vars, wVars
<1>7. CASE UNCHANGED <<wpc, req>> /\ hand'["memtable"] = hand["memtable"]
  <2>1. CASE wpc = "idle"
    BY <1>7, <2>1 DEF InCall
  <2>2. CASE wpc # "idle"
    <3>1. c # NoCtx
      BY <2>2 DEF PipeInv, Calling
    <3>2. heap'[c].original_body = heap[c].original_body
      BY <1>7, <3>1, MessageKept
    <3> QED BY <1>7, <2>2, <3>2 DEF InCall, CallMatches
  <2> QED BY <2>1, <2>2
<1>8. ASSUME NEW msg \in Messages, RxRecv(msg)
      PROVE UNCHANGED <<wpc, req>> /\ hand'["memtable"] = hand["memtable"]
  BY <1>8 DEF RxRecv, PipeInv, PipeTypeOK, Threads, vars, wVars
<1>9. ASSUME RxFail \/ RxPush \/ Input \/ Output \/ Tx \/ UNCHANGED serverVars
      PROVE UNCHANGED <<wpc, req>> /\ hand'["memtable"] = hand["memtable"]
  BY <1>9 DEF RxFail, RxPush, Input, InputPop, InputDrop, InputPush, Output,
     OutPop, OutPush, Tx, TxPop, TxSend, Take, Push, LetGo, PipeInv, PipeTypeOK,
     Threads, vars, wVars, serverVars, pipeVars
<1> QED BY <1>1, <1>3, <1>4, <1>5, <1>6, <1>7, <1>8, <1>9
        DEF ServerNext, Memtable

\* The invariant the refinements rest on.
LEMMA ServerFullInvariant == ServerSpec => []ServerInv
<1>1. ServerInit => ServerInv
  <2>1. Init => StoreInv
    BY KInvInit, FInvInit, SInvInit, BInvInit DEF StoreInv
  <2> QED BY <2>1, PipeInit DEF ServerInit, ServerInv, InCall, Init
<1>2. ServerInv /\ [ServerNext]_serverVars => ServerInv'
  BY PipeInvStep, StoreInvServer, InCallStep DEF ServerInv, StoreInv
<1> QED BY <1>1, <1>2, PTL DEF ServerSpec

\* What the store shows of itself does not change with the pipeline.
LEMMA StoreSame ==
  ASSUME UNCHANGED <<mtVars, wVars, fVars>>
  PROVE  UNCHANGED <<Dict, Full>> /\ Executed' = Executed /\ Result' = Result
BY DEF mtVars, wVars, fVars, chosen, locals, Dict, Full, Filling, isFull,
   SizeAfterPut, Lookup, Executed, Written, Result

\* The store of the running server is the dictionary of AbstractKV: commands
\* that did not parse or had no type included.
THEOREM ServerImplementsAbstractKV == ServerSpec => ImplementsAbstractKV
<1> DEFINE L == \A k \in Keys : NewestIs(k, Lookup(k))
<1>1. (ServerInv => L) /\ (ServerInv => L)'
  BY LookupNewest, PTL DEF ServerInv, StoreInv
<1>2. ServerInv /\ ServerInv' /\ [ServerNext]_serverVars
        => [Abstract!Next]_abstractVars
  <2> SUFFICES ASSUME ServerInv, ServerInv', [ServerNext]_serverVars
               PROVE  [Abstract!Next]_abstractVars
    OBVIOUS
  <2>1. CASE Worker
    BY <1>1, <2>1, AbstractStep DEF ServerInv, StoreInv
  <2>2. CASE UNCHANGED <<mtVars, wVars, fVars, flush_sema, closing>>
    BY <2>2, StoreSame DEF abstractVars, wVars
  <2> QED BY <2>1, <2>2, StoreStep DEF ServerInv, PipeInv, vars
<1>3. ServerInit => Abstract!Init
  BY AbstractInit DEF ServerInit
<1> QED BY <1>2, <1>3, ServerFullInvariant, PTL
        DEF ServerSpec, ImplementsAbstractKV, Abstract!Spec, abstractVars,
            Dict

-----------------------------------------------------------------------------
(* The server is a serial loop: lists of contexts as lists of messages *)

\* The image of a list under a function.
Image(s, f) == [i \in DOMAIN s |-> f[s[i]]]

\* Functions that agree on a list have one image of it.
LEMMA ImageSame ==
  ASSUME NEW s \in Seq(Ctxs), NEW f, NEW g,
         \A i \in 1 .. Len(s) : f[s[i]] = g[s[i]]
  PROVE  Image(s, f) = Image(s, g)
BY DEF Image

\* An image is a list of the same length.
LEMMA ImageType ==
  ASSUME NEW s \in Seq(Ctxs), NEW R, NEW f \in [Ctxs -> R]
  PROVE  Image(s, f) \in Seq(R) /\ Len(Image(s, f)) = Len(s)
<1>1. DOMAIN s = 1 .. Len(s) /\ Len(s) \in Nat
  OBVIOUS
<1>2. Image(s, f) = [i \in 1 .. Len(s) |-> f[s[i]]]
  BY <1>1 DEF Image
<1>3. \A i \in 1 .. Len(s) : f[s[i]] \in R
  OBVIOUS
<1> QED BY <1>1, <1>2, <1>3

\* The image of two lists, one after the other.
LEMMA ImageConcat ==
  ASSUME NEW s \in Seq(Ctxs), NEW t \in Seq(Ctxs), NEW R,
         NEW f \in [Ctxs -> R]
  PROVE  Image(s \o t, f) = Image(s, f) \o Image(t, f)
<1> DEFINE m == Len(s)
           n == Len(t)
           u == s \o t
           a == Image(s, f)
           b == Image(t, f)
           x == Image(u, f)
<1>1. /\ u \in Seq(Ctxs) /\ Len(u) = m + n /\ m \in Nat /\ n \in Nat
      /\ \A i \in 1 .. m + n : u[i] = IF i <= m THEN s[i] ELSE t[i - m]
  BY ConcatProperties
<1>2. /\ a \in Seq(R) /\ Len(a) = m /\ b \in Seq(R) /\ Len(b) = n
      /\ x \in Seq(R) /\ Len(x) = m + n
  BY <1>1, ImageType
<1>3. /\ a \o b \in Seq(R) /\ Len(a \o b) = m + n
      /\ \A i \in 1 .. m + n :
           (a \o b)[i] = IF i <= m THEN a[i] ELSE b[i - m]
  BY <1>2, ConcatProperties
<1>4. /\ \A i \in 1 .. m : a[i] = f[s[i]]
      /\ \A i \in 1 .. n : b[i] = f[t[i]]
      /\ \A i \in 1 .. m + n : x[i] = f[u[i]]
  BY <1>1 DEF Image
<1> HIDE DEF m, n, u, a, b, x
<1>5. ASSUME NEW i \in 1 .. m + n PROVE x[i] = (a \o b)[i]
  <2>1. CASE i <= m
    <3>1. i \in 1 .. m
      BY <1>1, <2>1
    <3>2. u[i] = s[i] /\ (a \o b)[i] = a[i]
      BY <1>1, <1>3, <2>1
    <3> QED BY <1>4, <3>1, <3>2
  <2>2. CASE ~(i <= m)
    <3>1. PICK k \in 1 .. n : k = i - m
      BY <1>1, <2>2
    <3>2. u[i] = t[k] /\ (a \o b)[i] = b[k]
      BY <1>1, <1>3, <2>2, <3>1
    <3> QED BY <1>4, <3>1, <3>2
  <2> QED BY <2>1, <2>2
<1>6. x = a \o b
  BY <1>2, <1>3, <1>5, SeqEqual
<1> QED BY <1>6 DEF x, a, b, u

\* The image of a single context.
LEMMA ImageOne ==
  ASSUME NEW c \in Ctxs, NEW R, NEW f \in [Ctxs -> R]
  PROVE  Image(<<c>>, f) = <<f[c]>>
<1>1. DOMAIN <<c>> = 1 .. 1 /\ <<c>>[1] = c
  OBVIOUS
<1>2. Image(<<c>>, f) = [i \in 1 .. 1 |-> f[c]]
  BY <1>1 DEF Image
<1>3. [i \in 1 .. 1 |-> f[c]] = <<f[c]>>
  OBVIOUS
<1> QED BY <1>2, <1>3

\* The image of a list with one more in front.
LEMMA ImageCons ==
  ASSUME NEW s \in Seq(Ctxs), NEW c \in Ctxs, NEW R, NEW f \in [Ctxs -> R]
  PROVE  Image(<<c>> \o s, f) = <<f[c]>> \o Image(s, f)
<1>1. <<c>> \in Seq(Ctxs)
  OBVIOUS
<1>2. Image(<<c>> \o s, f) = Image(<<c>>, f) \o Image(s, f)
  BY <1>1, ImageConcat, Zenon
<1> QED BY <1>2, ImageOne, Zenon

\* One more at the end of a list, and one less at its front.
LEMMA ImageAppend ==
  ASSUME NEW s \in Seq(Ctxs), NEW c \in Ctxs, NEW R, NEW f \in [Ctxs -> R]
  PROVE  Image(s \o <<c>>, f) = Append(Image(s, f), f[c])
<1>1. Image(s \o <<c>>, f) = Image(s, f) \o <<f[c]>>
  <2>1. <<c>> \in Seq(Ctxs)
    OBVIOUS
  <2>2. Image(s \o <<c>>, f) = Image(s, f) \o Image(<<c>>, f)
    BY <2>1, ImageConcat, Zenon
  <2> QED BY <2>2, ImageOne, Zenon
<1>2. Image(s, f) \in Seq(R) /\ f[c] \in R
  BY ImageType
<1> QED BY <1>1, <1>2, AppendIsConcat

\* What is left of an image without its first.
LEMMA ImageTail ==
  ASSUME NEW s \in Seq(Ctxs), NEW c \in Ctxs, NEW R, NEW f \in [Ctxs -> R]
  PROVE  LET x == Image(<<c>> \o s, f)
         IN x # <<>> /\ Head(x) = f[c] /\ Tail(x) = Image(s, f)
<1> DEFINE a == Image(s, f)
           x == <<f[c]>> \o a
<1>1. Image(<<c>> \o s, f) = x
  BY ImageCons
<1>2. a \in Seq(R) /\ f[c] \in R /\ <<f[c]>> \in Seq(R) /\ Len(<<f[c]>>) = 1
  BY ImageType
<1> HIDE DEF a
<1>3. /\ x \in Seq(R) /\ Len(x) = 1 + Len(a)
      /\ \A i \in 1 .. 1 + Len(a) :
           x[i] = IF i <= 1 THEN <<f[c]>>[i] ELSE a[i - 1]
  BY <1>2, ConcatProperties
<1> HIDE DEF x
<1>4. Len(a) \in Nat
  BY <1>2
<1>5. x # <<>> /\ Len(x) >= 1 /\ x[1] = f[c]
  <2>1. 1 \in 1 .. 1 + Len(a)
    BY <1>4
  <2> QED BY <1>2, <1>3, <1>4, <2>1
<1>6. Head(x) = f[c]
  BY <1>3, <1>5
<1>7. /\ Tail(x) \in Seq(R) /\ Len(Tail(x)) = Len(a)
      /\ \A i \in 1 .. Len(a) : Tail(x)[i] = x[i + 1]
  <2>1. Len(Tail(x)) = Len(x) - 1 /\ Len(x) - 1 = Len(a)
    BY <1>3, <1>4, <1>5, HeadTailProperties
  <2> QED BY <1>3, <1>5, <2>1, HeadTailProperties
<1>8. ASSUME NEW i \in 1 .. Len(a) PROVE Tail(x)[i] = a[i]
  <2>1. PICK k \in 1 .. 1 + Len(a) : k = i + 1
    BY <1>4
  <2>2. x[k] = a[k - 1] /\ k - 1 = i
    BY <1>3, <1>4, <2>1
  <2> QED BY <1>7, <2>1, <2>2
<1>9. Tail(x) = a
  BY <1>2, <1>7, <1>8, SeqEqual
<1> QED BY <1>1, <1>5, <1>6, <1>9 DEF a

\* y is x without one v.
Drops(x, v, y) ==
  \E i \in DOMAIN x :
    x[i] = v /\ y = SubSeq(x, 1, i - 1) \o SubSeq(x, i + 1, Len(x))

\* One less in the middle.
LEMMA ImageDrop ==
  ASSUME NEW s \in Seq(Ctxs), NEW t \in Seq(Ctxs), NEW c \in Ctxs, NEW R,
         NEW f \in [Ctxs -> R]
  PROVE  Drops(Image(s \o (<<c>> \o t), f), f[c], Image(s \o t, f))
<1> DEFINE a == Image(s, f)
           b == Image(t, f)
           d == <<f[c]>> \o b
           x == a \o d
           m == Len(a)
           n == Len(b)
<1>1. /\ Image(s \o (<<c>> \o t), f) = x /\ Image(s \o t, f) = a \o b
  <2>1. <<c>> \in Seq(Ctxs) /\ <<c>> \o t \in Seq(Ctxs)
    OBVIOUS
  <2>2. Image(<<c>> \o t, f) = <<f[c]>> \o Image(t, f)
    BY ImageCons, Zenon
  <2>3. Image(s \o (<<c>> \o t), f) = Image(s, f) \o Image(<<c>> \o t, f)
    <3> HIDE DEF a, b, d, x, m, n
    <3>1. PICK u : u = <<c>> \o t
      OBVIOUS
    <3>2. u \in Seq(Ctxs)
      BY <2>1, <3>1, Zenon
    <3>3. Image(s \o u, f) = Image(s, f) \o Image(u, f)
      BY <3>2, ImageConcat, ZenonT(30)
    <3> QED BY <3>1, <3>3, ZenonT(30)
  <2>4. Image(s \o t, f) = Image(s, f) \o Image(t, f)
    BY ImageConcat, Zenon
  <2> QED BY <2>2, <2>3, <2>4, Zenon
<1>2. a \in Seq(R) /\ b \in Seq(R) /\ <<f[c]>> \in Seq(R) /\ f[c] \in R
      /\ Len(<<f[c]>>) = 1 /\ m \in Nat /\ n \in Nat
      /\ Len(a) = m /\ Len(b) = n
  BY ImageType
<1> HIDE DEF a, b, m, n
<1>3. /\ d \in Seq(R) /\ Len(d) = 1 + n
      /\ \A i \in 1 .. 1 + n : d[i] = IF i <= 1 THEN <<f[c]>>[i] ELSE b[i - 1]
  BY <1>2, ConcatProperties
<1>4. d[1] = f[c] /\ \A i \in 1 .. n : d[i + 1] = b[i]
  <2>1. d[1] = f[c]
    <3>1. 1 \in 1 .. 1 + n
      BY <1>2
    <3> QED BY <1>3, <3>1
  <2>2. ASSUME NEW i \in 1 .. n PROVE d[i + 1] = b[i]
    <3>1. PICK k \in 1 .. 1 + n : k = i + 1 /\ ~(k <= 1) /\ k - 1 = i
      BY <1>2
    <3> QED BY <1>3, <3>1
  <2> QED BY <2>1, <2>2
<1> HIDE DEF d
<1>5. /\ x \in Seq(R) /\ Len(x) = m + (1 + n)
      /\ \A i \in 1 .. m + (1 + n) : x[i] = IF i <= m THEN a[i] ELSE d[i - m]
  <2>1. /\ x \in Seq(R) /\ Len(x) = Len(a) + Len(d)
        /\ \A i \in 1 .. Len(a) + Len(d) :
             x[i] = IF i <= Len(a) THEN a[i] ELSE d[i - Len(a)]
    BY <1>2, <1>3, ConcatProperties
  <2> HIDE DEF x
  <2> QED BY <1>2, <1>3, <2>1
<1> HIDE DEF x
<1>6. /\ m + 1 \in DOMAIN x /\ x[m + 1] = f[c]
  <2>1. PICK k \in 1 .. m + (1 + n) : k = m + 1 /\ ~(k <= m) /\ k - m = 1
    BY <1>2
  <2>2. DOMAIN x = 1 .. m + (1 + n)
    BY <1>2, <1>5
  <2> QED BY <1>4, <1>5, <2>1, <2>2
<1>7. SubSeq(x, 1, m) = a
  <2>1. \A i \in 1 .. m : x[i] = a[i] /\ x[i] \in R
    BY <1>2, <1>5
  <2>2. /\ SubSeq(x, 1, m) \in Seq(R) /\ Len(SubSeq(x, 1, m)) = m
        /\ \A i \in 1 .. m : SubSeq(x, 1, m)[i] = x[i]
    <3>1. /\ SubSeq(x, 1, m) \in Seq(R)
          /\ Len(SubSeq(x, 1, m)) = IF 1 <= m THEN m - 1 + 1 ELSE 0
          /\ \A i \in 1 .. m - 1 + 1 : SubSeq(x, 1, m)[i] = x[1 + i - 1]
      <4>1. 1 \in Int /\ m \in Int
        BY <1>2
      <4> QED BY <2>1, <4>1, SubSeqProperties
    <3>2. m - 1 + 1 = m /\ (~(1 <= m) => m = 0)
          /\ \A i \in 1 .. m : 1 + i - 1 = i
      BY <1>2
    <3> QED BY <3>1, <3>2
  <2> QED BY <1>2, <2>1, <2>2, SeqEqual
<1>8. SubSeq(x, m + 2, m + 1 + n) = b
  <2> DEFINE p == m + 2
             q == m + 1 + n
  <2>1. /\ p \in Int /\ q \in Int /\ q - p + 1 = n
        /\ ~(p <= q) => n = 0
        /\ \A i \in 1 .. n : p + i - 1 = m + 1 + i
        /\ \A k \in p .. q : x[k] \in R
    BY <1>2, <1>5
  <2>2. ASSUME NEW i \in 1 .. n PROVE x[p + i - 1] = b[i]
    <3>1. PICK k \in 1 .. m + (1 + n) :
            k = m + 1 + i /\ ~(k <= m) /\ k - m = i + 1
      BY <1>2
    <3>2. k = p + i - 1
      BY <2>1, <3>1
    <3> QED BY <1>4, <1>5, <3>1, <3>2
  <2> HIDE DEF p, q
  <2>3. /\ SubSeq(x, p, q) \in Seq(R)
        /\ Len(SubSeq(x, p, q)) = IF p <= q THEN q - p + 1 ELSE 0
        /\ \A i \in 1 .. q - p + 1 : SubSeq(x, p, q)[i] = x[p + i - 1]
    BY <2>1, SubSeqProperties
  <2>4. /\ Len(SubSeq(x, p, q)) = n
        /\ \A i \in 1 .. n : SubSeq(x, p, q)[i] = b[i]
    BY <2>1, <2>2, <2>3
  <2>5. SubSeq(x, p, q) = b
    BY <1>2, <2>3, <2>4, SeqEqual
  <2> QED BY <2>5, Zenon DEF p, q
<1>9. PICK k \in Int : k = m + 1 /\ k - 1 = m /\ k + 1 = m + 2
  BY <1>2
<1>10. Len(x) = m + 1 + n
  BY <1>2, <1>5
<1>11. /\ k \in DOMAIN x /\ x[k] = f[c]
       /\ a \o b = SubSeq(x, 1, k - 1) \o SubSeq(x, k + 1, Len(x))
  <2>1. SubSeq(x, 1, k - 1) = a
    BY <1>7, <1>9, Zenon
  <2>2. SubSeq(x, k + 1, Len(x)) = b
    BY <1>8, <1>9, <1>10, Zenon
  <2> QED BY <1>6, <1>9, <2>1, <2>2, Zenon
<1>12. Drops(x, f[c], a \o b)
  BY <1>11, Zenon DEF Drops
<1> QED BY <1>1, <1>12, Zenon

\* Lists with one more at the end, in front, in the middle, and two lists.
Plus(s, c) == s \o <<c>>
Cons(c, s) == <<c>> \o s
Between(s, c, t) == s \o (<<c>> \o t)
Cat(s, t) == s \o t

\* f is a function of contexts; f and g agree on the members of s; x begins
\* with v and goes on with y.
OnCtxs(f) == \E R : f \in [Ctxs -> R]
Agree(f, g, s) == \A i \in 1 .. Len(s) : f[s[i]] = g[s[i]]
Begins(x, v, y) == x # <<>> /\ Head(x) = v /\ Tail(x) = y
\* The image of a list that stays, grows, shrinks or loses a member, under
\* a function that may change elsewhere.
LEMMA ImageKept ==
  ASSUME NEW s \in Seq(Ctxs), NEW f, NEW g, Agree(f, g, s)
  PROVE  Image(s, f) = Image(s, g)
BY ImageSame DEF Agree

\* One more at the end.
LEMMA ImageGrows ==
  ASSUME NEW s \in Seq(Ctxs), NEW c \in Ctxs, NEW f, NEW g, OnCtxs(g),
         Agree(f, g, s)
  PROVE  Image(Plus(s, c), g) = Append(Image(s, f), g[c])
<1>1. PICK R : g \in [Ctxs -> R]
  BY Zenon DEF OnCtxs
<1>2. Image(s \o <<c>>, g) = Append(Image(s, g), g[c])
  BY <1>1, ImageAppend, Zenon
<1>3. Image(s, f) = Image(s, g)
  BY ImageKept, Zenon
<1> QED BY <1>2, <1>3, Zenon DEF Plus

\* One less at the front.
LEMMA ImageShrinks ==
  ASSUME NEW s \in Seq(Ctxs), NEW c \in Ctxs, NEW f, NEW g, OnCtxs(f),
         Agree(f, g, s)
  PROVE  Begins(Image(Cons(c, s), f), f[c], Image(s, g))
<1>1. PICK R : f \in [Ctxs -> R]
  BY Zenon DEF OnCtxs
<1>2. LET x == Image(<<c>> \o s, f)
      IN x # <<>> /\ Head(x) = f[c] /\ Tail(x) = Image(s, f)
  BY <1>1, ImageTail, Zenon
<1>3. Image(s, f) = Image(s, g)
  BY ImageKept, Zenon
<1> QED BY <1>2, <1>3, Zenon DEF Cons, Begins

\* One less in the middle.
LEMMA ImageDrops ==
  ASSUME NEW s \in Seq(Ctxs), NEW t \in Seq(Ctxs), NEW c \in Ctxs, NEW f,
         OnCtxs(f)
  PROVE  Drops(Image(Between(s, c, t), f), f[c], Image(Cat(s, t), f))
<1>1. PICK R : f \in [Ctxs -> R]
  BY Zenon DEF OnCtxs
<1>2. Drops(Image(s \o (<<c>> \o t), f), f[c], Image(s \o t, f))
  BY <1>1, ImageDrop
<1> QED BY <1>2, Zenon DEF Between, Cat

\* What comes after the first of a list without repetitions.
LEMMA AfterFirst ==
  ASSUME NEW s \in Seq(Ctxs), NEW c \in Ctxs, NEW S, Lists(Cons(c, s), S)
  PROVE  \A i \in 1 .. Len(s) : s[i] \in S /\ s[i] # c
<1> DEFINE o == <<c>>
           b == Cons(c, s)
<1>1. o \in Seq(Ctxs) /\ Len(o) = 1 /\ o[1] = c /\ Len(s) \in Nat
  OBVIOUS
<1>2. b = o \o s
  BY Zenon DEF Cons
<1>3. Lists(b, S)
  OBVIOUS
<1> HIDE DEF o, b
<1>4. /\ Len(b) = 1 + Len(s)
      /\ \A k \in 1 .. 1 + Len(s) : b[k] = IF k <= 1 THEN o[k] ELSE s[k - 1]
  <2>1. /\ Len(o \o s) = Len(o) + Len(s)
        /\ \A k \in 1 .. Len(o) + Len(s) :
             (o \o s)[k] = IF k <= Len(o) THEN o[k] ELSE s[k - Len(o)]
    BY <1>1, ConcatProperties
  <2> QED BY <1>1, <1>2, <2>1
<1>5. ASSUME NEW i \in 1 .. Len(s) PROVE s[i] \in S /\ s[i] # c
  <2>1. PICK k \in 1 .. 1 + Len(s) : k - 1 = i /\ ~(k <= 1)
    <3>1. i + 1 \in 1 .. 1 + Len(s) /\ (i + 1) - 1 = i /\ ~(i + 1 <= 1)
      BY <1>1
    <3> QED BY <3>1
  <2>2. PICK j \in 1 .. 1 + Len(s) : j = 1
    BY <1>1
  <2>3. b[k] = s[i] /\ b[j] = c /\ k # j
    BY <1>1, <1>4, <2>1, <2>2
  <2> QED BY <1>3, <1>4, <2>3 DEF Lists
<1> QED BY <1>5

-----------------------------------------------------------------------------
(* How a step rearranges the pipeline *)

\* The context of the memtable stage, on the side of the store it is on.
Ahead == IF Executed THEN <<>> ELSE InHand("memtable")
Behind == IF Executed THEN InHand("memtable") ELSE <<>>

Grouped ==
  /\ Before = Cat(Cat(Cat(Cat(Ahead, queue["memtable"]), InHand("input")),
                     queue["input"]), InHand("rx"))
  /\ Before = Cat(Cat(Ahead, queue["memtable"]),
                 Cat(Cat(InHand("input"), queue["input"]), InHand("rx")))
  /\ Before = Cat(Ahead, Cat(Cat(queue["memtable"], InHand("input")),
                            Cat(queue["input"], InHand("rx"))))
  /\ Done = Cat(Cat(Cat(Cat(InHand("tx"), queue["tx"]), InHand("output")),
                   queue["output"]), Behind)
  /\ Done = Cat(Cat(InHand("tx"), queue["tx"]),
               Cat(Cat(InHand("output"), queue["output"]), Behind))
  /\ Done = Cat(InHand("tx"), Cat(Cat(queue["tx"], InHand("output")),
                                 Cat(queue["output"], Behind)))

\* The pieces are lists of contexts.
Pieces ==
  /\ \A t \in Threads : InHand(t) \in Seq(Ctxs)
  /\ \A t \in Consumers : queue[t] \in Seq(Ctxs)
  /\ Ahead \in Seq(Ctxs) /\ Behind \in Seq(Ctxs)

\* Lists may be grouped as one likes.
LEMMA Associative ==
  ASSUME NEW S, NEW x \in Seq(S), NEW y \in Seq(S), NEW z \in Seq(S)
  PROVE  Cat(Cat(x, y), z) = Cat(x, Cat(y, z)) /\ Cat(x, y) \in Seq(S)
<1>1. Cat(Cat(x, y), z) = Cat(x, Cat(y, z))
  <2>1. (x \o y) \o z = x \o (y \o z)
    BY ConcatAssociative, SMTT(30)
  <2> QED BY <2>1, Zenon DEF Cat
<1>2. Cat(x, y) \in Seq(S)
  BY DEF Cat
<1> QED BY <1>1, <1>2

\* Five lists, grouped by twos in the two ways that are needed.
LEMMA Regroup ==
  ASSUME NEW a \in Seq(Ctxs), NEW b \in Seq(Ctxs), NEW c \in Seq(Ctxs),
         NEW d \in Seq(Ctxs), NEW e \in Seq(Ctxs)
  PROVE  /\ Cat(Cat(Cat(Cat(a, b), c), d), e)
              = Cat(Cat(a, b), Cat(Cat(c, d), e))
         /\ Cat(Cat(Cat(Cat(a, b), c), d), e)
              = Cat(a, Cat(Cat(b, c), Cat(d, e)))
BY Associative

\* The lists of the pipeline, grouped so that a queue and the hand that
\* pushes to it or pops it are together.
LEMMA PipelineGrouped == PipeTypeOK => Grouped /\ Pieces
<1> SUFFICES ASSUME PipeTypeOK PROVE Grouped /\ Pieces
  OBVIOUS
<1>1. \A t \in Threads : InHand(t) \in Seq(Ctxs)
  BY HandLists DEF Lists
<1>2. \A t \in Consumers : queue[t] \in Seq(Ctxs)
  BY DEF PipeTypeOK
<1>3. /\ InHand("rx") \in Seq(Ctxs) /\ InHand("input") \in Seq(Ctxs)
      /\ InHand("memtable") \in Seq(Ctxs) /\ InHand("output") \in Seq(Ctxs)
      /\ InHand("tx") \in Seq(Ctxs)
      /\ queue["input"] \in Seq(Ctxs) /\ queue["memtable"] \in Seq(Ctxs)
      /\ queue["output"] \in Seq(Ctxs) /\ queue["tx"] \in Seq(Ctxs)
      /\ <<>> \in Seq(Ctxs)
  BY <1>1, <1>2 DEF Threads, Consumers
<1>4. Ahead \in Seq(Ctxs) /\ Behind \in Seq(Ctxs)
  BY <1>3 DEF Ahead, Behind
<1>5. /\ Before = Cat(Cat(Cat(Cat(Ahead, queue["memtable"]), InHand("input")),
                          queue["input"]), InHand("rx"))
      /\ Done = Cat(Cat(Cat(Cat(InHand("tx"), queue["tx"]), InHand("output")),
                        queue["output"]), Behind)
  BY Zenon DEF Before, Done, Ahead, Behind, Cat
<1>6. /\ Before = Cat(Cat(Ahead, queue["memtable"]),
                      Cat(Cat(InHand("input"), queue["input"]), InHand("rx")))
      /\ Before = Cat(Ahead, Cat(Cat(queue["memtable"], InHand("input")),
                                 Cat(queue["input"], InHand("rx"))))
  <2> DEFINE a == Ahead
             b == queue["memtable"]
             c == InHand("input")
             d == queue["input"]
             e == InHand("rx")
  <2>1. a \in Seq(Ctxs) /\ b \in Seq(Ctxs) /\ c \in Seq(Ctxs)
        /\ d \in Seq(Ctxs) /\ e \in Seq(Ctxs)
    BY <1>3, <1>4
  <2> HIDE DEF a, b, c, d, e
  <2>2. /\ Cat(Cat(Cat(Cat(a, b), c), d), e)
             = Cat(Cat(a, b), Cat(Cat(c, d), e))
        /\ Cat(Cat(Cat(Cat(a, b), c), d), e)
             = Cat(a, Cat(Cat(b, c), Cat(d, e)))
    BY <2>1, Regroup
  <2> QED BY <1>5, <2>2, Zenon DEF a, b, c, d, e
<1>7. /\ Done = Cat(Cat(InHand("tx"), queue["tx"]),
                    Cat(Cat(InHand("output"), queue["output"]), Behind))
      /\ Done = Cat(InHand("tx"), Cat(Cat(queue["tx"], InHand("output")),
                                      Cat(queue["output"], Behind)))
  <2> DEFINE a == InHand("tx")
             b == queue["tx"]
             c == InHand("output")
             d == queue["output"]
             e == Behind
  <2>1. a \in Seq(Ctxs) /\ b \in Seq(Ctxs) /\ c \in Seq(Ctxs)
        /\ d \in Seq(Ctxs) /\ e \in Seq(Ctxs)
    BY <1>3, <1>4
  <2> HIDE DEF a, b, c, d, e
  <2>2. /\ Cat(Cat(Cat(Cat(a, b), c), d), e)
             = Cat(Cat(a, b), Cat(Cat(c, d), e))
        /\ Cat(Cat(Cat(Cat(a, b), c), d), e)
             = Cat(a, Cat(Cat(b, c), Cat(d, e)))
    BY <2>1, Regroup
  <2> QED BY <1>5, <2>2, Zenon DEF a, b, c, d, e
<1> QED BY <1>1, <1>2, <1>4, <1>5, <1>6, <1>7 DEF Grouped, Pieces

\* A list is its first member and what comes after it.
LEMMA FirstAndRest ==
  ASSUME NEW q \in Seq(Ctxs), q # <<>>
  PROVE  <<Head(q)>> \o Tail(q) = q
<1>1. q = SubSeq(q, 1, Len(q)) /\ Len(q) \in Nat \ {0}
  BY SubSeqFull, EmptySeq
<1>2. SubSeq(q, 1, Len(q)) = <<q[1]>> \o SubSeq(q, 1 + 1, Len(q))
  <2>1. 1 \in 1 .. Len(q) /\ Len(q) \in 1 .. Len(q)
    BY <1>1
  <2> QED BY <2>1, SubSeqRecursiveFirst
<1>3. Tail(q) = SubSeq(q, 2, Len(q)) /\ Head(q) = q[1] /\ 1 + 1 = 2
  BY TailIsSubSeq
<1> QED BY <1>1, <1>2, <1>3, Zenon

\* A context taken or pushed keeps its place among the others.
LEMMA TakeGroups ==
  ASSUME PipeTypeOK, NEW t \in Consumers, Take(t)
  PROVE  /\ Cat(InHand(t)', queue'[t]) = Cat(InHand(t), queue[t])
         /\ \A u \in Consumers : u # t => queue'[u] = queue[u]
         /\ \A u \in Threads : u # t => InHand(u)' = InHand(u)
<1> DEFINE q == queue[t]
           c == Head(q)
<1>1. q \in Seq(Ctxs) /\ q # <<>> /\ hand[t] = NoCtx /\ t \in Threads
  BY ThreadFacts DEF Take, Pop, PipeTypeOK
<1>2. c \in Ctxs /\ Tail(q) \in Seq(Ctxs) /\ c # NoCtx
  BY <1>1, ServerAssumption
<1>3. /\ queue'[t] = Tail(q)
      /\ \A u \in Consumers : u # t => queue'[u] = queue[u]
      /\ hand'[t] = c /\ \A u \in Threads : u # t => hand'[u] = hand[u]
  BY <1>1 DEF Take, Pop, PipeTypeOK
<1> HIDE DEF q
<1>4. InHand(t) = <<>> /\ InHand(t)' = <<c>>
      /\ \A u \in Threads : u # t => InHand(u)' = InHand(u)
  BY <1>1, <1>2, <1>3 DEF InHand
<1>5. <<c>> \o Tail(q) = q
  BY <1>1, FirstAndRest
<1>6. <<>> \o q = q
  BY <1>1, ConcatEmptySeq
<1>7. InHand(t)' \o queue'[t] = InHand(t) \o q
  BY <1>3, <1>4, <1>5, <1>6, Zenon
<1> QED BY <1>3, <1>4, <1>7, Zenon DEF q, Cat

\* The same of a context that is pushed.
LEMMA PushGroups ==
  ASSUME PipeTypeOK, NEW t \in Threads, NEW to \in Consumers, Push(t, to)
  PROVE  /\ Cat(queue'[to], InHand(t)') = Cat(queue[to], InHand(t))
         /\ InHand(t)' = <<>> /\ InHand(t) = <<hand[t]>> /\ hand[t] \in Ctxs
         /\ \A u \in Consumers : u # to => queue'[u] = queue[u]
         /\ \A u \in Threads : u # t => InHand(u)' = InHand(u)
<1> DEFINE q == queue[to]
           c == hand[t]
<1>1. q \in Seq(Ctxs) /\ c \in Ctxs /\ c # NoCtx
  BY DEF Push, PipeTypeOK
<1>2. /\ queue'[to] = Append(q, c)
      /\ \A u \in Consumers : u # to => queue'[u] = queue[u]
      /\ hand'[t] = NoCtx /\ \A u \in Threads : u # t => hand'[u] = hand[u]
  BY DEF Push, PipeTypeOK
<1>3. /\ InHand(t) = <<c>> /\ InHand(t)' = <<>>
      /\ \A u \in Threads : u # t => InHand(u)' = InHand(u)
  BY <1>1, <1>2 DEF InHand
<1> HIDE DEF q, c
<1>4. Append(q, c) = q \o <<c>> /\ Append(q, c) \in Seq(Ctxs)
  BY <1>1, AppendIsConcat
<1>5. Append(q, c) \o <<>> = Append(q, c)
  BY <1>4, ConcatEmptySeq
<1>6. queue'[to] \o InHand(t)' = q \o InHand(t)
  BY <1>2, <1>3, <1>4, <1>5, Zenon
<1> QED BY <1>1, <1>2, <1>3, <1>6, Zenon DEF q, c, Cat

-----------------------------------------------------------------------------
(* The variables of SerialServer *)

Inbox == [i \in DOMAIN Before |-> RequestOf(Before[i])]
Outbox == [i \in DOMAIN Done |-> ReplyTo(Done[i])]
serialView == <<Inbox, Dict, Full, Outbox, wire>>

RequestAt == [c \in Ctxs |-> RequestOf(c)]
ReplyAt == [c \in Ctxs |-> ReplyTo(c)]

Laid ==
  /\ Lists(Before, Unserved) /\ Lists(Done, Served)
  /\ Inbox = Image(Before, RequestAt) /\ Outbox = Image(Done, ReplyAt)
  /\ OnCtxs(RequestAt) /\ OnCtxs(ReplyAt)

\* The inbox and the outbox are images of the lists of contexts.
LEMMA PipelineLaid == PipeInv => Laid
<1> SUFFICES ASSUME PipeInv PROVE Laid
  OBVIOUS
<1>1. Lists(Before, Unserved) /\ Lists(Done, Served)
  BY BeforeLists, DoneLists DEF PipeInv
<1>2. /\ \A i \in DOMAIN Before : Before[i] \in Ctxs
      /\ \A i \in DOMAIN Done : Done[i] \in Ctxs
  BY <1>1 DEF Lists
<1>3. Inbox = Image(Before, RequestAt)
  BY <1>2 DEF Inbox, Image, RequestAt
<1>4. Outbox = Image(Done, ReplyAt)
  BY <1>2 DEF Outbox, Image, ReplyAt
<1>5. OnCtxs(RequestAt) /\ OnCtxs(ReplyAt)
  <2>1. RequestAt \in [Ctxs -> {RequestAt[d] : d \in Ctxs}]
    BY DEF RequestAt
  <2>2. ReplyAt \in [Ctxs -> {ReplyAt[d] : d \in Ctxs}]
    BY DEF ReplyAt
  <2> QED BY <2>1, <2>2, Zenon DEF OnCtxs
<1> QED BY <1>1, <1>3, <1>4, <1>5 DEF Laid

\* A list b of contexts and its image x, before and after a step: what stays,
\* what is added at the end, what is taken from the front, what is dropped.
LEMMA ListKept ==
  ASSUME NEW b, NEW f, NEW g, NEW S, Lists(b, S),
         \A d \in S : g[d] = f[d]
  PROVE  Image(b, g) = Image(b, f)
<1>1. b \in Seq(Ctxs) /\ Agree(f, g, b)
  BY DEF Lists, Agree
<1> QED BY <1>1, ImageKept

\* One more at the end, with its image.
LEMMA ListGrows ==
  ASSUME NEW b, NEW f, NEW g, NEW S, NEW c \in Ctxs, Lists(b, S), OnCtxs(g),
         \A d \in S : g[d] = f[d]
  PROVE  Image(Plus(b, c), g) = Append(Image(b, f), g[c])
<1>1. b \in Seq(Ctxs) /\ Agree(f, g, b)
  BY DEF Lists, Agree
<1> QED BY <1>1, ImageGrows

\* One less at the front, with its image.
LEMMA ListShrinks ==
  ASSUME NEW b \in Seq(Ctxs), NEW f, NEW g, NEW S, NEW c \in Ctxs,
         Lists(Cons(c, b), S), OnCtxs(f),
         \A d \in S : d # c => g[d] = f[d]
  PROVE  Begins(Image(Cons(c, b), f), f[c], Image(b, g))
<1>1. Agree(f, g, b)
  BY AfterFirst DEF Agree
<1> QED BY <1>1, ImageShrinks

\* The inbox, when the contexts before the store stay, grow by one, lose
\* their first, or lose one in the middle.
LEMMA InboxKept ==
  ASSUME Laid, Laid', Before' = Before,
         \A d \in Unserved : RequestAt'[d] = RequestAt[d]
  PROVE  Inbox' = Inbox
<1>1. Inbox' = Image(Before, RequestAt') /\ Inbox = Image(Before, RequestAt)
  BY Zenon DEF Laid
<1>2. Image(Before, RequestAt') = Image(Before, RequestAt)
  BY ListKept, Zenon DEF Laid
<1> QED BY <1>1, <1>2, Zenon

\* One more is received.
LEMMA InboxGrows ==
  ASSUME Laid, Laid', NEW c \in Ctxs, Before' = Plus(Before, c),
         \A d \in Unserved : RequestAt'[d] = RequestAt[d]
  PROVE  Inbox' = Append(Inbox, RequestAt'[c])
<1>1. /\ Inbox' = Image(Plus(Before, c), RequestAt')
      /\ Inbox = Image(Before, RequestAt)
  BY Zenon DEF Laid
<1>2. Lists(Before, Unserved) /\ OnCtxs(RequestAt')
  BY Zenon DEF Laid
<1>3. Image(Plus(Before, c), RequestAt')
        = Append(Image(Before, RequestAt), RequestAt'[c])
  BY <1>2, ListGrows
<1> QED BY <1>1, <1>3, Zenon

\* The first is executed.
LEMMA InboxShrinks ==
  ASSUME Laid, Laid', NEW c \in Ctxs, Before = Cons(c, Before'),
         \A d \in Unserved : d # c => RequestAt'[d] = RequestAt[d]
  PROVE  Begins(Inbox, RequestAt[c], Inbox')
<1>1. /\ Inbox' = Image(Before', RequestAt')
      /\ Inbox = Image(Cons(c, Before'), RequestAt)
  BY Zenon DEF Laid
<1>2. /\ Before' \in Seq(Ctxs) /\ Lists(Cons(c, Before'), Unserved)
      /\ OnCtxs(RequestAt)
  BY Zenon DEF Laid, Lists
<1>3. Begins(Image(Cons(c, Before'), RequestAt), RequestAt[c],
             Image(Before', RequestAt'))
  BY <1>2, ListShrinks, Zenon
<1> QED BY <1>1, <1>3, Zenon

\* One is thrown away.
LEMMA InboxDrops ==
  ASSUME Laid, Laid', NEW s \in Seq(Ctxs), NEW t \in Seq(Ctxs), NEW c \in Ctxs,
         Before = Between(s, c, t), Before' = Cat(s, t),
         RequestAt' = RequestAt
  PROVE  Drops(Inbox, RequestAt[c], Inbox')
<1>1. /\ Inbox' = Image(Cat(s, t), RequestAt)
      /\ Inbox = Image(Between(s, c, t), RequestAt)
  BY Zenon DEF Laid
<1>2. Drops(Image(Between(s, c, t), RequestAt), RequestAt[c],
            Image(Cat(s, t), RequestAt))
  BY ImageDrops DEF Laid
<1> QED BY <1>1, <1>2, Zenon

\* The same of the outbox.
LEMMA OutboxKept ==
  ASSUME Laid, Laid', Done' = Done,
         \A d \in Served : ReplyAt'[d] = ReplyAt[d]
  PROVE  Outbox' = Outbox
<1>1. Outbox' = Image(Done, ReplyAt') /\ Outbox = Image(Done, ReplyAt)
  BY Zenon DEF Laid
<1>2. Image(Done, ReplyAt') = Image(Done, ReplyAt)
  BY ListKept, Zenon DEF Laid
<1> QED BY <1>1, <1>2, Zenon

\* One more is answered.
LEMMA OutboxGrows ==
  ASSUME Laid, Laid', NEW c \in Ctxs, Done' = Plus(Done, c),
         \A d \in Served : ReplyAt'[d] = ReplyAt[d]
  PROVE  Outbox' = Append(Outbox, ReplyAt'[c])
<1>1. /\ Outbox' = Image(Plus(Done, c), ReplyAt')
      /\ Outbox = Image(Done, ReplyAt)
  BY Zenon DEF Laid
<1>2. Lists(Done, Served) /\ OnCtxs(ReplyAt')
  BY Zenon DEF Laid
<1>3. Image(Plus(Done, c), ReplyAt')
        = Append(Image(Done, ReplyAt), ReplyAt'[c])
  BY <1>2, ListGrows
<1> QED BY <1>1, <1>3, Zenon

\* The first is sent.
LEMMA OutboxShrinks ==
  ASSUME Laid, Laid', NEW c \in Ctxs, Done = Cons(c, Done'),
         \A d \in Served : d # c => ReplyAt'[d] = ReplyAt[d]
  PROVE  Begins(Outbox, ReplyAt[c], Outbox')
<1>1. /\ Outbox' = Image(Done', ReplyAt')
      /\ Outbox = Image(Cons(c, Done'), ReplyAt)
  BY Zenon DEF Laid
<1>2. /\ Done' \in Seq(Ctxs) /\ Lists(Cons(c, Done'), Served)
      /\ OnCtxs(ReplyAt)
  BY Zenon DEF Laid, Lists
<1>3. Begins(Image(Cons(c, Done'), ReplyAt), ReplyAt[c],
             Image(Done', ReplyAt'))
  BY <1>2, ListShrinks, Zenon
<1> QED BY <1>1, <1>3, Zenon

-----------------------------------------------------------------------------
(* What the steps do to the lists *)

\* A context taken or pushed inside its part of the pipeline leaves the lists
\* as they are.
Rearranged == Before' = Before /\ Done' = Done

\* A thread takes a context from its queue.
LEMMA TakeKeeps ==
  ASSUME Grouped, Grouped', PipeTypeOK, NEW t \in Consumers, Take(t),
         Executed' = Executed, t = "memtable" => ~Executed
  PROVE  Rearranged
<1>1. /\ Cat(InHand(t)', queue'[t]) = Cat(InHand(t), queue[t])
      /\ \A u \in Consumers : u # t => queue'[u] = queue[u]
      /\ \A u \in Threads : u # t => InHand(u)' = InHand(u)
  BY TakeGroups
<1>2. t # "memtable" => Ahead' = Ahead /\ Behind' = Behind
  BY <1>1 DEF Ahead, Behind, Threads
<1>3. CASE t = "input"
  BY <1>1, <1>2, <1>3 DEF Grouped, Rearranged, Threads, Consumers
<1>4. CASE t = "memtable"
  <2>1. Behind' = Behind /\ Ahead = InHand(t) /\ Ahead' = InHand(t)'
    BY <1>4 DEF Ahead, Behind
  <2> QED BY <1>1, <1>4, <2>1 DEF Grouped, Rearranged, Threads, Consumers
<1>5. CASE t = "output"
  BY <1>1, <1>2, <1>5 DEF Grouped, Rearranged, Threads, Consumers
<1>6. CASE t = "tx"
  BY <1>1, <1>2, <1>6 DEF Grouped, Rearranged, Threads, Consumers
<1> QED BY <1>3, <1>4, <1>5, <1>6 DEF Consumers, Threads

\* A thread other than the memtable stage passes a context on.
LEMMA PushKeeps ==
  ASSUME Grouped, Grouped', PipeTypeOK, Executed' = Executed,
         \/ Push("rx", "input") \/ Push("input", "memtable")
         \/ Push("output", "tx")
  PROVE  Rearranged
<1> USE DEF Threads, Consumers
<1>1. CASE Push("rx", "input")
  <2>1. /\ Cat(queue'["input"], InHand("rx")')
             = Cat(queue["input"], InHand("rx"))
        /\ \A u \in Consumers : u # "input" => queue'[u] = queue[u]
        /\ \A u \in Threads : u # "rx" => InHand(u)' = InHand(u)
    BY <1>1, PushGroups
  <2> QED BY <2>1 DEF Grouped, Rearranged, Ahead, Behind
<1>2. CASE Push("input", "memtable")
  <2>1. /\ Cat(queue'["memtable"], InHand("input")')
             = Cat(queue["memtable"], InHand("input"))
        /\ \A u \in Consumers : u # "memtable" => queue'[u] = queue[u]
        /\ \A u \in Threads : u # "input" => InHand(u)' = InHand(u)
    BY <1>2, PushGroups
  <2> QED BY <2>1 DEF Grouped, Rearranged, Ahead, Behind
<1>3. CASE Push("output", "tx")
  <2>1. /\ Cat(queue'["tx"], InHand("output")')
             = Cat(queue["tx"], InHand("output"))
        /\ \A u \in Consumers : u # "tx" => queue'[u] = queue[u]
        /\ \A u \in Threads : u # "output" => InHand(u)' = InHand(u)
    BY <1>3, PushGroups
  <2> QED BY <2>1 DEF Grouped, Rearranged, Ahead, Behind
<1> QED BY <1>1, <1>2, <1>3

\* The memtable stage passes an executed command on.
LEMMA ResultKeeps ==
  ASSUME Grouped, Grouped', PipeTypeOK, Executed, ~Executed',
         Push("memtable", "output")
  PROVE  Rearranged
<1> USE DEF Threads, Consumers
<1>1. /\ Cat(queue'["output"], InHand("memtable")')
           = Cat(queue["output"], InHand("memtable"))
      /\ InHand("memtable")' = <<>>
      /\ \A u \in Consumers : u # "output" => queue'[u] = queue[u]
      /\ \A u \in Threads : u # "memtable" => InHand(u)' = InHand(u)
  BY PushGroups
<1>2. Ahead' = Ahead /\ Behind = InHand("memtable") /\ Behind' = <<>>
  BY <1>1 DEF Ahead, Behind
<1> QED BY <1>1, <1>2 DEF Grouped, Rearranged

\* No context moves.
LEMMA NoneMoves ==
  ASSUME UNCHANGED <<hand, queue>>, Executed' = Executed
  PROVE  Rearranged
BY DEF Rearranged, Before, Done, InHand

\* Nothing before or after a list.
LEMMA CatEmpty ==
  ASSUME NEW s \in Seq(Ctxs)
  PROVE  Cat(<<>>, s) = s /\ Cat(s, <<>>) = s
BY ConcatEmptySeq DEF Cat

\* Two lists of contexts make one.
LEMMA CatTypes ==
  ASSUME NEW s \in Seq(Ctxs), NEW t \in Seq(Ctxs)
  PROVE  Cat(s, t) \in Seq(Ctxs)
BY DEF Cat

\* A datagram is received: its context is the last of those before the store.
LEMMA ReceiveMoves ==
  ASSUME Grouped, Grouped', Pieces, Pieces', NEW c \in Ctxs, UNCHANGED queue,
         Executed' = Executed, hand["rx"] = NoCtx, hand'["rx"] = c,
         \A u \in Threads : u # "rx" => hand'[u] = hand[u]
  PROVE  Before' = Plus(Before, c) /\ Done' = Done
<1>1. /\ InHand("rx") = <<>> /\ InHand("rx")' = <<c>>
      /\ \A u \in Threads : u # "rx" => InHand(u)' = InHand(u)
  BY ServerAssumption DEF InHand
<1>2. Ahead' = Ahead /\ Behind' = Behind
  BY <1>1 DEF Ahead, Behind, Threads
<1> DEFINE s == Cat(Cat(Cat(Ahead, queue["memtable"]), InHand("input")),
                    queue["input"])
<1>3. s \in Seq(Ctxs)
  BY CatTypes DEF Pieces, Threads, Consumers
<1>4. Before = Cat(s, <<>>)
  BY <1>1, Zenon DEF Grouped
<1>5. Before' = Cat(s, <<c>>)
  <2>1. s' = s
    BY <1>1, <1>2 DEF Threads
  <2>2. Before' = Cat(s', InHand("rx")')
    BY Zenon DEF Grouped
  <2> HIDE DEF s
  <2> QED BY <1>1, <2>1, <2>2, Zenon
<1>6. Done' = Done
  BY <1>1, <1>2 DEF Grouped, Threads
<1> HIDE DEF s
<1>7. Before = s
  BY <1>3, <1>4, CatEmpty
<1> QED BY <1>5, <1>6, <1>7, Zenon DEF Plus, Cat

\* The store executes a command: the first of those before it becomes the last
\* of those behind it.
LEMMA ExecuteMoves ==
  ASSUME Grouped, Grouped', Pieces, Pieces', UNCHANGED <<hand, queue>>,
         ~Executed, Executed', NEW c \in Ctxs, hand["memtable"] = c
  PROVE  Before = Cons(c, Before') /\ Done' = Plus(Done, c)
<1>1. /\ Ahead = <<c>> /\ Ahead' = <<>> /\ Behind = <<>> /\ Behind' = <<c>>
      /\ \A u \in Threads : InHand(u)' = InHand(u)
  BY ServerAssumption DEF Ahead, Behind, InHand
<1> DEFINE s == Cat(Cat(queue["memtable"], InHand("input")),
                    Cat(queue["input"], InHand("rx")))
           d == Cat(Cat(Cat(InHand("tx"), queue["tx"]), InHand("output")),
                    queue["output"])
<1>2. s \in Seq(Ctxs) /\ d \in Seq(Ctxs)
  BY CatTypes DEF Pieces, Threads, Consumers
<1>3. s' = s /\ d' = d
  BY <1>1 DEF Threads
<1>4. /\ Before = Cat(Ahead, s) /\ Before' = Cat(Ahead', s')
      /\ Done = Cat(d, Behind) /\ Done' = Cat(d', Behind')
  BY Zenon DEF Grouped
<1> HIDE DEF s, d
<1>5. Before = Cat(<<c>>, s) /\ Before' = Cat(<<>>, s)
      /\ Done = Cat(d, <<>>) /\ Done' = Cat(d, <<c>>)
  BY <1>1, <1>3, <1>4, Zenon
<1>6. Before' = s /\ Done = d
  BY <1>2, <1>5, CatEmpty
<1> QED BY <1>5, <1>6, Zenon DEF Cons, Plus, Cat

\* The memtable stage deletes its command.
LEMMA DropMoves ==
  ASSUME Grouped, Grouped', Pieces, Pieces', UNCHANGED queue,
         ~Executed, ~Executed', NEW c \in Ctxs, hand["memtable"] = c,
         hand'["memtable"] = NoCtx,
         \A u \in Threads : u # "memtable" => hand'[u] = hand[u]
  PROVE  Before = Cons(c, Before') /\ Done' = Done
<1>1. /\ Ahead = <<c>> /\ Ahead' = <<>> /\ Behind = <<>> /\ Behind' = <<>>
      /\ \A u \in Threads : u # "memtable" => InHand(u)' = InHand(u)
  BY ServerAssumption DEF Ahead, Behind, InHand
<1> DEFINE s == Cat(Cat(queue["memtable"], InHand("input")),
                    Cat(queue["input"], InHand("rx")))
<1>2. s \in Seq(Ctxs)
  BY CatTypes DEF Pieces, Threads, Consumers
<1>3. s' = s
  BY <1>1 DEF Threads
<1>4. Before = Cat(Ahead, s) /\ Before' = Cat(Ahead', s')
  BY Zenon DEF Grouped
<1>5. Done' = Done
  BY <1>1 DEF Grouped, Threads
<1> HIDE DEF s
<1>6. Before = Cat(<<c>>, s) /\ Before' = Cat(<<>>, s)
  BY <1>1, <1>3, <1>4, Zenon
<1>7. Before' = s
  BY <1>2, <1>6, CatEmpty
<1> QED BY <1>5, <1>6, <1>7, Zenon DEF Cons, Cat

\* A reply is sent: the first of those behind the store goes.
LEMMA SendMoves ==
  ASSUME Grouped, Grouped', Pieces, Pieces', UNCHANGED queue,
         Executed' = Executed, NEW c \in Ctxs, hand["tx"] = c,
         hand'["tx"] = NoCtx,
         \A u \in Threads : u # "tx" => hand'[u] = hand[u]
  PROVE  Before' = Before /\ Done = Cons(c, Done')
<1>1. /\ InHand("tx") = <<c>> /\ InHand("tx")' = <<>>
      /\ \A u \in Threads : u # "tx" => InHand(u)' = InHand(u)
  BY ServerAssumption DEF InHand
<1>2. Ahead' = Ahead /\ Behind' = Behind
  BY <1>1 DEF Ahead, Behind, Threads
<1> DEFINE s == Cat(Cat(queue["tx"], InHand("output")),
                    Cat(queue["output"], Behind))
<1>3. s \in Seq(Ctxs)
  BY CatTypes DEF Pieces, Threads, Consumers
<1>4. s' = s
  BY <1>1, <1>2 DEF Threads
<1>5. Done = Cat(InHand("tx"), s) /\ Done' = Cat(InHand("tx")', s')
  BY Zenon DEF Grouped
<1>6. Before' = Before
  BY <1>1, <1>2 DEF Grouped, Threads
<1> HIDE DEF s
<1>7. Done = Cat(<<c>>, s) /\ Done' = Cat(<<>>, s)
  BY <1>1, <1>4, <1>5, Zenon
<1>8. Done' = s
  BY <1>3, <1>7, CatEmpty
<1> QED BY <1>6, <1>7, <1>8, Zenon DEF Cons, Cat

\* A datagram that is no command is thrown away where it waits.
LEMMA DiscardMoves ==
  ASSUME Grouped, Grouped', Pieces, Pieces', PipeTypeOK, UNCHANGED hand,
         Executed' = Executed, Pop("input")
  PROVE  \E s, t \in Seq(Ctxs) :
           /\ Before = Between(s, Head(queue["input"]), t)
           /\ Before' = Cat(s, t) /\ Done' = Done
<1> DEFINE q == queue["input"]
           c == Head(q)
           r == InHand("rx")
           s == Cat(Ahead, queue["memtable"])
           t == Cat(Tail(q), r)
<1>1. /\ q \in Seq(Ctxs) /\ q # <<>> /\ hand["input"] = NoCtx
      /\ queue'["input"] = Tail(q)
      /\ \A u \in Consumers : u # "input" => queue'[u] = queue[u]
  BY DEF Pop, PipeTypeOK, Threads, Consumers
<1>2. /\ \A u \in Threads : InHand(u)' = InHand(u)
      /\ InHand("input") = <<>> /\ Ahead' = Ahead /\ Behind' = Behind
  BY <1>1 DEF InHand, Ahead, Behind, Threads
<1>3. c \in Ctxs /\ Tail(q) \in Seq(Ctxs) /\ r \in Seq(Ctxs)
      /\ <<c>> \in Seq(Ctxs)
  BY <1>1 DEF Pieces, Threads
<1>4. s \in Seq(Ctxs) /\ t \in Seq(Ctxs)
  BY <1>3, CatTypes DEF Pieces, Consumers, Threads
<1>5. /\ Before = Cat(s, Cat(Cat(InHand("input"), q), r))
      /\ Before' = Cat(s', Cat(Cat(InHand("input")', queue'["input"]), r'))
  BY Zenon DEF Grouped
<1>6. s' = s /\ r' = r
  BY <1>1, <1>2 DEF Threads, Consumers
<1>7. Done' = Done
  BY <1>1, <1>2 DEF Grouped, Threads, Consumers
<1>8. Cat(<<c>>, Tail(q)) = q
  BY <1>1, FirstAndRest DEF Cat
<1> HIDE DEF q, c, r, s, t
<1>9. Before = Cat(s, Cat(Cat(<<>>, q), r))
  BY <1>2, <1>5, Zenon
<1>10. Before' = Cat(s, Cat(Cat(<<>>, Tail(q)), r))
  <2>1. InHand("input")' = <<>>
    BY <1>2 DEF Threads
  <2> QED BY <1>1, <1>5, <1>6, <2>1, Zenon
<1>11. Cat(<<>>, q) = q /\ Cat(<<>>, Tail(q)) = Tail(q)
  BY <1>1, <1>3, CatEmpty
<1>12. Cat(Cat(<<c>>, Tail(q)), r) = Cat(<<c>>, Cat(Tail(q), r))
  <2> DEFINE x == <<c>>
             y == Tail(q)
  <2>1. x \in Seq(Ctxs) /\ y \in Seq(Ctxs)
    BY <1>3
  <2> HIDE DEF x, y
  <2>2. Cat(Cat(x, y), r) = Cat(x, Cat(y, r))
    BY <1>3, <2>1, Associative
  <2> QED BY <2>2 DEF x, y
<1>13. Before = Cat(s, Cat(<<c>>, t)) /\ Before' = Cat(s, t)
  BY <1>8, <1>9, <1>10, <1>11, <1>12, Zenon DEF t
<1>14. Before = Between(s, c, t)
  BY <1>13, Zenon DEF Between, Cat
<1> QED BY <1>4, <1>7, <1>13, <1>14 DEF c, q

-----------------------------------------------------------------------------
(* The steps of SerialServer *)

\* What the contexts before the store ask for, and what those behind it will
\* be answered, stays the same.
RequestsKept == \A d \in Unserved : RequestAt'[d] = RequestAt[d]
RepliesKept == \A d \in Served : ReplyAt'[d] = ReplyAt[d]

\* What has an owner is allocated, and is on one side of the store.
LEMMA OwnersFacts ==
  ASSUME PipeInv
  PROVE  /\ Unserved \subseteq Ctxs /\ Served \subseteq Ctxs
         /\ Owned = Served \cup Unserved /\ Served \cap Unserved = {}
         /\ \A d \in Owned : heap[d] # Free
BY ServedApart, StagesApart DEF PipeInv, Contents

\* Requests stay as they are with the numbers and messages of contexts.
LEMMA RequestsSame ==
  ASSUME PipeInv,
         \A d \in Unserved : /\ heap'[d].id = heap[d].id
                             /\ heap'[d].original_body = heap[d].original_body
  PROVE  RequestsKept
BY OwnersFacts DEF RequestsKept, RequestAt, RequestOf

\* Replies stay as they are with contexts and the call in progress.
LEMMA RepliesSame ==
  ASSUME PipeInv, \A d \in Served : heap'[d] = heap[d],
         \/ hand'["memtable"] = hand["memtable"] /\ Result' = Result
         \/ hand["memtable"] \notin Served /\ hand'["memtable"] \notin Served
  PROVE  RepliesKept
<1> SUFFICES ASSUME NEW d \in Served PROVE ReplyAt'[d] = ReplyAt[d]
  BY DEF RepliesKept
<1>1. d \in Ctxs /\ heap'[d] = heap[d]
  BY OwnersFacts
<1>2. ReplyTo(d)' = ReplyTo(d)
  <2>1. CASE hand'["memtable"] = hand["memtable"] /\ Result' = Result
    BY <1>1, <2>1 DEF ReplyTo
  <2>2. CASE hand["memtable"] # d /\ hand'["memtable"] # d
    BY <1>1, <2>2 DEF ReplyTo
  <2> QED BY <2>1, <2>2
<1> QED BY <1>1, <1>2 DEF ReplyAt

\* A reply is sent.
LEMMA SendRefines ==
  ASSUME Laid, Laid', NEW c \in Ctxs, Before' = Before, Done = Cons(c, Done'),
         RequestsKept, \A d \in Served : d # c => ReplyAt'[d] = ReplyAt[d],
         wire' = Append(wire, ReplyAt[c]), UNCHANGED <<Dict, Full>>
  PROVE  Serial!Send
<1>1. Inbox' = Inbox
  BY InboxKept DEF RequestsKept
<1>2. Begins(Outbox, ReplyAt[c], Outbox')
  BY OutboxShrinks
<1> QED BY <1>1, <1>2
        DEF Serial!Send, Begins, Inbox, Outbox, Dict

\* Nothing SerialServer sees changes.
LEMMA StutterRefines ==
  ASSUME Laid, Laid', Rearranged, RequestsKept, RepliesKept,
         UNCHANGED <<Dict, Full, wire>>
  PROVE  UNCHANGED serialView
<1>1. Inbox' = Inbox
  BY InboxKept DEF RequestsKept, Rearranged
<1>2. Outbox' = Outbox
  BY OutboxKept DEF RepliesKept, Rearranged
<1> QED BY <1>1, <1>2 DEF serialView

\* A message is received.
LEMMA AcceptRefines ==
  ASSUME Laid, Laid', NEW c \in Ctxs, Before' = Plus(Before, c), Done' = Done,
         RequestsKept, RepliesKept, UNCHANGED <<Dict, Full, wire>>,
         RequestAt'[c] \in Serial!Requests
  PROVE  Serial!Accept
<1>1. Inbox' = Append(Inbox, RequestAt'[c])
  BY InboxGrows DEF RequestsKept
<1>2. Outbox' = Outbox
  BY OutboxKept DEF RepliesKept
<1> QED BY <1>1, <1>2
        DEF Serial!Accept, Inbox, Outbox, Dict

\* A message is thrown away.
LEMMA DiscardRefines ==
  ASSUME Laid, Laid', NEW s \in Seq(Ctxs), NEW t \in Seq(Ctxs), NEW c \in Ctxs,
         Before = Between(s, c, t), Before' = Cat(s, t), Done' = Done,
         RequestAt' = RequestAt, RepliesKept, UNCHANGED <<Dict, Full, wire>>,
         RequestAt[c].msg = Garbage
  PROVE  Serial!Discard
<1>1. Drops(Inbox, RequestAt[c], Inbox')
  BY InboxDrops
<1>2. Outbox' = Outbox
  BY OutboxKept DEF RepliesKept
<1>3. \E i \in DOMAIN Inbox :
        /\ Inbox[i].msg = Serial!Garbage
        /\ Inbox' = SubSeq(Inbox, 1, i - 1) \o SubSeq(Inbox, i + 1, Len(Inbox))
  BY <1>1, Zenon DEF Drops, Garbage, Serial!Garbage
<1> QED BY <1>2, <1>3, Zenon
        DEF Serial!Discard, Inbox, Outbox, Dict

-----------------------------------------------------------------------------
(* The steps of the server as steps of SerialServer *)

\* The pipeline and its lists.
Shape == PipeInv /\ Laid /\ Grouped /\ Pieces

\* The shape follows from the invariant.
LEMMA LaidOut == PipeInv => Shape
BY PipelineLaid, PipelineGrouped DEF PipeInv, Shape

\* While the memtable stage holds nothing the store executes nothing.
LEMMA IdleStage ==
  ASSUME PipeInv, hand["memtable"] = NoCtx
  PROVE  wpc = "idle" /\ ~Executed
BY DEF PipeInv, Calling, Executed, Written

\* The context in the memtable stage is before the store until its command is
\* executed, and behind it afterwards.
LEMMA InStage ==
  ASSUME PipeInv
  PROVE  /\ ~Executed => hand["memtable"] \notin Served
         /\ Executed => hand["memtable"] \in Served
         /\ ~Executed /\ hand["memtable"] # NoCtx
              => hand["memtable"] \in Unserved
<1>1. NoCtx \notin Owned
  BY OwnersFacts, ServerAssumption
<1>2. ~Executed /\ hand["memtable"] # NoCtx => hand["memtable"] \in Unserved
  BY DEF Unserved, Holding
<1>3. Executed => hand["memtable"] \in Served
  BY DEF Served, Holding, PipeInv, Calling, Executed, Written
<1> QED BY <1>1, <1>2, <1>3, OwnersFacts

\* rx receives a datagram: SerialServer accepts it.
LEMMA RxRecvRefines ==
  ASSUME Shape, Shape', NEW msg \in Messages, RxRecv(msg)
  PROVE  Serial!Accept
<1> USE DEF Shape
<1> DEFINE c == Fresh
<1>1. c \in Ctxs /\ heap[c] = Free
  <2>1. \E d \in Ctxs : heap[d] = Free
    BY DEF RxRecv, Allocated
  <2> QED BY <2>1 DEF Fresh
<1>2. c \notin Owned
  BY <1>1, OwnersFacts
<1>3. /\ heap'[c] = [kind |-> "ctx", id |-> received', original_body |-> msg,
                     body |-> Uninit]
      /\ \A d \in Ctxs : d # c => heap'[d] = heap[d]
      /\ received' \in 1 .. MaxRecv
      /\ hand["rx"] = NoCtx /\ hand'["rx"] = c
      /\ \A u \in Threads : u # "rx" => hand'[u] = hand[u]
  BY <1>1, ServerAssumption DEF RxRecv, PipeInv, PipeTypeOK, Threads
<1>4. UNCHANGED <<Dict, Full>> /\ Executed' = Executed /\ Result' = Result
      /\ UNCHANGED <<queue, wire>>
  BY StoreSame DEF RxRecv, vars
<1> HIDE DEF c
<1>5. Before' = Plus(Before, c) /\ Done' = Done
  BY <1>1, <1>3, <1>4, ReceiveMoves
<1>6. \A d \in Owned : heap'[d] = heap[d]
  BY <1>2, <1>3, OwnersFacts
<1>7. RequestsKept
  BY <1>6, RequestsSame, OwnersFacts
<1>8. RepliesKept
  <2>1. hand'["memtable"] = hand["memtable"]
    BY <1>3 DEF Threads
  <2> QED BY <1>4, <1>6, <2>1, RepliesSame, OwnersFacts
<1>9. RequestAt'[c] \in Serial!Requests
  <2>1. RequestAt'[c] = [id |-> received', msg |-> msg]
    BY <1>1, <1>3 DEF RequestAt, RequestOf
  <2> QED BY <1>3, <2>1 DEF Messages, Reads, Writes, Unknown, Garbage,
          Serial!Requests, Serial!Reads, Serial!Writes, Serial!Unknown,
          Serial!Garbage
<1> QED BY <1>1, <1>4, <1>5, <1>7, <1>8, <1>9, AcceptRefines

\* Steps that only move contexts.
LEMMA PushRefines ==
  ASSUME Shape, Shape', UNCHANGED <<vars, heap, wire>>,
         \/ Push("rx", "input") \/ Push("input", "memtable")
         \/ Push("output", "tx")
  PROVE  UNCHANGED serialView
<1> USE DEF Shape
<1>1. UNCHANGED <<Dict, Full>> /\ Executed' = Executed /\ Result' = Result
  BY StoreSame DEF vars
<1>2. Rearranged
  BY <1>1, PushKeeps DEF PipeInv
<1>3. hand'["memtable"] = hand["memtable"]
  BY DEF Push, PipeInv, PipeTypeOK, Threads
<1>4. RequestsKept /\ RepliesKept
  BY <1>1, <1>3, RequestsSame, RepliesSame
<1> QED BY <1>1, <1>2, <1>4, StutterRefines

\* A thread takes a context from its queue and changes nothing that counts.
LEMMA TakeRefines ==
  ASSUME Shape, Shape', NEW t \in Consumers, Take(t),
         UNCHANGED <<vars, wire>>,
         \A d \in Unserved : /\ heap'[d].id = heap[d].id
                             /\ heap'[d].original_body = heap[d].original_body,
         RepliesKept
  PROVE  UNCHANGED serialView
<1> USE DEF Shape
<1>1. UNCHANGED <<Dict, Full>> /\ Executed' = Executed /\ Result' = Result
  BY StoreSame DEF vars
<1>2. t = "memtable" => ~Executed
  BY IdleStage DEF Take, Pop
<1>3. Rearranged
  BY <1>1, <1>2, TakeKeeps DEF PipeInv
<1> QED BY <1>1, <1>3, RequestsSame, StutterRefines

\* The memtable stage takes a command.
LEMMA MemPopRefines ==
  ASSUME Shape, Shape', MemPop
  PROVE  UNCHANGED serialView
<1> USE DEF Shape
<1>1. Take("memtable") /\ "memtable" \in Consumers
      /\ UNCHANGED <<vars, heap, wire>>
  BY DEF MemPop, Consumers, Threads, ends
<1>2. hand["memtable"] \notin Served
  BY <1>1, IdleStage, InStage DEF Take, Pop
<1>3. hand'["memtable"] \notin Served
  <2>1. hand'["memtable"] \in Waiting("memtable")
    BY <1>1, TakeEffect DEF PipeInv
  <2> QED BY <2>1, OwnersFacts DEF Unserved
<1>4. RepliesKept
  BY <1>1, <1>2, <1>3, RepliesSame
<1> QED BY <1>1, <1>4, TakeRefines

\* tx takes a reply.
LEMMA TxPopRefines ==
  ASSUME Shape, Shape', TxPop
  PROVE  UNCHANGED serialView
<1> USE DEF Shape
<1>1. Take("tx") /\ "tx" \in Consumers /\ UNCHANGED <<vars, heap, wire>>
  BY DEF TxPop, Consumers, Threads, ends
<1>2. hand'["memtable"] = hand["memtable"] /\ Result' = Result
  BY <1>1, StoreSame DEF Take, PipeInv, PipeTypeOK, Threads, vars
<1>3. RepliesKept
  BY <1>1, <1>2, RepliesSame
<1> QED BY <1>1, <1>3, TakeRefines

\* The input stage makes a command of a message.
LEMMA InputPopRefines ==
  ASSUME Shape, Shape', InputPop
  PROVE  UNCHANGED serialView
<1> USE DEF Shape
<1> DEFINE c == Head(queue["input"])
<1>1. Take("input") /\ "input" \in Consumers /\ UNCHANGED <<vars, wire>>
  BY DEF InputPop, Consumers, Threads, ends
<1>2. c \in Ctxs /\ c \in Waiting("input") /\ c \in Unserved /\ heap[c] # Free
  <2>1. c \in Waiting("input") /\ c \in Ctxs
    BY <1>1, TakeEffect DEF PipeInv
  <2> QED BY <2>1, OwnersFacts DEF Unserved
<1>3. /\ \A d \in Ctxs : d # c => heap'[d] = heap[d]
      /\ heap'[c].id = heap[c].id
      /\ heap'[c].original_body = heap[c].original_body
  BY <1>2 DEF InputPop, PipeInv, PipeTypeOK
<1>4. hand'["memtable"] = hand["memtable"] /\ Result' = Result
  BY <1>1, StoreSame DEF Take, PipeInv, PipeTypeOK, Threads, vars
<1> HIDE DEF c
<1>5. RepliesKept
  BY <1>2, <1>3, <1>4, OwnersFacts, RepliesSame
<1>6. \A d \in Unserved : /\ heap'[d].id = heap[d].id
                          /\ heap'[d].original_body = heap[d].original_body
  BY <1>3, OwnersFacts
<1> QED BY <1>1, <1>5, <1>6, TakeRefines

\* The input stage loses what does not parse: SerialServer discards it.
LEMMA InputDropRefines ==
  ASSUME Shape, Shape', InputDrop
  PROVE  Serial!Discard
<1> USE DEF Shape
<1> DEFINE c == Head(queue["input"])
<1>1. Pop("input") /\ "input" \in Consumers /\ UNCHANGED <<heap, hand, wire>>
      /\ UNCHANGED <<mtVars, wVars, fVars>> /\ heap[c].original_body = Garbage
  BY DEF InputDrop, Consumers, Threads
<1>2. UNCHANGED <<Dict, Full>> /\ Executed' = Executed /\ Result' = Result
  BY <1>1, StoreSame
<1>3. c \in Ctxs
  BY <1>1, PopEffect DEF PipeInv
<1>4. PICK s, t \in Seq(Ctxs) :
        Before = Between(s, c, t) /\ Before' = Cat(s, t) /\ Done' = Done
  BY <1>1, <1>2, DiscardMoves DEF PipeInv
<1>5. RequestAt' = RequestAt
  BY <1>1 DEF RequestAt, RequestOf
<1>6. RepliesKept
  BY <1>1, <1>2, RepliesSame
<1>7. RequestAt[c].msg = Garbage
  BY <1>1, <1>3 DEF RequestAt, RequestOf
<1> HIDE DEF c
<1> QED BY <1>1, <1>2, <1>3, <1>4, <1>5, <1>6, <1>7, DiscardRefines

\* What is not a reply is still to be answered.
LEMMA NotReplied ==
  ASSUME PipeInv, NEW c \in Results \cup Commands
  PROVE  heap[c].original_body \notin Replies
BY DEF PipeInv, Contents, Messages, Reads, Writes, Unknown, Garbage, Replies

\* The output stage puts the text into the context that was to be said.
LEMMA OutPopRefines ==
  ASSUME Shape, Shape', OutPop
  PROVE  UNCHANGED serialView
<1> USE DEF Shape
<1>c. PICK c : c = Head(queue["output"])
  OBVIOUS
<1>o. PICK o : o = Reply(Text(heap[c].body))
  OBVIOUS
<1>1. Take("output") /\ "output" \in Consumers /\ UNCHANGED <<vars, wire>>
  BY DEF OutPop, Consumers, Threads, ends
<1>2. c \in Ctxs /\ c \in Waiting("output") /\ heap[c] # Free
      /\ c # hand["memtable"] /\ c \in Results /\ c \in Served
  <2>1. c \in Waiting("output") /\ c \in Ctxs
    BY <1>c, <1>1, TakeEffect DEF PipeInv
  <2>2. hand["memtable"] # c
    BY <2>1, ServerAssumption DEF PipeInv, Apart, Holding, Threads, Consumers
  <2> QED BY <2>1, <2>2, OwnersFacts DEF Served, Results
<1>3. o \in Replies /\ o.text = Text(heap[c].body)
  BY <1>o, <1>2, TextType DEF PipeInv, Contents, Reply, Replies
<1>4. hand'["memtable"] = hand["memtable"] /\ Result' = Result
  BY <1>1, StoreSame DEF Take, PipeInv, PipeTypeOK, Threads, vars
<1>w. heap' = [heap EXCEPT ![c].original_body = o, ![c].body = Uninit]
  BY <1>c, <1>o DEF OutPop
<1>5. /\ \A d \in Ctxs : d # c => heap'[d] = heap[d]
      /\ heap'[c].id = heap[c].id /\ heap'[c].original_body = o
  BY <1>2, <1>3, <1>w, HeapWrite DEF PipeInv
<1>6. heap[c].original_body \notin Replies
  BY <1>2, NotReplied
<1>7. RepliesKept
  <2>1. ReplyAt'[c] = ReplyAt[c]
    <3>1. ReplyAt[c] = [id |-> heap[c].id, text |-> Text(heap[c].body)]
      BY <1>2, <1>6 DEF ReplyAt, ReplyTo
    <3>2. ReplyAt'[c] = [id |-> heap[c].id, text |-> o.text]
      <4>1. ReplyAt'[c] = ReplyTo(c)'
        BY <1>2 DEF ReplyAt
      <4>2. ReplyTo(c)' = [id |-> heap[c].id, text |-> o.text]
        BY <1>3, <1>5 DEF ReplyTo
      <4> QED BY <4>1, <4>2
    <3> QED BY <1>3, <3>1, <3>2
  <2>2. ASSUME NEW d \in Served, d # c PROVE ReplyAt'[d] = ReplyAt[d]
    <3>1. heap'[d] = heap[d] /\ d \in Ctxs
      BY <1>5, <2>2, OwnersFacts
    <3> QED BY <1>4, <3>1 DEF ReplyAt, ReplyTo
  <2> QED BY <2>1, <2>2, OwnersFacts DEF RepliesKept
<1>8. \A d \in Unserved : /\ heap'[d].id = heap[d].id
                          /\ heap'[d].original_body = heap[d].original_body
  BY <1>2, <1>5, OwnersFacts
<1> QED BY <1>1, <1>7, <1>8, TakeRefines

\* tx sends the oldest reply.
LEMMA TxSendRefines ==
  ASSUME Shape, Shape', TxSend
  PROVE  Serial!Send
<1> USE DEF Shape
<1>c. PICK c : c = hand["tx"]
  OBVIOUS
<1>1. /\ c \in Ctxs /\ c \in Holding("tx") /\ c \in Answers /\ c \in Served
      /\ c # NoCtx /\ UNCHANGED <<vars, queue>>
  BY <1>c DEF TxSend, PipeInv, PipeTypeOK, Threads, Holding, Answers, Served
<1>2. /\ \A d \in Ctxs : d # c => heap'[d] = heap[d]
      /\ hand'["tx"] = NoCtx
      /\ \A u \in Threads : u # "tx" => hand'[u] = hand[u]
  BY <1>c, <1>1 DEF TxSend, LetGo, PipeInv, PipeTypeOK, Threads
<1>3. UNCHANGED <<Dict, Full>> /\ Executed' = Executed /\ Result' = Result
  BY <1>1, StoreSame DEF vars
<1>4. wire' = Append(wire, ReplyAt[c])
  <2>1. heap[c].original_body \in Replies
    BY <1>1 DEF PipeInv, Contents
  <2>2. ReplyAt[c] = [id |-> heap[c].id, text |-> heap[c].original_body.text]
    BY <1>1, <2>1 DEF ReplyAt, ReplyTo
  <2> QED BY <1>c, <2>2 DEF TxSend, Held
<1>5. Before' = Before /\ Done = Cons(c, Done')
  BY <1>c, <1>1, <1>2, <1>3, SendMoves
<1>6. RequestsKept
  BY <1>1, <1>2, OwnersFacts, RequestsSame
<1>7. \A d \in Served : d # c => ReplyAt'[d] = ReplyAt[d]
  <2> SUFFICES ASSUME NEW d \in Served, d # c PROVE ReplyAt'[d] = ReplyAt[d]
    OBVIOUS
  <2>1. /\ d \in Ctxs /\ heap'[d] = heap[d]
        /\ hand'["memtable"] = hand["memtable"]
    BY <1>2, OwnersFacts DEF Threads
  <2> QED BY <1>3, <2>1 DEF ReplyAt, ReplyTo
<1> QED BY <1>1, <1>3, <1>4, <1>5, <1>6, <1>7, SendRefines

\* The result takes the place of the command in the context that is passed on.
LEMMA MemPushRefines ==
  ASSUME Shape, Shape', MemPush
  PROVE  UNCHANGED serialView
<1> USE DEF Shape
<1>c. PICK c : c = hand["memtable"]
  OBVIOUS
<1>1. /\ c \in Ctxs /\ c # NoCtx /\ c \in Commands /\ heap[c] # Free
      /\ wpc = "return" /\ wpc' = "idle" /\ UNCHANGED wire
      /\ Push("memtable", "output")
  <2>1. /\ c \in Ctxs /\ c # NoCtx /\ UNCHANGED wire
        /\ wpc = "return" /\ wpc' = "idle" /\ Push("memtable", "output")
    BY <1>c DEF MemPush, Answered, Push, PipeInv, PipeTypeOK, Threads, ends
  <2>2. c \in Commands
    BY <1>c, <2>1 DEF Holding, Commands
  <2> QED BY <2>1, <2>2, OwnersFacts DEF Owned
<1>2. /\ \A d \in Ctxs : d # c => heap'[d] = heap[d]
      /\ heap'[c].id = heap[c].id /\ heap'[c].body = ret
      /\ heap'[c].original_body = heap[c].original_body
  <2>1. heap' = [heap EXCEPT ![c].body = ret] /\ ret \in Returns
    BY <1>c, <1>1 DEF MemPush, PipeInv, Calling, GoodReturn
  <2> QED BY <1>1, <2>1, HeapWriteBody DEF PipeInv
<1>m. hand'["memtable"] = NoCtx
  BY DEF MemPush, Push, PipeInv, PipeTypeOK, Threads
<1>3. Executed /\ ~Executed' /\ Result = ret
  BY <1>1 DEF Executed, Written, Result
<1>4. UNCHANGED <<Dict, Full>>
  BY DEF MemPush, Answered, Dict, Full, Filling, Lookup, mtVars, fVars, others,
     chosen
<1>5. Rearranged
  BY <1>1, <1>3, ResultKeeps DEF PipeInv
<1>6. heap[c].original_body \notin Replies
  BY <1>1, NotReplied
<1>8. RequestsKept
  <2>1. \A d \in Unserved : /\ heap'[d].id = heap[d].id
                            /\ heap'[d].original_body = heap[d].original_body
    BY <1>2, OwnersFacts
  <2> QED BY <2>1, RequestsSame
<1>9. RepliesKept
  <2>1. ReplyAt'[c] = ReplyAt[c]
    <3>1. ReplyAt[c] = [id |-> heap[c].id, text |-> Text(ret)]
      <4>1. ReplyAt[c] = ReplyTo(c)
        BY <1>1 DEF ReplyAt
      <4>2. ReplyTo(c) = [id |-> heap[c].id, text |-> Text(ret)]
        BY <1>3, <1>6, <1>c DEF ReplyTo
      <4> QED BY <4>1, <4>2
    <3>2. ReplyAt'[c] = [id |-> heap[c].id, text |-> Text(ret)]
      BY <1>1, <1>2, <1>6, <1>m DEF ReplyAt, ReplyTo
    <3> QED BY <3>1, <3>2
  <2>2. ASSUME NEW d \in Served, d # c PROVE ReplyAt'[d] = ReplyAt[d]
    <3>1. heap'[d] = heap[d] /\ d \in Ctxs
      BY <1>2, <2>2, OwnersFacts
    <3> QED BY <1>m, <1>c, <2>2, <3>1, ServerAssumption DEF ReplyAt, ReplyTo
  <2> QED BY <2>1, <2>2, OwnersFacts DEF RepliesKept
<1> QED BY <1>1, <1>4, <1>5, <1>8, <1>9, StutterRefines

\* A call begins: nothing SerialServer sees has changed.
LEMMA MemCallRefines ==
  ASSUME Shape, Shape', MemCall
  PROVE  UNCHANGED serialView
<1> USE DEF Shape
<1>1. /\ UNCHANGED pipeVars /\ wpc = "idle"
      /\ wpc' \in {"search", "assert", "scan"}
      /\ UNCHANGED <<mtVars, fVars, cur_mt, usage_q>>
  BY DEF MemCall, GetCall, PutCall, others, chosen
<1>2. UNCHANGED <<Dict, Full>>
  <2>1. ~Filling /\ ~Filling'
    BY <1>1 DEF Filling
  <2> QED BY <1>1, <2>1 DEF mtVars, fVars, Dict, Full, Lookup
<1>3. /\ ~Executed /\ Executed' = Executed
      /\ UNCHANGED <<heap, hand, queue, wire>>
  BY <1>1 DEF Executed, Written, pipeVars, ends
<1>4. Rearranged
  BY <1>3, NoneMoves
<1>5. RequestsKept
  BY <1>3, RequestsSame
<1>6. RepliesKept
  BY <1>3, InStage, RepliesSame
<1> QED BY <1>2, <1>3, <1>4, <1>5, <1>6, StutterRefines

\* A command of no type is deleted: SerialServer takes it and does nothing.
LEMMA MemDropRefines ==
  ASSUME Shape, Shape', MemDrop
  PROVE  Serial!Execute
<1> USE DEF Shape
<1>c. PICK c : c = hand["memtable"]
  OBVIOUS
<1>1. /\ c \in Ctxs /\ c # NoCtx /\ wpc = "idle" /\ heap[c].body.op = "uninit"
      /\ UNCHANGED <<vars, queue, wire>>
  BY <1>c DEF MemDrop, Held, PipeInv, PipeTypeOK, Threads
<1>2. /\ \A d \in Ctxs : d # c => heap'[d] = heap[d]
      /\ hand'["memtable"] = NoCtx
      /\ \A u \in Threads : u # "memtable" => hand'[u] = hand[u]
  BY <1>c, <1>1 DEF MemDrop, LetGo, PipeInv, PipeTypeOK, Threads
<1>3. UNCHANGED <<Dict, Full>> /\ ~Executed /\ ~Executed'
  <2>1. UNCHANGED <<Dict, Full>> /\ Executed' = Executed
    BY <1>1, StoreSame DEF vars
  <2> QED BY <1>1, <2>1 DEF Executed, Written
<1>4. heap[c].original_body = Unknown
  <2>1. c \in Commands
    BY <1>c, <1>1 DEF Holding, Commands
  <2>2. heap[c].original_body \in Messages \ {Garbage}
        /\ heap[c].body = CmdOf(heap[c].original_body)
    BY <2>1 DEF PipeInv, Contents
  <2> QED BY <1>1, <2>2 DEF Messages, CmdOf, Reads, Writes
<1>5. Before = Cons(c, Before') /\ Done' = Done
  BY <1>c, <1>1, <1>2, <1>3, DropMoves
<1>6. \A d \in Unserved : d # c => RequestAt'[d] = RequestAt[d]
  BY <1>2, OwnersFacts DEF RequestAt, RequestOf
<1>7. RepliesKept
  <2>1. c \notin Served /\ NoCtx \notin Served
    BY <1>c, <1>3, InStage, OwnersFacts, ServerAssumption
  <2>2. \A d \in Served : heap'[d] = heap[d]
    BY <1>2, <2>1, OwnersFacts
  <2> QED BY <1>c, <1>2, <2>1, <2>2, RepliesSame
<1>8. Begins(Inbox, RequestAt[c], Inbox')
  BY <1>1, <1>5, <1>6, InboxShrinks
<1>9. Outbox' = Outbox
  BY <1>5, <1>7, OutboxKept DEF RepliesKept
<1>10. RequestAt[c].msg = Serial!Unknown
  BY <1>1, <1>4 DEF RequestAt, RequestOf, Unknown, Serial!Unknown
<1>11. /\ Inbox # <<>> /\ Inbox' = Tail(Inbox)
       /\ Head(Inbox).msg.kind = "unknown"
       /\ UNCHANGED <<wire, Dict, Full, Outbox>>
  BY <1>1, <1>3, <1>8, <1>9, <1>10 DEF Begins, Serial!Unknown
<1> QED BY <1>11, Zenon DEF Serial!Execute, Inbox, Outbox, Dict

\* A step of a call in progress either changes nothing, or the command takes
\* effect: the abstract store answers it.
LEMMA StoreExecutes ==
  ASSUME StoreInv, PipeInv, StoreInv', MemStep,
         \A k \in Keys : NewestIs(k, Lookup(k)),
         \A k \in Keys : NewestIs(k, Lookup(k))'
  PROVE  \/ /\ UNCHANGED <<Dict, Full>>
            /\ Executed' = Executed /\ Result' = Result
         \/ /\ ~Executed /\ Executed'
            /\ Abstract!Accept \/ Abstract!Refuse \/ Abstract!Read
<1>1. Worker /\ UNCHANGED req /\ wpc # "idle"
  BY InsideFacts DEF MemStep
<1>2. req # NoReq
  BY <1>1 DEF StoreInv, BInv, Calls
<1>3. Abstract!Next \/ UNCHANGED abstractVars
  BY <1>1, AbstractStep DEF StoreInv
<1>4. (Executed <=> Result # NoRet) /\ (Executed' <=> Result' # NoRet)
  BY DEF StoreInv, BInv, Calls, Executed, Result, Written, NoRet, Returns,
     Statuses
<1>5. CASE UNCHANGED abstractVars
  <2>1. UNCHANGED <<Dict, Full, Result>>
    BY <1>5 DEF abstractVars
  <2>2. Executed' = Executed
    <3>1. Executed' <=> Executed
      BY <1>4, <2>1
    <3> QED BY <3>1 DEF Executed
  <2> QED BY <2>1, <2>2
<1>6. CASE Abstract!Call \/ Abstract!Done
  BY <1>1, <1>2, <1>6
     DEF Abstract!Call, Abstract!Done, Abstract!NoReq, NoReq, Puts, Gets
<1>7. CASE Abstract!Accept \/ Abstract!Refuse \/ Abstract!Read
  <2>1. Result = NoRet /\ Result' # NoRet
    BY <1>7 DEF Abstract!Accept, Abstract!Refuse, Abstract!Read,
       Abstract!Answer, Abstract!NoRet, NoRet
  <2> QED BY <1>4, <1>7, <2>1
<1> QED BY <1>3, <1>5, <1>6, <1>7 DEF Abstract!Next

\* What the store answers, in the words of the reply.
LEMMA AnswerText ==
  ASSUME Abstract!Accept \/ Abstract!Refuse \/ Abstract!Read
  PROVE  \/ /\ req.op = "get" /\ UNCHANGED <<Dict, Full>>
            /\ Text(Result') = IF Dict[req.key] = NoValue THEN "READ_FAIL"
                            ELSE Dict[req.key]
         \/ /\ req.op = "put" /\ Full /\ UNCHANGED <<Dict, Full>>
            /\ Text(Result') = "WRITE_FAIL"
         \/ /\ req.op = "put" /\ ~Full /\ Full' \in BOOLEAN
            /\ Dict' = [Dict EXCEPT ![req.key] = req.val]
            /\ Text(Result') = "WRITE_PASS"
<1>1. CASE Abstract!Read
  <2>1. /\ req.op = "get" /\ UNCHANGED <<Dict, Full>>
        /\ Result' = [status |-> IF Dict[req.key] = NoValue THEN "READ_FAIL"
                              ELSE "READ_PASS", val |-> Dict[req.key]]
    BY <1>1, Zenon DEF Abstract!Read, Abstract!Answer, Dict
  <2>2. \A v : Text([status |-> "READ_FAIL", val |-> v]) = "READ_FAIL"
    BY DEF Text
  <2>3. \A v : Text([status |-> "READ_PASS", val |-> v]) = v
    BY DEF Text
  <2>4. CASE Dict[req.key] = NoValue
    BY <2>1, <2>2, <2>4
  <2>5. CASE Dict[req.key] # NoValue
    BY <2>1, <2>3, <2>5
  <2> QED BY <2>1, <2>4, <2>5
<1>2. CASE Abstract!Refuse
  <2>1. /\ req.op = "put" /\ Full /\ UNCHANGED <<Dict, Full>>
        /\ Result' = [status |-> "WAIT_FLUSH", val |-> NoValue]
    BY <1>2, Zenon DEF Abstract!Refuse, Abstract!Answer, Dict
  <2>2. \A v : Text([status |-> "WAIT_FLUSH", val |-> v]) = "WRITE_FAIL"
    BY DEF Text
  <2> QED BY <2>1, <2>2
<1>3. CASE Abstract!Accept
  <2>1. /\ req.op = "put" /\ ~Full /\ Full' \in BOOLEAN
        /\ Dict' = [Dict EXCEPT ![req.key] = req.val]
        /\ Result' = [status |-> "WRITE_PASS", val |-> NoValue]
    BY <1>3, Zenon DEF Abstract!Accept, Abstract!Answer, Dict
  <2>2. \A v : Text([status |-> "WRITE_PASS", val |-> v]) = "WRITE_PASS"
    BY DEF Text
  <2> QED BY <2>1, <2>2
<1> QED BY <1>1, <1>2, <1>3

\* The command in hand takes effect as the call of the store that it matches.
LEMMA ExecuteRefines ==
  ASSUME NEW r, NEW msg \in Messages \ {Garbage}, CallMatches(msg),
         r.msg = msg, Begins(Inbox, r, Inbox'), UNCHANGED wire,
         Outbox' = Append(Outbox, [id |-> r.id, text |-> Text(Result')]),
         Abstract!Accept \/ Abstract!Refuse \/ Abstract!Read
  PROVE  Serial!Execute
<1>1. /\ Inbox # <<>> /\ Inbox' = Tail(Inbox) /\ Head(Inbox) = r
      /\ Head(Inbox).msg = msg
      /\ Outbox' = Append(Outbox, [id |-> Head(Inbox).id,
                                   text |-> Text(Result')])
  BY DEF Begins
<1>2. ASSUME NEW k, req.op = "get", req.key = k
      PROVE  Serial!Read(Head(Inbox).id, k)
  <2>1. /\ UNCHANGED <<Dict, Full>>
        /\ Text(Result') = IF Dict[k] = NoValue THEN "READ_FAIL" ELSE Dict[k]
    BY <1>2, AnswerText
  <2>2. Outbox' = Append(Outbox, [id |-> Head(Inbox).id,
                                  text |-> IF Dict[k] = NoValue
                                           THEN "READ_FAIL" ELSE Dict[k]])
    BY <1>1, <2>1, Zenon
  <2> QED BY <2>1, <2>2, Zenon
          DEF Serial!Read, Serial!Reply, Dict, Outbox
<1>3. ASSUME NEW k, NEW v, req.op = "put", req.key = k, req.val = v
      PROVE  Serial!Write(Head(Inbox).id, k, v)
  <2>1. CASE Full
    <3>1. UNCHANGED <<Dict, Full>> /\ Text(Result') = "WRITE_FAIL"
      BY <1>3, <2>1, AnswerText
    <3>2. Outbox' = Append(Outbox, [id |-> Head(Inbox).id,
                                    text |-> "WRITE_FAIL"])
      BY <1>1, <3>1, Zenon
    <3> QED BY <2>1, <3>1, <3>2, Zenon
            DEF Serial!Write, Serial!Reply, Dict, Outbox
  <2>2. CASE ~Full
    <3>1. /\ Full' \in BOOLEAN /\ Dict' = [Dict EXCEPT ![k] = v]
          /\ Text(Result') = "WRITE_PASS"
      BY <1>3, <2>2, AnswerText
    <3>2. Outbox' = Append(Outbox, [id |-> Head(Inbox).id,
                                    text |-> "WRITE_PASS"])
      BY <1>1, <3>1, Zenon
    <3> QED BY <2>2, <3>1, <3>2, Zenon
            DEF Serial!Write, Serial!Reply, Dict, Outbox
  <2> QED BY <2>1, <2>2
<1>4. CASE msg \in Reads
  <2>1. /\ req.op = "get" /\ req.key = Head(Inbox).msg.key
        /\ Head(Inbox).msg.kind = "read"
    BY <1>1, <1>4 DEF CallMatches, CmdOf, Reads, Unknown
  <2>2. Serial!Read(Head(Inbox).id, Head(Inbox).msg.key)
    BY <1>2, <2>1
  <2> QED BY <1>1, <2>1, <2>2, Zenon DEF Serial!Execute, Inbox
<1>5. CASE msg \in Writes
  <2>1. /\ req.op = "put" /\ req.key = Head(Inbox).msg.key
        /\ req.val = Head(Inbox).msg.val /\ Head(Inbox).msg.kind = "write"
    BY <1>1, <1>5 DEF CallMatches, CmdOf, Writes, Unknown
  <2>2. Serial!Write(Head(Inbox).id, Head(Inbox).msg.key, Head(Inbox).msg.val)
    <3>1. PICK k, v : k = Head(Inbox).msg.key /\ v = Head(Inbox).msg.val
      OBVIOUS
    <3>2. Serial!Write(Head(Inbox).id, k, v)
      BY <1>3, <2>1, <3>1
    <3> HIDE DEF Inbox, Outbox
    <3> QED BY <3>1, <3>2, Zenon DEF Serial!Write, Serial!Reply
  <2> QED BY <1>1, <2>1, <2>2, Zenon DEF Serial!Execute, Inbox
<1>6. CASE msg = Unknown
  <2>1. Head(Inbox).msg.kind = "unknown"
    BY <1>1, <1>6 DEF Unknown
  <2>2. \/ req.op = "get" /\ req.key = EmptyKey
        \/ req.op = "put" /\ req.key = EmptyKey /\ req.val = EmptyVal
    BY <1>6 DEF CallMatches
  <2>3. \/ Serial!Read(Head(Inbox).id, EmptyKey)
        \/ Serial!Write(Head(Inbox).id, EmptyKey, EmptyVal)
    BY <1>2, <1>3, <2>2
  <2>4. CASE Serial!Read(Head(Inbox).id, EmptyKey)
    BY <1>1, <2>1, <2>4, Zenon DEF Serial!Execute, Inbox
  <2>5. CASE Serial!Write(Head(Inbox).id, EmptyKey, EmptyVal)
    BY <1>1, <2>1, <2>5, Zenon DEF Serial!Execute, Inbox
  <2> QED BY <2>3, <2>4, <2>5
<1> QED BY <1>4, <1>5, <1>6 DEF Messages

\* A step of a call executes the oldest command, or nothing yet.
LEMMA MemStepRefines ==
  ASSUME Shape, Shape', ServerInv, ServerInv', MemStep,
         \A k \in Keys : NewestIs(k, Lookup(k)),
         \A k \in Keys : NewestIs(k, Lookup(k))'
  PROVE  Serial!Execute \/ UNCHANGED serialView
<1>1. /\ PipeInv /\ Laid /\ Laid' /\ Grouped /\ Grouped' /\ Pieces /\ Pieces'
      /\ StoreInv /\ StoreInv' /\ InCall
  BY DEF Shape, ServerInv
<1>2. UNCHANGED <<heap, hand, queue, wire>> /\ wpc # "idle"
  BY InsideFacts DEF MemStep, pipeVars, ends
<1>3. CASE UNCHANGED <<Dict, Full>> /\ Executed' = Executed /\ Result' = Result
  <2>1. Rearranged
    BY <1>2, <1>3, NoneMoves
  <2>2. RequestsKept /\ RepliesKept
    BY <1>1, <1>2, <1>3, RequestsSame, RepliesSame
  <2> QED BY <1>1, <1>2, <1>3, <2>1, <2>2, StutterRefines
<1>4. CASE /\ ~Executed /\ Executed'
           /\ Abstract!Accept \/ Abstract!Refuse \/ Abstract!Read
  <2>c. PICK c : c = hand["memtable"]
    OBVIOUS
  <2>1. c \in Ctxs /\ c # NoCtx
    BY <1>1, <1>2, <2>c DEF PipeInv, PipeTypeOK, Calling, Threads
  <2>2. Before = Cons(c, Before') /\ Done' = Plus(Done, c)
    BY <1>1, <1>2, <1>4, <2>1, <2>c, ExecuteMoves
  <2>3. c \in Commands
    BY <2>1, <2>c DEF Commands, Holding
  <2>4. heap[c].original_body \in Messages \ {Garbage}
    BY <1>1, <2>3 DEF PipeInv, Contents
  <2>5. CallMatches(heap[c].original_body)
    BY <1>1, <1>2, <2>c DEF InCall
  <2>6. \A d \in Unserved : d # c => RequestAt'[d] = RequestAt[d]
    BY <1>2 DEF RequestAt, RequestOf
  <2>7. \A d \in Served : ReplyAt'[d] = ReplyAt[d]
    <3>1. RepliesKept
      BY <1>1, <1>2, <1>4, InStage, RepliesSame
    <3> QED BY <3>1 DEF RepliesKept
  <2>8. ReplyAt'[c] = [id |-> heap[c].id, text |-> Text(Result')]
    <3>1. heap[c].original_body \notin Replies
      BY <1>1, <2>3, NotReplied
    <3>2. ReplyTo(c)' = [id |-> heap[c].id, text |-> Text(Result')]
      BY <1>2, <2>c, <3>1 DEF ReplyTo
    <3>3. ReplyAt'[c] = ReplyTo(c)'
      BY <2>1 DEF ReplyAt
    <3> QED BY <1>4, <3>2, <3>3
  <2>9. Begins(Inbox, RequestAt[c], Inbox')
    BY <1>1, <2>1, <2>2, <2>6, InboxShrinks
  <2>10. Outbox' = Append(Outbox, [id |-> heap[c].id, text |-> Text(Result')])
    BY <1>1, <2>1, <2>2, <2>7, <2>8, OutboxGrows
  <2>11. PICK r : r = RequestAt[c]
    OBVIOUS
  <2>12. r.id = heap[c].id /\ r.msg = heap[c].original_body
    BY <2>1, <2>11 DEF RequestAt, RequestOf
  <2>13. PICK msg \in Messages \ {Garbage} : msg = heap[c].original_body
    BY <2>4
  <2>14. /\ CallMatches(msg) /\ r.msg = msg /\ Begins(Inbox, r, Inbox')
         /\ Outbox' = Append(Outbox, [id |-> r.id, text |-> Text(Result')])
    BY <2>5, <2>9, <2>10, <2>11, <2>12, <2>13
  <2> QED BY <1>2, <1>4, <2>14, ExecuteRefines
<1> QED BY <1>1, <1>3, <1>4, StoreExecutes

\* The five threads and the four queues behave as one loop that executes
\* commands in the order of arrival, and answers them in that order.
THEOREM ServerImplementsSerialServer == ServerSpec => ImplementsSerialServer
<1> DEFINE L == \A k \in Keys : NewestIs(k, Lookup(k))
<1>1. (ServerInv => L /\ Shape) /\ (ServerInv => L /\ Shape)'
  BY LookupNewest, LaidOut, PTL DEF ServerInv, StoreInv
<1>2. ServerInv /\ ServerInv' /\ [ServerNext]_serverVars
        => [Serial!Next]_serialView
  <2> SUFFICES ASSUME ServerInv, ServerInv', [ServerNext]_serverVars
               PROVE  Serial!Next \/ UNCHANGED serialView
    OBVIOUS
  <2> USE DEF Serial!Next
  <2>0. Shape /\ Shape' /\ L /\ L'
    BY <1>1
  <2> HIDE DEF L
  <2>1. ASSUME NEW msg \in Messages, RxRecv(msg) PROVE Serial!Accept
    BY <2>0, <2>1, RxRecvRefines
  <2>2. CASE RxPush
    BY <2>0, <2>2, PushRefines DEF RxPush, ends
  <2>3. CASE InputPop
    BY <2>0, <2>3, InputPopRefines
  <2>4. CASE InputDrop
    BY <2>0, <2>4, InputDropRefines
  <2>5. CASE InputPush
    BY <2>0, <2>5, PushRefines DEF InputPush, ends
  <2>6. CASE MemPop
    BY <2>0, <2>6, MemPopRefines
  <2>7. CASE MemCall
    BY <2>0, <2>7, MemCallRefines
  <2>8. CASE MemDrop
    BY <2>0, <2>8, MemDropRefines
  <2>9. CASE MemStep
    BY <2>0, <2>9, MemStepRefines DEF L
  <2>10. CASE MemPush
    BY <2>0, <2>10, MemPushRefines
  <2>11. CASE OutPop
    BY <2>0, <2>11, OutPopRefines
  <2>12. CASE OutPush
    BY <2>0, <2>12, PushRefines DEF OutPush, ends
  <2>13. CASE TxPop
    BY <2>0, <2>13, TxPopRefines
  <2>14. CASE TxSend
    BY <2>0, <2>14, TxSendRefines
  <2>15. CASE RxFail \/ UNCHANGED serverVars
    <3>1. UNCHANGED pipeVars /\ UNCHANGED <<mtVars, wVars, fVars>>
      BY <2>15 DEF RxFail, serverVars, vars
    <3>2. UNCHANGED <<Dict, Full>> /\ Executed' = Executed /\ Result' = Result
      BY <3>1, StoreSame
    <3> QED BY <3>1, <3>2 DEF pipeVars, ends, serialView, Inbox, Outbox, Before,
       Done, InHand, RequestOf, ReplyTo
  <2> QED BY <2>1, <2>2, <2>3, <2>4, <2>5, <2>6, <2>7, <2>8, <2>9, <2>10,
             <2>11, <2>12, <2>13, <2>14, <2>15
          DEF ServerNext, Input, Memtable, Output, Tx
<1>3. ServerInit => Serial!Init
  <2> SUFFICES ASSUME ServerInit PROVE Serial!Init
    OBVIOUS
  <2>1. Dict = [k \in Keys |-> NoValue] /\ Full = FALSE
    BY AbstractInit DEF ServerInit, Abstract!Init, Dict
  <2>2. Before = <<>> /\ Done = <<>> /\ wire = <<>>
    BY DEF ServerInit, Init, Before, Done, InHand, Executed, Written, Threads,
       Consumers
  <2>3. Inbox = <<>> /\ Outbox = <<>>
    BY <2>2 DEF Inbox, Outbox
  <2> QED BY <2>1, <2>2, <2>3 DEF Serial!Init, Dict, Inbox, Outbox
<1> QED BY <1>2, <1>3, ServerFullInvariant, PTL
        DEF ServerSpec, ImplementsSerialServer, Serial!Spec, serialView, Inbox,
            Outbox, Dict, Serial!serialVars
=============================================================================
