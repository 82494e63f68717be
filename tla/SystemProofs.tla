---------------------------- MODULE SystemProofs ----------------------------
(***************************************************************************)
(* Theorems about module System, for every set of commands, any number of  *)
(* them, any server and any network: a client whose rx thread has taken    *)
(* its first step before tx calls each callback at most once, and with a   *)
(* reply to its own request; and on an orderly network the replies to      *)
(* reads are those of running the script.                                  *)
(*                                                                         *)
(* Callbacks: command n of the script always gets uid n - 1.               *)
(* Hence an identifier that was ever sent names one command for ever, a    *)
(* uid is registered once, and an entry of callback_map that is erased     *)
(* never comes back, however late or often its reply arrives.              *)
(*                                                                         *)
(* Answers: requests and replies keep the order of the script all the way, *)
(* so that what the dictionary holds and what each reply tells is what the *)
(* writes accepted before it have left (ScriptInv).                        *)
(***************************************************************************)
EXTENDS System, Integers, TLAPS

USE DEF TxAt, RxAt

IsSeq(s) == \E S : s \in Seq(S)

\* How many commands tx has taken from its queue.
Dequeued == Len(script) - Len(cq)

\* The queue holds the rest of the script, and tx has the command before it.
InOrder ==
  /\ script \in Seq(Commands) /\ Len(script) <= MaxCmds
  /\ cq \in Seq(Nat) /\ Len(cq) <= Len(script)
  /\ \A i \in 1 .. Len(cq) : cq[i] = Dequeued + i
  /\ txpc \in {"dequeue", "uid", "insert", "send"}
  /\ txpc # "dequeue" => txreq = Dequeued /\ Dequeued >= 1

\* Uids follow the numbering of the script.
Numbering ==
  /\ InOrder
  /\ uid_cnt = (IF txpc = "uid" THEN Dequeued - 1 ELSE Dequeued)
  /\ txpc \in {"insert", "send"} => txuid = Dequeued - 1

\* tx has registered this uid, whatever became of the entry since.
Inserted(u) == u < uid_cnt /\ ~(txpc = "insert" /\ txuid = u)

\* An entry of callback_map belongs to the one command with that uid.
MapOwn ==
  /\ callback_map \in [Uids -> Nat]
  /\ \A u \in Uids :
       callback_map[u] # 0 => callback_map[u] = u + 1 /\ Inserted(u)

\* The identifiers tx makes.
Own(id) == id.cmd \in Numbers /\ id.uid = id.cmd - 1

\* Every identifier under way is one of those, or a stranger's at the server.
AtServer(e) == e.id = NoMsg \/ Own(e.id)
AllAtServer(q) == IsSeq(q) /\ \A i \in 1 .. Len(q) : AtServer(q[i])

IdsOwn ==
  /\ \A r \in requests \cup replies : Own(r.id)
  /\ AllAtServer(inbox) /\ AllAtServer(outbox)

\* What rx knows of the datagram in its buffer.
Reading ==
  /\ rxpc \in {"recv", "find", "call", "erase"}
  /\ rxpc # "recv" => Own(msg_buff.id)
  /\ rxpc = "call" => callback_map[msg_buff.id.uid] # 0

\* A callback that has been called is no longer registered, except for the
\* moment before rx erases it.
Spent ==
  /\ IsSeq(calls)
  /\ \A i \in 1 .. Len(calls) :
       /\ calls[i].callback \in Numbers
       /\ Inserted(calls[i].callback - 1)
       /\ callback_map[calls[i].callback - 1] # 0
            => rxpc = "erase" /\ msg_buff.id.uid = calls[i].callback - 1

IdInv == Numbering /\ IdsOwn
CallInv == MapOwn /\ Reading /\ Spent /\ RightCallback /\ OnceEach

\* How many commands tx has sent.
Sent == IF txpc = "dequeue" THEN Dequeued ELSE Dequeued - 1

Entries(s) == {s[i] : i \in DOMAIN s}
Cmd(e) == e.id.cmd

\* Of the commands of the script (a stranger's has number 0), those in A come
\* before those in B.
Before(A, B) ==
  \A a \in A, b \in B : Cmd(a) # 0 /\ Cmd(b) # 0 => Cmd(a) < Cmd(b)

Ascending(s) ==
  \A i, j \in DOMAIN s :
    i < j /\ Cmd(s[i]) # 0 /\ Cmd(s[j]) # 0 => Cmd(s[i]) < Cmd(s[j])

Replies == Entries(wire) \cup Entries(outbox)

\* What is said of a datagram that holds a request of the script.
Asks(e) == Cmd(e) \in 1 .. Sent /\ e.msg = script[Cmd(e)]

\* On an orderly network requests and replies keep the order of the script.
ScriptOrder ==
  /\ IsSeq(inbox) /\ IsSeq(outbox) /\ IsSeq(wire)
  /\ Ascending(inbox) /\ Ascending(outbox)
  /\ Before(Entries(wire), Entries(outbox))
  /\ Before(Replies, Entries(inbox))
  /\ Before(Replies \cup Entries(inbox), requests)
  /\ \A r, s \in requests : Cmd(r) = Cmd(s) => r = s
  /\ \A r \in requests : Asks(r)
  /\ \A e \in Entries(inbox) :
       Asks(e) \/ (e.id = NoMsg /\ e.msg = Serial!Unknown)
  /\ \A e \in Replies : Cmd(e) \in 0 .. Sent

\* The writes to key k before command n that the server has accepted.
Accepted(n, k) ==
  {m \in 1 .. n - 1 :
     /\ \E e \in Replies : Cmd(e) = m /\ e.text = "WRITE_PASS"
     /\ script[m].kind = "write" /\ script[m].key = k}

\* The text is what the last of these writes wrote.
Tells(text, n, k) ==
  \/ Accepted(n, k) = {} /\ text = "READ_FAIL"
  \/ \E m \in Accepted(n, k) :
       (\A l \in Accepted(n, k) : l <= m) /\ text = script[m].val

TextOf(v) == IF v = NoValue THEN "READ_FAIL" ELSE v

\* The dictionary and the replies are those of the script run in order.
DictFollows ==
  /\ dict = [k \in Keys |-> dict[k]]
  /\ \A k \in Keys \ {EmptyKey} : Tells(TextOf(dict[k]), MaxCmds + 1, k)

RepliesFollow ==
  \A e \in Replies :
    /\ Cmd(e) # 0 /\ script[Cmd(e)].kind = "read"
    /\ script[Cmd(e)].key # EmptyKey
    => Tells(e.text, Cmd(e), script[Cmd(e)].key)

ScriptInv == InOrder /\ ScriptOrder /\ DictFollows /\ RepliesFollow

-----------------------------------------------------------------------------
(* Lemmas about sequences of anything *)

LEMMA AppendSeq ==
  ASSUME NEW s, IsSeq(s), NEW e
  PROVE  /\ IsSeq(Append(s, e)) /\ Len(s) \in Nat
         /\ Len(Append(s, e)) = Len(s) + 1
         /\ DOMAIN s = 1 .. Len(s)
         /\ DOMAIN Append(s, e) = 1 .. Len(s) + 1
         /\ \A i \in 1 .. Len(s) : Append(s, e)[i] = s[i]
         /\ Append(s, e)[Len(s) + 1] = e
<1>1. PICK S : s \in Seq(S)
  BY DEF IsSeq
<1>2. s \in Seq(S \cup {e}) /\ e \in S \cup {e}
  BY <1>1
<1>3. Append(s, e) \in Seq(S \cup {e})
  BY <1>2
<1> QED BY <1>2, <1>3 DEF IsSeq

LEMMA TailSeq ==
  ASSUME NEW s, IsSeq(s), s # <<>>
  PROVE  /\ IsSeq(Tail(s)) /\ Len(s) \in Nat \ {0}
         /\ Len(Tail(s)) = Len(s) - 1 /\ Head(s) = s[1]
         /\ \A i \in 1 .. Len(s) - 1 : Tail(s)[i] = s[i + 1]
<1>1. PICK S : s \in Seq(S)
  BY DEF IsSeq
<1>2. Tail(s) \in Seq(S)
  BY <1>1
<1> QED BY <1>1, <1>2 DEF IsSeq

LEMMA AppendAtServer ==
  ASSUME NEW q, AllAtServer(q), NEW e, AtServer(e)
  PROVE  AllAtServer(Append(q, e))
BY AppendSeq DEF AllAtServer

LEMMA TailAtServer ==
  ASSUME NEW q, AllAtServer(q), q # <<>>
  PROVE  AllAtServer(Tail(q)) /\ AtServer(Head(q))
BY TailSeq DEF AllAtServer

LEMMA OwnUid ==
  ASSUME NEW id, Own(id)
  PROVE  id.uid \in Uids /\ id.cmd = id.uid + 1
BY ClientAssumption DEF Own, Numbers, Uids

-----------------------------------------------------------------------------
(* Identifiers: numbering, and what is under way *)

LEMMA IdInvInit == StartedInit => IdInv
<1> SUFFICES ASSUME StartedInit PROVE IdInv
  OBVIOUS
<1>1. Numbering
  BY ClientAssumption
  DEF StartedInit, Init, ClientInit, Numbering, InOrder, Dequeued
<1>2. IdsOwn
  <2>1. <<>> \in Seq({})
    OBVIOUS
  <2> QED
    BY <2>1 DEF StartedInit, Init, ClientInit, Serial!Init, IdsOwn,
       AllAtServer, IsSeq
<1> QED BY <1>1, <1>2 DEF IdInv

\* A step that leaves the identifiers alone.
LEMMA IdInvQuiet ==
  ASSUME IdInv, UNCHANGED <<script, cq, uid_cnt, txVars, inbox, outbox>>,
         requests' \subseteq requests, replies' \subseteq replies
  PROVE  IdInv'
BY DEF IdInv, Numbering, InOrder, Dequeued, IdsOwn, txVars

\* main and tx keep the numbering of the script.
LEMMA InOrderStep ==
  ASSUME InOrder, Main \/ Tx
  PROVE  InOrder'
<1> USE ClientAssumption DEF InOrder, Dequeued, txVars, mapVars
<1>1. ASSUME NEW cmd \in Commands, Enqueue(cmd) PROVE InOrder'
  <2>1. /\ script' = Append(script, cmd) /\ cq' = Append(cq, Len(script) + 1)
        /\ script' \in Seq(Commands) /\ cq' \in Seq(Nat)
        /\ Len(script') = Len(script) + 1 /\ Len(cq') = Len(cq) + 1
        /\ Len(script) < MaxCmds /\ UNCHANGED <<mapVars, txVars>>
    BY <1>1 DEF Enqueue
  <2>2. Dequeued' = Dequeued
    BY <2>1
  <2>3. ASSUME NEW i \in 1 .. Len(cq') PROVE cq'[i] = Dequeued + i
    <3>1. CASE i \in 1 .. Len(cq)
      <4>1. cq'[i] = cq[i]
        BY <2>1, <3>1
      <4> QED BY <3>1, <4>1
    <3>2. CASE i = Len(cq) + 1
      <4>1. cq'[i] = Len(script) + 1
        BY <2>1, <3>2
      <4> QED BY <3>2, <4>1
    <3> QED BY <2>1, <3>1, <3>2
  <2> QED BY <2>1, <2>2, <2>3
<1>2. CASE Dequeue
  <2>1. /\ cq \in Seq(Nat) /\ cq # <<>> /\ cq' = Tail(cq) /\ txreq' = cq[1]
        /\ Len(cq') = Len(cq) - 1 /\ cq' \in Seq(Nat)
        /\ txpc = "dequeue" /\ txpc' = "uid" /\ UNCHANGED <<script, mapVars>>
    BY <1>2 DEF Dequeue
  <2>2. \A i \in 1 .. Len(cq') : cq'[i] = cq[i + 1]
    BY <2>1
  <2>3. txreq' = Dequeued + 1 /\ Dequeued' = Dequeued + 1
    BY <2>1
  <2> QED BY <2>1, <2>2, <2>3
<1>3. CASE DrawUid \/ Insert \/ SendTo
  BY <1>3 DEF DrawUid, Insert, SendTo
<1> QED BY <1>1, <1>2, <1>3 DEF Main, Tx

\* And that of the uids.
LEMMA NumberingStep ==
  ASSUME Numbering, Main \/ Tx
  PROVE  Numbering'
<1>1. InOrder'
  BY InOrderStep DEF Numbering
<1>2. Dequeued \in Int /\ Dequeued' \in Int
  BY <1>1 DEF Numbering, InOrder, Dequeued
<1>3. CASE Main
  <2>1. Dequeued' = Dequeued /\ UNCHANGED <<mapVars, txVars>>
    <3>1. PICK cmd \in Commands : Enqueue(cmd)
      BY <1>3 DEF Main
    <3>2. script' = Append(script, cmd) /\ cq' = Append(cq, Len(script'))
          /\ UNCHANGED <<mapVars, txVars>>
      BY <3>1 DEF Enqueue
    <3>3. Len(script') = Len(script) + 1 /\ Len(cq') = Len(cq) + 1
      BY <3>2, Len(script') \in Nat DEF Numbering, InOrder
    <3> QED BY <3>2, <3>3 DEF Dequeued, Numbering, InOrder
  <2> QED BY <1>1, <2>1 DEF Numbering, mapVars, txVars
<1>4. CASE Dequeue
  <2>1. Dequeued' = Dequeued + 1
    BY <1>4 DEF Dequeue, Dequeued, Numbering, InOrder
  <2> QED BY <1>1, <1>2, <1>4, <2>1 DEF Dequeue, Numbering, mapVars
<1>5. CASE DrawUid \/ Insert \/ SendTo
  <2>1. Dequeued' = Dequeued
    BY <1>5 DEF DrawUid, Insert, SendTo, Dequeued
  <2> QED BY <1>1, <1>2, <1>5, <2>1
          DEF DrawUid, Insert, SendTo, Numbering, mapVars, txVars
<1> QED BY <1>3, <1>4, <1>5 DEF Tx

LEMMA IdInvStep ==
  ASSUME IdInv, Next, rxpc # "start"
  PROVE  IdInv'
<1> USE DEF IdInv
<1>1. ASSUME ClientSteps PROVE IdInv'
  <2>1. CASE Main \/ Tx
    <3>1. Numbering'
      BY <2>1, NumberingStep
    <3>2. CASE SendTo
      <4> DEFINE id == [uid |-> txuid, cmd |-> txreq]
      <4>1. /\ requests' = requests \cup {[id |-> id, msg |-> script[txreq]]}
            /\ UNCHANGED <<replies, inbox, outbox>>
        BY <1>1, <3>2 DEF ClientSteps, SendTo, srv
      <4>2. Own(id)
        BY <3>2, ClientAssumption
        DEF SendTo, Numbering, InOrder, Dequeued, Own, Numbers
      <4> QED BY <3>1, <4>1, <4>2 DEF IdsOwn
    <3>3. CASE ~SendTo
      <4>1. UNCHANGED <<requests, replies, inbox, outbox>>
        BY <1>1, <2>1, <3>3
        DEF ClientSteps, Main, Tx, Enqueue, Dequeue, DrawUid, Insert, srv,
            netVars
      <4> QED BY <3>1, <4>1 DEF IdsOwn
    <3> QED BY <3>2, <3>3
  <2>2. CASE ReceiveError \/ MapRace
    BY <1>1, <2>2, IdInvQuiet
    DEF ClientSteps, ReceiveError, MapRace, srv, netVars, mapVars
  <2> QED BY <1>1, <2>1, <2>2 DEF ClientSteps, StartRx
<1>2. CASE Rx
  <2>1. UNCHANGED <<script, cq, uid_cnt, txVars, inbox, outbox, requests>>
    BY <1>2
    DEF Rx, Receive, RxInside, Find, Call, Erase, srv, mapVars, netVars
  <2>2. replies' \subseteq replies
    BY <1>2 DEF Rx, RxInside, Find, Call, Erase, netVars
  <2> QED BY <2>1, <2>2, IdInvQuiet
<1>3. ASSUME NEW r \in requests, Deliver(r) PROVE IdInv'
  <2>1. /\ inbox' = Append(inbox, r) /\ requests' \subseteq requests
        /\ UNCHANGED <<script, cq, uid_cnt, txVars, replies, outbox>>
    BY <1>3 DEF Deliver, mapVars
  <2>2. AllAtServer(inbox')
    BY <2>1, AppendAtServer DEF IdsOwn, AtServer
  <2> QED BY <2>1, <2>2 DEF IdsOwn, Numbering, InOrder, Dequeued, txVars
<1>4. ASSUME NEW r \in requests \cup replies, Lose(r) PROVE IdInv'
  BY <1>4, IdInvQuiet DEF Lose, mapVars, srv
<1>5. CASE Stranger
  <2> DEFINE e == [id |-> NoMsg, msg |-> Serial!Unknown]
  <2>1. inbox' = Append(inbox, e) /\ UNCHANGED <<clientVars, outbox>>
    BY <1>5 DEF Stranger
  <2>2. AllAtServer(inbox')
    BY <2>1, AppendAtServer DEF IdsOwn, AtServer
  <2> QED
    BY <2>1, <2>2
    DEF IdsOwn, Numbering, InOrder, Dequeued, clientVars, txVars, mapVars,
        netVars
<1>6. CASE Execute
  <2> DEFINE id == Head(inbox).id
  <2>1. /\ inbox # <<>> /\ inbox' = Tail(inbox) /\ UNCHANGED clientVars
        /\ \/ UNCHANGED outbox
           \/ \E text : outbox' = Append(outbox, [id |-> id, text |-> text])
    BY <1>6
    DEF Execute, Serial!Execute, Serial!Read, Serial!Write, Serial!Reply
  <2>2. AllAtServer(inbox') /\ (id = NoMsg \/ Own(id))
    BY <2>1, TailAtServer DEF IdsOwn, AtServer
  <2>3. ASSUME NEW text,
               outbox' = Append(outbox, [id |-> id, text |-> text])
        PROVE  AllAtServer(outbox')
    BY <2>2, <2>3, AppendAtServer DEF IdsOwn, AtServer
  <2>4. AllAtServer(outbox')
    BY <2>1, <2>3 DEF IdsOwn
  <2> QED
    BY <2>1, <2>2, <2>4
    DEF IdsOwn, Numbering, InOrder, Dequeued, clientVars, txVars, mapVars,
        netVars
<1>7. CASE Send
  <2>1. /\ outbox # <<>> /\ outbox' = Tail(outbox)
        /\ replies' \subseteq replies \cup {Head(outbox)}
        /\ Head(outbox).id = NoMsg => replies' = replies
        /\ UNCHANGED <<script, cq, uid_cnt, txVars, inbox, requests>>
    BY <1>7 DEF Send, Serial!Send, mapVars
  <2>2. AllAtServer(outbox') /\ AtServer(Head(outbox))
    BY <2>1, TailAtServer DEF IdsOwn
  <2> QED
    BY <2>1, <2>2 DEF IdsOwn, AtServer, Numbering, InOrder, Dequeued, txVars
<1> QED BY <1>1, <1>2, <1>3, <1>4, <1>5, <1>6, <1>7 DEF Next, Network

-----------------------------------------------------------------------------
(* Callbacks *)

LEMMA CallInvInit == StartedInit => CallInv
<1> SUFFICES ASSUME StartedInit PROVE CallInv
  OBVIOUS
<1> USE DEF StartedInit, Init, ClientInit
<1>1. <<>> \in Seq({})
  OBVIOUS
<1>2. MapOwn /\ Reading
  BY DEF MapOwn, Reading
<1>3. Spent /\ RightCallback /\ OnceEach
  BY <1>1 DEF Spent, RightCallback, OnceEach, IsSeq
<1> QED BY <1>2, <1>3 DEF CallInv

\* A step that leaves map, calls and rx alone, and unregisters no uid.
LEMMA CallInvQuiet ==
  ASSUME CallInv, UNCHANGED <<callback_map, rxVars, calls>>,
         \A u \in Uids : Inserted(u) => Inserted(u)'
  PROVE  CallInv'
<1>1. MapOwn'
  BY DEF CallInv, MapOwn
<1>2. Reading'
  BY DEF CallInv, Reading, rxVars
<1>3. Spent'
  <2>1. \A n \in Numbers : n - 1 \in Uids
    BY ClientAssumption DEF Numbers, Uids
  <2> QED BY <2>1 DEF CallInv, Spent, rxVars
<1>4. RightCallback' /\ OnceEach'
  BY DEF CallInv, RightCallback, OnceEach
<1> QED BY <1>1, <1>2, <1>3, <1>4 DEF CallInv

LEMMA TxCallInv ==
  ASSUME IdInv, CallInv, Main \/ Tx
  PROVE  CallInv'
<1> USE DEF IdInv, Numbering, InOrder
<1>1. Dequeued \in Int
  BY DEF Dequeued
<1>2. CASE Main \/ Dequeue \/ SendTo
  <2>1. UNCHANGED <<uid_cnt, callback_map, txuid, rxVars, calls>>
        /\ (txpc' = txpc \/ txpc' # "insert")
    BY <1>2 DEF Main, Enqueue, Dequeue, SendTo, mapVars, txVars
  <2>2. ASSUME NEW u \in Uids, Inserted(u) PROVE Inserted(u)'
    BY <2>1, <2>2 DEF Inserted
  <2> QED BY <2>1, <2>2, CallInvQuiet
<1>3. CASE DrawUid
  <2>1. UNCHANGED <<callback_map, rxVars, calls>>
    BY <1>3 DEF DrawUid
  <2>2. ASSUME NEW u \in Uids, Inserted(u) PROVE Inserted(u)'
    BY <1>1, <1>3, <2>2, ClientAssumption DEF DrawUid, Inserted, Uids
  <2> QED BY <2>1, <2>2, CallInvQuiet
<1>4. CASE Insert
  <2>1. /\ callback_map' = [callback_map EXCEPT ![txuid] = txreq]
        /\ txpc = "insert" /\ txpc' = "send"
        /\ UNCHANGED <<uid_cnt, txuid, rxVars, calls>>
    BY <1>4 DEF Insert
  <2>2. txreq = txuid + 1 /\ txuid \in Uids /\ txuid < uid_cnt
    BY <1>1, <2>1, ClientAssumption DEF Dequeued, Uids
  <2>3. ASSUME NEW u, Inserted(u) PROVE Inserted(u)' /\ u # txuid
    BY <2>1, <2>3 DEF Inserted
  <2>4. Inserted(txuid)'
    BY <2>1, <2>2 DEF Inserted
  <2>5. MapOwn'
    <3>1. callback_map' \in [Uids -> Nat]
      BY <2>1, <2>2, ClientAssumption DEF CallInv, MapOwn, Uids
    <3> QED BY <2>1, <2>2, <2>3, <2>4, <3>1 DEF CallInv, MapOwn
  <2>6. Reading'
    BY <2>1, <2>2, OwnUid, ClientAssumption
    DEF CallInv, Reading, MapOwn, rxVars, Uids
  <2>7. Spent'
    <3>1. \A n \in Numbers : n - 1 \in Uids
      BY ClientAssumption DEF Numbers, Uids
    <3> QED BY <2>1, <2>2, <2>3, <3>1 DEF CallInv, Spent, MapOwn, rxVars
  <2>8. RightCallback' /\ OnceEach'
    BY <2>1 DEF CallInv, RightCallback, OnceEach
  <2> QED BY <2>5, <2>6, <2>7, <2>8 DEF CallInv
<1> QED BY <1>2, <1>3, <1>4 DEF Tx

LEMMA RxCallInv ==
  ASSUME IdInv, CallInv, Rx
  PROVE  CallInv'
<1> USE DEF CallInv
<1>1. ASSUME NEW u PROVE Inserted(u)' <=> Inserted(u)
  BY DEF Rx, Receive, RxInside, Find, Call, Erase, Inserted, mapVars, txVars
<1>2. ASSUME NEW r \in replies, Receive(r) PROVE CallInv'
  <2>1. /\ msg_buff' = r /\ rxpc = "recv" /\ rxpc' = "find" /\ Own(r.id)
        /\ UNCHANGED <<callback_map, calls>>
    BY <1>2 DEF Receive, mapVars, IdInv, IdsOwn
  <2>2. MapOwn' /\ Reading' /\ Spent'
    BY <1>1, <2>1 DEF MapOwn, Reading, Spent
  <2> QED BY <2>1, <2>2 DEF RightCallback, OnceEach
<1>3. CASE Find
  <2>1. /\ rxpc = "find" /\ rxpc' \in {"recv", "call"}
        /\ rxpc' = "call" => callback_map[msg_buff.id.uid] # 0
        /\ UNCHANGED <<callback_map, calls, msg_buff>>
    BY <1>3 DEF Find, mapVars, Registered
  <2>2. MapOwn' /\ Reading' /\ Spent'
    BY <1>1, <2>1 DEF MapOwn, Reading, Spent
  <2> QED BY <2>1, <2>2 DEF RightCallback, OnceEach
<1>4. CASE Call
  <2> DEFINE u == msg_buff.id.uid
             e == [callback |-> callback_map[u], reply |-> msg_buff]
             n == Len(calls) + 1
  <2>1. /\ calls' = Append(calls, e) /\ rxpc = "call" /\ rxpc' = "erase"
        /\ UNCHANGED <<callback_map, msg_buff>> /\ callback_map[u] # 0
        /\ Own(msg_buff.id)
    BY <1>4 DEF Call, mapVars, Reading
  <2>2. /\ u \in Uids /\ u \in Nat /\ u + 1 \in Numbers
        /\ callback_map[u] = u + 1 /\ msg_buff.id.cmd = u + 1 /\ Inserted(u)
    BY <2>1, OwnUid, ClientAssumption DEF MapOwn, Own, Uids, Numbers
  <2>3. e.callback = u + 1 /\ e.reply.id.cmd = u + 1
    BY <2>2
  <2>4. IsSeq(calls) /\ \A i \in 1 .. Len(calls) : calls[i].callback # u + 1
    <3> SUFFICES ASSUME NEW i \in 1 .. Len(calls), calls[i].callback = u + 1
                 PROVE  FALSE
      BY DEF Spent
    <3>1. calls[i].callback - 1 = u
      BY <2>2
    <3>2. callback_map[calls[i].callback - 1] # 0
      BY <2>1, <3>1
    <3> QED BY <2>1, <3>2 DEF Spent
  <2> HIDE DEF e, u
  <2>5. /\ IsSeq(calls') /\ DOMAIN calls = 1 .. Len(calls)
        /\ DOMAIN calls' = 1 .. n /\ Len(calls') = n /\ Len(calls) \in Nat
        /\ \A i \in 1 .. Len(calls) : calls'[i] = calls[i]
        /\ calls'[n] = e
    BY <2>1, <2>4, AppendSeq
  <2>6. \A i \in 1 .. n : i \in 1 .. Len(calls) \/ i = n
    BY <2>5
  <2>7. MapOwn'
    BY <1>1, <2>1 DEF MapOwn
  <2>8. Reading'
    BY <2>1 DEF Reading
  <2>9. Spent'
    <3> SUFFICES ASSUME NEW i \in 1 .. n
                 PROVE  /\ calls'[i].callback \in Numbers
                        /\ Inserted(calls'[i].callback - 1)
                        /\ callback_map[calls'[i].callback - 1] # 0
                             => msg_buff.id.uid = calls'[i].callback - 1
      BY <1>1, <2>1, <2>5 DEF Spent
    <3>1. CASE i \in 1 .. Len(calls)
      BY <2>1, <2>5, <3>1 DEF Spent
    <3>2. CASE i = n
      <4>1. calls'[i].callback = u + 1 /\ calls'[i].callback - 1 = u
        BY <2>2, <2>3, <2>5, <3>2
      <4>2. msg_buff.id.uid = u
        BY DEF u
      <4> QED BY <2>2, <4>1, <4>2
    <3> QED BY <2>6, <3>1, <3>2
  <2>10. RightCallback'
    BY <2>3, <2>5, <2>6 DEF RightCallback
  <2>11. OnceEach'
    BY <2>3, <2>4, <2>5, <2>6 DEF OnceEach
  <2> QED BY <2>7, <2>8, <2>9, <2>10, <2>11
<1>5. CASE Erase
  <2> DEFINE u == msg_buff.id.uid
  <2>1. /\ callback_map' = [callback_map EXCEPT ![u] = 0]
        /\ rxpc = "erase" /\ rxpc' = "recv" /\ UNCHANGED <<calls, msg_buff>>
        /\ u \in Uids
    BY <1>5, OwnUid DEF Erase, Reading
  <2>2. MapOwn'
    BY <1>1, <2>1 DEF MapOwn
  <2>3. Reading'
    BY <2>1 DEF Reading
  <2>4. Spent'
    <3>1. \A m \in Numbers : m - 1 \in Uids
      BY ClientAssumption DEF Numbers, Uids
    <3> QED BY <1>1, <2>1, <3>1 DEF Spent, MapOwn
  <2> QED BY <2>1, <2>2, <2>3, <2>4 DEF RightCallback, OnceEach
<1> QED BY <1>2, <1>3, <1>4, <1>5 DEF Rx, RxInside

LEMMA CallInvStep ==
  ASSUME IdInv, CallInv, Next
  PROVE  CallInv'
<1>1. CASE Rx
  BY <1>1, RxCallInv
<1>2. CASE (Main \/ Tx) /\ UNCHANGED srv
  BY <1>2, TxCallInv
<1>3. CASE ~Rx /\ ~((Main \/ Tx) /\ UNCHANGED srv)
  <2>1. UNCHANGED <<callback_map, uid_cnt, txVars, rxVars, calls>>
    BY <1>3
    DEF Next, ClientSteps, StartRx, ReceiveError, MapRace, Network, Deliver,
        Lose, Stranger, Execute, Send, clientVars, mapVars, CallInv, Reading
  <2>2. ASSUME NEW u \in Uids, Inserted(u) PROVE Inserted(u)'
    BY <2>1, <2>2 DEF Inserted, txVars
  <2> QED BY <2>1, <2>2, CallInvQuiet
<1> QED BY <1>1, <1>2, <1>3

LEMMA CallbackInvariant == StartedSpec => [](IdInv /\ CallInv)
<1>1. IdInv /\ CallInv /\ [Next]_systemVars => (IdInv /\ CallInv)'
  <2> SUFFICES ASSUME IdInv, CallInv, [Next]_systemVars
               PROVE  IdInv' /\ CallInv'
    OBVIOUS
  <2>1. CASE Next
    <3>1. rxpc # "start"
      BY DEF CallInv, Reading
    <3> QED BY <2>1, <3>1, IdInvStep, CallInvStep
  <2>2. CASE UNCHANGED systemVars
    <3> USE <2>2 DEF systemVars, clientVars, srv, mapVars, netVars
    <3>1. IdInv'
      BY IdInvQuiet
    <3>2. \A u \in Uids : Inserted(u) => Inserted(u)'
      BY DEF Inserted, txVars
    <3>3. CallInv'
      BY <3>2, CallInvQuiet
    <3> QED BY <3>1, <3>3
  <2> QED BY <2>1, <2>2
<1> QED BY IdInvInit, CallInvInit, <1>1, PTL DEF StartedSpec

\* On a network that loses, repeats and reorders, reply_to_caller calls a
\* callback only with a reply to the request it was registered for.
THEOREM StartedRightCallback == StartedSpec => []RightCallback
BY CallbackInvariant, PTL DEF CallInv

\* And it calls each callback at most once.
THEOREM StartedOnceEach == StartedSpec => []OnceEach
BY CallbackInvariant, PTL DEF CallInv

-----------------------------------------------------------------------------
(* The order of the script *)

\* A datagram put at the end of a queue comes after those that are there.
LEMMA AppendEntries ==
  ASSUME NEW s, IsSeq(s), NEW e
  PROVE  /\ IsSeq(Append(s, e)) /\ Entries(Append(s, e)) = Entries(s) \cup {e}
         /\ Ascending(s) /\ Before(Entries(s), {e}) => Ascending(Append(s, e))
<1> DEFINE t == Append(s, e)
           n == Len(s) + 1
<1>1. /\ IsSeq(t) /\ Len(s) \in Nat /\ DOMAIN s = 1 .. Len(s)
      /\ DOMAIN t = 1 .. n /\ t[n] = e /\ \A i \in 1 .. Len(s) : t[i] = s[i]
  BY AppendSeq
<1>2. \A i \in 1 .. n : i \in 1 .. Len(s) \/ i = n
  BY <1>1
<1>3. n \in 1 .. n /\ \A i \in 1 .. Len(s) : i \in 1 .. n
  BY <1>1
<1> HIDE DEF t, n
<1>4. Entries(t) = Entries(s) \cup {e}
  BY <1>1, <1>2, <1>3 DEF Entries
<1>5. ASSUME Ascending(s), Before(Entries(s), {e}) PROVE Ascending(t)
  <2> SUFFICES ASSUME NEW i \in 1 .. n, NEW j \in 1 .. n, i < j,
                      Cmd(t[i]) # 0, Cmd(t[j]) # 0
               PROVE  Cmd(t[i]) < Cmd(t[j])
    BY <1>1 DEF Ascending
  <2>1. i \in 1 .. Len(s)
    BY <1>1 DEF n
  <2>2. t[i] = s[i] /\ s[i] \in Entries(s)
    BY <1>1, <2>1 DEF Entries
  <2>3. CASE j = n
    BY <1>1, <1>5, <2>2, <2>3 DEF Before
  <2>4. CASE j \in 1 .. Len(s)
    BY <1>1, <1>5, <2>1, <2>2, <2>4 DEF Ascending
  <2> QED BY <1>2, <2>3, <2>4
<1> QED BY <1>1, <1>4, <1>5 DEF t

\* And the one taken from the front comes before the rest.
LEMMA TailEntries ==
  ASSUME NEW s, IsSeq(s), s # <<>>
  PROVE  /\ IsSeq(Tail(s))
         /\ Entries(s) = {Head(s)} \cup Entries(Tail(s))
         /\ Ascending(s) => /\ Ascending(Tail(s))
                            /\ Before({Head(s)}, Entries(Tail(s)))
<1> DEFINE t == Tail(s)
           n == Len(s)
<1>1. /\ IsSeq(t) /\ n \in Nat \ {0} /\ Len(t) = n - 1 /\ Head(s) = s[1]
      /\ \A i \in 1 .. n - 1 : t[i] = s[i + 1]
  BY TailSeq
<1>2. DOMAIN s = 1 .. n /\ DOMAIN t = 1 .. n - 1
  BY <1>1, AppendSeq
<1>3. \A i \in 1 .. n : i # 1 => i - 1 \in 1 .. n - 1 /\ (i - 1) + 1 = i
  BY <1>1
<1>4. /\ 1 \in 1 .. n
      /\ \A i \in 1 .. n - 1 : i + 1 \in 1 .. n /\ 1 < i + 1
  BY <1>1
<1> HIDE DEF t, n
<1>5. Entries(s) = {s[1]} \cup Entries(t)
  <2>1. ASSUME NEW i \in 1 .. n PROVE s[i] \in {s[1]} \cup Entries(t)
    <3>1. CASE i = 1
      BY <3>1
    <3>2. CASE i # 1
      <4>1. i - 1 \in 1 .. n - 1 /\ t[i - 1] = s[i]
        <5>1. i - 1 \in 1 .. n - 1 /\ (i - 1) + 1 = i
          BY <1>3, <3>2
        <5> QED BY <1>1, <5>1
      <4> QED BY <1>2, <4>1 DEF Entries
    <3> QED BY <3>1, <3>2
  <2>2. \A i \in 1 .. n - 1 : t[i] \in Entries(s)
    BY <1>1, <1>2, <1>4 DEF Entries
  <2> QED BY <1>2, <1>4, <2>1, <2>2 DEF Entries
<1>6. ASSUME Ascending(s) PROVE Ascending(t)
  <2> SUFFICES ASSUME NEW i \in 1 .. n - 1, NEW j \in 1 .. n - 1, i < j,
                      Cmd(t[i]) # 0, Cmd(t[j]) # 0
               PROVE  Cmd(t[i]) < Cmd(t[j])
    BY <1>2 DEF Ascending
  <2>1. i + 1 < j + 1
    OBVIOUS
  <2> QED BY <1>1, <1>2, <1>4, <1>6, <2>1 DEF Ascending
<1>7. ASSUME Ascending(s) PROVE Before({s[1]}, Entries(t))
  BY <1>1, <1>2, <1>4, <1>7 DEF Ascending, Before, Entries
<1> QED BY <1>1, <1>5, <1>6, <1>7 DEF t

\* The commands sent are in the script.
LEMMA SentType ==
  ASSUME InOrder
  PROVE  /\ Sent \in Int /\ Sent <= Len(script) /\ Len(script) \in Nat
         /\ Len(script) <= MaxCmds
         /\ \A n \in 1 .. Sent : n \in 1 .. Len(script) /\ n \in Nat \ {0}
                                 /\ n < MaxCmds + 1
BY ClientAssumption DEF InOrder, Sent, Dequeued

\* At the start nothing is asked and nothing told.
LEMMA ScriptInvInit == Init => ScriptInv
<1> SUFFICES ASSUME Init PROVE ScriptInv
  OBVIOUS
<1> USE DEF Init, ClientInit, Serial!Init
<1>1. InOrder
  BY ClientAssumption DEF InOrder, Dequeued
<1>2. IsSeq(<<>>) /\ Entries(<<>>) = {} /\ Ascending(<<>>)
  <2>1. <<>> \in Seq({}) /\ DOMAIN <<>> = {}
    OBVIOUS
  <2> QED BY <2>1 DEF IsSeq, Entries, Ascending
<1>3. Replies = {}
  BY <1>2 DEF Replies
<1>4. ScriptOrder
  BY <1>2, <1>3 DEF ScriptOrder, Before
<1>5. DictFollows
  BY <1>3 DEF DictFollows, Tells, Accepted, TextOf
<1>6. RepliesFollow
  BY <1>3 DEF RepliesFollow
<1> QED BY <1>1, <1>4, <1>5, <1>6 DEF ScriptInv

\* A step that only adds to the script, or takes tx further.
LEMMA ScriptInvQuiet ==
  ASSUME ScriptInv, InOrder', UNCHANGED <<srv, requests>>, Sent <= Sent',
         \A m \in 1 .. Sent : script'[m] = script[m]
  PROVE  ScriptInv'
<1>1. /\ Sent \in Int /\ \A n \in 1 .. Sent : n \in Nat \ {0}
  BY SentType DEF ScriptInv
<1>2. Sent' \in Int
  BY DEF InOrder, Sent, Dequeued
<1>3. (\A n \in 1 .. Sent : n \in 1 .. Sent')
      /\ (\A n \in 0 .. Sent : n \in 0 .. Sent')
  BY <1>1, <1>2
<1>4. Replies' = Replies
  BY DEF srv, Replies
<1>5. ScriptOrder'
  <2>1. \A e : Asks(e) => Asks(e)'
    BY <1>3 DEF Asks
  <2>2. UNCHANGED <<inbox, outbox, wire, requests>>
    BY DEF srv
  <2>3. ScriptOrder
    BY DEF ScriptInv
  <2>4. /\ IsSeq(inbox)' /\ IsSeq(outbox)' /\ IsSeq(wire)'
        /\ Ascending(inbox)' /\ Ascending(outbox)'
        /\ Before(Entries(wire), Entries(outbox))'
        /\ Before(Replies, Entries(inbox))'
        /\ Before(Replies \cup Entries(inbox), requests)'
        /\ (\A r, s \in requests : Cmd(r) = Cmd(s) => r = s)'
    BY <1>4, <2>2, <2>3 DEF ScriptOrder
  <2>5. (\A r \in requests : Asks(r))'
    BY <2>1, <2>2, <2>3 DEF ScriptOrder
  <2>6. \A e \in Entries(inbox)' :
          Asks(e)' \/ (e.id = NoMsg /\ e.msg = Serial!Unknown)
    BY <2>1, <2>2, <2>3 DEF ScriptOrder
  <2>7. \A e \in Replies' : Cmd(e) \in 0 .. Sent'
    BY <1>3, <1>4, <2>3 DEF ScriptOrder
  <2> QED BY <2>4, <2>5, <2>6, <2>7 DEF ScriptOrder
<1>6. \A e \in Replies : Cmd(e) # 0 => script'[Cmd(e)] = script[Cmd(e)]
  <2>1. \A e \in Replies : Cmd(e) \in 0 .. Sent
    BY DEF ScriptInv, ScriptOrder
  <2>2. \A m \in 0 .. Sent : m # 0 => m \in 1 .. Sent
    BY <1>1
  <2> QED BY <2>1, <2>2
<1>7. ASSUME NEW n, NEW k PROVE Accepted(n, k)' = Accepted(n, k)
  <2>1. \A m \in 1 .. n - 1 : m # 0
    OBVIOUS
  <2> QED BY <1>4, <1>6, <2>1 DEF Accepted
<1>8. ASSUME NEW n, NEW k, NEW m \in Accepted(n, k)
      PROVE  script'[m] = script[m]
  <2>1. m # 0 /\ \E e \in Replies : Cmd(e) = m
    BY DEF Accepted
  <2> QED BY <1>6, <2>1
<1>9. ASSUME NEW n, NEW k, NEW text, Tells(text, n, k)
      PROVE  Tells(text, n, k)'
  BY <1>7, <1>8, <1>9 DEF Tells
<1>10. DictFollows'
  <2>1. dict' = dict
    BY DEF srv
  <2>2. ASSUME NEW k \in Keys \ {EmptyKey}
        PROVE  Tells(TextOf(dict[k]), MaxCmds + 1, k)'
    <3>1. PICK text : text = TextOf(dict[k])
      OBVIOUS
    <3>2. Tells(text, MaxCmds + 1, k)
      BY <3>1 DEF ScriptInv, DictFollows
    <3>3. Tells(text, MaxCmds + 1, k)'
      BY <1>9, <3>2
    <3> QED BY <2>1, <3>1, <3>3 DEF Tells
  <2> QED BY <2>1, <2>2 DEF DictFollows, ScriptInv
<1>11. RepliesFollow'
  <2> SUFFICES ASSUME NEW e \in Replies, Cmd(e) # 0,
                      script[Cmd(e)].kind = "read",
                      script[Cmd(e)].key # EmptyKey
               PROVE  Tells(e.text, Cmd(e), script[Cmd(e)].key)'
    BY <1>4, <1>6 DEF RepliesFollow
  <2>1. PICK k : k = script[Cmd(e)].key
    OBVIOUS
  <2>2. Tells(e.text, Cmd(e), k)
    BY <2>1 DEF ScriptInv, RepliesFollow
  <2>3. Tells(e.text, Cmd(e), k)'
    BY <1>9, <2>2
  <2>4. script'[Cmd(e)].key = k
    BY <1>6, <2>1
  <2> QED BY <2>3, <2>4 DEF Tells, Accepted
<1> QED BY <1>5, <1>10, <1>11 DEF ScriptInv

\* What the values tell depends on the script, the dictionary and the replies.
LEMMA ValuesSame ==
  ASSUME DictFollows, RepliesFollow, UNCHANGED <<script, dict>>,
         Replies' = Replies
  PROVE  DictFollows' /\ RepliesFollow'
BY DEF DictFollows, RepliesFollow, Tells, Accepted

\* tx sends the next command of the script.
LEMMA SendToScriptInv ==
  ASSUME ScriptInv, SendTo, UNCHANGED srv
  PROVE  ScriptInv'
<1>0. PICK r : r = [id |-> [uid |-> txuid, cmd |-> txreq],
                    msg |-> script[txreq]]
  OBVIOUS
<1>1. /\ requests' = requests \cup {r} /\ script' = script
      /\ UNCHANGED <<inbox, outbox, wire, dict, cq, txreq>>
      /\ txpc = "send" /\ txpc' = "dequeue" /\ InOrder
  BY <1>0 DEF SendTo, srv, ScriptInv
<1>2. InOrder'
  BY InOrderStep DEF ScriptInv, Tx
<1>3. Cmd(r) = Sent' /\ Sent' = Sent + 1 /\ Sent \in Int /\ Sent >= 0
  BY <1>0, <1>1 DEF Cmd, InOrder, Sent, Dequeued
<1>4. /\ \A n \in 1 .. Sent : n \in 1 .. Sent' /\ n < Sent'
      /\ \A n \in 0 .. Sent : n \in 0 .. Sent' /\ n < Sent'
      /\ Sent' \in 1 .. Sent'
  BY <1>3
<1>5. r.msg = script[Cmd(r)]
  BY <1>0 DEF Cmd
<1>6. Replies' = Replies
  BY <1>1 DEF Replies
<1>7. ScriptOrder'
  <2> USE DEF ScriptInv
  <2>1. (\A e : Asks(e) => Asks(e)' /\ Cmd(e) < Cmd(r)) /\ Asks(r)'
    <3>1. ASSUME NEW e, Asks(e) PROVE Asks(e)' /\ Cmd(e) < Cmd(r)
      BY <1>1, <1>3, <1>4, <3>1 DEF Asks
    <3>2. Asks(r)'
      BY <1>1, <1>3, <1>4, <1>5 DEF Asks
    <3> QED BY <3>1, <3>2
  <2>2. (\A q \in requests : Asks(q))'
    <3>1. \A q \in requests' : Asks(q)'
      BY <1>1, <2>1 DEF ScriptOrder
    <3> QED BY <3>1
  <2>3. \A e \in Entries(inbox)' :
          Asks(e)' \/ (e.id = NoMsg /\ e.msg = Serial!Unknown)
    BY <1>1, <2>1 DEF ScriptOrder
  <2>4. \A e \in Replies : Cmd(e) \in 0 .. Sent' /\ Cmd(e) < Cmd(r)
    BY <1>3, <1>4 DEF ScriptOrder
  <2>5. Before(Replies \cup Entries(inbox), requests \cup {r})
    <3>1. \A e \in Entries(inbox) : Cmd(e) # 0 => Cmd(e) < Cmd(r)
      BY <2>1 DEF ScriptOrder, Cmd, NoMsg
    <3> QED BY <2>4, <3>1 DEF ScriptOrder, Before
  <2>6. \A p, q \in requests \cup {r} : Cmd(p) = Cmd(q) => p = q
    <3>1. \A q \in requests : Cmd(q) # Cmd(r)
      <4>1. \A n \in 1 .. Sent : n # Sent'
        BY <1>3
      <4> QED BY <1>3, <4>1 DEF ScriptOrder, Asks
    <3> QED BY <3>1 DEF ScriptOrder
  <2> QED BY <1>1, <1>6, <2>2, <2>3, <2>4, <2>5, <2>6 DEF ScriptOrder
<1>8. DictFollows' /\ RepliesFollow'
  BY <1>1, <1>6, ValuesSame DEF ScriptInv
<1> QED BY <1>2, <1>7, <1>8 DEF ScriptInv

\* The first request under way, or a stranger's, reaches the server.
LEMMA ArriveScriptInv ==
  ASSUME Orderly, ScriptInv,
         Stranger \/ \E r \in requests : Deliver(r)
  PROVE  ScriptInv'
<1> USE DEF ScriptInv
<1>1. PICK r : /\ inbox' = Append(inbox, r)
               /\ Before(Replies \cup Entries(inbox), {r})
               /\ Asks(r) \/ (r.id = NoMsg /\ r.msg = Serial!Unknown)
               /\ requests' \subseteq requests
               /\ Before({r}, requests')
  <2>1. CASE Stranger
    <3> DEFINE e == [id |-> NoMsg, msg |-> Serial!Unknown]
    <3>1. inbox' = Append(inbox, e) /\ requests' = requests
      BY <2>1 DEF Stranger, clientVars, netVars
    <3>2. Cmd(e) = 0
      BY DEF Cmd, NoMsg
    <3>3. e.id = NoMsg /\ e.msg = Serial!Unknown
      OBVIOUS
    <3> HIDE DEF e
    <3> QED BY <3>1, <3>2, <3>3 DEF Before
  <2>2. ASSUME NEW e \in requests, Deliver(e)
        PROVE  /\ inbox' = Append(inbox, e)
               /\ Before(Replies \cup Entries(inbox), {e})
               /\ Asks(e) /\ requests' \subseteq requests
               /\ Before({e}, requests')
    <3>1. /\ inbox' = Append(inbox, e) /\ requests' = requests \ {e}
          /\ \A q \in requests : Cmd(e) <= Cmd(q)
      BY <2>2 DEF Deliver, Cmd
    <3>2. \A q \in requests' : Cmd(e) < Cmd(q)
      <4>1. \A q \in requests : Cmd(q) \in Int
        <5>1. \A n \in 1 .. Sent : n \in Int
          OBVIOUS
        <5> QED BY <5>1 DEF ScriptOrder, Asks
      <4> QED BY <3>1, <4>1 DEF ScriptOrder
    <3> QED BY <3>1, <3>2 DEF ScriptOrder, Before
  <2> QED BY <2>1, <2>2
<1>2. UNCHANGED <<script, cq, txVars, outbox, wire, dict>>
  BY DEF Stranger, Deliver, clientVars
<1>3. Entries(inbox') = Entries(inbox) \cup {r} /\ IsSeq(inbox')
      /\ Ascending(inbox')
  BY <1>1, AppendEntries DEF ScriptOrder, Before
<1>4. Replies' = Replies /\ Sent' = Sent /\ InOrder'
  BY <1>2 DEF Replies, Sent, InOrder, Dequeued, txVars
<1>5. \A e : Asks(e) => Asks(e)'
  BY <1>2, <1>4 DEF Asks
<1>6. Before(Replies, Entries(inbox'))
      /\ Before(Replies \cup Entries(inbox'), requests')
  BY <1>1, <1>3 DEF ScriptOrder, Before
<1>7. \A e \in Entries(inbox') :
        Asks(e)' \/ (e.id = NoMsg /\ e.msg = Serial!Unknown)
  BY <1>1, <1>3, <1>5 DEF ScriptOrder
<1>8. (\A q \in requests' : Asks(q)')
      /\ (\A p, q \in requests' : Cmd(p) = Cmd(q) => p = q)
  BY <1>1, <1>5 DEF ScriptOrder
<1>9. ScriptOrder'
  BY <1>2, <1>3, <1>4, <1>6, <1>7, <1>8 DEF ScriptOrder
<1>10. DictFollows' /\ RepliesFollow'
  BY <1>2, <1>4, ValuesSame
<1> QED BY <1>4, <1>9, <1>10

\* A reply leaves: it was the first of those that wait.
LEMMA SendScriptInv ==
  ASSUME ScriptInv, Send
  PROVE  ScriptInv'
<1> USE DEF ScriptInv
<1>1. /\ outbox # <<>> /\ outbox' = Tail(outbox)
      /\ wire' = Append(wire, Head(outbox))
      /\ UNCHANGED <<script, cq, txVars, requests, inbox, dict>>
  BY DEF Send, Serial!Send
<1>2. /\ IsSeq(outbox') /\ Ascending(outbox')
      /\ Entries(outbox) = {Head(outbox)} \cup Entries(outbox')
      /\ Before({Head(outbox)}, Entries(outbox'))
  BY <1>1, TailEntries DEF ScriptOrder
<1>3. IsSeq(wire') /\ Entries(wire') = Entries(wire) \cup {Head(outbox)}
  BY <1>1, AppendEntries DEF ScriptOrder
<1>4. Replies' = Replies
  BY <1>2, <1>3 DEF Replies
<1>5. InOrder' /\ Sent' = Sent
  BY <1>1 DEF Sent, InOrder, Dequeued, txVars
<1>6. \A e : Asks(e)' <=> Asks(e)
  BY <1>1, <1>5 DEF Asks
<1>7. Before(Entries(wire'), Entries(outbox'))
  BY <1>2, <1>3 DEF ScriptOrder, Before
<1>8. ScriptOrder'
  BY <1>1, <1>2, <1>3, <1>4, <1>5, <1>6, <1>7 DEF ScriptOrder
<1>9. DictFollows' /\ RepliesFollow'
  BY <1>1, <1>4, ValuesSame
<1> QED BY <1>5, <1>8, <1>9

\* The server executes the first command that waits: whatever it replies, the
\* order stays.
LEMMA ExecuteOrder ==
  ASSUME ScriptInv, Execute
  PROVE  /\ ScriptOrder' /\ InOrder'
         /\ \A e \in Replies : Cmd(e) # 0 /\ Cmd(Head(inbox)) # 0
                                 => Cmd(e) < Cmd(Head(inbox))
<1> USE DEF ScriptInv
<1>1. PICK h : h = Head(inbox)
  OBVIOUS
<1>2. /\ inbox # <<>> /\ inbox' = Tail(inbox)
      /\ UNCHANGED <<script, cq, txVars, requests, wire>>
      /\ \/ outbox' = outbox
         \/ \E text : outbox' = Append(outbox, [id |-> h.id, text |-> text])
  BY <1>1
  DEF Execute, Serial!Execute, Serial!Read, Serial!Write, Serial!Reply,
      clientVars, netVars
<1>3. /\ IsSeq(inbox') /\ Ascending(inbox')
      /\ Entries(inbox) = {h} \cup Entries(inbox')
      /\ Before({h}, Entries(inbox'))
  BY <1>1, <1>2, TailEntries DEF ScriptOrder
<1>4. InOrder' /\ Sent' = Sent /\ Sent \in Int /\ Sent >= 0
  BY <1>2 DEF Sent, InOrder, Dequeued, txVars
<1>5. \A e : Asks(e)' <=> Asks(e)
  BY <1>2, <1>4 DEF Asks
<1>6. Before(Replies, {h}) /\ Before({h}, requests) /\ Cmd(h) \in 0 .. Sent
  <2>1. Asks(h) => Cmd(h) \in 0 .. Sent
    BY <1>4 DEF Asks
  <2>2. h.id = NoMsg => Cmd(h) \in 0 .. Sent
    BY <1>4 DEF Cmd, NoMsg
  <2> QED BY <1>3, <2>1, <2>2 DEF ScriptOrder, Before
<1>7. CASE outbox' = outbox
  <2>1. Replies' = Replies
    BY <1>2, <1>7 DEF Replies
  <2>2. ScriptOrder'
    BY <1>2, <1>3, <1>4, <1>5, <1>7, <2>1 DEF ScriptOrder, Before
  <2> QED BY <1>1, <1>4, <1>6, <2>2 DEF Before
<1>8. ASSUME NEW text, outbox' = Append(outbox, [id |-> h.id, text |-> text])
      PROVE  ScriptOrder'
  <2>1. PICK e : e = [id |-> h.id, text |-> text]
    OBVIOUS
  <2>2. Cmd(e) = Cmd(h)
    BY <2>1 DEF Cmd
  <2>3. Before(Entries(outbox), {e}) /\ Before(Entries(wire), {e})
    BY <1>6, <2>2 DEF Before, Replies
  <2>4. /\ IsSeq(outbox') /\ Ascending(outbox')
        /\ Entries(outbox') = Entries(outbox) \cup {e}
    BY <1>8, <2>1, <2>3, AppendEntries DEF ScriptOrder
  <2>5. Replies' = Replies \cup {e}
    BY <1>2, <2>4 DEF Replies
  <2>6. /\ Before(Entries(wire), Entries(outbox'))
        /\ Before(Replies', Entries(inbox'))
        /\ Before(Replies' \cup Entries(inbox'), requests)
    BY <1>3, <1>6, <2>2, <2>3, <2>4, <2>5 DEF ScriptOrder, Before
  <2>7. \A q \in Replies' : Cmd(q) \in 0 .. Sent
    BY <1>6, <2>2, <2>5 DEF ScriptOrder
  <2> QED BY <1>2, <1>3, <1>4, <1>5, <2>4, <2>6, <2>7 DEF ScriptOrder
<1> QED BY <1>1, <1>2, <1>4, <1>6, <1>7, <1>8 DEF Before

\* A reply that accepts no earlier write to k leaves what was accepted.
LEMMA AcceptedSame ==
  ASSUME NEW e, Replies' = Replies \cup {e}, script' = script, NEW n, NEW k,
         \/ Cmd(e) \notin 1 .. n - 1
         \/ e.text # "WRITE_PASS"
         \/ script[Cmd(e)].kind # "write"
         \/ script[Cmd(e)].key # k
  PROVE  Accepted(n, k)' = Accepted(n, k)
BY DEF Accepted

\* What was told of the other replies and of a key is still so.
LEMMA TellsSame ==
  ASSUME NEW n, NEW k, Accepted(n, k)' = Accepted(n, k), script' = script,
         NEW text, Tells(text, n, k)
  PROVE  Tells(text, n, k)'
BY DEF Tells

\* Nothing replied to before command n changes by a reply to n.
LEMMA RepliesSame ==
  ASSUME ScriptInv, NEW e, Replies' = Replies \cup {e}, script' = script,
         \A q \in Replies : Cmd(q) # 0 /\ Cmd(e) # 0 => Cmd(q) < Cmd(e),
         Cmd(e) \in Int,
         Cmd(e) # 0 /\ script[Cmd(e)].kind = "read"
           /\ script[Cmd(e)].key # EmptyKey
         => Tells(e.text, Cmd(e), script[Cmd(e)].key)
  PROVE  RepliesFollow'
<1> SUFFICES ASSUME NEW q \in Replies', Cmd(q) # 0,
                    script[Cmd(q)].kind = "read",
                    script[Cmd(q)].key # EmptyKey
             PROVE  Tells(q.text, Cmd(q), script[Cmd(q)].key)'
  BY DEF RepliesFollow
<1>1. PICK k : k = script[Cmd(q)].key
  OBVIOUS
<1>2. Tells(q.text, Cmd(q), k)
  BY <1>1 DEF ScriptInv, RepliesFollow
<1>3. Cmd(e) \notin 1 .. Cmd(q) - 1
  <2>1. Cmd(q) \in Int
    BY SentType DEF ScriptInv, ScriptOrder
  <2>2. CASE q = e
    BY <2>1, <2>2
  <2>3. CASE q \in Replies
    BY <2>1, <2>3
  <2> QED BY <2>2, <2>3
<1>4. Tells(q.text, Cmd(q), k)'
  BY <1>2, <1>3, AcceptedSame, TellsSame
<1> QED BY <1>1, <1>4 DEF Tells, Accepted

\* And the dictionary and the reply follow the writes accepted so far.
LEMMA ExecuteScriptInv ==
  ASSUME ScriptInv, Execute
  PROVE  ScriptInv'
<1> USE DEF ScriptInv
<1>1. PICK h : h = Head(inbox)
  OBVIOUS
<1>2. PICK n : n = Cmd(h)
  OBVIOUS
<1>3. /\ ScriptOrder' /\ InOrder'
      /\ \A e \in Replies : Cmd(e) # 0 /\ n # 0 => Cmd(e) < n
  BY <1>1, <1>2, ExecuteOrder
<1>4. h \in Entries(inbox)
  BY <1>1, TailEntries DEF ScriptOrder, Execute, Serial!Execute
<1>5. UNCHANGED <<script, wire>>
  BY DEF Execute, Serial!Execute, clientVars
<1>6. \/ n \in 1 .. Sent /\ h.msg = script[n] /\ script[n] \in Commands
         /\ n \in Nat \ {0} /\ n < MaxCmds + 1
      \/ n = 0 /\ h.msg = Serial!Unknown
  <2>1. CASE Asks(h)
    <3>1. n \in 1 .. Len(script) /\ n \in Nat \ {0} /\ n < MaxCmds + 1
      BY <1>2, <2>1, SentType DEF Asks
    <3>2. script[n] \in Commands
      BY <3>1 DEF InOrder
    <3> QED BY <1>2, <2>1, <3>1, <3>2 DEF Asks
  <2>2. CASE h.id = NoMsg /\ h.msg = Serial!Unknown
    BY <1>2, <2>2 DEF Cmd, NoMsg
  <2> QED BY <1>4, <2>1, <2>2 DEF ScriptOrder
<1>7. n \in Int
  BY <1>6
<1>8. CASE outbox' = outbox /\ dict' = dict
  <2>1. Replies' = Replies
    BY <1>5, <1>8 DEF Replies
  <2> QED BY <1>3, <1>5, <1>8, <2>1, ValuesSame
<1>9. ASSUME NEW text, outbox' = Append(outbox, [id |-> h.id, text |-> text])
      PROVE  \E e : /\ e.text = text /\ Cmd(e) = n
                    /\ Replies' = Replies \cup {e}
  <2>1. PICK e : e = [id |-> h.id, text |-> text]
    OBVIOUS
  <2>2. Entries(outbox') = Entries(outbox) \cup {e}
    BY <1>9, <2>1, AppendEntries DEF ScriptOrder
  <2>3. e.text = text /\ Cmd(e) = n
    BY <1>2, <2>1 DEF Cmd
  <2> QED BY <1>5, <2>2, <2>3 DEF Replies
<1>10. ASSUME NEW k, Serial!Read(h.id, k), n = 0 \/ k = script[n].key,
              n = 0 \/ k \in Keys, n = 0 \/ script[n].kind = "read"
       PROVE  ScriptInv'
  <2>1. PICK text : text = TextOf(dict[k])
    OBVIOUS
  <2>2. outbox' = Append(outbox, [id |-> h.id, text |-> text]) /\ dict' = dict
    BY <1>10, <2>1 DEF Serial!Read, Serial!Reply, TextOf
  <2>3. PICK e : e.text = text /\ Cmd(e) = n /\ Replies' = Replies \cup {e}
    BY <1>9, <2>2
  <2>4. ASSUME NEW m, NEW l PROVE Accepted(m, l)' = Accepted(m, l)
    <3>1. n = 0 => Cmd(e) \notin 1 .. m - 1
      BY <2>3
    <3>2. n # 0 => script[Cmd(e)].kind # "write"
      BY <1>10, <2>3
    <3> QED BY <1>5, <2>3, <3>1, <3>2, AcceptedSame
  <2>5. DictFollows'
    BY <1>5, <2>2, <2>4 DEF DictFollows, Tells
  <2>6. n # 0 /\ k # EmptyKey => Tells(text, n, k)
    <3> SUFFICES ASSUME n # 0, k # EmptyKey PROVE Tells(text, n, k)
      OBVIOUS
    <3>1. Tells(text, MaxCmds + 1, k)
      BY <1>10, <2>1 DEF DictFollows
    <3>2. Accepted(n, k) = Accepted(MaxCmds + 1, k)
      <4>1. ASSUME NEW m \in 1 .. n - 1 PROVE m \in 1 .. (MaxCmds + 1) - 1
        BY <1>6, ClientAssumption
      <4>2. ASSUME NEW m \in 1 .. (MaxCmds + 1) - 1, NEW q \in Replies,
                   Cmd(q) = m
            PROVE  m \in 1 .. n - 1
        BY <1>3, <1>6, <4>2
      <4> QED BY <4>1, <4>2 DEF Accepted
    <3> QED BY <3>1, <3>2 DEF Tells
  <2>7. RepliesFollow'
    <3>1. Cmd(e) # 0 /\ script[Cmd(e)].key # EmptyKey
            => Tells(e.text, Cmd(e), script[Cmd(e)].key)
      BY <1>10, <2>3, <2>6
    <3>2. Cmd(e) \in Int
          /\ \A q \in Replies : Cmd(q) # 0 /\ Cmd(e) # 0 => Cmd(q) < Cmd(e)
      BY <1>3, <1>7, <2>3
    <3> QED BY <1>5, <2>3, <3>1, <3>2, RepliesSame
  <2> QED BY <1>3, <2>5, <2>7
<1>11. ASSUME NEW k, NEW v, Serial!Write(h.id, k, v),
              IF n = 0 THEN k = EmptyKey
              ELSE /\ k = script[n].key /\ v = script[n].val /\ v \in Values
                   /\ k \in Keys /\ script[n].kind = "write"
       PROVE  ScriptInv'
  <2>1. CASE full
    <3>1. /\ outbox' = Append(outbox, [id |-> h.id, text |-> "WRITE_FAIL"])
          /\ dict' = dict
      BY <1>11, <2>1 DEF Serial!Write, Serial!Reply
    <3>2. PICK e : /\ e.text = "WRITE_FAIL" /\ Cmd(e) = n
                   /\ Replies' = Replies \cup {e}
      BY <1>9, <3>1
    <3>3. ASSUME NEW m, NEW l PROVE Accepted(m, l)' = Accepted(m, l)
      BY <1>5, <3>2, AcceptedSame
    <3>4. DictFollows'
      BY <1>5, <3>1, <3>3 DEF DictFollows, Tells
    <3>5. RepliesFollow'
      <4>1. Cmd(e) # 0 => script[Cmd(e)].kind = "write"
        BY <1>11, <3>2
      <4>2. Cmd(e) \in Int
            /\ \A q \in Replies : Cmd(q) # 0 /\ Cmd(e) # 0 => Cmd(q) < Cmd(e)
        BY <1>3, <1>7, <3>2
      <4> QED BY <1>5, <3>2, <4>1, <4>2, RepliesSame
    <3> QED BY <1>3, <3>4, <3>5
  <2>2. CASE ~full
    <3>1. /\ outbox' = Append(outbox, [id |-> h.id, text |-> "WRITE_PASS"])
          /\ dict' = [dict EXCEPT ![k] = v]
      BY <1>11, <2>2 DEF Serial!Write, Serial!Reply
    <3>2. PICK e : /\ e.text = "WRITE_PASS" /\ Cmd(e) = n
                   /\ Replies' = Replies \cup {e}
      BY <1>9, <3>1
    <3>3. RepliesFollow'
      <4>1. Cmd(e) # 0 => script[Cmd(e)].kind = "write"
        BY <1>11, <3>2
      <4>2. Cmd(e) \in Int
            /\ \A q \in Replies : Cmd(q) # 0 /\ Cmd(e) # 0 => Cmd(q) < Cmd(e)
        BY <1>3, <1>7, <3>2
      <4> QED BY <1>5, <3>2, <4>1, <4>2, RepliesSame
    <3>4. dict' = [l \in Keys |-> dict'[l]]
      BY <3>1 DEF DictFollows
    <3>5. ASSUME NEW l \in Keys \ {EmptyKey}
          PROVE  Tells(TextOf(dict[l]), MaxCmds + 1, l)'
      <4>1. CASE n = 0 \/ l # k
        <5>1. dict'[l] = dict[l]
          BY <1>11, <3>1, <4>1 DEF DictFollows
        <5>2. Accepted(MaxCmds + 1, l)' = Accepted(MaxCmds + 1, l)
          <6>1. n = 0 => Cmd(e) \notin 1 .. (MaxCmds + 1) - 1
            BY <3>2
          <6>2. n # 0 => script[Cmd(e)].key # l
            BY <1>11, <3>2, <4>1
          <6> QED BY <1>5, <3>2, <6>1, <6>2, AcceptedSame
        <5>3. PICK text : text = TextOf(dict[l])
          OBVIOUS
        <5>4. Tells(text, MaxCmds + 1, l)
          BY <5>3 DEF DictFollows
        <5>5. Tells(text, MaxCmds + 1, l)'
          BY <1>5, <5>2, <5>4, TellsSame
        <5> QED BY <5>1, <5>3, <5>5 DEF Tells, TextOf
      <4>2. CASE n # 0 /\ l = k
        <5>1. dict'[l] = v /\ v # NoValue /\ v = script'[n].val
          BY <1>5, <1>11, <3>1, <4>2, SystemAssumption DEF DictFollows
        <5>2. n \in Accepted(MaxCmds + 1, l)'
          <6>1. n \in 1 .. (MaxCmds + 1) - 1
            BY <1>6, <4>2, ClientAssumption
          <6> QED BY <1>5, <1>11, <3>2, <4>2, <6>1 DEF Accepted
        <5>3. ASSUME NEW m \in Accepted(MaxCmds + 1, l)' PROVE m <= n
          <6>1. PICK q \in Replies' :
                  Cmd(q) = m /\ m \in 1 .. (MaxCmds + 1) - 1
            BY DEF Accepted
          <6>2. m \in Int /\ m # 0
            BY <6>1
          <6> QED BY <1>3, <1>7, <3>2, <4>2, <6>1, <6>2
        <5>4. TextOf(dict'[l]) = script'[n].val
          BY <5>1 DEF TextOf
        <5> QED BY <5>2, <5>3, <5>4 DEF Tells
      <4> QED BY <4>1, <4>2
    <3>6. DictFollows'
      BY <3>4, <3>5 DEF DictFollows
    <3> QED BY <1>3, <3>3, <3>6
  <2> QED BY <2>1, <2>2
<1>12. CASE n = 0
  <2>1. \/ Serial!Read(h.id, EmptyKey)
        \/ Serial!Write(h.id, EmptyKey, EmptyVal)
        \/ outbox' = outbox /\ dict' = dict
    BY <1>1, <1>6, <1>12 DEF Execute, Serial!Execute, Serial!Unknown
  <2> QED BY <1>8, <1>10, <1>11, <1>12, <2>1
<1>13. CASE n # 0
  <2>1. h.msg = script[n] /\ h.msg \in Serial!Reads \cup Serial!Writes
    BY <1>6, <1>13, SystemAssumption
  <2>2. CASE h.msg \in Serial!Reads
    <3>1. Serial!Read(h.id, h.msg.key) /\ h.msg.key \in Keys
          /\ h.msg.kind = "read"
      BY <1>1, <2>2 DEF Execute, Serial!Execute, Serial!Reads
    <3> QED BY <1>10, <2>1, <3>1
  <2>3. CASE h.msg \in Serial!Writes
    <3>1. Serial!Write(h.id, h.msg.key, h.msg.val) /\ h.msg.key \in Keys
          /\ h.msg.kind = "write" /\ h.msg.val \in Values
      BY <1>1, <2>3 DEF Execute, Serial!Execute, Serial!Writes
    <3> QED BY <1>11, <1>13, <2>1, <3>1
  <2> QED BY <2>1, <2>2, <2>3
<1> QED BY <1>12, <1>13

\* Every other step only adds to the script or takes tx further.
LEMMA ScriptInvStep ==
  ASSUME Orderly, ScriptInv, [Next]_systemVars
  PROVE  ScriptInv'
<1>1. CASE SendTo /\ UNCHANGED srv
  BY <1>1, SendToScriptInv
<1>2. CASE Stranger \/ \E r \in requests : Deliver(r)
  BY <1>2, ArriveScriptInv
<1>3. CASE Execute
  BY <1>3, ExecuteScriptInv
<1>4. CASE Send
  BY <1>4, SendScriptInv
<1>5. CASE (Main \/ Dequeue \/ DrawUid \/ Insert) /\ UNCHANGED srv
  <2>1. requests' = requests
    BY <1>5 DEF Main, Enqueue, Dequeue, DrawUid, Insert, netVars
  <2>2. InOrder'
    BY <1>5, InOrderStep DEF ScriptInv, Tx
  <2>3. Sent' = Sent /\ \A m \in 1 .. Sent : script'[m] = script[m]
    <3> USE DEF ScriptInv, InOrder
    <3>1. CASE Main
      <4>1. PICK cmd \in Commands : Enqueue(cmd)
        BY <3>1 DEF Main
      <4>2. script' = Append(script, cmd) /\ cq' = Append(cq, Len(script'))
            /\ txpc' = txpc
        BY <4>1 DEF Enqueue, txVars
      <4>3. /\ Len(script') = Len(script) + 1 /\ Len(cq') = Len(cq) + 1
            /\ \A m \in 1 .. Len(script) : script'[m] = script[m]
        <5>1. Len(script') \in Nat
          BY <4>2
        <5> QED BY <4>2, <5>1
      <4>4. Sent' = Sent
        BY <4>2, <4>3 DEF Sent, Dequeued
      <4> QED BY <4>3, <4>4, SentType
    <3>2. CASE Dequeue
      <4>1. script' = script /\ cq' = Tail(cq) /\ cq # <<>>
            /\ txpc = "dequeue" /\ txpc' = "uid"
        BY <3>2 DEF Dequeue
      <4>2. Len(cq') = Len(cq) - 1
        BY <4>1
      <4> QED BY <4>1, <4>2 DEF Sent, Dequeued
    <3>3. CASE DrawUid \/ Insert
      BY <3>3 DEF DrawUid, Insert, Sent, Dequeued
    <3> QED BY <1>5, <3>1, <3>2, <3>3
  <2>4. Sent <= Sent'
    BY <2>3, SentType DEF ScriptInv
  <2> QED BY <1>5, <2>1, <2>2, <2>3, <2>4, ScriptInvQuiet
<1>6. CASE UNCHANGED <<script, cq, txVars, requests, srv>>
  <2>1. InOrder' /\ Sent' = Sent
    BY <1>6 DEF ScriptInv, InOrder, Sent, Dequeued, txVars
  <2>2. Sent <= Sent'
    BY <2>1, SentType DEF ScriptInv
  <2> QED BY <1>6, <2>1, <2>2, ScriptInvQuiet
<1>7. \/ SendTo /\ UNCHANGED srv
      \/ Stranger \/ \E r \in requests : Deliver(r)
      \/ Execute \/ Send
      \/ (Main \/ Dequeue \/ DrawUid \/ Insert) /\ UNCHANGED srv
      \/ UNCHANGED <<script, cq, txVars, requests, srv>>
  <2>1. CASE UNCHANGED systemVars
    BY <2>1 DEF systemVars, clientVars, netVars
  <2>2. CASE Rx \/ ((StartRx \/ ReceiveError \/ MapRace) /\ UNCHANGED srv)
    BY <2>2 DEF Rx, RxInside, Receive, Find, Call, Erase, StartRx,
       ReceiveError, MapRace, netVars
  <2> QED BY <2>1, <2>2 DEF Next, ClientSteps, Tx, Network, Lose
<1> QED BY <1>1, <1>2, <1>3, <1>4, <1>5, <1>6, <1>7

\* The order of the replies, on the wire and before, is what the property
\* needs: an earlier write's reply is on the wire when a read's is.
LEMMA ScriptAnswers == ScriptInv => AnswersFollowScript
<1> SUFFICES ASSUME ScriptInv, NEW i \in DOMAIN wire,
                    wire[i].id.cmd # 0,
                    script[wire[i].id.cmd].kind = "read",
                    script[wire[i].id.cmd].key # EmptyKey
             PROVE  wire[i].text
                      = LastValue(wire[i].id.cmd, script[wire[i].id.cmd].key)
  BY DEF AnswersFollowScript
<1> USE DEF ScriptInv
<1>1. PICK n, k : n = wire[i].id.cmd /\ k = script[n].key
  OBVIOUS
<1>2. wire[i] \in Entries(wire) /\ wire[i] \in Replies /\ Cmd(wire[i]) = n
  BY <1>1 DEF Entries, Replies, Cmd
<1>3. n \in Int
  BY <1>2, SentType DEF ScriptOrder
<1>4. Tells(wire[i].text, n, k)
  BY <1>1, <1>2 DEF RepliesFollow
<1>5. Accepted(n, k) = WritesBefore(n, k)
  <2>1. ASSUME NEW m \in 1 .. n - 1, NEW e \in Replies, Cmd(e) = m
        PROVE  e \in Entries(wire)
    <3>1. m < n /\ m # 0 /\ ~(n < m)
      BY <1>3
    <3> QED BY <1>1, <1>2, <2>1, <3>1 DEF ScriptOrder, Before, Replies
  <2>2. ASSUME NEW m \in 1 .. n - 1
        PROVE  (\E e \in Replies : Cmd(e) = m /\ e.text = "WRITE_PASS")
                 <=> \E j \in DOMAIN wire :
                       wire[j].id.cmd = m /\ wire[j].text = "WRITE_PASS"
    BY <2>1 DEF Entries, Replies, Cmd
  <2> QED BY <2>2 DEF Accepted, WritesBefore
<1>6. wire[i].text = LastValue(n, k)
  <2>1. CASE Accepted(n, k) = {}
    BY <1>4, <1>5, <2>1 DEF Tells, LastValue
  <2>2. CASE Accepted(n, k) # {}
    <3>1. PICK m \in Accepted(n, k) :
            (\A l \in Accepted(n, k) : l <= m) /\ wire[i].text = script[m].val
      BY <1>4, <2>2 DEF Tells
    <3>2. \A l \in Accepted(n, k) : l \in Int
      BY DEF Accepted
    <3>3. ASSUME NEW l \in Accepted(n, k), \A j \in Accepted(n, k) : j <= l
          PROVE  l = m
      BY <3>1, <3>2, <3>3
    <3>4. (CHOOSE l \in Accepted(n, k) : \A j \in Accepted(n, k) : j <= l) = m
      BY <3>1, <3>3
    <3> QED BY <1>5, <2>2, <3>1, <3>4 DEF LastValue
  <2> QED BY <2>1, <2>2
<1> QED BY <1>1, <1>6

\* On an orderly network, however far main, tx, rx and the server run ahead of
\* one another, for any script, the answer to each read is that of running the
\* script command by command with the writes that were accepted.
THEOREM OrderlyAnswersFollowScript ==
  ASSUME Orderly
  PROVE  Spec => []AnswersFollowScript
<1>1. ScriptInv /\ [Next]_systemVars => ScriptInv'
  BY ScriptInvStep
<1> QED BY ScriptInvInit, <1>1, ScriptAnswers, PTL DEF Spec
=============================================================================
