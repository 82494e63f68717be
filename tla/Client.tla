------------------------------- MODULE Client -------------------------------
(***************************************************************************)
(* The client (src/src/client/client.cpp): main reads commands and queues  *)
(* them, tx gives each a uid, registers its callback in callback_map and   *)
(* sends it, rx receives replies and calls the callback of the uid they    *)
(* carry.  tx and rx share uid_cnt and callback_map; nothing protects the  *)
(* map.                                                                    *)
(*                                                                         *)
(* The datagrams under way are two sets, requests and replies; what        *)
(* happens to them is up to the module that composes the client with a     *)
(* network and a server.  end_signal is never set, so that tx and rx loop  *)
(* for ever.                                                               *)
(***************************************************************************)
EXTENDS Naturals, Sequences

CONSTANTS
  Commands,  \* the READs and WRITEs main can be given
  MaxCmds    \* bound: how many commands the input holds

ASSUME ClientAssumption == MaxCmds \in Nat

VARIABLES
  script,        \* history: the commands main has read
  cq,            \* the queue from main to tx: numbers of commands in script
  uid_cnt,       \* the next uid
  callback_map,  \* the number of the command whose callback a uid has
  txpc, txreq, txuid,  \* tx: next step, the command in hand, its uid
  rxpc, msg_buff,      \* rx: next step, and the datagram in its buffer
  requests, replies,   \* datagrams sent to the server, and to the client
  calls,         \* history: the callbacks called, and with which reply
  running        \* FALSE once the process has ended

txVars == <<txpc, txreq, txuid>>
rxVars == <<rxpc, msg_buff>>
mapVars == <<uid_cnt, callback_map>>
netVars == <<requests, replies>>
clientVars == <<script, cq, mapVars, txVars, rxVars, netVars, calls, running>>

Numbers == 1 .. MaxCmds
Uids == 0 .. MaxCmds - 1

\* A reply carries the id of its request.  Only the uid is in the datagram;
\* the number of the command tells for whom the server meant it.
IdSet == [uid : Uids, cmd : Numbers]
NoMsg == [uid |-> 0, cmd |-> 0]   \* what the new char[] holds is not known

Registered == {u \in Uids : callback_map[u] # 0}

\* main starts rx before tx, and nothing makes tx wait for rx's first step:
\* the two values of rxpc are the two ways this can go.
ClientInit ==
  /\ script = <<>> /\ cq = <<>> /\ running = TRUE
  /\ uid_cnt = 0 /\ callback_map = [u \in Uids |-> 0]
  /\ txpc = "dequeue" /\ txreq = 0 /\ txuid = 0
  /\ rxpc \in {"start", "recv"} /\ msg_buff = [id |-> NoMsg]
  /\ requests = {} /\ replies = {} /\ calls = <<>>

TxAt(pc) == running /\ txpc = pc
RxAt(pc) == running /\ rxpc = pc

-----------------------------------------------------------------------------
(* main *)

Enqueue(cmd) ==
  /\ running /\ Len(script) < MaxCmds
  /\ script' = Append(script, cmd)
  /\ cq' = Append(cq, Len(script'))
  /\ UNCHANGED <<mapVars, txVars, rxVars, netVars, calls, running>>

(* tx: init_net_tx *)

\* Mutant: the newest command is sent first.
DequeueNewest ==
  /\ TxAt("dequeue") /\ cq # <<>>
  /\ txreq' = cq[Len(cq)] /\ cq' = SubSeq(cq, 1, Len(cq) - 1)
  /\ txpc' = "uid"
  /\ UNCHANGED <<script, mapVars, txuid, rxVars, netVars, calls, running>>

Dequeue ==
  /\ TxAt("dequeue") /\ cq # <<>>
  /\ txreq' = Head(cq) /\ cq' = Tail(cq)
  /\ txpc' = "uid"
  /\ UNCHANGED <<script, mapVars, txuid, rxVars, netVars, calls, running>>

\* Mutant: the counter is read and not advanced.
DrawUidKeeps ==
  /\ TxAt("uid")
  /\ txuid' = uid_cnt /\ txpc' = "insert"
  /\ UNCHANGED <<script, cq, mapVars, txreq, rxVars, netVars, calls, running>>

DrawUid ==
  /\ TxAt("uid")
  /\ txuid' = uid_cnt /\ uid_cnt' = uid_cnt + 1
  /\ txpc' = "insert"
  /\ UNCHANGED <<script, cq, callback_map, txreq, rxVars, netVars, calls,
                 running>>

Insert ==
  /\ TxAt("insert")
  /\ callback_map' = [callback_map EXCEPT ![txuid] = txreq]
  /\ txpc' = "send"
  /\ UNCHANGED <<script, cq, uid_cnt, txreq, txuid, rxVars, netVars, calls,
                 running>>

SendTo ==
  /\ TxAt("send")
  /\ requests' = requests \cup {[id |-> [uid |-> txuid, cmd |-> txreq],
                                 msg |-> script[txreq]]}
  /\ txpc' = "dequeue"
  /\ UNCHANGED <<script, cq, mapVars, txreq, txuid, rxVars, replies, calls,
                 running>>

(* rx: init_net_rx and reply_to_caller *)

\* The socket is bound, and then the counter is set to 0.
StartRx ==
  /\ RxAt("start")
  /\ uid_cnt' = 0 /\ rxpc' = "recv"
  /\ UNCHANGED <<script, cq, callback_map, txVars, msg_buff, netVars, calls,
                 running>>

\* A datagram is taken from the network, which may still hold a copy.
Receive(r) ==
  /\ RxAt("recv") /\ r \in replies
  /\ msg_buff' = r /\ rxpc' = "find"
  /\ UNCHANGED <<script, cq, mapVars, txVars, requests, calls, running>>

\* Mutant: uid 0 is taken for a datagram that atoll could not parse.
FindNoZero ==
  /\ RxAt("find")
  /\ rxpc' = (IF msg_buff.id.uid \in Registered \ {0} THEN "call" ELSE "recv")
  /\ UNCHANGED <<script, cq, mapVars, txVars, msg_buff, netVars, calls,
                 running>>

\* reply_to_caller: a reply of no registered uid is ignored.
Find ==
  /\ RxAt("find")
  /\ rxpc' = (IF msg_buff.id.uid \in Registered THEN "call" ELSE "recv")
  /\ UNCHANGED <<script, cq, mapVars, txVars, msg_buff, netVars, calls,
                 running>>

Call ==
  /\ RxAt("call")
  /\ calls' = Append(calls, [callback |-> callback_map[msg_buff.id.uid],
                             reply |-> msg_buff])
  /\ rxpc' = "erase"
  /\ UNCHANGED <<script, cq, mapVars, txVars, msg_buff, netVars, running>>

\* Mutant: the callback stays registered.
EraseNot ==
  /\ RxAt("erase") /\ rxpc' = "recv"
  /\ UNCHANGED <<script, cq, mapVars, txVars, msg_buff, netVars, calls,
                 running>>

Erase ==
  /\ RxAt("erase")
  /\ callback_map' = [callback_map EXCEPT ![msg_buff.id.uid] = 0]
  /\ rxpc' = "recv"
  /\ UNCHANGED <<script, cq, uid_cnt, txVars, msg_buff, netVars, calls,
                 running>>

\* recvfrom fails and its result -1 is not looked at: the buffer still holds
\* the last reply, or nothing known.  If its uid is registered, a string of
\* length -1 is asked for and the exception ends the process.
ReceiveError ==
  /\ RxAt("recv")
  /\ IF msg_buff.id = NoMsg THEN Registered # {}
     ELSE msg_buff.id.uid \in Registered
  /\ running' = FALSE
  /\ UNCHANGED <<script, cq, mapVars, txVars, rxVars, netVars, calls>>

\* tx inserts into the map while rx searches it or erases from it: besides
\* the two orders of the steps, the process may end.
MapRace ==
  /\ TxAt("insert") /\ RxAt(rxpc) /\ rxpc \in {"find", "erase"}
  /\ running' = FALSE
  /\ UNCHANGED <<script, cq, mapVars, txVars, rxVars, netVars, calls>>

-----------------------------------------------------------------------------
Main == \E cmd \in Commands : Enqueue(cmd)
Tx == Dequeue \/ DrawUid \/ Insert \/ SendTo
RxInside == Find \/ Call \/ Erase

-----------------------------------------------------------------------------
(* Properties *)

\* A callback is called with a reply to its own request, whatever the network
\* does to the datagrams.
RightCallback ==
  \A i \in DOMAIN calls : calls[i].callback = calls[i].reply.id.cmd

\* And it is called once, though replies may be repeated.
OnceEach ==
  \A i, j \in DOMAIN calls : calls[i].callback = calls[j].callback => i = j
=============================================================================
