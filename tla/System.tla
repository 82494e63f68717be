------------------------------- MODULE System -------------------------------
(***************************************************************************)
(* The client, the network and the server together.  The server is         *)
(* SerialServer, which module Server is shown to implement.  The network   *)
(* is UDP: nothing in the program acknowledges or repeats a datagram, so   *)
(* that it may be lost, repeated or overtaken.                             *)
(***************************************************************************)
EXTENDS Client

CONSTANTS
  Keys, Values, NoValue, EmptyKey, EmptyVal,
  Orderly,      \* the network neither repeats nor reorders nor loses
  MaxArrivals   \* bound: datagrams at the server, without an orderly client's

VARIABLES inbox, dict, full, outbox, wire

srv == <<inbox, dict, full, outbox, wire>>
systemVars == <<clientVars, srv>>

Serial == INSTANCE SerialServer WITH Ids <- IdSet \cup {NoMsg}

\* main's commands are READs and WRITEs, and no value means "no value".
ASSUME SystemAssumption ==
  /\ Commands \subseteq Serial!Reads \cup Serial!Writes
  /\ NoValue \notin Values

Init == ClientInit /\ Serial!Init

Arrived == Len(inbox) + Len(outbox) + Len(wire)

\* A request reaches the server; a copy may stay under way.
Deliver(r) ==
  /\ r \in requests /\ (Orderly \/ Arrived < MaxArrivals)
  /\ Orderly => \A s \in requests : r.id.cmd <= s.id.cmd
  /\ requests' \in (IF Orderly THEN {requests \ {r}}
                    ELSE {requests \ {r}, requests})
  /\ inbox' = Append(inbox, r)
  /\ UNCHANGED <<script, cq, mapVars, txVars, rxVars, replies, calls, running,
                 dict, full, outbox, wire>>

Lose(r) ==
  /\ ~Orderly
  /\ \/ r \in requests /\ requests' = requests \ {r} /\ UNCHANGED replies
     \/ r \in replies /\ replies' = replies \ {r} /\ UNCHANGED requests
  /\ UNCHANGED <<script, cq, mapVars, txVars, rxVars, calls, running, srv>>

\* Somebody else sends the server a command of no known type.
Stranger ==
  /\ Arrived < MaxArrivals
  /\ inbox' = Append(inbox, [id |-> NoMsg, msg |-> Serial!Unknown])
  /\ UNCHANGED <<clientVars, dict, full, outbox, wire>>

Execute == Serial!Execute /\ UNCHANGED clientVars

\* A reply leaves for the address that its request named.
Send ==
  /\ Serial!Send
  /\ replies' = (IF Head(outbox).id = NoMsg THEN replies
                 ELSE replies \cup {Head(outbox)})
  /\ UNCHANGED <<script, cq, mapVars, txVars, rxVars, requests, calls,
                 running>>

Rx ==
  \/ /\ \E r \in replies :
          /\ Receive(r)
          /\ Orderly => \A s \in replies : r.id.cmd <= s.id.cmd
          /\ replies' \in (IF Orderly THEN {replies \ {r}}
                           ELSE {replies \ {r}, replies})
     /\ UNCHANGED srv
  \/ RxInside /\ UNCHANGED srv

Network ==
  \/ \E r \in requests : Deliver(r)
  \/ \E r \in requests \cup replies : Lose(r)

ClientSteps ==
  (Main \/ Tx \/ StartRx \/ ReceiveError \/ MapRace) /\ UNCHANGED srv

Next == ClientSteps \/ Rx \/ Network \/ Stranger \/ Execute \/ Send

\* As built, and when rx has taken its first step before tx takes one.
Spec == Init /\ [][Next]_systemVars
StartedInit == Init /\ rxpc = "recv"
StartedSpec == StartedInit /\ [][Next]_systemVars

\* Every thread of client and server is scheduled, and an orderly network
\* delivers what it is given.
FairSpec ==
  /\ Spec
  /\ WF_systemVars(Tx /\ UNCHANGED srv)
  /\ WF_systemVars(Rx)
  /\ WF_systemVars(\E r \in requests : Deliver(r))
  /\ WF_systemVars(Execute) /\ WF_systemVars(Send)

-----------------------------------------------------------------------------
(* Properties *)

\* The writes of the script to key k before command n that were accepted.
WritesBefore(n, k) ==
  {m \in 1 .. n - 1 :
     /\ script[m].kind = "write" /\ script[m].key = k
     /\ \E i \in DOMAIN wire :
          wire[i].id.cmd = m /\ wire[i].text = "WRITE_PASS"}
LastValue(n, k) ==
  LET ws == WritesBefore(n, k)
  IN IF ws = {} THEN "READ_FAIL"
     ELSE script[CHOOSE m \in ws : \A l \in ws : l <= m].val

\* A client that does not wait for answers still reads what its own last
\* accepted write put there (strangers touch the empty key only): the answers
\* are those of running the script command by command.
AnswersFollowScript ==
  \A i \in DOMAIN wire :
    LET n == wire[i].id.cmd
    IN n # 0 /\ script[n].kind = "read" /\ script[n].key # EmptyKey
         => wire[i].text = LastValue(n, script[n].key)

\* Every command main has read has its callback called, if rx has started,
\* nothing is lost and the unprotected map does not end the client.
AllAnswered ==
  rxpc = "recv" =>
    \A n \in Numbers :
      n \in DOMAIN script
        ~> (~running \/ \E i \in DOMAIN calls : calls[i].callback = n)

=============================================================================
