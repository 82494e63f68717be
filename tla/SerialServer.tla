---------------------------- MODULE SerialServer ----------------------------
(***************************************************************************)
(* What the server promises its clients: commands are executed one at a    *)
(* time, in the order in which the server received them, on one            *)
(* dictionary, and the replies leave in the same order, one for each READ  *)
(* or WRITE.  Only two things may go unanswered: a command of no known     *)
(* type, which may instead be taken for one on the empty key, and a        *)
(* datagram that is no command, which is thrown away wherever it waits.    *)
(***************************************************************************)
EXTENDS Naturals, Sequences

CONSTANTS Keys, Values, NoValue, EmptyKey, EmptyVal, Ids

VARIABLES
  inbox,   \* datagrams received and not executed
  dict,    \* the value of each key, NoValue if it has none
  full,    \* whether writes are refused
  outbox,  \* replies not sent
  wire     \* replies sent

serialVars == <<inbox, dict, full, outbox, wire>>

Reads == [kind : {"read"}, key : Keys]
Writes == [kind : {"write"}, key : Keys, val : Values]
Unknown == [kind |-> "unknown"]
Garbage == [kind |-> "garbage"]
Requests == [id : Ids, msg : Reads \cup Writes \cup {Unknown, Garbage}]

Init ==
  /\ inbox = <<>> /\ outbox = <<>> /\ wire = <<>>
  /\ dict = [k \in Keys |-> NoValue] /\ full = FALSE

Accept ==
  /\ \E r \in Requests : inbox' = Append(inbox, r)
  /\ UNCHANGED <<dict, full, outbox, wire>>

Reply(id, text) == outbox' = Append(outbox, [id |-> id, text |-> text])

Read(id, k) ==
  /\ Reply(id, IF dict[k] = NoValue THEN "READ_FAIL" ELSE dict[k])
  /\ UNCHANGED <<dict, full>>

Write(id, k, v) ==
  IF full
  THEN Reply(id, "WRITE_FAIL") /\ UNCHANGED <<dict, full>>
  ELSE /\ Reply(id, "WRITE_PASS")
       /\ dict' = [dict EXCEPT ![k] = v] /\ full' \in BOOLEAN

Discard ==
  /\ \E i \in DOMAIN inbox :
       /\ inbox[i].msg = Garbage
       /\ inbox' = SubSeq(inbox, 1, i - 1)
                     \o SubSeq(inbox, i + 1, Len(inbox))
  /\ UNCHANGED <<dict, full, outbox, wire>>

Execute ==
  /\ inbox # <<>> /\ inbox' = Tail(inbox)
  /\ UNCHANGED wire
  /\ LET id == Head(inbox).id
         msg == Head(inbox).msg
     IN \/ msg.kind = "read" /\ Read(id, msg.key)
        \/ msg.kind = "write" /\ Write(id, msg.key, msg.val)
        \/ msg.kind = "unknown" /\ Read(id, EmptyKey)
        \/ msg.kind = "unknown" /\ Write(id, EmptyKey, EmptyVal)
        \/ msg.kind = "unknown" /\ UNCHANGED <<dict, full, outbox>>

Send ==
  /\ outbox # <<>>
  /\ wire' = Append(wire, Head(outbox)) /\ outbox' = Tail(outbox)
  /\ UNCHANGED <<inbox, dict, full>>

Next == Accept \/ Discard \/ Execute \/ Send
Spec == Init /\ [][Next]_serialVars
=============================================================================
