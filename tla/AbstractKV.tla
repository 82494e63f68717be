----------------------------- MODULE AbstractKV -----------------------------
(***************************************************************************)
(* What the key-value store promises the stage that calls it: a dictionary *)
(* that answers one call at a time (KVStore::Put, KVStore::Get), takes     *)
(* effect once per call, and from some write on refuses all others.        *)
(***************************************************************************)
CONSTANTS Keys, Values, NoValue

VARIABLES
  dict,   \* the value of each key, NoValue if it has none
  full,   \* whether writes are refused
  call,   \* the call in progress
  ans     \* its answer, once there is one

NoReq == [op |-> "none"]
NoRet == [status |-> "none", val |-> NoValue]
Answer(status, v) == ans' = [status |-> status, val |-> v]

Init ==
  /\ dict = [k \in Keys |-> NoValue]
  /\ full = FALSE /\ call = NoReq /\ ans = NoRet

Call ==
  /\ call = NoReq
  /\ call' \in [op : {"put"}, key : Keys, val : Values]
               \cup [op : {"get"}, key : Keys]
  /\ UNCHANGED <<dict, full, ans>>

Accept ==
  /\ call.op = "put" /\ ans = NoRet /\ ~full
  /\ dict' = [dict EXCEPT ![call.key] = call.val]
  /\ full' \in BOOLEAN
  /\ Answer("WRITE_PASS", NoValue)
  /\ UNCHANGED call

Refuse ==
  /\ call.op = "put" /\ ans = NoRet /\ full
  /\ Answer("WAIT_FLUSH", NoValue)
  /\ UNCHANGED <<dict, full, call>>

Read ==
  /\ call.op = "get" /\ ans = NoRet
  /\ Answer(IF dict[call.key] = NoValue THEN "READ_FAIL" ELSE "READ_PASS",
            dict[call.key])
  /\ UNCHANGED <<dict, full, call>>

Done ==
  /\ ans # NoRet
  /\ call' = NoReq /\ ans' = NoRet
  /\ UNCHANGED <<dict, full>>

Next == Call \/ Accept \/ Refuse \/ Read \/ Done
Spec == Init /\ [][Next]_<<dict, full, call, ans>>
=============================================================================
