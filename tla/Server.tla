------------------------------- MODULE Server -------------------------------
(***************************************************************************)
(* The server process: five threads, the four queues between them, and the *)
(* request contexts that travel through (host/connection_handler.cpp,      *)
(* enclave/io_stage.cpp, enclave/memtable_stage.cpp, host/host.cpp), on    *)
(* top of the store as the program builds it (module KVStore, no flusher). *)
(*                                                                         *)
(*   rx --> input --> memtable --> output --> tx                           *)
(*                                                                         *)
(* A queue is named for the thread that pops it; push and pop are single   *)
(* steps, which is what module AtomicQueue is shown to implement.  A       *)
(* thread's work on the context it holds touches nothing shared and is     *)
(* part of the step that pops or pushes it.  end_signal is never set, so   *)
(* that every stage loops for ever.                                        *)
(***************************************************************************)
EXTENDS KVStore

CONSTANTS
  EmptyKey,            \* the empty string, as a key
  Ctxs, NoCtx,         \* the addresses of request contexts
  QueueCap,            \* slots of a queue; the code asks for 1024
  MaxRecv              \* bound: datagrams received in a run

ASSUME ServerAssumption ==
  /\ EmptyKey \in Keys /\ NoCtx \notin Ctxs
  /\ QueueCap \in Nat \ {0} /\ MaxRecv \in Nat
  /\ ~SemaBound

VARIABLES
  heap,      \* the contexts: RequestContext, or Free
  queue,     \* queue[t]: the contexts waiting for thread t
  hand,      \* hand[t]: the context thread t is working on, or NoCtx
  received,  \* how many datagrams rx has taken
  wire,      \* history: the replies sent
  leaked     \* history: the datagrams whose original_body is never freed

ends == <<received, wire, leaked>>
pipeVars == <<heap, queue, hand, ends>>
serverVars == <<vars, pipeVars>>

Threads == {"rx", "input", "memtable", "output", "tx"}
Consumers == Threads \ {"rx"}

\* What a datagram asks for.  Unknown has a type or a number of operands that
\* the input stage does not handle; the body of Garbage is not a NetCommand.
Reads == [kind : {"read"}, key : Keys]
Writes == [kind : {"write"}, key : Keys, val : Values]
Unknown == [kind |-> "unknown"]
Garbage == [kind |-> "garbage"]
Messages == Reads \cup Writes \cup {Unknown, Garbage}

Reply(text) == [kind |-> "reply", text |-> text]
Texts == Values \cup {"READ_FAIL", "WRITE_PASS", "WRITE_FAIL"}
Replies == [kind : {"reply"}, text : Texts]

Free == [kind |-> "free"]
Uninit == [op |-> "uninit"]
Allocated == {c \in Ctxs : heap[c] # Free}

ServerInit ==
  /\ Init
  /\ heap = [c \in Ctxs |-> Free]
  /\ queue = [t \in Consumers |-> <<>>] /\ hand = [t \in Threads |-> NoCtx]
  /\ received = 0 /\ wire = <<>> /\ leaked = {}

-----------------------------------------------------------------------------
Pop(t) ==
  /\ alive /\ hand[t] = NoCtx /\ queue[t] # <<>>
  /\ queue' = [queue EXCEPT ![t] = Tail(@)]

Take(t) == Pop(t) /\ hand' = [hand EXCEPT ![t] = Head(queue[t])]

\* Mutant: push does not wait for a free slot.
PushAtOnce(t, to) ==
  /\ alive /\ hand[t] # NoCtx
  /\ queue' = [queue EXCEPT ![to] = Append(@, hand[t])]
  /\ hand' = [hand EXCEPT ![t] = NoCtx]

Push(t, to) ==
  /\ alive /\ hand[t] # NoCtx /\ Len(queue[to]) < QueueCap
  /\ queue' = [queue EXCEPT ![to] = Append(@, hand[t])]
  /\ hand' = [hand EXCEPT ![t] = NoCtx]

LetGo(t) == hand' = [hand EXCEPT ![t] = NoCtx]

(* rx: init_net_rx.  A datagram that is no NetRequest is skipped. *)

\* The address new returns: contexts are compared for identity only, so that
\* it does not matter which of the free ones it is.
Fresh == CHOOSE c \in Ctxs : heap[c] = Free

\* client_seqno and the reply address are only copied: the datagram's number
\* stands for them.  The context's body is not initialized.
RxRecv(msg) ==
  /\ alive /\ hand["rx"] = NoCtx /\ received < MaxRecv /\ Allocated # Ctxs
  /\ received' = received + 1
  /\ heap' = [heap EXCEPT ![Fresh] =
       [kind |-> "ctx", id |-> received', original_body |-> msg,
        body |-> Uninit]]
  /\ hand' = [hand EXCEPT !["rx"] = Fresh]
  /\ UNCHANGED <<vars, queue, wire, leaked>>

\* recvfrom fails: the string of msg_buff and -1 bytes cannot be made, and
\* nothing catches what its constructor throws.
RxFail ==
  /\ alive /\ hand["rx"] = NoCtx
  /\ alive' = FALSE
  /\ UNCHANGED <<mtVars, wVars, fVars, flush_sema, closing, pipeVars>>

RxPush == Push("rx", "input") /\ UNCHANGED <<vars, heap, ends>>

(* input: enclave_input_stage *)

\* The command built for a message; its type is not initialized unless the
\* message is a READ or a WRITE.
CmdOf(msg) ==
  CASE msg.kind = "read" -> [op |-> "get", key |-> msg.key]
    [] msg.kind = "write" -> [op |-> "put", key |-> msg.key, val |-> msg.val]
    [] msg.kind = "unknown" -> Uninit

InputPop ==
  /\ Take("input")
  /\ LET c == Head(queue["input"])
     IN /\ heap[c].original_body # Garbage
        /\ heap' = [heap EXCEPT ![c].body = CmdOf(heap[c].original_body)]
  /\ UNCHANGED <<vars, ends>>

\* The body does not parse: free() of the uninitialized ctx->body is either
\* harmless or ends what can be said of the process, and the context is
\* neither passed on nor freed, nor is what it points to.
InputDrop ==
  /\ Pop("input")
  /\ heap[Head(queue["input"])].original_body = Garbage
  /\ alive' \in BOOLEAN
  /\ leaked' = leaked \cup {heap[Head(queue["input"])].id}
  /\ UNCHANGED <<mtVars, wVars, fVars, flush_sema, closing,
                 heap, hand, received, wire>>

InputPush ==
  Push("input", "memtable") /\ UNCHANGED <<vars, heap, ends>>

(* memtable: enclave_memtable_stage *)

MemPop == Take("memtable") /\ UNCHANGED <<vars, heap, ends>>

Held(t) == heap[hand[t]]

\* Get or Put is called, by the command's type: any type, when that was not
\* initialized, with operands that were left empty.
MemCall ==
  /\ hand["memtable"] # NoCtx
  /\ LET cmd == Held("memtable").body
     IN \/ cmd.op = "get" /\ GetCall(cmd.key)
        \/ cmd.op = "put" /\ PutCall(cmd.key, cmd.val)
        \/ cmd.op = "uninit" /\ GetCall(EmptyKey)
        \/ cmd.op = "uninit" /\ PutCall(EmptyKey, EmptyVal)
  /\ UNCHANGED pipeVars

\* Mutant: the "continue" is missing, the deleted context is passed on.
MemDropGoesOn ==
  /\ WorkerAt("idle")
  /\ hand["memtable"] # NoCtx /\ Held("memtable").body.op = "uninit"
  /\ heap' = [heap EXCEPT ![hand["memtable"]] = Free]
  /\ Push("memtable", "output")
  /\ UNCHANGED <<vars, ends>>

\* DROP: neither type.  The context is deleted, and neither the request nor
\* the command that it points to is freed.
MemDrop ==
  /\ WorkerAt("idle")
  /\ hand["memtable"] # NoCtx /\ Held("memtable").body.op = "uninit"
  /\ heap' = [heap EXCEPT ![hand["memtable"]] = Free]
  /\ leaked' = leaked \cup {Held("memtable").id}
  /\ LetGo("memtable")
  /\ UNCHANGED <<vars, queue, received, wire>>

MemStep == Inside /\ UNCHANGED pipeVars

\* Mutant: a refused write is not answered.
MemPushSilent ==
  /\ Answered
  /\ IF ret.status = "WAIT_FLUSH" THEN LetGo("memtable") /\ UNCHANGED queue
     ELSE Push("memtable", "output")
  /\ heap' = [heap EXCEPT ![hand["memtable"]].body = ret]
  /\ UNCHANGED ends

\* The call has returned: the command is freed, the result takes its place.
MemPush ==
  /\ Answered
  /\ heap' = [heap EXCEPT ![hand["memtable"]].body = ret]
  /\ Push("memtable", "output")
  /\ UNCHANGED ends

(* output: enclave_output_stage *)

\* Mutant: every write is acknowledged.
TextPass(r) ==
  CASE r.status = "READ_PASS" -> r.val
    [] r.status = "READ_FAIL" -> "READ_FAIL"
    [] OTHER -> "WRITE_PASS"

Text(r) ==
  CASE r.status = "READ_FAIL" -> "READ_FAIL"
    [] r.status = "READ_PASS" -> r.val
    [] r.status = "WRITE_PASS" -> "WRITE_PASS"
    [] OTHER -> "WRITE_FAIL"

\* The reply overwrites the request in original_body.
OutPop ==
  /\ Take("output")
  /\ LET c == Head(queue["output"])
     IN heap' = [heap EXCEPT ![c].original_body = Reply(Text(heap[c].body)),
                             ![c].body = Uninit]
  /\ UNCHANGED <<vars, ends>>

OutPush == Push("output", "tx") /\ UNCHANGED <<vars, heap, ends>>

(* tx: init_net_tx *)

TxPop == Take("tx") /\ UNCHANGED <<vars, heap, ends>>

TxSend ==
  /\ alive /\ hand["tx"] # NoCtx
  /\ wire' = Append(wire, [id |-> Held("tx").id,
                           text |-> Held("tx").original_body.text])
  /\ heap' = [heap EXCEPT ![hand["tx"]] = Free]
  /\ LetGo("tx")
  /\ UNCHANGED <<vars, queue, received, leaked>>

-----------------------------------------------------------------------------
Input == InputPop \/ InputDrop \/ InputPush
Memtable == MemPop \/ MemCall \/ MemDrop \/ MemStep \/ MemPush
Output == OutPop \/ OutPush
Tx == TxPop \/ TxSend

ServerNext ==
  \/ \E msg \in Messages : RxRecv(msg)
  \/ RxFail \/ RxPush \/ Input \/ Memtable \/ Output \/ Tx

ServerSpec == ServerInit /\ [][ServerNext]_serverVars

\* Each stage is a thread of its own: it is scheduled again and again.
ThreadsRun ==
  /\ WF_serverVars(RxPush) /\ WF_serverVars(Input)
  /\ WF_serverVars(Memtable) /\ WF_serverVars(Output) /\ WF_serverVars(Tx)
FairServerSpec == ServerSpec /\ ThreadsRun

-----------------------------------------------------------------------------
(* Properties *)

InHand(t) == IF hand[t] = NoCtx THEN <<>> ELSE <<hand[t]>>

\* The contexts in the pipeline, oldest first, before the store has executed
\* their commands.
Executed == Written \/ wpc = "return"
Before ==
  (IF Executed THEN <<>> ELSE InHand("memtable"))
    \o queue["memtable"] \o InHand("input") \o queue["input"] \o InHand("rx")

\* And after that.
Done ==
  InHand("tx") \o queue["tx"] \o InHand("output") \o queue["output"]
    \o (IF Executed THEN InHand("memtable") ELSE <<>>)

\* What a context asks for, and what its reply says or will say.
RequestOf(c) == [id |-> heap[c].id, msg |-> heap[c].original_body]
ReplyTo(c) ==
  [id |-> heap[c].id,
   text |-> IF heap[c].original_body \in Replies
            THEN heap[c].original_body.text
            ELSE Text(IF c = hand["memtable"] THEN Result ELSE heap[c].body)]

ServerTypeOK ==
  /\ TypeOK
  /\ heap \in [Ctxs -> {Free} \cup
       [kind : {"ctx"}, id : 1 .. MaxRecv,
        original_body : Messages \cup Replies,
        body : Puts \cup Gets \cup Returns \cup {Uninit}]]
  /\ queue \in [Consumers -> Seq(Ctxs)]
  /\ \A t \in Consumers : Len(queue[t]) <= QueueCap
  /\ hand \in [Threads -> Ctxs \cup {NoCtx}]
  /\ received \in 0 .. MaxRecv /\ Len(wire) <= received
  /\ leaked \subseteq 1 .. MaxRecv

\* A context has one owner: it is in one hand or in one place of one queue,
\* nothing in the pipeline has been freed, and an allocated context that is
\* nowhere is one whose body did not parse, and what it points to has leaked
\* with it.  (With the types, and what the queues can hold.)
Pipeline == Done \o Before
OneOwner ==
  /\ ServerTypeOK
  /\ \A i, j \in DOMAIN Pipeline : Pipeline[i] = Pipeline[j] => i = j
  /\ \A i \in DOMAIN Pipeline : heap[Pipeline[i]] # Free
  /\ \A c \in Allocated :
       \/ \E i \in DOMAIN Pipeline : Pipeline[i] = c
       \/ heap[c].original_body = Garbage /\ heap[c].id \in leaked

\* Five threads and four queues behave as one loop that executes commands in
\* the order of arrival and answers each of them once, in that order.
Serial == INSTANCE SerialServer WITH
  Ids <- 1 .. MaxRecv,
  inbox <- [i \in DOMAIN Before |-> RequestOf(Before[i])],
  dict <- [k \in Keys |-> Lookup(k)],
  full <- Full,
  outbox <- [i \in DOMAIN Done |-> ReplyTo(Done[i])]
ImplementsSerialServer == Serial!Spec

\* Every request whose body parses leaves the server, as long as it lives.
AllLeave ==
  \A c \in Ctxs :
    (c \in Allocated /\ heap[c].original_body # Garbage)
      ~> (c \notin Allocated \/ ~alive)

-----------------------------------------------------------------------------
(* Claims of the repository that the code does not keep *)

\* connection_handler.cpp:68: "ctx will be deleted on the consumer side".  A
\* context that has left the pipeline has been deleted, in a process that lives.
DeletedByConsumer ==
  alive => \A c \in Allocated : \E i \in DOMAIN Pipeline : Pipeline[i] = c
=============================================================================
