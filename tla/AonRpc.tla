------------------------------- MODULE AonRpc --------------------------------
(***************************************************************************)
(* The RPC layer: aon_rpc.c, with the order in which main.c registers the  *)
(* services.  The mailbox interrupt dispatches a request: it answers bad   *)
(* ones, calls the service of a high-priority one and queues the others    *)
(* for aon_rpc_process_loop().  Handlers do not nest, so a dispatch is one *)
(* step, but it can come between any two steps of main(): before a service *)
(* is registered, between the two stores of a registration, or while the   *)
(* loop works on another request.                                          *)
(*                                                                         *)
(* The queue is the abstract one of RpcFifo, which RpcQueue implements.    *)
(* A service is its table entry and the size of its acknowledge; what it   *)
(* does is in the modules of the services.  The number of a request stands *)
(* for its data.                                                           *)
(***************************************************************************)
EXTENDS Integers, Sequences, FiniteSets, Functions

CONSTANTS QUEUE_SIZE,
          Kinds,     \* requests without their number, see Request
          MaxReq,    \* bound: number of requests the AP sends
          None

ASSUME RpcAssumption ==
  /\ QUEUE_SIZE \in Nat \ {0} /\ MaxReq \in Nat
  /\ Kinds \subseteq [svc : STRING, func : STRING, size : Nat, version : Nat,
                      ack : {"NEED_ACK", "NO_NEED_ACK"}]

VARIABLES g_rpc_process,  \* the table of services
          boot,           \* [next, at, slot]: the service main() registers next, in
                          \* Services, and where it is with it
          registered,     \* services whose registration has returned
          waiting, busy, answered,  \* the queue, see RpcFifo
          pc,             \* the main loop: "boot", "idle", "taken", "sent", ...
          tx_msg,         \* the reply buffer of the main loop
          count,          \* requests sent so far
          replies,        \* replies the AP got, in their order
          apHung          \* the AP has stopped to do its part

queueVars == <<waiting, busy, answered>>
regVars == <<g_rpc_process, boot, registered>>
vars == <<regVars, queueVars, pc, tx_msg, count, replies, apHung>>

AON_RPC_VERSION == 2
CONFIG_RPC_MAX_MSG_PROCESS == 10
Slots == 1 .. CONFIG_RPC_MAX_MSG_PROCESS

Request == [id : 1 .. MaxReq, svc : STRING, func : STRING, size : Nat,
            version : Nat, ack : {"NEED_ACK", "NO_NEED_ACK"}]

Q == INSTANCE RpcFifo WITH Msg <- Request, Capacity <- QUEUE_SIZE - 1

\* aon_rpc_svc_en as the set of the bits of the number.
Bits(svc) == CASE svc = "PM"   -> {0}
               [] svc = "MISC" -> {1}
               [] svc = "AVFS" -> {0, 1}
               [] svc = "SYS"  -> {2}
               [] svc = "WDG"  -> {0, 2}
               [] svc = "LPM"  -> {1, 2}
               [] OTHER        -> {}

\* The size of the acknowledge a service routine leaves in tx_msg:
\* lpm_dispatch() has none for REQUIRE_STR and functions it does not know.
ack_size(svc, func) == IF svc = "LPM" /\ func \notin {"RESUME_STR", "CPUHP"} THEN 0 ELSE 1

-----------------------------------------------------------------------------
(* Replies.                                                                *)

\* A cleared tx_msg.
Zero == [svc |-> {}, func |-> "", size |-> 0, err |-> "NONE", id |-> 0]

\* RPC_SET_HEAD: the setters of the service number only set bits.
RPC_SET_HEAD(tx, size, svc, func, err) ==
  [svc |-> tx.svc \cup Bits(svc), func |-> func, size |-> size, err |-> err, id |-> tx.id]

\* A routine leaves the data of the request it serves.
SetData(tx, id) == [svc |-> tx.svc, func |-> tx.func, size |-> tx.size, err |-> tx.err, id |-> id]

\* The slots whose routine would handle a request for the service.
Serving(svc) == {i \in Slots : g_rpc_process[i].svc = svc /\ g_rpc_process[i].func # None}

Least(S) == CHOOSE i \in S : \A j \in S : i <= j

\* aon_rpc_msg_process(): the routine of the first slot that matches, which
\* answers with the data of the request, else NOTFOUND.
aon_rpc_msg_process(rx, tx) ==
  IF Serving(rx.svc) = {}
    THEN RPC_SET_HEAD(tx, 1, rx.svc, rx.func, "NOTFOUND")
    ELSE LET routine == g_rpc_process[Least(Serving(rx.svc))].func
         IN  RPC_SET_HEAD(SetData(tx, rx.id), ack_size(routine, rx.func), rx.svc, rx.func, "NONE")

\* The end of a dispatch and of a round of the loop.
Reply(rx, tx) ==
  replies' = IF rx.ack = "NEED_ACK" /\ tx.size # 0
               THEN Append(replies, [rx |-> rx, tx |-> tx]) ELSE replies

-----------------------------------------------------------------------------
(* The mailbox interrupt.                                                  *)

\* Mutant: a second service in the list of low priority.
is_rpc_msg_high_priorityNotWdg(rx) ==
  <<rx.svc, rx.func>> \notin {<<"LPM", "CPUHP">>, <<"WDG", "PING">>}

\* Mutant: no request has low priority.
is_rpc_msg_high_priorityAlways(rx) == TRUE

low_priority_svc_list == {<<"LPM", "CPUHP">>}
is_rpc_msg_high_priority(rx) == <<rx.svc, rx.func>> \notin low_priority_svc_list

BadSize(rx) ==
  /\ rx.size = 0
  /\ Reply(rx, RPC_SET_HEAD(Zero, 1, "UNKNOWN", "", "IPC"))
  /\ UNCHANGED queueVars

BadVersion(rx) ==
  /\ rx.size # 0 /\ rx.version < AON_RPC_VERSION
  /\ Reply(rx, RPC_SET_HEAD(Zero, 1, rx.svc, rx.func, "VERSION"))
  /\ UNCHANGED queueVars

Valid(rx) == rx.size # 0 /\ rx.version >= AON_RPC_VERSION

ServeNow(rx) ==
  /\ Valid(rx) /\ is_rpc_msg_high_priority(rx)
  /\ Reply(rx, aon_rpc_msg_process(rx, Zero))
  /\ UNCHANGED queueVars

\* Mutant: the return after enqueue() is missing.
QueueAndServe(rx) ==
  /\ Valid(rx) /\ ~is_rpc_msg_high_priority(rx)
  /\ Q!Accept(rx)
  /\ Reply(rx, aon_rpc_msg_process(rx, Zero))

\* Mutant: the queue takes one request more than it has room for.
QueueUnguarded(rx) ==
  /\ Valid(rx) /\ ~is_rpc_msg_high_priority(rx)
  /\ waiting' = Append(waiting, rx)
  /\ UNCHANGED <<busy, answered, replies, apHung>>

Queue(rx) ==
  /\ Valid(rx) /\ ~is_rpc_msg_high_priority(rx)
  /\ Q!Accept(rx)
  /\ UNCHANGED replies

\* enqueue() finds the queue full; its result is ignored.
Drop(rx) ==
  /\ Valid(rx) /\ ~is_rpc_msg_high_priority(rx)
  /\ Len(waiting) >= QUEUE_SIZE - 1
  /\ UNCHANGED <<queueVars, replies>>

aon_rpc_dispatch(kind) ==
  LET rx == [id |-> count + 1, svc |-> kind.svc, func |-> kind.func,
             size |-> kind.size, version |-> kind.version, ack |-> kind.ack]
  IN  /\ count < MaxReq /\ ~apHung
      /\ count' = count + 1
      /\ BadSize(rx) \/ BadVersion(rx) \/ ServeNow(rx) \/ Queue(rx) \/ Drop(rx)
      /\ UNCHANGED <<regVars, pc, tx_msg, apHung>>

-----------------------------------------------------------------------------
(* main(): registration of the services, then the loop.                    *)

\* The order of aon_submodule_init(), after aon_rpc_init().
Services == <<"PM", "WDG", "MISC", "SYS", "LPM">>

ASSUME NoneAssumption == None \notin Range(Services) /\ None \notin Request

Init ==
  /\ g_rpc_process = [i \in Slots |-> [svc |-> "UNKNOWN", func |-> None]]
  /\ boot = [next |-> 1, at |-> "find", slot |-> 0]
  /\ registered = {}
  /\ Q!Init
  /\ pc = "boot" /\ tx_msg = Zero /\ count = 0 /\ replies = <<>> /\ apHung = FALSE

Free == {i \in Slots : g_rpc_process[i].func = None}

\* Mutant: the search does not look whether a slot is free.
findSlotAny ==
  /\ pc = "boot" /\ boot.next <= Len(Services) /\ boot.at = "find"
  /\ boot' = [next |-> boot.next, at |-> "svc", slot |-> 1]
  /\ UNCHANGED <<g_rpc_process, registered>>

\* aon_rpc_svc_cb_register(): the first slot without a routine; no service
\* is registered twice ...
findSlot ==
  /\ pc = "boot" /\ boot.next <= Len(Services) /\ boot.at = "find"
  /\ Free # {}
  /\ boot' = [next |-> boot.next, at |-> "svc", slot |-> Least(Free)]
  /\ UNCHANGED <<g_rpc_process, registered>>

\* ... which gets the number of the service ...
storeSvc ==
  /\ pc = "boot" /\ boot.at = "svc"
  /\ g_rpc_process' = [g_rpc_process EXCEPT ![boot.slot] = [svc |-> Services[boot.next], func |-> @.func]]
  /\ boot' = [next |-> boot.next, at |-> "func", slot |-> boot.slot]
  /\ UNCHANGED registered

\* ... and then its routine.
storeFunc ==
  /\ pc = "boot" /\ boot.at = "func"
  /\ g_rpc_process' = [g_rpc_process EXCEPT ![boot.slot] = [svc |-> @.svc, func |-> Services[boot.next]]]
  /\ boot' = [next |-> boot.next + 1, at |-> "find", slot |-> 0]
  /\ registered' = registered \cup {Services[boot.next]}

aon_rpc_svc_cb_register ==
  /\ findSlot \/ storeSvc \/ storeFunc
  /\ UNCHANGED <<queueVars, pc, tx_msg, count, replies, apHung>>

\* The other initialisations between the registrations can fail: main() then
\* spins with the interrupts enabled.
initFails ==
  /\ pc = "boot" /\ boot.at = "find" /\ boot.next <= Len(Services)
  /\ pc' = "failed"
  /\ UNCHANGED <<regVars, queueVars, tx_msg, count, replies, apHung>>

enterLoop ==
  /\ pc = "boot" /\ boot.next > Len(Services)
  /\ pc' = "idle"
  /\ UNCHANGED <<regVars, queueVars, tx_msg, count, replies, apHung>>

\* aon_rpc_process_loop(): dequeue ...
loopTake ==
  /\ pc = "idle" /\ pc' = "taken"
  /\ Q!Take
  /\ UNCHANGED <<regVars, tx_msg, count, replies, apHung>>

\* ... call the service; tx_msg is not cleared between two requests ...
loopProcess ==
  /\ pc = "taken" /\ pc' = "processed"
  /\ tx_msg' = aon_rpc_msg_process(busy, tx_msg)
  /\ UNCHANGED <<regVars, queueVars, count, replies, apHung>>

\* Mutant: the acknowledge type is read from the reply.
loopReplyByTx ==
  /\ pc = "processed" /\ pc' = "idle"
  /\ Reply([busy EXCEPT !.ack = "NO_NEED_ACK"], tx_msg)
  /\ Q!Finish
  /\ UNCHANGED <<regVars, tx_msg, count, apHung>>

\* ... and reply.
loopReply ==
  /\ pc = "processed" /\ pc' = "idle"
  /\ Reply(busy, tx_msg)
  /\ Q!Finish
  /\ UNCHANGED <<regVars, tx_msg, count, apHung>>

aon_rpc_process_loop == loopTake \/ loopProcess \/ loopReply

\* The AP stops to do its part: it sends nothing more, a core that is to be
\* switched off does not become inactive, a reply is not acknowledged.
apHangs ==
  /\ ~apHung /\ apHung' = TRUE
  /\ UNCHANGED <<regVars, queueVars, pc, tx_msg, count, replies>>

\* Nothing left to do: the AP has sent its MaxReq requests or hangs.
Done ==
  /\ count = MaxReq \/ apHung
  /\ pc = "failed" \/ (pc = "idle" /\ waiting = <<>>)
  /\ UNCHANGED vars

Next ==
  \/ \E kind \in Kinds : aon_rpc_dispatch(kind)
  \/ aon_rpc_svc_cb_register \/ initFails \/ enterLoop
  \/ aon_rpc_process_loop
  \/ apHangs \/ Done

main == aon_rpc_svc_cb_register \/ enterLoop \/ aon_rpc_process_loop

\* main() keeps running while the AP does its part.  Nothing is assumed once it
\* hangs: c910_powerdown() waits for the core and csi_mbox_send() for the
\* acknowledge without a limit, in the loop and in the interrupt.
Spec == Init /\ [][Next]_vars /\ WF_vars(~apHung /\ main)

-----------------------------------------------------------------------------
(* What is checked.                                                        *)

\* The type invariant; the queue never holds more than it has room for.
TypeOK ==
  /\ g_rpc_process \in [Slots -> [svc : Range(Services) \cup {"UNKNOWN"},
                                  func : Range(Services) \cup {None}]]
  /\ registered \subseteq Range(Services)
  /\ boot \in [next : 1 .. Len(Services) + 1, at : {"find", "svc", "func"}, slot : Slots \cup {0}]
  /\ Len(waiting) < QUEUE_SIZE
  /\ \A i \in DOMAIN waiting : waiting[i].id \in 1 .. count
  /\ pc \in {"boot", "failed", "idle", "taken", "processed"}
  /\ pc \in {"taken", "processed"} <=> busy # None
  /\ apHung \in BOOLEAN

\* Whenever a request comes, a slot with a routine has the number of that
\* routine's service, and every service whose registration has returned has
\* exactly one slot: no request reaches the routine of another service.
TableConsistent ==
  /\ \A i \in Slots : g_rpc_process[i].func \in {None, g_rpc_process[i].svc}
  /\ \A s \in registered : Cardinality(Serving(s)) = 1

\* A request that is well-formed is answered with its own service number,
\* function and data, although the loop builds its replies in a buffer that
\* it never clears and whose setters only set bits.
ReplyMatches ==
  \A i \in DOMAIN replies :
    LET rx == replies[i].rx  tx == replies[i].tx
    IN  rx.size # 0 => /\ tx.svc = Bits(rx.svc) /\ tx.func = rx.func
                       /\ tx.err = "NONE" => tx.id = rx.id

\* No request is answered twice, and none that asked for no answer, wherever
\* the interrupt meets the loop.
AnsweredAtMostOnce ==
  /\ \A i, j \in DOMAIN replies : replies[i].rx.id = replies[j].rx.id => i = j
  /\ \A i \in DOMAIN replies : replies[i].rx.ack = "NEED_ACK"

\* A queued request that asks for an answer gets it, also one that came
\* before its service was registered, unless an initialisation fails, after
\* which the queue is never served, or the AP hangs, which the loop waits for.
QueuedIsAnswered ==
  \A id \in 1 .. MaxReq :
    (\E i \in DOMAIN waiting : waiting[i].id = id /\ waiting[i].ack = "NEED_ACK")
      ~> \/ \E i \in DOMAIN replies : replies[i].rx.id = id
         \/ pc = "failed" \/ apHung

\* A request for CPUHP is never answered NOTFOUND: it waits in the queue
\* until the loop runs, when lpm_dispatch() is registered.
CpuhpIsFound ==
  \A i \in DOMAIN replies :
    /\ <<replies[i].rx.svc, replies[i].rx.func>> \in low_priority_svc_list
    /\ Valid(replies[i].rx)
    => replies[i].tx.err = "NONE"
=============================================================================
