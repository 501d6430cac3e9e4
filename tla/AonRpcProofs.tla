---------------------------- MODULE AonRpcProofs -----------------------------
(***************************************************************************)
(* Proofs about the RPC layer, for every queue size, every set of kinds of *)
(* requests and any number of them.  Three invariants build on each other: *)
(* what the table looks like at each point of a registration (TableInv),   *)
(* where each request is (PlaceInv), and what the reply buffer of the main *)
(* loop and the replies hold (BufferInv).                                  *)
(***************************************************************************)
EXTENDS AonRpc, FiniteSetTheorems, WellFoundedInduction, TLAPS

-----------------------------------------------------------------------------
(* The table of services.                                                  *)

\* A set of slots that is not empty has a first one.
LEMMA LeastIs == ASSUME NEW T \in SUBSET Nat, T # {} PROVE Least(T) \in T
<1> DEFINE Less == {ss \in Nat \X Nat : ss[1] < ss[2]}
<1>1. IsWellFoundedOn(Less, Nat)
  BY NatLessThanWellFounded, Zenon DEF OpToRel
<1>2. PICK n \in T : \A m \in T : ~(<<m, n>> \in Less)
  BY <1>1, WFMin, ZenonT(60)
<1>3. \A m \in T : ~(m < n)
  BY <1>2, ZenonT(60)
<1>4. \A m \in T : n <= m
  BY <1>3
<1> QED BY <1>4, ZenonT(60) DEF Least

\* The five services are different, and LPM is the last one.
LEMMA ServiceFacts ==
  /\ Len(Services) = 5 /\ DOMAIN Services = 1 .. 5
  /\ \A m, n \in 1 .. 5 : Services[m] = Services[n] => m = n
  /\ Services[5] = "LPM"
  /\ Range(Services) = {Services[n] : n \in 1 .. 5}
  /\ \A n \in 1 .. 5 : Services[n] \in Range(Services)
<1>1. Len(Services) = 5 /\ DOMAIN Services = 1 .. 5
  BY DEF Services
<1>2. \A m, n \in 1 .. 5 : Services[m] = Services[n] => m = n
  BY DEF Services
<1>3. Services[5] = "LPM"
  BY DEF Services
<1>4. Range(Services) = {Services[n] : n \in 1 .. 5}
  BY <1>1 DEF Range
<1> QED BY <1>1, <1>2, <1>3, <1>4

TableType ==
  /\ g_rpc_process \in [Slots -> [svc : Range(Services) \cup {"UNKNOWN"},
                                  func : Range(Services) \cup {None}]]
  /\ boot \in [next : 1 .. 6, at : {"find", "svc", "func"}, slot : Slots \cup {0}]
  /\ pc \in {"boot", "failed", "idle", "taken", "processed"}

\* Each registered service has one slot and no other has a routine; the slot
\* a registration works on has no routine yet; the loop runs after the last
\* registration.
TableInv ==
  /\ TableType
  /\ registered = {Services[n] : n \in 1 .. boot.next - 1}
  /\ \A i \in Slots : g_rpc_process[i].func \in {None, g_rpc_process[i].svc}
  /\ \A i \in Slots : g_rpc_process[i].func \in registered \cup {None}
  /\ \A s \in registered : \E i \in Slots : g_rpc_process[i].func = s
  /\ \A i, j \in Slots : g_rpc_process[i].func = g_rpc_process[j].func /\ g_rpc_process[i].func # None => i = j
  /\ boot.at # "find" => boot.next <= 5 /\ boot.slot \in Slots /\ g_rpc_process[boot.slot].func = None
  /\ boot.at = "func" => g_rpc_process[boot.slot].svc = Services[boot.next]
  /\ pc \in {"idle", "taken", "processed"} => boot.next = 6

LEMMA TableInit == Init => TableInv
BY ServiceFacts, NoneAssumption DEF Init, TableInv, TableType, Slots, CONFIG_RPC_MAX_MSG_PROCESS

LEMMA TableStep == TableInv /\ [Next]_vars => TableInv'
<1> SUFFICES ASSUME TableInv, [Next]_vars PROVE TableInv'
  BY ZenonT(60)
<1> USE ServiceFacts, NoneAssumption
<1>1. ASSUME NEW kind \in Kinds, aon_rpc_dispatch(kind) PROVE TableInv'
  BY <1>1 DEF aon_rpc_dispatch, regVars, TableInv, TableType
<1>2. CASE findSlot /\ UNCHANGED pc
  <2>1. Free \in SUBSET Nat /\ Free \subseteq Slots
    BY DEF Free, Slots
  <2>2. Least(Free) \in Free
    BY <1>2, <2>1, LeastIs DEF findSlot
  <2>3. Least(Free) \in Slots /\ g_rpc_process[Least(Free)].func = None
    BY <2>2 DEF Free
  <2> QED BY <1>2, <2>3 DEF findSlot, TableInv, TableType
<1>3. CASE storeSvc /\ UNCHANGED pc
  <2> DEFINE k == boot.slot
  <2>1. k \in Slots /\ boot.next \in 1 .. 5 /\ g_rpc_process[k].func = None
    BY <1>3 DEF storeSvc, TableInv, TableType
  <2>2. boot'.next = boot.next /\ boot'.at = "func" /\ boot'.slot = k /\ registered' = registered /\ pc' = pc
    BY <1>3 DEF storeSvc
  <2>3. boot' \in [next : 1 .. 6, at : {"find", "svc", "func"}, slot : Slots \cup {0}]
    BY <1>3, <2>1 DEF storeSvc
  <2>4. g_rpc_process' = [g_rpc_process EXCEPT ![k] = [svc |-> Services[boot.next], func |-> None]]
    BY <1>3, <2>1 DEF storeSvc, TableInv, TableType
  <2>5. /\ g_rpc_process'[k].svc = Services[boot.next] /\ g_rpc_process'[k].func = None
        /\ \A i \in Slots \ {k} : g_rpc_process'[i] = g_rpc_process[i]
        /\ g_rpc_process' \in [Slots -> [svc : Range(Services) \cup {"UNKNOWN"},
                                         func : Range(Services) \cup {None}]]
    BY <2>1, <2>4 DEF TableInv, TableType
  <2>6. \A i \in Slots : g_rpc_process'[i].func = g_rpc_process[i].func
    BY <2>1, <2>5, ZenonT(60)
  <2> HIDE DEF k
  <2>7. TableType'
    BY <2>2, <2>3, <2>5 DEF TableInv, TableType
  <2>8. \A i \in Slots : g_rpc_process'[i].func \in {None, g_rpc_process'[i].svc}
    BY <2>1, <2>5 DEF TableInv
  <2>9. pc' \in {"idle", "taken", "processed"} => boot'.next = 6
    BY <2>2 DEF TableInv
  <2>10. boot'.next <= 5 /\ boot'.slot \in Slots /\ g_rpc_process'[boot'.slot].func = None
    BY <2>1, <2>2, <2>5
  <2>11. g_rpc_process'[boot'.slot].svc = Services[boot'.next]
    BY <2>2, <2>5
  <2>12. registered' = {Services[m] : m \in 1 .. boot'.next - 1}
    BY <2>2 DEF TableInv
  <2>13. \A i \in Slots : g_rpc_process'[i].func \in registered' \cup {None}
    BY <2>2, <2>6 DEF TableInv
  <2>14. \A s \in registered' : \E i \in Slots : g_rpc_process'[i].func = s
    <3> TAKE s \in registered'
    <3>1. PICK i \in Slots : g_rpc_process[i].func = s
      BY <2>2, ZenonT(60) DEF TableInv
    <3> QED BY <2>6, <3>1
  <2>15. \A i, j \in Slots : g_rpc_process'[i].func = g_rpc_process'[j].func /\ g_rpc_process'[i].func # None => i = j
    BY <2>6 DEF TableInv
  <2> QED BY <2>7, <2>8, <2>9, <2>10, <2>11, <2>12, <2>13, <2>14, <2>15, ZenonT(60) DEF TableInv
<1>4. CASE storeFunc /\ UNCHANGED pc
  <2> DEFINE k == boot.slot
             n == boot.next
  <2>1. k \in Slots /\ n \in 1 .. 5 /\ g_rpc_process[k].func = None /\ g_rpc_process[k].svc = Services[n]
    BY <1>4 DEF storeFunc, TableInv, TableType
  <2>2. /\ boot'.next = n + 1 /\ boot'.at = "find" /\ pc' = pc
        /\ registered' = registered \cup {Services[n]}
    BY <1>4 DEF storeFunc
  <2>3. boot' \in [next : 1 .. 6, at : {"find", "svc", "func"}, slot : Slots \cup {0}]
    BY <1>4, <2>1, SMTT(60) DEF storeFunc
  <2>4. g_rpc_process' = [g_rpc_process EXCEPT ![k] = [svc |-> Services[n], func |-> Services[n]]]
    BY <1>4, <2>1, ZenonT(60) DEF storeFunc, TableInv, TableType
  <2>5. /\ g_rpc_process'[k].svc = Services[n] /\ g_rpc_process'[k].func = Services[n]
        /\ \A i \in Slots \ {k} : g_rpc_process'[i] = g_rpc_process[i]
        /\ g_rpc_process' \in [Slots -> [svc : Range(Services) \cup {"UNKNOWN"},
                                         func : Range(Services) \cup {None}]]
    BY <2>1, <2>4, ZenonT(60) DEF TableInv, TableType
  <2>6. Services[n] \notin registered /\ Services[n] # None
    BY <2>1 DEF TableInv
  <2>7. registered' = {Services[m] : m \in 1 .. boot'.next - 1}
    BY <2>1, <2>2 DEF TableInv
  <2> HIDE DEF k, n
  <2>8. TableType'
    BY <2>2, <2>3, <2>5 DEF TableInv, TableType
  <2>9. pc' \notin {"idle", "taken", "processed"}
    BY <1>4, ZenonT(60) DEF storeFunc
  <2>10. \A i \in Slots : g_rpc_process'[i].func \in {None, g_rpc_process'[i].svc}
    BY <2>1, <2>5, ZenonT(60) DEF TableInv
  <2>11. \A i \in Slots : g_rpc_process'[i].func \in registered' \cup {None}
    BY <2>1, <2>2, <2>5 DEF TableInv
  <2>12. \A s \in registered' : \E i \in Slots : g_rpc_process'[i].func = s
    <3> TAKE s \in registered'
    <3>1. CASE s = Services[n]
      BY <2>1, <2>5, <3>1
    <3>2. CASE s # Services[n]
      <4>1. PICK i \in Slots : g_rpc_process[i].func = s
        BY <2>2, <3>2 DEF TableInv
      <4>2. s # None
        BY <2>2, <3>2 DEF TableInv, TableType
      <4> QED BY <2>1, <2>5, <4>1, <4>2
    <3> QED BY <3>1, <3>2
  <2>13. \A i \in Slots \ {k} : g_rpc_process'[i].func # Services[n]
    BY <2>5, <2>6 DEF TableInv
  <2>14. \A i, j \in Slots : g_rpc_process'[i].func = g_rpc_process'[j].func /\ g_rpc_process'[i].func # None => i = j
    BY <2>1, <2>5, <2>13 DEF TableInv
  <2> QED BY <2>2, <2>7, <2>8, <2>9, <2>10, <2>11, <2>12, <2>14, ZenonT(60) DEF TableInv
<1>5. CASE initFails
  BY <1>5 DEF initFails, regVars, TableInv, TableType
<1>6. CASE enterLoop
  BY <1>6 DEF enterLoop, regVars, TableInv, TableType
<1>7. CASE aon_rpc_process_loop
  <2>1. /\ UNCHANGED regVars
        /\ pc \in {"idle", "taken", "processed"} /\ pc' \in {"idle", "taken", "processed"}
    BY <1>7 DEF aon_rpc_process_loop, loopTake, loopProcess, loopReply
  <2> QED BY <2>1 DEF regVars, TableInv, TableType
<1>8. CASE apHangs \/ UNCHANGED vars
  <2>1. UNCHANGED <<g_rpc_process, boot, registered, pc>>
    BY <1>8, ZenonT(60) DEF apHangs, vars, regVars
  <2> QED BY <2>1 DEF TableInv, TableType
<1> QED BY <1>1, <1>2, <1>3, <1>4, <1>5, <1>6, <1>7, <1>8, ZenonT(60)
        DEF Next, aon_rpc_svc_cb_register, Done

\* TableInv is more than TableConsistent.
LEMMA TableMeaning == TableInv => TableConsistent
<1> SUFFICES ASSUME TableInv PROVE TableConsistent
  OBVIOUS
<1>1. ASSUME NEW s \in registered PROVE Cardinality(Serving(s)) = 1
  <2>1. PICK i \in Slots : g_rpc_process[i].func = s
    BY DEF TableInv
  <2>2. s # None
    BY ServiceFacts, NoneAssumption DEF TableInv, TableType
  <2>3. Serving(s) = {i}
    BY <2>1, <2>2 DEF TableInv, Serving
  <2> QED BY <2>3, FS_Singleton, ZenonT(60)
<1> QED BY <1>1 DEF TableInv, TableConsistent

\* At every point of boot and of the main loop where a request can come, a
\* slot with a routine has the number of its service, and a service whose
\* registration has returned has exactly one slot (aon_rpc_svc_cb_register).
THEOREM TableHolds == Spec => []TableConsistent
BY TableInit, TableStep, TableMeaning, PTL DEF Spec

-----------------------------------------------------------------------------
(* Where each request is.                                                  *)

Errors == {"NONE", "NOTFOUND", "VERSION", "IPC"}
TxType == [svc : SUBSET Nat, func : STRING \cup {""}, size : 0 .. 1, err : Errors, id : Nat]
Answer == [rx : Request, tx : TxType]

\* A request for the queue.
Low(rx) == Valid(rx) /\ ~is_rpc_msg_high_priority(rx)

LEMMA RequestId ==
  /\ \A r \in Request : r.id \in Nat /\ r.id >= 1
  /\ \A a \in Answer : a.rx \in Request
BY RpcAssumption DEF Request, Answer

LEMMA BitsType == \A svc : Bits(svc) \in SUBSET Nat
<1> TAKE svc
<1>1. \/ Bits(svc) = {0} \/ Bits(svc) = {1} \/ Bits(svc) = {0, 1} \/ Bits(svc) = {2}
      \/ Bits(svc) = {0, 2} \/ Bits(svc) = {1, 2} \/ Bits(svc) = {}
  BY Zenon DEF Bits
<1>2. \A i \in Bits(svc) : i \in Nat
  BY <1>1
<1> QED BY <1>2

LEMMA ZeroType == Zero \in TxType
BY DEF Zero, TxType, Errors

LEMMA HeadType ==
  ASSUME NEW tx \in TxType, NEW size \in 0 .. 1, NEW svc, 
         NEW func \in STRING \cup {""}, NEW err \in Errors
  PROVE  RPC_SET_HEAD(tx, size, svc, func, err) \in TxType
<1>1. tx.svc \cup Bits(svc) \in SUBSET Nat /\ tx.id \in Nat
  BY BitsType, ZenonT(60) DEF TxType
<1> QED BY <1>1, ZenonT(60) DEF RPC_SET_HEAD, TxType

\* aon_rpc_msg_process() with its two outcomes.
LEMMA ProcessFacts ==
  ASSUME NEW rx \in Request, NEW tx \in TxType, NEW r, r = aon_rpc_msg_process(rx, tx)
  PROVE  /\ r \in TxType
         /\ r.svc = tx.svc \cup Bits(rx.svc) /\ r.func = rx.func
         /\ r.err = "NONE" => r.id = rx.id
         /\ Serving(rx.svc) # {} => r.err = "NONE"
<1>0. rx.func \in STRING /\ rx.id \in Nat
  BY DEF Request
<1>1. rx.func \in STRING \cup {""} /\ rx.id \in Nat
  BY <1>0, Zenon
<1>4. 1 \in 0 .. 1
  OBVIOUS
<1>5. "NOTFOUND" \in Errors /\ "NONE" \in Errors
  BY DEF Errors
<1>2. CASE Serving(rx.svc) = {}
  <2>1. r = RPC_SET_HEAD(tx, 1, rx.svc, rx.func, "NOTFOUND")
    BY <1>2 DEF aon_rpc_msg_process
  <2>2. r \in TxType
    BY <1>1, <1>4, <1>5, <2>1, HeadType, Zenon
  <2> QED BY <1>2, <2>1, <2>2 DEF RPC_SET_HEAD
<1>3. CASE Serving(rx.svc) # {}
  <2> DEFINE data == SetData(tx, rx.id)
             size == ack_size(g_rpc_process[Least(Serving(rx.svc))].func, rx.func)
  <2>1. r = RPC_SET_HEAD(data, size, rx.svc, rx.func, "NONE")
    BY <1>3 DEF aon_rpc_msg_process
  <2>2. data \in TxType
    BY <1>1, ZenonT(60) DEF SetData, TxType
  <2>3. size \in 0 .. 1
    BY DEF ack_size
  <2>4. data.svc = tx.svc /\ data.id = rx.id
    BY DEF SetData
  <2> HIDE DEF data, size
  <2>5. r \in TxType
    BY <1>1, <1>4, <1>5, <2>1, <2>2, <2>3, HeadType, Zenon
  <2> QED BY <2>1, <2>4, <2>5 DEF RPC_SET_HEAD
<1> QED BY <1>2, <1>3

\* What a reply adds to the replies.
LEMMA ReplyFacts ==
  ASSUME NEW rx \in Request, NEW tx \in TxType, replies \in Seq(Answer), Reply(rx, tx)
  PROVE  /\ replies' \in Seq(Answer)
         /\ \A i \in DOMAIN replies' :
              \/ i \in DOMAIN replies /\ replies'[i] = replies[i]
              \/ /\ i = Len(replies) + 1 /\ i \notin DOMAIN replies /\ rx.ack = "NEED_ACK"
                 /\ replies'[i].rx = rx /\ replies'[i].tx = tx
<1> DEFINE a == [rx |-> rx, tx |-> tx]
<1>1. a \in Answer /\ a.rx = rx /\ a.tx = tx
  BY DEF Answer
<1>2. replies' = replies \/ (rx.ack = "NEED_ACK" /\ replies' = Append(replies, a))
  BY DEF Reply
<1> HIDE DEF a
<1> QED BY <1>1, <1>2, SMTT(60)

\* A request has its own number, and is in one place: it waits, is in work, or
\* has been answered.
PlaceInv ==
  /\ count \in 0 .. MaxReq
  /\ waiting \in Seq(Request) /\ Len(waiting) < QUEUE_SIZE
  /\ busy \in Request \cup {None}
  /\ pc \in {"taken", "processed"} <=> busy # None
  /\ tx_msg \in TxType
  /\ replies \in Seq(Answer)
  /\ apHung \in BOOLEAN
  /\ \A i \in DOMAIN waiting : waiting[i].id <= count /\ Low(waiting[i])
  /\ \A i, j \in DOMAIN waiting : waiting[i].id = waiting[j].id => i = j
  /\ \A i \in DOMAIN replies : replies[i].rx.id <= count
  /\ AnsweredAtMostOnce
  /\ \A i \in DOMAIN waiting, j \in DOMAIN replies : waiting[i].id # replies[j].rx.id
  /\ busy # None => /\ busy.id <= count /\ Low(busy)
                    /\ \A i \in DOMAIN waiting : waiting[i].id # busy.id
                    /\ \A j \in DOMAIN replies : replies[j].rx.id # busy.id

LEMMA PlaceInit == Init => PlaceInv
<1> SUFFICES ASSUME Init PROVE PlaceInv
  OBVIOUS
<1>1. /\ waiting = <<>> /\ replies = <<>> /\ busy = None /\ pc = "boot" /\ count = 0
      /\ tx_msg = Zero /\ apHung = FALSE
  BY DEF Init, Q!Init
<1>2. apHung \in BOOLEAN
  BY <1>1, Zenon
<1>3. count \in 0 .. MaxReq /\ Len(waiting) < QUEUE_SIZE /\ waiting \in Seq(Request) /\ replies \in Seq(Answer)
  BY <1>1, RpcAssumption
<1>4. DOMAIN waiting = {} /\ DOMAIN replies = {}
  BY <1>1
<1>5. pc \notin {"taken", "processed"}
  BY <1>1
<1> QED BY <1>1, <1>2, <1>3, <1>4, <1>5, ZeroType, ZenonT(60) DEF PlaceInv, AnsweredAtMostOnce

\* A reply to a request that has none keeps what is said of the replies.
LEMMA ReplyPlace ==
  ASSUME PlaceInv, count' \in Nat, count <= count',
         NEW rx \in Request, NEW tx \in TxType, Reply(rx, tx),
         rx.id <= count', \A j \in DOMAIN replies : replies[j].rx.id # rx.id
  PROVE  /\ replies' \in Seq(Answer) /\ AnsweredAtMostOnce'
         /\ \A i \in DOMAIN replies' : replies'[i].rx.id <= count'
         /\ \A n : /\ n # rx.id
                   /\ \A j \in DOMAIN replies : replies[j].rx.id # n
                   => \A j \in DOMAIN replies' : replies'[j].rx.id # n
<1>1. /\ replies \in Seq(Answer) /\ AnsweredAtMostOnce /\ count \in Nat
      /\ \A i \in DOMAIN replies : replies[i].rx.id <= count
  BY RpcAssumption DEF PlaceInv
<1>2. \A i \in DOMAIN replies : replies[i].rx.id \in Nat
  <2>1. \A i \in DOMAIN replies : replies[i] \in Answer
    BY <1>1
  <2> QED BY <2>1, RequestId
<1>3. /\ replies' \in Seq(Answer)
      /\ \A i \in DOMAIN replies' :
           \/ i \in DOMAIN replies /\ replies'[i] = replies[i]
           \/ /\ i = Len(replies) + 1 /\ i \notin DOMAIN replies /\ rx.ack = "NEED_ACK"
              /\ replies'[i].rx = rx /\ replies'[i].tx = tx
  BY <1>1, ReplyFacts
<1>4. \A i \in DOMAIN replies' : replies'[i].rx.id <= count'
  BY <1>1, <1>2, <1>3, SMTT(60)
<1>5. AnsweredAtMostOnce'
  <2>1. \A i \in DOMAIN replies' : replies'[i].rx.ack = "NEED_ACK"
    BY <1>1, <1>3 DEF AnsweredAtMostOnce
  <2>2. ASSUME NEW i \in DOMAIN replies', NEW j \in DOMAIN replies',
               replies'[i].rx.id = replies'[j].rx.id
        PROVE  i = j
    <3>1. CASE i \in DOMAIN replies /\ j \in DOMAIN replies
      BY <1>1, <1>3, <2>2, <3>1, Zenon DEF AnsweredAtMostOnce
    <3>2. CASE i \notin DOMAIN replies \/ j \notin DOMAIN replies
      BY <1>3, <2>2, <3>2
    <3> QED BY <3>1, <3>2
  <2> QED BY <2>1, <2>2 DEF AnsweredAtMostOnce
<1>6. \A n : /\ n # rx.id
             /\ \A j \in DOMAIN replies : replies[j].rx.id # n
             => \A j \in DOMAIN replies' : replies'[j].rx.id # n
  BY <1>3
<1> QED BY <1>3, <1>4, <1>5, <1>6, ZenonT(60)

LEMMA ImmediateTypes ==
  ASSUME NEW rx \in Request
  PROVE  /\ RPC_SET_HEAD(Zero, 1, "UNKNOWN", "", "IPC") \in TxType
         /\ RPC_SET_HEAD(Zero, 1, rx.svc, rx.func, "VERSION") \in TxType
         /\ aon_rpc_msg_process(rx, Zero) \in TxType
<1>1. rx.func \in STRING
  BY DEF Request
<1>2. 1 \in 0 .. 1 /\ "IPC" \in Errors /\ "VERSION" \in Errors
  BY DEF Errors
<1>3. rx.func \in STRING \cup {""} /\ "" \in STRING \cup {""}
  BY <1>1, Zenon
<1>4. aon_rpc_msg_process(rx, Zero) \in TxType
  BY ZeroType, ProcessFacts, Zenon
<1> QED BY <1>2, <1>3, <1>4, ZeroType, HeadType, Zenon

LEMMA DispatchPlace ==
  ASSUME PlaceInv, NEW kind \in Kinds, aon_rpc_dispatch(kind)
  PROVE  PlaceInv'
<1> DEFINE rx == [id |-> count + 1, svc |-> kind.svc, func |-> kind.func,
                  size |-> kind.size, version |-> kind.version, ack |-> kind.ack]
<1>1. /\ count \in 0 .. MaxReq /\ count < MaxReq /\ count' = count + 1
      /\ BadSize(rx) \/ BadVersion(rx) \/ ServeNow(rx) \/ Queue(rx) \/ Drop(rx)
      /\ UNCHANGED <<pc, tx_msg, apHung>>
  BY DEF aon_rpc_dispatch, PlaceInv
<1>2. rx \in Request /\ rx.id = count + 1
  BY <1>1, RpcAssumption DEF Request
<1> HIDE DEF rx
<1>3. count' \in 0 .. MaxReq /\ count' \in Nat /\ count \in Nat /\ count <= count' /\ rx.id <= count'
  BY <1>1, <1>2, RpcAssumption
<1>4. /\ \A i \in DOMAIN waiting : waiting[i] \in Request /\ waiting[i].id \in Nat
      /\ \A j \in DOMAIN replies : replies[j].rx.id \in Nat
      /\ busy # None => busy \in Request /\ busy.id \in Nat
  <2>1. /\ waiting \in Seq(Request) /\ replies \in Seq(Answer) /\ busy \in Request \cup {None}
    BY DEF PlaceInv
  <2>2. /\ \A i \in DOMAIN waiting : waiting[i] \in Request
        /\ \A j \in DOMAIN replies : replies[j] \in Answer
    BY <2>1
  <2> QED BY <2>1, <2>2, RequestId
<1>5. /\ \A i \in DOMAIN waiting : waiting[i].id <= count' /\ waiting[i].id # rx.id
      /\ \A j \in DOMAIN replies : replies[j].rx.id <= count' /\ replies[j].rx.id # rx.id
      /\ busy # None => busy.id <= count' /\ busy.id # rx.id
  <2>1. /\ \A i \in DOMAIN waiting : waiting[i].id <= count
        /\ \A j \in DOMAIN replies : replies[j].rx.id <= count
        /\ busy # None => busy.id <= count
    BY DEF PlaceInv
  <2> QED BY <1>1, <1>2, <1>3, <1>4, <2>1, SMTT(60)
<1>6. ASSUME NEW tx \in TxType, Reply(rx, tx), UNCHANGED queueVars
      PROVE  PlaceInv'
  <2>1. /\ replies' \in Seq(Answer) /\ AnsweredAtMostOnce'
        /\ \A i \in DOMAIN replies' : replies'[i].rx.id <= count'
        /\ \A n : /\ n # rx.id
                  /\ \A j \in DOMAIN replies : replies[j].rx.id # n
                  => \A j \in DOMAIN replies' : replies'[j].rx.id # n
    BY <1>2, <1>3, <1>5, <1>6, ReplyPlace, ZenonT(60)
  <2>2. UNCHANGED <<waiting, busy, apHung, pc, tx_msg>>
    BY <1>1, <1>6 DEF queueVars
  <2>3. \A i \in DOMAIN waiting, j \in DOMAIN replies' : waiting[i].id # replies'[j].rx.id
    BY <1>5, <2>1, ZenonT(60) DEF PlaceInv
  <2>4. busy # None => \A j \in DOMAIN replies' : replies'[j].rx.id # busy.id
    BY <1>5, <2>1, ZenonT(60) DEF PlaceInv
  <2>5. \A i \in DOMAIN waiting : waiting[i].id <= count' /\ Low(waiting[i])
    BY <1>5 DEF PlaceInv
  <2> QED BY <1>3, <1>5, <2>1, <2>2, <2>3, <2>4, <2>5, ZenonT(60) DEF PlaceInv, Low, Valid, is_rpc_msg_high_priority
<1>7. CASE BadSize(rx) \/ BadVersion(rx) \/ ServeNow(rx)
  BY <1>2, <1>6, <1>7, ImmediateTypes, ZenonT(60) DEF BadSize, BadVersion, ServeNow
<1>8. CASE Queue(rx)
  <2>1. /\ waiting' = Append(waiting, rx) /\ Len(waiting) < QUEUE_SIZE - 1 /\ Low(rx)
        /\ UNCHANGED <<busy, replies, apHung, pc, tx_msg>>
    BY <1>1, <1>8 DEF Queue, Q!Accept, Low
  <2>2. /\ waiting \in Seq(Request) /\ waiting' \in Seq(Request) /\ Len(waiting') < QUEUE_SIZE
        /\ \A i \in DOMAIN waiting' :
              \/ i \in DOMAIN waiting /\ waiting'[i] = waiting[i]
              \/ i = Len(waiting) + 1 /\ i \notin DOMAIN waiting /\ waiting'[i] = rx
    BY <1>2, <2>1, RpcAssumption, SMTT(60) DEF PlaceInv
  <2>3. \A i \in DOMAIN waiting' : waiting'[i].id <= count' /\ Low(waiting'[i])
    BY <1>3, <1>5, <2>1, <2>2, ZenonT(60) DEF PlaceInv
  <2>4. \A i, j \in DOMAIN waiting' : waiting'[i].id = waiting'[j].id => i = j
    BY <1>5, <2>2, ZenonT(60) DEF PlaceInv
  <2>5. \A i \in DOMAIN waiting', j \in DOMAIN replies : waiting'[i].id # replies[j].rx.id
    BY <1>5, <2>2, SMTT(60) DEF PlaceInv
  <2>6. busy # None => \A i \in DOMAIN waiting' : waiting'[i].id # busy.id
    BY <1>5, <2>2, ZenonT(60) DEF PlaceInv
  <2>7. AnsweredAtMostOnce'
    BY <2>1, ZenonT(60) DEF PlaceInv, AnsweredAtMostOnce
  <2> QED BY <1>3, <1>5, <2>1, <2>2, <2>3, <2>4, <2>5, <2>6, <2>7, ZenonT(60)
       DEF PlaceInv, Low, Valid, is_rpc_msg_high_priority
<1>9. CASE Drop(rx)
  <2>1. UNCHANGED <<waiting, busy, replies, apHung, pc, tx_msg>>
    BY <1>1, <1>9, ZenonT(60) DEF Drop, queueVars
  <2>2. AnsweredAtMostOnce'
    BY <2>1, ZenonT(60) DEF PlaceInv, AnsweredAtMostOnce
  <2> QED BY <1>3, <1>5, <2>1, <2>2 DEF PlaceInv, Low, Valid, is_rpc_msg_high_priority
<1> QED BY <1>1, <1>7, <1>8, <1>9, ZenonT(60)

LEMMA TakePlace == PlaceInv /\ loopTake => PlaceInv'
<1> SUFFICES ASSUME PlaceInv, loopTake PROVE PlaceInv'
  OBVIOUS
<1>1. /\ waiting \in Seq(Request) /\ waiting # <<>> /\ busy' = Head(waiting)
      /\ waiting' = Tail(waiting) /\ pc' = "taken"
      /\ UNCHANGED <<tx_msg, count, replies, apHung>>
  BY DEF loopTake, Q!Take, PlaceInv
<1>2. /\ waiting' \in Seq(Request) /\ Len(waiting') < Len(waiting) /\ Len(waiting') \in Nat
      /\ 1 \in DOMAIN waiting /\ busy' = waiting[1] /\ busy' \in Request
      /\ \A i \in DOMAIN waiting' : i + 1 \in DOMAIN waiting /\ waiting'[i] = waiting[i + 1] /\ i \in Nat \ {0}
  <2>1. /\ Len(waiting) \in Nat /\ Len(waiting) >= 1 /\ DOMAIN waiting = 1 .. Len(waiting)
        /\ waiting' \in Seq(Request) /\ Len(waiting') = Len(waiting) - 1
        /\ DOMAIN waiting' = 1 .. Len(waiting')
    BY <1>1
  <2>2. busy' = waiting[1] /\ busy' \in Request
    BY <1>1, <2>1
  <2>3. \A i \in DOMAIN waiting' : i + 1 \in DOMAIN waiting /\ waiting'[i] = waiting[i + 1] /\ i \in Nat \ {0}
    BY <1>1, <2>1
  <2> QED BY <2>1, <2>2, <2>3
<1>3. busy' # None
  BY <1>2, NoneAssumption
<1>4. Len(waiting') < QUEUE_SIZE
  BY <1>1, <1>2, RpcAssumption DEF PlaceInv
<1>5. \A i \in DOMAIN waiting' : waiting'[i].id <= count /\ Low(waiting'[i])
  BY <1>2, ZenonT(60) DEF PlaceInv
<1>6. \A i, j \in DOMAIN waiting' : waiting'[i].id = waiting'[j].id => i = j
  <2> SUFFICES ASSUME NEW i \in DOMAIN waiting', NEW j \in DOMAIN waiting',
                      waiting'[i].id = waiting'[j].id
               PROVE  i = j
    OBVIOUS
  <2>1. \A a, b \in DOMAIN waiting : waiting[a].id = waiting[b].id => a = b
    BY DEF PlaceInv
  <2> DEFINE k == i + 1  n == j + 1
  <2>2. /\ k \in DOMAIN waiting /\ n \in DOMAIN waiting /\ i \in Nat /\ j \in Nat
        /\ waiting'[i] = waiting[k] /\ waiting'[j] = waiting[n]
    BY <1>2
  <2>3. k = n => i = j
    BY <2>2
  <2> HIDE DEF k, n
  <2>4. waiting[k].id = waiting[n].id
    BY <2>2
  <2> QED BY <2>1, <2>2, <2>3, <2>4, Zenon
<1>7. \A i \in DOMAIN waiting', j \in DOMAIN replies : waiting'[i].id # replies[j].rx.id
  BY <1>2, SMTT(60) DEF PlaceInv
<1>8. \A i \in DOMAIN waiting' : waiting'[i].id # busy'.id
  <2> SUFFICES ASSUME NEW i \in DOMAIN waiting', waiting'[i].id = busy'.id PROVE FALSE
    OBVIOUS
  <2>1. i + 1 = 1
    BY <1>2, ZenonT(60) DEF PlaceInv
  <2> QED BY <1>2, <2>1, SMTT(60)
<1>9. /\ busy'.id <= count /\ Low(busy')
      /\ \A j \in DOMAIN replies : replies[j].rx.id # busy'.id
  BY <1>2 DEF PlaceInv
<1>10. AnsweredAtMostOnce'
  BY <1>1, ZenonT(60) DEF PlaceInv, AnsweredAtMostOnce
<1> QED BY <1>1, <1>2, <1>3, <1>4, <1>5, <1>6, <1>7, <1>8, <1>9, <1>10, ZenonT(60)
     DEF PlaceInv, Low, Valid, is_rpc_msg_high_priority

LEMMA ProcessPlace == PlaceInv /\ loopProcess => PlaceInv'
<1> SUFFICES ASSUME PlaceInv, loopProcess PROVE PlaceInv'
  OBVIOUS
<1>1. /\ pc = "taken" /\ pc' = "processed" /\ tx_msg' = aon_rpc_msg_process(busy, tx_msg)
      /\ UNCHANGED <<waiting, busy, count, replies, apHung>>
  BY ZenonT(60) DEF loopProcess, queueVars
<1>2. busy # None /\ busy \in Request /\ tx_msg \in TxType
  BY <1>1, ZenonT(60) DEF PlaceInv
<1>3. tx_msg' \in TxType
  BY <1>1, <1>2, ProcessFacts, ZenonT(60)
<1>4. AnsweredAtMostOnce'
  BY <1>1, ZenonT(60) DEF PlaceInv, AnsweredAtMostOnce
<1> QED BY <1>1, <1>2, <1>3, <1>4 DEF PlaceInv, Low, Valid, is_rpc_msg_high_priority

LEMMA ReplyStepPlace == PlaceInv /\ loopReply => PlaceInv'
<1> SUFFICES ASSUME PlaceInv, loopReply PROVE PlaceInv'
  OBVIOUS
<1>1. /\ pc = "processed" /\ pc' = "idle" /\ Reply(busy, tx_msg) /\ busy' = None
      /\ UNCHANGED <<waiting, tx_msg, count, apHung>>
  BY ZenonT(60) DEF loopReply, Q!Finish
<1>2. /\ busy # None /\ busy \in Request /\ tx_msg \in TxType /\ busy.id <= count /\ count \in Nat
      /\ \A j \in DOMAIN replies : replies[j].rx.id # busy.id
      /\ \A i \in DOMAIN waiting : waiting[i].id # busy.id
  BY <1>1, RpcAssumption, SMTT(60) DEF PlaceInv
<1>3. /\ replies' \in Seq(Answer) /\ AnsweredAtMostOnce'
      /\ \A i \in DOMAIN replies' : replies'[i].rx.id <= count'
      /\ \A n : /\ n # busy.id
                /\ \A j \in DOMAIN replies : replies[j].rx.id # n
                => \A j \in DOMAIN replies' : replies'[j].rx.id # n
  <2>1. count' \in Nat /\ count <= count' /\ busy.id <= count'
    BY <1>1, <1>2, SMTT(60)
  <2> QED BY <1>1, <1>2, <2>1, ReplyPlace, ZenonT(60)
<1>4. \A i \in DOMAIN waiting, j \in DOMAIN replies' : waiting[i].id # replies'[j].rx.id
  BY <1>2, <1>3, ZenonT(60) DEF PlaceInv
<1> QED BY <1>1, <1>3, <1>4 DEF PlaceInv, Low, Valid, is_rpc_msg_high_priority

LEMMA PlaceStep == PlaceInv /\ [Next]_vars => PlaceInv'
<1> SUFFICES ASSUME PlaceInv, [Next]_vars PROVE PlaceInv'
  BY ZenonT(60)
<1>1. ASSUME UNCHANGED <<waiting, busy, tx_msg, count, replies>>, apHung' \in BOOLEAN,
             pc' \in {"taken", "processed"} <=> pc \in {"taken", "processed"}
      PROVE  PlaceInv'
  <2>1. AnsweredAtMostOnce'
    BY <1>1, ZenonT(60) DEF PlaceInv, AnsweredAtMostOnce
  <2> QED BY <1>1, <2>1, ZenonT(60) DEF PlaceInv, Low, Valid, is_rpc_msg_high_priority
<1>2. apHung \in BOOLEAN
  BY ZenonT(60) DEF PlaceInv
<1>3. ASSUME NEW kind \in Kinds, aon_rpc_dispatch(kind) PROVE PlaceInv'
  BY <1>3, DispatchPlace, ZenonT(60)
<1>4. CASE aon_rpc_svc_cb_register
  BY <1>1, <1>2, <1>4, ZenonT(60) DEF aon_rpc_svc_cb_register, queueVars
<1>5. CASE initFails
  <2>1. pc \notin {"taken", "processed"} /\ pc' \notin {"taken", "processed"}
    BY <1>5, ZenonT(60) DEF initFails
  <2> QED BY <1>1, <1>2, <1>5, <2>1, ZenonT(60) DEF initFails, queueVars
<1>6. CASE enterLoop
  <2>1. pc \notin {"taken", "processed"} /\ pc' \notin {"taken", "processed"}
    BY <1>6, ZenonT(60) DEF enterLoop
  <2> QED BY <1>1, <1>2, <1>6, <2>1, ZenonT(60) DEF enterLoop, queueVars
<1>7. CASE aon_rpc_process_loop
  BY <1>7, TakePlace, ProcessPlace, ReplyStepPlace, ZenonT(60) DEF aon_rpc_process_loop
<1>8. CASE apHangs
  BY <1>1, <1>8, ZenonT(60) DEF apHangs, queueVars
<1>9. CASE Done \/ UNCHANGED vars
  BY <1>1, <1>2, <1>9, ZenonT(60) DEF Done, vars, queueVars
<1> QED BY <1>3, <1>4, <1>5, <1>6, <1>7, <1>8, <1>9, ZenonT(60) DEF Next

LEMMA PlaceMeaning == TableInv /\ PlaceInv => TypeOK /\ AnsweredAtMostOnce
<1> SUFFICES ASSUME TableInv, PlaceInv PROVE TypeOK /\ AnsweredAtMostOnce
  OBVIOUS
<1>1. Len(Services) + 1 = 6
  BY ServiceFacts, SMTT(60)
<1>2. registered \subseteq Range(Services)
  BY ServiceFacts DEF TableInv, TableType
<1>3. \A i \in DOMAIN waiting : waiting[i].id \in 1 .. count
  <2>1. \A i \in DOMAIN waiting : waiting[i] \in Request /\ waiting[i].id <= count
    BY DEF PlaceInv
  <2>2. \A i \in DOMAIN waiting : waiting[i].id \in Nat /\ waiting[i].id >= 1
    BY <2>1, RequestId
  <2>3. count \in Nat
    BY RpcAssumption DEF PlaceInv
  <2> QED BY <2>1, <2>2, <2>3, SMTT(60)
<1> QED BY <1>1, <1>2, <1>3 DEF TableInv, TableType, PlaceInv, TypeOK

\* The queue never holds more than it has room for, and what waits
\* is a request the AP sent (enqueue, dequeue).
THEOREM TypeCorrect == Spec => []TypeOK
BY TableInit, TableStep, PlaceInit, PlaceStep, PlaceMeaning, PTL DEF Spec

\* However the mailbox interrupt meets the main loop, no request is answered
\* twice and none that asked for no answer (aon_rpc_dispatch and
\* aon_rpc_process_loop both reply).
THEOREM AnsweredOnce == Spec => []AnsweredAtMostOnce
BY TableInit, TableStep, PlaceInit, PlaceStep, PlaceMeaning, PTL DEF Spec

-----------------------------------------------------------------------------
(* What the replies hold.                                                  *)

\* The loop only ever serves LPM, so the bits it leaves in the buffer are
\* the ones it sets again.
BufferInv ==
  /\ tx_msg.svc \in {{}, Bits("LPM")}
  /\ pc = "processed" => /\ tx_msg.svc = Bits("LPM") /\ tx_msg.func = busy.func
                         /\ tx_msg.err = "NONE" /\ tx_msg.id = busy.id
  /\ ReplyMatches /\ CpuhpIsFound

LEMMA BufferInit == Init => BufferInv
<1> SUFFICES ASSUME Init PROVE BufferInv
  OBVIOUS
<1>1. tx_msg.svc = {} /\ pc = "boot" /\ replies = <<>>
  BY ZenonT(60) DEF Init, Zero
<1>2. ReplyMatches /\ CpuhpIsFound
  BY <1>1 DEF ReplyMatches, CpuhpIsFound
<1> QED BY <1>1, <1>2, ZenonT(60) DEF BufferInv

LEMMA LowIsLpm == ASSUME NEW rx, Low(rx) PROVE rx.svc = "LPM" /\ rx.func = "CPUHP"
BY Zenon DEF Low, is_rpc_msg_high_priority, low_priority_svc_list

\* A reply that matches its request keeps what is said of the replies.
LEMMA ReplyKeeps ==
  ASSUME replies \in Seq(Answer), ReplyMatches, CpuhpIsFound,
         NEW rx \in Request, NEW tx \in TxType, Reply(rx, tx),
         rx.size # 0 => /\ tx.svc = Bits(rx.svc) /\ tx.func = rx.func
                        /\ tx.err = "NONE" => tx.id = rx.id,
         Low(rx) => tx.err = "NONE"
  PROVE  ReplyMatches' /\ CpuhpIsFound'
<1>1. \A i \in DOMAIN replies' :
        \/ i \in DOMAIN replies /\ replies'[i] = replies[i]
        \/ replies'[i].rx = rx /\ replies'[i].tx = tx
  BY ReplyFacts
<1>2. ReplyMatches'
  BY <1>1, Zenon DEF ReplyMatches
<1>3. ASSUME NEW i \in DOMAIN replies',
             <<replies'[i].rx.svc, replies'[i].rx.func>> \in low_priority_svc_list,
             Valid(replies'[i].rx)
      PROVE  replies'[i].tx.err = "NONE"
  <2>1. CASE i \in DOMAIN replies /\ replies'[i] = replies[i]
    BY <1>3, <2>1, Zenon DEF CpuhpIsFound
  <2>2. CASE replies'[i].rx = rx /\ replies'[i].tx = tx
    BY <1>3, <2>2, Zenon DEF Low, is_rpc_msg_high_priority
  <2> QED BY <1>1, <2>1, <2>2
<1>4. CpuhpIsFound'
  BY <1>3, Zenon DEF CpuhpIsFound, Valid, low_priority_svc_list
<1> QED BY <1>2, <1>4, SMTT(60)

LEMMA DispatchBuffer ==
  ASSUME PlaceInv, BufferInv, NEW kind \in Kinds, aon_rpc_dispatch(kind)
  PROVE  BufferInv'
<1> DEFINE rx == [id |-> count + 1, svc |-> kind.svc, func |-> kind.func,
                  size |-> kind.size, version |-> kind.version, ack |-> kind.ack]
<1>1. /\ count \in 0 .. MaxReq /\ count < MaxReq
      /\ BadSize(rx) \/ BadVersion(rx) \/ ServeNow(rx) \/ Queue(rx) \/ Drop(rx)
      /\ UNCHANGED <<pc, tx_msg>>
  BY ZenonT(60) DEF aon_rpc_dispatch, PlaceInv
<1>2. rx \in Request
  BY <1>1, RpcAssumption, SMTT(60) DEF Request
<1> HIDE DEF rx
<1>3. /\ replies \in Seq(Answer) /\ ReplyMatches /\ CpuhpIsFound
      /\ (pc = "processed" => busy # None)
  BY DEF PlaceInv, BufferInv
<1>4. UNCHANGED busy
  BY <1>1, ZenonT(60) DEF BadSize, BadVersion, ServeNow, Queue, Drop, Q!Accept, queueVars
<1>5. SUFFICES ReplyMatches' /\ CpuhpIsFound'
  BY <1>1, <1>4, ZenonT(60) DEF BufferInv
<1>6. CASE BadSize(rx)
  <2>1. rx.size = 0 /\ ~Low(rx)
    BY <1>6, ZenonT(60) DEF BadSize, Low, Valid
  <2>2. Reply(rx, RPC_SET_HEAD(Zero, 1, "UNKNOWN", "", "IPC"))
    BY <1>6, ZenonT(60) DEF BadSize
  <2> QED BY <1>2, <1>3, <2>1, <2>2, ImmediateTypes, ReplyKeeps, ZenonT(60)
<1>7. CASE BadVersion(rx)
  <2> DEFINE tx == RPC_SET_HEAD(Zero, 1, rx.svc, rx.func, "VERSION")
  <2>1. ~Low(rx)
    <3>1. rx.version \in Nat /\ rx.version < AON_RPC_VERSION
      BY <1>2, <1>7 DEF BadVersion, Request
    <3> QED BY <3>1 DEF Low, Valid, AON_RPC_VERSION
  <2>2. Reply(rx, tx) /\ tx \in TxType
    BY <1>2, <1>7, ImmediateTypes, ZenonT(60) DEF BadVersion
  <2>3. tx.svc = Bits(rx.svc) /\ tx.func = rx.func /\ tx.err # "NONE"
    BY ZenonT(60) DEF RPC_SET_HEAD, Zero
  <2> HIDE DEF tx
  <2> QED BY <1>2, <1>3, <2>1, <2>2, <2>3, ReplyKeeps
<1>8. CASE ServeNow(rx)
  <2> DEFINE tx == aon_rpc_msg_process(rx, Zero)
  <2>1. ~Low(rx)
    BY <1>8 DEF ServeNow, Low
  <2>2. Reply(rx, tx) /\ tx \in TxType
    BY <1>2, <1>8, ImmediateTypes, ZenonT(60) DEF ServeNow
  <2>3. /\ tx.svc = Zero.svc \cup Bits(rx.svc) /\ tx.func = rx.func
        /\ tx.err = "NONE" => tx.id = rx.id
    BY <1>2, ZeroType, ProcessFacts
  <2>4. Zero.svc = {}
    BY DEF Zero
  <2> HIDE DEF tx
  <2>5. tx.svc = Bits(rx.svc)
    BY <2>3, <2>4, ZenonT(60)
  <2> QED BY <1>2, <1>3, <2>1, <2>2, <2>3, <2>5, ReplyKeeps
<1>9. CASE Queue(rx) \/ Drop(rx)
  <2>1. UNCHANGED replies
    BY <1>9 DEF Queue, Drop
  <2> QED BY <1>3, <2>1 DEF ReplyMatches, CpuhpIsFound
<1> QED BY <1>1, <1>6, <1>7, <1>8, <1>9, ZenonT(60)

\* When the loop runs, lpm_dispatch() is registered.
LEMMA LpmServed == TableInv /\ pc \in {"idle", "taken", "processed"} => Serving("LPM") # {}
<1> SUFFICES ASSUME TableInv, pc \in {"idle", "taken", "processed"} PROVE Serving("LPM") # {}
  OBVIOUS
<1>1. "LPM" \in registered /\ "LPM" \in Range(Services)
  BY ServiceFacts DEF TableInv
<1>2. PICK i \in Slots : g_rpc_process[i].func = "LPM"
  BY <1>1 DEF TableInv
<1>3. "LPM" # None
  BY <1>1, NoneAssumption
<1>4. g_rpc_process[i].svc = "LPM"
  BY <1>2, <1>3 DEF TableInv
<1> QED BY <1>2, <1>3, <1>4 DEF Serving

LEMMA ProcessBuffer == TableInv /\ PlaceInv /\ BufferInv /\ loopProcess => BufferInv'
<1> SUFFICES ASSUME TableInv, PlaceInv, BufferInv, loopProcess PROVE BufferInv'
  OBVIOUS
<1>1. /\ pc = "taken" /\ pc' = "processed" /\ tx_msg' = aon_rpc_msg_process(busy, tx_msg)
      /\ UNCHANGED <<busy, replies>>
  BY ZenonT(60) DEF loopProcess, queueVars
<1>2. busy \in Request /\ tx_msg \in TxType /\ Low(busy)
  BY <1>1 DEF PlaceInv
<1>3. busy.svc = "LPM"
  BY <1>2, LowIsLpm
<1>4. Serving(busy.svc) # {}
  BY <1>1, <1>3, LpmServed, ZenonT(60)
<1>5. /\ tx_msg'.svc = tx_msg.svc \cup Bits(busy.svc) /\ tx_msg'.func = busy.func
      /\ tx_msg'.err = "NONE" /\ tx_msg'.id = busy.id
  BY <1>1, <1>2, <1>4, ProcessFacts, ZenonT(60)
<1>6. tx_msg'.svc = Bits("LPM")
  BY <1>3, <1>5, ZenonT(60) DEF BufferInv
<1>7. ReplyMatches' /\ CpuhpIsFound'
  BY <1>1 DEF BufferInv, ReplyMatches, CpuhpIsFound
<1> QED BY <1>1, <1>5, <1>6, <1>7 DEF BufferInv

LEMMA ReplyStepBuffer == PlaceInv /\ BufferInv /\ loopReply => BufferInv'
<1> SUFFICES ASSUME PlaceInv, BufferInv, loopReply PROVE BufferInv'
  OBVIOUS
<1>1. /\ pc = "processed" /\ pc' = "idle" /\ Reply(busy, tx_msg) /\ UNCHANGED tx_msg
  BY ZenonT(60) DEF loopReply
<1>2. /\ busy \in Request /\ tx_msg \in TxType /\ Low(busy) /\ replies \in Seq(Answer)
  BY <1>1 DEF PlaceInv
<1>3. busy.svc = "LPM"
  BY <1>2, LowIsLpm, ZenonT(60)
<1>4. /\ tx_msg.svc = Bits(busy.svc) /\ tx_msg.func = busy.func
      /\ tx_msg.err = "NONE" /\ tx_msg.id = busy.id
      /\ ReplyMatches /\ CpuhpIsFound
  BY <1>1, <1>3, ZenonT(60) DEF BufferInv
<1>5. ReplyMatches' /\ CpuhpIsFound'
  BY <1>1, <1>2, <1>4, ReplyKeeps, ZenonT(60)
<1> QED BY <1>1, <1>5 DEF BufferInv

LEMMA BufferStep == TableInv /\ PlaceInv /\ BufferInv /\ [Next]_vars => BufferInv'
<1> SUFFICES ASSUME TableInv, PlaceInv, BufferInv, [Next]_vars PROVE BufferInv'
  BY ZenonT(60)
<1>1. ASSUME UNCHANGED <<tx_msg, replies>>, pc' # "processed" \/ UNCHANGED <<pc, busy>>
      PROVE  BufferInv'
  BY <1>1 DEF BufferInv, ReplyMatches, CpuhpIsFound
<1>2. ASSUME NEW kind \in Kinds, aon_rpc_dispatch(kind) PROVE BufferInv'
  BY <1>2, DispatchBuffer
<1>3. CASE aon_rpc_svc_cb_register
  BY <1>1, <1>3 DEF aon_rpc_svc_cb_register, queueVars
<1>4. CASE initFails \/ enterLoop
  BY <1>1, <1>4 DEF initFails, enterLoop
<1>5. CASE loopTake
  BY <1>1, <1>5 DEF loopTake
<1>6. CASE apHangs \/ Done \/ UNCHANGED vars
  BY <1>1, <1>6 DEF apHangs, Done, vars, queueVars
<1> QED BY <1>2, <1>3, <1>4, <1>5, <1>6, ProcessBuffer, ReplyStepBuffer, ZenonT(60)
        DEF Next, aon_rpc_process_loop

\* A well-formed request is answered with its own service number, function
\* and data, although the loop never clears its reply buffer and the setters
\* only set bits (RPC_SET_HEAD in aon_rpc_process_loop).
THEOREM RepliesMatch == Spec => []ReplyMatches
<1>1. BufferInv => ReplyMatches
  BY ZenonT(60) DEF BufferInv
<1> QED BY <1>1, TableInit, TableStep, PlaceInit, PlaceStep, BufferInit, BufferStep, PTL DEF Spec

\* A request for CPUHP, whenever it comes during boot, is never answered
\* NOTFOUND (low_priority_svc_list, aon_rpc_process_loop).
THEOREM CpuhpFound == Spec => []CpuhpIsFound
<1>1. BufferInv => CpuhpIsFound
  BY DEF BufferInv
<1> QED BY <1>1, TableInit, TableStep, PlaceInit, PlaceStep, BufferInit, BufferStep, PTL DEF Spec
=============================================================================
