-------------------------------- MODULE Mbox ---------------------------------
(***************************************************************************)
(* The mailbox driver, mbox.c v5.0, on both ends of channel 0, on which    *)
(* the AP sends its requests and gets all replies (the peer here, with the *)
(* same driver), at the level of single register accesses.  A message of   *)
(* seven words is its protocol word INFO0 and the rest; INFO7 is the       *)
(* acknowledge, STA the doorbell, which TX_DATA and TX_ACK of the other    *)
(* core both ring.  Channel CPU3, where no TX_ACK is set, is left out.     *)
(*                                                                         *)
(* Each core has an interrupt context and a main context, which runs only  *)
(* while the core is not in the interrupt.  The E902 answers a request     *)
(* from the interrupt or, for a queued one, later from main; the peer      *)
(* sends its requests from main and takes the answers in its interrupt.    *)
(***************************************************************************)
EXTENDS Naturals, Sequences

CONSTANT MaxReq   \* bound: number of requests of the peer

ASSUME MboxAssumption == MaxReq \in Nat

VARIABLES box,    \* registers of each core: [info0, rest, ack, sta]
          ctx,    \* contexts: [pc, msg (to send), lo, hi (received words)]
          queue,  \* requests that wait for the main loop of the E902
          sent,   \* number of the last request of the peer
          got     \* messages each core received, as pairs of their words

vars == <<box, ctx, queue, sent, got>>

Cores == {"e902", "peer"}
Other(c) == IF c = "e902" THEN "peer" ELSE "e902"
Contexts == Cores \X {"isr", "main"}
Idle == [pc |-> "idle", msg |-> 0, lo |-> 0, hi |-> 0]

\* csi_mbox_init() of both cores; a request r is the pair of words <<r, r>>.
Init ==
  /\ box = [c \in Cores |-> [info0 |-> 0, rest |-> 0, ack |-> FALSE, sta |-> FALSE]]
  /\ ctx = [k \in Contexts |-> Idle]
  /\ queue = <<>> /\ sent = 0 /\ got = [c \in Cores |-> <<>>]

\* A context can take a step at pc.
At(k, pc) ==
  /\ ctx[k].pc = pc
  /\ k[2] = "main" => ctx[<<k[1], "isr">>].pc = "idle"

Goto(k, pc) == ctx' = [ctx EXCEPT ![k].pc = pc]

Remote(k) == Other(k[1])

-----------------------------------------------------------------------------
(* csi_mbox_send() in context k.                                           *)

\* wj_mbox_chan_wr_data() word by word, then TX_DATA in GEN.
wr_data(k) ==
  \/ At(k, "info0") /\ Goto(k, "rest") /\ box' = [box EXCEPT ![Remote(k)].info0 = ctx[k].msg]
  \/ At(k, "rest") /\ Goto(k, "gen") /\ box' = [box EXCEPT ![Remote(k)].rest = ctx[k].msg]
  \/ At(k, "gen") /\ Goto(k, "poll") /\ box' = [box EXCEPT ![Remote(k)].sta = TRUE]

\* The local INFO7 is polled for the magic, which nobody removes.
wait_ack(k) ==
  /\ At(k, "poll")
  /\ box[k[1]].ack
  /\ ctx' = [ctx EXCEPT ![k] = IF k[2] = "isr" THEN [Idle EXCEPT !.pc = "check"] ELSE Idle]
  /\ UNCHANGED box

csi_mbox_send(k) == (wr_data(k) \/ wait_ack(k)) /\ UNCHANGED <<queue, sent, got>>

-----------------------------------------------------------------------------
(* wj_mbox_irq_handler() and csi_mbox_receive(), called by the callback.   *)

isr_enter(c) ==
  /\ At(<<c, "isr">>, "idle")
  /\ box[c].sta
  /\ Goto(<<c, "isr">>, "clear")
  /\ UNCHANGED <<box, queue, sent, got>>

\* Mutant: the doorbell is cleared after INFO0 has been looked at.
isr_lookThenClear(c) ==
  LET k == <<c, "isr">>
  IN  \/ At(k, "clear") /\ ctx' = [ctx EXCEPT ![k].pc = "look", ![k].lo = box[c].info0]
         /\ UNCHANGED box
      \/ At(k, "look") /\ Goto(k, IF ctx[k].lo = 0 THEN "check" ELSE "rd0")
         /\ box' = [box EXCEPT ![c].sta = FALSE]

\* The doorbell is cleared, then INFO0 decides whether there is a message:
\* a TX_ACK of the other side rings the same bell.
isr_look(c) ==
  LET k == <<c, "isr">>
  IN  \/ At(k, "clear") /\ Goto(k, "look") /\ box' = [box EXCEPT ![c].sta = FALSE]
      \/ At(k, "look") /\ Goto(k, IF box[c].info0 = 0 THEN "check" ELSE "rd0")
         /\ UNCHANGED box

\* Mutant: INFO0 is not cleared.
csi_mbox_receiveKeepsInfo0(c) ==
  LET k == <<c, "isr">>
  IN  \/ /\ At(k, "rd0") /\ UNCHANGED box
         /\ ctx' = [ctx EXCEPT ![k].lo = box[c].info0, ![k].pc = "rd1"]
      \/ /\ At(k, "rd1") /\ UNCHANGED box
         /\ ctx' = [ctx EXCEPT ![k].hi = box[c].rest, ![k].pc = "ack"]
      \/ At(k, "ack") /\ Goto(k, "tx_ack") /\ box' = [box EXCEPT ![Other(c)].ack = TRUE]
      \/ At(k, "tx_ack") /\ Goto(k, "callback") /\ box' = [box EXCEPT ![Other(c)].sta = TRUE]

\* The words are read, INFO0 is cleared, the magic written and TX_ACK set.
csi_mbox_receive(c) ==
  LET k == <<c, "isr">>
  IN  \/ /\ At(k, "rd0") /\ UNCHANGED box
         /\ ctx' = [ctx EXCEPT ![k].lo = box[c].info0, ![k].pc = "rd1"]
      \/ /\ At(k, "rd1") /\ UNCHANGED box
         /\ ctx' = [ctx EXCEPT ![k].hi = box[c].rest, ![k].pc = "clr0"]
      \/ At(k, "clr0") /\ Goto(k, "ack") /\ box' = [box EXCEPT ![c].info0 = 0]
      \/ At(k, "ack") /\ Goto(k, "tx_ack") /\ box' = [box EXCEPT ![Other(c)].ack = TRUE]
      \/ At(k, "tx_ack") /\ Goto(k, "callback") /\ box' = [box EXCEPT ![Other(c)].sta = TRUE]

\* aon_low_power_isr() after the receive: a reply, which always goes out on
\* channel 0, now or from the main loop.
e902_callback ==
  LET k == <<"e902", "isr">>
  IN  /\ At(k, "callback")
      /\ got' = [got EXCEPT !["e902"] = Append(@, <<ctx[k].lo, ctx[k].hi>>)]
      /\ \/ /\ ctx' = [ctx EXCEPT ![k] = [Idle EXCEPT !.pc = "info0", !.msg = ctx[k].lo]]
            /\ UNCHANGED queue
         \/ /\ queue' = Append(queue, ctx[k].lo)
            /\ ctx' = [ctx EXCEPT ![k] = [Idle EXCEPT !.pc = "check"]]
      /\ UNCHANGED <<box, sent>>

peer_callback ==
  LET k == <<"peer", "isr">>
  IN  /\ At(k, "callback")
      /\ got' = [got EXCEPT !["peer"] = Append(@, <<ctx[k].lo, ctx[k].hi>>)]
      /\ ctx' = [ctx EXCEPT ![k] = [Idle EXCEPT !.pc = "check"]]
      /\ UNCHANGED <<box, queue, sent>>

\* STA is read again before the handler returns.
isr_check(c) ==
  /\ At(<<c, "isr">>, "check")
  /\ Goto(<<c, "isr">>, IF box[c].sta THEN "clear" ELSE "idle")
  /\ UNCHANGED <<box, queue, sent, got>>

wj_mbox_irq_handler(c) ==
  \/ isr_enter(c) \/ isr_check(c)
  \/ (isr_look(c) \/ csi_mbox_receive(c)) /\ UNCHANGED <<queue, sent, got>>

-----------------------------------------------------------------------------
(* What the main contexts send.                                            *)

e902_main ==
  LET k == <<"e902", "main">>
  IN  /\ At(k, "idle") /\ queue # <<>>
      /\ ctx' = [ctx EXCEPT ![k].pc = "info0", ![k].msg = Head(queue)]
      /\ queue' = Tail(queue)
      /\ UNCHANGED <<box, sent, got>>

\* The peer has one request out at a time.
peer_main ==
  LET k == <<"peer", "main">>
  IN  /\ At(k, "idle") /\ sent < MaxReq
      /\ Len(got["peer"]) = sent
      /\ ctx' = [ctx EXCEPT ![k].pc = "info0", ![k].msg = sent + 1]
      /\ sent' = sent + 1
      /\ UNCHANGED <<box, queue, got>>

E902 ==
  \/ wj_mbox_irq_handler("e902") \/ e902_callback \/ e902_main
  \/ csi_mbox_send(<<"e902", "isr">>) \/ csi_mbox_send(<<"e902", "main">>)

Peer ==
  \/ wj_mbox_irq_handler("peer") \/ peer_callback \/ peer_main
  \/ csi_mbox_send(<<"peer", "main">>)

Next == E902 \/ Peer

\* Both cores keep running: csi_mbox_send() of each waits for the other.
Spec == Init /\ [][Next]_vars /\ WF_vars(E902) /\ WF_vars(Peer)

-----------------------------------------------------------------------------
(* What is checked.                                                        *)

\* The handler takes each message once: the protocol words of the requests
\* arrive in their order and none twice, and so do the answers, although TX_ACK
\* rings the bell of a message too and INFO7 keeps an old magic.
InOrder ==
  /\ \A i \in DOMAIN got["e902"] : got["e902"][i][1] = i
  /\ \A i \in DOMAIN got["peer"] : got["peer"][i][1] = i
  /\ Len(got["peer"]) <= Len(got["e902"])

\* Every request is answered: the handler loses no doorbell, whether it comes
\* together with the one of an acknowledge or while the handler returns, and
\* csi_mbox_send() is not left polling for an acknowledge.
Delivered == Len(got["peer"]) < sent ~> Len(got["peer"]) = sent

\* wj_mbox_irq_handler() says "ignore TH1520_MBOX_GEN_TX_ACK interrupt": the
\* interrupt of an acknowledge makes the E902 take no request that the peer
\* has not finished writing.
AckIgnored == \A i \in DOMAIN got["e902"] : got["e902"][i][1] = got["e902"][i][2]
=============================================================================
