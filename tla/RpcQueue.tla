------------------------------ MODULE RpcQueue -------------------------------
(***************************************************************************)
(* The ring buffer of aon_rpc.c between the mailbox interrupt handler,     *)
(* which enqueues low-priority requests, and aon_rpc_process_loop, which   *)
(* dequeues and serves them.                                               *)
(*                                                                         *)
(* Interrupts have one level and do not nest, so a handler is one step;    *)
(* the main loop can be interrupted between any two of its memory          *)
(* accesses.  dequeue() hands out a pointer into items[] and frees the     *)
(* slot before the loop has used it, and it stores front twice when it     *)
(* wraps; both windows are open to the handler here.                       *)
(***************************************************************************)
EXTENDS Integers, Sequences

CONSTANTS Msg,         \* contents of a low-priority request
          QUEUE_SIZE,  \* slots of the ring
          None         \* no request (not a content)

ASSUME QueueSizeAssumption == QUEUE_SIZE \in Nat \ {0}
ASSUME NoneAssumption == None \notin Msg

VARIABLES items,    \* items[]: slots, None before the first use
          front,    \* index of the oldest request
          rear,     \* index of the next free slot
          pc,       \* where the main loop is
          element,  \* slot the pointer rx_msg of the main loop points to
          served,   \* request the service routine read through rx_msg
          answered  \* request the loop acknowledged last

vars == <<items, front, rear, pc, element, served, answered>>

Slots == 0 .. QUEUE_SIZE - 1

\* initializeQueue() and the entry of aon_rpc_process_loop().
initializeQueue == front = 0 /\ rear = 0

Init ==
  /\ initializeQueue
  /\ items = [s \in Slots |-> None]
  /\ pc = "idle"
  /\ element = 0
  /\ served = None
  /\ answered = None

\* Mutant: the case of a rear index at the end of the ring is forgotten.
isFullNoWrapCase == front = rear + 1

isFull == front = rear + 1 \/ (front = 0 /\ rear = QUEUE_SIZE - 1)

isEmpty == front = rear

\* Mutant: off by one in the test of the wrap.
WrapLate(i) == IF i > QUEUE_SIZE THEN i - QUEUE_SIZE ELSE i

\* "if (x >= QUEUE_SIZE) x = x - QUEUE_SIZE", in enqueue() and dequeue().
Wrap(i) == IF i >= QUEUE_SIZE THEN i - QUEUE_SIZE ELSE i

\* Mutant: enqueue() without the test for a full ring.
enqueueUnguarded(m) ==
  /\ items' = [items EXCEPT ![rear] = m]
  /\ rear' = Wrap(rear + 1)
  /\ UNCHANGED <<front, pc, element, served, answered>>

\* enqueue() in the interrupt handler; a request that finds the ring full
\* is dropped, aon_rpc_dispatch() ignores the result.
enqueue(m) ==
  /\ IF isFull
       THEN UNCHANGED <<items, rear>>
       ELSE /\ items' = [items EXCEPT ![rear] = m]
            /\ rear' = Wrap(rear + 1)
  /\ UNCHANGED <<front, pc, element, served, answered>>

\* dequeue(): the pointer is taken and front advanced ...
dequeueAdvance ==
  /\ pc = "idle"
  /\ ~isEmpty
  /\ element' = front
  /\ front' = front + 1
  /\ pc' = "wrap"
  /\ UNCHANGED <<items, rear, served, answered>>

\* ... and then front is wrapped.
dequeueWrap ==
  /\ pc = "wrap"
  /\ front' = Wrap(front)
  /\ pc' = "serve"
  /\ UNCHANGED <<items, rear, element, served, answered>>

\* aon_rpc_msg_process(rx_msg, ..): the service reads the request.
serve ==
  /\ pc = "serve"
  /\ served' = items[element]
  /\ pc' = "reply"
  /\ UNCHANGED <<items, front, rear, element, answered>>

\* The loop reads the acknowledge type through rx_msg again and replies.
reply ==
  /\ pc = "reply"
  /\ answered' = items[element]
  /\ pc' = "idle"
  /\ UNCHANGED <<items, front, rear, element, served>>

MainLoop == dequeueAdvance \/ dequeueWrap \/ serve \/ reply

Next == (\E m \in Msg : enqueue(m)) \/ MainLoop

\* dequeue() waits for nobody: the main loop takes its steps itself.
LoopRuns == WF_vars(dequeueAdvance \/ dequeueWrap)

\* An assumption about the AP, not about this code: serve and reply poll
\* it without a limit.  A CPUHP request to switch a core off waits until the
\* core is inactive, csi_mbox_send() until the AP has acknowledged the reply.
ApAnswers == WF_vars(serve) /\ WF_vars(reply)

Spec == Init /\ [][Next]_vars /\ LoopRuns /\ ApAnswers

-----------------------------------------------------------------------------
\* Number of requests that wait and the slot of the i-th of them; front is
\* QUEUE_SIZE for the moment between the two stores of dequeue().
Count == IF rear >= Wrap(front) THEN rear - Wrap(front)
                                ELSE rear - Wrap(front) + QUEUE_SIZE

SlotOf(i) == Wrap(Wrap(front) + i - 1)

Waiting == [i \in 1 .. Count |-> items[SlotOf(i)]]

\* Type invariant: the indices stay in the ring, except that front may be
\* QUEUE_SIZE between the two stores of dequeue().
TypeOK ==
  /\ items \in [Slots -> Msg \cup {None}]
  /\ rear \in Slots
  /\ front \in 0 .. QUEUE_SIZE
  /\ front = QUEUE_SIZE => pc = "wrap"
  /\ pc \in {"idle", "wrap", "serve", "reply"}
  /\ element \in Slots
  /\ served \in Msg \cup {None}
  /\ answered \in Msg \cup {None}

\* The slot dequeue() has already released keeps its request until the main
\* loop has acknowledged it: what is acknowledged is what was served,
\* although the interrupt handler may enqueue any number of requests meanwhile.
InFlightIntact == pc = "reply" => items[element] = served

\* enqueue() refuses a request exactly when QUEUE_SIZE - 1 requests wait, also
\* when it interrupts dequeue() between its two stores of front.
FullIffCapacity == isFull <=> Count = QUEUE_SIZE - 1

\* Every request that was accepted is served, whatever arrives after it,
\* as long as the AP ends the waits of serve and reply (ApAnswers).
AcceptedIsServed ==
  \A m \in Msg : (\E i \in 1 .. Count : Waiting[i] = m) ~> (served = m)

\* The ring implements the bounded FIFO: requests are served in the order
\* they were accepted, none is lost or served twice, and the request in work
\* does not change under the main loop.
Fifo == INSTANCE RpcFifo WITH
  Capacity <- QUEUE_SIZE - 1,
  waiting  <- Waiting,
  busy     <- IF pc = "idle" THEN None ELSE items[element]

ImplementsFifo == Fifo!Spec
=============================================================================
