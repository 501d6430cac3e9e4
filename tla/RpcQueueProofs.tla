--------------------------- MODULE RpcQueueProofs ----------------------------
(***************************************************************************)
(* Proofs about the request ring, for every ring size and every set of     *)
(* requests.  The inductive invariant says where the slot of the request   *)
(* in work lies: right behind front.  That is the one slot isFull() keeps  *)
(* out of enqueue()'s reach, which is why releasing it early is harmless.  *)
(***************************************************************************)
EXTENDS RpcQueue, TLAPS

USE QueueSizeAssumption, NoneAssumption

\* While the main loop works on a request its slot is the one behind front,
\* it still holds the request, and every waiting slot holds a request.
IInv ==
  /\ TypeOK
  /\ pc # "idle" => /\ Wrap(element + 1) = Wrap(front)
                    /\ items[element] \in Msg
  /\ InFlightIntact
  /\ \A i \in 1 .. Count : items[SlotOf(i)] \in Msg

\* The slot in work is never the one enqueue() would write: when rear
\* reaches it, isFull() holds.
LEMMA InWorkSlotGuarded ==
  ASSUME TypeOK, pc # "idle", Wrap(element + 1) = Wrap(front), ~isFull
  PROVE  rear # element
  BY DEF TypeOK, isFull, Wrap, Slots

\* isFull() in the code's form and the count of waiting requests agree.
LEMMA FullCount == TypeOK => FullIffCapacity
  BY DEF TypeOK, FullIffCapacity, isFull, Count, Wrap, Slots

LEMMA CountRange == TypeOK => Count \in 0 .. QUEUE_SIZE - 1
  BY DEF TypeOK, Count, Wrap, Slots

LEMMA SlotRange == ASSUME TypeOK, NEW i \in 1 .. Count PROVE SlotOf(i) \in Slots
  BY DEF TypeOK, Count, Wrap, Slots, SlotOf

\* An accepted request goes to the end of the waiting ones and moves none.
LEMMA EnqueueCount ==
  ASSUME TypeOK, ~isFull, NEW m \in Msg, enqueue(m)
  PROVE  /\ Count' = Count + 1
         /\ \A i \in 1 .. Count : SlotOf(i)' = SlotOf(i) /\ SlotOf(i) # rear
         /\ SlotOf(Count)' = rear
<1> USE DEF TypeOK, isFull, Wrap, Slots
<1>1. rear' = Wrap(rear + 1) /\ front' = front
  BY DEF enqueue
<1>2. Count' = Count + 1
  BY <1>1 DEF Count
<1>3. \A i \in 1 .. Count : SlotOf(i)' = SlotOf(i) /\ SlotOf(i) # rear
  BY <1>1 DEF Count, SlotOf
<1>4. SlotOf(Count)' = rear
  BY <1>1, <1>2 DEF Count, SlotOf
<1> QED BY <1>2, <1>3, <1>4

\* Taking a request shifts the waiting ones by one.
LEMMA DequeueCount ==
  ASSUME TypeOK, dequeueAdvance
  PROVE  /\ Count \in Nat \ {0} /\ Count' = Count - 1
         /\ SlotOf(1) = front
         /\ \A i \in 1 .. Count - 1 : SlotOf(i)' = SlotOf(i + 1)
  BY DEF TypeOK, dequeueAdvance, isEmpty, Count, Wrap, Slots, SlotOf

LEMMA TypeStep == TypeOK /\ [Next]_vars => TypeOK'
<1> SUFFICES ASSUME TypeOK, [Next]_vars PROVE TypeOK'
  OBVIOUS
<1>1. ASSUME NEW m \in Msg, enqueue(m) PROVE TypeOK'
  BY <1>1 DEF TypeOK, enqueue, Wrap, Slots
<1>2. CASE dequeueAdvance
  BY <1>2 DEF TypeOK, dequeueAdvance, isEmpty, Slots
<1>3. CASE dequeueWrap
  BY <1>3 DEF TypeOK, dequeueWrap, Wrap, Slots
<1>4. CASE serve
  BY <1>4 DEF TypeOK, serve, Slots
<1>5. CASE reply
  BY <1>5 DEF TypeOK, reply, Slots
<1>6. CASE UNCHANGED vars
  BY <1>6 DEF TypeOK, vars
<1> QED BY <1>1, <1>2, <1>3, <1>4, <1>5, <1>6 DEF Next, MainLoop

LEMMA InitIInv == Init => IInv
  BY DEF Init, initializeQueue, IInv, TypeOK, InFlightIntact, Count, Wrap, Slots

LEMMA StepIInv == IInv /\ [Next]_vars => IInv'
<1> SUFFICES ASSUME IInv, [Next]_vars PROVE IInv'
  OBVIOUS
<1> USE DEF IInv
<1>t. TypeOK'
  BY TypeStep
<1>1. ASSUME NEW m \in Msg, enqueue(m) PROVE IInv'
  <2>1. CASE isFull
    BY <1>1, <1>t, <2>1 DEF enqueue, InFlightIntact, Count, SlotOf, Wrap
  <2>2. CASE ~isFull
    <3>1. pc # "idle" => rear # element
      BY <2>2, InWorkSlotGuarded
    <3>2. pc # "idle" => items'[element] = items[element]
      BY <1>1, <2>2, <3>1 DEF enqueue, TypeOK
    <3>3. \A i \in 1 .. Count' : items'[SlotOf(i)'] \in Msg
      <4> SUFFICES ASSUME NEW i \in 1 .. Count' PROVE items'[SlotOf(i)'] \in Msg
        OBVIOUS
      <4>1. CASE i \in 1 .. Count
        BY <1>1, <2>2, <4>1, EnqueueCount, SlotRange DEF enqueue, TypeOK
      <4>2. CASE i = Count'
        BY <1>1, <2>2, <4>2, EnqueueCount DEF enqueue, TypeOK
      <4> QED
        BY <1>1, <2>2, <4>1, <4>2, EnqueueCount, CountRange
    <3> QED
      BY <1>1, <1>t, <3>2, <3>3 DEF enqueue, InFlightIntact, Wrap
  <2> QED BY <2>1, <2>2
<1>2. CASE dequeueAdvance
  <2>1. \A i \in 1 .. Count' : items'[SlotOf(i)'] \in Msg
    BY <1>2, DequeueCount DEF dequeueAdvance
  <2>2. items'[element'] \in Msg
    BY <1>2, DequeueCount DEF dequeueAdvance
  <2> QED
    BY <1>2, <1>t, <2>1, <2>2 DEF dequeueAdvance, InFlightIntact
<1>3. CASE dequeueWrap
  <2>1. Wrap(front)' = Wrap(front)
    BY <1>3 DEF dequeueWrap, Wrap, TypeOK
  <2> QED
    BY <1>3, <1>t, <2>1 DEF dequeueWrap, InFlightIntact, Count, SlotOf
<1>4. CASE serve
  BY <1>4, <1>t DEF serve, InFlightIntact, Count, SlotOf, Wrap
<1>5. CASE reply
  BY <1>5, <1>t DEF reply, InFlightIntact, Count, SlotOf, Wrap
<1>6. CASE UNCHANGED vars
  BY <1>6, <1>t DEF vars, InFlightIntact, Count, SlotOf, Wrap
<1> QED BY <1>1, <1>2, <1>3, <1>4, <1>5, <1>6 DEF Next, MainLoop

\* Type correctness of the ring: front and rear stay in the ring for every
\* QUEUE_SIZE, front leaving it only between the two stores of dequeue().
THEOREM TypeCorrect == Spec => []TypeOK
<1>1. Init => TypeOK
  BY InitIInv DEF IInv
<1> QED BY <1>1, TypeStep, PTL DEF Spec

\* The strengthened invariant holds always.
LEMMA Inductive == Spec => []IInv
  BY InitIInv, StepIInv, PTL DEF Spec

\* For every ring size the request main loop acknowledges is the one it
\* served, although dequeue() released its slot before it was used.
THEOREM InFlightSafe == Spec => []InFlightIntact
<1>1. IInv => InFlightIntact
  BY DEF IInv
<1> QED BY <1>1, Inductive, PTL

\* For every ring size enqueue() refuses a request exactly when
\* QUEUE_SIZE - 1 requests wait.
THEOREM FullSafe == Spec => []FullIffCapacity
  BY TypeCorrect, FullCount, PTL

LEMMA WaitingSeq ==
  TypeOK => Waiting \in Seq(Msg \cup {None}) /\ Len(Waiting) = Count
<1> HAVE TypeOK
<1>1. Count \in Nat
  BY CountRange
<1>2. \A i \in 1 .. Count : items[SlotOf(i)] \in Msg \cup {None}
  BY SlotRange DEF TypeOK
<1> QED BY <1>1, <1>2 DEF Waiting

\* Accepting a request appends it to the abstract queue.
LEMMA EnqueueRefines ==
  ASSUME IInv, TypeOK', NEW m \in Msg, enqueue(m)
  PROVE  Fifo!Accept(m) \/ UNCHANGED Fifo!vars
<1> USE DEF IInv
<1>1. CASE isFull
  BY <1>1 DEF enqueue, Fifo!vars, Waiting, Count, SlotOf, Wrap
<1>2. CASE ~isFull
  <2>1. Len(Waiting) < QUEUE_SIZE - 1
    BY <1>2, WaitingSeq, FullCount, CountRange DEF FullIffCapacity
  <2>2. Waiting' = Append(Waiting, m)
    <3>1. /\ Waiting' \in Seq(Msg \cup {None}) /\ Len(Waiting') = Count + 1
          /\ Append(Waiting, m) \in Seq(Msg \cup {None})
          /\ Len(Append(Waiting, m)) = Count + 1
      <4>1. (Waiting \in Seq(Msg \cup {None}) /\ Len(Waiting) = Count)'
        BY WaitingSeq, PTL
      <4> QED BY <1>2, <4>1, WaitingSeq, EnqueueCount
    <3>2. ASSUME NEW i \in 1 .. Count + 1
          PROVE  Waiting'[i] = Append(Waiting, m)[i]
      <4>0. Waiting'[i] = items'[SlotOf(i)']
        BY <1>2, EnqueueCount DEF Waiting
      <4>1. CASE i \in 1 .. Count
        <5>1. items'[SlotOf(i)'] = items[SlotOf(i)]
          BY <1>2, <4>1, EnqueueCount, SlotRange DEF enqueue, TypeOK
        <5>2. Append(Waiting, m)[i] = Waiting[i]
          BY <4>1, WaitingSeq
        <5>3. Waiting[i] = items[SlotOf(i)]
          BY <4>1 DEF Waiting
        <5> QED BY <4>0, <5>1, <5>2, <5>3
      <4>2. CASE i = Count + 1
        <5>1. SlotOf(i)' = rear
          BY <1>2, <4>2, EnqueueCount
        <5>2. items'[rear] = m
          BY <1>2 DEF enqueue, TypeOK
        <5>3. Append(Waiting, m)[i] = m
          BY <4>2, WaitingSeq
        <5> QED BY <4>0, <5>1, <5>2, <5>3
      <4> QED
        <5>1. Count \in Nat
          BY CountRange DEF IInv
        <5>2. i \in 1 .. Count \/ i = Count + 1
          BY <5>1
        <5> QED BY <4>1, <4>2, <5>2
    <3> QED BY <3>1, <3>2, CountRange
  <2>3. UNCHANGED <<IF pc = "idle" THEN None ELSE items[element], answered>>
    BY <1>2, InWorkSlotGuarded DEF enqueue, TypeOK
  <2> QED BY <2>1, <2>2, <2>3 DEF Fifo!Accept
<1> QED BY <1>1, <1>2

\* Advancing front takes the head of the abstract queue.
LEMMA DequeueRefines == ASSUME IInv, TypeOK', dequeueAdvance PROVE Fifo!Take
<1> USE DEF IInv
<1>1. /\ Count \in Nat \ {0} /\ Count' = Count - 1 /\ SlotOf(1) = front
      /\ Waiting \in Seq(Msg \cup {None}) /\ Len(Waiting) = Count
  BY DequeueCount, WaitingSeq
<1>2. Waiting # <<>> /\ Head(Waiting) = items[front]
  BY <1>1 DEF Waiting
<1>3. (Waiting \in Seq(Msg \cup {None}) /\ Len(Waiting) = Count)'
  BY WaitingSeq, PTL
<1>4. Waiting' = Tail(Waiting)
  <2>1. ASSUME NEW i \in 1 .. Count - 1 PROVE Waiting'[i] = Tail(Waiting)[i]
    <3>1. Waiting'[i] = items'[SlotOf(i)']
      BY <1>1 DEF Waiting
    <3>2. SlotOf(i)' = SlotOf(i + 1) /\ items' = items
      BY DequeueCount DEF dequeueAdvance
    <3>3. Tail(Waiting)[i] = Waiting[i + 1]
      BY <1>1
    <3>4. Waiting[i + 1] = items[SlotOf(i + 1)]
      BY <1>1 DEF Waiting
    <3> QED BY <3>1, <3>2, <3>3, <3>4
  <2>2. Tail(Waiting) \in Seq(Msg \cup {None}) /\ Len(Tail(Waiting)) = Count - 1
    BY <1>1, <1>2
  <2> QED BY <1>1, <1>3, <2>1, <2>2
<1> QED BY <1>2, <1>4 DEF dequeueAdvance, Fifo!Take

\* Every step of the ring is a step of the FIFO or leaves it unchanged.
LEMMA StepRefines ==
  ASSUME IInv, TypeOK', [Next]_vars PROVE [Fifo!Next]_(Fifo!vars)
<1>1. ASSUME NEW m \in Msg, enqueue(m) PROVE [Fifo!Next]_(Fifo!vars)
  BY <1>1, EnqueueRefines DEF Fifo!Next
<1>2. CASE dequeueAdvance
  BY <1>2, DequeueRefines DEF Fifo!Next
<1>3. CASE dequeueWrap
  <2>1. Wrap(front)' = Wrap(front)
    BY <1>3 DEF dequeueWrap, Wrap, IInv, TypeOK
  <2>2. UNCHANGED <<Count, Waiting>>
    BY <1>3, <2>1 DEF dequeueWrap, Count, Waiting, SlotOf, Wrap
  <2> QED BY <1>3, <2>2 DEF dequeueWrap, Fifo!vars
<1>4. CASE serve
  BY <1>4 DEF serve, Fifo!vars, Waiting, Count, SlotOf, Wrap
<1>5. CASE reply
  <2>1. Waiting' = Waiting
    BY <1>5 DEF reply, Waiting, Count, SlotOf, Wrap
  <2> QED BY <1>5, <2>1 DEF reply, Fifo!Next, Fifo!Finish, IInv
<1>6. CASE UNCHANGED vars
  BY <1>6 DEF vars, Fifo!vars, Waiting, Count, SlotOf, Wrap
<1> QED BY <1>1, <1>2, <1>3, <1>4, <1>5, <1>6 DEF Next, MainLoop

\* Safety half of ImplementsFifo: enqueue() and dequeue() of aon_rpc.c, with
\* the handler free to interrupt the main loop, implement the bounded FIFO.
THEOREM RingImplementsFifo == Spec => Fifo!SafetySpec
<1>1. Init => Fifo!Init
  <2> SUFFICES ASSUME Init PROVE Fifo!Init
    OBVIOUS
  <2>1. front = 0 /\ rear = 0 /\ Wrap(0) = 0
    BY DEF Init, initializeQueue, Wrap
  <2>2. Count = 0
    BY <2>1 DEF Count
  <2>3. Waiting = <<>>
    BY <2>2 DEF Waiting
  <2> QED BY <2>3 DEF Init, Fifo!Init
<1>2. IInv /\ TypeOK' /\ [Next]_vars => [Fifo!Next]_(Fifo!vars)
  BY StepRefines
<1>3. IInv => TypeOK
  BY DEF IInv
<1> QED BY <1>1, <1>2, <1>3, Inductive, PTL DEF Spec, Fifo!SafetySpec
=============================================================================
