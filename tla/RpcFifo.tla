------------------------------- MODULE RpcFifo -------------------------------
(***************************************************************************)
(* What the low-priority request queue of the RPC layer promises, without  *)
(* the ring: requests wait in arrival order, at most Capacity of them, the *)
(* main loop works on one at a time, and it acknowledges the request it    *)
(* took.                                                                   *)
(***************************************************************************)
EXTENDS Naturals, Sequences

CONSTANTS Msg,       \* requests the AP can send
          Capacity,  \* number of requests that can wait
          None       \* no request

VARIABLES waiting,   \* requests accepted and not yet taken, oldest first
          busy,      \* the request the main loop works on
          answered   \* the request the main loop acknowledged last

vars == <<waiting, busy, answered>>

Init == waiting = <<>> /\ busy = None /\ answered = None

\* A request is accepted exactly when fewer than Capacity others wait.
Accept(m) ==
  /\ Len(waiting) < Capacity
  /\ waiting' = Append(waiting, m)
  /\ UNCHANGED <<busy, answered>>

Take ==
  /\ busy = None
  /\ waiting # <<>>
  /\ busy' = Head(waiting)
  /\ waiting' = Tail(waiting)
  /\ UNCHANGED answered

Finish ==
  /\ busy # None
  /\ answered' = busy
  /\ busy' = None
  /\ UNCHANGED waiting

Next == (\E m \in Msg : Accept(m)) \/ Take \/ Finish

Spec == Init /\ [][Next]_vars /\ WF_vars(Take) /\ WF_vars(Finish)

\* The safety part, which is what the proofs establish of the ring.
SafetySpec == Init /\ [][Next]_vars
=============================================================================
