------------------------- MODULE PowerIslandProofs ---------------------------
(* What PowerIsland promises is enough for its islands to be usable.         *)
EXTENDS PowerIsland, TLAPS

\* For any set of islands, whatever programs run on them in whatever order: an
\* island out of reset has its clock and is not isolated, and one that is not
\* isolated is powered or known to be late (the order of the steps in the
\* *_powerdown() and *_powerup() of power.c).
THEOREM UsableHolds == Spec => []Usable
<1>1. Init => Usable
  BY DEF Init, Usable
<1>2. Usable /\ [Next]_vars => Usable'
  <2> SUFFICES ASSUME Usable, [Next]_vars PROVE Usable'
    OBVIOUS
  <2>1. CASE UNCHANGED vars
    BY <2>1 DEF vars, Usable
  <2>2. CASE Next
    \* an island that is no longer late has its supply or is isolated
    <3> DEFINE Supplied == \A d \in Islands : d \in pow' \cup iso' \cup late'
               InUse == \A d \in Islands : d \notin rst' \cup Bare => d \in clk' \ iso'
    <3>1. late \ late' \subseteq pow' \cup iso'
      BY <2>2 DEF Next
    <3>2. CASE Notice
      BY <3>1, <3>2 DEF Notice, Usable
    <3>3. CASE Hold
      BY <3>1, <3>3 DEF Hold, Usable
    <3>4. ASSUME NEW d \in Islands, Switch(d) PROVE Usable'
      <4>1. InUse
        BY <3>4 DEF Switch, Usable
      <4>2. Supplied
        BY <3>1, <3>4 DEF Switch, Quiescent, Usable
      <4> QED BY <4>1, <4>2 DEF Usable
    <3>5. ASSUME NEW d \in Islands, Stop(d) PROVE Usable'
      BY <3>1, <3>5 DEF Stop, Usable
    <3>6. ASSUME NEW d \in Islands, Isolate(d) PROVE Usable'
      BY <3>1, <3>6 DEF Isolate, Usable
    <3>7. ASSUME NEW d \in Islands, Open(d) PROVE Usable'
      BY <3>1, <3>7 DEF Open, Usable
    <3>8. ASSUME NEW d \in Islands, Start(d) PROVE Usable'
      BY <3>1, <3>8 DEF Start, Usable
    <3>9. ASSUME NEW d \in Islands, Release(d) PROVE Usable'
      BY <3>1, <3>9 DEF Release, Usable
    <3> QED
      BY <2>2, <3>2, <3>3, <3>4, <3>5, <3>6, <3>7, <3>8, <3>9 DEF Next
  <2> QED
    BY <2>1, <2>2
<1> QED
  BY <1>1, <1>2, PTL DEF Spec
=============================================================================
