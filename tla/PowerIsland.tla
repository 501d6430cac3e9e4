---------------------------- MODULE PowerIsland ------------------------------
(***************************************************************************)
(* What the power sequences of power.c promise of each power island (a     *)
(* C910 core, a multimedia domain, the AP as a whole): its supply changes  *)
(* only while it is isolated, in reset and without a clock, and it is      *)
(* opened only when it is powered.  An island in late is one whose supply  *)
(* did not follow in time, which the firmware notices and then ignores.    *)
(***************************************************************************)
CONSTANTS Islands,  \* the power islands
          Bare      \* those without reset and clock lines of their own

VARIABLES pow, iso, rst, clk, late   \* sets of islands

vars == <<pow, iso, rst, clk, late>>

Init ==
  /\ pow = Islands /\ iso = {} /\ late = {}
  /\ rst \in SUBSET Islands /\ clk \in SUBSET Islands
  /\ Islands \subseteq rst \cup clk

Quiescent(d) == d \in iso /\ (d \in Bare \/ (d \in rst /\ d \notin clk))

\* The supply comes or goes.
Switch(d) ==
  /\ Quiescent(d) \/ d \in late
  /\ pow' \in {pow \cup {d}, pow \ {d}}
  /\ UNCHANGED <<iso, rst, clk>>

Hold == rst \subseteq rst' /\ UNCHANGED <<pow, iso, clk>>

Stop(d) == d \in rst /\ clk' = clk \ {d} /\ UNCHANGED <<pow, iso, rst>>

Isolate(d) == d \in rst \cup Bare /\ iso' = iso \cup {d} /\ UNCHANGED <<pow, rst, clk>>

Open(d) == d \in pow \cup late /\ iso' = iso \ {d} /\ UNCHANGED <<pow, rst, clk>>

Start(d) == d \notin iso /\ clk' = clk \cup {d} /\ UNCHANGED <<pow, iso, rst>>

Release(d) ==
  /\ d \in clk \ iso
  /\ d \in pow \cup late
  /\ rst' = rst \ {d}
  /\ UNCHANGED <<pow, iso, clk>>

Notice == UNCHANGED <<pow, iso, rst, clk>>

Next ==
  /\ late' \subseteq Islands /\ late \ late' \subseteq pow' \cup iso'
  /\ \/ Notice
     \/ Hold /\ rst' \subseteq Islands
     \/ \E d \in Islands : Switch(d) \/ Stop(d) \/ Isolate(d) \/ Open(d)
                           \/ Start(d) \/ Release(d)

Spec == Init /\ [][Next]_vars

\* What that is good for: an island out of reset has its clock and is not
\* isolated, and one that is not isolated is powered, unless its supply is
\* late.
Usable ==
  \A d \in Islands :
    /\ d \notin rst \cup Bare => d \in clk \ iso
    /\ d \in pow \cup iso \cup late
=============================================================================
