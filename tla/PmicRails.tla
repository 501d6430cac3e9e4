----------------------------- MODULE PmicRails ------------------------------
(* Facts that the proofs about the regulator driver share: what the board    *)
(* file says of a rail, and the tables of the driver.                        *)
EXTENDS AonPmic, TLAPS

(* What the board file says of a rail.                                       *)
LEMMA RailFacts ==
  ASSUME board \in Boards, NEW x \in Regus, NEW j \in Ids(x)
  PROVE  LET r == board.regu[x].id[j] IN
         /\ r.min_uv \in Nat /\ r.max_uv \in Nat /\ r.step_uv \in Nat
         /\ r.min_uv <= r.max_uv /\ r.max_uv < W \div 2 /\ (r.min_uv < r.max_uv => r.step_uv > 0)
         /\ j \in Nat \ {0} /\ j <= Len(board.regu[x].id) /\ Len(board.regu[x].id) \in Nat
<1>1. board.regu[x].id \in Seq(Rail)
  BY BoardAssumption DEF Regus
<1>2. board.regu[x].id[j] \in Rail
  BY <1>1 DEF Ids
<1>3. LET r == board.regu[x].id[j] IN
      r.min_uv <= r.max_uv /\ r.max_uv < W \div 2 /\ (r.min_uv < r.max_uv => r.step_uv > 0)
  BY BoardAssumption DEF Regus, Ids
<1>4. board.regu[x].id[j].min_uv \in Nat /\ board.regu[x].id[j].max_uv \in Nat /\ board.regu[x].id[j].step_uv \in Nat
  BY <1>2 DEF Rail
<1>5. j \in Nat \ {0} /\ j <= Len(board.regu[x].id) /\ Len(board.regu[x].id) \in Nat
  BY <1>1 DEF Ids
<1> QED BY <1>3, <1>4, <1>5

(* A table with one entry per rail *)
Table(f) ==
    /\ f = [x \in Regus |-> f[x]]
    /\ \A x \in Regus : f[x] = [j \in Ids(x) |-> f[x][j]]

(* The registers of the chip at the start are such a table.                  *)
LEMMA TableInit ==
  ASSUME NEW f, NEW V, f \in [Regus -> UNION {[Ids(x) -> V] : x \in Regus}],
         \A x \in Regus : DOMAIN f[x] = Ids(x)
  PROVE  Table(f)
<1>1. f = [x \in Regus |-> f[x]]
  OBVIOUS
<1>2. ASSUME NEW x \in Regus
      PROVE  f[x] = [j \in Ids(x) |-> f[x][j]]
  <2>1. PICK y \in Regus : f[x] \in [Ids(y) -> V]
    OBVIOUS
  <2>2. DOMAIN f[x] = Ids(x) /\ DOMAIN f[x] = Ids(y)
    BY <2>1
  <2> QED BY <2>1, <2>2
<1> QED BY <1>1, <1>2 DEF Table

Put(f, y, i, z) == [f EXCEPT ![y][i] = z]

(* Writing the entry of a rail leaves the others; a rail that does not exist *)
(* changes nothing.                                                          *)
LEMMA PutOne ==
  ASSUME NEW f, Table(f), NEW y, NEW i, NEW z
  PROVE  LET g == Put(f, y, i, z) IN
         /\ Table(g)
         /\ \A x \in Regus : \A j \in Ids(x) : g[x][j] = IF x = y /\ j = i THEN z ELSE f[x][j]
<1> DEFINE g == Put(f, y, i, z)
<1>1. g = [x \in Regus |-> g[x]]
  BY DEF Table, Put
<1>2. ASSUME NEW x \in Regus
      PROVE  /\ g[x] = [j \in Ids(x) |-> g[x][j]]
             /\ \A j \in Ids(x) : g[x][j] = IF x = y /\ j = i THEN z ELSE f[x][j]
  <2>1. f[x] = [j \in Ids(x) |-> f[x][j]]
    BY DEF Table
  <2>2. g[x] = IF x = y THEN [f[x] EXCEPT ![i] = z] ELSE f[x]
    BY DEF Table, Put
  <2> HIDE DEF g
  <2> QED BY <2>1, <2>2
<1> HIDE DEF g
<1>3. Table(g)
  BY <1>1, <1>2 DEF Table
<1> QED BY <1>2, <1>3 DEF g
=============================================================================
