------------------------- MODULE PmicCouplingProofs -------------------------
(* One write of a coupled rail, for every board: what the unsigned           *)
(* arithmetic of get_min_and_max_vol_by_coupled_info() and                   *)
(* csi_pmic_get_voltage_balanced() computes.                                 *)
EXTENDS PmicRails, WellFoundedInduction

-----------------------------------------------------------------------------
(* Numbers *)

(* The number of words divides by two and by four.                           *)
LEMMA WordSize == W \in Nat \ {0} /\ W \div 2 \in Nat /\ W = 2 * (W \div 2) /\ W \div 4 \in Nat /\ W = 4 * (W \div 4)
<1>1. W \in Nat \ {0} /\ W % 4 = 0
  BY BoardAssumption
<1> QED BY <1>1

(* The conversion to a word keeps what fits ...                              *)
LEMMA WordInside == ASSUME NEW v \in Int, 0 <= v, v < W PROVE U(v) = v
<1>1. W \in Nat \ {0}
  BY WordSize
<1> QED BY <1>1 DEF U

(* ... maps a negative number to the upper end ...                           *)
LEMMA WordNegative == ASSUME NEW v \in Int, -W <= v, v < 0 PROVE U(v) = v + W
<1>1. W \in Nat \ {0}
  BY WordSize
<1> QED BY <1>1 DEF U

(* ... and always gives a word.                                              *)
LEMMA WordRange == ASSUME NEW v \in Int PROVE U(v) \in 0..(W - 1)
<1>1. W \in Nat \ {0}
  BY WordSize
<1> QED BY <1>1 DEF U

(* Division rounds to zero: the multiple of the divisor does not pass a.     *)
LEMMA QuotNear ==
  ASSUME NEW a \in Int, NEW s \in Nat \ {0}
  PROVE  /\ Quot(a, s) \in Int
         /\ a >= 0 => 0 <= Quot(a, s) * s /\ Quot(a, s) * s <= a
         /\ a < 0 => a <= Quot(a, s) * s /\ Quot(a, s) * s <= 0
<1>1. ASSUME NEW b \in Nat
      PROVE  b \div s \in Nat /\ 0 <= (b \div s) * s /\ (b \div s) * s <= b
  OBVIOUS
<1>2. CASE a >= 0
  BY <1>1, <1>2 DEF Quot
<1>3. CASE a < 0
  <2>1. -a \in Nat
    BY <1>3
  <2>2. Quot(a, s) = -((-a) \div s)
    BY <1>3 DEF Quot
  <2> DEFINE d == (-a) \div s
  <2>3. d \in Nat /\ 0 <= d * s /\ d * s <= -a
    BY <1>1, <2>1
  <2>4. (-d) * s = -(d * s)
    BY <2>3
  <2> HIDE DEF d
  <2> QED BY <1>3, <2>2, <2>3, <2>4 DEF d
<1> QED BY <1>2, <1>3

(* A set of numbers that is not empty has a least one.                       *)
LEMMA Least == ASSUME NEW T \in SUBSET Nat, T # {} PROVE \E n \in T : \A m \in T : n <= m
<1> DEFINE Less == {ss \in Nat \X Nat : ss[1] < ss[2]}
<1>1. IsWellFoundedOn(Less, Nat)
  BY NatLessThanWellFounded, Zenon DEF OpToRel
<1>2. PICK n \in T : \A m \in T : ~(<<m, n>> \in Less)
  BY <1>1, WFMin
<1>3. \A m \in T : ~(m < n)
  BY <1>2
<1> QED BY <1>3

(* Min and Max, which are choices, return an element that is one.            *)
LEMMA MinIs == ASSUME NEW T \in SUBSET Nat, T # {} PROVE Min(T) \in T /\ \A m \in T : Min(T) <= m
BY Least DEF Min

(* For Max the set has to be bounded, as words are.                          *)
LEMMA MaxIs ==
  ASSUME NEW N \in Nat, NEW T \in SUBSET (0..N), T # {}
  PROVE  Max(T) \in T /\ \A m \in T : Max(T) >= m
<1> DEFINE V == {N - m : m \in T}
<1>1. V \in SUBSET Nat
  OBVIOUS
<1>2. V # {}
  OBVIOUS
<1>3. PICK n \in V : \A m \in V : n <= m
  BY <1>1, <1>2, Least
<1>4. PICK k \in T : n = N - k
  BY <1>3
<1>5. \A m \in T : k >= m
  <2> TAKE m \in T
  <2>1. N - m \in V
    OBVIOUS
  <2>2. n <= N - m
    BY <1>3, <2>1
  <2> QED BY <1>4, <2>2
<1> QED BY <1>4, <1>5 DEF Max

-----------------------------------------------------------------------------
(* One write of a coupled rail *)

(* best_margin in whole steps *)
Steps(best, step) == IF step = 0 THEN best ELSE Quot(best, step) * step

(* The steps never go further than the margin, and are a multiple of one.    *)
LEMMA StepsNear ==
  ASSUME NEW best \in Int, NEW step \in Nat
  PROVE  /\ Steps(best, step) \in Int
         /\ best >= 0 => 0 <= Steps(best, step) /\ Steps(best, step) <= best
         /\ best < 0 => best <= Steps(best, step) /\ Steps(best, step) <= 0
         /\ step > 0 => \E k \in Int : Steps(best, step) = k * step
<1>1. CASE step = 0
  BY <1>1 DEF Steps
<1>2. CASE step > 0
  <2>1. step \in Nat \ {0}
    BY <1>2
  <2>2. Steps(best, step) = Quot(best, step) * step
    BY <2>1 DEF Steps
  <2>3. Quot(best, step) \in Int
    BY <2>1, QuotNear
  <2>4. Quot(best, step) * step \in Int
    BY <2>1, <2>3
  <2> QED BY <2>1, <2>2, <2>3, <2>4, QuotNear
<1> QED BY <1>1, <1>2

(* The margin upwards: the unsigned minimum is the signed one when the limit *)
(* is above the voltage, and never more than the way to the target.          *)
LEMMA MarginUp ==
  ASSUME NEW v \in 0..(W \div 2 - 1), NEW t \in 0..(W \div 2 - 1), v < t, NEW m \in 0..(W - 1)
  PROVE  LET best == S(Min({U(m - v), U(t - v)})) IN
         best \in 0..(t - v) /\ (v <= m => v + best <= m)
<1> DEFINE a == U(m - v)
           b == U(t - v)
           best == Min({a, b})
<1>1. a \in 0..(W - 1) /\ b = t - v /\ (v <= m => a = m - v)
  BY WordSize, WordRange, WordInside
<1>2. b \in Nat /\ b < W \div 2
  BY <1>1, WordSize
<1>3. best \in {a, b} /\ best <= a /\ best <= b
  <2>1. {a, b} \in SUBSET Nat
    BY <1>1, <1>2
  <2> HIDE DEF a, b
  <2> QED BY <2>1, MinIs
<1> HIDE DEF a, b, best
<1>4. best \in Nat /\ best < W \div 2
  BY <1>1, <1>2, <1>3, WordSize
<1>5. S(best) = best
  BY <1>4, WordSize, WordInside DEF S
<1> QED BY <1>1, <1>3, <1>4, <1>5, WordSize DEF a, b, best

(* The margin downwards: from above the limit the unsigned maximum is the    *)
(* signed one; from the limit or below it is the whole way to the target.    *)
LEMMA MarginDown ==
  ASSUME NEW v \in 0..(W \div 2 - 1), NEW t \in 0..(W \div 2 - 1), t < v, NEW m \in 0..(W - 1)
  PROVE  LET best == S(Max({U(m - v), U(t - v)})) IN
         best \in (t - v)..(-1) /\ (m < v => v + best >= m)
<1> DEFINE a == U(m - v)
           b == U(t - v)
           best == Max({a, b})
<1>1. a \in 0..(W - 1) /\ b = t - v + W /\ (m < v => a = m - v + W) /\ (v <= m => a = m - v)
  BY WordSize, WordRange, WordInside, WordNegative
<1>2. b \in 0..(W - 1) /\ b >= W \div 2
  BY <1>1, WordSize
<1>3. best \in {a, b} /\ best >= a /\ best >= b
  <2>1. {a, b} \in SUBSET (0..(W - 1)) /\ W - 1 \in Nat
    BY <1>1, <1>2, WordSize
  <2> HIDE DEF a, b
  <2> QED BY <2>1, MaxIs
<1> HIDE DEF a, b, best
<1>4. best \in 0..(W - 1) /\ best >= W \div 2
  BY <1>1, <1>2, <1>3, WordSize
<1>5. S(best) = best - W
  BY <1>4, WordSize, WordInside DEF S
<1> QED BY <1>1, <1>3, <1>4, <1>5, WordSize DEF a, b, best

-----------------------------------------------------------------------------
(* The range of a coupled rail *)

(* Voltages of the rails of a regulator, as words that are not negative.     *)
Volts(x) == [Ids(x) -> 0..(W \div 2 - 1)]

(* What the board file says of a coupling.                                   *)
LEMMA CouplingFacts ==
  ASSUME board \in Boards, NEW x \in Regus, NEW id, NEW c \in couplings(id, x)
  PROVE  /\ c.id0 \in Ids(x) /\ c.id1 \in Ids(x) /\ c.id0 # c.id1
         /\ id = c.id0 \/ id = c.id1
         /\ c.min_spread \in -(W \div 4)..(W \div 4) /\ c.max_spread \in -(W \div 4)..(W \div 4)
<1>1. c \in Range(board.regu[x].coupling) /\ is_id_coupling(id, c)
  BY DEF couplings
<1>2. {c.id0, c.id1} \subseteq DOMAIN board.regu[x].id /\ {c.min_spread, c.max_spread} \subseteq -(W \div 4)..(W \div 4)
  BY <1>1, BoardAssumption DEF Regus
<1> QED BY <1>1, <1>2 DEF is_id_coupling, Ids

(* The limits that one coupling gives to rail id.                            *)
Low(c, id, v) == IF c.id0 = id THEN c.min_spread + v[c.id1] ELSE v[c.id0] - c.max_spread
High(c, id, v) == IF c.id0 = id THEN c.max_spread + v[c.id1] ELSE v[c.id0] - c.min_spread
Lows(id, x, v) == {0} \cup {U(Low(c, id, v)) : c \in couplings(id, x)}
Highs(id, x, v) == {W - 1} \cup {U(High(c, id, v)) : c \in couplings(id, x)}

(* They are numbers that an unsigned word can tell from negative ones.       *)
LEMMA LimitsOfCoupling ==
  ASSUME board \in Boards, NEW x \in Regus, NEW id, NEW v \in Volts(x), NEW c \in couplings(id, x)
  PROVE  /\ Low(c, id, v) \in Int /\ High(c, id, v) \in Int
         /\ -(W \div 4) <= Low(c, id, v) /\ Low(c, id, v) < 3 * (W \div 4)
         /\ -(W \div 4) <= High(c, id, v) /\ High(c, id, v) < 3 * (W \div 4)
<1>1. v[c.id0] \in 0..(W \div 2 - 1) /\ v[c.id1] \in 0..(W \div 2 - 1)
  BY CouplingFacts DEF Volts
<1> QED BY <1>1, CouplingFacts, WordSize DEF Low, High

(* The verdict in a record with a range.                                     *)
LEMMA RangeVerdict ==
  ASSUME NEW r, NEW a, NEW b, NEW ok, r = [min_uv |-> a, max_uv |-> b, ok |-> ok]
  PROVE  r.ok = ok
OBVIOUS

(* get_min_and_max_vol_by_coupled_info() returns the largest lower and the   *)
(* smallest upper limit, as words.                                           *)
LEMMA RangeIs ==
  ASSUME board \in Boards, NEW x \in Regus, NEW id, NEW v \in Volts(x)
  PROVE  LET r == get_min_and_max_vol_by_coupled_info(id, x, v) IN
         /\ r.min_uv \in Lows(id, x, v) /\ \A m \in Lows(id, x, v) : r.min_uv >= m
         /\ r.max_uv \in Highs(id, x, v) /\ \A m \in Highs(id, x, v) : r.max_uv <= m
         /\ r.min_uv \in 0..(W - 1) /\ r.max_uv \in 0..(W - 1)
         /\ r.ok => r.min_uv <= r.max_uv
<1>1. Lows(id, x, v) \in SUBSET (0..(W - 1)) /\ Lows(id, x, v) # {} /\ W - 1 \in Nat
  BY WordSize, WordRange, LimitsOfCoupling DEF Lows
<1>2. Highs(id, x, v) \in SUBSET (0..(W - 1)) /\ Highs(id, x, v) # {}
  BY WordSize, WordRange, LimitsOfCoupling DEF Highs
<1>3. Highs(id, x, v) \in SUBSET Nat
  BY <1>2
<1> DEFINE r == get_min_and_max_vol_by_coupled_info(id, x, v)
<1>4. r = [min_uv |-> Max(Lows(id, x, v)), max_uv |-> Min(Highs(id, x, v)),
           ok |-> couplings(id, x) # {} /\ Max(Lows(id, x, v)) <= Min(Highs(id, x, v))]
  BY DEF get_min_and_max_vol_by_coupled_info, Lows, Highs, Low, High
<1>5. r.min_uv = Max(Lows(id, x, v)) /\ r.max_uv = Min(Highs(id, x, v))
  BY <1>4
<1>6. r.ok => r.min_uv <= r.max_uv
  <2>1. r.ok = (couplings(id, x) # {} /\ Max(Lows(id, x, v)) <= Min(Highs(id, x, v)))
    <3> HIDE DEF r
    <3> QED BY <1>4, RangeVerdict, Zenon
  <2> HIDE DEF r
  <2> QED BY <1>5, <2>1, Zenon
<1>7. r.min_uv \in Lows(id, x, v) /\ \A m \in Lows(id, x, v) : r.min_uv >= m
  BY <1>1, <1>5, MaxIs
<1>8. r.max_uv \in Highs(id, x, v) /\ \A m \in Highs(id, x, v) : r.max_uv <= m
  BY <1>2, <1>3, <1>5, MinIs
<1> QED BY <1>1, <1>2, <1>6, <1>7, <1>8

(* A rail within its spreads is within the range that is returned, and every *)
(* voltage of the range is within the spreads.  A lower limit below zero is  *)
(* refused, because as a word it is above every upper limit.                 *)
LEMMA RangeSound ==
  ASSUME board \in Boards, NEW x \in Regus, NEW id \in Ids(x), NEW v \in Volts(x),
         \A c \in couplings(id, x) : v[c.id0] - v[c.id1] \in c.min_spread..c.max_spread,
         get_min_and_max_vol_by_coupled_info(id, x, v).ok
  PROVE  LET r == get_min_and_max_vol_by_coupled_info(id, x, v) IN
         /\ r.min_uv <= v[id] /\ v[id] <= r.max_uv
         /\ \A c \in couplings(id, x) : Low(c, id, v) <= r.min_uv /\ r.max_uv <= High(c, id, v)
<1> DEFINE r == get_min_and_max_vol_by_coupled_info(id, x, v)
<1>1. v[id] \in 0..(W \div 2 - 1)
  BY DEF Volts
<1>2. r.min_uv \in 0..(W - 1) /\ r.max_uv \in 0..(W - 1) /\ r.min_uv <= r.max_uv
  BY RangeIs
<1>3. /\ r.min_uv \in Lows(id, x, v) /\ \A m \in Lows(id, x, v) : r.min_uv >= m
      /\ r.max_uv \in Highs(id, x, v) /\ \A m \in Highs(id, x, v) : r.max_uv <= m
  BY RangeIs
<1> HIDE DEF r
<1>4. ASSUME NEW c \in couplings(id, x)
      PROVE  /\ U(High(c, id, v)) = High(c, id, v) /\ r.max_uv <= High(c, id, v) /\ v[id] <= High(c, id, v)
             /\ U(Low(c, id, v)) = Low(c, id, v) /\ Low(c, id, v) <= r.min_uv /\ Low(c, id, v) <= v[id]
  <2>1. v[c.id0] \in Int /\ v[c.id1] \in Int /\ c.min_spread \in Int /\ c.max_spread \in Int /\ (id = c.id0 \/ id = c.id1)
    BY CouplingFacts, WordSize DEF Volts
  <2>2. Low(c, id, v) <= v[id] /\ v[id] <= High(c, id, v)
    BY <2>1 DEF Low, High
  <2>3. /\ Low(c, id, v) \in Int /\ High(c, id, v) \in Int
        /\ -(W \div 4) <= Low(c, id, v) /\ Low(c, id, v) < 3 * (W \div 4)
        /\ High(c, id, v) < 3 * (W \div 4)
    BY LimitsOfCoupling
  <2>4. U(High(c, id, v)) = High(c, id, v)
    BY <1>1, <2>2, <2>3, WordSize, WordInside
  <2>5. r.max_uv <= High(c, id, v)
    BY <1>3, <2>4 DEF Highs
  <2>6. U(Low(c, id, v)) <= r.min_uv
    BY <1>3 DEF Lows
  <2>7. U(Low(c, id, v)) = Low(c, id, v)
    <3>1. CASE Low(c, id, v) >= 0
      BY <2>3, <3>1, WordSize, WordInside
    <3>2. CASE Low(c, id, v) < 0
      <4>1. U(Low(c, id, v)) = Low(c, id, v) + W
        BY <2>3, <3>2, WordSize, WordNegative
      <4> QED BY <1>2, <2>3, <2>5, <2>6, <4>1, WordSize
    <3> QED BY <2>3, <3>1, <3>2
  <2> QED BY <2>2, <2>4, <2>5, <2>6, <2>7
<1>5. r.min_uv <= v[id]
  BY <1>1, <1>3, <1>4 DEF Lows
<1>6. v[id] <= r.max_uv
  BY <1>1, <1>3, <1>4, WordSize DEF Highs
<1> QED BY <1>4, <1>5, <1>6 DEF r

(* The next voltage on the way to a target is a whole number of steps from   *)
(* the present one, not beyond the target, and not beyond the limit of the   *)
(* range on that side, unless the rail is to go down from the limit.         *)
LEMMA Balanced ==
  ASSUME board \in Boards, NEW x \in Regus, NEW id \in Ids(x), NEW v \in Volts(x),
         NEW t \in 0..(W \div 2 - 1), t # v[id]
  PROVE  LET r == get_min_and_max_vol_by_coupled_info(id, x, v)
             b == csi_pmic_get_voltage_balanced(id, x, v, t)
             step == board.regu[x].id[id].step_uv
         IN  /\ b.uv \in Int /\ Toward(v[id], b.uv, t)
             /\ t > v[id] /\ v[id] <= r.max_uv => b.uv <= r.max_uv
             /\ t < v[id] /\ r.min_uv < v[id] => r.min_uv <= b.uv
             /\ step > 0 => \E k \in Int : b.uv = v[id] + k * step
<1> DEFINE r == get_min_and_max_vol_by_coupled_info(id, x, v)
           step == board.regu[x].id[id].step_uv
           vi == v[id]
           best == S(IF t > vi THEN Min({U(r.max_uv - vi), U(t - vi)}) ELSE Max({U(r.min_uv - vi), U(t - vi)}))
           b == csi_pmic_get_voltage_balanced(id, x, v, t)
<1>1. vi \in 0..(W \div 2 - 1)
  BY DEF Volts
<1>2. r.min_uv \in 0..(W - 1) /\ r.max_uv \in 0..(W - 1)
  BY RangeIs
<1>3. step \in Nat
  BY RailFacts
<1>4. b.uv = U(vi + Steps(best, step))
  BY DEF csi_pmic_get_voltage_balanced, Steps
<1> HIDE DEF r, step, vi, b
<1>5. ASSUME t > vi
      PROVE  /\ b.uv \in Int /\ Toward(vi, b.uv, t)
             /\ vi <= r.max_uv => b.uv <= r.max_uv
             /\ step > 0 => \E k \in Int : b.uv = vi + k * step
  <2>1. best \in 0..(t - vi) /\ (vi <= r.max_uv => vi + best <= r.max_uv)
    BY <1>1, <1>2, <1>5, MarginUp
  <2> HIDE DEF best
  <2>2. best \in Int /\ best >= 0
    BY <1>1, <2>1
  <2>3. /\ Steps(best, step) \in Int /\ 0 <= Steps(best, step) /\ Steps(best, step) <= best
        /\ step > 0 => \E k \in Int : Steps(best, step) = k * step
    BY <1>3, <2>2, StepsNear
  <2>4. b.uv = vi + Steps(best, step)
    BY <1>1, <1>4, <2>1, <2>3, WordSize, WordInside
  <2> QED BY <1>1, <1>2, <1>5, <2>1, <2>2, <2>3, <2>4 DEF Toward
<1>6. ASSUME t < vi
      PROVE  /\ b.uv \in Int /\ Toward(vi, b.uv, t)
             /\ r.min_uv < vi => r.min_uv <= b.uv
             /\ step > 0 => \E k \in Int : b.uv = vi + k * step
  <2>1. best \in (t - vi)..(-1) /\ (r.min_uv < vi => vi + best >= r.min_uv)
    <3>1. best = S(Max({U(r.min_uv - vi), U(t - vi)}))
      BY <1>1, <1>6
    <3> HIDE DEF best
    <3> QED BY <1>1, <1>2, <1>6, <3>1, MarginDown
  <2> HIDE DEF best
  <2>2. best \in Int /\ best < 0
    BY <1>1, <2>1
  <2>3. /\ Steps(best, step) \in Int /\ best <= Steps(best, step) /\ Steps(best, step) <= 0
        /\ step > 0 => \E k \in Int : Steps(best, step) = k * step
    BY <1>3, <2>2, StepsNear
  <2>4. b.uv = vi + Steps(best, step)
    BY <1>1, <1>4, <2>1, <2>3, WordSize, WordInside
  <2> QED BY <1>1, <1>2, <1>6, <2>1, <2>2, <2>3, <2>4 DEF Toward
<1>7. t < vi \/ t > vi
  BY <1>1 DEF vi
<1>8. /\ b.uv \in Int /\ Toward(vi, b.uv, t)
      /\ t > vi /\ vi <= r.max_uv => b.uv <= r.max_uv
      /\ t < vi /\ r.min_uv < vi => r.min_uv <= b.uv
      /\ step > 0 => \E k \in Int : b.uv = vi + k * step
  BY <1>5, <1>6, <1>7
<1> QED BY <1>8 DEF r, step, vi, b

(* da9063_set_voltage() writes the highest voltage of the rail that is not   *)
(* above the one it is given.                                                *)
LEMMA SetVoltage ==
  ASSUME NEW r, r.min_uv \in Nat, r.max_uv \in Nat, r.step_uv \in Nat \ {0}, NEW w \in r.min_uv..r.max_uv
  PROVE  LET z == da9063_set_voltage(r, w) IN
         /\ z \in Int /\ OnGrid(r, z) /\ z <= w
         /\ OnGrid(r, w) => z = w
         /\ \A v \in Int, k \in Int : OnGrid(r, v) /\ w = v + k * r.step_uv => z = w
<1> DEFINE lo == r.min_uv
           s == r.step_uv
           q == (w - lo) \div s
<1>1. w - lo \in Nat /\ s \in Nat \ {0} /\ lo \in Nat
  OBVIOUS
<1> HIDE DEF lo, s
<1>2. q \in Nat /\ q * s \in Nat /\ q * s <= w - lo
  BY <1>1
<1>3. (w - lo) % s = 0 => q * s = w - lo
  BY <1>1
<1>4. (q * s) % s = 0
  BY <1>1, <1>2
<1>5. da9063_set_voltage(r, w) = lo + q * s
  BY DEF da9063_set_voltage, lo, s
<1>6. ASSUME NEW v \in Int, NEW k \in Int, lo <= v, (v - lo) % s = 0, w = v + k * s
      PROVE  q * s = w - lo
  <2>1. PICK n \in Int : v - lo = n * s
    BY <1>1, <1>6
  <2>2. w - lo = (n + k) * s
    BY <1>1, <1>6, <2>1
  <2>3. ((n + k) * s) \div s = n + k
    BY <1>1, <2>1
  <2> QED BY <1>1, <2>1, <2>2, <2>3
<1> HIDE DEF q
<1>7. w \in Int
  BY <1>1 DEF lo
<1> QED BY <1>1, <1>2, <1>3, <1>4, <1>5, <1>6, <1>7 DEF OnGrid, lo, s
=============================================================================
