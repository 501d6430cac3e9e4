--------------------------- MODULE AonPmicProofs ----------------------------
(* The way of the voltages to their targets, for every board.                *)
EXTENDS PmicCouplingProofs

(* What set_voltage_rail writes for rail i, and whether it does *)
Temp(x, i, t) ==
    IF couplings(i, x) # {} THEN csi_pmic_get_voltage_balanced(i, x, uv[x], t)
                            ELSE [ok |-> TRUE, uv |-> t]
Write(x, i, t) == da9063_set_voltage(board.regu[x].id[i], Temp(x, i, t).uv)

(* Every register holds a voltage of its rail, and a request whose limits    *)
(* have been checked asks for voltages within them.                          *)
Held == \A x \in Regus : \A j \in Ids(x) : OnGrid(board.regu[x].id[j], uv[x][j])
InLimits(x, tgt) ==
    x \in Regus => \A j \in Ids(x) : tgt[j] \in board.regu[x].id[j].min_uv..board.regu[x].id[j].max_uv
Asked == call.k = "volt" /\ call.i # 0 => InLimits(call.x, call.tgt)
VoltInv == board \in Boards /\ Table(uv) /\ Held /\ Asked

(* The registers hold words that are not negative.                           *)
LEMMA VoltsHeld ==
  ASSUME VoltInv, NEW x \in Regus
  PROVE  uv[x] \in Volts(x)
<1>1. ASSUME NEW j \in Ids(x)
      PROVE  uv[x][j] \in 0..(W \div 2 - 1)
  <2> DEFINE r == board.regu[x].id[j]
             v == uv[x][j]
  <2>1. v \in r.min_uv..r.max_uv
    BY DEF VoltInv, Held, OnGrid
  <2>2. board \in Boards
    BY DEF VoltInv
  <2>3. r.min_uv \in Nat /\ r.max_uv \in Nat /\ r.max_uv < W \div 2
    BY <2>2, RailFacts
  <2> HIDE DEF r, v
  <2>4. v \in 0..(W \div 2 - 1)
    BY <2>1, <2>3, WordSize
  <2> QED BY <2>4 DEF v
<1>2. uv[x] = [j \in Ids(x) |-> uv[x][j]]
  BY DEF VoltInv, Table
<1> QED BY <1>1, <1>2 DEF Volts

(* One write: the register gets a voltage of the rail on the way to the      *)
(* target; for a coupled rail it is what was computed.                       *)
LEMMA RailWrite ==
  ASSUME VoltInv, NEW x \in Regus, NEW i \in Ids(x),
         NEW t \in board.regu[x].id[i].min_uv..board.regu[x].id[i].max_uv, t # uv[x][i]
  PROVE  /\ OnGrid(board.regu[x].id[i], Write(x, i, t))
         /\ couplings(i, x) # {} => Write(x, i, t) = csi_pmic_get_voltage_balanced(i, x, uv[x], t).uv
         /\ couplings(i, x) # {} \/ OnGrid(board.regu[x].id[i], t) => Toward(uv[x][i], Write(x, i, t), t)
<1> DEFINE r == board.regu[x].id[i]
           v == uv[x][i]
           b == csi_pmic_get_voltage_balanced(i, x, uv[x], t)
<1>1. board \in Boards /\ uv[x] \in Volts(x)
  BY VoltsHeld DEF VoltInv
<1>2. OnGrid(r, v)
  BY DEF VoltInv, Held
<1>3. r.min_uv \in Nat /\ r.max_uv \in Nat /\ r.step_uv \in Nat /\ r.max_uv < W \div 2 /\ (r.min_uv < r.max_uv => r.step_uv > 0)
  BY <1>1, RailFacts
<1>4. v \in r.min_uv..r.max_uv
  BY <1>2 DEF OnGrid
<1>5. t \in r.min_uv..r.max_uv /\ t # v
  OBVIOUS
<1> HIDE DEF r, v, b
<1>6. t \in 0..(W \div 2 - 1) /\ v \in Int /\ r.step_uv \in Nat \ {0}
  BY <1>3, <1>4, <1>5, WordSize
<1>7. CASE couplings(i, x) # {}
  <2>1. Write(x, i, t) = da9063_set_voltage(r, b.uv)
    BY <1>7 DEF Write, Temp, r, b
  <2>2. /\ b.uv \in Int /\ Toward(v, b.uv, t)
        /\ r.step_uv > 0 => \E k \in Int : b.uv = v + k * r.step_uv
    BY <1>1, <1>6, Balanced DEF r, v, b
  <2>3. PICK k \in Int : b.uv = v + k * r.step_uv
    BY <1>6, <2>2
  <2>4. b.uv \in r.min_uv..r.max_uv
    BY <1>3, <1>4, <1>5, <2>2 DEF Toward
  <2>5. OnGrid(r, da9063_set_voltage(r, b.uv))
    BY <1>3, <1>6, <2>4, SetVoltage
  <2>6. \A n \in Int, m \in Int : OnGrid(r, n) /\ b.uv = n + m * r.step_uv => da9063_set_voltage(r, b.uv) = b.uv
    BY <1>3, <1>6, <2>4, SetVoltage
  <2>7. da9063_set_voltage(r, b.uv) = b.uv
    BY <1>2, <1>6, <2>3, <2>6
  <2>8. OnGrid(r, Write(x, i, t)) /\ Write(x, i, t) = b.uv
    BY <2>1, <2>5, <2>7, Zenon
  <2> QED BY <1>7, <2>2, <2>8, Zenon DEF r, v, b
<1>8. CASE couplings(i, x) = {}
  <2>1. Write(x, i, t) = da9063_set_voltage(r, t)
    BY <1>8 DEF Write, Temp, r
  <2>2. OnGrid(r, da9063_set_voltage(r, t)) /\ (OnGrid(r, t) => da9063_set_voltage(r, t) = t)
    BY <1>3, <1>5, <1>6, SetVoltage
  <2>3. Toward(v, t, t)
    BY <1>5, <1>6 DEF Toward
  <2> QED BY <1>8, <2>1, <2>2, <2>3, Zenon DEF r, v
<1> QED BY <1>7, <1>8

(* Only set_voltage_rail writes a register.                                  *)
LEMMA UvSteps ==
  ASSUME Next
  PROVE  /\ board' = board
         /\ \/ uv' = uv
            \/ /\ call.k = "volt" /\ call.i > 0 /\ call.tgt[call.i] # uv[call.x][call.i]
               /\ Temp(call.x, call.i, call.tgt[call.i]).ok
               /\ uv' = Put(uv, call.x, call.i, Write(call.x, call.i, call.tgt[call.i]))
<1>1. CASE set_voltage_rail
  BY <1>1, Zenon DEF set_voltage_rail, Temp, Write, Put
<1>2. CASE set_voltage_start \/ set_voltage_end
  BY <1>2, Zenon DEF set_voltage_start, set_voltage_end
<1>3. CASE csi_pmic_regulator_ctrl \/ csi_pmic_regulator_ctrl_end
  BY <1>3, Zenon DEF csi_pmic_regulator_ctrl, csi_pmic_regulator_ctrl_end
<1>4. CASE pmic_soft_power_ctrl \/ soft_power_end \/ aon_pmic_poweroff
  BY <1>4, Zenon DEF pmic_soft_power_ctrl, soft_power_end, aon_pmic_poweroff, csi_pmic_soft_power_off
<1>5. CASE set_resource_regulator \/ pwr_set \/ check_fault
  BY <1>5, Zenon DEF set_resource_regulator, pwr_set, check_fault
<1> QED BY <1>1, <1>2, <1>3, <1>4, <1>5 DEF Next, driverStep

(* A request goes on to its rails only after the limits have been checked,   *)
(* and it keeps its targets.                                                 *)
LEMMA CallSteps ==
  ASSUME Next, call'.k = "volt", call'.i # 0
  PROVE  \/ call' = call
         \/ /\ call'.x = call.x /\ call'.tgt = call.tgt
            /\ (call.k = "volt" /\ call.i # 0) \/ InLimits(call.x, call.tgt)
<1>1. CASE call' = None \/ \E x, e, i : call' = Ctrl(x, e, i)
  BY <1>1 DEF None, Ctrl
<1>2. CASE \E x, tgt, after, from : call' = Volt(x, tgt, {}, 0, after, from)
  BY <1>2 DEF Volt
<1>3. CASE set_voltage_start
  <2>1. \/ Return(FALSE)
        \/ /\ \A j \in DOMAIN board.regu[call.x].id :
                 call.tgt[j] \in board.regu[call.x].id[j].min_uv..board.regu[call.x].id[j].max_uv
           /\ \E flag : Goto(VoltAt(flag, 1))
    BY <1>3, Zenon DEF set_voltage_start
  <2>2. Return(FALSE) \/ (InLimits(call.x, call.tgt) /\ \E flag : Goto(VoltAt(flag, 1)))
    BY <2>1, Zenon DEF InLimits, Ids
  <2> QED BY <1>1, <2>2 DEF Return, Goto, VoltAt, Volt
<1>4. CASE set_voltage_rail
  <2>1. call.k = "volt" /\ call.i > 0
    BY <1>4, Zenon DEF set_voltage_rail
  <2>2. Return(FALSE) \/ \E flag, i : Goto(VoltAt(flag, i))
    BY <1>4, Zenon DEF set_voltage_rail
  <2> QED BY <1>1, <2>1, <2>2 DEF Return, Goto, VoltAt, Volt
<1>5. CASE set_voltage_end
  BY <1>1, <1>5, Zenon DEF set_voltage_end, Goto, Return
<1>6. CASE csi_pmic_regulator_ctrl
  <2>1. (\E ok : Return(ok)) \/ \E x, e, i : Goto(Ctrl(x, e, i))
    BY <1>6, Zenon DEF csi_pmic_regulator_ctrl
  <2> QED BY <1>1, <2>1, Zenon DEF Return, Goto
<1>7. CASE csi_pmic_regulator_ctrl_end
  BY <1>1, <1>7, Zenon DEF csi_pmic_regulator_ctrl_end, Return
<1>8. CASE pmic_soft_power_ctrl
  <2>1. Return(FALSE) \/ (\E x, e, i : call' = Ctrl(x, e, i)) \/ \E x, t, from : call' = Volt(x, t, {}, 0, TRUE, from)
    BY <1>8, Zenon DEF pmic_soft_power_ctrl
  <2> QED BY <1>1, <1>2, <2>1, Zenon DEF Return
<1>9. CASE soft_power_end \/ aon_pmic_poweroff \/ check_fault
  BY <1>9, Zenon DEF soft_power_end, aon_pmic_poweroff, csi_pmic_soft_power_off, check_fault
<1>10. CASE set_resource_regulator \/ pwr_set
  BY <1>1, <1>2, <1>10, Zenon DEF set_resource_regulator, pwr_set
<1> QED BY <1>3, <1>4, <1>5, <1>6, <1>7, <1>8, <1>9, <1>10 DEF Next, driverStep

(* At the start every register holds a voltage of its rail.                  *)
LEMMA VoltInit == Init => VoltInv
<1> SUFFICES ASSUME Init PROVE VoltInv
  OBVIOUS
<1>1. board \in Boards /\ Held
  BY DEF Init, Held
<1>2. call = None /\ uv \in [Regus -> UNION {[Ids(x) -> board.start] : x \in Regus}]
  BY DEF Init
<1>3. \A x \in Regus : DOMAIN uv[x] = Ids(x)
  BY DEF Init
<1>4. Table(uv)
  BY <1>2, <1>3, TableInit
<1>5. Asked
  BY <1>2 DEF Asked, None
<1> QED BY <1>1, <1>4, <1>5 DEF VoltInv

(* What a step does to a register of an existing rail: nothing, or the write *)
(* of a request within the limits.                                           *)
LEMMA UvEffect ==
  ASSUME VoltInv, Next
  PROVE  /\ board' = board /\ Table(uv')
         /\ \/ uv' = uv
            \/ /\ call.k = "volt" /\ InLimits(call.x, call.tgt)
               /\ call.tgt[call.i] # uv[call.x][call.i]
               /\ Temp(call.x, call.i, call.tgt[call.i]).ok
               /\ \A x \in Regus : \A j \in Ids(x) :
                     uv'[x][j] = IF x = call.x /\ j = call.i THEN Write(call.x, call.i, call.tgt[call.i])
                                                              ELSE uv[x][j]
<1>1. board' = board
  BY UvSteps
<1>2. CASE uv' = uv
  BY <1>1, <1>2, Zenon DEF VoltInv
<1>3. CASE /\ call.k = "volt" /\ call.i > 0 /\ call.tgt[call.i] # uv[call.x][call.i]
           /\ Temp(call.x, call.i, call.tgt[call.i]).ok
           /\ uv' = Put(uv, call.x, call.i, Write(call.x, call.i, call.tgt[call.i]))
  <2> DEFINE z == Write(call.x, call.i, call.tgt[call.i])
  <2>1. Table(uv)
    BY DEF VoltInv
  <2>2. uv' = Put(uv, call.x, call.i, z)
    BY <1>3
  <2> HIDE DEF z
  <2>3. Table(uv') /\ \A x \in Regus : \A j \in Ids(x) : uv'[x][j] = IF x = call.x /\ j = call.i THEN z ELSE uv[x][j]
    BY <2>1, <2>2, PutOne
  <2>4. call.i # 0
    BY <1>3
  <2>5. InLimits(call.x, call.tgt)
    BY <1>3, <2>4 DEF VoltInv, Asked
  <2> QED BY <1>1, <1>3, <2>3, <2>5, Zenon DEF z
<1> QED BY <1>2, <1>3, UvSteps

(* VoltInv is inductive.                                                     *)
LEMMA VoltNext == VoltInv /\ [Next]_driver => VoltInv'
<1> SUFFICES ASSUME VoltInv, [Next]_driver PROVE VoltInv'
  OBVIOUS
<1>1. CASE UNCHANGED driver
  BY <1>1, Zenon DEF driver, VoltInv, Held, Asked, Table, InLimits, OnGrid, Regus, Ids
<1>2. CASE Next
  <2>1. board' = board /\ Table(uv')
    BY <1>2, UvEffect
  <2>2. Regus' = Regus /\ \A x : Ids(x)' = Ids(x)
    BY <2>1 DEF Regus, Ids
  <2>3. Table(uv)'
    BY <2>1, <2>2, Zenon DEF Table
  <2>4. ASSUME NEW x \in Regus, NEW j \in Ids(x)
        PROVE  OnGrid(board.regu[x].id[j], uv'[x][j])
    <3>1. CASE uv'[x][j] = uv[x][j]
      BY <3>1, Zenon DEF VoltInv, Held
    <3>2. CASE /\ InLimits(x, call.tgt) /\ call.tgt[j] # uv[x][j]
               /\ uv'[x][j] = Write(x, j, call.tgt[j])
      BY <3>2, RailWrite DEF InLimits
    <3> QED BY <1>2, <3>1, <3>2, UvEffect, SMTT(30)
  <2>5. Held'
    BY <2>1, <2>2, <2>4, Zenon DEF Held
  <2>6. Asked'
    <3> SUFFICES ASSUME call'.k = "volt", call'.i # 0
                 PROVE  InLimits(call'.x, call'.tgt)
      BY <2>1, Zenon DEF Asked, InLimits, Regus, Ids
    <3>1. \/ call' = call
          \/ /\ call'.x = call.x /\ call'.tgt = call.tgt
             /\ (call.k = "volt" /\ call.i # 0) \/ InLimits(call.x, call.tgt)
      BY <1>2, CallSteps
    <3> QED BY <3>1, Zenon DEF VoltInv, Asked
  <2> QED BY <2>1, <2>3, <2>5, <2>6 DEF VoltInv
<1> QED BY <1>1, <1>2

(* On every board and whatever is asked, the registers only hold voltages of *)
(* their rails: the unsigned arithmetic of csi_pmic_get_voltage_balanced()   *)
(* never leads da9063_set_voltage() out of the limits or off the steps.      *)
THEOREM VoltagesHeld == Spec => []Held
<1>1. VoltInv => Held
  BY DEF VoltInv
<1>2. VoltInv /\ [Next]_driver => VoltInv'
  BY VoltNext
<1> QED BY <1>1, <1>2, VoltInit, PTL DEF Spec

(* NoOvershoot holds for every board: csi_pmic_regulator_set_voltage() moves *)
(* the rails of its own regulator only, and towards their targets.           *)
THEOREM NoOvershootHolds == Spec => NoOvershoot
<1> DEFINE A == \A x \in Regus : \A j \in Ids(x) :
         uv'[x][j] # uv[x][j] =>
            /\ call.k = "volt" /\ call.x = x
            /\ couplings(j, x) # {} \/ OnGrid(board.regu[x].id[j], call.tgt[j]) =>
                  Toward(uv[x][j], uv'[x][j], call.tgt[j])
<1>1. VoltInv /\ [Next]_driver => [A]_driver
  <2> SUFFICES ASSUME VoltInv, Next PROVE A
    OBVIOUS
  <2> SUFFICES ASSUME NEW x \in Regus, NEW j \in Ids(x), uv'[x][j] # uv[x][j]
               PROVE  /\ call.k = "volt" /\ call.x = x
                      /\ couplings(j, x) # {} \/ OnGrid(board.regu[x].id[j], call.tgt[j]) =>
                            Toward(uv[x][j], uv'[x][j], call.tgt[j])
    BY Zenon
  <2>1. /\ call.k = "volt" /\ call.x = x /\ InLimits(x, call.tgt) /\ call.tgt[j] # uv[x][j]
        /\ uv'[x][j] = Write(x, j, call.tgt[j])
    BY UvEffect
  <2> QED BY <2>1, RailWrite DEF InLimits
<1>2. VoltInv /\ [Next]_driver => VoltInv'
  BY VoltNext
<1> QED BY <1>1, <1>2, VoltInit, PTL DEF Spec, NoOvershoot

(* A write within the range of a coupled rail keeps the spreads of all the   *)
(* couplings it takes part in, and the others do not see it.                 *)
LEMMA RailSpread ==
  ASSUME VoltInv, NEW x \in Regus, NEW i \in Ids(x),
         NEW t \in board.regu[x].id[i].min_uv..board.regu[x].id[i].max_uv, t # uv[x][i],
         Temp(x, i, t).ok, Spread(x, uv[x]),
         ~(/\ Write(x, i, t) < uv[x][i]
           /\ uv[x][i] = get_min_and_max_vol_by_coupled_info(i, x, uv[x]).min_uv),
         NEW w, \A j \in Ids(x) : w[j] = IF j = i THEN Write(x, i, t) ELSE uv[x][j]
  PROVE  Spread(x, w)
<1> DEFINE v == uv[x]
           z == Write(x, i, t)
           r == get_min_and_max_vol_by_coupled_info(i, x, uv[x])
<1>1. board \in Boards /\ v \in Volts(x)
  BY VoltsHeld DEF VoltInv
<1>2. ASSUME couplings(i, x) # {}
      PROVE  /\ \A c \in couplings(i, x) : Low(c, i, v) <= r.min_uv /\ r.max_uv <= High(c, i, v)
             /\ r.min_uv \in Int /\ r.max_uv \in Int /\ z \in Int /\ r.min_uv <= z /\ z <= r.max_uv
  <2>1. Temp(x, i, t).ok = r.ok
    BY <1>2, Zenon DEF Temp, csi_pmic_get_voltage_balanced
  <2>2. r.ok
    BY <2>1, Zenon
  <2>3. \A c \in couplings(i, x) : v[c.id0] - v[c.id1] \in c.min_spread..c.max_spread
    BY DEF Spread
  <2>4. /\ r.min_uv <= v[i] /\ v[i] <= r.max_uv
        /\ \A c \in couplings(i, x) : Low(c, i, v) <= r.min_uv /\ r.max_uv <= High(c, i, v)
    BY <1>1, <2>2, <2>3, RangeSound
  <2>5. r.min_uv \in 0..(W - 1) /\ r.max_uv \in 0..(W - 1)
    BY <1>1, RangeIs
  <2>6. t \in 0..(W \div 2 - 1)
    <3> DEFINE lo == board.regu[x].id[i].min_uv
               hi == board.regu[x].id[i].max_uv
    <3>1. lo \in Nat /\ hi \in Nat /\ hi < W \div 2
      BY <1>1, RailFacts
    <3>2. t \in lo..hi
      OBVIOUS
    <3> HIDE DEF lo, hi
    <3> QED BY <3>1, <3>2, WordSize, SMTT(30)
  <2>7. z = csi_pmic_get_voltage_balanced(i, x, v, t).uv
    BY <1>2, RailWrite
  <2> HIDE DEF r, v, z
  <2>8. /\ z \in Int /\ Toward(v[i], z, t)
        /\ t > v[i] /\ v[i] <= r.max_uv => z <= r.max_uv
        /\ t < v[i] /\ r.min_uv < v[i] => r.min_uv <= z
    <3>1. t # v[i]
      BY DEF v
    <3> QED BY <1>1, <2>6, <2>7, <3>1, Balanced DEF r, v
  <2>9. v[i] \in Int /\ t # v[i] /\ ~(z < v[i] /\ v[i] = r.min_uv)
    BY <1>1, WordSize, SMTT(30) DEF Volts, v, z, r
  <2> QED BY <2>4, <2>5, <2>6, <2>8, <2>9, WordSize, SMTT(30) DEF Toward
<1> HIDE DEF r, v, z
<1>3. \A j \in Ids(x) : w[j] = IF j = i THEN z ELSE v[j]
  BY DEF v, z
<1>4. ASSUME NEW j \in Ids(x), NEW c \in couplings(j, x)
      PROVE  w[c.id0] - w[c.id1] \in c.min_spread..c.max_spread
  <2>1. /\ c.id0 \in Ids(x) /\ c.id1 \in Ids(x) /\ c.id0 # c.id1
        /\ c.min_spread \in Int /\ c.max_spread \in Int
    BY <1>1, CouplingFacts, WordSize, SMTT(30)
  <2>2. v[c.id0] \in Int /\ v[c.id1] \in Int
    BY <1>1, <2>1, WordSize, SMTT(30) DEF Volts
  <2>3. CASE i \in {c.id0, c.id1}
    <3>1. c \in couplings(i, x)
      BY <2>3 DEF couplings, is_id_coupling
    <3>2. z \in Int /\ Low(c, i, v) <= z /\ z <= High(c, i, v)
      <4>1. Low(c, i, v) \in Int /\ High(c, i, v) \in Int
        BY <1>1, <3>1, LimitsOfCoupling
      <4> QED BY <1>2, <3>1, <4>1, SMTT(30)
    <3> QED BY <1>3, <2>1, <2>2, <2>3, <3>2, SMTT(30) DEF Low, High
  <2>4. CASE i \notin {c.id0, c.id1}
    BY <1>3, <2>1, <2>4 DEF Spread, v
  <2> QED BY <2>3, <2>4
<1> QED BY <1>4 DEF Spread

(* SpreadKeptOffLimit holds for every board: apart from a rail that goes     *)
(* down from its limit, the voltages that csi_pmic_get_voltage_balanced()    *)
(* computes keep coupled rails within their spreads.                         *)
THEOREM SpreadKeptOffLimitHolds == Spec => SpreadKeptOffLimit
<1> DEFINE A == \A x \in Regus : Spread(x, uv[x]) /\ ~LeavesLimit(x) => Spread(x, uv'[x])
<1>1. VoltInv /\ [Next]_driver => [A]_driver
  <2> SUFFICES ASSUME VoltInv, Next, NEW x \in Regus, Spread(x, uv[x]), ~LeavesLimit(x)
               PROVE  Spread(x, uv'[x])
    BY Zenon
  <2>1. CASE \A j \in Ids(x) : uv'[x][j] = uv[x][j]
    <3>1. ASSUME NEW j \in Ids(x), NEW c \in couplings(j, x)
          PROVE  c.id0 \in Ids(x) /\ c.id1 \in Ids(x)
      BY CouplingFacts DEF VoltInv
    <3> QED BY <2>1, <3>1 DEF Spread
  <2>2. ASSUME NEW i \in Ids(x), InLimits(x, call.tgt), call.tgt[i] # uv[x][i], Temp(x, i, call.tgt[i]).ok,
               \A j \in Ids(x) : uv'[x][j] = IF j = i THEN Write(x, i, call.tgt[i]) ELSE uv[x][j]
        PROVE  Spread(x, uv'[x])
    <3>1. call.tgt[i] \in board.regu[x].id[i].min_uv..board.regu[x].id[i].max_uv
      BY <2>2 DEF InLimits
    <3>2. ~(/\ Write(x, i, call.tgt[i]) < uv[x][i]
            /\ uv[x][i] = get_min_and_max_vol_by_coupled_info(i, x, uv[x]).min_uv)
      <4>1. uv'[x][i] = Write(x, i, call.tgt[i])
        BY <2>2
      <4> QED BY <4>1, Zenon DEF LeavesLimit
    <3> DEFINE t == call.tgt[i]
               w == uv'[x]
    <3>3. /\ t \in board.regu[x].id[i].min_uv..board.regu[x].id[i].max_uv /\ t # uv[x][i] /\ Temp(x, i, t).ok
          /\ ~(/\ Write(x, i, t) < uv[x][i]
               /\ uv[x][i] = get_min_and_max_vol_by_coupled_info(i, x, uv[x]).min_uv)
      BY <2>2, <3>1, <3>2, Zenon
    <3>4. \A j \in Ids(x) : w[j] = IF j = i THEN Write(x, i, t) ELSE uv[x][j]
      BY <2>2, Zenon
    <3> HIDE DEF t, w
    <3>5. Spread(x, w)
      BY <3>3, <3>4, RailSpread, SMTT(30)
    <3> QED BY <3>5 DEF w
  <2>3. \/ \A j \in Ids(x) : uv'[x][j] = uv[x][j]
        \/ /\ x = call.x /\ call.i \in Ids(x) /\ InLimits(x, call.tgt)
           /\ call.tgt[call.i] # uv[x][call.i] /\ Temp(x, call.i, call.tgt[call.i]).ok
           /\ \A j \in Ids(x) : uv'[x][j] = IF j = call.i THEN Write(x, call.i, call.tgt[call.i]) ELSE uv[x][j]
    <3>1. CASE uv' = uv
      BY <3>1, Zenon
    <3>2. CASE /\ call.k = "volt" /\ InLimits(call.x, call.tgt)
               /\ call.tgt[call.i] # uv[call.x][call.i]
               /\ Temp(call.x, call.i, call.tgt[call.i]).ok
               /\ \A y \in Regus : \A j \in Ids(y) :
                     uv'[y][j] = IF y = call.x /\ j = call.i THEN Write(call.x, call.i, call.tgt[call.i])
                                                              ELSE uv[y][j]
      <4>1. CASE x = call.x /\ call.i \in Ids(x)
        <5>1. \A j \in Ids(x) : uv'[x][j] = IF j = call.i THEN Write(call.x, call.i, call.tgt[call.i]) ELSE uv[x][j]
          BY <3>2, <4>1
        <5> QED BY <3>2, <4>1, <5>1, Zenon
      <4>2. CASE ~(x = call.x /\ call.i \in Ids(x))
        BY <3>2, <4>2, Zenon
      <4> QED BY <4>1, <4>2
    <3> QED BY <3>1, <3>2, UvEffect, Zenon
  <2> QED BY <2>1, <2>2, <2>3, Zenon
<1>2. VoltInv /\ [Next]_driver => VoltInv'
  BY VoltNext
<1> QED BY <1>1, <1>2, VoltInit, PTL DEF Spec, SpreadKeptOffLimit
=============================================================================
