-------------------------------- MODULE Pmic --------------------------------
(* The regulator driver of pmic.c over the chip drivers (da9063.c): voltages *)
(* with coupled rails, switching rails with their parent GPIO, and the soft  *)
(* power sequences at boot and at power off.  Voltages are in units of 10 mV *)
(* and unsigned arithmetic wraps at W, which stands for the 2^32 uV of the   *)
(* code.  All callers run one after the other (handlers do not nest), so a   *)
(* call is followed rail by rail, one I2C exchange with a rail per step.     *)
(* An exchange that fails may have changed the register or not.              *)
EXTENDS Integers, Sequences, FiniteSetsExt

CONSTANTS Boards,   \* configurations; see the fields in BoardAssumption
          W         \* values of an unsigned word

(* A rail.  Its parent is a GPIO of a PMIC, or of a chip whose driver has no *)
(* gpio_output ("other").                                                    *)
Rail == [min_uv : Nat, max_uv : Nat, step_uv : Nat, initial_benable : BOOLEAN,
         parent : {"none", "gpio", "other"}, on_order : Nat, init_target_uv : Nat, off_order : Nat]

(* HW_ID_NO_SOFT_AUTO_ON and HW_ID_NO_SOFT_AUTO_OFF *)
NoSoft == 255

ASSUME BoardAssumption ==
    /\ W \in Nat \ {0} /\ W % 4 = 0
    /\ \A b \in Boards :
          /\ b.i2c \in BOOLEAN                    \* may transfers fail?
          /\ \A x \in DOMAIN b.regu :
                /\ b.regu[x].id \in Seq(Rail) /\ Len(b.regu[x].id) \in 1..3
                /\ \A j \in DOMAIN b.regu[x].id :
                      LET r == b.regu[x].id[j] IN
                      r.min_uv <= r.max_uv /\ r.max_uv < W \div 2 /\ (r.min_uv < r.max_uv => r.step_uv > 0)
                /\ \A c \in Range(b.regu[x].coupling) :
                      /\ {c.id0, c.id1} \subseteq DOMAIN b.regu[x].id
                      /\ {c.min_spread, c.max_spread} \subseteq -(W \div 4)..(W \div 4)

VARIABLES board,        \* the configuration of this system
          uv,           \* voltage registers, per regulator and rail
          on,           \* enable bits of the rails
          gpio,         \* is the parent GPIO of a rail at its active level?
          benable,      \* the driver's record
          pmic_status,
          todo,         \* calls a caller still has to make
          call,         \* the call in work
          origin,       \* who made it
          dirty         \* regulators whose record no switching confirms: none since
                        \* the start, or the last one did not get to its end

driver == <<board, uv, on, gpio, benable, pmic_status, todo, call, origin, dirty>>
None == [k |-> "none"]
Regus == DOMAIN board.regu
Ids(x) == DOMAIN board.regu[x].id

-----------------------------------------------------------------------------
(* Coupled voltages *)

(* conversions to unsigned and signed words *)
U(v) == v % W
S(v) == IF U(v) < W \div 2 THEN U(v) ELSE U(v) - W

(* division of C rounds to zero *)
Quot(a, b) == IF a < 0 THEN -((-a) \div b) ELSE a \div b

is_id_coupling(id, c) ==
    /\ id \in {c.id0, c.id1}
    /\ c.id0 # c.id1
    /\ ~(c.max_spread = 0 /\ c.min_spread = 0)

couplings(id, x) == {c \in Range(board.regu[x].coupling) : is_id_coupling(id, c)}

(* The range that the other rails leave to rail id.  The temporaries are     *)
(* signed but compared as unsigned words.                                    *)
get_min_and_max_vol_by_coupled_info(id, x, v) ==
    LET low(c) == IF c.id0 = id THEN c.min_spread + v[c.id1] ELSE v[c.id0] - c.max_spread
        high(c) == IF c.id0 = id THEN c.max_spread + v[c.id1] ELSE v[c.id0] - c.min_spread
        min_uv == Max({0} \cup {U(low(c)) : c \in couplings(id, x)})
        max_uv == Min({W - 1} \cup {U(high(c)) : c \in couplings(id, x)})
    IN  [min_uv |-> min_uv, max_uv |-> max_uv, ok |-> couplings(id, x) # {} /\ min_uv <= max_uv]

(* broken: the margin that is limited is taken from the wrong side *)
csi_pmic_get_voltage_balancedSwapped(id, x, v, target_uv) ==
    LET r == get_min_and_max_vol_by_coupled_info(id, x, v)
        step_uv == board.regu[x].id[id].step_uv
        best_margin == S(IF target_uv > v[id]
                         THEN Max({U(r.max_uv - v[id]), U(target_uv - v[id])})
                         ELSE Min({U(r.min_uv - v[id]), U(target_uv - v[id])}))
    IN  [ok |-> r.ok, uv |-> U(v[id] + Quot(best_margin, step_uv) * step_uv)]

(* broken: signed comparison *)
csi_pmic_get_voltage_balancedSigned(id, x, v, target_uv) ==
    LET r == get_min_and_max_vol_by_coupled_info(id, x, v)
        step_uv == board.regu[x].id[id].step_uv
        best_margin == IF target_uv > v[id]
                       THEN Min({S(r.max_uv - v[id]), target_uv - v[id]})
                       ELSE Max({S(r.min_uv - v[id]), target_uv - v[id]})
    IN  [ok |-> r.ok, uv |-> U(v[id] + Quot(best_margin, step_uv) * step_uv)]

(* broken: half of the margin *)
csi_pmic_get_voltage_balancedHalf(id, x, v, target_uv) ==
    LET r == get_min_and_max_vol_by_coupled_info(id, x, v)
        step_uv == board.regu[x].id[id].step_uv
        best_margin == S(IF target_uv > v[id]
                         THEN Min({U(r.max_uv - v[id]), U(target_uv - v[id])})
                         ELSE Max({U(r.min_uv - v[id]), U(target_uv - v[id])}))
    IN  [ok |-> r.ok, uv |-> U(v[id] + Quot(best_margin, 2 * step_uv) * step_uv)]

(* The next voltage of rail id on its way to target_uv *)
csi_pmic_get_voltage_balanced(id, x, v, target_uv) ==
    LET r == get_min_and_max_vol_by_coupled_info(id, x, v)
        step_uv == board.regu[x].id[id].step_uv
        best_margin == S(IF target_uv > v[id]
                         THEN Min({U(r.max_uv - v[id]), U(target_uv - v[id])})
                         ELSE Max({U(r.min_uv - v[id]), U(target_uv - v[id])}))
    IN  [ok |-> r.ok,
         uv |-> U(v[id] + (IF step_uv = 0 THEN best_margin ELSE Quot(best_margin, step_uv) * step_uv))]

(* da9063_set_voltage(): the register holds whole steps above min_uv *)
da9063_set_voltage(r, target_uv) == r.min_uv + ((target_uv - r.min_uv) \div r.step_uv) * r.step_uv

-----------------------------------------------------------------------------
(* The end of a call: the caller goes on, or gives up on an error.  A soft   *)
(* sequence that fails leaves a status; one of init leaves no PM service.    *)
Return(ok) ==
    /\ call' = None
    /\ IF ok \/ origin = "PM"
       THEN /\ origin' = IF origin = "PM" THEN "none" ELSE origin
            /\ UNCHANGED <<todo, pmic_status>>
       ELSE /\ origin' = IF origin = "init" THEN "dead" ELSE "none"
            /\ todo' = <<>>
            /\ pmic_status' = "SOFT_POWER_CTRL_ERR"

Goto(c) == call' = c /\ UNCHANGED <<todo, pmic_status, origin>>

(* The calls: rail i is next; flag holds the rails that are not yet at their *)
(* targets; after: the regulator is to be switched on then; from is a        *)
(* history field: the voltages at the call                                   *)
Volt(x, tgt, flag, i, after, from) ==
    [k |-> "volt", x |-> x, tgt |-> tgt, flag |-> flag, i |-> i, after |-> after, from |-> from]
Ctrl(x, enable, i) == [k |-> "ctrl", x |-> x, enable |-> enable, i |-> i]
VoltAt(flag, i) == Volt(call.x, call.tgt, flag, i, call.after, call.from)

(* broken: only rails that have to rise are set *)
set_voltage_startRise ==
    /\ call.k = "volt" /\ call.i = 0
    /\ Goto(VoltAt({j \in Ids(call.x) : uv[call.x][j] < call.tgt[j]}, 1))
    /\ UNCHANGED <<board, uv, on, gpio, benable, dirty>>

(* broken: the limits are not checked *)
set_voltage_startUnchecked ==
    /\ call.k = "volt" /\ call.i = 0
    /\ Goto(VoltAt({j \in Ids(call.x) : uv[call.x][j] # call.tgt[j]}, 1))
    /\ UNCHANGED <<board, uv, on, gpio, benable, dirty>>

(* csi_pmic_regulator_set_voltage(): the checks and the first reading of the *)
(* rails.  current_uv is not kept: it is read again after every write, so it *)
(* is uv.  need_set counts the bits of need_set_flag.                        *)
set_voltage_start ==
    /\ call.k = "volt" /\ call.i = 0
    /\ LET r == board.regu[call.x].id IN
       \/ /\ \A j \in DOMAIN r : call.tgt[j] \in r[j].min_uv..r[j].max_uv
          /\ Goto(VoltAt({j \in DOMAIN r : uv[call.x][j] # call.tgt[j]}, 1))
       \/ /\ board.i2c \/ \E j \in DOMAIN r : call.tgt[j] \notin r[j].min_uv..r[j].max_uv
          /\ Return(FALSE)
    /\ UNCHANGED <<board, uv, on, gpio, benable, dirty>>

(* for (i ...) inside while (need_set): the next rail, from the first again *)
NextRail == IF call.i < Len(board.regu[call.x].id) THEN call.i + 1 ELSE 1

(* All rails have reached their targets; pmic_soft_power_ctrl() goes on to   *)
(* switch the regulator on                                                   *)
set_voltage_end ==
    /\ call.k = "volt" /\ call.i > 0 /\ call.flag = {}
    /\ IF call.after
       THEN Goto(Ctrl(call.x, TRUE, 1))
       ELSE Return(TRUE)
    /\ UNCHANGED <<board, uv, on, gpio, benable, dirty>>

(* One rail of the pass: settled, or one write towards the target.  The         *)
(* coupled range of a rail is used only when it has a coupling.              *)
set_voltage_rail ==
    /\ call.k = "volt" /\ call.i > 0 /\ call.flag # {}
    /\ LET x == call.x
           i == call.i
           temp == IF couplings(i, x) # {}
                   THEN csi_pmic_get_voltage_balanced(i, x, uv[x], call.tgt[i])
                   ELSE [ok |-> TRUE, uv |-> call.tgt[i]]
           written == [uv EXCEPT ![x][i] = da9063_set_voltage(board.regu[x].id[i], temp.uv)]
       IN  \/ /\ i \notin call.flag
              /\ Goto(VoltAt(call.flag, NextRail))
              /\ UNCHANGED <<board, uv, on, gpio, benable, dirty>>
           \/ /\ i \in call.flag /\ call.tgt[i] = uv[x][i]
              /\ Goto(VoltAt(call.flag \ {i}, NextRail))
              /\ UNCHANGED <<board, uv, on, gpio, benable, dirty>>
           \/ /\ i \in call.flag /\ call.tgt[i] # uv[x][i] /\ temp.ok
              /\ uv' = written
              /\ Goto(VoltAt(call.flag, NextRail))
              /\ UNCHANGED <<board, on, gpio, benable, dirty>>
           \/ /\ i \in call.flag /\ call.tgt[i] # uv[x][i]
              /\ ~temp.ok \/ board.i2c
              /\ uv' \in IF temp.ok THEN {uv, written} ELSE {uv}
              /\ Return(FALSE)
              /\ UNCHANGED <<board, on, gpio, benable, dirty>>

-----------------------------------------------------------------------------
(* Switching *)

(* broken: the record is not kept when a rail has a parent *)
csi_pmic_regulator_ctrlForgets ==
    /\ call.k = "ctrl" /\ call.i <= Len(board.regu[call.x].id)
    /\ on' = [on EXCEPT ![call.x][call.i] = call.enable]
    /\ IF board.regu[call.x].id[call.i].parent = "gpio"
       THEN gpio' = [gpio EXCEPT ![call.x][call.i] = call.enable] /\ UNCHANGED benable
       ELSE benable' = [benable EXCEPT ![call.x][call.i] = call.enable] /\ UNCHANGED gpio
    /\ Goto(Ctrl(call.x, call.enable, call.i + 1))
    /\ UNCHANGED <<board, uv, dirty>>

(* csi_pmic_regulator_ctrl(), one rail: its enable bit, then its parent.  A   *)
(* parent without gpio_output ends the call: no error is returned, but the   *)
(* record is not written and the rails behind are left alone.                *)
csi_pmic_regulator_ctrl ==
    /\ call.k = "ctrl" /\ call.i <= Len(board.regu[call.x].id)
    /\ LET x == call.x
           i == call.i
           parent == board.regu[x].id[i].parent
           on1 == [on EXCEPT ![x][i] = call.enable]
           gpio1 == [gpio EXCEPT ![x][i] = call.enable]
       IN  \/ /\ parent # "other"
              /\ on' = on1
              /\ gpio' = IF parent = "gpio" THEN gpio1 ELSE gpio
              /\ benable' = [benable EXCEPT ![x][i] = call.enable]
              /\ Goto(Ctrl(call.x, call.enable, call.i + 1))
              /\ UNCHANGED dirty
           \/ /\ parent = "other"
              /\ on' = on1
              /\ dirty' = dirty \cup {x}
              /\ Return(TRUE)
              /\ UNCHANGED <<gpio, benable>>
           \/ /\ board.i2c
              /\ \/ on' \in {on, on1} /\ gpio' = gpio
                 \/ parent = "gpio" /\ on' = on1 /\ gpio' \in {gpio, gpio1}
              /\ dirty' = dirty \cup {x}
              /\ Return(FALSE)
              /\ UNCHANGED benable
    /\ UNCHANGED <<board, uv>>

csi_pmic_regulator_ctrl_end ==
    /\ call.k = "ctrl" /\ call.i > Len(board.regu[call.x].id)
    /\ dirty' = dirty \ {call.x}
    /\ Return(TRUE)
    /\ UNCHANGED <<board, uv, on, gpio, benable>>

(* What PM_FUNC_PWR_GET answers *)
csi_pmic_regulator_is_enable(x) == \A j \in Ids(x) : benable[x][j]

-----------------------------------------------------------------------------
(* Soft power sequences *)

(* hw_seq: the rails that take part, in the order of the list *)
hw_seq(soft_on) ==
    LET entry(x, j) == [x |-> x, j |-> j,
                        order |-> IF soft_on THEN board.regu[x].id[j].on_order
                                             ELSE board.regu[x].id[j].off_order]
        listed(x) == SelectSeq([j \in Ids(x) |-> entry(x, j)], LAMBDA e : e.order # NoSoft)
        upto[x \in 0..Len(board.regu)] == IF x = 0 THEN <<>> ELSE upto[x - 1] \o listed(x)
    IN  upto[Len(board.regu)]

(* broken: sorted downwards *)
BubbleDown(s) ==
    LET n == Len(s)
        exchange(t, l) == IF t[l].order < t[l + 1].order
                          THEN [t EXCEPT ![l] = t[l + 1], ![l + 1] = t[l]] ELSE t
        pass(t, k) == LET u[l \in 0..(n - k)] == IF l = 0 THEN t ELSE exchange(u[l - 1], l) IN u[n - k]
        sorted[k \in 0..(n - 1)] == IF k = 0 THEN s ELSE pass(sorted[k - 1], k)
    IN  IF n = 0 THEN s ELSE sorted[n - 1]

(* broken: the last entry is left out *)
BubbleFront(s) ==
    LET n == Len(s)
        exchange(t, l) == IF t[l].order > t[l + 1].order
                          THEN [t EXCEPT ![l] = t[l + 1], ![l + 1] = t[l]] ELSE t
        pass(t, k) == LET u[l \in 0..(n - k)] == IF l = 0 THEN t ELSE exchange(u[l - 1], l) IN u[n - k]
        sorted[k \in 0..(n - 1)] == IF k = 0 THEN s ELSE pass(sorted[k - 1], k)
    IN  IF n = 0 THEN s ELSE SubSeq(sorted[n - 1], 1, n - 1)

Bubble(s) ==
    LET n == Len(s)
        exchange(t, l) == IF t[l].order > t[l + 1].order
                          THEN [t EXCEPT ![l] = t[l + 1], ![l + 1] = t[l]] ELSE t
        pass(t, k) == LET u[l \in 0..(n - k)] == IF l = 0 THEN t ELSE exchange(u[l - 1], l) IN u[n - k]
        sorted[k \in 0..(n - 1)] == IF k = 0 THEN s ELSE pass(sorted[k - 1], k)
    IN  IF n = 0 THEN s ELSE sorted[n - 1]

(* pmic_soft_power_ctrl(), one round: the next hw_id_num entries are taken   *)
(* for the rails of one regulator.  The array is zero behind the entries:    *)
(* rail 1 of the first regulator.  When switching on, entries of another     *)
(* regulator end the sequence, and a first voltage that is not zero is set.  *)
pmic_soft_power_ctrl ==
    /\ origin \in {"init", "off"} /\ call = None /\ todo # <<>>
    /\ LET x == todo[1].x
           n == Len(board.regu[x].id)
           group == [l \in 1..n |-> IF l <= Len(todo) THEN todo[l] ELSE [x |-> 1, j |-> 1, order |-> 0]]
           r == board.regu[x].id
           fixed(j) == r[j].max_uv = r[j].min_uv /\ r[j].step_uv = 0
           tgt == [j \in 1..n |-> IF fixed(j) \/ ~\E l \in 1..n : group[l].j = j
                                  THEN 0 ELSE r[j].init_target_uv]
       IN  \/ /\ origin = "init" /\ \E l \in 1..n : group[l].x # x
              /\ Return(FALSE)
           \/ /\ origin = "init" => \A l \in 1..n : group[l].x = x
              /\ call' = IF origin = "init" /\ tgt[1] # 0 THEN Volt(x, tgt, {}, 0, TRUE, uv[x])
                                                           ELSE Ctrl(x, origin = "init", 1)
              /\ todo' = SubSeq(todo, n + 1, Len(todo))
              /\ UNCHANGED <<origin, pmic_status>>
    /\ UNCHANGED <<board, uv, on, gpio, benable, dirty>>

(* The end of csi_pmic_init() and of csi_pmic_soft_power_off(); the latter   *)
(* shuts the devices down, which can fail without leaving a status           *)
soft_power_end ==
    /\ origin \in {"init", "off"} /\ call = None /\ todo = <<>>
    /\ pmic_status' \in IF origin = "init" THEN {"OK"}
                        ELSE {"NOT_INIT"} \cup (IF board.i2c THEN {pmic_status} ELSE {})
    /\ origin' = "none"
    /\ UNCHANGED <<board, uv, on, gpio, benable, todo, call, dirty>>

csi_pmic_soft_power_off ==
    /\ origin = "none"
    /\ origin' = "off"
    /\ todo' = Bubble(hw_seq(FALSE))
    /\ UNCHANGED <<board, uv, on, gpio, benable, pmic_status, call, dirty>>

driverStep ==
    \/ set_voltage_start \/ set_voltage_rail \/ set_voltage_end
    \/ csi_pmic_regulator_ctrl \/ csi_pmic_regulator_ctrl_end
    \/ pmic_soft_power_ctrl \/ soft_power_end
=============================================================================
