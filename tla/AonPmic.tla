------------------------------ MODULE AonPmic ------------------------------
(* The PM service (aon_pmic.c) on the regulator driver: the requests of the  *)
(* AP, the start of the driver and the power off asked by the watchdog       *)
(* service and by the temperature sensor.  PM requests are handled in the    *)
(* mailbox interrupt; there is never a second one at the same time.          *)
EXTENDS Pmic

(* A voltage of a rail: within its limits, whole steps above the lowest *)
OnGrid(r, v) == v \in r.min_uv..r.max_uv /\ (r.step_uv > 0 => (v - r.min_uv) % r.step_uv = 0)

(* The PMIC has any voltages, enable bits and GPIOs: it keeps them through a  *)
(* reset of the SoC.  pmic_register_regu() fills the record from its table   *)
(* and does not read the chip, so that nothing confirms it yet.              *)
Init ==
    /\ board \in Boards
    /\ uv \in [Regus -> UNION {[Ids(x) -> board.start] : x \in Regus}]
    /\ \A x \in Regus : DOMAIN uv[x] = Ids(x) /\ \A j \in Ids(x) : OnGrid(board.regu[x].id[j], uv[x][j])
    /\ on \in [Regus -> UNION {[Ids(x) -> board.bits] : x \in Regus}]
    /\ gpio \in [Regus -> UNION {[Ids(x) -> board.bits] : x \in Regus}]
    /\ \A x \in Regus : DOMAIN on[x] = Ids(x) /\ DOMAIN gpio[x] = Ids(x) /\ \A j \in Ids(x) :
          board.regu[x].id[j].parent # "gpio" => gpio[x][j] = on[x][j]
    /\ benable = [x \in Regus |-> [j \in Ids(x) |-> board.regu[x].id[j].initial_benable]]
    /\ pmic_status = "NOT_INIT"
    /\ todo = Bubble(hw_seq(TRUE))
    /\ call = None
    /\ origin = "init"
    /\ dirty = Regus

(* The target of each rail: a word of the request, or the word of the rail   *)
(* before it when the bit of that word says dual rail                        *)
set_each_hw_volatage(words, dual, n) ==
    LET put(t, l) == IF Len(t) >= n THEN t
                     ELSE t \o (IF l \in dual THEN <<words[l], words[l]>> ELSE <<words[l]>>)
        upto[l \in 0..n] == IF l = 0 THEN <<>> ELSE put(upto[l - 1], l)
    IN  SubSeq(upto[n], 1, n)

(* PM_FUNC_SET_RESOURCE_REGULATOR *)
set_resource_regulator ==
    /\ origin = "none"
    /\ \E x \in Regus \cap board.volt, dual \in SUBSET {1} :
       \E words \in [Ids(x) -> board.words] :
          call' = Volt(x, set_each_hw_volatage(words, dual, Len(board.regu[x].id)), {}, 0, FALSE, uv[x])
    /\ origin' = "PM"
    /\ UNCHANGED <<board, uv, on, gpio, benable, pmic_status, todo, dirty>>

(* PM_FUNC_PWR_SET *)
pwr_set ==
    /\ origin = "none"
    /\ \E x \in Regus \cap board.pwr, enable \in BOOLEAN :
          call' = Ctrl(x, enable, 1)
    /\ origin' = "PM"
    /\ UNCHANGED <<board, uv, on, gpio, benable, pmic_status, todo, dirty>>

(* PM_FUNC_CHECK_FAULT: a status that is not zero is reported once; OK is    *)
(* not zero either                                                           *)
check_fault ==
    /\ origin = "none"
    /\ pmic_status' = IF pmic_status # "NOT_INIT" THEN "OK" ELSE pmic_status
    /\ UNCHANGED <<board, uv, on, gpio, benable, todo, call, origin, dirty>>

aon_pmic_poweroff == board.off /\ csi_pmic_soft_power_off

Next ==
    \/ driverStep
    \/ set_resource_regulator \/ pwr_set \/ check_fault \/ aon_pmic_poweroff

(* The firmware runs a call to its end; nobody has to make one *)
Spec == Init /\ [][Next]_driver /\ WF_driver(driverStep)

-----------------------------------------------------------------------------
(* Types.  A voltage register always holds a voltage of its rail: within its *)
(* limits and a whole number of steps above the lowest.                      *)
TypeOK ==
    /\ board \in Boards
    /\ \A x \in Regus : \A j \in Ids(x) :
          LET r == board.regu[x].id[j] IN
          /\ OnGrid(r, uv[x][j])
          /\ {on[x][j], gpio[x][j], benable[x][j]} \subseteq BOOLEAN
    /\ pmic_status \in {"NOT_INIT", "OK", "SOFT_POWER_CTRL_ERR"}
    /\ call.k \in {"none", "volt", "ctrl"}
    /\ origin \in {"none", "init", "off", "PM", "dead"}
    /\ dirty \subseteq Regus

Spread(x, v) ==
    \A j \in Ids(x) : \A c \in couplings(j, x) :
        v[c.id0] - v[c.id1] \in c.min_spread..c.max_spread

(* Rails whose voltages are within the spreads of their couplings stay       *)
(* within them through every write that csi_pmic_regulator_set_voltage()     *)
(* makes on the way to any target.  It is violated: a rail that is to go     *)
(* down and is at the end of its range has a margin of 0, which              *)
(* csi_pmic_get_voltage_balanced() compares with the negative step as an     *)
(* unsigned number, and the rail goes to its target in one step.             *)
SpreadKept == [][\A x \in Regus : Spread(x, uv[x]) => Spread(x, uv'[x])]_driver

LeavesLimit(x) ==
    \E j \in Ids(x) : /\ uv'[x][j] < uv[x][j]
                      /\ uv[x][j] = get_min_and_max_vol_by_coupled_info(j, x, uv[x]).min_uv

(* Apart from that case the spreads are kept by every write, upwards and     *)
(* downwards, with two and three rails, equal and different steps, also when *)
(* a transfer fails half way and the next request starts from there.         *)
SpreadKeptOffLimit ==
    [][\A x \in Regus : Spread(x, uv[x]) /\ ~LeavesLimit(x) => Spread(x, uv'[x])]_driver

Toward(a, b, t) == (a <= b /\ b <= t) \/ (t <= b /\ b <= a)

(* Only a request for its regulator moves a rail, and never away from its    *)
(* target or beyond it: a coupled rail even from voltages outside of the     *)
(* spreads, where the unsigned differences of csi_pmic_get_voltage_balanced()*)
(* wrap, a single rail when its target is a voltage that it can have.        *)
NoOvershoot ==
    [][\A x \in Regus : \A j \in Ids(x) :
         uv'[x][j] # uv[x][j] =>
            /\ call.k = "volt" /\ call.x = x
            /\ couplings(j, x) # {} \/ OnGrid(board.regu[x].id[j], call.tgt[j]) =>
                  Toward(uv[x][j], uv'[x][j], call.tgt[j])]_driver

(* A request that can be met: its targets are on the grid of each rail and   *)
(* within the spreads, the rails were within them at the call, and transfers *)
(* work                                                                      *)
Feasible ==
    /\ call.k = "volt" /\ ~board.i2c
    /\ Spread(call.x, call.tgt) /\ Spread(call.x, call.from)
    /\ \A j \in Ids(call.x) : OnGrid(board.regu[call.x].id[j], call.tgt[j])

(* A feasible request ends with every rail at its target: it is not refused  *)
(* half way, and the loop is not left while a rail is still on its way.  A   *)
(* third rail is the exception: when a rail has jumped out of the spreads    *)
(* (SpreadKept), the range of the one between can be empty, and the request  *)
(* is refused with the rails where they are.                                 *)
Reached ==
    [][Feasible /\ call'.k # "volt" =>
         \/ uv'[call.x] = call.tgt
         \/ Len(board.regu[call.x].id) = 3 /\ ~Spread(call.x, uv[call.x])]_driver

(* The loop "while (need_set)", which runs in an interrupt handler, ends for *)
(* every feasible request: coupled rails never wait for each other.          *)
VoltEnds == Feasible ~> call.k # "volt"

(* Between calls the record that PWR_GET reports agrees with the enable bits *)
(* and the parent GPIOs, for every regulator that was switched since the     *)
(* start and whose last switching was cut off neither by a failing transfer  *)
(* nor by a parent that cannot be driven: the next one that succeeds repairs *)
(* it, whatever the chip held before.                                        *)
Recorded ==
    call = None => \A x \in Regus \ dirty :
        csi_pmic_regulator_is_enable(x) <=>
            \A j \in Ids(x) : on[x][j] /\ (board.regu[x].id[j].parent = "gpio" => gpio[x][j])

(* The rails that csi_pmic_regulator_ctrl() does not get to, as a rail before *)
(* them has a parent that cannot be driven                                   *)
Skipped(x, j) == \E i \in Ids(x) : i < j /\ board.regu[x].id[i].parent = "other"

(* The rails of other regulators that take part with a smaller order *)
Before(y, l, Order(_)) ==
    {r \in UNION {{x} \X {j \in Ids(x) : ~Skipped(x, j)} : x \in Regus \ {y}} :
        LET order == Order(board.regu[r[1]].id[r[2]]) IN
        order # NoSoft /\ order < Order(board.regu[y].id[l])}

InOrder ==
    \A y \in Regus : \A l \in Ids(y) :
        /\ (origin = "init" /\ on'[y][l] /\ ~on[y][l]) =>
              \A r \in Before(y, l, LAMBDA d : d.on_order) : on[r[1]][r[2]]
        /\ (origin = "off" /\ on[y][l] /\ ~on'[y][l]) =>
              \A r \in Before(y, l, LAMBDA d : d.off_order) : ~on[r[1]][r[2]]

(* The soft sequences switch the regulators in the configured order: a rail  *)
(* is not switched on before the rails of other regulators with a smaller    *)
(* on_order are on, nor off before those with a smaller off_order are off,   *)
(* but for rails that are not reached (Skipped).                             *)
SoftOrdered == [][InOrder]_driver

Complete ==
    \A x \in Regus : \A j \in {i \in Ids(x) : ~Skipped(x, i)} :
        LET r == board.regu[x].id[j] IN
        /\ (origin = "init" /\ r.on_order # NoSoft) =>
              on[x][j] /\ (r.init_target_uv # 0 /\ r.step_uv # 0 => uv[x][j] = r.init_target_uv)
        /\ (origin = "off" /\ r.off_order # NoSoft) => ~on[x][j]

(* csi_pmic_init() that ends well has switched on every rail with an         *)
(* on_order, at its first voltage; a soft power off that ends well has       *)
(* switched off every rail with an off_order, but for the rails behind one   *)
(* whose parent cannot be driven (Skipped).                                  *)
SoftDone == [][soft_power_end => Complete]_driver
=============================================================================
