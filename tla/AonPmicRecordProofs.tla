------------------------ MODULE AonPmicRecordProofs -------------------------
(* The record of what is switched on, for every board.                       *)
EXTENDS PmicRails

Agree(x, j) ==
    /\ on[x][j] = benable[x][j]
    /\ board.regu[x].id[j].parent = "gpio" => gpio[x][j] = benable[x][j]

(* The rails whose record is right: those of regulators that a switching has *)
(* confirmed, and those that the call in work has passed.                    *)
Passed(x, j) == call.k = "ctrl" /\ call.x = x /\ j < call.i
RecInv ==
    /\ board \in Boards
    /\ Table(on) /\ Table(gpio) /\ Table(benable)
    /\ call.k = "ctrl" => call.i \in Nat
    /\ \A x \in Regus : \A j \in Ids(x) : x \notin dirty \/ Passed(x, j) => Agree(x, j)

(* Rails have numbers from 1 to their count.                                 *)
LEMMA RailNumbers ==
  ASSUME board \in Boards, NEW x \in Regus, NEW j \in Ids(x)
  PROVE  j \in Nat /\ j >= 1 /\ j <= Len(board.regu[x].id) /\ Len(board.regu[x].id) \in Nat
BY RailFacts

(* A step that switches nothing keeps the record; a new call has passed no   *)
(* rail.                                                                     *)
LEMMA RecQuiet ==
  ASSUME RecInv, UNCHANGED <<board, on, gpio, benable, dirty>>,
         call' = call \/ call'.k # "ctrl" \/ call'.i = 1
  PROVE  RecInv'
<1>1. Regus' = Regus /\ \A x : Ids(x)' = Ids(x)
  BY DEF Regus, Ids
<1>2. board' \in Boards
  BY DEF RecInv
<1>3. Table(on)' /\ Table(gpio)' /\ Table(benable)'
  BY <1>1, Zenon DEF RecInv, Table
<1>4. call'.k = "ctrl" => call'.i \in Nat
  BY DEF RecInv
<1>5. ASSUME NEW x \in Regus, NEW j \in Ids(x), x \notin dirty' \/ Passed(x, j)'
      PROVE  Agree(x, j)'
  <2>1. x \notin dirty \/ Passed(x, j)
    <3>1. j \in Nat /\ ~(j < 1)
      BY RailNumbers DEF RecInv
    <3> QED BY <1>5, <3>1 DEF Passed
  <2>2. Agree(x, j)
    BY <2>1, Zenon DEF RecInv
  <2> QED BY <2>2, Zenon DEF Agree
<1> QED BY <1>1, <1>2, <1>3, <1>4, <1>5, Zenon DEF RecInv

(* A rail that is switched has a right record and counts as passed.          *)
LEMMA RecSwitched ==
  ASSUME RecInv, call.k = "ctrl", UNCHANGED <<board, dirty>>,
         on' = Put(on, call.x, call.i, call.enable), benable' = Put(benable, call.x, call.i, call.enable),
         gpio' = IF board.regu[call.x].id[call.i].parent = "gpio" THEN Put(gpio, call.x, call.i, call.enable) ELSE gpio,
         call' = Ctrl(call.x, call.enable, call.i + 1)
  PROVE  RecInv'
<1> DEFINE e == call.enable
<1>1. Regus' = Regus /\ \A x : Ids(x)' = Ids(x)
  BY DEF Regus, Ids
<1>2. board \in Boards /\ call.i \in Nat /\ Table(on) /\ Table(gpio) /\ Table(benable)
  BY DEF RecInv
<1>3. call'.k = "ctrl" /\ call'.x = call.x /\ call'.i = call.i + 1
  BY DEF Ctrl
<1> HIDE DEF e
<1>4. Table(on') /\ \A x \in Regus : \A j \in Ids(x) : on'[x][j] = IF x = call.x /\ j = call.i THEN e ELSE on[x][j]
  BY <1>2, PutOne DEF e
<1>5. Table(benable') /\ \A x \in Regus : \A j \in Ids(x) :
         benable'[x][j] = IF x = call.x /\ j = call.i THEN e ELSE benable[x][j]
  BY <1>2, PutOne DEF e
<1>6. Table(gpio') /\ \A x \in Regus : \A j \in Ids(x) :
         gpio'[x][j] = IF x = call.x /\ j = call.i /\ board.regu[x].id[j].parent = "gpio" THEN e ELSE gpio[x][j]
  <2>1. CASE board.regu[call.x].id[call.i].parent = "gpio"
    <3>1. gpio' = Put(gpio, call.x, call.i, e)
      BY <2>1, Zenon DEF e
    <3> DEFINE g == Put(gpio, call.x, call.i, e)
    <3>2. Table(g) /\ \A x \in Regus : \A j \in Ids(x) : g[x][j] = IF x = call.x /\ j = call.i THEN e ELSE gpio[x][j]
      BY <1>2, PutOne, SMTT(30)
    <3> HIDE DEF g
    <3>3. Table(g) /\ \A x \in Regus : \A j \in Ids(x) :
             g[x][j] = IF x = call.x /\ j = call.i /\ board.regu[x].id[j].parent = "gpio" THEN e ELSE gpio[x][j]
      BY <2>1, <3>2
    <3> QED BY <3>1, <3>3, ZenonT(60) DEF g
  <2>2. CASE board.regu[call.x].id[call.i].parent # "gpio"
    BY <1>2, <2>2
  <2> QED BY <2>1, <2>2
<1>7. Table(on)' /\ Table(gpio)' /\ Table(benable)'
  BY <1>1, <1>4, <1>5, <1>6, ZenonT(60) DEF Table
<1>8. ASSUME NEW x \in Regus, NEW j \in Ids(x), x \notin dirty' \/ Passed(x, j)'
      PROVE  Agree(x, j)'
  <2>1. CASE x = call.x /\ j = call.i
    <3>1. on'[x][j] = e /\ benable'[x][j] = e /\ (board.regu[x].id[j].parent = "gpio" => gpio'[x][j] = e)
      BY <1>4, <1>5, <1>6, <2>1, ZenonT(60)
    <3> QED BY <3>1, Zenon DEF Agree
  <2>2. CASE ~(x = call.x /\ j = call.i)
    <3>1. j \in Nat
      BY <1>2, RailNumbers
    <3>2. x \notin dirty \/ Passed(x, j)
      BY <1>2, <1>3, <1>8, <2>2, <3>1, SMTT(30) DEF Passed
    <3>3. Agree(x, j)
      BY <3>2, Zenon DEF RecInv
    <3>4. on'[x][j] = on[x][j] /\ benable'[x][j] = benable[x][j] /\ gpio'[x][j] = gpio[x][j]
      BY <1>4, <1>5, <1>6, <2>2, ZenonT(60)
    <3> QED BY <3>3, <3>4, Zenon DEF Agree
  <2> QED BY <2>1, <2>2
<1>9. call'.i \in Nat
  BY <1>2, <1>3
<1> QED BY <1>1, <1>2, <1>7, <1>8, <1>9, Zenon DEF RecInv

(* RecInv is inductive.                                                      *)
LEMMA RecNext == RecInv /\ [Next]_driver => RecInv'
<1> SUFFICES ASSUME RecInv, [Next]_driver PROVE RecInv'
  OBVIOUS
<1>1. CASE UNCHANGED driver
  BY <1>1, RecQuiet DEF driver
<1>2. ASSUME UNCHANGED <<board, on, gpio, benable, dirty>>,
             \/ call' = None \/ call' = call
             \/ \E x, e : call' = Ctrl(x, e, 1)
             \/ \E x, tgt, flag, i, after, from : call' = Volt(x, tgt, flag, i, after, from)
      PROVE  RecInv'
  <2>1. call' = call \/ call'.k # "ctrl" \/ call'.i = 1
    BY <1>2 DEF None, Ctrl, Volt
  <2> QED BY <1>2, <2>1, RecQuiet
<1>3. CASE set_voltage_start
  BY <1>2, <1>3, Zenon DEF set_voltage_start, Return, Goto, VoltAt
<1>4. CASE set_voltage_rail
  <2>1. UNCHANGED <<board, on, gpio, benable, dirty>> /\ (Return(FALSE) \/ \E flag, i : Goto(VoltAt(flag, i)))
    BY <1>4, Zenon DEF set_voltage_rail
  <2> QED BY <1>2, <2>1, Zenon DEF Return, Goto, VoltAt
<1>5. CASE set_voltage_end
  BY <1>2, <1>5, Zenon DEF set_voltage_end, Return, Goto
<1>6. CASE csi_pmic_regulator_ctrl
  <2>1. CASE /\ on' = Put(on, call.x, call.i, call.enable) /\ benable' = Put(benable, call.x, call.i, call.enable)
             /\ gpio' = IF board.regu[call.x].id[call.i].parent = "gpio" THEN Put(gpio, call.x, call.i, call.enable)
                                                                         ELSE gpio
             /\ Goto(Ctrl(call.x, call.enable, call.i + 1)) /\ UNCHANGED <<board, dirty>>
    <3>1. call.k = "ctrl"
      BY <1>6, Zenon DEF csi_pmic_regulator_ctrl
    <3> QED BY <2>1, <3>1, RecSwitched, Zenon DEF Goto
  <2>2. CASE /\ on' \in {on, Put(on, call.x, call.i, call.enable)}
             /\ gpio' \in {gpio, Put(gpio, call.x, call.i, call.enable)}
             /\ dirty' = dirty \cup {call.x} /\ (\E ok : Return(ok)) /\ UNCHANGED <<board, benable>>
    <3> DEFINE e == call.enable
    <3>1. Regus' = Regus /\ \A x : Ids(x)' = Ids(x)
      BY <2>2 DEF Regus, Ids
    <3>2. board' \in Boards /\ Table(on) /\ Table(gpio) /\ Table(benable) /\ call'.k = "none"
      BY <2>2 DEF RecInv, Return, None
    <3> HIDE DEF e
    <3>3. Table(on') /\ \A x \in Regus : \A j \in Ids(x) : x # call.x => on'[x][j] = on[x][j]
      <4>1. CASE on' = on
        BY <3>2, <4>1, Zenon
      <4>2. CASE on' = Put(on, call.x, call.i, e)
        BY <3>2, <4>2, PutOne
      <4> QED BY <2>2, <4>1, <4>2, Zenon DEF e
    <3>4. Table(gpio') /\ \A x \in Regus : \A j \in Ids(x) : x # call.x => gpio'[x][j] = gpio[x][j]
      <4>1. CASE gpio' = gpio
        BY <3>2, <4>1, Zenon
      <4>2. CASE gpio' = Put(gpio, call.x, call.i, e)
        BY <3>2, <4>2, PutOne
      <4> QED BY <2>2, <4>1, <4>2, Zenon DEF e
    <3>5. Table(on)' /\ Table(gpio)' /\ Table(benable)'
      BY <2>2, <3>1, <3>2, <3>3, <3>4, Zenon DEF Table
    <3>6. ASSUME NEW x \in Regus, NEW j \in Ids(x), x \notin dirty' \/ Passed(x, j)'
          PROVE  Agree(x, j)'
      <4>1. x \notin dirty /\ x # call.x
        BY <2>2, <3>2, <3>6 DEF Passed
      <4>2. Agree(x, j)
        BY <4>1, Zenon DEF RecInv
      <4>3. on'[x][j] = on[x][j] /\ gpio'[x][j] = gpio[x][j]
        BY <3>3, <3>4, <4>1
      <4> QED BY <2>2, <4>2, <4>3, Zenon DEF Agree
    <3> QED BY <3>1, <3>2, <3>5, <3>6 DEF RecInv
  <2> QED BY <1>6, <2>1, <2>2, Zenon DEF csi_pmic_regulator_ctrl, Put
<1>7. CASE csi_pmic_regulator_ctrl_end
  <2>1. /\ call.k = "ctrl" /\ call.i > Len(board.regu[call.x].id)
        /\ dirty' = dirty \ {call.x} /\ call' = None /\ UNCHANGED <<board, on, gpio, benable>>
    BY <1>7, Zenon DEF csi_pmic_regulator_ctrl_end, Return
  <2>2. Regus' = Regus /\ \A x : Ids(x)' = Ids(x)
    BY <2>1 DEF Regus, Ids
  <2>3. board \in Boards /\ board' \in Boards /\ call.i \in Nat /\ call'.k = "none"
    BY <2>1 DEF RecInv, None
  <2>4. Table(on)' /\ Table(gpio)' /\ Table(benable)'
    BY <2>1, <2>2, Zenon DEF RecInv, Table
  <2>5. ASSUME NEW x \in Regus, NEW j \in Ids(x), x \notin dirty' \/ Passed(x, j)'
        PROVE  Agree(x, j)'
    <3>1. j \in Nat /\ j <= Len(board.regu[x].id) /\ Len(board.regu[x].id) \in Nat
      BY <2>3, RailNumbers
    <3>2. x \notin dirty \/ Passed(x, j)
      BY <2>1, <2>3, <2>5, <3>1 DEF Passed
    <3>3. Agree(x, j)
      BY <3>2, Zenon DEF RecInv
    <3> QED BY <2>1, <3>3, Zenon DEF Agree
  <2> QED BY <2>2, <2>3, <2>4, <2>5 DEF RecInv
<1>8. CASE pmic_soft_power_ctrl
  <2>1. /\ UNCHANGED <<board, on, gpio, benable, dirty>>
        /\ Return(FALSE) \/ (\E x, e : call' = Ctrl(x, e, 1)) \/ \E x, t, from : call' = Volt(x, t, {}, 0, TRUE, from)
    BY <1>8, Zenon DEF pmic_soft_power_ctrl
  <2> QED BY <1>2, <2>1, Zenon DEF Return
<1>9. CASE soft_power_end \/ aon_pmic_poweroff \/ check_fault
  BY <1>2, <1>9, Zenon DEF soft_power_end, aon_pmic_poweroff, csi_pmic_soft_power_off, check_fault
<1>10. CASE set_resource_regulator \/ pwr_set
  BY <1>2, <1>10, Zenon DEF set_resource_regulator, pwr_set
<1> QED BY <1>1, <1>3, <1>4, <1>5, <1>6, <1>7, <1>8, <1>9, <1>10, Zenon DEF Next, driverStep

(* Recorded holds for every board and with failing transfers: what           *)
(* csi_pmic_regulator_is_enable() reports between calls is what the chip and *)
(* the parent GPIOs do, whatever they did at the start, for every regulator  *)
(* whose last switching since then got to its end.                           *)
THEOREM RecordedHolds == Spec => []Recorded
<1>1. Init => RecInv
  <2> SUFFICES ASSUME Init PROVE RecInv
    OBVIOUS
  <2>1. board \in Boards /\ call = None /\ dirty = Regus
    BY DEF Init
  <2>2. /\ on \in [Regus -> UNION {[Ids(x) -> board.bits] : x \in Regus}]
        /\ gpio \in [Regus -> UNION {[Ids(x) -> board.bits] : x \in Regus}]
        /\ \A x \in Regus : DOMAIN on[x] = Ids(x) /\ DOMAIN gpio[x] = Ids(x)
    BY Zenon DEF Init
  <2>3. Table(on) /\ Table(gpio)
    BY <2>2, TableInit
  <2>4. call.k # "ctrl"
    BY <2>1 DEF None
  <2>5. benable = [x \in Regus |-> [j \in Ids(x) |-> board.regu[x].id[j].initial_benable]]
    BY DEF Init
  <2>6. Table(benable)
    BY <2>5 DEF Table
  <2> QED BY <2>1, <2>3, <2>4, <2>6 DEF RecInv, Passed
<1>2. RecInv /\ [Next]_driver => RecInv'
  BY RecNext
<1>3. RecInv => Recorded
  <2> SUFFICES ASSUME RecInv, NEW x \in Regus \ dirty
               PROVE  csi_pmic_regulator_is_enable(x) <=>
                         \A j \in Ids(x) : on[x][j] /\ (board.regu[x].id[j].parent = "gpio" => gpio[x][j])
    BY Zenon DEF Recorded
  <2>1. \A j \in Ids(x) : Agree(x, j)
    BY Zenon DEF RecInv
  <2> QED BY <2>1, Zenon DEF Agree, csi_pmic_regulator_is_enable
<1> QED BY <1>1, <1>2, <1>3, PTL DEF Spec
=============================================================================
