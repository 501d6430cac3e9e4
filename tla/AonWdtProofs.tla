---------------------------- MODULE AonWdtProofs -----------------------------
(***************************************************************************)
(* Proofs about the watchdog service, for every length of the PMIC         *)
(* watchdog, every set of lengths and requests of the AP.  The monitor's   *)
(* properties need that the AP does not interfere with main() (no EARLY),  *)
(* those of the PMIC also that it does not suspend with an armed watchdog  *)
(* (no STR_ARMED) and that the I2C bus works: Quiet.                       *)
(***************************************************************************)
EXTENDS AonWdt, TLAPS

USE WdtAssumption

LEMMA MonitorLen == MONITOR_TMR_LEN \in 1 .. 16
  BY DEF MONITOR_TMR_LEN

\* Every outcome of an operation on the da9063 is a state of its watchdog.
LEMMA ChipOutcomes ==
  ASSUME NEW c \in Chips, NEW s \in Nat
  PROVE  /\ Running(s) \in Chips /\ Running(s).len = Running(s).left
         /\ Running(s).len # 0 /\ Off \in Chips
         /\ \A r \in wdt_start(c, s) : r[1] \in Chips /\ r[2] \in {CSI_OK, CSI_ERROR}
         /\ \A r \in wdt_set_timer_len(c, s) : r[1] \in Chips /\ r[2] \in {CSI_OK, CSI_ERROR}
         /\ \A r \in wdt_feed(c) : r[1] \in Chips /\ r[2] \in {CSI_OK, CSI_ERROR}
         /\ \A r \in wdt_stop(c) : r[1] \in Chips /\ r[2] \in {CSI_OK, CSI_ERROR}
<1>1. Timeout(s) \in {2, 4, 8, 16, 32, 64, 128}
  BY DEF Timeout
<1>2. Running(s) \in Chips /\ Running(s).len = Running(s).left /\ Running(s).len # 0
  BY <1>1 DEF Running, Chips
<1>3. Off \in Chips
  BY DEF Off, Chips
<1>4. update_timer(c, s) \in Chips
  BY <1>1, <1>2 DEF update_timer, Chips
<1>5. [c EXCEPT !.left = c.len] \in Chips
  BY DEF Chips
<1>6. ASSUME NEW S \in SUBSET Chips, NEW r \in Failed(S)
      PROVE  r[1] \in Chips /\ r[2] \in {CSI_OK, CSI_ERROR}
  BY <1>6 DEF Failed
<1>7. ASSUME NEW r \in wdt_start(c, s) PROVE r[1] \in Chips /\ r[2] \in {CSI_OK, CSI_ERROR}
  BY <1>2, <1>3, <1>6, <1>7 DEF wdt_start
<1>8. ASSUME NEW r \in wdt_set_timer_len(c, s)
      PROVE  r[1] \in Chips /\ r[2] \in {CSI_OK, CSI_ERROR}
  BY <1>2, <1>4, <1>6, <1>8 DEF wdt_set_timer_len
<1>9. ASSUME NEW r \in wdt_feed(c) PROVE r[1] \in Chips /\ r[2] \in {CSI_OK, CSI_ERROR}
  BY <1>5, <1>6, <1>9 DEF wdt_feed
<1>10. ASSUME NEW r \in wdt_stop(c) PROVE r[1] \in Chips /\ r[2] \in {CSI_OK, CSI_ERROR}
  BY <1>3, <1>6, <1>10 DEF wdt_stop
<1> QED BY <1>2, <1>3, <1>7, <1>8, <1>9, <1>10

LEMMA SetTimerType ==
  ASSUME TypeOK, NEW s \in Nat, NEW ret,
         aon_hw_wdt_set_time_len(s, ret)
  PROVE  chip' \in Chips /\ wdt_len' \in Nat /\ flag' \in {0, 1}
  BY ChipOutcomes DEF aon_hw_wdt_set_time_len, csi_pmic_wdt_set_timer, TypeOK

LEMMA InitType == Init => TypeOK
<1>1. Off \in Chips
  BY DEF Off, Chips
<1> QED BY <1>1, MonitorLen DEF Init, TypeOK, TimerOff

LEMMA TypeStep == TypeOK /\ [Next]_vars => TypeOK'
<1> SUFFICES ASSUME TypeOK, [Next]_vars PROVE TypeOK'
  OBVIOUS
<1> USE MonitorLen
<1>t. TimerStarted \in [on : {0, 1}, irq : {0, 1}, left : 0 .. MONITOR_TMR_LEN]
  BY DEF TypeOK, TimerStarted
<1>l. AON_WDT_PMIC_TMR_LEN \in Nat
  OBVIOUS
<1>1. CASE aon_wdt_init
  BY <1>1 DEF TypeOK, aon_wdt_init, TimerOff
<1>2. CASE mainCheck
  BY <1>2 DEF TypeOK, mainCheck, pmicVars, monitorVars
<1>3. CASE mainTimer
  BY <1>3, <1>t, <1>l, SetTimerType DEF TypeOK, mainTimer, monitorVars
<1>4. CASE mainState \/ aon_lpm_init
  BY <1>4 DEF TypeOK, mainState, aon_lpm_init, pmicVars, monitorVars
<1>5. CASE aon_wdt_start
  BY <1>5, <1>t, <1>l, SetTimerType DEF TypeOK, aon_wdt_start
<1>6. CASE aon_wdt_stop
  <2>1. chip' \in Chips /\ flag' \in {0, 1} /\ hw_wdt_en' \in {0, 1}
    BY <1>6, ChipOutcomes DEF TypeOK, aon_wdt_stop, aon_hw_wdt_stop, csi_pmic_wdt_stop
  <2> QED BY <1>6, <2>1 DEF TypeOK, aon_wdt_stop, sysVars
<1>7. CASE aon_hw_wdt_start
  <2>1. chip' \in Chips /\ flag' \in {0, 1}
    BY <1>7, ChipOutcomes DEF TypeOK, aon_hw_wdt_start, csi_pmic_wdt_start
  <2> QED BY <1>7, <2>1 DEF TypeOK, aon_hw_wdt_start, sysVars
<1>8. CASE WdtOff
  <2>1. chip' \in Chips /\ flag' \in {0, 1}
    BY <1>8, ChipOutcomes DEF TypeOK, WdtOff, aon_hw_wdt_stop, csi_pmic_wdt_stop
  <2> QED BY <1>8, <2>1 DEF TypeOK, WdtOff, aon_hw_wdt_stop, sysVars
<1>9. CASE WdgPing
  BY <1>9, ChipOutcomes DEF TypeOK, WdgPing, sysVars, monitorVars
<1>10. ASSUME NEW s \in Lens, WdgTimeoutSet(s) PROVE TypeOK'
  <2>1. s \in Nat
    OBVIOUS
  <2> QED BY <1>10, <2>1, SetTimerType DEF TypeOK, WdgTimeoutSet, sysVars, monitorVars
<1>11. CASE WdgRestart \/ WdgPowerOff
  BY <1>11 DEF TypeOK, WdgRestart, WdgPowerOff, pmicVars, monitorVars
<1>12. CASE misc_regdump_cfg
  BY <1>12 DEF TypeOK, misc_regdump_cfg, pmicVars, sysVars
<1>13. CASE monitorRun
  <2>1. chip' \in Chips
    BY <1>13, ChipOutcomes DEF TypeOK, monitorRun
  <2> QED BY <1>13, <2>1, <1>t DEF TypeOK, monitorRun, sysVars
<1>14. CASE monitorRepower
  <2>1. chip' \in Chips /\ up' \in {"run", "spin", "reset"}
        /\ monitor_state' \in {"RUN", "REPOWER"}
    BY <1>14, ChipOutcomes DEF TypeOK, monitorRepower, aon_hw_wdt_repower, TimerDue
  <2> QED BY <1>14, <2>1, <1>t DEF TypeOK, monitorRepower
<1>15. CASE monitorIdle
  BY <1>15, <1>t DEF TypeOK, monitorIdle, sysVars, monitorVars, pmicVars
<1>16. CASE chip_lpm_suspend \/ chip_lpm_resume
  BY <1>16 DEF TypeOK, chip_lpm_suspend, chip_lpm_resume, pmicVars, monitorVars
<1>17. CASE chip_lpm_finish
  BY <1>17, <1>t DEF TypeOK, chip_lpm_finish, pmicVars, monitorVars
<1>18. CASE Second
  <2>1. chip' \in Chips
    BY <1>18 DEF TypeOK, Second, Dec, Chips
  <2>2. timer' \in [on : {0, 1}, irq : {0, 1}, left : 0 .. MONITOR_TMR_LEN]
    BY <1>18 DEF TypeOK, Second, Dec
  <2> QED BY <1>18, <2>1, <2>2 DEF TypeOK, Second, monitorVars
<1>19. CASE ApHangs
  BY <1>19 DEF TypeOK, ApHangs, pmicVars, monitorVars
<1>20. CASE Restart
  <2>1. chip' \in Chips
    BY <1>20 DEF TypeOK, Restart, Off, Chips
  <2> HIDE DEF Chips
  <2> QED BY <1>20, <2>1 DEF TypeOK, Restart, TimerOff
<1>21. CASE UNCHANGED vars
  BY <1>21 DEF TypeOK, vars, sysVars, pmicVars, monitorVars
<1> QED BY <1>1, <1>2, <1>3, <1>4, <1>5, <1>6, <1>7, <1>8, <1>9, <1>10, <1>11,
           <1>12, <1>13, <1>14, <1>15, <1>16, <1>17, <1>18, <1>19, <1>20, <1>21
        DEF Next, aon_wdt_monitor_tmr_callback

\* The counters of the monitor timer and of the PMIC watchdog stay within
\* their lengths in every behaviour of the service.
THEOREM TypeCorrect == Spec => []TypeOK
BY InitType, TypeStep, PTL DEF Spec

-----------------------------------------------------------------------------
(* The monitor.                                                            *)

Undisturbed == "EARLY" \notin Requests

\* What makes MonitorAlive inductive: until main() has started the monitor
\* nothing is armed, the timer interrupt is masked in standby only, and the
\* timer runs whenever the monitor is not idle.
MonitorInv ==
  /\ TypeOK
  /\ up = "run" => main # "init"
  /\ up = "asleep" => standby = 1 /\ main = "loop"
  /\ up = "run" /\ main \in {"check", "timer", "state"} =>
       monitor_state = "IDLE" /\ hw_wdt_en = 0
       /\ (type = "USE_PMIC" => flag = 0)
  /\ up = "run" /\ main = "state" => timer.on = 1
  /\ up = "run" /\ (standby = 0 \/ main # "loop") => timer.irq = 1
  /\ up \in {"run", "asleep"} /\ monitor_state # "IDLE" => timer.on = 1

LEMMA InitMonitor == Init => MonitorInv
  BY InitType DEF Init, MonitorInv

LEMMA MonitorStep ==
  ASSUME Undisturbed PROVE MonitorInv /\ [Next]_vars => MonitorInv'
<1> SUFFICES ASSUME MonitorInv, [Next]_vars PROVE MonitorInv'
  OBVIOUS
<1>0. TypeOK'
  BY TypeStep DEF MonitorInv
<1> USE <1>0 DEF MonitorInv, Undisturbed, Asks, AsksLate, Ready, TimerStarted,
                 CSI_OK, CSI_ERROR, TypeOK
<1>1. CASE aon_wdt_init
  BY <1>1 DEF aon_wdt_init, TimerOff
<1>2. CASE mainCheck
  BY <1>2 DEF mainCheck, pmicVars, monitorVars
<1>3. CASE mainTimer
  BY <1>3 DEF mainTimer, monitorVars, aon_hw_wdt_set_time_len, csi_pmic_wdt_set_timer
<1>4. CASE mainState \/ aon_lpm_init
  BY <1>4 DEF mainState, aon_lpm_init, pmicVars, monitorVars
<1>5. CASE aon_wdt_start
  BY <1>5 DEF aon_wdt_start
<1>6. CASE aon_wdt_stop
  BY <1>6 DEF aon_wdt_stop, sysVars
<1>7. CASE aon_hw_wdt_start \/ WdtOff
  BY <1>7 DEF aon_hw_wdt_start, WdtOff, sysVars
<1>8. CASE WdgPing \/ \E s \in Lens : WdgTimeoutSet(s)
  BY <1>8 DEF WdgPing, WdgTimeoutSet, sysVars, monitorVars
<1>9. CASE WdgRestart \/ WdgPowerOff
  BY <1>9 DEF WdgRestart, WdgPowerOff
<1>10. CASE misc_regdump_cfg
  BY <1>10 DEF misc_regdump_cfg, sysVars
<1>11. CASE monitorRun
  BY <1>11 DEF monitorRun, TimerDue, sysVars
<1>12. CASE monitorRepower
  BY <1>12 DEF monitorRepower, aon_hw_wdt_repower, TimerDue
<1>13. CASE monitorIdle
  BY <1>13 DEF monitorIdle, TimerDue, sysVars, monitorVars, pmicVars
<1>14. CASE chip_lpm_suspend \/ chip_lpm_resume
  BY <1>14 DEF chip_lpm_suspend, chip_lpm_resume, monitorVars
<1>15. CASE chip_lpm_finish
  BY <1>15 DEF chip_lpm_finish, monitorVars
<1>16. CASE Second
  BY <1>16 DEF Second, monitorVars
<1>17. CASE ApHangs
  BY <1>17 DEF ApHangs, pmicVars, monitorVars
<1>18. CASE Restart
  BY <1>18 DEF Restart
<1>19. CASE UNCHANGED vars
  BY <1>19 DEF vars, sysVars, pmicVars, monitorVars
<1> HIDE DEF MonitorInv
<1> QED BY <1>1, <1>2, <1>3, <1>4, <1>5, <1>6, <1>7, <1>8, <1>9, <1>10, <1>11,
           <1>12, <1>13, <1>14, <1>15, <1>16, <1>17, <1>18, <1>19
        DEF Next, aon_wdt_monitor_tmr_callback

\* If the AP leaves main() alone, a monitor that is not idle always has its
\* timer and the timer's interrupt, whatever the I2C bus does.
THEOREM MonitorStaysAlive == ASSUME Undisturbed PROVE Spec => []MonitorAlive
<1>1. MonitorInv => MonitorAlive
  BY DEF MonitorInv, MonitorAlive
<1> QED BY <1>1, InitMonitor, MonitorStep, PTL DEF Spec

-----------------------------------------------------------------------------
(* The PMIC watchdog.                                                      *)

\* What makes ArmedConsistent and FedInTime inductive: AUTO_BOOT, by which
\* aon_wdt_init() chooses the PMIC, is only found set when a power cycle has
\* also stopped the PMIC watchdog, and nothing is armed in standby.
ArmingInv ==
  /\ up \in {"run", "asleep", "spin", "reset"} => autoBoot = 0
  /\ up = "boot" /\ autoBoot = 1 => chip = Off
  /\ up \in {"run", "asleep"} /\ standby = 1 /\ main = "loop" => hw_wdt_en = 0
  /\ ArmedConsistent
  /\ FedInTime

PmicInv == MonitorInv /\ ArmingInv

LEMMA InitPmic == Init => PmicInv
  BY InitMonitor DEF Init, PmicInv, ArmingInv, ArmedConsistent, FedInTime

\* Without I2C failures every operation has one outcome.
LEMMA OneOutcome ==
  ASSUME Quiet, NEW c, NEW s
  PROVE  /\ wdt_start(c, s) = {<<Running(s), CSI_OK>>}
         /\ wdt_set_timer_len(c, s) = {<<Running(s), CSI_OK>>}
         /\ wdt_stop(c) = {<<Off, CSI_OK>>}
  BY DEF Quiet, wdt_start, wdt_set_timer_len, wdt_stop, Failed

LEMMA FeedOutcome ==
  ASSUME Quiet, NEW c \in [len : Nat, left : Nat], NEW r \in wdt_feed(c)
  PROVE  r[1].len = c.len /\ r[1].left = c.len
  BY DEF Quiet, wdt_feed, Failed

\* A watchdog just started or fed has its whole length left, which is more
\* than the timer has.
LEMMA PmicStep == ASSUME Quiet PROVE PmicInv /\ [Next]_vars => PmicInv'
<1> SUFFICES ASSUME PmicInv, [Next]_vars PROVE ArmingInv'
  BY MonitorStep DEF PmicInv, Quiet, Undisturbed
<1>t. /\ chip \in [len : Nat, left : Nat] /\ chip.left <= chip.len
      /\ timer \in [on : {0, 1}, irq : {0, 1}, left : 0 .. MONITOR_TMR_LEN]
      /\ hw_wdt_en \in {0, 1} /\ flag \in {0, 1}
  BY DEF PmicInv, MonitorInv, TypeOK, Chips
<1>i. /\ up = "run" /\ main \in {"check", "timer", "state"} =>
           hw_wdt_en = 0 /\ (type = "USE_PMIC" => flag = 0)
      /\ up = "asleep" => standby = 1 /\ main = "loop"
      /\ ArmingInv
  BY DEF PmicInv, MonitorInv
<1>r. \A s \in Nat : Running(s) \in [len : Nat, left : Nat]
                    /\ Running(s).len = Running(s).left /\ Running(s).len # 0
  BY DEF Running, Timeout
<1>l. AON_WDT_PMIC_TMR_LEN \in Nat
  OBVIOUS
<1>q. "EARLY" \notin Requests /\ "STR_ARMED" \notin Requests
  BY DEF Quiet
<1>s. ASSUME NEW s \in Nat, NEW ret, aon_hw_wdt_set_time_len(s, ret)
      PROVE  /\ flag' = flag
             /\ chip' = IF type = "USE_PMIC" /\ flag = 1 THEN Running(s) ELSE chip
  BY <1>s, <1>t, OneOutcome DEF aon_hw_wdt_set_time_len, csi_pmic_wdt_set_timer
<1>o. csi_pmic_wdt_stop => chip'.len = 0 /\ flag' = 0
  <2> SUFFICES ASSUME csi_pmic_wdt_stop PROVE chip'.len = 0 /\ flag' = 0
    OBVIOUS
  <2>1. PICK r \in wdt_stop(chip) :
          chip' = r[1] /\ flag' = IF r[2] = CSI_OK THEN 0 ELSE flag
    BY DEF csi_pmic_wdt_stop
  <2>2. r = <<Off, CSI_OK>>
    BY OneOutcome
  <2> QED BY <2>1, <2>2 DEF Off
<1> USE MonitorLen, <1>t, <1>i, <1>q DEF ArmingInv, ArmedConsistent, FedInTime
<1>1. CASE aon_wdt_init
  BY <1>1 DEF aon_wdt_init, Off
<1>2. CASE mainCheck
  BY <1>2 DEF mainCheck, pmicVars, monitorVars
<1>3. CASE mainTimer
  <2>1. flag' = flag /\ (type = "USE_PMIC" => chip' = chip)
    BY <1>3, <1>l, <1>s DEF mainTimer
  <2> QED BY <1>3, <2>1 DEF mainTimer, monitorVars
<1>4. CASE mainState \/ aon_lpm_init
  BY <1>4 DEF mainState, aon_lpm_init, pmicVars, monitorVars
<1>5. CASE aon_wdt_start
  <2>1. flag' = flag /\ chip' = IF type = "USE_PMIC" /\ flag = 1
                                  THEN Running(AON_WDT_PMIC_TMR_LEN) ELSE chip
    BY <1>5, <1>l, <1>s DEF aon_wdt_start
  <2>2. timer'.left = MONITOR_TMR_LEN
    BY <1>5 DEF aon_wdt_start, TimerStarted
  <2>3. type = "USE_PMIC" /\ hw_wdt_en = 1 =>
          chip'.left = chip'.len /\ chip'.len # 0
    BY <1>5, <2>1, <1>l, <1>r DEF aon_wdt_start, Asks, Ready
  <2>4. hw_wdt_en = 0 /\ type = "USE_PMIC" => chip' = chip
    BY <1>5, <2>1 DEF aon_wdt_start, Asks, Ready
  <2> QED BY <1>5, <2>1, <2>2, <2>3, <2>4, <1>l, <1>r DEF aon_wdt_start, Asks, Ready
<1>6. CASE aon_wdt_stop
  <2>1. hw_wdt_en' = 0 /\ monitor_state' = "IDLE" /\ type' = type /\ autoBoot' = autoBoot
        /\ UNCHANGED <<up, main, standby>>
    BY <1>6 DEF aon_wdt_stop, aon_hw_wdt_stop, sysVars
  <2>2. type = "USE_PMIC" => chip'.len = 0 /\ flag' = 0
    BY <1>6, <1>o DEF aon_wdt_stop, aon_hw_wdt_stop, Asks, Ready
  <2> QED BY <1>6, <2>1, <2>2 DEF aon_wdt_stop, Asks, Ready
<1>7. CASE aon_hw_wdt_start
  <2>1. type = "USE_PMIC" => chip' = Running(wdt_len) /\ flag' = 1
    BY <1>7, OneOutcome DEF aon_hw_wdt_start, csi_pmic_wdt_start
  <2>2. wdt_len \in Nat
    BY DEF PmicInv, MonitorInv, TypeOK
  <2> QED BY <1>7, <2>1, <2>2, <1>r DEF aon_hw_wdt_start, sysVars, Asks, Ready
<1>8. CASE WdtOff
  <2>1. hw_wdt_en' = 0 /\ (type = "USE_PMIC" => chip'.len = 0 /\ flag' = 0)
    BY <1>8, <1>o DEF WdtOff, aon_hw_wdt_stop
  <2> QED BY <1>8, <2>1 DEF WdtOff, sysVars, Asks, Ready
<1>9. CASE WdgPing
  <2>1. chip'.len = chip.len /\ chip'.left = chip.len
    BY <1>9, FeedOutcome DEF WdgPing
  <2> QED BY <1>9, <2>1 DEF WdgPing, sysVars, monitorVars, Asks, Ready
<1>10. ASSUME NEW s \in Lens, WdgTimeoutSet(s) PROVE ArmingInv'
  <2>1. s \in Nat
    OBVIOUS
  <2>2. flag' = flag /\ chip' = IF type = "USE_PMIC" /\ flag = 1
                                  THEN Running(s) ELSE chip
    BY <1>10, <2>1, <1>s DEF WdgTimeoutSet
  <2> QED BY <1>10, <2>1, <2>2, <1>r DEF WdgTimeoutSet, sysVars, monitorVars, Asks, Ready
<1>11. CASE WdgRestart \/ WdgPowerOff
  BY <1>11 DEF WdgRestart, WdgPowerOff, pmicVars, Asks, Ready
<1>12. CASE misc_regdump_cfg
  BY <1>12 DEF misc_regdump_cfg, sysVars, pmicVars
<1>13. CASE monitorRun
  <2>1. /\ chip'.len = chip.len
        /\ type = "USE_PMIC" /\ hw_wdt_en = 1 => chip'.left = chip'.len
    BY <1>13, FeedOutcome DEF monitorRun
  <2>2. timer'.left = MONITOR_TMR_LEN
    BY <1>13 DEF monitorRun, TimerStarted
  <2> QED BY <1>13, <2>1, <2>2 DEF monitorRun, TimerDue, sysVars
<1>14. CASE monitorRepower
  <2>1. /\ hw_wdt_en = 0 => chip' = chip /\ up' = "run"
        /\ hw_wdt_en = 1 => up' \in {"spin", "reset"}
    BY <1>14, OneOutcome DEF monitorRepower, aon_hw_wdt_repower, TimerDue
  <2> QED BY <1>14, <2>1 DEF monitorRepower, TimerDue
<1>15. CASE monitorIdle
  BY <1>15 DEF monitorIdle, TimerDue, sysVars, monitorVars, pmicVars
<1>16. CASE chip_lpm_suspend \/ chip_lpm_resume
  BY <1>16 DEF chip_lpm_suspend, chip_lpm_resume, monitorVars, pmicVars, AsksLate, Ready
<1>17. CASE chip_lpm_finish
  BY <1>17 DEF chip_lpm_finish, monitorVars, pmicVars, AsksLate, Ready
<1>18. CASE Second
  <2>1. chip'.len = chip.len /\ chip'.left = Dec(chip.left)
    BY <1>18 DEF Second
  <2>2. timer.on = 1 => timer'.left = Dec(timer.left) /\ timer'.on = 1 /\ timer'.irq = timer.irq
    BY <1>18 DEF Second
  <2>3. timer.on = 0 => timer'.on = 0
    BY <1>18 DEF Second
  <2>4. FedInTime'
    BY <1>18, <2>1, <2>2, <2>3 DEF Second, TimerDue, Dec, monitorVars
  <2> QED BY <1>18, <2>1, <2>4 DEF Second, monitorVars
<1>19. CASE ApHangs
  BY <1>19 DEF ApHangs, pmicVars, monitorVars
<1>20. CASE Restart
  BY <1>20 DEF Restart
<1>21. CASE UNCHANGED vars
  BY <1>21 DEF vars, sysVars, pmicVars, monitorVars
<1> HIDE DEF ArmingInv
<1> QED BY <1>1, <1>2, <1>3, <1>4, <1>5, <1>6, <1>7, <1>8, <1>9, <1>10, <1>11,
           <1>12, <1>13, <1>14, <1>15, <1>16, <1>17, <1>18, <1>19, <1>20, <1>21
        DEF Next, aon_wdt_monitor_tmr_callback

\* hw_wdt_en, the flag of the device and the PMIC never disagree while the
\* PMIC is the reset source, for an orderly AP and a working I2C bus.
THEOREM ArmedSafe == ASSUME Quiet PROVE Spec => []ArmedConsistent
<1>1. PmicInv => ArmedConsistent
  BY DEF PmicInv, ArmingInv
<1> QED BY <1>1, InitPmic, PmicStep, PTL DEF Spec

\* The monitor feeds the PMIC before it bites, for every length above the
\* period of its timer, an orderly AP and a working I2C bus.
THEOREM FedSafe == ASSUME Quiet PROVE Spec => []FedInTime
<1>1. PmicInv => FedInTime
  BY DEF PmicInv, ArmingInv
<1> QED BY <1>1, InitPmic, PmicStep, PTL DEF Spec
=============================================================================
