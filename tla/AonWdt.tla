------------------------------- MODULE AonWdt --------------------------------
(***************************************************************************)
(* The watchdog service: aon_wdt.c, with what other files do to its state. *)
(* A 4 s timer interrupt looks whether a watchdog of the AP or the audio   *)
(* subsystem has fired, and feeds the 32 s watchdog of the PMIC (da9063),  *)
(* the backup if this core hangs.  REGDUMP_CFG of aon_misc.c changes the   *)
(* reset type; suspend and resume (power.c) mask and restart the timer.    *)
(*                                                                         *)
(* Requests are served in the mailbox interrupt, the monitor in the timer  *)
(* interrupt, and interrupts do not nest: one handler is one step.  Only   *)
(* the start from main() can be interrupted.  Time advances in seconds; a  *)
(* due timer interrupt is taken before the next second.                    *)
(***************************************************************************)
EXTENDS Integers

CONSTANTS AON_WDT_PMIC_TMR_LEN,  \* seconds, 32 in aon_wdt.h
          Lens,                  \* lengths the AP asks for with TIMEOUTSET
          Requests,              \* what the AP asks for, see Asks and Quiet
          I2cMayFail,            \* whether I2C transfers may fail
          OtpAutoBoot            \* AUTO_BOOT of the PMIC after power-on

MONITOR_TMR_LEN == AON_WDT_PMIC_TMR_LEN \div 8

ASSUME WdtAssumption ==
  /\ AON_WDT_PMIC_TMR_LEN \in 8 .. 128
  /\ Lens \subseteq Nat
  /\ I2cMayFail \in BOOLEAN
  /\ OtpAutoBoot \in {0, 1}

VARIABLES up,             \* what the system does, see TypeOK
          main,           \* where main() is in starting the monitor
          monitor_state,
          hw_wdt_en,
          type,           \* hw_wdt.type: who resets the system
          timer,          \* DW timer 0: [on, irq (enabled in the CLIC), left]
          flag,           \* PMIC_DEV_ENABLE_WDT in dev_info->flag
          wdt_len,        \* dev_info->wdt_len
          chip,           \* PMIC watchdog: [len (0: stopped), left]
          autoBoot,       \* AUTO_BOOT of CONTROL_C in the PMIC
          apTimeout,      \* a monitored watchdog has fired
          standby         \* the chip lp mode register holds STANDBY

pmicVars == <<flag, wdt_len, chip, autoBoot>>
monitorVars == <<monitor_state, hw_wdt_en, type>>
sysVars == <<up, main, apTimeout, standby>>
vars == <<timer, pmicVars, monitorVars, sysVars>>

-----------------------------------------------------------------------------
(* The da9063 watchdog.  An operation is the set of its outcomes           *)
(* <<chip afterwards, result>>; it may stop after any I2C transfer.        *)

CSI_OK == 0
CSI_ERROR == -1

Off == [len |-> 0, left |-> 0]

\* da9063_get_twdscale(), as the seconds the scale stands for.
Timeout(s) == IF s <= 2 THEN 2 ELSE IF s <= 4 THEN 4 ELSE IF s <= 8 THEN 8
              ELSE IF s <= 16 THEN 16 ELSE IF s <= 32 THEN 32
              ELSE IF s <= 64 THEN 64 ELSE 128

Running(s) == [len |-> Timeout(s), left |-> Timeout(s)]

Failed(chips) == IF I2cMayFail THEN chips \X {CSI_ERROR} ELSE {}

\* da9063_wdt_update_timer(): a running counter keeps what it has left.
update_timer(c, s) ==
  IF c.len = 0 \/ c.left > Timeout(s) THEN Running(s)
                                      ELSE [c EXCEPT !.len = Timeout(s)]

wdt_stop(c) == {<<Off, CSI_OK>>} \cup Failed({c})

wdt_feed(c) == {<<[c EXCEPT !.left = c.len], CSI_OK>>} \cup Failed({c})

wdt_set_timer_len(c, s) ==
  {<<Running(s), CSI_OK>>} \cup Failed({c, update_timer(c, s)})

wdt_start(c, s) == {<<Running(s), CSI_OK>>} \cup Failed({c, Off})

\* csi_pmic_wdt_stop() and csi_pmic_wdt_start() keep the flag of the device.
csi_pmic_wdt_stop ==
  \E r \in wdt_stop(chip) :
    chip' = r[1] /\ flag' = IF r[2] = CSI_OK THEN 0 ELSE flag

csi_pmic_wdt_start ==
  \E r \in wdt_start(chip, wdt_len) :
    chip' = r[1] /\ flag' = IF r[2] = CSI_OK THEN 1 ELSE flag

\* csi_pmic_wdt_set_timer(): the chip is only told when the flag is set.
csi_pmic_wdt_set_timer(s, ret) ==
  /\ wdt_len' = s
  /\ \/ flag = 1 /\ \E r \in wdt_set_timer_len(chip, s) : chip' = r[1] /\ ret = r[2]
     \/ flag = 0 /\ chip' = chip /\ ret = CSI_OK
  /\ UNCHANGED flag

-----------------------------------------------------------------------------
(* Boot.                                                                   *)

TimerOff == [on |-> 0, irq |-> 0, left |-> 0]

\* Mutant: the length of the PMIC watchdog instead of the monitor's.
TimerStartedPmicLen == [on |-> 1, irq |-> timer.irq, left |-> AON_WDT_PMIC_TMR_LEN]

\* csi_timer_start(&g_aon_wdt.timer_handle, monitor_tmr_len)
TimerStarted == [on |-> 1, irq |-> timer.irq, left |-> MONITOR_TMR_LEN]

Init ==
  /\ up = "boot" /\ main = "init" /\ apTimeout = 0 /\ standby = 0
  /\ monitor_state = "IDLE" /\ hw_wdt_en = 0 /\ type = "USE_PMIC"
  /\ timer = TimerOff
  /\ flag = 0 /\ wdt_len = 0 /\ chip = Off /\ autoBoot = OtpAutoBoot

\* pmic_register_device() and da9063_init(), which reads AUTO_BOOT and then
\* overwrites CONTROL_C; aon_wdt_init() registers the WDG service at its end.
aon_wdt_init ==
  /\ up = "boot" /\ up' = "run" /\ main' = "check"
  /\ type' = IF autoBoot = 1 THEN "USE_PMIC" ELSE "SOFT_RST"
  /\ autoBoot' = 0
  /\ flag' = 0
  /\ monitor_state' = "IDLE" /\ hw_wdt_en' = 0
  /\ timer' = [TimerOff EXCEPT !.irq = 1]
  /\ UNCHANGED <<wdt_len, chip, apTimeout, standby>>

\* aon_hw_wdt_set_time_len()
aon_hw_wdt_set_time_len(s, ret) ==
  IF type = "USE_PMIC" THEN csi_pmic_wdt_set_timer(s, ret)
                       ELSE ret = CSI_OK /\ UNCHANGED <<flag, wdt_len, chip>>

\* aon_wdt_start() called by main(), which the mailbox can interrupt.
mainCheck ==
  /\ up = "run" /\ main = "check"
  /\ main' = IF monitor_state = "IDLE" THEN "timer" ELSE "lpm"
  /\ UNCHANGED <<up, apTimeout, standby, timer, pmicVars, monitorVars>>

mainTimer ==
  /\ up = "run" /\ main = "timer"
  /\ \E ret \in {CSI_OK, CSI_ERROR} :
       /\ aon_hw_wdt_set_time_len(AON_WDT_PMIC_TMR_LEN, ret)
       /\ timer' = [TimerStarted EXCEPT !.on = IF ret = CSI_OK THEN 1 ELSE 0]
       /\ main' = IF ret = CSI_OK THEN "state" ELSE "fail"
  /\ UNCHANGED <<up, apTimeout, standby, autoBoot, monitorVars>>

mainState ==
  /\ up = "run" /\ main = "state" /\ main' = "lpm"
  /\ monitor_state' = "RUN"
  /\ apTimeout' = 0
  /\ UNCHANGED <<up, standby, timer, pmicVars, hw_wdt_en, type>>

\* aon_lpm_init() clears the lp mode and registers the last service.
aon_lpm_init ==
  /\ up = "run" /\ main = "lpm" /\ main' = "loop"
  /\ standby' = 0
  /\ UNCHANGED <<up, apTimeout, timer, pmicVars, monitorVars>>

-----------------------------------------------------------------------------
(* The requests of the AP.  "EARLY" in Requests: also while main() is      *)
(* still starting the monitor (WDG only, the services of the others are    *)
(* not registered).  "STR_ARMED": suspend does not wait for the hardware   *)
(* watchdog to be off, nor WDT_ON for the resume to be finished.           *)

Ready(req) == up = "run" /\ req \in Requests
Asks(req) == Ready(req) /\ (main \in {"lpm", "loop", "fail"} \/ "EARLY" \in Requests)
AsksLate(req) == Ready(req) /\ main = "loop"

\* Mutant: a failed set_time_len stops the timer but not the function.
aon_wdt_startIgnoresError ==
  /\ Asks("START")
  /\ monitor_state = "IDLE"
  /\ \E ret \in {CSI_OK, CSI_ERROR} :
       /\ aon_hw_wdt_set_time_len(AON_WDT_PMIC_TMR_LEN, ret)
       /\ timer' = [TimerStarted EXCEPT !.on = IF ret = CSI_OK THEN 1 ELSE 0]
       /\ monitor_state' = "RUN"
       /\ apTimeout' = 0
  /\ UNCHANGED <<up, main, standby, hw_wdt_en, type, autoBoot>>

\* WDG_START.  Nothing happens unless the monitor is idle.
aon_wdt_start ==
  /\ Asks("START")
  /\ monitor_state = "IDLE"
  /\ \E ret \in {CSI_OK, CSI_ERROR} :
       /\ aon_hw_wdt_set_time_len(AON_WDT_PMIC_TMR_LEN, ret)
       /\ timer' = [TimerStarted EXCEPT !.on = IF ret = CSI_OK THEN 1 ELSE 0]
       /\ monitor_state' = IF ret = CSI_OK THEN "RUN" ELSE "IDLE"
       /\ apTimeout' = IF ret = CSI_OK THEN 0 ELSE apTimeout
  /\ UNCHANGED <<up, main, standby, hw_wdt_en, type, autoBoot>>

\* Nothing happens unless hw_wdt_en.
aon_hw_wdt_stop ==
  /\ hw_wdt_en = 1
  /\ IF type = "USE_PMIC" THEN csi_pmic_wdt_stop ELSE UNCHANGED <<chip, flag>>
  /\ hw_wdt_en' = 0

WdtOff ==
  /\ Asks("WDT_OFF")
  /\ aon_hw_wdt_stop
  /\ UNCHANGED <<sysVars, timer, monitor_state, type, wdt_len, autoBoot>>

\* Mutant: the hardware watchdog is forgotten.
aon_wdt_stopKeepsHw ==
  /\ Asks("STOP")
  /\ monitor_state # "REPOWER"
  /\ timer' = [timer EXCEPT !.on = 0]
  /\ monitor_state' = "IDLE" /\ hw_wdt_en' = 0
  /\ UNCHANGED <<sysVars, type, pmicVars>>

\* WDG_STOP.  Nothing happens once a timeout has been detected.
aon_wdt_stop ==
  /\ Asks("STOP")
  /\ monitor_state # "REPOWER"
  /\ aon_hw_wdt_stop \/ (hw_wdt_en = 0 /\ UNCHANGED <<chip, flag, hw_wdt_en>>)
  /\ timer' = [timer EXCEPT !.on = 0]
  /\ monitor_state' = "IDLE"
  /\ UNCHANGED <<sysVars, type, wdt_len, autoBoot>>

\* WDT_ON.  hw_wdt_en is set even if the PMIC could not be started.
aon_hw_wdt_start ==
  /\ Asks("WDT_ON")
  /\ standby = 1 /\ main = "loop" => "STR_ARMED" \in Requests
  /\ hw_wdt_en = 0
  /\ IF type = "USE_PMIC" THEN csi_pmic_wdt_start ELSE UNCHANGED <<chip, flag>>
  /\ hw_wdt_en' = 1
  /\ UNCHANGED <<sysVars, timer, monitor_state, type, wdt_len, autoBoot>>

\* WDG_PING feeds the PMIC whatever the type.
WdgPing ==
  /\ Asks("PING")
  /\ \E r \in wdt_feed(chip) : chip' = r[1]
  /\ UNCHANGED <<sysVars, timer, monitorVars, flag, wdt_len, autoBoot>>

WdgTimeoutSet(s) ==
  /\ Asks("TIMEOUTSET")
  /\ \E ret \in {CSI_OK, CSI_ERROR} : aon_hw_wdt_set_time_len(s, ret)
  /\ UNCHANGED <<sysVars, timer, monitorVars, autoBoot>>

\* WDG_RESTART resets the SoC and leaves the PMIC alone.
WdgRestart ==
  /\ Asks("RESTART") /\ up' = "reset"
  /\ UNCHANGED <<main, apTimeout, standby, timer, pmicVars, monitorVars>>

\* WDG_POWER_OFF: csi_pmic_soft_power_off() ends in da9063_uninit(), which
\* does not return; if a transfer fails the system stays up.
WdgPowerOff ==
  /\ Asks("POWER_OFF") /\ up' = "off"
  /\ UNCHANGED <<main, apTimeout, standby, timer, pmicVars, monitorVars>>

\* MISC_FUNC_REGDUMP_CFG: the type changes, whatever rd_init() returned.
misc_regdump_cfg ==
  /\ AsksLate("REGDUMP_CFG")
  /\ type' = "CRASH_DUMP"
  /\ UNCHANGED <<sysVars, timer, monitor_state, hw_wdt_en, pmicVars>>

-----------------------------------------------------------------------------
(* The timer interrupt.                                                    *)

\* aon_hw_wdt_repower(): the PMIC is started with its shortest time and the
\* core spins until it bites; the other types reset the SoC.
aon_hw_wdt_repower ==
  \/ /\ hw_wdt_en = 0
     /\ monitor_state' = "RUN"
     /\ UNCHANGED <<up, chip>>
  \/ /\ hw_wdt_en = 1 /\ type = "USE_PMIC"
     /\ \E r \in wdt_start(chip, 2) :
          chip' = r[1] /\ up' = IF r[2] = CSI_OK THEN "spin" ELSE "run"
     /\ UNCHANGED monitor_state
  \/ /\ hw_wdt_en = 1 /\ type # "USE_PMIC"
     /\ up' = "reset"
     /\ UNCHANGED <<monitor_state, chip>>

TimerDue == up = "run" /\ timer.on = 1 /\ timer.irq = 1 /\ timer.left = 0

\* Mutant: a fired watchdog is not noticed.
monitorRunBlind ==
  /\ TimerDue /\ monitor_state = "RUN"
  /\ timer' = TimerStarted
  /\ IF type = "USE_PMIC" /\ hw_wdt_en = 1
       THEN \E r \in wdt_feed(chip) : chip' = r[1]
       ELSE UNCHANGED chip
  /\ UNCHANGED <<sysVars, monitorVars, flag, wdt_len, autoBoot>>

\* Mutant: the PMIC is not fed.
monitorRunNoFeed ==
  /\ TimerDue /\ monitor_state = "RUN"
  /\ timer' = TimerStarted
  /\ monitor_state' = IF apTimeout = 1 THEN "REPOWER" ELSE "RUN"
  /\ UNCHANGED <<sysVars, pmicVars, hw_wdt_en, type>>

monitorRun ==
  /\ TimerDue /\ monitor_state = "RUN"
  /\ timer' = TimerStarted
  /\ monitor_state' = IF apTimeout = 1 THEN "REPOWER" ELSE "RUN"
  /\ IF type = "USE_PMIC" /\ hw_wdt_en = 1
       THEN \E r \in wdt_feed(chip) : chip' = r[1]
       ELSE UNCHANGED chip
  /\ UNCHANGED <<sysVars, hw_wdt_en, type, flag, wdt_len, autoBoot>>

monitorRepower ==
  /\ TimerDue /\ monitor_state = "REPOWER"
  /\ timer' = TimerStarted
  /\ aon_hw_wdt_repower
  /\ UNCHANGED <<main, apTimeout, standby, hw_wdt_en, type, flag, wdt_len, autoBoot>>

\* The timer can run while the monitor is idle: see chip_lpm_finish.
monitorIdle ==
  /\ TimerDue /\ monitor_state = "IDLE"
  /\ timer' = TimerStarted
  /\ UNCHANGED <<sysVars, monitorVars, pmicVars>>

aon_wdt_monitor_tmr_callback == monitorRun \/ monitorRepower \/ monitorIdle

-----------------------------------------------------------------------------
(* Suspend to RAM, seen from the watchdog.                                 *)

\* LPM_FUNC_AON_REQUIRE_STR: chip_lpm_suspend() runs inside the mailbox
\* interrupt and masks every interrupt but the wake-up sources.
chip_lpm_suspend ==
  /\ AsksLate("REQUIRE_STR") /\ up' = "asleep"
  /\ hw_wdt_en = 1 => "STR_ARMED" \in Requests
  /\ standby' = 1
  /\ timer' = [timer EXCEPT !.irq = 0]
  /\ UNCHANGED <<main, apTimeout, pmicVars, monitorVars>>

\* aonsys_wakeup_source_clr() restores the interrupts but the timer's.
chip_lpm_resume ==
  /\ up = "asleep" /\ up' = "run"
  /\ UNCHANGED <<main, apTimeout, standby, timer, pmicVars, monitorVars>>

\* Mutant: the interrupt of the restarted timer stays masked.
chip_lpm_finishMasked ==
  /\ AsksLate("RESUME_STR")
  /\ timer' = IF standby = 1 THEN TimerStarted ELSE timer
  /\ standby' = 0
  /\ UNCHANGED <<up, main, apTimeout, pmicVars, monitorVars>>

\* LPM_FUNC_AON_RESUME_STR restarts the timer, whatever the monitor's state.
chip_lpm_finish ==
  /\ AsksLate("RESUME_STR")
  /\ timer' = IF standby = 1 THEN [TimerStarted EXCEPT !.irq = 1] ELSE timer
  /\ standby' = 0
  /\ UNCHANGED <<up, main, apTimeout, pmicVars, monitorVars>>

-----------------------------------------------------------------------------
(* The environment: time, the watchdogs of the AP, and restarts.           *)

Dec(n) == IF n > 0 THEN n - 1 ELSE 0

\* A second passes, though not within the few statements of main().  The PMIC
\* watchdog counts whatever the SoC does and cuts the power at zero.
Second ==
  /\ up \in {"run", "spin", "asleep"} /\ main \in {"loop", "fail"}
  /\ ~TimerDue
  /\ timer' = IF timer.on = 1 THEN [timer EXCEPT !.left = Dec(@)] ELSE timer
  /\ chip' = [chip EXCEPT !.left = Dec(@)]
  /\ up' = IF chip.len # 0 /\ chip.left <= 1 THEN "bitten" ELSE up
  /\ UNCHANGED <<main, apTimeout, standby, flag, wdt_len, autoBoot, monitorVars>>

ApHangs ==
  /\ up = "run" /\ apTimeout = 0 /\ apTimeout' = 1
  /\ UNCHANGED <<up, main, standby, timer, pmicVars, monitorVars>>

\* After a reset of the SoC the PMIC and the always-on lp mode register keep
\* their state, after a power cycle they have their defaults.
Restart ==
  /\ up \in {"reset", "bitten", "off"} /\ up' = "boot" /\ main' = "init"
  /\ monitor_state' = "IDLE" /\ hw_wdt_en' = 0 /\ type' = "USE_PMIC"
  /\ timer' = TimerOff
  /\ flag' = 0 /\ wdt_len' = 0
  /\ chip' = IF up = "reset" THEN chip ELSE Off
  /\ autoBoot' = IF up = "reset" THEN autoBoot ELSE OtpAutoBoot
  /\ standby' = IF up = "reset" THEN standby ELSE 0
  /\ apTimeout' = 0

Next ==
  \/ aon_wdt_init \/ mainCheck \/ mainTimer \/ mainState \/ aon_lpm_init
  \/ aon_wdt_start \/ aon_wdt_stop \/ aon_hw_wdt_start \/ WdtOff
  \/ WdgPing \/ (\E s \in Lens : WdgTimeoutSet(s)) \/ WdgRestart \/ WdgPowerOff
  \/ misc_regdump_cfg
  \/ aon_wdt_monitor_tmr_callback
  \/ chip_lpm_suspend \/ chip_lpm_resume \/ chip_lpm_finish
  \/ Second \/ ApHangs \/ Restart

\* main() goes on, time passes, a due timer interrupt is taken, and a reset that is tried
\* again and again gets through the I2C bus at some time.
Fairness ==
  /\ WF_vars(aon_lpm_init)
  /\ WF_vars(Second)
  /\ WF_vars(aon_wdt_monitor_tmr_callback)
  /\ SF_vars(monitorRepower /\ up' # "run")

Spec == Init /\ [][Next]_vars /\ Fairness

-----------------------------------------------------------------------------
(* What is checked.                                                        *)

Chips == {c \in [len : {0, 2, 4, 8, 16, 32, 64, 128}, left : 0 .. 128] :
            c.left <= c.len}

\* The type invariant: the counters of the timer and of the PMIC watchdog
\* stay within what they were started with.
TypeOK ==
  /\ up \in {"boot", "run", "asleep", "spin", "reset", "bitten", "off"}
  /\ main \in {"init", "check", "timer", "state", "lpm", "loop", "fail"}
  /\ monitor_state \in {"IDLE", "RUN", "REPOWER"}
  /\ type \in {"USE_PMIC", "SOFT_RST", "CRASH_DUMP"}
  /\ timer \in [on : {0, 1}, irq : {0, 1}, left : 0 .. MONITOR_TMR_LEN]
  /\ chip \in Chips
  /\ wdt_len \in Nat
  /\ hw_wdt_en \in {0, 1} /\ flag \in {0, 1} /\ autoBoot \in {0, 1}
  /\ apTimeout \in {0, 1} /\ standby \in {0, 1}

\* The AP keeps the order the handlers rely on, and the I2C bus works.
Quiet == {"EARLY", "STR_ARMED"} \cap Requests = {} /\ ~I2cMayFail

\* hw_wdt_en, the flag of the device and the chip agree while the PMIC is
\* the reset source: WDT_ON, WDT_OFF, STOP and TIMEOUTSET never leave the
\* PMIC counting behind a cleared hw_wdt_en.  A reset of the SoC does, but
\* then aon_wdt_init() finds AUTO_BOOT cleared and does not choose the PMIC.
ArmedConsistent ==
  up \in {"run", "asleep"} /\ type = "USE_PMIC" =>
    (hw_wdt_en = 1 <=> chip.len # 0) /\ hw_wdt_en = flag

\* While the monitor runs and can hear its timer, the next feeding comes
\* before the armed PMIC bites, if its length exceeds the timer period.
FedInTime ==
  /\ up = "run" /\ type = "USE_PMIC" /\ hw_wdt_en = 1
  /\ monitor_state = "RUN" /\ timer.on = 1 /\ timer.irq = 1
  /\ chip.len > MONITOR_TMR_LEN
  => chip.left > timer.left

\* A comment in aon_wdt_start() says "start monitor-timer for wdt-time-out":
\* outside of a suspend, a monitor that is not idle has its timer running and
\* its interrupt enabled.  A later WDG_START does nothing, so a monitor
\* without its timer would stay deaf.
MonitorAlive ==
  up = "run" /\ monitor_state # "IDLE" /\ (standby = 0 \/ main # "loop") =>
    timer.on = 1 /\ timer.irq = 1

\* A detected hang of the AP ends in a restart, unless the AP switches the
\* hardware watchdog off or suspends first.
HangHandled ==
  (up = "run" /\ apTimeout = 1 /\ monitor_state # "IDLE" /\ hw_wdt_en = 1) ~>
    (up \in {"reset", "bitten", "off"} \/ hw_wdt_en = 0 \/ standby = 1)

\* A comment in misc_dispatch() says that with a register dump configured
\* "system repower should leave DDR out of the picture": the PMIC does not
\* cut the power while the type is CRASH_DUMP.
DumpKeepsDdr == [][type = "CRASH_DUMP" => up' # "bitten"]_vars
=============================================================================
