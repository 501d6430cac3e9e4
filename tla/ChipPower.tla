----------------------------- MODULE ChipPower -------------------------------
(***************************************************************************)
(* Power domains, CPU hotplug and suspend to RAM (power.c, aon_lpm.c,      *)
(* aon_pmic.c) executing the programs of PowerSeq.  The mailbox interrupt  *)
(* serves the domain and suspend requests (isr); CPU hotplug is queued and *)
(* done by the main loop (main), which runs only while no handler does.    *)
(* The C910 cores, the C906, the SPL, the power switches and the PMIC are  *)
(* external and run concurrently with both.                                *)
(***************************************************************************)
EXTENDS PowerSeq, SequencesExt, FiniteSetsExt, Integers

CONSTANTS Secondary,   \* the C910 cores that can be unplugged
          WakeFlag,    \* g_chip_wakeup_flag, as interrupt numbers
          apsys_soc_poweroff_id,  \* the rails in the order of switching off
          Systems,     \* [pd, plug, irq, slow]: the domains and the cores the AP
                       \* switches, the enabled interrupts, the islands whose
                       \* supply may take longer than subsys_pd_verify() waits
          MaxHp        \* bound: hotplug requests waiting

GPIO == 28
RTC == 29
CPR == 30
TIMER0 == 33
MBOX == 38

ASSUME ChipPowerAssumption ==
  /\ "c0" \notin Secondary /\ Secondary \intersect DOMAIN pd_on = {}
  /\ WakeFlag \subseteq {GPIO, RTC}
  /\ \A s \in Systems : s.pd \subseteq DOMAIN pd_on /\ s.plug \subseteq Secondary /\ {TIMER0, MBOX} \subseteq s.irq
  /\ MaxHp \in Nat

C910 == {"c0"} \cup Secondary
Islands == Secondary \cup DOMAIN pd_on \cup {"ap"}

Rails == ToSet(apsys_soc_poweroff_id)

VARIABLES
  isr, main,   \* what the interrupt handler and the main loop still have to do
  hp,          \* the CPU hotplug requests that wait for the main loop
  isl,         \* the islands: supply, switch, isolation, reset, clock, IOPMP
  held,        \* the parts of the chip put to sleep by suspend
  rails,       \* the rails of apsys_soc_poweroff_id[] that are on
  l2,          \* the L2 cache has data the DDR has not
  lp,          \* REG_AON_CHIP_LP_MODE: mode and the two flags
  magic,       \* the magic numbers of the STR indicators are there
  active,      \* REG_AON_CPU_LP_MODE: the cores that are not inactive
  cpu,         \* what the C910 cores and the C906 do
  irq,         \* the enabled interrupts
  enabled_irq_num,
  used         \* the one of Systems this is

ctxVars == <<isr, main, hp>>
sleepVars == <<held, rails, l2>>
lpVars == <<lp, magic>>
cpuVars == <<active, cpu>>
irqVars == <<irq, enabled_irq_num>>
vars == <<isr, main, hp, isl, held, rails, l2, lp, magic, active, cpu, irq,
          enabled_irq_num, used>>

Held == {"dbg", "mem", "topmem", "pmp", "ddr", "ddrsys", "aonmem", "sram", "pvtc",
         "bucks", "periph", "pll"}
Slots == 1..6  \* bound: more than the interrupts a system enables

TypeOK ==
  /\ isl \in [pow : SUBSET Islands, sw : SUBSET Islands, iso : SUBSET Islands,
              rst : SUBSET (Islands \cup {"c906"}), clk : SUBSET Islands,
              pmp : SUBSET (Islands \cup {"audio_aon"}), late : SUBSET Islands]
  /\ held \subseteq Held /\ rails \subseteq Rails
  /\ l2 \in BOOLEAN /\ magic \in BOOLEAN
  /\ lp \in [mode : {"NONE", "STANDBY"}, iopmp : 0..1, ddr : 0..1]
  /\ active \subseteq C910 \cup {"c906"}
  /\ cpu \in [C910 \cup {"c906"} -> {"run", "dying", "str", "stopped", "starting", "boot", "spl", "splwait"}]
  /\ irq \subseteq used.irq \cup WakeFlag
  /\ enabled_irq_num \in [Slots -> 0..44]
  /\ Len(hp) <= MaxHp

\* The system is up: the AP runs Linux and the audio firmware runs.
Init ==
  /\ isr = <<>> /\ main = <<>> /\ hp = <<>>
  /\ isl = [pow |-> Islands, sw |-> Islands, iso |-> {}, rst |-> {}, clk |-> Islands,
            pmp |-> Islands \cup {"audio_aon"}, late |-> {}]
  /\ held = {} /\ rails = Rails /\ l2 = TRUE
  /\ lp = [mode |-> "NONE", iopmp |-> 0, ddr |-> 0] /\ magic = FALSE
  /\ active = C910 \cup {"c906"}
  /\ cpu = [c \in C910 \cup {"c906"} |-> "run"]
  /\ enabled_irq_num = [j \in Slots |-> 0]
  /\ used \in Systems
  /\ irq = used.irq

-----------------------------------------------------------------------------
(* The steps of a program.  Each leaves isr, main and hp to its caller.    *)

\* A reset of the AP also resets its registers, which hold the secondary
\* cores in reset; a reset of audio stops the C906.
reset(d) ==
  /\ isl' = [isl EXCEPT !.rst = @ \cup {d} \cup (IF d = "ap" THEN Secondary ELSE {})]
  /\ cpu' = IF d \in {"audio", "c906"} THEN [cpu EXCEPT !["c906"] = "stopped"] ELSE cpu
  /\ UNCHANGED <<sleepVars, lpVars, active, irqVars>>

\* A core that comes out of reset starts if it has its supply, which nobody
\* makes sure of: subsys_pd_verify() may have given up.  With the AP it is the
\* SPL on core 0.
release(d) ==
  /\ isl' = [isl EXCEPT !.rst = @ \ {d}]
  /\ cpu' = [c \in DOMAIN cpu |->
               CASE c = d /\ cpu[c] = "starting" /\ c \in isl.pow -> "boot"
                 [] c = "c0" /\ d = "ap" /\ rails = Rails -> "spl"
                 [] c = "c906" /\ d = "c906" /\ "audio" \in isl.pow -> "run"
                 [] OTHER -> cpu[c]]
  /\ active' = active \cup {c \in {"c906"} : cpu'[c] = "run"}
  /\ UNCHANGED <<sleepVars, lpVars, irqVars>>

Island(new) == isl' = new /\ UNCHANGED <<sleepVars, lpVars, cpuVars, irqVars>>

clk_off(d) == Island([isl EXCEPT !.clk = @ \ {d}])
clk_on(d) == Island([isl EXCEPT !.clk = @ \cup {d}])

subsys_powerdown_iso_en_set(d) == Island([isl EXCEPT !.iso = @ \cup {d}])
subsys_powerdown_iso_en_clr(d) == Island([isl EXCEPT !.iso = @ \ {d}])
subsys_powerdown_sw_en_set(d) == Island([isl EXCEPT !.sw = @ \ {d}])
subsys_powerdown_sw_en_clr(d) == Island([isl EXCEPT !.sw = @ \cup {d}])

\* An IOPMP can be written only in a powered domain, and is lost with the power.
light_iopmp_config(d) ==
  Island([isl EXCEPT !.pmp = IF d \in isl.pow \cup {"audio_aon"} THEN @ \cup {d} ELSE @])

\* Polls the acknowledge MAX_TRY_TIME_IDLE times; the callers ignore the result.
subsys_pd_verify(d) ==
  \/ (d \in isl.pow <=> d \in isl.sw) /\ Island([isl EXCEPT !.late = @ \ {d}])
  \/ d \in used.slow /\ (d \in isl.pow <=> d \notin isl.sw) /\ Island([isl EXCEPT !.late = @ \cup {d}])

cpu_is_inactive(c) == c \notin active

Waited(cond) == cond /\ UNCHANGED <<isl, sleepVars, lpVars, cpuVars, irqVars>>

\* Mutant: the check of the magic numbers is the wrong way round.
wait_strInverted == Waited(~magic /\ \A c \in DOMAIN cpu : cpu_is_inactive(c))

\* The do loop at the start of chip_lpm_suspend().
wait_str == Waited(magic /\ \A c \in DOMAIN cpu : cpu_is_inactive(c))

Sleep(h, r, l) ==
  /\ held' = h /\ rails' = r /\ l2' = l
  /\ UNCHANGED <<isl, lpVars, cpuVars, irqVars>>

c910_l2cache_flush == Sleep(held, rails, FALSE)

\* apsys_lowpower_ctrl(): a transfer that fails leaves the other bucks alone.
apsys_lowpower_ctrl(h) == Sleep(h, rails, l2) \/ Sleep(held, rails, l2)

\* Mutant: both ways in the same order.
OrderKept(ena) == apsys_soc_poweroff_id

\* The rails in the order in which apsys_power_ctrl() switches them.
Order(ena) == IF ena THEN Reverse(apsys_soc_poweroff_id) ELSE apsys_soc_poweroff_id

\* It stops at the first error, or at once without a valid pmic: k rails have
\* been switched, and the one that failed either way.
apsys_power_ctrl(ena) ==
  \E k \in 0..Len(apsys_soc_poweroff_id), n \in 0..1 :
    /\ k + n <= Len(apsys_soc_poweroff_id)
    /\ LET S == ToSet(SubSeq(Order(ena), 1, k + n)) IN
         rails' = IF ena THEN rails \cup S ELSE rails \ S
    /\ isl' = [isl EXCEPT
                 !.pow = IF rails' = Rails THEN @ \cup {"ap"} ELSE @ \ {"ap"},
                 !.late = IF rails' = (IF ena THEN Rails ELSE {}) THEN @ \ {"ap"}
                          ELSE @ \cup {"ap"}]
    /\ UNCHANGED <<held, l2, lpVars, cpuVars, irqVars>>

\* aonsys_slp_clk_sel(false) reads RC_READY once and then loops on that value.
rc_ready == Waited(TRUE)

\* Mutant: the flags survive a change of the mode.
chip_lp_mode_set_lp_modeKeep(mode) == lp' = [lp EXCEPT !.mode = mode]

\* Masks the mode and then clears it: the two flags are cleared as well.
chip_lp_mode_set_lp_mode(mode) == lp' = [mode |-> mode, iopmp |-> 0, ddr |-> 0]

set_standby ==
  /\ chip_lp_mode_set_lp_mode("STANDBY")
  /\ UNCHANGED <<isl, sleepVars, magic, cpuVars, irqVars>>

chip_lp_mode_set_flags(f) ==
  lp' = f /\ UNCHANGED <<isl, sleepVars, magic, cpuVars, irqVars>>

\* Mutant: j goes on where it was at the suspend before.
aonsys_wakeup_source_setOn ==
  /\ LET list == SetToSortSeq(irq, <)
         n == Cardinality({j \in DOMAIN enabled_irq_num : enabled_irq_num[j] # 0}) IN
       enabled_irq_num' = [j \in Slots \cup 1..(n + Len(list)) |->
                             IF j \in n + 1..n + Len(list) THEN list[j - n]
                             ELSE IF j \in Slots THEN enabled_irq_num[j] ELSE 0]
  /\ irq' = WakeFlag
  /\ UNCHANGED <<isl, sleepVars, lpVars, cpuVars>>

aonsys_wakeup_source_set ==
  /\ LET list == SetToSortSeq(irq, <) IN
       enabled_irq_num' = [j \in Slots |-> IF j <= Len(list) THEN list[j] ELSE enabled_irq_num[j]]
  /\ irq' = WakeFlag
  /\ UNCHANGED <<isl, sleepVars, lpVars, cpuVars>>

Stored == {enabled_irq_num[j] : j \in {i \in Slots : \A k \in 1..i : enabled_irq_num[k] # 0}}

\* Mutant: the wake-up interrupts stay enabled.
aonsys_wakeup_source_clrKeep ==
  /\ irq' = (irq \cup Stored) \ {TIMER0}
  /\ UNCHANGED <<isl, sleepVars, lpVars, cpuVars, enabled_irq_num>>

aonsys_wakeup_source_clr ==
  /\ irq' = ((irq \ {CPR, RTC, GPIO}) \cup Stored) \ {TIMER0}
  /\ UNCHANGED <<isl, sleepVars, lpVars, cpuVars, enabled_irq_num>>

Do(op, d) ==
  \/ op = "reset" /\ reset(d)
  \/ op = "release" /\ release(d)
  \/ op = "clk_off" /\ clk_off(d)
  \/ op = "clk_on" /\ clk_on(d)
  \/ op = "iso_set" /\ subsys_powerdown_iso_en_set(d)
  \/ op = "iso_clr" /\ subsys_powerdown_iso_en_clr(d)
  \/ op = "sw_set" /\ subsys_powerdown_sw_en_set(d)
  \/ op = "sw_clr" /\ subsys_powerdown_sw_en_clr(d)
  \/ op \in {"verify_on", "verify_off"} /\ subsys_pd_verify(d)
  \/ op = "iopmp" /\ light_iopmp_config(d)
  \/ op = "wait_inactive" /\ Waited(cpu_is_inactive(d))
  \/ op = "wait_str" /\ wait_str
  \/ op = "l2_flush" /\ c910_l2cache_flush
  \/ op = "hold" /\ Sleep(held \cup {d}, rails, l2)
  \/ op = "free" /\ Sleep(held \ {d}, rails, l2)
  \/ op = "bucks_sleep" /\ apsys_lowpower_ctrl(held \cup {"bucks"})
  \/ op = "bucks_sync" /\ apsys_lowpower_ctrl(held \ {"bucks"})
  \/ op = "rails_off" /\ apsys_power_ctrl(FALSE)
  \/ op = "rails_on" /\ apsys_power_ctrl(TRUE)
  \/ op = "rc_ready" /\ rc_ready
  \/ op = "set_standby" /\ set_standby
  \/ op = "wait_iopmp" /\ lp.iopmp = 1 /\ chip_lp_mode_set_flags([lp EXCEPT !.iopmp = 0])
  \/ op = "ddr_flag" /\ chip_lp_mode_set_flags([lp EXCEPT !.ddr = 1])
  \/ op = "wake_set" /\ aonsys_wakeup_source_set
  \/ op = "wake_clr" /\ aonsys_wakeup_source_clr
  \/ op = "wfi" /\ Waited(irq # {})

-----------------------------------------------------------------------------
(* The firmware: the handler, the main loop, and what a request starts.    *)

At(p, op) == p # <<>> /\ Head(p)[1] = op

isrStep ==
  /\ isr # <<>> /\ Do(Head(isr)[1], Head(isr)[2])
  /\ isr' = Tail(isr)
  /\ UNCHANGED <<main, hp, used>>

\* RC_READY was not set when it was read: the loop never ends.
rcNotReady ==
  /\ At(isr, "rc_ready")
  /\ isr' = << <<"rc_loop", "aon">> >>
  /\ UNCHANGED <<main, hp, isl, sleepVars, lpVars, cpuVars, irqVars, used>>

mainStep ==
  /\ isr = <<>> /\ main # <<>> /\ Do(Head(main)[1], Head(main)[2])
  /\ main' = Tail(main)
  /\ UNCHANGED <<isr, hp, used>>

\* chip_cpu_power_ctrl() for the next queued request.
chip_cpu_power_ctrl ==
  /\ isr = <<>> /\ main = <<>> /\ hp # <<>>
  /\ LET r == Head(hp) IN main' = IF r.on THEN c910_powerup(r.cpu) ELSE c910_powerdown(r.cpu)
  /\ hp' = Tail(hp)
  /\ UNCHANGED <<isr, isl, sleepVars, lpVars, cpuVars, irqVars, used>>

\* The AP can send a request: Linux runs and the handler is idle.
Mail == cpu["c0"] = "run" /\ isr = <<>> /\ MBOX \in irq

chip_power_pd_ctrl(d, on) ==
  /\ Mail
  /\ isr' = IF on THEN pd_on[d] ELSE pd_off[d]
  /\ UNCHANGED <<main, hp, isl, sleepVars, lpVars, cpuVars, irqVars, used>>

\* LPM_FUNC_AON_CPUHP is queued; a core asks for itself before it stops.
cpuhp(c, on) ==
  /\ Mail /\ Len(hp) < MaxHp
  /\ cpu[c] = (IF on THEN "stopped" ELSE "run")
  /\ hp' = Append(hp, [cpu |-> c, on |-> on])
  /\ cpu' = [cpu EXCEPT ![c] = IF on THEN "starting" ELSE "dying"]
  /\ UNCHANGED <<isr, main, isl, sleepVars, lpVars, active, irqVars, used>>

\* LPM_FUNC_AON_REQUIRE_STR, once Linux has unplugged the other cores.
require_str ==
  /\ Mail /\ \A c \in Secondary : cpu[c] = "stopped"
  /\ isr' = lpm_process
  /\ cpu' = [cpu EXCEPT !["c0"] = "str"]
  /\ UNCHANGED <<main, hp, isl, sleepVars, lpVars, active, irqVars, used>>

\* LPM_FUNC_AON_RESUME_STR.
chip_lpm_finish ==
  /\ Mail
  /\ IF lp.mode = "STANDBY"
       THEN magic' = FALSE /\ irq' = irq \cup {TIMER0}
       ELSE UNCHANGED <<magic, irq>>
  /\ chip_lp_mode_set_lp_mode("NONE")
  /\ UNCHANGED <<ctxVars, isl, sleepVars, cpuVars, enabled_irq_num, used>>

-----------------------------------------------------------------------------
(* External: the switches, the cores, OpenSBI and the SPL.                 *)

\* The supply follows its switch; without it an IOPMP forgets.
SwitchFollows(d) ==
  /\ d \in isl.pow <=> d \notin isl.sw
  /\ isl' = IF d \in isl.sw THEN [isl EXCEPT !.pow = @ \cup {d}]
            ELSE [isl EXCEPT !.pow = @ \ {d}, !.pmp = @ \ {d}]
  /\ UNCHANGED <<ctxVars, sleepVars, lpVars, cpuVars, irqVars, used>>

\* The cores that use the DDR.
OnDdr(c) == cpu[c] \in {"run", "dying", "str", "boot"}

Write ==
  /\ \E c \in C910 : OnDdr(c)
  /\ l2' = TRUE
  /\ UNCHANGED <<ctxVars, isl, held, rails, lpVars, cpuVars, irqVars, used>>

\* OpenSBI puts the magic numbers down before core 0 stops.
SetMagic ==
  /\ cpu["c0"] = "str" /\ magic' = TRUE
  /\ UNCHANGED <<ctxVars, isl, sleepVars, lp, cpuVars, irqVars, used>>

Stops(c) ==
  /\ \/ cpu[c] = "dying"
     \/ cpu[c] = "str" /\ magic
     \/ cpu[c] = "run" /\ c = "c906"
  /\ cpu' = [cpu EXCEPT ![c] = "stopped"]
  /\ active' = active \ {c}
  /\ UNCHANGED <<ctxVars, isl, sleepVars, lpVars, irqVars, used>>

\* Up again: a plugged core, or core 0 when the SPL has seen the DDR flag.
Runs(c) ==
  /\ \/ cpu[c] = "boot"
     \/ cpu[c] = "splwait" /\ lp.ddr = 1
  /\ cpu' = [cpu EXCEPT ![c] = "run"]
  /\ active' = active \cup {c}
  /\ UNCHANGED <<ctxVars, isl, sleepVars, lpVars, irqVars, used>>

\* The main loop has done what was asked for core c, which has not come up.
Unstarted(c) == cpu[c] = "starting" /\ main = <<>> /\ \A i \in DOMAIN hp : hp[i].cpu # c

\* Linux gives up on it, and may ask for it again.
GivesUp(c) ==
  /\ Unstarted(c)
  /\ cpu' = [cpu EXCEPT ![c] = "stopped"]
  /\ UNCHANGED <<ctxVars, isl, sleepVars, lpVars, active, irqVars, used>>

\* The SPL restores the IOPMPs and says so.
Spl ==
  /\ cpu["c0"] = "spl"
  /\ cpu' = [cpu EXCEPT !["c0"] = "splwait"]
  /\ lp' = [lp EXCEPT !.iopmp = 1]
  /\ UNCHANGED <<ctxVars, isl, sleepVars, magic, active, irqVars, used>>

Next ==
  \/ isrStep \/ rcNotReady \/ mainStep \/ chip_cpu_power_ctrl
  \/ \E d \in used.pd, on \in BOOLEAN : chip_power_pd_ctrl(d, on)
  \/ \E c \in used.plug, on \in BOOLEAN : cpuhp(c, on)
  \/ require_str \/ chip_lpm_finish
  \/ \E d \in Islands \ {"ap"} : SwitchFollows(d)
  \/ Write \/ SetMagic \/ Spl
  \/ \E c \in DOMAIN cpu : Stops(c) \/ Runs(c)
  \/ \E c \in Secondary : GivesUp(c)

\* The firmware runs, the main loop between interrupts; the cores do what
\* they have begun, and the C906 stops when Linux does.
Fairness ==
  /\ WF_vars(isrStep /\ ~At(isr, "wfi"))
  /\ SF_vars(mainStep \/ chip_cpu_power_ctrl)
  /\ WF_vars(\E d \in DOMAIN pd_on \ used.slow : SwitchFollows(d))
  /\ WF_vars(\E c \in Secondary \ used.slow : SwitchFollows(c))
  /\ WF_vars(SetMagic \/ Spl \/ \E c \in C910 : Stops(c) \/ Runs(c))
  /\ WF_vars(cpu["c0"] \in {"str", "stopped"} /\ Stops("c906"))

Spec == Init /\ [][Next]_vars /\ Fairness

-----------------------------------------------------------------------------
(* Properties.                                                             *)

\* The programs of power.c keep what PowerIsland promises, also when one
\* starts in the middle of another.
Promise == INSTANCE PowerIsland WITH
  Bare <- {"gpu"}, pow <- isl.pow, iso <- isl.iso, rst <- isl.rst \ {"c906"},
  clk <- isl.clk, late <- isl.late
IslandsSafe == Promise!Spec

\* It gives every island what it needs while it is in use.
IslandsUsable == Promise!Usable

IsUp(d) == d \in isl.pow \intersect isl.clk /\ d \notin isl.iso \cup isl.rst

\* A core that executes has its island up and nothing it needs asleep: no
\* step of a hotplug, of a suspend or of a resume (in particular by a flag
\* left from the cycle before) pulls it away or starts it too early.  The
\* bucks are excepted: chip_lpm_resume() goes on when their SYNC has failed.
Fed ==
  \A c \in DOMAIN cpu :
    /\ OnDdr(c) => held \subseteq {"bucks"} /\ (c \in Secondary => IsUp(c))
    /\ cpu[c] \in {"spl", "splwait"} => held \subseteq {"bucks", "dbg", "ddr", "pmp"}
    /\ c \in C910 /\ (OnDdr(c) \/ cpu[c] \in {"spl", "splwait"}) => IsUp("ap")

\* The C906 runs only behind configured IOPMPs, and after a domain request every
\* domain that is open has its own written again, unless the supply came too
\* late for the write (chip_power_pd_ctrl, audio_powerup).
Guarded ==
  /\ cpu["c906"] = "run" /\ "audio" \notin isl.late => {"audio", "audio_aon"} \subseteq isl.pmp
  /\ isr = <<>> => (isl.pow \intersect DOMAIN pd_on) \ (isl.iso \cup isl.late) \subseteq isl.pmp

\* While the AP is in reset the DDR holds the memory: nothing is left in the
\* L2 cache and the DDR refreshes itself; and its controller is isolated while
\* the rails are off (chip_lpm_suspend, lpddr4_phy_lp3_enter).
MemoryKept ==
  /\ "ap" \in isl.rst => ~l2 /\ "ddr" \in held
  /\ "ap" \notin isl.pow \cup isl.late => "ddrsys" \in held

\* Whatever fails in whichever direction, the rails that are off are the first
\* ones of apsys_soc_poweroff_id[]: no rail is on without those it follows.
RailsOrdered ==
  \E k \in 0..Len(apsys_soc_poweroff_id) : Rails \ rails = ToSet(SubSeq(apsys_soc_poweroff_id, 1, k))

\* After a resume the interrupts are those before the suspend, but for TIMER0,
\* which comes back with RESUME_STR, although enabled_irq_num[] is never cleared.
IrqRestored ==
  isr = <<>> => irq = used.irq \ (IF lp.mode = "STANDBY" THEN {TIMER0} ELSE {})

\* A suspend that waits for the cores gets to sleep, unless audio was switched
\* off before the C906 had said that it is inactive: nobody will say it then.
SuspendEnds ==
  At(isr, "wait_str") ~> At(isr, "wfi") \/ ("c906" \in active /\ cpu["c906"] = "stopped")

\* After a wake-up Linux runs again, unless a rail did not come back or
\* RC_READY was not set at the first look.
Resumed ==
  At(isr, "wake_clr") ~>
    cpu["c0"] = "run" \/ At(isr, "rc_loop") \/ (At(isr, "wait_iopmp") /\ rails # Rails)

\* A core that is plugged in gets to run, whatever else is asked for, unless
\* its supply was late: c910_powerup() then releases a core without power.
Plugged ==
  \A c \in Secondary :
    cpu[c] = "starting" ~> cpu[c] = "run" \/ (Unstarted(c) /\ c \in isl.late)

\* "Enable UART, I2C, ADC, WDT, TIMER, PAD, PVTC, SHARE SRAM clock source"
\* (system_clk_switch): after a wake-up the clocks of the peripherals return.
ClocksReturn == At(isr, "wake_clr") ~> "periph" \notin held
=============================================================================
