------------------------------ MODULE PowerSeq -------------------------------
(***************************************************************************)
(* The register sequences of power.c as programs: sequences of steps       *)
(* <<operation, operand>> that ChipPower executes.  The build has          *)
(* CONFIG_AUDIO_ENABLE and not CONFIG_HW_PD_MODE.  Delays and the enable   *)
(* of the watchdog resets are left out.                                    *)
(***************************************************************************)
EXTENDS Sequences

\* Mutant: the clock is left on.
DownClocked(d) == << <<"reset", d>>, <<"iso_set", d>>, <<"sw_set", d>>,
                     <<"verify_off", d>> >>

\* The order all domains but the GPU share.
Down(d) == << <<"reset", d>>, <<"clk_off", d>>, <<"iso_set", d>>,
              <<"sw_set", d>>, <<"verify_off", d>> >>

\* Mutant: the isolation is released before the supply is there.
UpEarly(d) == << <<"reset", d>>, <<"sw_clr", d>>, <<"iso_clr", d>>,
                 <<"verify_on", d>>, <<"clk_on", d>>, <<"release", d>> >>

Up(d) == << <<"reset", d>>, <<"sw_clr", d>>, <<"verify_on", d>>,
            <<"iso_clr", d>>, <<"clk_on", d>>, <<"release", d>> >>

\* Mutant: the release is left to OpenSBI.
c910_powerupHeld(c) == SubSeq(Up(c), 1, 5)

c910_powerdown(c) == << <<"wait_inactive", c>> >> \o Down(c)
c910_powerup(c) == Up(c)

\* The reset of the C906 core is released last, behind its two IOPMPs.
audio_powerdown == Down("audio")
audio_powerup ==
  << <<"iopmp", "audio_aon">>, <<"reset", "audio">>, <<"reset", "c906">>,
     <<"sw_clr", "audio">>, <<"verify_on", "audio">>, <<"iso_clr", "audio">>,
     <<"clk_on", "audio">>, <<"release", "audio">>, <<"iopmp", "audio">>,
     <<"release", "c906">> >>

vdec_powerdown == Down("vdec")
vdec_powerup == Up("vdec")
npu_powerdown == Down("npu")
npu_powerup == Up("npu")
venc_powerdown == Down("venc")
venc_powerup == Up("venc")
dsp0_powerdown == Down("dsp0")
dsp0_powerup == Up("dsp0")
dsp1_powerdown == Down("dsp1")
dsp1_powerup == Up("dsp1")

\* The GPU has neither its reset nor its clock touched.
gpu_powerdown == << <<"iso_set", "gpu">>, <<"sw_set", "gpu">>, <<"verify_off", "gpu">> >>
gpu_powerup == << <<"sw_clr", "gpu">>, <<"verify_on", "gpu">>, <<"iso_clr", "gpu">> >>

\* Mutant: the IOPMPs of the domains are forgotten.
pd_onUnguarded ==
  [audio |-> audio_powerup, vdec |-> vdec_powerup, npu |-> npu_powerup,
   venc |-> venc_powerup, gpu |-> gpu_powerup, dsp0 |-> dsp0_powerup,
   dsp1 |-> dsp1_powerup]

\* chip_power_pd_ctrl(): what each domain is switched off and on with.
pd_off ==
  [audio |-> audio_powerdown, vdec |-> vdec_powerdown, npu |-> npu_powerdown,
   venc |-> venc_powerdown, gpu |-> gpu_powerdown, dsp0 |-> dsp0_powerdown,
   dsp1 |-> dsp1_powerdown]

pd_on ==
  [audio |-> audio_powerup,
   vdec |-> vdec_powerup \o << <<"iopmp", "vdec">> >>,
   npu |-> npu_powerup \o << <<"iopmp", "npu">> >>,
   venc |-> venc_powerup \o << <<"iopmp", "venc">> >>,
   gpu |-> gpu_powerup \o << <<"iopmp", "gpu">> >>,
   dsp0 |-> dsp0_powerup \o << <<"iopmp", "dsp0">> >>,
   dsp1 |-> dsp1_powerup \o << <<"iopmp", "dsp1">> >>]

-----------------------------------------------------------------------------
(* Suspend to RAM.  "hold" puts a part of the chip to sleep, "free" wakes  *)
(* it.                                                                     *)

c910_dbg_mask == << <<"hold", "dbg">> >>
c910_dbg_unmask == << <<"free", "dbg">> >>
c910_mem_retention_enter == << <<"hold", "mem">> >>
c910_mem_retention_exit == << <<"free", "mem">> >>
cpu_top_mem_retention_enter == << <<"hold", "topmem">> >>
cpu_top_mem_retention_exit == << <<"free", "topmem">> >>
aon_mem_retention_enter == << <<"hold", "aonmem">> >>
aon_mem_retention_exit == << <<"free", "aonmem">> >>
sram_axi_reset == << <<"hold", "sram">> >>
sram_axi_reset_release == << <<"free", "sram">> >>
pvtc_reset == << <<"hold", "pvtc">> >>
pvtc_reset_release == << <<"free", "pvtc">> >>

\* The memory refreshes itself before its controller is reset and isolated;
\* chip_lpm_resume() itself undoes the last two.
lpddr4_phy_lp3_enter == << <<"hold", "ddr">>, <<"hold", "ddrsys">> >>
lpddr4_phy_lp3_exit == << <<"free", "ddr">> >>

ap_power_down == << <<"reset", "ap">>, <<"clk_off", "ap">> >>

\* Mutant: the AP stays in reset.
ap_power_upHeld == << <<"clk_on", "ap">> >>

ap_power_up == << <<"clk_on", "ap">>, <<"release", "ap">> >>
power_isolator_en == << <<"iso_set", "ap">> >>
power_isolator_release == << <<"iso_clr", "ap">> >>

\* aonsys_periph_clk_disable(), aonsys_slp_clk_sel(), power_*_pll().
system_clk_switch ==
  [PLL_SLEEP |-> << <<"hold", "periph">>, <<"hold", "pll">> >>,
   PLL_NORMAL |-> << <<"free", "pll">>, <<"rc_ready", "aon">>, <<"free", "periph">> >>]

\* Mutant: the L2 cache is flushed before the cores are waited for.
wait_and_flushEarly == << <<"l2_flush", "ap">>, <<"wait_str", "ap">> >> \o c910_dbg_mask

wait_and_flush == << <<"wait_str", "ap">> >> \o c910_dbg_mask \o << <<"l2_flush", "ap">> >>

chip_lpm_suspend ==
  wait_and_flush \o c910_mem_retention_enter \o cpu_top_mem_retention_enter
  \o << <<"hold", "pmp">> >> \o lpddr4_phy_lp3_enter
  \o ap_power_down \o power_isolator_en \o aon_mem_retention_enter
  \o sram_axi_reset \o pvtc_reset
  \o << <<"bucks_sleep", "ap">>, <<"rails_off", "ap">> >>
  \o audio_powerdown \o system_clk_switch.PLL_SLEEP
  \o << <<"wake_set", "aon">>, <<"wfi", "aon">> >>

chip_lpm_resume ==
  << <<"wake_clr", "aon">> >> \o system_clk_switch.PLL_NORMAL
  \o << <<"bucks_sync", "ap">> >> \o aon_mem_retention_exit
  \o << <<"rails_on", "ap">> >> \o power_isolator_release
  \o cpu_top_mem_retention_exit \o c910_mem_retention_exit
  \o << <<"free", "ddrsys">> >> \o pvtc_reset_release \o sram_axi_reset_release
  \o ap_power_up \o c910_dbg_unmask
  \o << <<"wait_iopmp", "ap">> >> \o lpddr4_phy_lp3_exit
  \o << <<"free", "pmp">>, <<"ddr_flag", "ap">> >> \o audio_powerup

\* lpm_dispatch() and lpm_process() for LPM_FUNC_AON_REQUIRE_STR.
lpm_process == << <<"set_standby", "aon">> >> \o chip_lpm_suspend \o chip_lpm_resume
=============================================================================
