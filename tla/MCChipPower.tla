---------------------------- MODULE MCChipPower ------------------------------
(* An instance of ChipPower for TLC. *)
EXTENDS ChipPower

MCSecondary == {"c1"}
MCWakeFlag == {GPIO, RTC}
MCRails == <<"DVDD18_EMMC", "DVDD18_AP", "APCPU_DVDD_DVDDM">>

\* Suspend with and without domain requests, the supply of the core or of audio
\* slow; the other domains, all slow, in systems that do not suspend, as core 1
\* stays plugged.
Sys(pd, plug, irqs, slow) ==
  [pd |-> pd, plug |-> plug, irq |-> irqs \cup {TIMER0, MBOX}, slow |-> slow]
MCSystems ==
  {Sys({"audio"}, {"c1"}, {GPIO}, {}), Sys({}, {"c1"}, {GPIO, RTC}, {"c1"}),
   Sys({}, {"c1"}, {}, {"audio"}), Sys({"audio", "vdec"}, {}, {}, {"audio", "vdec"}),
   Sys({"npu", "venc"}, {}, {}, {"npu", "venc"}), Sys({"dsp0", "dsp1"}, {}, {}, {"dsp0", "dsp1"}),
   Sys({"gpu"}, {}, {}, {"gpu"})}
=============================================================================
