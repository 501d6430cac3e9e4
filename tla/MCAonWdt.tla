------------------------------ MODULE MCAonWdt -------------------------------
(***************************************************************************)
(* AonWdt for TLC.  The lengths are those of aon_wdt.h; the sets of        *)
(* requests are what the AP does in each run.                              *)
(***************************************************************************)
EXTENDS AonWdt

\* Everything but the orders that Quiet excludes.
Orderly == {"START", "STOP", "PING", "TIMEOUTSET", "WDT_ON", "WDT_OFF",
            "RESTART", "POWER_OFF", "REGDUMP_CFG", "REQUIRE_STR", "RESUME_STR"}

\* The shortest length, one the period of the timer reaches, and the default.
ShortAndLong == {1, 4, 8, 32}
=============================================================================
