CONSTANTS
  AON_WDT_PMIC_TMR_LEN = 32
  Lens <- ShortAndLong
  Requests = {"EARLY", "START", "STOP"}
  I2cMayFail = FALSE
  OtpAutoBoot = 1
SPECIFICATION Spec
INVARIANT MonitorAlive
