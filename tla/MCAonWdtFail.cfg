CONSTANTS
  AON_WDT_PMIC_TMR_LEN = 32
  Lens <- ShortAndLong
  Requests <- Orderly
  I2cMayFail = TRUE
  OtpAutoBoot = 1
SPECIFICATION Spec
INVARIANT MonitorAlive
PROPERTY HangHandled
