CONSTANTS
  AON_WDT_PMIC_TMR_LEN = 32
  Lens <- ShortAndLong
  Requests <- Orderly
  I2cMayFail = FALSE
  OtpAutoBoot = 1
SPECIFICATION Spec
INVARIANTS TypeOK ArmedConsistent FedInTime MonitorAlive
PROPERTY HangHandled
