CONSTANTS
  AON_WDT_PMIC_TMR_LEN = 32
  Lens <- ShortAndLong
  Requests = {"WDT_ON", "REGDUMP_CFG"}
  I2cMayFail = FALSE
  OtpAutoBoot = 1
SPECIFICATION Spec
PROPERTY DumpKeepsDdr
