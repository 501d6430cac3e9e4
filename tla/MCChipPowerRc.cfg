SPECIFICATION Spec
CONSTANTS
  Secondary <- MCSecondary
  WakeFlag <- MCWakeFlag
  apsys_soc_poweroff_id <- MCRails
  Systems <- MCSystems
  MaxHp = 2
PROPERTY ClocksReturn
CHECK_DEADLOCK FALSE
