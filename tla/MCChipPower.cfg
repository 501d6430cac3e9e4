SPECIFICATION Spec
CONSTANTS
  Secondary <- MCSecondary
  WakeFlag <- MCWakeFlag
  apsys_soc_poweroff_id <- MCRails
  Systems <- MCSystems
  MaxHp = 2
INVARIANTS TypeOK IslandsUsable Fed Guarded MemoryKept RailsOrdered IrqRestored
PROPERTIES IslandsSafe SuspendEnds Resumed Plugged
CHECK_DEADLOCK FALSE
