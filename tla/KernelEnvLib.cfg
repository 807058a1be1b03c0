CONSTANTS
  CPUs = {c1, c2}
  BSP = c1
  NoCpu = NoCpu
  NoEnv = NoEnv
  NENV = 3
  GenStep = 3
  IdLimit = 9
SPECIFICATION LibSpec
INVARIANTS OneCpuPerEnv RunningIffCurrent IdNamesSlot FreeListExact ReceiverParked GivesUpOnlyWhenIdle StuckOnlyInMonitor
PROPERTY ZombieFreedByItsTrap
CHECK_DEADLOCK FALSE
