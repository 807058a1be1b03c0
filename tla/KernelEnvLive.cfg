CONSTANTS
  CPUs = {c1, c2}
  BSP = c1
  NoCpu = NoCpu
  NoEnv = NoEnv
  NENV = 3
  GenStep = 3
  IdLimit = 6
SPECIFICATION FairLibSpec
PROPERTIES ZombieReaped RoundRobin
CHECK_DEADLOCK FALSE
