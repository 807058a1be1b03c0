CONSTANTS
  CPUs = {c1, c2, c3}
  NoCpu = NoCpu
  USTACKTOP = 3
  UMapped = 2
  XBase = 5
  UXSTACKTOP = 29
  Values = {x, y}
  CONSBUFSIZE = 2
  BUFLEN = 3
  CRT_COLS = 2
  CRT_ROWS = 2
  MaxKeys = 2
  MaxSerial = 1
  MaxCodes = 1
  LastStab = 4
  Tables <- MCTables
  Addresses = {1, 2}
  MemorySizes <- MCSizes
  Mem16 = 16
  NPTENTRIES = 20
  MPENTRY = 2
  IOPHYSMEM = 4
  EXTPHYSMEM = 5
  KernelEnd = 9
  InfosPerPage = 16
  EnvPages = 1
  NCPU = 2
  KSTKSIZE = 1
  KSTKGAP = 1
  Stacks <- MCStacks
  Bootstack = 6
  Lapic = 60
  Programs <- MCPrograms
  FileBytes = 47
  ArgLists <- MCArgLists
  PgBytes = 24
  StackPage = 20
  SharedPages = {12, 13}
  MaxSpawns = 2
  CommandLines <- MCLines
  MaxProcs = 3
  NFD = 4
  MAXARGS = 2
SPECIFICATION MCSpec
INVARIANTS MutualExclusion HoldingNeverLies InputIntact FunctionRight BootSound StartedComplete
PROPERTIES ImplementsBigLock LockMoves FaultIsInvisible PipelineFinishes
CHECK_DEADLOCK FALSE
