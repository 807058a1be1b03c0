CONSTANTS
  Clients = {k1, k2}
  Shell = k1
  NoClient = NoClient
  MAXFD = 2
  MAXOPEN = 2
  NoEntry = NoEntry
  a = a
  b = b
  Paths = {a, b}
  NoPath = NoPath
  Omodes <- MCOmodes
  FileIdLimit = 4
  FilePage = 1
  WriteBuf = 1
  Counts = {2}
  Offsets = {0}
  Sizes = {2}
  Image <- MCImage
  MaxFileSize = 2
  MaxServed = 3
SPECIFICATION MCSpec
INVARIANT FdNamesItsFile
PROPERTIES ImplementsOpenFiles RequestAnswered
CHECK_DEADLOCK FALSE
