CONSTANTS
  NBLOCKS = 8
  BLKSIZE = 2
  NDIRECT = 1
  NINDIRECT = 2
  BLKFILES = 2
  Names = {a, b}
  NoName = NoName
  Old = a
  Values = {1}
  Counts = {1, 4}
  MaxSize = 7
  MaxRequests = 4
SPECIFICATION Spec
INVARIANTS BitmapExact DiskSafe FlushReachesDisk
PROPERTIES ImplementsFiles
CHECK_DEADLOCK FALSE
