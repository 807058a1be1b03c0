CONSTANTS
  NBLOCKS = 6
  BLKSIZE = 2
  NDIRECT = 1
  NINDIRECT = 2
  BLKFILES = 2
  Names = {a, b}
  NoName = NoName
  Old = a
  Values = {1}
  Counts = {1, 4}
  MaxSize = 7
  MaxRequests = 4
SPECIFICATION Spec
INVARIANTS DiskFullIsAnError
CHECK_DEADLOCK FALSE
