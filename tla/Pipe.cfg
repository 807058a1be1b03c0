CONSTANTS
  Envs = {e1, e2}
  Root = e1
  NoEnv = NoEnv
  MAXFD = 2
  PIPEBUFSIZ = 1
  MaxBytes = 2
  Length = 2
SPECIFICATION FairSpec
INVARIANTS ClosedIsTrue BytesInOrder
PROPERTIES EofIsSeen
CHECK_DEADLOCK FALSE
