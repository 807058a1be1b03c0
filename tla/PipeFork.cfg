CONSTANTS
  Envs = {e1, e2, e3}
  Root = e1
  NoEnv = NoEnv
  MAXFD = 2
  PIPEBUFSIZ = 1
  MaxBytes = 0
  Length = 1
SPECIFICATION Spec
INVARIANTS ClosedIsTrue
CHECK_DEADLOCK FALSE
