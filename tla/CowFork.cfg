CONSTANTS
  Envs = {e1, e2}
  Root = e1
  NoEnv = NoEnv
  pftemp = pftemp
  text = text
  data = data
  share = share
  stack = stack
  xstack = xstack
  Order <- Layout
  Private = {data, stack}
  Shared = {share}
  Text = {text}
  Stack = stack
  XStack = xstack
  PFTEMP = pftemp
  Values = {0, 1}
  Zero = 0
SPECIFICATION FairSpec
INVARIANTS OwnExceptionStack CowIsStable
PROPERTIES ImplementsPrivateMemory CopyingIsInvisible ForkReturns
CHECK_DEADLOCK FALSE
