CONSTANTS
  Servers = {r1}
  Fds = {3, 4}
  SndBuf = 3
  CmdLen = 2
  MaxCmds = 2
  MaxBreaks = 1
  Others = {o1}
SPECIFICATION Spec
INVARIANT ClosesItsOwn
CHECK_DEADLOCK FALSE
