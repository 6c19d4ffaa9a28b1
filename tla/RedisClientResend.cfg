CONSTANTS
  Servers = {r1}
  Fds = {3}
  SndBuf = 3
  CmdLen = 2
  MaxCmds = 4
  MaxBreaks = 0
  Others = {}
SPECIFICATION Spec
INVARIANT SentOnce
CHECK_DEADLOCK FALSE
