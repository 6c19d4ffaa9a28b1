CONSTANTS
  Servers = {r1}
  Fds = {3}
  SndBuf = 3
  CmdLen = 2
  MaxCmds = 3
  MaxBreaks = 0
  Others = {}
SPECIFICATION FairSpec
PROPERTY LeftoverIsWritten
CHECK_DEADLOCK FALSE
