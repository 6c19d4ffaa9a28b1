CONSTANTS
  Servers = {r1, r2}
  Fds = {3, 4}
  SndBuf = 3
  CmdLen = 2
  MaxCmds = 3
  MaxBreaks = 1
  Others = {o1}
SPECIFICATION FairSpec
INVARIANTS
  TypeOK
  FdOwned
  StartsInOrder
  WholeCommands
PROPERTY AppendedIsTaken
CHECK_DEADLOCK FALSE
