CONSTANTS
  Nodes = {a1, a2}
  Callers = {t1, t2}
  Conns = {x1, x2}
  MaxCalls = 3
  MaxFails = 2
SPECIFICATION FairSpec
INVARIANTS
  TypeOK
  OwnConnection
  JoinedIsOver
PROPERTIES
  CallsReturn
  Answered
CHECK_DEADLOCK FALSE
