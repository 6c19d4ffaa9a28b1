CONSTANTS
  Threads = {t1, t2}
  MaxCommit = 2
  MaxKeys = 1
  MaxCalls = 3
  MaxBreaks = 1
SPECIFICATION FairSpec
INVARIANTS
  TypeOK
  ReplyIsOwn
  NoneOutstanding
  ExecutedInOrder
  CommittedIsExecuted
PROPERTY CallsReturn
CHECK_DEADLOCK FALSE
