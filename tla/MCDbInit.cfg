CONSTANTS
  s1 = s1
  s2 = s2
  s3 = s3
  Servers = {s1, s2, s3}
  Hosts <- Configured
  VNodes = {0, 1}
  Space = 4
SPECIFICATION Spec
INVARIANTS
  TypeOK
  InitialisedPoolsAgree
  FirstCome
PROPERTIES
  OnlyNewTakesKeys
CHECK_DEADLOCK FALSE
