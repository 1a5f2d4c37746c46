SPECIFICATION PoolFairSpec
CONSTANTS
  Conn = {c1, c2, c3, c4}
  User = {u1, f1}
  Follower = {f1}
  NoConn = NoConn
  MaxIdle = 2
  MaxPipe = 1
INVARIANTS
  PoolTypeOK
  OwnAnswers
  Accounted
PROPERTIES
  CommandsEnd
CHECK_DEADLOCK FALSE
