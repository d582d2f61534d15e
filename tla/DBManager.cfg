SPECIFICATION FairSpec
CONSTANTS
  Threads = {t1, t2, t3, t4}
  Conns = {c1, c2, c3, c4}
  NoConn = NoConn
INVARIANTS
  TypeOK
  PoolExclusive
  ConnectionsConserved
  NoLostWakeup
  NullOnlyWhenUndersized
PROPERTIES
  GetConnectionReturns
  ImplementsPool
CHECK_DEADLOCK FALSE
