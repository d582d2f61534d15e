SPECIFICATION Spec
CONSTANTS
  Threads = {t1}
  Conns = {c1}
  NoConn = NoConn
  Null = Null
  Users = {u1}
  Songs <- MCSongs
  MaxRows = 1
  MaxCount = 2
  MaxLimit = 1
PROPERTIES
  FirstPlayRecorded
