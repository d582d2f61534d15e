SPECIFICATION Spec
CONSTANTS
  Threads = {t1, t2}
  Conns = {c1, c2}
  NoConn = NoConn
  Null = Null
  Users = {u1, u2}
  Songs <- MCSongs
  MaxRows = 2
  MaxCount = 3
  MaxLimit = 1
SYMMETRY Symmetry
INVARIANTS
  PlaysCounted
PROPERTIES
  HistoryChanges
  RankingRight
