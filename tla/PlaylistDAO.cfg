SPECIFICATION Spec
CONSTANTS
  Threads = {t1, t2}
  Conns = {c1, c2}
  NoConn = NoConn
  Null = Null
  Infos = {a, b}
  Users <- MCUsers
  UserIds <- MCUserIds
  Songs <- MCSongs
  MaxPlaylists = 2
  MaxRows = 2
SYMMETRY Symmetry
INVARIANTS
  SongsBelong
PROPERTIES
  AddVerdict
  NoResurrection
