SPECIFICATION Spec
CONSTANTS
  Threads = {t1, t2}
  Users = {u1, u2}
  Secrets = {own, other}
  m_secret = own
  ValidFor = 1
  MaxSize = 2
  MaxTime = 3
  Null = Null
SYMMETRY Symmetry
INVARIANTS
  UpdateSaves
PROPERTIES
  TokenVerdict
  ReadsWhole
