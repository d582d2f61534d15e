SPECIFICATION Spec
CONSTANTS
  Threads = {t1, t2}
  Conns = {c1, c2}
  NoConn = NoConn
  Usernames = {u1, u2}
  Passwords = {p1, p2}
  Emails = {m1, m2}
  PlatformIds = {q1}
  MaxId = 2
  Null = Null
SYMMETRY Symmetry
INVARIANTS
  OneAccountPerName
  NobodyWaits
PROPERTIES
  RegisteredIdIsOwn
  LoginAgrees
  ReportedUpdateIsApplied
