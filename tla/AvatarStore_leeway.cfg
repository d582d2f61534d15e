SPECIFICATION Spec
CONSTANTS
  Threads = {t1}
  Users = {u1}
  Secrets = {own, other}
  m_secret = own
  ValidFor = 1
  MaxSize = 1
  MaxTime = 3
  Null = Null
PROPERTIES
  LeewayHonoured
