SPECIFICATION FairSpec
CONSTANTS
  Threads = {t1, t2}
  Emails = {"e1"}
  Codes = {"111111", "222222"}
  Actions = {"register", "reset_password"}
  Inputs <- MostInputs
  Expiry = 0
  MaxTime = 1
  MaxSends = 2
  None = None
INVARIANTS
  TypeOK
  StoredWasMailed
  VerdictExact
  AcceptedWasIssued
PROPERTIES
  CleanupOnlyExpired
  ExpiredIsRemoved
  VerifyReturns
