SPECIFICATION Spec
CONSTANTS
  Threads = {t1, t2}
  Emails = {"e1"}
  Codes = {"111111", "222222"}
  Actions = {"register", "reset_password"}
  Inputs <- AllInputs
  Expiry = 1
  MaxTime = 0
  MaxSends = 2
  None = None
INVARIANT
  AcceptedForItsAction
