SPECIFICATION FairSpec
CONSTANTS
  Sessions = {s1, s2}
  Threads = {t1, t2}
  Requests <- MCRequests
  MaxRequests = 2
  Nobody = Nobody
INVARIANTS
  OneActivity
  ResponsesMatch
PROPERTIES
  RequestsAnswered
  SessionsEnd
CHECK_DEADLOCK FALSE
