SPECIFICATION FairSpec
CONSTANTS
  MaxThreads = 2
  MaxSignals = 2
INVARIANTS
  TypeOK
  ServesNothingAfterStop
  ExitLeavesNoThread
  RunsConfigured
  AbortNeedsRace
PROPERTIES
  StopsFromSleep
  ClientsAccepted
CHECK_DEADLOCK FALSE
