SPECIFICATION FairSpec
CONSTANTS
  UI = UI
  Threads = {t1, t2}
  Entries = {e1, e2}
  Actors <- MCActors
  Nobody = Nobody
  NoEntry = NoEntry
  TimedWait = FALSE
  Patient = TRUE
PROPERTY WaitReturns
CHECK_DEADLOCK FALSE
