SPECIFICATION FairSpec
CONSTANTS
  UI = UI
  Threads = {t1, t2}
  Entries = {e1, e2}
  Actors <- MCActors
  Nobody = Nobody
  NoEntry = NoEntry
  TimedWait = TRUE
  Patient = TRUE
INVARIANTS   ReportsOwnStatus PolledStatusIsFinal CallbacksHaveAccess Exclusive AssertsHold FlagHasOwner
CHECK_DEADLOCK FALSE
PROPERTY WaitReturns
