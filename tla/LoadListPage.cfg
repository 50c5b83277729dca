SPECIFICATION FairSpec
CONSTANTS
  UI = UI
  Loader = Loader
  Actors <- MCActors
  Nobody = Nobody
  NoItem = NoItem
  TimedWait = TRUE
  Links = {l1}
  Images = {i1, i2}
  HiRoom = 1
  LoRoom = 1
  MaxDownloads = 1
  MaxRequests = 3
INVARIANTS TypeOK CountMatches StartedIsListed NoThreadAfterPage
CHECK_DEADLOCK FALSE
PROPERTY WaitsEnd
