SPECIFICATION FairSpec
CONSTANTS
  Procs = {p1, p2}
  NoProc = NoProc
  NoConfig = NoConfig
  Text <- MCText
  TrimRight <- MCTrimRight
  Requests <- MCFewRequests
  MaxVersions = 3
PROPERTIES EveryCallReturns StaleIsDropped
