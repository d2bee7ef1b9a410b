SPECIFICATION FairSpec
CONSTANTS
  a = a
  t1 = t1
  t2 = t2
  c1 = c1
  id = id
  TaskIds <- OneId
  NoId = noid
  Startup = startup
  NoTask = none
  Tasks <- TwoTasks
  Requests <- OneClient
  Runs <- OneRun
  NumUrls = 2
  MaxCalls = 3
  MaxRestarts = 1
INVARIANTS TypeOK LiveTaskIsRegistered SettledRunIsNotCrawled
PROPERTIES PauseIsStable TasksEnd NothingStaysOrphaned
CHECK_DEADLOCK FALSE
