SPECIFICATION FairSpec
CONSTANTS
  w1 = w1
  w2 = w2
  r1 = r1
  Workers <- PoolOfTwo
  Requests <- OneRequest
  NumUrls = 3
  MaxRecords = 2
  Overshoot = 1
  StartRecords <- FreshOrFull
INVARIANTS TypeOK UrlInOnePlace CompletionIsTotal BudgetConserved NoWorkerOutlivesCoordinator CountedRecordsExist
PROPERTIES TerminalSurvivesCrawl DeliversEveryUrlOnce BatchEnds SeenControlStopsRun
CHECK_DEADLOCK FALSE
