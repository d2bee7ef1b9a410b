SPECIFICATION FairSpec
CONSTANTS
  r1 = r1
  r2 = r2
  r3 = r3
  NoOne = noone
  Ready = ready
  Requests <- ThreeRequests
  Concurrency = 2
INVARIANTS AnswersMatch EndedRequestsStopExtraction StraysComeFromShutdown BoundedProcesses
PROPERTIES RequestsEnd
CHECK_DEADLOCK FALSE
