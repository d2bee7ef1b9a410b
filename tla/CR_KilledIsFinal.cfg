SPECIFICATION Spec
CONSTANTS
  a = a
  t1 = t1
  t2 = t2
  c1 = c1
  w1 = w1
  w2 = w2
  i1 = i1
  i2 = i2
  i3 = i3
  NoId = noid
  NoTask = none
  NoMessage = nothing
  Runs <- OneRun
  Tasks <- TwoTasks
  TaskIds <- TwoIds
  Requests <- OneClient
  NumUrls = 1
  Workers <- TwoWorkers
  Faults <- NoFaults
  MaxCalls = 4
  MaxFaults = 0
PROPERTIES KilledIsFinal
CHECK_DEADLOCK FALSE
