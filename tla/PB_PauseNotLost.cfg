SPECIFICATION Spec
CONSTANTS
  w1 = w1
  w2 = w2
  r1 = r1
  Workers <- PoolOfTwo
  Requests <- OneRequest
  NumUrls = 3
  MaxRecords = 2
  Overshoot = 0
  StartRecords <- FreshOnly
PROPERTIES PauseNotLost
CHECK_DEADLOCK FALSE
