SPECIFICATION Spec
CONSTANTS
  m1 = m1
  m2 = m2
  u1 = u1
  u2 = u2
  d1 = d1
  d2 = d2
  r1 = r1
  r2 = r2
  NoMonitor = nomonitor
  Monitors <- OneMonitor
  Urls <- OneUrl
  Of <- OneOf
  DomainOf <- OneDomain
  Alerts <- OneMonitor
  Unchecked = {}
  Runs <- TwoRuns
  MaxPerTick = 1
  MaxAttempts = 2
  MaxVersion = 2
  MaxEvents = 2
  MaxFaults = 1
SYMMETRY Symmetry
PROPERTIES WebhookOncePerDelta HistoryMovesForward
CHECK_DEADLOCK FALSE
