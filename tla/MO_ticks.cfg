SPECIFICATION FairSpec
CONSTANTS
  m1 = m1
  m2 = m2
  u1 = u1
  u2 = u2
  d1 = d1
  d2 = d2
  r1 = r1
  r2 = r2
  NoMonitor = nomonitor
  Monitors <- TwoMonitors
  Urls <- TwoUrls
  Of <- TwoOf
  DomainOf <- TwoDomains
  Alerts = {}
  Unchecked <- OtherMonitor
  Runs <- OneRun
  MaxPerTick = 1
  MaxAttempts = 2
  MaxVersion = 2
  MaxEvents = 0
  MaxFaults = 2
INVARIANTS ChangeIsCrawled
PROPERTIES DueIsServed
