SPECIFICATION FairSpec
CONSTANTS
  Records = {r1, r2}
  Jobs = {j1, j2}
  NoJob = nojob
  NoRecord = norecord
INVARIANTS LockedRecordIsHeld RecordMatchesProduct
PROPERTIES ActiveJobsKeepTheirRecords JobsEnd
CHECK_DEADLOCK FALSE
