CONSTANTS
  i1 = i1
  None = None
  Incidents = {i1}
  MaxDays = 2
  MaxFailures = 1
SPECIFICATION LiveSpec
INVARIANTS
  TypeOK
  DailyCap
  CreatedIsCommitted
  FirstRecoveryTold
PROPERTIES
  RepeatsOnlyIfLost
  DigestNotLost
