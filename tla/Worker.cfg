CONSTANTS
  i1 = i1
  i2 = i2
  None = None
  Incidents = {i1, i2}
  MaxAttempts = 2
  MaxRequests = 2
  MaxFailures = 2
SPECIFICATION LiveSpec
INVARIANTS
  TypeOK
  OneJobPerIncident
  PendingHasRunner
  OwnRequestSurvives
PROPERTY AnalysisSettles
CHECK_DEADLOCK FALSE
