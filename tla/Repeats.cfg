CONSTANTS
  i1 = i1
  None = None
  Incidents = {i1}
  MaxDays = 2
  MaxFailures = 1
SPECIFICATION Spec
INVARIANTS
  OneIsNeverRepeated
