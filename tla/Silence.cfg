CONSTANTS
  a1 = a1
  a2 = a2
  a3 = a3
  i1 = i1
  i2 = i2
  i3 = i3
  f1 = f1
  f2 = f2
  f3 = f3
  o1 = o1
  None = None
  Alerts = {a1, a2}
  Incidents = {i1, i2}
  Fingerprints = {f1, f2}
  Operators = {}
  PrometheusConfigured = FALSE
  MaxFailures = 0
SPECIFICATION Spec
SYMMETRY Symmetry
PROPERTY SilenceIsNotRecovery
