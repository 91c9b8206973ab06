CONSTANTS
  podA = podA
  podB = podB
  notReady = notReady
  kubelet = kubelet
  disk = disk
  hot = hot
  hot2 = hot2
  None = None
  Alerts = {podA, podB, notReady}
  Attr <- MCAttr
  NeverLink <- MCNeverLink
  ForceLink <- MCForceLink
  CausalRules <- MCCausalRules
  RootPriority <- MCRootPriority
  Weights <- MCWeights
  Threshold = 70
  StrongSignals <- MCStrongSignals
  Window = 10
  Times = {0, 1}
  ApiRelations <- MCApiRelations
  MaxFailures = 0
SPECIFICATION Spec
CHECK_DEADLOCK FALSE
INVARIANT CauseIsRoot
