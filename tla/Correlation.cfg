CONSTANTS
  podA = podA
  podB = podB
  notReady = notReady
  kubelet = kubelet
  disk = disk
  hot = hot
  hot2 = hot2
  None = None
  Alerts = {notReady, kubelet, disk, hot, hot2}
  Attr <- MCAttr
  NeverLink <- MCNeverLink
  ForceLink <- MCForceLink
  CausalRules <- MCCausalRules
  RootPriority <- MCRootPriority
  Weights <- MCWeights
  Threshold = 70
  StrongSignals <- MCStrongSignals
  Window = 10
  Times = {0, 12}
  ApiRelations <- MCApiRelations
  MaxFailures = 1
SPECIFICATION Spec
SYMMETRY Symmetry
CHECK_DEADLOCK FALSE
INVARIANTS
  TypeOK
  NeverTogether
  TiedTogether
  NodesTied
