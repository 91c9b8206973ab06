CONSTANTS
  None = None
  Words <- MCWords
  Addresses <- MCAddresses
  Rules <- MCRules
  Hint <- MCHint
  NodeInfo <- MCNodeInfo
  PodInfo <- MCPodInfo
  MachineInfo <- MCMachineInfo
  Faults = {"ksm1", "ksm2", "disk", "card0", "card1", "pod1", "pod2", "web", "no_rule"}
  PayloadOf <- MCPayloadOf
  Native = {"ksm1", "ksm2", "disk", "card0", "card1", "pod1", "pod2", "web"}
  MaxTime = 3
  MaxSilent = 1
SPECIFICATION Spec
CHECK_DEADLOCK FALSE
INVARIANTS
  TypeOK
  EachTriggerCountsOnce
  NativeKeptApart
PROPERTIES
  NamedRecoveryEnds
