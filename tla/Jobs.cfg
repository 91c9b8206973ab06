CONSTANTS
  None = None
  Alerts = {a1, a2}
  llm_max_retries = 2
  MaxFailures = 2
SPECIFICATION LiveSpec
CHECK_DEADLOCK FALSE
INVARIANTS
  TypeOK
  ChatInOrder
PROPERTIES
  EveryCardTried
