CONSTANTS
  e1 = e1
  e2 = e2
  t1 = t1
  t2 = t2
  None = None
  Events = {e1, e2}
  Threads = {t1, t2}
  MaxAttempts = 2
  MaxBatch = 2
  MaxSent <- MCMaxSent
  MaxSections = 3
  MaxFailures = 1
SPECIFICATION LiveSpec
INVARIANTS
  TypeOK
  LocksHeld
  ArchivedPerDelivery
PROPERTIES
  ImplementsInbox
  DeliveryAnswered
  RoundEnds
