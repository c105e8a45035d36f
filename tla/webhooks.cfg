CONSTANTS
  Hooks = {h1}
  EventTypes = {completed}
  Emits = {1, 2, 3}
  Workers = {w1, w2}
  QueuePerWorker = 1
  MaxRetries = 1
  MaxChanges = 1
  MaxTests = 1
  MaxRestarts = 1
SPECIFICATION FairSpec
CHECK_DEADLOCK FALSE
INVARIANTS
  TypeOK
  AttemptsInOrder
  AuditTrail
PROPERTIES
  DeliveriesSettle
