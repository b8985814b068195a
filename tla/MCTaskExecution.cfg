SPECIFICATION Spec
CONSTANTS
  TI = {t1, t2}
  BatchTI = {t2}
  DigestOf <- MCDigestOf
  Invocation = {v1}
  MaxReceives = 2
  CatcherRetries = 1
  BatchAttempts = 2
  MaxQueueings = 2
  MaxFailures = 2
INVARIANTS
  TypeOK
  SlotHasOwner
  AbandonedByFailureOnly
PROPERTIES
  RunsOneAtATime
  SlotIsReleased
CHECK_DEADLOCK FALSE
