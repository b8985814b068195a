SPECIFICATION Spec
CONSTANTS
  File = {f1, f2}
  MaxChanges = 2
  MaxMinute = 2
  MaxFailures = 2
INVARIANTS
  TypeOK
  OnlyDedupLosesUploads
PROPERTIES
  AcceptedIsParsed
CHECK_DEADLOCK FALSE
