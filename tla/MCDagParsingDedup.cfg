SPECIFICATION Spec
CONSTANTS
  File = {f1}
  MaxChanges = 2
  MaxMinute = 2
  MaxFailures = 0
PROPERTIES
  UploadIsParsed
CHECK_DEADLOCK FALSE
