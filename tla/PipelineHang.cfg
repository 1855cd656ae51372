CONSTANTS
  MaxStages = 1
  MaxRedirects = 2
  Cap = 1
  MaxInput = 1
  MaxOps = 1
SPECIFICATION Spec
PROPERTIES Answered
CHECK_DEADLOCK FALSE
