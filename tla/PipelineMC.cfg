CONSTANTS
  MaxStages = 2
  MaxRedirects = 3
  Cap = 1
  MaxInput = 2
  MaxOps = 2
SPECIFICATION Spec
INVARIANTS TypeOK NeverWedged Tidy NothingLeftUnread NoStageLeft
PROPERTIES AnsweredOrSilent
CHECK_DEADLOCK FALSE
