CONSTANTS
  Pids = {p1, p2}
  Codes = {0, 1}
  NoCode = NoCode
  Failure = Failure
  MaxStages = 2
SPECIFICATION Spec
INVARIANTS TypeOK OwnStatus NoOrphans Registered ForegroundCollected
PROPERTIES Reaped
