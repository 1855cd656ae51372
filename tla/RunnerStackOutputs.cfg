CONSTANTS
  MaxFrames = 3
  MaxFuncDepth = 2
  MaxSourceDepth = 3
  MaxLoopIter = 2
  MaxCount = 3
  MaxArgs = 1
  Rcs = {0, 1}
SPECIFICATION Spec
INVARIANT OutputsReturned

