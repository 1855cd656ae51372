CONSTANTS
  MaxFrames = 4
  MaxFuncDepth = 2
  MaxSourceDepth = 3
  MaxLoopIter = 2
  MaxCount = 3
  MaxArgs = 1
  Rcs = {0, 1}
SPECIFICATION Spec
INVARIANTS TypeOK LoopDepthCounted NoUncaughtSignal FunctionStateScoped OutputHeld
PROPERTIES SignalLandsAtItsLoop
