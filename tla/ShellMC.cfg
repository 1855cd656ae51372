CONSTANTS
  Names = {"A", "B"}
  BadNames = {"1x"}
  Values = {"", "v"}
  Empty = ""
  NoValue = NoValue
  NoBuiltin = NoBuiltin
  Base <- MCBase
  FunNames = {"f"}
  Segments <- MCSegments
  MaxNest = 1
  Items <- MCItems
  MaxDepth = 1
SPECIFICATION MCSpec
INVARIANTS TypeOK ExportedAreSet ChildEnvironment WordsTakeEffect
           NothingDropped SameChains GateSound
PROPERTIES SubshellKeepsFunctions
