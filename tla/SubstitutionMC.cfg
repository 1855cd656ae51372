CONSTANTS
  Texts <- MCTexts
  Prog <- MCProg
  Length <- MCLength
  Tasks <- MCTasks
  Rcs = {0, 1}
  CacheMax = 3
  MaxDepth = 4
  MaxCount = 3
  MaxOutput = 1
  Timeout = 2
  NoTask = NoTask
  Letters = {"a"}
  Blanks = {" "}
  Marks = {":"}
  MaxValue = 2
  MaxParts = 3
  MAX_ARGS = 2
SPECIFICATION MCSpec
INVARIANTS TypeOK CacheIsLRU WorkBounded OverrunBounded RepeatsBounded
           ArgumentsAsDefined OnlyDelimitersLost
PROPERTIES RunsItsSubstitutions Answered
