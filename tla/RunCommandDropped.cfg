CONSTANTS
  Rcs = {0, 1, 2}
  NoRc = NoRc
  Dirs = {home, sub}
  Start = home
  MaxLen = 3
SPECIFICATION Spec
INVARIANT NothingDropped
CHECK_DEADLOCK FALSE
