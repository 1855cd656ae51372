CONSTANTS
  Rcs = {0, 1, 2}
  NoRc = NoRc
  Dirs = {home, sub}
  Start = home
  MaxLen = 3
SPECIFICATION Spec
INVARIANTS FieldsAgree
PROPERTIES ImplementsList
CHECK_DEADLOCK FALSE
