SPECIFICATION Spec
CONSTANTS
  Values = {0, 1, 2}
  Default = 1
  Modes = {"open", "closed", "none"}
  None = None
  MaxSetups = 3
  MaxUses = 7
INVARIANTS
  TypeOK
  Shown
  Released
CHECK_DEADLOCK FALSE
