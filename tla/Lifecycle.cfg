SPECIFICATION Spec
CONSTANTS
  o1 = o1
  o2 = o2
  o3 = o3
  e1 = e1
  e2 = e2
  c1 = c1
  c2 = c2
  None = None
  Owners = {o1, o2, o3}
  Effects = {e1, e2}
  Cleanups = {c1, c2}
  Programs <- MCPrograms
  MaxReruns = 3
  MaxDepth = 8
CHECK_DEADLOCK FALSE
INVARIANTS
  TypeOK
  Restored
  CleanedOnce
  NothingOutlives
  ChildrenFirst
PROPERTIES
  DisposedStaysQuiet
