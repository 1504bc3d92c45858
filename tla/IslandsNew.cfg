SPECIFICATION FairSpec
CONSTANTS
  None = None
  Elements <- MCElements
  Islands <- MCIslands
  Linked <- MCElements
  Name <- MCName
  Trigger <- IdleTrigger
  Kept = {1, 4}
  MaxUpdates = 0
PROPERTIES
  NewHydrates
CHECK_DEADLOCK FALSE
