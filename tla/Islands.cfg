SPECIFICATION FairSpec
CONSTANTS
  None = None
  Elements <- MCElements
  Islands <- MCIslands
  Linked <- MCElements
  Name <- MCName
  Trigger <- MCTrigger
  Kept = {1, 4}
  MaxUpdates = 2
INVARIANTS
  TypeOK
  DocOnce
  OwnState
PROPERTIES
  LoadHydrates
  UpdateApplied
CONSTRAINT UpdatesAlone
CHECK_DEADLOCK FALSE
