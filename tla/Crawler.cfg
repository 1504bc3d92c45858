SPECIFICATION FairSpec
CONSTANTS
  home = home
  about = about
  deep = deep
  admin = admin
  other = other
  here = here
  there = there
  None = None
  Urls = {home, about, deep, admin, other}
  Site <- MCSite
  Links <- MCLinks
  Excluded = {admin}
  EnableRecovery = TRUE
  MaxPages = 2
  MaxActions = 1
  HistorySize = 2
  MaxCalls = 2
INVARIANTS
  TypeOK
  Explored
PROPERTIES
  Ends
CHECK_DEADLOCK FALSE
