SPECIFICATION FairSpec
CONSTANTS
  about = about
  home = home
  None = None
  Pages = {about, home}
  Fragments = {about}
  Outlets = {home}
  Apps = {about, home}
  MaxVersion = 1
  MaxEntries = 2
  MaxTimers = 2
  Slots = {1}
INVARIANTS
  TypeOK
  AddressShown
  Fresh
  CacheExpires
PROPERTIES
  Unblocks
