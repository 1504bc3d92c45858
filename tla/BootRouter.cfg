SPECIFICATION Spec
CONSTANTS
  guide = guide
  old = old
  docs = docs
  boot = boot
  page = page
  n1 = n1
  n2 = n2
  None = None
  Paths = {guide, old}
  Segments = {docs}
  Chunks = {boot, page}
  Segment <- MCSegment
  Needs <- MCNeeds
  Routed = {guide}
  Fallback = guide
  Slots = {n1, n2}
  MaxEntries = 2
  MaxClears = 1
  MaxTimers = 2
INVARIANTS
  TypeOK
  Requests
PROPERTIES
  ChunksFirst
CONSTRAINT FewTimers
SYMMETRY Symmetry
