SPECIFICATION SsgSpec
CONSTANTS
  guideMd = guideMd
  guideMdx = guideMdx
  draft = draft
  final = final
  guide = guide
  other = other
  Absent = Absent
  Json = Json
  Files = {guideMd, guideMdx}
  Contents = {draft, final}
  Urls = {guide, other}
SYMMETRY Symmetry
INVARIANTS
  SsgTypeOK
  Served
  Appears
  KnownRight
