SPECIFICATION Spec
CONSTANTS
  p1 = p1
  p2 = p2
  o1 = o1
  o2 = o2
  d1 = d1
  self = self
  n1 = n1
  None = None
  Junk = Junk
  Global = Global
  Self = self
  Process = {p1}
  Object = {o1, o2, d1, self}
  Dir = {d1}
  Name = {n1}
  MinEntries = 1
  MaxEntries = 2
  Handles <- LocalHandles
  Inherit = {FALSE}
  Flags <- Protect
  MaxPins = 1
INVARIANTS
  TableConsistent
  RefcountExact
  NamesUnique
PROPERTIES
  HandleStable
CHECK_DEADLOCK FALSE
