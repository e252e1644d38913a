SPECIFICATION Spec
CONSTANTS
  p1 = p1
  p2 = p2
  o1 = o1
  o2 = o2
  d1 = d1
  self = self
  n1 = n1
  None = None
  Junk = Junk
  Global = Global
  Self = self
  Process = {p1, p2}
  Object = {self}
  Dir = {}
  Name = {}
  MinEntries = 1
  MaxEntries = 2
  Handles <- DupHandles
  Inherit = {FALSE, TRUE}
  Flags <- NoFlags
  MaxPins = 0
SYMMETRY Processes
INVARIANTS
  RefcountExact
CHECK_DEADLOCK FALSE
