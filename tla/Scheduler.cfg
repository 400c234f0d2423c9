CONSTANTS
  Process = {p1, p2, p3}
  NoProcess = NoProcess
  MaxPriority = 1
  Capacity = 3
SPECIFICATION Spec
INVARIANTS
  MaskExact
PROPERTIES
  Implements
CHECK_DEADLOCK TRUE
SYMMETRY ProcessSymmetry
