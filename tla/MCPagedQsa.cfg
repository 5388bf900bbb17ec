CONSTANTS
  Ratio = 2
  PageSize = 4
  RingSize = 4
  TableWidth = 2
  Pages = {1, 2, 3, 4}
  Slots = {a, b}
  Requests = {1, 2}
  MaxAccepted = 2
  Shapes <- MCShapes
  Accepts = {0, 1, 2}
  MaxLaunches = 3
  MaxStarts = 2
  MaxTroubles = 1
  Companions <- MCCompanions
  None = None
  a = a
  b = b
SYMMETRY Symmetric
SPECIFICATION Spec
CHECK_DEADLOCK FALSE
INVARIANTS CacheHoldsSequence RightCallerAdmitted
PROPERTY RefusedChangeNothing
