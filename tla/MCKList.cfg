SPECIFICATION Spec
CONSTANTS
  Lists = {l1, l2}
  Nodes = {a, b, c, d}
  NULL = NULL
SYMMETRY Symmetry
INVARIANT TypeOK
INVARIANT WellLinked
PROPERTY ImplementsFifo
