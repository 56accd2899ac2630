SPECIFICATION Spec
CONSTANTS
  Replica = {a, b}
  Key = {k, l}
  Elem = {x, y}
  Uses <- Overwriting
  k = k
SYMMETRY Symmetry
CHECK_DEADLOCK FALSE
INVARIANTS
  ReadsTheWriter
