SPECIFICATION Spec
CONSTANTS
  Replica = {a, b}
  Key = {x, y}
  MaxDot <- Inserts20
  MaxSent <- Sent20
  a = a
  b = b
  c = c
  Eager = FALSE
  FreshInserts = TRUE
  Causal = TRUE
SYMMETRY Symmetry
CHECK_DEADLOCK FALSE
INVARIANT
  Converged
