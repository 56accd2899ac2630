SPECIFICATION Spec
CONSTANTS
  Replica = {a, b, c}
  Key = {x, y}
  MaxDot <- Inserts100
  MaxSent <- Sent110
  a = a
  b = b
  c = c
  Eager = TRUE
  FreshInserts = TRUE
  Causal = FALSE
SYMMETRY Symmetry
CHECK_DEADLOCK FALSE
INVARIANT
  Converged
