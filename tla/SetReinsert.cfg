SPECIFICATION Spec
CONSTANTS
  Replica = {a, b}
  Key = {x, y}
  MaxDot <- Inserts40
  MaxSent <- Sent42
  a = a
  b = b
  c = c
  Eager = TRUE
  FreshInserts = FALSE
  Causal = TRUE
SYMMETRY Symmetry
CHECK_DEADLOCK FALSE
INVARIANT
  Converged
