SPECIFICATION Spec
CONSTANTS
  Replica = {a, b}
  Key = {x, y}
  MaxDot <- Inserts30
  MaxSent <- Sent41
  a = a
  b = b
  c = c
  Eager = TRUE
  FreshInserts = TRUE
  Causal = TRUE
SYMMETRY Symmetry
CHECK_DEADLOCK FALSE
INVARIANT
  SingleCounter
