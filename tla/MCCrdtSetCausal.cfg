SPECIFICATION CausalSpec
CONSTANTS
  Replica = {a, b, c}
  Key = {x, y}
  MaxDot <- Inserts210
  MaxSent <- Sent221
  a = a
  b = b
  c = c
  Eager = TRUE
  FreshInserts = TRUE
  Causal = TRUE
SYMMETRY Symmetry
CHECK_DEADLOCK FALSE
INVARIANTS
  SameSeenSameDots
PROPERTIES
  ImplementsORSet
