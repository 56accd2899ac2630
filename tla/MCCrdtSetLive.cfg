SPECIFICATION FairCausalSpec
CONSTANTS
  Replica = {a, b}
  Key = {x, y}
  MaxDot <- Inserts22
  MaxSent <- Sent32
  a = a
  b = b
  c = c
  Eager = TRUE
  FreshInserts = TRUE
  Causal = TRUE
CHECK_DEADLOCK FALSE
PROPERTIES
  EventuallyConverged
