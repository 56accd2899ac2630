SPECIFICATION MvSpec
CONSTANTS
  Replica = {a, b, c}
  Key = {x, y}
  MaxDot <- Inserts320
  MaxSent <- Sent220
  a = a
  b = b
  c = c
  Eager = FALSE
  FreshInserts = FALSE
  Causal = TRUE
SYMMETRY Symmetry
CHECK_DEADLOCK FALSE
INVARIANT
  OneValuePerReplica
PROPERTIES
  ImplementsRegister
  SetReplaces
