SPECIFICATION Spec
CONSTANTS
  Replica = {a, b}
  Key = {x, y}
  MaxDot <- Inserts31
  MaxSent <- Sent22
  a = a
  b = b
  c = c
  Eager = FALSE
  FreshInserts = FALSE
  Causal = FALSE
SYMMETRY Symmetry
CHECK_DEADLOCK FALSE
INVARIANTS
  TypeOK
  LinkIntegrity
  DotOwnership
  NextDotFresh
  NoLostInsert
  HookWithinState
PROPERTIES
  LocalSemantics
  RepeatedDelivery
