SPECIFICATION Spec
CONSTANTS
  Replica = {a, b}
  Key = {k, l}
  Elem = {x, y}
  Uses <- AllUses
  k = k
SYMMETRY Symmetry
CHECK_DEADLOCK FALSE
INVARIANTS
  TypeOK
  NestedSound
  NoChangeStranded
  Converged
  ReadsTheWriter
PROPERTIES
  KeysAreASet
  ChangeWins
  ContentSemantics
