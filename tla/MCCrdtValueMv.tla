--------------------------- MODULE MCCrdtValueMv ---------------------------
EXTENDS CrdtValueMv, TLC

CONSTANTS a, b, c

\* The order of the values does not matter.
Symmetry == Permutations(Key)

Inserts320 == a :> 3 @@ b :> 2 @@ c :> 0
Sent220 == a :> 2 @@ b :> 2 @@ c :> 0
=============================================================================
