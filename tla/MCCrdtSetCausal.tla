-------------------------- MODULE MCCrdtSetCausal --------------------------
EXTENDS CrdtSetCausal, TLC

CONSTANTS a, b, c

\* Neither the merge nor the actions depend on the order of the keys.
Symmetry == Permutations(Key)

Inserts210 == a :> 2 @@ b :> 1 @@ c :> 0
Sent221 == a :> 2 @@ b :> 2 @@ c :> 1
Inserts22 == a :> 2 @@ b :> 2
Sent32 == a :> 3 @@ b :> 2
=============================================================================
