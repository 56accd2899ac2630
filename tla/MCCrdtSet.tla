----------------------------- MODULE MCCrdtSet -----------------------------
EXTENDS CrdtSet, TLC

CONSTANTS a, b, c

\* Neither the merge nor the actions depend on the order of the keys.
Symmetry == Permutations(Key)

\* How many inserts each replica may issue and how many deltas it may extract.
Inserts31 == a :> 3 @@ b :> 1
Inserts20 == a :> 2 @@ b :> 0
Inserts30 == a :> 3 @@ b :> 0
Inserts40 == a :> 4 @@ b :> 0
Inserts100 == a :> 1 @@ b :> 0 @@ c :> 0
Sent20 == a :> 2 @@ b :> 0
Sent22 == a :> 2 @@ b :> 2
Sent41 == a :> 4 @@ b :> 1
Sent42 == a :> 4 @@ b :> 2
Sent110 == a :> 1 @@ b :> 1 @@ c :> 0
=============================================================================
