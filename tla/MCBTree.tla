------------------------------- MODULE MCBTree -------------------------------
(***************************************************************************)
(* An instance of BTree with N = 2.  The view leaves out the last call and *)
(* its answer, which no call reads; the refinement still compares them at  *)
(* every step.                                                             *)
(***************************************************************************)
EXTENDS BTree

Downward(n) == [i \in 1..n |-> n + 1 - i]

\* Insertions that make a tree of depth 3, in the middle and not in front.
Inward == <<6, 7, 8, 9, 10, 4, 5, 2, 3, 1>>

\* Any keys one by one: depth 2.
Shallow == [keys |-> 1..8, inserts |-> 1..8, batches |-> {}, floor |-> 0]

\* A tree of depth 3 that loses its keys in any order, while one key is put back.
Deep == [keys |-> 1..11, inserts |-> {4}, batches |-> {Inward, Downward(11)}, floor |-> 0]

\* A tree of depth 4 that loses some: the recursion through two levels of internal nodes
\* changes the depth.
Deeper == [keys |-> 1..23, inserts |-> {}, batches |-> {Downward(23)}, floor |-> 21]

AllUses == {Shallow, Deep, Deeper}

WithoutAnswer == <<use, tree>>
==============================================================================
