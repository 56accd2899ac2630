--------------------------- MODULE FixedSplitVector ---------------------------
(***************************************************************************)
(* fixed_split_vector: the keys and the values of a leaf of btree::map, in *)
(* two fixed vectors that must change in step.  Here are two neighbouring  *)
(* leaves, which container.h fills, splits, merges and lets borrow.  Both  *)
(* keys and values may be bytes or objects.                                *)
(*                                                                         *)
(* A leaf's size is stored once.  get_data() makes vectors of which the    *)
(* keys' refers to it and the values' has a copy (map.h:28-36), which      *)
(* lasts as long as one call of container.h.                               *)
(***************************************************************************)
EXTENDS FixedVector

CONSTANTS
    N,          \* half of a leaf
    Entries,    \* the pairs callers emplace
    Most        \* bounds the pairs in the two leaves

KeySet == {e[1] : e \in Entries}

ValueSet == {e[2] : e \in Entries}

ASSUME SplitAssumption ==
    /\ N \in Nat \ {0} /\ Room = 2 * N
    /\ \A e \in Entries : e = <<e[1], e[2]>>
    /\ {Raw, Moved} \cap KeySet = {} /\ {Raw, Moved} \cap ValueSet = {}
    /\ Most \in Nat

Side == {"left", "right"}

VARIABLES
    leaf,       \* leaf[s].keys and leaf[s].values, as in FixedVector
    moving      \* the last call only moved elements from leaf to leaf

vars == <<leaf, moving>>

Init ==
    /\ \E k, v \in BOOLEAN :
        leaf = [s \in Side |-> [keys |-> EmptyVec(k), values |-> EmptyVec(v)]]
    /\ moving = FALSE

-----------------------------------------------------------------------------
(* fixed_split_vector: first the keys, then the values *)

\* get_data(): the values' size is copied.
Data(s) == [leaf[s] EXCEPT !.values.size = leaf[s].keys.size]

\* Mutant of Sized: both vectors refer to the leaf's size.
SizedByRef(d, keys) == [d EXCEPT !.keys = keys, !.values.size = keys.size]

\* The keys have changed, and with them the leaf's size.
Sized(d, keys) == [d EXCEPT !.keys = keys]

\* Mutant of PairEmplaced: the value is appended.
PairEmplacedBehind(d, i, k, v) ==
    LET e == Sized(d, Emplaced(d.keys, i, k))
    IN  [e EXCEPT !.values = Emplaced(@, @.size, v)]

\* emplace(begin() + i, {k, v})
PairEmplaced(d, i, k, v) ==
    LET e == Sized(d, Emplaced(d.keys, i, k)) IN [e EXCEPT !.values = Emplaced(@, i, v)]

PairErased(d, i) ==
    LET e == Sized(d, Erased(d.keys, i)) IN [e EXCEPT !.values = Erased(@, i)]

\* erase(begin() + i, end()), clear()
PairsErased(d, i) ==
    LET e == Sized(d, ErasedTail(d.keys, i)) IN [e EXCEPT !.values = ErasedTail(@, i)]

\* Mutant of PairsMovedIn: the values are all inserted at the end.
PairsMovedInBehind(d, i, keys, values) ==
    LET e == Sized(d, Inserted(d.keys, i, keys))
    IN  [e EXCEPT !.values = Inserted(@, @.size, values)]

\* insert(begin() + i, move_iterator(...), move_iterator(...))
PairsMovedIn(d, i, keys, values) ==
    LET e == Sized(d, Inserted(d.keys, i, keys)) IN [e EXCEPT !.values = Inserted(@, i, values)]

\* What such a call leaves of the n elements from position i.
PairsMovedOut(d, i, n) ==
    [d EXCEPT !.keys = Loop(LAMBDA o, j : MoveOut(o, i + j), @, n),
              !.values = Loop(LAMBDA o, j : MoveOut(o, i + j), @, n)]

KeysOf(d) == Contents(d.keys)

ValuesOf(d) == Contents(d.values)

From(seq, i) == SubSeq(seq, i + 1, Len(seq))

-----------------------------------------------------------------------------
(* container.h on leaves *)

Other(s) == CHOOSE o \in Side : o # s

\* insert(n, kindex, value): with room.
Emplace(s, i, e) ==
    /\ i <= leaf[s].keys.size /\ leaf[s].keys.size < 2 * N
    /\ leaf["left"].keys.size + leaf["right"].keys.size < Most
    /\ leaf' = [leaf EXCEPT ![s] = PairEmplaced(Data(s), i, e[1], e[2])]
    /\ moving' = FALSE

Erase(s, i) ==
    /\ i < leaf[s].keys.size
    /\ leaf' = [leaf EXCEPT ![s] = PairErased(Data(s), i)]
    /\ moving' = FALSE

\* split: the upper half of a full left leaf moves to a new right one.
Split ==
    LET l == Data("left")
        keys == From(KeysOf(l), N)
        values == From(ValuesOf(l), N)
    IN  /\ l.keys.size = 2 * N /\ leaf["right"].keys.size = 0
        /\ leaf' = [leaf EXCEPT !["left"] = PairsErased(PairsMovedOut(l, N, N), N),
                                !["right"] = PairsMovedIn(Data("right"), 0, keys, values)]
        /\ moving' = TRUE

\* The neighbour has more than half, or it is the last leaf, which may have less.
CanBorrow(t) ==
    \/ leaf[Other(t)].keys.size > N /\ leaf[t].keys.size < 2 * N
    \/ t = "left" /\ leaf["right"].keys.size > 0 /\ leaf["left"].keys.size <= N

\* borrow: t takes the element of its neighbour that is next to it, moves it and erases it.
Borrow(t) ==
    LET d == Data(Other(t))
        i == IF t = "right" THEN d.keys.size - 1 ELSE 0
        at == IF t = "right" THEN 0 ELSE Data(t).keys.size
    IN  /\ CanBorrow(t)
        /\ leaf' = [leaf EXCEPT ![t] = PairEmplaced(Data(t), at, Read(d.keys, i), Read(d.values, i)),
                                ![Other(t)] = PairErased(PairsMovedOut(d, i, 1), i)]
        /\ moving' = TRUE

\* merge: t, at half its room, takes all of its neighbour, whose objects are then destroyed
\* (cleanup) and whose memory is freed; another leaf may take its place.
Merge(t) ==
    LET d == Data(Other(t))
        at == IF t = "right" THEN 0 ELSE N
    IN  /\ leaf[t].keys.size = N /\ d.keys.size \in 1..N
        /\ leaf' = [leaf EXCEPT ![t] = PairsMovedIn(Data(t), at, KeysOf(d), ValuesOf(d)),
                                ![Other(t)] = PairsErased(PairsMovedOut(d, 0, d.keys.size), 0)]
        /\ moving' = TRUE

Next ==
    \/ \E s \in Side :
        \/ \E i \in 0..2 * N :
            \/ \E e \in Entries : Emplace(s, i, e)
            \/ Erase(s, i)
        \/ Borrow(s)
        \/ Merge(s)
    \/ Split

Spec == Init /\ [][Next]_vars

-----------------------------------------------------------------------------
(* Properties *)

\* Whether v holds an object of S in exactly its first `size` slots.
Exact(v, S) ==
    /\ v.size \in 0..Room
    /\ \A a \in DOMAIN v.slot :
        /\ a < v.size => v.slot[a] \in S
        /\ (~v.trivial /\ a >= v.size) => v.slot[a] = Raw

\* Keys and values are in step: as many objects live in one array as in the other, in exactly
\* the slots below the leaf's one size, none moved from, after splits, merges and borrowing.
\* No array has been overrun, nothing constructed over a living object, read or destroyed dead.
InStep ==
    \A s \in Side :
        /\ Exact(Data(s).keys, KeySet) /\ ~leaf[s].keys.fault
        /\ Exact(Data(s).values, ValueSet) /\ ~leaf[s].values.fault

Pairs(s) == [i \in 1..leaf[s].keys.size |-> <<KeysOf(Data(s))[i], ValuesOf(Data(s))[i]>>]

\* A split, a merge or a borrowed element moves what the two leaves hold between them and
\* changes nothing of it: every key keeps its value, and its place in the order.
OrderKept == [][moving' => Pairs("left")' \o Pairs("right")' = Pairs("left") \o Pairs("right")]_vars

\* What insert and erase do to a leaf, they do to the list of its pairs, and to no other leaf.
OneChange ==
    [][~moving' => \E s \in Side :
            /\ Pairs(Other(s))' = Pairs(Other(s))
            /\ \/ \E i \in 1..Len(Pairs(s)) + 1, e \in Entries :
                        Pairs(s)' = InsertAt(Pairs(s), i, e)
               \/ \E i \in DOMAIN Pairs(s) : Pairs(s)' = RemoveAt(Pairs(s), i)]_vars
==============================================================================
