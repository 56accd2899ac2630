------------------------------ MODULE FlatVector ------------------------------
(***************************************************************************)
(* flat/vector.h: a vector of as many elements as its size_type can count. *)
(* v.slot is its buffer (with no position while data_ is null), v.size the *)
(* number of elements, v.trivial and v.fault are as in Slots.  The         *)
(* operators take a vector and return the vector after them; positions     *)
(* count from 0.                                                           *)
(***************************************************************************)
EXTENDS Slots, FiniteSets

CONSTANT W      \* bits of size_type

ASSUME VectorAssumption == W \in Nat \ {0}

\* numeric_limits< size_type >::max()
MaxSize == 2^W - 1

Null(trivial) == [slot |-> Buffer(0), size |-> 0, trivial |-> trivial, fault |-> FALSE]

Capacity(v) == Cardinality(DOMAIN v.slot)

Contents(v) == [i \in 1..v.size |-> Read(v, i - 1)]

-----------------------------------------------------------------------------
(* Capacity *)

\* reserve(n): the capacity, and then `*= 3 / 2`, which is `*= 1`.
NewCapacity(v, n) == (Capacity(v) + n) % 2^W

\* reserve(n) throws
Overflows(v, n) == Capacity(v) < n /\ NewCapacity(v, n) < Capacity(v)

\* The elements move to a buffer of n slots; the old one must have none left when freed.
Relocate(v, n) ==
    LET old == Capacity(v)
        both == [v EXCEPT !.slot = [a \in 0..old + n - 1 |-> IF a < old THEN @[a] ELSE Raw]]
        after == MoveUninitialized(both, old, 0, v.size)
    IN  [Faulty(after, Leaks(after, old)) EXCEPT !.slot = [a \in 0..n - 1 |-> @[old + a]]]

Reserved(v, n) == IF Capacity(v) < n THEN Relocate(v, NewCapacity(v, n)) ELSE v

-----------------------------------------------------------------------------
(* Elements *)

\* emplace throws: by its own check, or in reserve.
EmplaceThrows(v) == MaxSize - 1 < v.size \/ Overflows(v, v.size + 1)

\* emplace, push_back
Emplaced(v, i, x) ==
    LET r == Reserved(v, v.size + 1)
        m == IF r.size - i > 0 THEN Move(r, i + 1, i, r.size - i) ELSE r
    IN  [Construct(m, i, x) EXCEPT !.size = @ + 1]

\* clear: the elements are destroyed and the buffer is freed, with nothing living in it.
Cleared(v) ==
    LET d == Destroy(v, 0, v.size)
    IN  [Null(v.trivial) EXCEPT !.fault = d.fault \/ Leaks(d, Capacity(d))]

\* Mutant of Erased: the element is not destroyed before others move to its place.
ErasedOver(v, i) ==
    LET e == [Move(v, i, i + 1, v.size - i - 1) EXCEPT !.size = @ - 1]
    IN  IF e.size = 0 THEN Cleared(e) ELSE e

Erased(v, i) ==
    LET e == [Move(DestroyOne(v, i), i, i + 1, v.size - i - 1) EXCEPT !.size = @ - 1]
    IN  IF e.size = 0 THEN Cleared(e) ELSE e

Assigned(v, s) ==
    [CopyUninitialized(Reserved(Cleared(v), Len(s)), 0, s) EXCEPT !.size = Len(s)]
==============================================================================
