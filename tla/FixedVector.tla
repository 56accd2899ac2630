----------------------------- MODULE FixedVector -----------------------------
(***************************************************************************)
(* btree/detail/fixed_vector.h: the arrays of a B-tree node, a buffer of   *)
(* fixed capacity.  The general template keeps objects, the specialisation *)
(* for trivial types copies bytes.  As in FlatVector the operators take a  *)
(* vector and return the vector after them, positions count from 0.        *)
(* erase(from, to) aborts unless `to` is end().                            *)
(***************************************************************************)
EXTENDS Slots

CONSTANT Room     \* capacity()

ASSUME FixedAssumption == Room \in Nat

EmptyVec(trivial) ==
    [slot |-> Buffer(Room), size |-> 0, trivial |-> trivial, fault |-> FALSE]

Contents(v) == [i \in 1..v.size |-> Read(v, i - 1)]

-----------------------------------------------------------------------------
(* The general template *)

\* From the back: objects are constructed behind end(), the other slots are assigned to.
MoveBackward(v, first, last, dest) ==
    LET raw == IF dest > v.size THEN Min({last - first, dest - v.size}) ELSE 0
        constructed == Loop(LAMBDA o, i : ConstructMoved(o, dest - 1 - i, last - 1 - i), v, raw)
    IN  Loop(LAMBDA o, i : AssignMoved(o, dest - raw - 1 - i, last - raw - 1 - i),
             constructed, last - raw - first)

\* Slots before end() are assigned to, objects are constructed in those behind it.
Copy(v, s, dest) ==
    LET living == IF dest < v.size THEN Min({Len(s), v.size - dest}) ELSE 0
        assigned == Loop(LAMBDA o, i : AssignTo(o, dest + i, s[i + 1]), v, living)
    IN  Loop(LAMBDA o, i : Construct(o, dest + living + i, s[living + i + 1]),
             assigned, Len(s) - living)

EmplacedObject(v, i, x) ==
    IF i < v.size THEN AssignTo(MoveBackward(v, i, v.size, v.size + 1), i, x)
    ELSE Construct(v, i, x)

InsertedObjects(v, i, s) ==
    Copy(IF i < v.size THEN MoveBackward(v, i, v.size, v.size + Len(s)) ELSE v, s, i)

ErasedObject(v, i) ==
    DestroyOne(Loop(LAMBDA o, j : AssignMoved(o, i + j, i + j + 1), v, v.size - i - 1), v.size - 1)

-----------------------------------------------------------------------------
(* The specialisation for trivial types *)

PutAll(v, s, dest) == Loop(LAMBDA o, i : Put(o, dest + i, s[i + 1]), v, Len(s))

EmplacedBytes(v, i, x) ==
    Put(IF i < v.size THEN CopyBytes(v, i + 1, i, v.size - i) ELSE v, i, x)

\* As many slots are moved as the vector has elements, also when fewer follow position i.
InsertedBytes(v, i, s) ==
    PutAll(IF i < v.size THEN CopyBytes(v, i + Len(s), i, v.size) ELSE v, s, i)

ErasedBytes(v, i) == CopyBytes(v, i, i + 1, v.size - i - 1)

-----------------------------------------------------------------------------
(* Either *)

Emplaced(v, i, x) ==
    [IF v.trivial THEN EmplacedBytes(v, i, x) ELSE EmplacedObject(v, i, x) EXCEPT !.size = @ + 1]

Inserted(v, i, s) ==
    [IF v.trivial THEN InsertedBytes(v, i, s) ELSE InsertedObjects(v, i, s) EXCEPT !.size = @ + Len(s)]

Erased(v, i) == [IF v.trivial THEN ErasedBytes(v, i) ELSE ErasedObject(v, i) EXCEPT !.size = @ - 1]

\* erase(from, end()), and clear with i = 0
ErasedTail(v, i) == [Destroy(v, i, v.size - i) EXCEPT !.size = i]
==============================================================================
