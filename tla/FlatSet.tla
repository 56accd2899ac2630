------------------------------- MODULE FlatSet -------------------------------
(***************************************************************************)
(* flat/set.h over FlatVector: a set kept as a sorted vector.  flat/map.h  *)
(* has the same emplace, find and erase, with nodes compared by their keys.*)
(* The set's vector counts in 32 bits, whatever the set's SizeType is      *)
(* (set.h:168); W scales that down.                                        *)
(***************************************************************************)
EXTENDS FlatVector

CONSTANTS
    Keys,
    Ranges,         \* the ranges of other sets given to insert(begin, end)
    End             \* what end() points at

VARIABLES
    vec,            \* data_
    call, answer    \* as in SortedSet

vars == <<vec, call, answer>>

Ascending(s) == \A i, j \in DOMAIN s : i < j => s[i] < s[j]

ASSUME SetAssumption ==
    /\ Keys \subseteq Int /\ {End, Raw, Moved} \cap Keys = {}
    /\ \A r \in Ranges : r # <<>> /\ Ascending(r) /\ Len(r) <= MaxSize

Answer(at, done) == [at |-> at, done |-> done]

\* A set of bytes or of objects.
Init ==
    /\ \E trivial \in BOOLEAN : vec = Null(trivial)
    /\ call = <<"none">> /\ answer = Answer(End, FALSE)

-----------------------------------------------------------------------------
(* Lookups: v.size is end() *)

Element(v, i) == v.slot[i]

KeyAt(v, i) == IF i < v.size THEN Element(v, i) ELSE End

\* std::lower_bound: the first position that is not `before` the key, by bisection.
Partition(v, before) ==
    LET first[range \in (0..v.size) \X (0..v.size)] ==
            LET count == range[2]
                middle == range[1] + count \div 2
            IN  IF count = 0 THEN range[1]
                ELSE IF Element(v, middle) \in before
                     THEN first[<<middle + 1, count - count \div 2 - 1>>]
                     ELSE first[<<range[1], count \div 2>>]
    IN  first[<<0, v.size>>]

\* element < k.  An object that was moved from compares as an empty string does.
Precedes(e, k) == e = Moved \/ e < k

LowerBound(v, k) == Partition(v, {e \in Keys \cup {Moved} : Precedes(e, k)})

UpperBound(v, k) == Partition(v, {e \in Keys \cup {Moved} : Precedes(e, k) \/ e = k})

Find(v, k) ==
    LET i == LowerBound(v, k) IN IF i < v.size /\ Element(v, i) = k THEN i ELSE v.size

-----------------------------------------------------------------------------
(* The calls *)

\* Where k belongs: a key behind all others needs no search.
Place(v, k) ==
    IF v.size > 0 /\ ~Precedes(Element(v, v.size - 1), k) THEN LowerBound(v, k) ELSE v.size

Present(v, k) == Place(v, k) < v.size /\ Element(v, Place(v, k)) = k

\* emplace(value) throws
Refuses(v, k) == ~Present(v, k) /\ EmplaceThrows(v)

Added(v, k) == IF Present(v, k) THEN v ELSE Emplaced(v, Place(v, k), k)

\* emplace(value), and insert(value) and insert(hint, value): the hint is not used.
Insert(k) ==
    /\ ~Refuses(vec, k)
    /\ vec' = Added(vec, k)
    /\ answer' = Answer(KeyAt(vec', Place(vec, k)), ~Present(vec, k))
    /\ call' = <<"insert", k>>

InsertRefused(k) ==
    /\ Refuses(vec, k)
    /\ answer' = Answer(End, FALSE)
    /\ call' = <<"refused", k>>
    /\ UNCHANGED vec

\* The keys of r are added to v one after the other, up to one that is refused.
AddedAll(v, r) ==
    LET Add(u, k) == IF u.refused \/ Refuses(u.vec, k) THEN [u EXCEPT !.refused = TRUE]
                                                       ELSE [u EXCEPT !.vec = Added(@, k)]
    IN  FoldLeft(Add, [vec |-> v, refused |-> FALSE], r)

\* insert(begin, end): an empty set takes the range over as it is; otherwise room is reserved,
\* for a number of keys that size_type has cut off.
RangeAdded(r) ==
    LET wanted == (vec.size + Len(r)) % 2^W
    IN  IF vec.size = 0 THEN [vec |-> Assigned(vec, r), refused |-> FALSE]
        ELSE IF Overflows(vec, wanted) THEN [vec |-> vec, refused |-> TRUE]
        ELSE AddedAll(Reserved(vec, wanted), r)

\* For objects it does not compile.
InsertRange(r) ==
    /\ vec.trivial
    /\ vec' = RangeAdded(r).vec
    /\ answer' = Answer(End, ~RangeAdded(r).refused)
    /\ call' = IF RangeAdded(r).refused THEN <<"range refused", ToSet(r)>> ELSE <<"range", ToSet(r)>>

\* erase(value): find, erase(it), which returns an iterator at the same position.
Erase(k) ==
    LET i == Find(vec, k)
    IN  /\ vec' = IF i < vec.size THEN Erased(vec, i) ELSE vec
        /\ answer' = Answer(IF i < vec.size THEN KeyAt(vec', i) ELSE End, i < vec.size)
        /\ call' = <<"erase", k>>

Clear ==
    /\ vec' = Cleared(vec)
    /\ answer' = Answer(End, TRUE)
    /\ call' = <<"clear">>

\* find(value), lower_bound(value), upper_bound(value): i is the position of the iterator.
Seek(name, k, i) ==
    /\ answer' = Answer(KeyAt(vec, i), i < vec.size)
    /\ call' = <<name, k>>
    /\ UNCHANGED vec

Next ==
    \/ \E k \in Keys :
        \/ Insert(k) \/ InsertRefused(k) \/ Erase(k)
        \/ Seek("find", k, Find(vec, k))
        \/ Seek("lower_bound", k, LowerBound(vec, k))
        \/ Seek("upper_bound", k, UpperBound(vec, k))
    \/ \E r \in Ranges : InsertRange(r)
    \/ Clear

Spec == Init /\ [][Next]_vars

-----------------------------------------------------------------------------
(* Properties *)

\* What holds whatever was moved, grown, erased or refused before, even after a call that
\* destroyed an object twice: an object lives in exactly the first `size` slots of the buffer, so
\* that the next emplace constructs in a raw slot and clear leaks none; a set that emptied by
\* erasing holds no buffer (~vector_base asserts !data_).  (Bytes need no destruction: the slots
\* behind them may hold old ones.)  No byte is ever moved outside of the buffer or lost.
MemoryExact ==
    /\ vec.size <= Capacity(vec) /\ Capacity(vec) <= MaxSize
    /\ vec.size = 0 => Capacity(vec) = 0
    /\ \A a \in DOMAIN vec.slot :
        /\ a < vec.size => vec.slot[a] \in IF vec.trivial THEN Keys ELSE Keys \cup {Moved}
        /\ (~vec.trivial /\ a >= vec.size) => vec.slot[a] = Raw
    /\ ~(vec.trivial /\ vec.fault)

\* The call is an insertion or an erasure of k that moves n or more objects by one slot.
Shifts(n, k) ==
    /\ ~vec.trivial
    /\ \/ call' = <<"insert", k>> /\ ~Present(vec, k) /\ vec.size - Place(vec, k) >= n
       \/ call' = <<"erase", k>> /\ Find(vec, k) < vec.size /\ vec.size - Find(vec, k) - 1 >= n

\* Lifetimes go wrong in the calls that move two or more objects, to slots some of which they
\* are in, and in no other: growth of the buffer, which moves all of them to another one, refused
\* calls, clear, and all calls with at most one object behind construct over no living object,
\* destroy and read no dead one, stay in their buffer and free none in which an object lives.
FaultsOfOverlap == [][~vec.fault => (vec'.fault <=> \E k \in Keys : Shifts(2, k))]_vars

\* No object among the elements has been moved from.
Whole == \A i \in 0..vec.size - 1 : Element(vec, i) # Moved

Members == ToSet(Contents(vec))

Sorted == INSTANCE SortedSet WITH
    set <- Members, Batches <- {ToSet(r) : r \in Ranges}, Limit <- 2^(W - 1)

\* The vector is a sorted set: each call changes the keys as SortedSet says and answers what
\* it says, the positions it returns being right after elements have moved or the buffer has,
\* and a bisection finding what is there; a call is refused only when it would use half of what
\* size_type can count.  The code keeps this for bytes; for objects an emplace breaks it.
ImplementsSortedSet == Sorted!Spec

\* An emplace of objects with three or more behind: it leaves some of them moved from.
Tears == \E k \in Keys : call' = <<"insert", k>> /\ Shifts(3, k)

\* What the code does keep of it.  Bytes are a sorted set.  Objects are one call by call up to
\* such an emplace, with any number of them behind what is erased, although an erase destroys one
\* twice; and no other call leaves an object moved from.
SortedUntilTorn ==
    /\ Sorted!Init
    /\ [][Whole => \/ Sorted!Next /\ Whole'
                  \/ Tears]_<<Members, call, answer>>

\* An erase destroys what it erases and nothing that is dead.  The code does otherwise, with two
\* or more objects behind.
ErasesOnce == [][\A k \in Keys : call' = <<"erase", k>> => vec'.fault = vec.fault]_vars
==============================================================================
