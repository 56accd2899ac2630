------------------------------ MODULE SortedSet ------------------------------
(***************************************************************************)
(* What btree::set and flat::set promise: a set of ordered keys.  `call`   *)
(* is the last call and `answer` its answer: the key the returned iterator *)
(* points at (End for end()) and whether the call changed the set.         *)
(***************************************************************************)
EXTENDS Integers, FiniteSets

CONSTANTS
    Keys,
    Batches,    \* the sets of keys that come as a range
    Limit,      \* the number of keys from which on a call may throw
    End

VARIABLES set, call, answer

Answer(at, done) == [at |-> at, done |-> done]

\* The least key of S, or End.
Least(S) == IF S = {} THEN End ELSE CHOOSE k \in S : \A l \in S : k <= l

Init == set = {} /\ call = <<"none">> /\ answer = Answer(End, FALSE)

\* insert(value), insert(hint, value): the iterator is at the key either way.
Insert(k) ==
    /\ call' = <<"insert", k>>
    /\ set' = set \cup {k}
    /\ answer' = Answer(k, k \notin set)

\* A container that cannot grow throws and stays as it is.
Refuse(k) ==
    /\ call' = <<"refused", k>>
    /\ Cardinality(set) >= Limit
    /\ set' = set
    /\ answer' = Answer(End, FALSE)

\* insert(begin, end) returns nothing.
InsertRange(S) ==
    /\ call' = <<"range", S>>
    /\ set' = set \cup S
    /\ answer' = Answer(End, TRUE)

\* It may throw with some of the range inserted.
RefuseRange(S) ==
    /\ call' = <<"range refused", S>>
    /\ Cardinality(set) + Cardinality(S) >= Limit
    /\ set \subseteq set' /\ set' \subseteq set \cup S
    /\ answer' = Answer(End, FALSE)

\* erase(it): the iterator returned is at the next key.
Erase(k) ==
    /\ call' = <<"erase", k>>
    /\ set' = set \ {k}
    /\ answer' = Answer(IF k \in set THEN Least({l \in set : k < l}) ELSE End, k \in set)

Clear ==
    /\ call' = <<"clear">>
    /\ set' = {}
    /\ answer' = Answer(End, TRUE)

\* find, lower_bound, upper_bound: the keys from which on to look; `done` is whether there is one.
Seek(name, k, from) ==
    /\ call' = <<name, k>>
    /\ set' = set
    /\ answer' = Answer(Least(from), from # {})

Find(k) == Seek("find", k, set \cap {k})

LowerBound(k) == Seek("lower_bound", k, {l \in set : k <= l})

UpperBound(k) == Seek("upper_bound", k, {l \in set : k < l})

Next ==
    \/ \E k \in Keys : \/ Insert(k) \/ Refuse(k) \/ Erase(k)
                       \/ Find(k) \/ LowerBound(k) \/ UpperBound(k)
    \/ \E S \in Batches : InsertRange(S) \/ RefuseRange(S)
    \/ Clear

Spec == Init /\ [][Next]_<<set, call, answer>>
==============================================================================
