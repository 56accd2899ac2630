------------------------ MODULE FixedSplitVectorProofs ------------------------
(***************************************************************************)
(* For leaves of every size, whatever is put in them: the two arrays of a  *)
(* leaf stay in step, and no pair is lost, torn apart or moved out of its  *)
(* place.                                                                  *)
(*                                                                         *)
(* The argument.  What each loop of Slots and FixedVector does is shown by *)
(* giving the slots after every one of its steps (SameSteps).  From that   *)
(* follows what the operations of fixed_vector do to the list of elements  *)
(* that a vector holds (Holds), and what those of fixed_split_vector do to *)
(* the lists of keys and of values in a leaf (Keeps); then the steps of    *)
(* container.h are steps on lists.                                         *)
(***************************************************************************)
EXTENDS FixedSplitVector, FiniteSetTheorems, TLAPS

\* What a slot can hold, the slots of an array, and an array.
Object == KeySet \cup ValueSet \cup {Raw, Moved}

Slot == [0 .. Room - 1 -> Object]

Vec == [slot : Slot, size : Nat, trivial : BOOLEAN, fault : BOOLEAN]

\* The array v with the slots h.
With(v, h) == [v EXCEPT !.slot = h]

-----------------------------------------------------------------------------
(* What a loop has done after n steps.                                     *)

\* A set of natural numbers has a least one.
LEMMA Least ==
  ASSUME NEW S \in SUBSET Nat, S # {}
  PROVE  \E x \in S : \A y \in S : x <= y
<1> DEFINE T == {0 .. y : y \in S}
           R == StrictSubsetOrdering(Nat)
<1>1. IsWellFoundedOn(R, FiniteSubsetsOf(Nat))
  BY FS_StrictSubsetOrderingWellFounded
<1>2. \A y \in S : IsFiniteSet(0 .. y) /\ 0 .. y \in SUBSET Nat
  BY FS_Interval
<1>3. T \subseteq FiniteSubsetsOf(Nat) /\ T # {}
  BY <1>2 DEF FiniteSubsetsOf
<1>4. PICK X \in T : \A Y \in T : ~(<<Y, X>> \in R)
  <2> HIDE DEF T, R
  <2> QED
    BY <1>1, <1>3, WFMin
<1>5. PICK x \in S : X = 0 .. x
  OBVIOUS
<1>6. ASSUME NEW y \in S, y < x
      PROVE  FALSE
  <2>1. 0 .. y \subseteq X /\ x \in X /\ x \notin 0 .. y
    BY <1>5, <1>6
  <2>2. <<0 .. y, X>> \in R
    BY <1>2, <1>5, <2>1 DEF StrictSubsetOrdering
  <2> QED
    BY <1>4, <2>2
<1> QED
  BY <1>6

\* Two functions that start from the same value and of which each step of the one is a step of
\* the other end with the same value.
LEMMA SameSteps ==
  ASSUME NEW n \in Nat, NEW f, NEW g, f[0] = g[0],
         \A i \in 1 .. n : f[i - 1] = g[i - 1] => f[i] = g[i]
  PROVE  f[n] = g[n]
<1> DEFINE S == {i \in 0 .. n : f[i] # g[i]}
<1> SUFFICES ASSUME S # {}
             PROVE  FALSE
  OBVIOUS
<1>0. S \in SUBSET Nat /\ S # {}
  OBVIOUS
<1>1. PICK x \in S : \A y \in S : x <= y
  BY <1>0, Least
<1>2. x \in 1 .. n
  OBVIOUS
<1>3. x - 1 \in 0 .. n /\ ~(x <= x - 1)
  BY <1>2
<1> QED
  BY <1>1, <1>2, <1>3

-----------------------------------------------------------------------------
(* One object                                                              *)

LEMMA WithVec ==
  ASSUME NEW v \in Vec, NEW h \in Slot
  PROVE  /\ With(v, h) \in Vec
         /\ With(v, h).slot = h /\ With(v, h).size = v.size
         /\ With(v, h).trivial = v.trivial /\ With(v, h).fault = v.fault
         /\ \A k \in Slot : With(With(v, h), k) = With(v, k)
BY DEF With, Vec

LEMMA WithOwn ==
  ASSUME NEW v \in Vec
  PROVE  v.slot \in Slot /\ With(v, v.slot) = v
BY DEF With, Vec

LEMMA SameSlots ==
  ASSUME NEW h \in Slot, NEW k \in Slot, \A a \in 0 .. Room - 1 : h[a] = k[a]
  PROVE  h = k
<1>1. h = [a \in 0 .. Room - 1 |-> h[a]] /\ k = [a \in 0 .. Room - 1 |-> k[a]]
  BY Zenon DEF Slot
<1> QED
  BY <1>1, Zenon

LEMMA UpdatedSlots ==
  ASSUME NEW h \in Slot, NEW k \in Slot, NEW a \in 0 .. Room - 1,
         \A b \in 0 .. Room - 1 : b # a => k[b] = h[b]
  PROVE  [h EXCEPT ![a] = k[a]] = k
<1> DEFINE z == [h EXCEPT ![a] = k[a]]
<1>1. z \in Slot /\ \A b \in 0 .. Room - 1 : z[b] = k[b]
  BY DEF Slot
<1> QED
  BY <1>1, SameSlots

LEMMA PutSlot ==
  ASSUME NEW v \in Vec, NEW a \in 0 .. Room - 1, NEW x \in Object
  PROVE  /\ [v.slot EXCEPT ![a] = x] \in Slot
         /\ Put(v, a, x) = With(v, [v.slot EXCEPT ![a] = x])
         /\ Faulty(v, FALSE) = v
BY DEF Put, With, Vec, Slot, Faulty

LEMMA ReadSlot ==
  ASSUME NEW v \in Vec, NEW a \in 0 .. Room - 1
  PROVE  /\ Living(v, a) <=> v.slot[a] # Raw
         /\ Read(v, a) = v.slot[a]
         /\ v.slot[a] \in Object
<1>1. v.slot \in Slot
  BY DEF Vec
<1>2. a \in DOMAIN v.slot /\ v.slot[a] \in Object
  BY <1>1 DEF Slot
<1> QED
  BY <1>2 DEF Living, Read

LEMMA ConstructSlot ==
  ASSUME NEW v \in Vec, NEW a \in 0 .. Room - 1, NEW x \in Object,
         v.trivial \/ v.slot[a] = Raw
  PROVE  Construct(v, a, x) = With(v, [v.slot EXCEPT ![a] = x])
<1>1. (~v.trivial /\ Living(v, a)) = FALSE
  BY ReadSlot
<1>2. Construct(v, a, x) = Put(Faulty(v, FALSE), a, x)
  BY <1>1, Zenon DEF Construct
<1> QED
  BY <1>2, PutSlot

LEMMA DestroySlot ==
  ASSUME NEW v \in Vec, NEW a \in 0 .. Room - 1, ~v.trivial, v.slot[a] # Raw
  PROVE  DestroyOne(v, a) = With(v, [v.slot EXCEPT ![a] = Raw])
<1>1. Raw \in Object
  BY DEF Object
<1> QED
  BY <1>1, PutSlot, ReadSlot DEF DestroyOne

LEMMA MoveOutSlot ==
  ASSUME NEW v \in Vec, NEW a \in 0 .. Room - 1, ~v.trivial, v.slot[a] # Raw
  PROVE  MoveOut(v, a) = With(v, [v.slot EXCEPT ![a] = Moved])
<1>1. Moved \in Object
  BY DEF Object
<1> QED
  BY <1>1, PutSlot, ReadSlot DEF MoveOut

LEMMA AssignSlot ==
  ASSUME NEW v \in Vec, NEW a \in 0 .. Room - 1, NEW x \in Object, v.slot[a] # Raw
  PROVE  AssignTo(v, a, x) = With(v, [v.slot EXCEPT ![a] = x])
BY PutSlot, ReadSlot DEF AssignTo

\* What an object moved from one slot to another leaves there.
Transfer(h, to, from) == [h EXCEPT ![to] = h[from], ![from] = Moved]

LEMMA TransferSlot ==
  ASSUME NEW v \in Vec, NEW to \in 0 .. Room - 1, NEW from \in 0 .. Room - 1, to # from,
         ~v.trivial, v.slot[from] # Raw
  PROVE  /\ Transfer(v.slot, to, from) \in Slot
         /\ v.slot[to] = Raw => ConstructMoved(v, to, from) = With(v, Transfer(v.slot, to, from))
         /\ v.slot[to] # Raw => AssignMoved(v, to, from) = With(v, Transfer(v.slot, to, from))
<1> DEFINE h == [v.slot EXCEPT ![to] = v.slot[from]]
           w == With(v, h)
<1>1. v.slot[from] \in Object /\ Moved \in Object /\ h \in Slot
  BY ReadSlot, PutSlot DEF Object
<1>2. w \in Vec /\ w.slot = h /\ ~w.trivial
  BY <1>1, WithVec
<1>3. h[from] = v.slot[from] /\ [h EXCEPT ![from] = Moved] = Transfer(v.slot, to, from)
  BY DEF Transfer, Vec, Slot
<1>4. Transfer(v.slot, to, from) \in Slot
  BY <1>1, <1>3 DEF Slot
<1>5. MoveOut(w, from) = With(v, Transfer(v.slot, to, from))
  <2> HIDE DEF w, h
  <2>1. MoveOut(w, from) = With(w, [w.slot EXCEPT ![from] = Moved])
    BY <1>2, <1>3, MoveOutSlot
  <2> QED
    BY <2>1, <1>1, <1>2, <1>3, <1>4, WithVec DEF w
<1>6. v.slot[to] = Raw => Construct(v, to, v.slot[from]) = w
  BY <1>1, ConstructSlot
<1>7. v.slot[to] # Raw => AssignTo(v, to, v.slot[from]) = w
  BY <1>1, AssignSlot
<1>8. Faulty(v, ~Living(v, from)) = v /\ Read(v, from) = v.slot[from]
  BY <1>1, ReadSlot, PutSlot
<1> QED
  BY <1>4, <1>5, <1>6, <1>7, <1>8 DEF ConstructMoved, AssignMoved

-----------------------------------------------------------------------------
(* The loops                                                               *)

DestroyedSlots(h, from, n) ==
  [a \in 0 .. Room - 1 |-> IF a \in from .. from + n - 1 THEN Raw ELSE h[a]]

LEMMA DestroyLoop ==
  ASSUME NEW v \in Vec, ~v.trivial, NEW from \in Nat, NEW n \in Nat, from + n <= Room,
         \A a \in from .. from + n - 1 : v.slot[a] # Raw
  PROVE  /\ DestroyedSlots(v.slot, from, n) \in Slot
         /\ Destroy(v, from, n) = With(v, DestroyedSlots(v.slot, from, n))
<1> DEFINE h(i) == DestroyedSlots(v.slot, from, i)
           g == [i \in 0 .. n |-> With(v, h(i))]
           f == CHOOSE z : z = [i \in 0 .. n |->
                                  IF i = 0 THEN v ELSE DestroyOne(z[i - 1], from + (i - 1))]
<1>0. v.slot \in Slot /\ Raw \in Object
  BY DEF Vec, Object
<1>1. \A i \in 0 .. n : h(i) \in Slot
  BY <1>0 DEF DestroyedSlots, Slot
<1>2. With(v, h(0)) = v
  <2>0. h(0) \in Slot /\ \A a : a \notin from .. from + 0 - 1
    BY <1>1
  <2>1. h(0) \in Slot /\ \A a \in 0 .. Room - 1 : h(0)[a] = v.slot[a]
    BY <2>0, Zenon DEF DestroyedSlots
  <2>2. h(0) = v.slot
    BY <1>0, <2>1, SameSlots
  <2> QED
    BY <2>2, WithOwn
<1>3. ASSUME NEW i \in 1 .. n
      PROVE  DestroyOne(With(v, h(i - 1)), from + (i - 1)) = With(v, h(i))
  <2> DEFINE w == With(v, h(i - 1))
  <2>1. i - 1 \in 0 .. n /\ i \in 0 .. n /\ from + (i - 1) \in 0 .. Room - 1
    BY FixedAssumption
  <2>2. w \in Vec /\ w.slot = h(i - 1) /\ ~w.trivial
    BY <1>1, <2>1, WithVec
  <2>3. h(i - 1)[from + (i - 1)] # Raw
    BY <2>1, FixedAssumption DEF DestroyedSlots
  <2>4. [h(i - 1) EXCEPT ![from + (i - 1)] = Raw] = h(i)
    <3>1. h(i)[from + (i - 1)] = Raw
      BY <2>1, FixedAssumption DEF DestroyedSlots
    <3>2. \A b \in 0 .. Room - 1 : b # from + (i - 1) => h(i)[b] = h(i - 1)[b]
      BY <2>1, FixedAssumption DEF DestroyedSlots
    <3>3. h(i) \in Slot /\ h(i - 1) \in Slot
      BY <1>1, <2>1
    <3> HIDE DEF h
    <3> QED
      BY <2>1, <3>1, <3>2, <3>3, UpdatedSlots
  <2>5. \A k \in Slot : With(w, k) = With(v, k)
    BY <1>1, <2>1, WithVec
  <2>6. DestroyOne(w, from + (i - 1)) = With(w, h(i))
    <3> HIDE DEF w, h
    <3> QED
      BY <2>1, <2>2, <2>3, <2>4, DestroySlot
  <2> QED
    BY <1>1, <2>1, <2>5, <2>6
<1> HIDE DEF h
<1>4. g = [i \in 0 .. n |-> IF i = 0 THEN v ELSE DestroyOne(g[i - 1], from + (i - 1))]
  BY <1>2, <1>3
<1>5. f = [i \in 0 .. n |-> IF i = 0 THEN v ELSE DestroyOne(f[i - 1], from + (i - 1))]
  BY <1>4
<1>6. Destroy(v, from, n) = f[n]
  BY DEF Destroy, Loop
<1>7. f[n] = g[n]
  <2> HIDE DEF f, g
  <2>1. f[0] = g[0]
    BY <1>4, <1>5
  <2>2. \A i \in 1 .. n : f[i - 1] = g[i - 1] => f[i] = g[i]
    BY <1>4, <1>5
  <2> QED
    BY <2>1, <2>2, SameSteps
<1> QED
  BY <1>1, <1>6, <1>7 DEF h

\* slot[at], slot[at + 1], ... after the first n elements of s have been put there.
StoredSlots(h, s, at, n) ==
  [a \in 0 .. Room - 1 |-> IF a \in at .. at + n - 1 THEN s[a - at + 1] ELSE h[a]]

LEMMA StoreStep ==
  ASSUME NEW v \in Vec, NEW s \in Seq(Object), NEW at \in Nat, at + Len(s) <= Room
  PROVE  /\ \A i \in 0 .. Len(s) : StoredSlots(v.slot, s, at, i) \in Slot
         /\ With(v, StoredSlots(v.slot, s, at, 0)) = v
         /\ \A i \in 1 .. Len(s) :
              LET w == With(v, StoredSlots(v.slot, s, at, i - 1))
                  z == With(v, StoredSlots(v.slot, s, at, i))
                  a == at + (i - 1)
              IN  /\ Put(w, a, s[i]) = z
                  /\ v.slot[a] # Raw => AssignTo(w, a, s[i]) = z
                  /\ v.slot[a] = Raw => Construct(w, a, s[i]) = z
<1> DEFINE h(i) == StoredSlots(v.slot, s, at, i)
<1>0. v.slot \in Slot
  BY DEF Vec
<1>1. \A i \in 0 .. Len(s) : h(i) \in Slot
  <2>1. ASSUME NEW i \in 0 .. Len(s), NEW a \in 0 .. Room - 1
        PROVE  (IF a \in at .. at + i - 1 THEN s[a - at + 1] ELSE v.slot[a]) \in Object
    <3>1. CASE a \in at .. at + i - 1
      <4>1. a - at + 1 \in 1 .. Len(s)
        BY <3>1, FixedAssumption
      <4> QED
        BY <3>1, <4>1
    <3> QED
      BY <1>0, <3>1 DEF Slot
  <2> QED
    BY <2>1 DEF StoredSlots, Slot
<1>2. With(v, h(0)) = v
  <2>1. h(0) \in Slot /\ \A a \in 0 .. Room - 1 : h(0)[a] = v.slot[a]
    BY <1>1, FixedAssumption DEF StoredSlots
  <2>2. h(0) = v.slot
    BY <1>0, <2>1, SameSlots
  <2> QED
    BY <2>2, WithOwn
<1>3. ASSUME NEW i \in 1 .. Len(s)
      PROVE  LET w == With(v, h(i - 1))
                 z == With(v, h(i))
                 a == at + (i - 1)
             IN  /\ Put(w, a, s[i]) = z
                 /\ v.slot[a] # Raw => AssignTo(w, a, s[i]) = z
                 /\ v.slot[a] = Raw => Construct(w, a, s[i]) = z
  <2> DEFINE w == With(v, h(i - 1))
             a == at + (i - 1)
  <2>1. /\ i - 1 \in 0 .. Len(s) /\ i \in 0 .. Len(s)
        /\ a \in 0 .. Room - 1 /\ s[i] \in Object
    BY FixedAssumption
  <2>2. /\ w \in Vec /\ w.slot = h(i - 1)
        /\ \A k \in Slot : With(w, k) = With(v, k)
    BY <1>1, <2>1, WithVec
  <2>3. h(i - 1)[a] = v.slot[a]
    BY <2>1, FixedAssumption DEF StoredSlots
  <2>4. [h(i - 1) EXCEPT ![a] = s[i]] = h(i)
    <3>1. h(i)[a] = s[i]
      BY <2>1, FixedAssumption DEF StoredSlots
    <3>2. \A b \in 0 .. Room - 1 : b # a => h(i)[b] = h(i - 1)[b]
      BY <2>1, FixedAssumption DEF StoredSlots
    <3>3. h(i) \in Slot /\ h(i - 1) \in Slot
      BY <1>1, <2>1
    <3> HIDE DEF h, a
    <3> QED
      BY <2>1, <3>1, <3>2, <3>3, UpdatedSlots
  <2>5. h(i) \in Slot
    BY <1>1, <2>1
  <2> HIDE DEF h, w, a
  <2>6. /\ Put(w, a, s[i]) = With(w, h(i))
        /\ w.slot[a] # Raw => AssignTo(w, a, s[i]) = With(w, h(i))
        /\ w.slot[a] = Raw => Construct(w, a, s[i]) = With(w, h(i))
    <3>1. w \in Vec /\ [w.slot EXCEPT ![a] = s[i]] = h(i)
      BY <2>2, <2>4
    <3>2. Put(w, a, s[i]) = With(w, [w.slot EXCEPT ![a] = s[i]])
      BY <2>1, <3>1, PutSlot
    <3>3. w.slot[a] # Raw => AssignTo(w, a, s[i]) = With(w, [w.slot EXCEPT ![a] = s[i]])
      BY <2>1, <3>1, AssignSlot
    <3>4. w.slot[a] = Raw => Construct(w, a, s[i]) = With(w, [w.slot EXCEPT ![a] = s[i]])
      BY <2>1, <3>1, ConstructSlot
    <3> QED
      BY <3>1, <3>2, <3>3, <3>4
  <2> QED
    BY <2>2, <2>3, <2>5, <2>6 DEF w, a
<1> HIDE DEF h
<1> QED
  BY <1>1, <1>2, <1>3 DEF h

LEMMA PutAllLoop ==
  ASSUME NEW v \in Vec, NEW s \in Seq(Object), NEW at \in Nat, at + Len(s) <= Room
  PROVE  PutAll(v, s, at) = With(v, StoredSlots(v.slot, s, at, Len(s)))
<1> DEFINE n == Len(s)
           g == [i \in 0 .. n |-> With(v, StoredSlots(v.slot, s, at, i))]
           f == CHOOSE z : z = [i \in 0 .. n |->
                       IF i = 0 THEN v ELSE Put(z[i - 1], at + (i - 1), s[(i - 1) + 1])]
<1>1. g = [i \in 0 .. n |-> IF i = 0 THEN v ELSE Put(g[i - 1], at + (i - 1), s[(i - 1) + 1])]
  BY StoreStep
<1>2. f = [i \in 0 .. n |-> IF i = 0 THEN v ELSE Put(f[i - 1], at + (i - 1), s[(i - 1) + 1])]
  BY <1>1
<1>3. PutAll(v, s, at) = f[n]
  BY DEF PutAll, Loop
<1>4. f[n] = g[n]
  <2>1. n \in Nat
    OBVIOUS
  <2> HIDE DEF f, g, n
  <2>2. f[0] = g[0]
    BY <1>1, <1>2, <2>1
  <2>3. \A i \in 1 .. n : f[i - 1] = g[i - 1] => f[i] = g[i]
    BY <1>1, <1>2, <2>1
  <2> QED
    BY <2>1, <2>2, <2>3, SameSteps
<1> QED
  BY <1>3, <1>4

\* The least of two numbers
LEMMA MinOfTwo ==
  ASSUME NEW a \in Nat, NEW b \in Nat
  PROVE  Min({a, b}) = IF a <= b THEN a ELSE b
<1> DEFINE c == IF a <= b THEN a ELSE b
<1>1. c \in {a, b} /\ \A y \in {a, b} : c <= y
  OBVIOUS
<1>2. \A x \in {a, b} : (\A y \in {a, b} : x <= y) => x = c
  OBVIOUS
<1> HIDE DEF c
<1>3. Min({a, b}) = c
  BY <1>1, <1>2 DEF Min
<1> QED
  BY <1>3 DEF c

\* Copy assigns to the slots of the vector that are left and constructs behind its end.
LEMMA CopySlots ==
  ASSUME NEW v \in Vec, NEW s \in Seq(Object), NEW at \in Nat, at + Len(s) <= Room,
         \A a \in at .. at + Len(s) - 1 : v.slot[a] = Raw <=> a >= v.size
  PROVE  Copy(v, s, at) = With(v, StoredSlots(v.slot, s, at, Len(s)))
<1> DEFINE living == IF at < v.size THEN Min({Len(s), v.size - at}) ELSE 0
           m == Len(s) - living
           x(i) == With(v, StoredSlots(v.slot, s, at, i))
<1>1. /\ living \in 0 .. Len(s) /\ m \in Nat /\ Len(s) \in Nat /\ v.size \in Nat
      /\ \A i \in 1 .. living : at + (i - 1) < v.size
      /\ \A i \in 1 .. m : at + (living + i - 1) >= v.size
  <2>1. v.size \in Nat /\ Len(s) \in Nat
    BY DEF Vec
  <2>2. living = IF at < v.size THEN IF Len(s) <= v.size - at THEN Len(s) ELSE v.size - at ELSE 0
    <3>1. at < v.size => v.size - at \in Nat
      BY <2>1
    <3> QED
      BY <2>1, <3>1, MinOfTwo
  <2> HIDE DEF living
  <2>3. living \in 0 .. Len(s) /\ m \in Nat
    <3>1. CASE at < v.size
      BY <2>1, <2>2, <3>1
    <3>2. CASE ~(at < v.size)
      BY <2>1, <2>2, <3>2
    <3> QED
      BY <3>1, <3>2
  <2>4. \A i \in 1 .. living : at + (i - 1) < v.size
    BY <2>1, <2>2
  <2>5. \A i \in 1 .. m : at + (living + i - 1) >= v.size
    BY <2>1, <2>2
  <2> QED
    BY <2>1, <2>3, <2>4, <2>5
<1> HIDE DEF living
<1>2. x(0) = v
  BY StoreStep, Zenon
<1>3. ASSUME NEW i \in 1 .. living
      PROVE  x(i) = AssignTo(x(i - 1), at + (i - 1), s[(i - 1) + 1])
  <2>1. /\ i \in 1 .. Len(s) /\ (i - 1) + 1 = i
        /\ at + (i - 1) \in at .. at + Len(s) - 1 /\ at + (i - 1) < v.size
    BY <1>1
  <2>2. v.slot[at + (i - 1)] # Raw
    BY <2>1 DEF Vec
  <2> QED
    BY <2>1, <2>2, StoreStep
<1>4. ASSUME NEW i \in 1 .. m
      PROVE  x(living + i) = Construct(x(living + (i - 1)), at + living + (i - 1),
                                       s[living + (i - 1) + 1])
  <2> DEFINE j == living + i
  <2>1. /\ j \in 1 .. Len(s) /\ living + (i - 1) = j - 1 /\ living + (i - 1) + 1 = j
        /\ at + living + (i - 1) = at + (j - 1)
        /\ at + (j - 1) \in at .. at + Len(s) - 1 /\ at + (j - 1) >= v.size
    <3>1. /\ i \in Nat /\ living \in Nat /\ i >= 1 /\ i <= Len(s) - living
          /\ Len(s) \in Nat /\ v.size \in Nat
          /\ at + (living + i - 1) >= v.size
      BY <1>1
    <3> HIDE DEF m
    <3> QED
      BY <3>1
  <2>2. v.slot[at + (j - 1)] = Raw
    BY <2>1
  <2> HIDE DEF j
  <2>3. x(j) = Construct(x(j - 1), at + (j - 1), s[j])
    BY <2>1, <2>2, StoreStep
  <2> QED
    BY <2>1, <2>3 DEF j
<1> HIDE DEF x
<1> DEFINE Assigned == Loop(LAMBDA o, i : AssignTo(o, at + i, s[i + 1]), v, living)
<1>5. Assigned = x(living)
  <2> DEFINE g == [i \in 0 .. living |-> x(i)]
             f == CHOOSE z : z = [i \in 0 .. living |->
                         IF i = 0 THEN v ELSE AssignTo(z[i - 1], at + (i - 1), s[(i - 1) + 1])]
  <2>1. g = [i \in 0 .. living |->
               IF i = 0 THEN v ELSE AssignTo(g[i - 1], at + (i - 1), s[(i - 1) + 1])]
    BY <1>1, <1>2, <1>3
  <2>2. f = [i \in 0 .. living |->
               IF i = 0 THEN v ELSE AssignTo(f[i - 1], at + (i - 1), s[(i - 1) + 1])]
    BY <2>1
  <2>3. Assigned = f[living]
    BY DEF Loop
  <2> HIDE DEF f, g, Assigned
  <2>4. f[0] = g[0] /\ \A i \in 1 .. living : f[i - 1] = g[i - 1] => f[i] = g[i]
    BY <1>1, <2>1, <2>2
  <2>5. f[living] = g[living]
    BY <1>1, <2>4, SameSteps
  <2> QED
    BY <1>1, <2>3, <2>5 DEF g
<1> HIDE DEF Assigned
<1>6. Copy(v, s, at) = Loop(LAMBDA o, i : Construct(o, at + living + i, s[living + i + 1]), Assigned, m)
  BY DEF Copy, Assigned, living
<1>7. Copy(v, s, at) = x(living + m)
  <2> DEFINE g == [i \in 0 .. m |-> x(living + i)]
             f == CHOOSE z : z = [i \in 0 .. m |->
                         IF i = 0 THEN Assigned
                         ELSE Construct(z[i - 1], at + living + (i - 1), s[living + (i - 1) + 1])]
  <2>1. g = [i \in 0 .. m |->
               IF i = 0 THEN Assigned
               ELSE Construct(g[i - 1], at + living + (i - 1), s[living + (i - 1) + 1])]
    <3>1. x(living + 0) = Assigned
      BY <1>1, <1>5
    <3>2. \A i \in 0 .. m : i # 0 => i \in 1 .. m /\ i - 1 \in 0 .. m
      BY <1>1
    <3> QED
      BY <1>4, <3>1, <3>2
  <2>2. f = [i \in 0 .. m |->
               IF i = 0 THEN Assigned
               ELSE Construct(f[i - 1], at + living + (i - 1), s[living + (i - 1) + 1])]
    BY <2>1
  <2>3. Copy(v, s, at) = f[m]
    BY <1>6 DEF Loop
  <2> HIDE DEF f, g, m
  <2>4. f[0] = g[0] /\ \A i \in 1 .. m : f[i - 1] = g[i - 1] => f[i] = g[i]
    BY <1>1, <2>1, <2>2
  <2>5. f[m] = g[m]
    BY <1>1, <2>4, SameSteps
  <2> QED
    BY <1>1, <2>3, <2>5 DEF g
<1> QED
  BY <1>1, <1>7 DEF x

\* The slots after the last j of the first `size` objects have moved n slots up, the last first.
ShiftedSlots(h, size, n, j) ==
  [a \in 0 .. Room - 1 |->
     IF a \in size + n - j .. size + n - 1 THEN h[a - n]
     ELSE IF a \in size - j .. size - 1 THEN Moved
     ELSE h[a]]

\* Objects in the slots below the vector's size, and nowhere else.
Filled(v) == \A a \in 0 .. Room - 1 : v.slot[a] = Raw <=> a >= v.size

LEMMA ShiftStep ==
  ASSUME NEW v \in Vec, ~v.trivial, Filled(v), NEW n \in Nat \ {0}, v.size + n <= Room
  PROVE  /\ \A j \in 0 .. v.size : ShiftedSlots(v.slot, v.size, n, j) \in Slot
         /\ With(v, ShiftedSlots(v.slot, v.size, n, 0)) = v
         /\ \A j \in 1 .. v.size :
              LET w == With(v, ShiftedSlots(v.slot, v.size, n, j - 1))
                  z == With(v, ShiftedSlots(v.slot, v.size, n, j))
              IN  /\ j <= n => ConstructMoved(w, v.size + n - j, v.size - j) = z
                  /\ j > n => AssignMoved(w, v.size + n - j, v.size - j) = z
<1> DEFINE size == v.size
           h(j) == ShiftedSlots(v.slot, size, n, j)
<1>0. v.slot \in Slot /\ size \in Nat /\ Moved \in Object /\ Moved # Raw /\ Room \in Nat
  BY SlotsAssumption, FixedAssumption DEF Vec, Object
<1>1. \A j \in 0 .. size : h(j) \in Slot
  <2>1. ASSUME NEW j \in 0 .. size, NEW a \in 0 .. Room - 1
        PROVE  h(j)[a] \in Object
    <3>1. a \in size + n - j .. size + n - 1 => a - n \in 0 .. Room - 1
      BY <1>0
    <3> HIDE DEF size
    <3> QED
      BY <1>0, <3>1 DEF ShiftedSlots, Slot
  <2> QED
    BY <2>1 DEF ShiftedSlots, Slot
<1>2. With(v, h(0)) = v
  <2>1. h(0) \in Slot /\ \A a \in 0 .. Room - 1 : h(0)[a] = v.slot[a]
    BY <1>0, <1>1 DEF ShiftedSlots
  <2>2. h(0) = v.slot
    BY <1>0, <2>1, SameSlots
  <2> QED
    BY <2>2, WithOwn
<1>3. ASSUME NEW j \in 1 .. size
      PROVE  LET w == With(v, h(j - 1))
                 z == With(v, h(j))
             IN  /\ j <= n => ConstructMoved(w, size + n - j, size - j) = z
                 /\ j > n => AssignMoved(w, size + n - j, size - j) = z
  <2> DEFINE w == With(v, h(j - 1))
             to == size + n - j
             from == size - j
  <2>1. /\ j - 1 \in 0 .. size /\ j \in 0 .. size /\ j \in Nat
        /\ to \in 0 .. Room - 1 /\ from \in 0 .. Room - 1 /\ to # from /\ from < size
    BY <1>0
  <2>2. h(j) \in Slot /\ h(j - 1) \in Slot
    BY <1>1, <2>1
  <2>3. /\ w \in Vec /\ w.slot = h(j - 1) /\ ~w.trivial
        /\ \A k \in Slot : With(w, k) = With(v, k)
    BY <2>2, WithVec
  <2>4. h(j - 1)[from] = v.slot[from] /\ v.slot[from] # Raw
    <3>1. from \notin size + n - (j - 1) .. size + n - 1 /\ from \notin size - (j - 1) .. size - 1
      BY <1>0, <2>1
    <3> HIDE DEF from, size
    <3> QED
      BY <1>0, <2>1, <3>1 DEF ShiftedSlots, Filled, size
  <2>5. h(j - 1)[to] = Raw <=> j <= n
    <3>1. to \notin size + n - (j - 1) .. size + n - 1
      BY <1>0, <2>1
    <3>2. CASE j <= n
      <4>1. to \notin size - (j - 1) .. size - 1 /\ to >= size
        BY <1>0, <2>1, <3>2
      <4> HIDE DEF to, size
      <4> QED
        BY <1>0, <2>1, <3>1, <3>2, <4>1 DEF ShiftedSlots, Filled, size
    <3>3. CASE j > n
      <4>1. to \in size - (j - 1) .. size - 1
        BY <1>0, <2>1, <3>3
      <4> HIDE DEF to, size
      <4> QED
        BY <1>0, <2>1, <3>1, <3>3, <4>1 DEF ShiftedSlots
    <3> QED
      BY <2>1, <3>2, <3>3
  <2>6. Transfer(h(j - 1), to, from) = h(j)
    <3> DEFINE z == Transfer(h(j - 1), to, from)
    <3>1. /\ z \in Slot
          /\ \A a \in 0 .. Room - 1 :
               z[a] = IF a = from THEN Moved ELSE IF a = to THEN v.slot[from] ELSE h(j - 1)[a]
      <4> HIDE DEF h, to, from
      <4> QED
        BY <1>0, <2>1, <2>2, <2>4 DEF Transfer, Slot
    <3>2. ASSUME NEW a \in 0 .. Room - 1
          PROVE  z[a] = h(j)[a]
      <4>1. /\ h(j)[a] = IF a \in to .. size + n - 1 THEN v.slot[a - n]
                         ELSE IF a \in from .. size - 1 THEN Moved ELSE v.slot[a]
            /\ h(j - 1)[a] = IF a \in to + 1 .. size + n - 1 THEN v.slot[a - n]
                             ELSE IF a \in from + 1 .. size - 1 THEN Moved ELSE v.slot[a]
        <5>1. size + n - (j - 1) = to + 1 /\ size - (j - 1) = from + 1
          BY <1>0, <2>1
        <5> QED
          BY <5>1 DEF ShiftedSlots
      <4>2. to - n = from /\ from < to /\ from \in Int /\ to \in Int /\ a \in Int
        BY <1>0, <2>1
      <4>3. z[a] = IF a = from THEN Moved ELSE IF a = to THEN v.slot[from] ELSE h(j - 1)[a]
        BY <3>1
      <4>4. from < size /\ to <= size + n - 1 /\ size + n - 1 \in Int /\ size - 1 \in Int
        BY <1>0, <2>1
      <4> HIDE DEF z, h, to, from, size
      <4>5. CASE a = from
        BY <1>0, <4>1, <4>2, <4>3, <4>4, <4>5
      <4>6. CASE a = to
        BY <4>1, <4>2, <4>3, <4>4, <4>6
      <4>7. CASE a # from /\ a # to
        <5>1. (a \in to .. size + n - 1) = (a \in to + 1 .. size + n - 1)
          BY <4>2, <4>4, <4>7
        <5>2. (a \in from .. size - 1) = (a \in from + 1 .. size - 1)
          BY <4>2, <4>4, <4>7
        <5> QED
          BY <4>1, <4>3, <4>7, <5>1, <5>2
      <4> QED
        BY <4>5, <4>6, <4>7
    <3> HIDE DEF z, h
    <3> QED
      BY <2>2, <3>1, <3>2, SameSlots DEF z
  <2> HIDE DEF w, h, to, from
  <2>7. /\ j <= n => ConstructMoved(w, to, from) = With(w, h(j))
        /\ j > n => AssignMoved(w, to, from) = With(w, h(j))
    <3>1. w.slot[from] # Raw /\ (w.slot[to] = Raw <=> j <= n) /\ Transfer(w.slot, to, from) = h(j)
      BY <2>3, <2>4, <2>5, <2>6
    <3> QED
      BY <1>0, <2>1, <2>3, <3>1, TransferSlot
  <2>8. With(w, h(j)) = With(v, h(j))
    BY <2>2, <2>3
  <2> QED
    BY <2>7, <2>8 DEF w, to, from
<1> HIDE DEF h
<1> QED
  BY <1>1, <1>2, <1>3 DEF h

LEMMA MoveBackwardSlots ==
  ASSUME NEW v \in Vec, ~v.trivial, Filled(v), NEW n \in Nat \ {0}, v.size + n <= Room,
         NEW i \in 0 .. v.size
  PROVE  /\ MoveBackward(v, i, v.size, v.size + n) =
              With(v, ShiftedSlots(v.slot, v.size, n, v.size - i))
         /\ ShiftedSlots(v.slot, v.size, n, v.size - i) \in Slot
<1> DEFINE size == v.size
           dest == size + n
           raw == IF dest > size THEN Min({size - i, dest - size}) ELSE 0
           m == size - raw - i
           x(j) == With(v, ShiftedSlots(v.slot, size, n, j))
<1>0. size \in Nat /\ i \in Nat /\ i <= size /\ dest \in Nat /\ dest - n = size
  BY DEF Vec
<1>1. /\ raw \in Nat /\ raw <= size - i /\ raw <= n /\ m \in Nat
      /\ m # 0 => raw = n
  <2>1. raw = IF size - i <= n THEN size - i ELSE n
    <3>1. size - i \in Nat /\ dest - size = n /\ dest > size
      BY <1>0
    <3> QED
      BY <3>1, MinOfTwo
  <2> HIDE DEF raw
  <2> QED
    BY <1>0, <2>1
<1> HIDE DEF raw
<1>2. x(0) = v
  BY ShiftStep, Zenon
<1>3. ASSUME NEW k \in 1 .. raw
      PROVE  x(k) = ConstructMoved(x(k - 1), dest - 1 - (k - 1), size - 1 - (k - 1))
  <2>1. /\ k \in 1 .. size /\ k <= n
        /\ dest - 1 - (k - 1) = size + n - k /\ size - 1 - (k - 1) = size - k
    BY <1>0, <1>1
  <2> QED
    BY <2>1, ShiftStep
<1>4. ASSUME NEW k \in 1 .. m
      PROVE  x(raw + k) = AssignMoved(x(raw + (k - 1)), dest - raw - 1 - (k - 1), size - raw - 1 - (k - 1))
  <2> DEFINE j == raw + k
  <2>1. /\ j \in 1 .. size /\ j > n /\ raw + (k - 1) = j - 1
        /\ dest - raw - 1 - (k - 1) = size + n - j /\ size - raw - 1 - (k - 1) = size - j
    BY <1>0, <1>1
  <2> HIDE DEF j
  <2>2. x(j) = AssignMoved(x(j - 1), size + n - j, size - j)
    BY <2>1, ShiftStep
  <2> QED
    BY <2>1, <2>2 DEF j
<1> HIDE DEF x
<1> DEFINE Constructed == Loop(LAMBDA o, k : ConstructMoved(o, dest - 1 - k, size - 1 - k), v, raw)
<1>5. Constructed = x(raw)
  <2> DEFINE g == [k \in 0 .. raw |-> x(k)]
             f == CHOOSE z : z = [k \in 0 .. raw |->
                         IF k = 0 THEN v
                         ELSE ConstructMoved(z[k - 1], dest - 1 - (k - 1), size - 1 - (k - 1))]
  <2>1. g = [k \in 0 .. raw |->
               IF k = 0 THEN v
               ELSE ConstructMoved(g[k - 1], dest - 1 - (k - 1), size - 1 - (k - 1))]
    BY <1>1, <1>2, <1>3
  <2>2. f = [k \in 0 .. raw |->
               IF k = 0 THEN v
               ELSE ConstructMoved(f[k - 1], dest - 1 - (k - 1), size - 1 - (k - 1))]
    BY <2>1
  <2>3. Constructed = f[raw]
    BY DEF Loop
  <2> HIDE DEF f, g, Constructed
  <2>4. f[0] = g[0] /\ \A k \in 1 .. raw : f[k - 1] = g[k - 1] => f[k] = g[k]
    BY <1>1, <2>1, <2>2
  <2>5. f[raw] = g[raw]
    BY <1>1, <2>4, SameSteps
  <2> QED
    BY <1>1, <2>3, <2>5 DEF g
<1> HIDE DEF Constructed
<1>6. MoveBackward(v, i, size, dest) =
        Loop(LAMBDA o, k : AssignMoved(o, dest - raw - 1 - k, size - raw - 1 - k), Constructed, m)
  BY DEF MoveBackward, Constructed, raw
<1>7. MoveBackward(v, i, size, dest) = x(raw + m)
  <2> DEFINE g == [k \in 0 .. m |-> x(raw + k)]
             f == CHOOSE z : z = [k \in 0 .. m |->
                         IF k = 0 THEN Constructed
                         ELSE AssignMoved(z[k - 1], dest - raw - 1 - (k - 1), size - raw - 1 - (k - 1))]
  <2>1. g = [k \in 0 .. m |->
               IF k = 0 THEN Constructed
               ELSE AssignMoved(g[k - 1], dest - raw - 1 - (k - 1), size - raw - 1 - (k - 1))]
    <3>1. x(raw + 0) = Constructed
      BY <1>1, <1>5
    <3>2. \A k \in 0 .. m : k # 0 => k \in 1 .. m /\ k - 1 \in 0 .. m
      BY <1>1
    <3> QED
      BY <1>4, <3>1, <3>2
  <2>2. f = [k \in 0 .. m |->
               IF k = 0 THEN Constructed
               ELSE AssignMoved(f[k - 1], dest - raw - 1 - (k - 1), size - raw - 1 - (k - 1))]
    BY <2>1
  <2>3. MoveBackward(v, i, size, dest) = f[m]
    BY <1>6 DEF Loop
  <2> HIDE DEF f, g, m
  <2>4. f[0] = g[0] /\ \A k \in 1 .. m : f[k - 1] = g[k - 1] => f[k] = g[k]
    BY <1>1, <2>1, <2>2
  <2>5. f[m] = g[m]
    BY <1>1, <2>4, SameSteps
  <2> QED
    BY <1>1, <2>3, <2>5 DEF g
<1>8. raw + m = size - i /\ size - i \in 0 .. size
  <2>1. m = size - raw - i
    OBVIOUS
  <2> HIDE DEF m, size, dest
  <2> QED
    BY <1>0, <1>1, <2>1
<1> QED
  BY <1>7, <1>8, ShiftStep DEF x

\* The slots after the objects behind slot i have moved down by one, j of them so far.
PulledSlots(h, i, j) ==
  [a \in 0 .. Room - 1 |->
     IF a \in i .. i + j - 1 THEN h[a + 1] ELSE IF a = i + j /\ j > 0 THEN Moved ELSE h[a]]

LEMMA ErasedObjectSlots ==
  ASSUME NEW v \in Vec, ~v.trivial, Filled(v), v.size <= Room, NEW i \in 0 .. v.size - 1
  PROVE  /\ \E k \in Slot :
              /\ ErasedObject(v, i) = With(v, k)
              /\ \A a \in 0 .. Room - 1 :
                   k[a] = IF a < i THEN v.slot[a] ELSE IF a < v.size - 1 THEN v.slot[a + 1] ELSE Raw
<1> DEFINE size == v.size
           n == size - i - 1
           h(j) == PulledSlots(v.slot, i, j)
           x(j) == With(v, h(j))
<1>0. /\ v.slot \in Slot /\ size \in Nat /\ Moved \in Object /\ Moved # Raw /\ Room \in Nat
      /\ size <= Room /\ i \in Nat /\ i < size /\ n \in Nat
  BY SlotsAssumption, FixedAssumption DEF Vec, Object
<1>1. \A j \in 0 .. n : h(j) \in Slot
  <2>1. ASSUME NEW j \in 0 .. n, NEW a \in 0 .. Room - 1
        PROVE  h(j)[a] \in Object
    <3>1. a \in i .. i + j - 1 => a + 1 \in 0 .. Room - 1
      BY <1>0
    <3> HIDE DEF size
    <3> QED
      BY <1>0, <3>1 DEF PulledSlots, Slot
  <2> QED
    BY <2>1 DEF PulledSlots, Slot
<1>2. x(0) = v
  <2>1. h(0) \in Slot /\ \A a \in 0 .. Room - 1 : h(0)[a] = v.slot[a]
    BY <1>0, <1>1 DEF PulledSlots
  <2>2. h(0) = v.slot
    BY <1>0, <2>1, SameSlots
  <2> QED
    BY <2>2, WithOwn
<1>3. ASSUME NEW j \in 1 .. n
      PROVE  x(j) = AssignMoved(x(j - 1), i + (j - 1), i + (j - 1) + 1)
  <2> DEFINE w == With(v, h(j - 1))
             to == i + (j - 1)
             from == i + (j - 1) + 1
  <2>1. /\ j - 1 \in 0 .. n /\ j \in 0 .. n /\ j \in Nat
        /\ to \in 0 .. Room - 1 /\ from \in 0 .. Room - 1 /\ to # from /\ from < size
    BY <1>0
  <2>2. h(j) \in Slot /\ h(j - 1) \in Slot
    BY <1>1, <2>1
  <2>3. /\ w \in Vec /\ w.slot = h(j - 1) /\ ~w.trivial
        /\ \A k \in Slot : With(w, k) = With(v, k)
    BY <2>2, WithVec
  <2>4. v.slot[from] # Raw /\ v.slot[to] # Raw
    <3>1. ~(from >= size) /\ ~(to >= size)
      BY <1>0, <2>1
    <3> HIDE DEF from, to
    <3> QED
      BY <2>1, <3>1 DEF Filled
  <2>5. /\ from = to + 1 /\ to \in Nat /\ i <= to /\ i + j - 1 = to /\ i + j = from /\ j > 0
        /\ i + (j - 1) - 1 = to - 1
    BY <1>0, <2>1
  <2>6. \A a \in 0 .. Room - 1 :
          /\ h(j)[a] = IF a \in i .. to THEN v.slot[a + 1] ELSE IF a = from THEN Moved ELSE v.slot[a]
          /\ h(j - 1)[a] = IF a \in i .. to - 1 THEN v.slot[a + 1]
                           ELSE IF a = to /\ j - 1 > 0 THEN Moved ELSE v.slot[a]
    BY <2>5 DEF PulledSlots
  <2> HIDE DEF h, to, from
  <2>7. h(j - 1)[from] = v.slot[from] /\ h(j - 1)[to] # Raw
    BY <1>0, <2>1, <2>4, <2>5, <2>6
  <2>8. Transfer(h(j - 1), to, from) = h(j)
    <3> DEFINE z == Transfer(h(j - 1), to, from)
    <3>1. /\ z \in Slot
          /\ \A a \in 0 .. Room - 1 :
               z[a] = IF a = from THEN Moved ELSE IF a = to THEN v.slot[from] ELSE h(j - 1)[a]
      BY <1>0, <2>1, <2>2, <2>7 DEF Transfer, Slot
    <3> HIDE DEF z
    <3>2. ASSUME NEW a \in 0 .. Room - 1
          PROVE  z[a] = h(j)[a]
      <4>1. CASE a = from
        BY <1>0, <2>1, <2>5, <2>6, <3>1, <4>1
      <4>2. CASE a = to
        BY <1>0, <2>1, <2>5, <2>6, <3>1, <4>2
      <4>3. CASE a # from /\ a # to
        BY <1>0, <2>1, <2>5, <2>6, <3>1, <4>3
      <4> QED
        BY <4>1, <4>2, <4>3
    <3> QED
      BY <2>2, <3>1, <3>2, SameSlots DEF z
  <2>9. AssignMoved(w, to, from) = With(v, h(j))
    <3> HIDE DEF w
    <3>1. w.slot[from] # Raw /\ w.slot[to] # Raw /\ Transfer(w.slot, to, from) = h(j)
      BY <2>3, <2>4, <2>7, <2>8
    <3>2. AssignMoved(w, to, from) = With(w, h(j))
      BY <2>1, <2>3, <3>1, TransferSlot
    <3> QED
      BY <2>2, <2>3, <3>2
  <2> QED
    BY <2>9 DEF to, from
<1> DEFINE Assigned == Loop(LAMBDA o, j : AssignMoved(o, i + j, i + j + 1), v, n)
<1>4. Assigned = x(n)
  <2> HIDE DEF x
  <2> DEFINE g == [k \in 0 .. n |-> x(k)]
             f == CHOOSE z : z = [k \in 0 .. n |->
                         IF k = 0 THEN v ELSE AssignMoved(z[k - 1], i + (k - 1), i + (k - 1) + 1)]
  <2>1. g = [k \in 0 .. n |->
               IF k = 0 THEN v ELSE AssignMoved(g[k - 1], i + (k - 1), i + (k - 1) + 1)]
    BY <1>0, <1>2, <1>3
  <2>2. f = [k \in 0 .. n |->
               IF k = 0 THEN v ELSE AssignMoved(f[k - 1], i + (k - 1), i + (k - 1) + 1)]
    BY <2>1
  <2>3. Assigned = f[n]
    BY DEF Loop
  <2> HIDE DEF f, g, Assigned, n
  <2>4. f[0] = g[0] /\ \A k \in 1 .. n : f[k - 1] = g[k - 1] => f[k] = g[k]
    BY <1>0, <2>1, <2>2
  <2>5. f[n] = g[n]
    BY <1>0, <2>4, SameSteps
  <2> QED
    BY <1>0, <2>3, <2>5 DEF g
<1> HIDE DEF Assigned
<1>5. /\ h(n) \in Slot /\ x(n) \in Vec /\ x(n).slot = h(n) /\ ~x(n).trivial
      /\ \A k \in Slot : With(x(n), k) = With(v, k)
  BY <1>0, <1>1, WithVec
<1>6. /\ i + n = size - 1 /\ size - 1 \in 0 .. Room - 1 /\ i + n - 1 = size - 2
      /\ n > 0 <=> i < size - 1
  BY <1>0
<1>7. v.slot[size - 1] # Raw
  BY <1>0, <1>6 DEF Filled
<1>8. \A a \in 0 .. Room - 1 :
        h(n)[a] = IF a \in i .. size - 2 THEN v.slot[a + 1]
                  ELSE IF a = size - 1 /\ i < size - 1 THEN Moved ELSE v.slot[a]
  BY <1>6 DEF PulledSlots
<1> DEFINE k == [h(n) EXCEPT ![size - 1] = Raw]
<1>9. ErasedObject(v, i) = With(v, k) /\ k \in Slot
  <2>1. h(n)[size - 1] # Raw
    BY <1>0, <1>6, <1>7, <1>8
  <2>2. k \in Slot
    BY <1>5, <1>6 DEF Slot, Object
  <2>3. ErasedObject(v, i) = DestroyOne(x(n), size - 1)
    BY <1>4 DEF ErasedObject, Assigned
  <2> HIDE DEF x, h, n, size
  <2>4. DestroyOne(x(n), size - 1) = With(x(n), k)
    BY <1>5, <1>6, <2>1, DestroySlot
  <2> QED
    BY <1>5, <2>2, <2>3, <2>4
<1>10. ASSUME NEW a \in 0 .. Room - 1
       PROVE  k[a] = IF a < i THEN v.slot[a] ELSE IF a < size - 1 THEN v.slot[a + 1] ELSE Raw
  <2>1. k[a] = IF a = size - 1 THEN Raw ELSE h(n)[a]
    BY <1>5, <1>6 DEF Slot
  <2>2. a >= size => v.slot[a] = Raw
    BY DEF Filled
  <2> HIDE DEF k, h, n
  <2> QED
    BY <1>0, <1>6, <1>8, <2>1, <2>2
<1> QED
  BY <1>9, <1>10

\* The objects in n slots after they have been moved from; bytes stay as they are.
Taken(v, i, n) == Loop(LAMBDA o, j : MoveOut(o, i + j), v, n)

LEMMA TakenSlots ==
  ASSUME NEW v \in Vec, NEW i \in Nat, NEW n \in Nat, i + n <= Room,
         ~v.trivial => \A a \in i .. i + n - 1 : v.slot[a] # Raw
  PROVE  \E k \in Slot :
           /\ Taken(v, i, n) = With(v, k)
           /\ \A a \in 0 .. Room - 1 :
                k[a] = IF ~v.trivial /\ a \in i .. i + n - 1 THEN Moved ELSE v.slot[a]
<1> DEFINE h(j) == [a \in 0 .. Room - 1 |->
                      IF ~v.trivial /\ a \in i .. i + j - 1 THEN Moved ELSE v.slot[a]]
           x(j) == With(v, h(j))
<1>0. v.slot \in Slot /\ Moved \in Object /\ Room \in Nat
  BY FixedAssumption DEF Vec, Object
<1>1. \A j \in 0 .. n : h(j) \in Slot
  BY <1>0 DEF Slot
<1>2. x(0) = v
  <2>1. h(0) \in Slot
    BY <1>0 DEF Slot
  <2>2. \A a : a \notin i .. i + 0 - 1
    OBVIOUS
  <2>3. \A a \in 0 .. Room - 1 : h(0)[a] = v.slot[a]
    BY <2>2, Zenon
  <2> HIDE DEF h
  <2>4. h(0) = v.slot
    BY <1>0, <2>1, <2>3, SameSlots
  <2> QED
    BY <2>4, WithOwn
<1>3. ASSUME NEW j \in 1 .. n
      PROVE  x(j) = MoveOut(x(j - 1), i + (j - 1))
  <2> DEFINE w == With(v, h(j - 1))
             at == i + (j - 1)
  <2>1. j - 1 \in 0 .. n /\ j \in 0 .. n /\ at \in 0 .. Room - 1 /\ at \in i .. i + n - 1
    BY <1>0
  <2>2. h(j) \in Slot /\ h(j - 1) \in Slot
    BY <1>1, <2>1
  <2>3. /\ w \in Vec /\ w.slot = h(j - 1) /\ w.trivial = v.trivial
        /\ \A k \in Slot : With(w, k) = With(v, k)
    BY <2>2, WithVec
  <2>4. CASE v.trivial
    <3>1. \A a \in 0 .. Room - 1 : h(j)[a] = h(j - 1)[a]
      BY <2>4
    <3> HIDE DEF h
    <3>2. h(j) = h(j - 1)
      BY <2>2, <3>1, SameSlots
    <3>3. MoveOut(w, at) = w
      BY <2>3, <2>4 DEF MoveOut
    <3> QED
      BY <3>2, <3>3
  <2>5. CASE ~v.trivial
    <3>1. h(j - 1)[at] = v.slot[at] /\ v.slot[at] # Raw
      BY <1>0, <2>1, <2>5
    <3>2. h(j)[at] = Moved
      BY <1>0, <2>1, <2>5
    <3>3. \A b \in 0 .. Room - 1 : b # at => h(j)[b] = h(j - 1)[b]
      BY <1>0, <2>1, <2>5
    <3> HIDE DEF h, at
    <3>4. [h(j - 1) EXCEPT ![at] = Moved] = h(j)
      BY <2>1, <2>2, <3>2, <3>3, UpdatedSlots
    <3>5. MoveOut(w, at) = With(w, h(j))
      <4> HIDE DEF w
      <4> QED
        BY <2>1, <2>3, <2>5, <3>1, <3>4, MoveOutSlot
    <3> QED
      BY <2>2, <2>3, <3>5 DEF at
  <2> QED
    BY <2>4, <2>5
<1>4. Taken(v, i, n) = x(n)
  <2> HIDE DEF x
  <2> DEFINE g == [k \in 0 .. n |-> x(k)]
             f == CHOOSE z : z = [k \in 0 .. n |->
                         IF k = 0 THEN v ELSE MoveOut(z[k - 1], i + (k - 1))]
  <2>1. g = [k \in 0 .. n |-> IF k = 0 THEN v ELSE MoveOut(g[k - 1], i + (k - 1))]
    BY <1>2, <1>3
  <2>2. f = [k \in 0 .. n |-> IF k = 0 THEN v ELSE MoveOut(f[k - 1], i + (k - 1))]
    BY <2>1
  <2>3. Taken(v, i, n) = f[n]
    BY DEF Taken, Loop
  <2> HIDE DEF f, g
  <2>4. f[0] = g[0] /\ \A k \in 1 .. n : f[k - 1] = g[k - 1] => f[k] = g[k]
    BY <2>1, <2>2
  <2>5. f[n] = g[n]
    BY <2>4, SameSteps
  <2> QED
    BY <2>3, <2>5 DEF g
<1>5. h(n) \in Slot
  BY <1>1
<1>6. \A a \in 0 .. Room - 1 :
        h(n)[a] = IF ~v.trivial /\ a \in i .. i + n - 1 THEN Moved ELSE v.slot[a]
  OBVIOUS
<1> HIDE DEF h
<1> QED
  BY <1>4, <1>5, <1>6

\* To destroy bytes does nothing.
LEMMA DestroyBytes ==
  ASSUME NEW v \in Vec, v.trivial, NEW from, NEW n \in Nat
  PROVE  Destroy(v, from, n) = v
<1> DEFINE g == [k \in 0 .. n |-> v]
           f == CHOOSE z : z = [k \in 0 .. n |->
                       IF k = 0 THEN v ELSE DestroyOne(z[k - 1], from + (k - 1))]
<1>1. g = [k \in 0 .. n |-> IF k = 0 THEN v ELSE DestroyOne(g[k - 1], from + (k - 1))]
  BY DEF DestroyOne
<1>2. f = [k \in 0 .. n |-> IF k = 0 THEN v ELSE DestroyOne(f[k - 1], from + (k - 1))]
  BY <1>1
<1>3. Destroy(v, from, n) = f[n]
  BY DEF Destroy, Loop
<1> HIDE DEF f, g
<1>4. f[0] = g[0] /\ \A k \in 1 .. n : f[k - 1] = g[k - 1] => f[k] = g[k]
  BY <1>1, <1>2
<1>5. f[n] = g[n]
  BY <1>4, SameSteps
<1> QED
  BY <1>3, <1>5 DEF g

\* k are the slots of v with n slots copied.
CopiedSlots(v, k, to, from, n) ==
  /\ CopyBytes(v, to, from, n) = With(v, k)
  /\ \A a \in 0 .. Room - 1 :
       k[a] = IF a \in to .. to + n - 1 THEN v.slot[a - to + from] ELSE v.slot[a]

LEMMA CopyBytesSlots ==
  ASSUME NEW v \in Vec, NEW to \in Nat, NEW from \in Nat, NEW n \in Nat,
         to + n <= Room, from + n <= Room
  PROVE  \E k \in Slot : CopiedSlots(v, k, to, from, n)
<1> DEFINE k == [a \in DOMAIN v.slot |->
                   IF a \in Positions(to, n) THEN Read(v, a - to + from) ELSE v.slot[a]]
<1>0. v.slot \in Slot /\ Room \in Nat /\ DOMAIN v.slot = 0 .. Room - 1
  BY FixedAssumption DEF Vec, Slot
<1>1. ASSUME NEW a \in to .. to + n - 1
      PROVE  a - to + from \in 0 .. Room - 1
  BY <1>0
<1>2. ~\E a \in Positions(to, n) \cup Positions(from, n) : a \notin DOMAIN v.slot
  BY <1>0 DEF Positions
<1>3. \A a \in 0 .. Room - 1 :
        k[a] = IF a \in to .. to + n - 1 THEN v.slot[a - to + from] ELSE v.slot[a]
  BY <1>0, <1>1, ReadSlot DEF Positions
<1>4. k \in Slot
  <2>1. \A a \in 0 .. Room - 1 : k[a] \in Object
    <3> HIDE DEF k
    <3> QED
      BY <1>0, <1>1, <1>3 DEF Slot
  <2> QED
    BY <1>0, <2>1 DEF Slot
<1>5. CopyBytes(v, to, from, n) = With(v, k)
  <2> HIDE DEF k
  <2>1. CopyBytes(v, to, from, n) = [v EXCEPT !.slot = k, !.fault = v.fault \/ FALSE]
    BY <1>2 DEF CopyBytes, k, Vec
  <2> QED
    BY <1>4, <2>1 DEF With, Vec
<1> HIDE DEF k
<1> QED
  BY <1>3, <1>4, <1>5 DEF CopiedSlots

-----------------------------------------------------------------------------
(* A vector as the list of what it holds.                                  *)

LEMMA Joining ==
  ASSUME NEW S, NEW s \in Seq(S), NEW t \in Seq(S)
  PROVE  /\ s \o t \in Seq(S)
         /\ Len(s \o t) = Len(s) + Len(t)
         /\ \A j \in 1 .. Len(s) + Len(t) :
              (s \o t)[j] = IF j <= Len(s) THEN s[j] ELSE t[j - Len(s)]
OBVIOUS

LEMMA Inserting ==
  ASSUME NEW S, NEW s \in Seq(S), NEW i \in 1 .. Len(s) + 1, NEW x \in S
  PROVE  /\ InsertAt(s, i, x) \in Seq(S)
         /\ Len(InsertAt(s, i, x)) = Len(s) + 1
         /\ \A j \in 1 .. Len(s) + 1 :
              InsertAt(s, i, x)[j] = IF j < i THEN s[j] ELSE IF j = i THEN x ELSE s[j - 1]
<1> DEFINE l == SubSeq(s, 1, i - 1)
           r == SubSeq(s, i, Len(s))
<1>1. l \in Seq(S) /\ Len(l) = i - 1 /\ \A j \in 1 .. i - 1 : l[j] = s[j]
  OBVIOUS
<1>2. r \in Seq(S) /\ Len(r) = Len(s) - i + 1 /\ \A j \in 1 .. Len(s) - i + 1 : r[j] = s[i + j - 1]
  OBVIOUS
<1> HIDE DEF l, r
<1> DEFINE m == l \o <<x>>
<1>3. m \in Seq(S) /\ Len(m) = i /\ \A j \in 1 .. i : m[j] = IF j < i THEN s[j] ELSE x
  <2>1. m \in Seq(S) /\ Len(m) = i
    BY <1>1
  <2>2. \A j \in 1 .. i : m[j] = IF j <= i - 1 THEN l[j] ELSE <<x>>[j - (i - 1)]
    BY <1>1
  <2> HIDE DEF m
  <2>3. ASSUME NEW j \in 1 .. i
        PROVE  m[j] = IF j < i THEN s[j] ELSE x
    <3>1. CASE j < i
      BY <1>1, <2>2, <3>1
    <3>2. CASE j = i
      <4>1. j - (i - 1) = 1 /\ ~(j <= i - 1)
        BY <3>2
      <4> QED
        BY <2>2, <3>2, <4>1
    <3> QED
      BY <3>1, <3>2
  <2> QED
    BY <2>1, <2>3
<1> HIDE DEF m
<1> DEFINE k == m \o r
<1>4. k \in Seq(S) /\ Len(k) = Len(s) + 1
  <2>1. k \in Seq(S) /\ Len(k) = Len(m) + Len(r)
    <3>1. m \in Seq(S) /\ r \in Seq(S)
      BY <1>2, <1>3
    <3> QED
      BY <3>1, Joining
  <2> HIDE DEF k
  <2> QED
    BY <1>2, <1>3, <2>1
<1>5. \A j \in 1 .. Len(s) + 1 : k[j] = IF j <= i THEN m[j] ELSE r[j - i]
  BY <1>2, <1>3
<1> HIDE DEF k
<1>6. \A j \in 1 .. Len(s) + 1 : j > i => j - i \in 1 .. Len(s) - i + 1 /\ i + (j - i) - 1 = j - 1
  OBVIOUS
<1>7. InsertAt(s, i, x) = k
  BY DEF InsertAt, l, r, m, k
<1>8. ASSUME NEW j \in 1 .. Len(s) + 1
      PROVE  k[j] = IF j < i THEN s[j] ELSE IF j = i THEN x ELSE s[j - 1]
  <2> DEFINE q == j - i
  <2>0. i \in Int /\ j \in Int /\ Len(s) \in Int
    OBVIOUS
  <2>1. CASE j <= i
    BY <1>3, <1>5, <2>0, <2>1
  <2>2. CASE j > i
    <3>1. q \in 1 .. Len(s) - i + 1 /\ i + q - 1 = j - 1
      BY <1>6, <2>2
    <3>2. k[j] = r[q]
      BY <1>5, <2>0, <2>2
    <3> HIDE DEF q
    <3>3. r[q] = s[j - 1]
      BY <1>2, <3>1
    <3> QED
      BY <2>0, <2>2, <3>2, <3>3
  <2> QED
    BY <2>0, <2>1, <2>2
<1> QED
  BY <1>4, <1>7, <1>8

LEMMA Removing ==
  ASSUME NEW S, NEW s \in Seq(S), NEW i \in 1 .. Len(s)
  PROVE  /\ RemoveAt(s, i) \in Seq(S)
         /\ Len(RemoveAt(s, i)) = Len(s) - 1
         /\ \A j \in 1 .. Len(s) - 1 : RemoveAt(s, i)[j] = IF j < i THEN s[j] ELSE s[j + 1]
<1> DEFINE l == SubSeq(s, 1, i - 1)
           r == SubSeq(s, i + 1, Len(s))
<1>1. l \in Seq(S) /\ Len(l) = i - 1 /\ \A j \in 1 .. i - 1 : l[j] = s[j]
  OBVIOUS
<1>2. r \in Seq(S) /\ Len(r) = Len(s) - i /\ \A j \in 1 .. Len(s) - i : r[j] = s[i + j]
  OBVIOUS
<1> HIDE DEF l, r
<1> DEFINE k == l \o r
<1>3. k \in Seq(S) /\ Len(k) = Len(s) - 1
  <2>0. l \in Seq(S) /\ r \in Seq(S)
    BY <1>1, <1>2
  <2>1. k \in Seq(S) /\ Len(k) = Len(l) + Len(r)
    BY <2>0
  <2>2. i \in Int /\ Len(s) \in Int
    OBVIOUS
  <2> HIDE DEF k
  <2> QED
    BY <1>1, <1>2, <2>1, <2>2
<1>4. \A j \in 1 .. Len(s) - 1 : k[j] = IF j < i THEN l[j] ELSE r[j - (i - 1)]
  BY <1>1, <1>2
<1> HIDE DEF k
<1>5. \A j \in 1 .. Len(s) - 1 :
        j >= i => j - (i - 1) \in 1 .. Len(s) - i /\ i + (j - (i - 1)) = j + 1
  OBVIOUS
<1>6. RemoveAt(s, i) = k
  BY DEF RemoveAt, l, r, k
<1>7. ASSUME NEW j \in 1 .. Len(s) - 1
      PROVE  k[j] = IF j < i THEN s[j] ELSE s[j + 1]
  <2> DEFINE q == j - (i - 1)
  <2>0. i \in Int /\ j \in Int /\ Len(s) \in Int
    OBVIOUS
  <2>1. CASE j < i
    BY <1>1, <1>4, <2>0, <2>1
  <2>2. CASE j >= i
    <3>1. q \in 1 .. Len(s) - i /\ i + q = j + 1
      BY <1>5, <2>2
    <3>2. k[j] = r[q]
      BY <1>4, <2>0, <2>2
    <3> HIDE DEF q
    <3>3. r[q] = s[j + 1]
      BY <1>2, <3>1
    <3> QED
      BY <2>0, <2>2, <3>2, <3>3
  <2> QED
    BY <2>0, <2>1, <2>2
<1> QED
  BY <1>3, <1>6, <1>7

LEMMA Heading ==
  ASSUME NEW S, NEW s \in Seq(S), NEW i \in 0 .. Len(s)
  PROVE  /\ SubSeq(s, 1, i) \in Seq(S)
         /\ Len(SubSeq(s, 1, i)) = i
         /\ \A j \in 1 .. i : SubSeq(s, 1, i)[j] = s[j]
OBVIOUS

LEMMA Trailing ==
  ASSUME NEW S, NEW s \in Seq(S), NEW i \in 0 .. Len(s)
  PROVE  /\ From(s, i) \in Seq(S)
         /\ Len(From(s, i)) = Len(s) - i
         /\ \A j \in 1 .. Len(s) - i : From(s, i)[j] = s[i + j]
BY DEF From

Item == Object \ {Raw}

\* v keeps the list s: in its first slots, and no object behind them.
Holds(v, s) ==
  /\ v \in Vec /\ ~v.fault
  /\ s \in Seq(Item) /\ v.size = Len(s) /\ Len(s) <= Room
  /\ \A a \in 0 .. Len(s) - 1 : v.slot[a] = s[a + 1]
  /\ ~v.trivial => \A a \in Len(s) .. Room - 1 : v.slot[a] = Raw

LEMMA HoldsFilled ==
  ASSUME NEW v, NEW s, Holds(v, s), ~v.trivial
  PROVE  Filled(v)
<1> SUFFICES ASSUME NEW a \in 0 .. Room - 1
             PROVE  v.slot[a] = Raw <=> a >= Len(s)
  BY DEF Filled, Holds
<1>0. Room \in Nat /\ Len(s) \in Nat
  BY FixedAssumption DEF Holds
<1>1. CASE a >= Len(s)
  BY <1>0, <1>1 DEF Holds
<1>2. CASE ~(a >= Len(s))
  <2>1. a \in 0 .. Len(s) - 1 /\ a + 1 \in 1 .. Len(s)
    BY <1>0, <1>2
  <2>2. s[a + 1] \in Item
    BY <2>1 DEF Holds
  <2> QED
    BY <1>2, <2>1, <2>2 DEF Holds, Item
<1> QED
  BY <1>1, <1>2

\* The slots k hold the list s.
Fits(k, s, trivial) ==
  /\ \A a \in 0 .. Len(s) - 1 : k[a] = s[a + 1]
  /\ ~trivial => \A a \in Len(s) .. Room - 1 : k[a] = Raw

LEMMA HoldsIntro ==
  ASSUME NEW v \in Vec, ~v.fault, NEW k \in Slot, NEW m, NEW s \in Seq(Item),
         m = Len(s), Len(s) <= Room, Fits(k, s, v.trivial)
  PROVE  /\ Holds([With(v, k) EXCEPT !.size = m], s)
         /\ [With(v, k) EXCEPT !.size = m].trivial = v.trivial
<1> DEFINE w == [With(v, k) EXCEPT !.size = m]
<1>1. w \in Vec /\ w.slot = k /\ w.size = m /\ w.trivial = v.trivial /\ w.fault = v.fault
  <2>1. m \in Nat
    OBVIOUS
  <2>2. With(v, k) \in Vec /\ With(v, k).slot = k
    BY WithVec
  <2>3. With(v, k).trivial = v.trivial /\ With(v, k).fault = v.fault
    BY WithVec
  <2> QED
    BY <2>1, <2>2, <2>3 DEF Vec
<1> HIDE DEF w
<1>2. Holds(w, s)
  BY <1>1 DEF Holds, Fits
<1> QED
  BY <1>1, <1>2 DEF w

LEMMA EmplacedHolds ==
  ASSUME NEW v, NEW s, Holds(v, s), NEW i \in 0 .. Len(s), Len(s) < Room, NEW x \in Item
  PROVE  /\ Holds(Emplaced(v, i, x), InsertAt(s, i + 1, x))
         /\ Emplaced(v, i, x).trivial = v.trivial
<1> DEFINE h == v.slot
           n == Len(s)
           w == IF v.trivial THEN EmplacedBytes(v, i, x) ELSE EmplacedObject(v, i, x)
           t == InsertAt(s, i + 1, x)
<1>0. /\ v \in Vec /\ h \in Slot /\ n \in Nat /\ Room \in Nat /\ v.size = n /\ s \in Seq(Item)
      /\ x \in Object /\ i \in Nat /\ i <= n /\ n < Room
  BY FixedAssumption DEF Holds, Vec, Item
<1>1. /\ t \in Seq(Item) /\ Len(t) = n + 1
      /\ \A a \in 0 .. n : t[a + 1] = IF a < i THEN s[a + 1] ELSE IF a = i THEN x ELSE s[a]
  <2>1. i + 1 \in 1 .. Len(s) + 1
    OBVIOUS
  <2>2. /\ t \in Seq(Item) /\ Len(t) = n + 1
        /\ \A j \in 1 .. n + 1 : t[j] = IF j < i + 1 THEN s[j] ELSE IF j = i + 1 THEN x ELSE s[j - 1]
    <3> DEFINE p == i + 1
    <3>1. p \in 1 .. Len(s) + 1 /\ s \in Seq(Item) /\ x \in Item
      BY <1>0
    <3> HIDE DEF p
    <3>2. /\ InsertAt(s, p, x) \in Seq(Item)
          /\ Len(InsertAt(s, p, x)) = Len(s) + 1
          /\ \A j \in 1 .. Len(s) + 1 :
               InsertAt(s, p, x)[j] = IF j < p THEN s[j] ELSE IF j = p THEN x ELSE s[j - 1]
      BY <3>1, Inserting
    <3> QED
      BY <3>2 DEF p
  <2> HIDE DEF t, n
  <2>3. \A a \in 0 .. n : /\ a + 1 \in 1 .. n + 1 /\ (a + 1) - 1 = a
                          /\ a + 1 < i + 1 <=> a < i
                          /\ a + 1 = i + 1 <=> a = i
    BY <1>0
  <2> QED
    BY <2>2, <2>3
<1>2. \E k \in Slot :
        /\ w = With(v, k)
        /\ \A a \in 0 .. n : k[a] = IF a < i THEN h[a] ELSE IF a = i THEN x ELSE h[a - 1]
        /\ ~v.trivial => \A a \in n + 1 .. Room - 1 : k[a] = Raw
  <2>1. ASSUME NEW u \in Slot, \A a \in 0 .. n : a # i => u[a] = IF a < i THEN h[a] ELSE h[a - 1],
               ~v.trivial => \A a \in n + 1 .. Room - 1 : u[a] = Raw,
               w = With(v, [u EXCEPT ![i] = x])
        PROVE  \E k \in Slot :
                 /\ w = With(v, k)
                 /\ \A a \in 0 .. n : k[a] = IF a < i THEN h[a] ELSE IF a = i THEN x ELSE h[a - 1]
                 /\ ~v.trivial => \A a \in n + 1 .. Room - 1 : k[a] = Raw
    <3> DEFINE k == [u EXCEPT ![i] = x]
    <3> HIDE DEF h, n, w
    <3>1. /\ k \in Slot
          /\ \A a \in 0 .. Room - 1 : k[a] = IF a = i THEN x ELSE u[a]
      BY <1>0, <2>1 DEF Slot
    <3>2. w = With(v, k)
      BY <2>1
    <3> HIDE DEF k
    <3>3. \A a \in 0 .. n : k[a] = IF a < i THEN h[a] ELSE IF a = i THEN x ELSE h[a - 1]
      BY <1>0, <2>1, <3>1
    <3>4. ~v.trivial => \A a \in n + 1 .. Room - 1 : k[a] = Raw
      BY <1>0, <2>1, <3>1
    <3> QED
      BY <3>1, <3>2, <3>3, <3>4
  <2>2. CASE v.trivial /\ i < n
    <3>1. PICK u \in Slot :
            /\ CopyBytes(v, i + 1, i, n - i) = With(v, u)
            /\ \A a \in 0 .. Room - 1 :
                 u[a] = IF a \in i + 1 .. i + 1 + (n - i) - 1 THEN h[a - (i + 1) + i] ELSE h[a]
      <4> DEFINE to == i + 1
                 c == n - i
      <4>1. to \in Nat /\ c \in Nat /\ to + c <= Room /\ i + c <= Room
        BY <1>0
      <4> HIDE DEF n, to, c
      <4>2. \E k \in Slot : CopiedSlots(v, k, to, i, c)
        BY <1>0, <4>1, CopyBytesSlots
      <4> QED
        BY <4>2 DEF CopiedSlots, to, c
    <3>2. \A a \in 0 .. n : a # i => u[a] = IF a < i THEN h[a] ELSE h[a - 1]
      <4>1. i + 1 + (n - i) - 1 = n
        BY <1>0
      <4>2. \A a \in 0 .. n : a - (i + 1) + i = a - 1
        BY <1>0
      <4> HIDE DEF n, h
      <4> QED
        BY <1>0, <3>1, <4>1, <4>2
    <3>3. w = With(v, [u EXCEPT ![i] = x])
      <4>1. /\ With(v, u) \in Vec /\ With(v, u).slot = u
            /\ \A k \in Slot : With(With(v, u), k) = With(v, k)
        BY <1>0, WithVec
      <4>2. w = Put(With(v, u), i, x)
        BY <1>0, <2>2, <3>1 DEF EmplacedBytes
      <4>3. [u EXCEPT ![i] = x] \in Slot /\ i \in 0 .. Room - 1
        BY <1>0, <3>1 DEF Slot
      <4> HIDE DEF w
      <4> QED
        BY <1>0, <4>1, <4>2, <4>3, PutSlot
    <3> QED
      BY <2>1, <2>2, <3>2, <3>3
  <2>3. CASE v.trivial /\ ~(i < n)
    <3>1. \A a \in 0 .. n : a # i => h[a] = IF a < i THEN h[a] ELSE h[a - 1]
      BY <1>0, <2>3
    <3>2. w = With(v, [h EXCEPT ![i] = x])
      <4>1. w = Put(v, i, x) /\ i \in 0 .. Room - 1
        BY <1>0, <2>3 DEF EmplacedBytes
      <4> HIDE DEF w
      <4> QED
        BY <1>0, <4>1, PutSlot
    <3> QED
      BY <1>0, <2>1, <2>3, <3>1, <3>2
  <2>4. CASE ~v.trivial /\ i < n
    <3> DEFINE u == ShiftedSlots(h, n, 1, n - i)
    <3>1. MoveBackward(v, i, n, n + 1) = With(v, u) /\ u \in Slot
      BY <1>0, <2>4, HoldsFilled, MoveBackwardSlots
    <3>2. \A a \in 0 .. Room - 1 :
            u[a] = IF a \in i + 1 .. n THEN h[a - 1] ELSE IF a \in i .. n - 1 THEN Moved ELSE h[a]
      <4>1. n + 1 - (n - i) = i + 1 /\ n + 1 - 1 = n /\ n - (n - i) = i
        BY <1>0
      <4> QED
        BY <4>1 DEF ShiftedSlots
    <3>3. \A a \in n .. Room - 1 : h[a] = Raw
      BY <1>0, <2>4 DEF Holds
    <3> HIDE DEF u
    <3>4. u[i] # Raw
      <4> HIDE DEF n, h
      <4> QED
        BY <1>0, <2>4, <3>2, SlotsAssumption
    <3>5. \A a \in 0 .. n : a # i => u[a] = IF a < i THEN h[a] ELSE h[a - 1]
      <4> HIDE DEF n, h
      <4> QED
        BY <1>0, <2>4, <3>2
    <3>6. \A a \in n + 1 .. Room - 1 : u[a] = Raw
      <4> HIDE DEF n, h
      <4> QED
        BY <1>0, <2>4, <3>2, <3>3
    <3>7. w = With(v, [u EXCEPT ![i] = x])
      <4>1. /\ With(v, u) \in Vec /\ With(v, u).slot = u
            /\ \A k \in Slot : With(With(v, u), k) = With(v, k)
        BY <1>0, <3>1, WithVec
      <4>2. w = AssignTo(With(v, u), i, x)
        BY <1>0, <2>4, <3>1 DEF EmplacedObject
      <4>3. [u EXCEPT ![i] = x] \in Slot
        BY <1>0, <3>1 DEF Slot
      <4> HIDE DEF w
      <4> QED
        BY <1>0, <3>4, <4>1, <4>2, <4>3, AssignSlot
    <3> QED
      BY <2>1, <3>1, <3>5, <3>6, <3>7
  <2>5. CASE ~v.trivial /\ ~(i < n)
    <3>1. \A a \in 0 .. n : a # i => h[a] = IF a < i THEN h[a] ELSE h[a - 1]
      BY <1>0, <2>5
    <3>2. \A a \in n .. Room - 1 : h[a] = Raw
      BY <1>0, <2>5 DEF Holds
    <3>3. i = n
      BY <1>0, <2>5
    <3>4. w = With(v, [h EXCEPT ![i] = x])
      <4>1. h[i] = Raw /\ i \in 0 .. Room - 1
        BY <1>0, <3>2, <3>3
      <4>2. w = Construct(v, i, x)
        BY <1>0, <2>5 DEF EmplacedObject
      <4> HIDE DEF w
      <4> QED
        BY <1>0, <4>1, <4>2, ConstructSlot
    <3>5. \A a \in n + 1 .. Room - 1 : h[a] = Raw
      BY <1>0, <3>2
    <3> QED
      BY <1>0, <2>1, <3>1, <3>4, <3>5
  <2> QED
    BY <2>2, <2>3, <2>4, <2>5
<1>3. PICK k \in Slot :
        /\ w = With(v, k)
        /\ \A a \in 0 .. n : k[a] = IF a < i THEN h[a] ELSE IF a = i THEN x ELSE h[a - 1]
        /\ ~v.trivial => \A a \in n + 1 .. Room - 1 : k[a] = Raw
  BY <1>2
<1>4. \A a \in 0 .. n - 1 : h[a] = s[a + 1]
  BY DEF Holds
<1>5. Emplaced(v, i, x) = [With(v, k) EXCEPT !.size = n + 1]
  <2>1. With(v, k).size = n
    BY <1>0, WithVec
  <2>2. Emplaced(v, i, x) = [w EXCEPT !.size = @ + 1]
    BY DEF Emplaced
  <2> HIDE DEF w
  <2> QED
    BY <1>3, <2>1, <2>2
<1> HIDE DEF w, t, h, n
<1>6. \A a \in 0 .. Len(t) - 1 : k[a] = t[a + 1]
  <2>1. ASSUME NEW a \in 0 .. n
        PROVE  k[a] = t[a + 1]
    <3>1. CASE a < i
      BY <1>0, <1>1, <1>3, <1>4, <3>1
    <3>2. CASE a = i
      BY <1>0, <1>1, <1>3, <3>2
    <3>3. CASE a > i
      <4>1. a - 1 \in 0 .. n - 1 /\ (a - 1) + 1 = a
        BY <1>0, <3>3
      <4> QED
        BY <1>0, <1>1, <1>3, <1>4, <3>3, <4>1
    <3> QED
      BY <1>0, <3>1, <3>2, <3>3
  <2>2. Len(t) - 1 = n
    BY <1>0, <1>1
  <2> QED
    BY <2>1, <2>2
<1>7. /\ Holds([With(v, k) EXCEPT !.size = n + 1], t)
      /\ [With(v, k) EXCEPT !.size = n + 1].trivial = v.trivial
  <2>1. ~v.fault
    BY DEF Holds
  <2>2. n + 1 <= Room /\ n + 1 = Len(t) /\ Len(t) <= Room
    BY <1>0, <1>1
  <2>3. ~v.trivial => \A a \in Len(t) .. Room - 1 : k[a] = Raw
    BY <1>3, <2>2
  <2> QED
    <3>1. Fits(k, t, v.trivial)
      BY <1>6, <2>3 DEF Fits
    <3> QED
      BY <1>0, <1>1, <2>1, <2>2, <3>1, HoldsIntro
<1> QED
  BY <1>5, <1>7 DEF t

LEMMA ErasedHolds ==
  ASSUME NEW v, NEW s, Holds(v, s), NEW i \in 0 .. Len(s) - 1
  PROVE  /\ Holds(Erased(v, i), RemoveAt(s, i + 1))
         /\ Erased(v, i).trivial = v.trivial
<1> DEFINE h == v.slot
           n == Len(s)
           w == IF v.trivial THEN ErasedBytes(v, i) ELSE ErasedObject(v, i)
           t == RemoveAt(s, i + 1)
<1>0. /\ v \in Vec /\ h \in Slot /\ n \in Nat /\ Room \in Nat /\ v.size = n /\ s \in Seq(Item)
      /\ i \in Nat /\ i < n /\ n <= Room
  BY FixedAssumption DEF Holds, Vec
<1>1. /\ t \in Seq(Item) /\ Len(t) = n - 1
      /\ \A a \in 0 .. n - 2 : t[a + 1] = IF a < i THEN s[a + 1] ELSE s[a + 2]
  <2>1. /\ t \in Seq(Item) /\ Len(t) = n - 1
        /\ \A j \in 1 .. n - 1 : t[j] = IF j < i + 1 THEN s[j] ELSE s[j + 1]
    <3> DEFINE p == i + 1
    <3>1. p \in 1 .. Len(s) /\ s \in Seq(Item)
      BY <1>0
    <3> HIDE DEF p
    <3>2. /\ RemoveAt(s, p) \in Seq(Item)
          /\ Len(RemoveAt(s, p)) = Len(s) - 1
          /\ \A j \in 1 .. Len(s) - 1 : RemoveAt(s, p)[j] = IF j < p THEN s[j] ELSE s[j + 1]
      BY <3>1, Removing
    <3> QED
      BY <3>2 DEF p
  <2> HIDE DEF t, n
  <2>2. \A a \in 0 .. n - 2 : /\ a + 1 \in 1 .. n - 1 /\ (a + 1) + 1 = a + 2
                              /\ a + 1 < i + 1 <=> a < i
    BY <1>0
  <2> QED
    BY <2>1, <2>2
<1>2. \E k \in Slot :
        /\ w = With(v, k)
        /\ \A a \in 0 .. n - 2 : k[a] = IF a < i THEN h[a] ELSE h[a + 1]
        /\ ~v.trivial => \A a \in n - 1 .. Room - 1 : k[a] = Raw
  <2>1. CASE v.trivial
    <3>1. PICK k \in Slot :
            /\ CopyBytes(v, i, i + 1, n - i - 1) = With(v, k)
            /\ \A a \in 0 .. Room - 1 :
                 k[a] = IF a \in i .. i + (n - i - 1) - 1 THEN h[a - i + (i + 1)] ELSE h[a]
      <4> DEFINE from == i + 1
                 c == n - i - 1
      <4>1. from \in Nat /\ c \in Nat /\ i + c <= Room /\ from + c <= Room
        BY <1>0
      <4> HIDE DEF n, from, c
      <4>2. \E k \in Slot : CopiedSlots(v, k, i, from, c)
        BY <1>0, <4>1, CopyBytesSlots
      <4> QED
        BY <4>2 DEF CopiedSlots, from, c
    <3>2. w = With(v, k)
      BY <1>0, <2>1, <3>1 DEF ErasedBytes
    <3>3. \A a \in 0 .. n - 2 : k[a] = IF a < i THEN h[a] ELSE h[a + 1]
      <4>1. i + (n - i - 1) - 1 = n - 2
        BY <1>0
      <4>2. \A a \in 0 .. n - 2 : a - i + (i + 1) = a + 1
        BY <1>0
      <4> HIDE DEF n, h
      <4> QED
        BY <1>0, <3>1, <4>1, <4>2
    <3> QED
      BY <2>1, <3>2, <3>3
  <2>2. CASE ~v.trivial
    <3>1. PICK k \in Slot :
            /\ ErasedObject(v, i) = With(v, k)
            /\ \A a \in 0 .. Room - 1 :
                 k[a] = IF a < i THEN h[a] ELSE IF a < n - 1 THEN h[a + 1] ELSE Raw
      BY <1>0, <2>2, HoldsFilled, ErasedObjectSlots
    <3>2. w = With(v, k)
      BY <2>2, <3>1
    <3> HIDE DEF n, h, w
    <3>3. \A a \in 0 .. n - 2 : k[a] = IF a < i THEN h[a] ELSE h[a + 1]
      BY <1>0, <3>1
    <3>4. \A a \in n - 1 .. Room - 1 : k[a] = Raw
      BY <1>0, <3>1
    <3> QED
      BY <3>2, <3>3, <3>4
  <2> QED
    BY <2>1, <2>2
<1>3. PICK k \in Slot :
        /\ w = With(v, k)
        /\ \A a \in 0 .. n - 2 : k[a] = IF a < i THEN h[a] ELSE h[a + 1]
        /\ ~v.trivial => \A a \in n - 1 .. Room - 1 : k[a] = Raw
  BY <1>2
<1>4. \A a \in 0 .. n - 1 : h[a] = s[a + 1]
  BY DEF Holds
<1>5. Erased(v, i) = [With(v, k) EXCEPT !.size = n - 1]
  <2>1. With(v, k).size = n
    BY <1>0, WithVec
  <2>2. Erased(v, i) = [w EXCEPT !.size = @ - 1]
    BY DEF Erased
  <2> HIDE DEF w
  <2> QED
    BY <1>3, <2>1, <2>2
<1> HIDE DEF w, t, h, n
<1>6. \A a \in 0 .. Len(t) - 1 : k[a] = t[a + 1]
  <2>1. ASSUME NEW a \in 0 .. n - 2
        PROVE  k[a] = t[a + 1]
    <3>1. CASE a < i
      BY <1>0, <1>1, <1>3, <1>4, <3>1
    <3>2. CASE a >= i
      <4>1. a + 1 \in 0 .. n - 1 /\ (a + 1) + 1 = a + 2
        BY <1>0, <3>2
      <4> QED
        BY <1>0, <1>1, <1>3, <1>4, <3>2, <4>1
    <3> QED
      BY <1>0, <3>1, <3>2
  <2>2. Len(t) - 1 = n - 2
    BY <1>0, <1>1
  <2> QED
    BY <2>1, <2>2
<1>7. /\ Holds([With(v, k) EXCEPT !.size = n - 1], t)
      /\ [With(v, k) EXCEPT !.size = n - 1].trivial = v.trivial
  <2>1. ~v.fault
    BY DEF Holds
  <2>2. n - 1 = Len(t) /\ Len(t) <= Room
    BY <1>0, <1>1
  <2>3. ~v.trivial => \A a \in Len(t) .. Room - 1 : k[a] = Raw
    BY <1>3, <2>2
  <2> QED
    <3>1. Fits(k, t, v.trivial)
      BY <1>6, <2>3 DEF Fits
    <3> QED
      BY <1>0, <1>1, <2>1, <2>2, <3>1, HoldsIntro
<1> QED
  BY <1>5, <1>7 DEF t

LEMMA ErasedTailHolds ==
  ASSUME NEW v, NEW s, Holds(v, s), NEW i \in 0 .. Len(s)
  PROVE  /\ Holds(ErasedTail(v, i), SubSeq(s, 1, i))
         /\ ErasedTail(v, i).trivial = v.trivial
<1> DEFINE h == v.slot
           n == Len(s)
           t == SubSeq(s, 1, i)
<1>0. /\ v \in Vec /\ h \in Slot /\ n \in Nat /\ Room \in Nat /\ v.size = n /\ s \in Seq(Item)
      /\ i \in Nat /\ i <= n /\ n <= Room
  BY FixedAssumption DEF Holds, Vec
<1>1. t \in Seq(Item) /\ Len(t) = i /\ \A j \in 1 .. i : t[j] = s[j]
  BY <1>0, Heading
<1>2. \A a \in 0 .. n - 1 : h[a] = s[a + 1]
  BY DEF Holds
<1>3. \E k \in Slot :
        /\ Destroy(v, i, n - i) = With(v, k)
        /\ \A a \in 0 .. i - 1 : k[a] = h[a]
        /\ ~v.trivial => \A a \in i .. Room - 1 : k[a] = Raw
  <2>1. CASE v.trivial
    <3>1. Destroy(v, i, n - i) = v
      <4>1. n - i \in Nat
        BY <1>0
      <4> QED
        BY <1>0, <2>1, <4>1, DestroyBytes
    <3>2. v = With(v, h)
      BY <1>0, WithOwn
    <3> QED
      BY <1>0, <2>1, <3>1, <3>2
  <2>2. CASE ~v.trivial
    <3> DEFINE k == DestroyedSlots(h, i, n - i)
    <3>1. n - i \in Nat /\ i + (n - i) <= Room /\ i + (n - i) = n
      BY <1>0
    <3>2. \A a \in i .. i + (n - i) - 1 : h[a] # Raw
      BY <1>0, <2>2, <3>1, HoldsFilled DEF Filled
    <3>3. \A a \in n .. Room - 1 : h[a] = Raw
      BY <2>2 DEF Holds
    <3>4. k \in Slot /\ Destroy(v, i, n - i) = With(v, k)
      BY <1>0, <2>2, <3>1, <3>2, DestroyLoop
    <3>5. \A a \in 0 .. Room - 1 : k[a] = IF a \in i .. n - 1 THEN Raw ELSE h[a]
      BY <3>1 DEF DestroyedSlots
    <3> HIDE DEF k, h, n
    <3>6. \A a \in 0 .. i - 1 : k[a] = h[a]
      BY <1>0, <3>5
    <3>7. \A a \in i .. Room - 1 : k[a] = Raw
      BY <1>0, <3>3, <3>5
    <3> QED
      BY <3>4, <3>6, <3>7
  <2> QED
    BY <2>1, <2>2
<1>4. PICK k \in Slot :
        /\ Destroy(v, i, n - i) = With(v, k)
        /\ \A a \in 0 .. i - 1 : k[a] = h[a]
        /\ ~v.trivial => \A a \in i .. Room - 1 : k[a] = Raw
  BY <1>3
<1>5. ErasedTail(v, i) = [With(v, k) EXCEPT !.size = i]
  BY <1>0, <1>4 DEF ErasedTail
<1> HIDE DEF t, h, n
<1>6. \A a \in 0 .. Len(t) - 1 : k[a] = t[a + 1]
  BY <1>0, <1>1, <1>2, <1>4
<1>7. /\ Holds([With(v, k) EXCEPT !.size = i], t)
      /\ [With(v, k) EXCEPT !.size = i].trivial = v.trivial
  <2>1. ~v.fault
    BY DEF Holds
  <2>2. i = Len(t) /\ Len(t) <= Room
    BY <1>0, <1>1
  <2>3. ~v.trivial => \A a \in Len(t) .. Room - 1 : k[a] = Raw
    BY <1>4, <2>2
  <2> QED
    <3>1. Fits(k, t, v.trivial)
      BY <1>6, <2>3 DEF Fits
    <3> QED
      BY <1>0, <1>1, <2>1, <2>2, <3>1, HoldsIntro
<1> QED
  BY <1>5, <1>7 DEF t

\* The list that is left of s when n elements from position i have been moved from.
TakenList(v, s, i, n) ==
  [j \in 1 .. Len(s) |-> IF ~v.trivial /\ j \in i + 1 .. i + n THEN Moved ELSE s[j]]

LEMMA TakenHolds ==
  ASSUME NEW v, NEW s, Holds(v, s), NEW i \in Nat, NEW n \in Nat, i + n <= Len(s)
  PROVE  /\ Holds(Taken(v, i, n), TakenList(v, s, i, n))
         /\ Taken(v, i, n).trivial = v.trivial
         /\ Taken(v, i, n).size = v.size
         /\ Len(TakenList(v, s, i, n)) = Len(s)
<1> DEFINE h == v.slot
           len == Len(s)
           t == TakenList(v, s, i, n)
<1>0. /\ v \in Vec /\ h \in Slot /\ len \in Nat /\ Room \in Nat /\ v.size = len /\ s \in Seq(Item)
      /\ len <= Room
  BY FixedAssumption DEF Holds, Vec
<1>1. /\ t \in Seq(Item) /\ Len(t) = len
      /\ \A j \in 1 .. len : t[j] = IF ~v.trivial /\ j \in i + 1 .. i + n THEN Moved ELSE s[j]
  <2>1. Moved \in Item
    BY SlotsAssumption DEF Item, Object
  <2> QED
    BY <1>0, <2>1 DEF TakenList
<1>2. PICK k \in Slot :
        /\ Taken(v, i, n) = With(v, k)
        /\ \A a \in 0 .. Room - 1 :
             k[a] = IF ~v.trivial /\ a \in i .. i + n - 1 THEN Moved ELSE h[a]
  <2>1. i + n <= Room
    BY <1>0
  <2>2. ~v.trivial => \A a \in i .. i + n - 1 : h[a] # Raw
    BY <1>0, HoldsFilled DEF Filled
  <2> QED
    BY <1>0, <2>1, <2>2, TakenSlots
<1>3. \A a \in 0 .. len - 1 : h[a] = s[a + 1]
  BY DEF Holds
<1>4. ~v.trivial => \A a \in len .. Room - 1 : h[a] = Raw
  BY DEF Holds
<1>5. With(v, k) = [With(v, k) EXCEPT !.size = len]
  <2>1. With(v, k) \in Vec /\ With(v, k).size = len
    BY <1>0, WithVec
  <2> QED
    BY <2>1 DEF Vec
<1> HIDE DEF t, h, len
<1>6. \A a \in 0 .. Len(t) - 1 : k[a] = t[a + 1]
  <2>1. ASSUME NEW a \in 0 .. len - 1
        PROVE  k[a] = t[a + 1]
    <3>1. a + 1 \in 1 .. len /\ (a \in i .. i + n - 1 <=> a + 1 \in i + 1 .. i + n)
      BY <1>0
    <3>2. a \in 0 .. Room - 1
      BY <1>0
    <3> QED
      BY <1>1, <1>2, <1>3, <3>1, <3>2
  <2> QED
    BY <1>1, <2>1
<1>7. ~v.trivial => \A a \in Len(t) .. Room - 1 : k[a] = Raw
  <2>1. ASSUME ~v.trivial, NEW a \in len .. Room - 1
        PROVE  k[a] = Raw
    <3>1. a \in 0 .. Room - 1 /\ a \notin i .. i + n - 1
      BY <1>0 DEF len
    <3> QED
      BY <1>2, <1>4, <2>1, <3>1
  <2> QED
    BY <1>1, <2>1
<1>8. Holds(With(v, k), t)
  <2>1. ~v.fault
    BY DEF Holds
  <2>2. Len(t) <= Room
    BY <1>0, <1>1
  <2> QED
    <3>1. Fits(k, t, v.trivial)
      BY <1>6, <1>7 DEF Fits
    <3>2. Holds([With(v, k) EXCEPT !.size = len], t)
      BY <1>0, <1>1, <1>2, <2>1, <2>2, <3>1, HoldsIntro
    <3> QED
      BY <1>5, <3>2
<1>9. With(v, k).trivial = v.trivial /\ With(v, k).size = v.size
  BY <1>0, WithVec
<1> QED
  BY <1>1, <1>2, <1>8, <1>9 DEF t, len

\* What insert is asked for: in front of all elements, or behind them.
LEMMA InsertedHolds ==
  ASSUME NEW v, NEW s, Holds(v, s), NEW u \in Seq(Item), Len(u) > 0, Len(s) + Len(u) <= Room,
         NEW i \in {0, Len(s)}
  PROVE  /\ Holds(Inserted(v, i, u), IF i = 0 THEN u \o s ELSE s \o u)
         /\ Inserted(v, i, u).trivial = v.trivial
<1> DEFINE h == v.slot
           n == Len(s)
           m == Len(u)
           w == IF v.trivial THEN InsertedBytes(v, i, u) ELSE InsertedObjects(v, i, u)
           t == IF i = 0 THEN u \o s ELSE s \o u
           x(y) == With(v, StoredSlots(y, u, i, m))
<1>0. /\ v \in Vec /\ h \in Slot /\ n \in Nat /\ Room \in Nat /\ v.size = n /\ s \in Seq(Item)
      /\ i \in Nat /\ n + m <= Room /\ m \in Nat /\ m > 0 /\ u \in Seq(Object) /\ (i = 0 \/ i = n)
  BY FixedAssumption DEF Holds, Vec, Item
<1>1. /\ t \in Seq(Item) /\ Len(t) = n + m
      /\ \A a \in 0 .. n + m - 1 :
           t[a + 1] = IF a < i THEN s[a + 1] ELSE IF a < i + m THEN u[a - i + 1] ELSE s[a - m + 1]
  <2>1. CASE i = 0
    <3>1. t \in Seq(Item) /\ Len(t) = n + m
      BY <1>0, <2>1, Joining
    <3>2. \A j \in 1 .. m + n : t[j] = IF j <= m THEN u[j] ELSE s[j - m]
      BY <1>0, <2>1, Joining
    <3> HIDE DEF t, n, m
    <3>3. ASSUME NEW a \in 0 .. n + m - 1
          PROVE  t[a + 1] = IF a < i THEN s[a + 1] ELSE IF a < i + m THEN u[a - i + 1] ELSE s[a - m + 1]
      <4> DEFINE j == a + 1
      <4>1. /\ j \in 1 .. m + n /\ a - m + 1 = j - m /\ a - i + 1 = j
            /\ ~(a < i) /\ (a < i + m <=> j <= m)
        BY <1>0, <2>1
      <4> HIDE DEF j
      <4>2. t[j] = IF j <= m THEN u[j] ELSE s[j - m]
        BY <3>2, <4>1
      <4>3. t[j] = IF a < i THEN s[j] ELSE IF a < i + m THEN u[a - i + 1] ELSE s[a - m + 1]
        BY <4>1, <4>2
      <4> QED
        BY <4>3 DEF j
    <3> QED
      BY <3>1, <3>3
  <2>2. CASE i # 0
    <3>1. t \in Seq(Item) /\ Len(t) = n + m
      BY <1>0, <2>2, Joining
    <3>2. \A j \in 1 .. n + m : t[j] = IF j <= n THEN s[j] ELSE u[j - n]
      BY <1>0, <2>2, Joining
    <3> HIDE DEF t, n, m
    <3>3. ASSUME NEW a \in 0 .. n + m - 1
          PROVE  t[a + 1] = IF a < i THEN s[a + 1] ELSE IF a < i + m THEN u[a - i + 1] ELSE s[a - m + 1]
      <4> DEFINE j == a + 1
      <4>1. j \in 1 .. n + m /\ a - i + 1 = j - n /\ (a < i <=> j <= n) /\ a < i + m
        BY <1>0, <2>2
      <4> HIDE DEF j
      <4>2. t[j] = IF j <= n THEN s[j] ELSE u[j - n]
        BY <3>2, <4>1
      <4>3. t[j] = IF a < i THEN s[j] ELSE IF a < i + m THEN u[a - i + 1] ELSE s[a - m + 1]
        BY <4>1, <4>2
      <4> QED
        BY <4>3 DEF j
    <3> QED
      BY <3>1, <3>3
  <2> QED
    BY <2>1, <2>2
<1>2. \E y \in Slot :
        /\ w = x(y)
        /\ \A a \in 0 .. i - 1 : y[a] = h[a]
        /\ \A a \in i + m .. n + m - 1 : y[a] = h[a - m]
        /\ ~v.trivial => \A a \in n + m .. Room - 1 : y[a] = Raw
  <2>1. CASE v.trivial /\ i < n
    <3>0. i = 0
      BY <1>0, <2>1
    <3>1. PICK y \in Slot :
            /\ CopyBytes(v, i + m, i, n) = With(v, y)
            /\ \A a \in 0 .. Room - 1 :
                 y[a] = IF a \in i + m .. i + m + n - 1 THEN h[a - (i + m) + i] ELSE h[a]
      <4> DEFINE to == i + m
      <4>1. to \in Nat /\ to + n <= Room /\ i + n <= Room
        BY <1>0, <3>0
      <4> HIDE DEF n, m, to
      <4>2. \E y \in Slot : CopiedSlots(v, y, to, i, n)
        <5>1. v \in Vec /\ i \in Nat /\ n \in Nat
          BY <1>0
        <5> QED
          BY <4>1, <5>1, CopyBytesSlots
      <4> QED
        BY <4>2 DEF CopiedSlots, to
    <3>2. w = PutAll(With(v, y), u, i)
      <4>1. w = PutAll(CopyBytes(v, i + m, i, n), u, i)
        BY <1>0, <2>1 DEF InsertedBytes
      <4> HIDE DEF w
      <4> QED
        BY <3>1, <4>1
    <3>3. /\ With(v, y) \in Vec /\ With(v, y).slot = y
          /\ \A k \in Slot : With(With(v, y), k) = With(v, k)
      BY <1>0, WithVec
    <3>4. w = x(y)
      <4>1. i + m <= Room /\ m \in 0 .. m
        BY <1>0, <3>0
      <4>2. PutAll(With(v, y), u, i) = With(With(v, y), StoredSlots(y, u, i, m))
        BY <1>0, <3>3, <4>1, PutAllLoop
      <4>3. StoredSlots(y, u, i, m) \in Slot
        BY <1>0, <3>3, <4>1, StoreStep
      <4> QED
        BY <3>2, <3>3, <4>2, <4>3
    <3> HIDE DEF n, m, h, w, x
    <3>5. \A a \in i + m .. n + m - 1 : y[a] = h[a - m]
      <4>1. \A a \in i + m .. n + m - 1 :
              a \in 0 .. Room - 1 /\ a \in i + m .. i + m + n - 1 /\ a - (i + m) + i = a - m
        BY <1>0, <3>0
      <4> QED
        BY <3>1, <4>1
    <3>6. \A a \in 0 .. i - 1 : y[a] = h[a]
      BY <3>0
    <3> QED
      BY <2>1, <3>4, <3>5, <3>6
  <2>2. CASE v.trivial /\ ~(i < n)
    <3>1. i = n
      BY <1>0, <2>2
    <3>2. w = x(h)
      <4>1. w = PutAll(v, u, i)
        BY <1>0, <2>2 DEF InsertedBytes
      <4>2. i + m <= Room
        BY <1>0, <3>1
      <4> HIDE DEF w
      <4> QED
        BY <1>0, <4>1, <4>2, PutAllLoop
    <3>3. \A a \in i + m .. n + m - 1 : h[a] = h[a - m]
      BY <1>0, <3>1
    <3> QED
      BY <1>0, <2>2, <3>2, <3>3
  <2>3. CASE ~v.trivial /\ i < n
    <3> DEFINE y == ShiftedSlots(h, n, m, n)
    <3>0. i = 0
      BY <1>0, <2>3
    <3>1. MoveBackward(v, i, n, n + m) = With(v, y) /\ y \in Slot
      <4>1. n - i = n /\ m \in Nat \ {0} /\ i \in 0 .. n
        BY <1>0, <3>0
      <4> QED
        BY <1>0, <2>3, <4>1, HoldsFilled, MoveBackwardSlots
    <3>2. \A a \in 0 .. Room - 1 :
            y[a] = IF a \in m .. n + m - 1 THEN h[a - m] ELSE IF a \in 0 .. n - 1 THEN Moved ELSE h[a]
      <4>1. n + m - n = m /\ n - n = 0
        BY <1>0
      <4> QED
        BY <4>1 DEF ShiftedSlots
    <3>3. \A a \in n .. Room - 1 : h[a] = Raw
      BY <1>0, <2>3 DEF Holds
    <3>4. w = Copy(With(v, y), u, i)
      BY <1>0, <2>3, <3>1 DEF InsertedObjects
    <3>5. /\ With(v, y) \in Vec /\ With(v, y).slot = y /\ With(v, y).size = n
          /\ \A k \in Slot : With(With(v, y), k) = With(v, k)
      BY <1>0, <3>1, WithVec
    <3> HIDE DEF y
    <3>6. \A a \in i .. i + m - 1 : y[a] = Raw <=> a >= n
      <4> HIDE DEF n, m, h
      <4>1. ASSUME NEW a \in i .. i + m - 1
            PROVE  y[a] = Raw <=> a >= n
        <5>1. a \in 0 .. Room - 1 /\ a \notin m .. n + m - 1
          BY <1>0, <3>0
        <5> QED
          BY <1>0, <3>2, <3>3, <5>1, SlotsAssumption
      <4> QED
        BY <4>1
    <3>7. w = x(y)
      <4>1. i + m <= Room /\ m \in 0 .. m
        BY <1>0, <3>0
      <4>2. Copy(With(v, y), u, i) = With(With(v, y), StoredSlots(y, u, i, m))
        <5> DEFINE z == With(v, y)
        <5>1. z \in Vec /\ z.slot = y /\ z.size = n
          BY <3>5
        <5>2. \A a \in i .. i + m - 1 : z.slot[a] = Raw <=> a >= z.size
          BY <3>6, <5>1
        <5> HIDE DEF z, n
        <5>3. Copy(z, u, i) = With(z, StoredSlots(z.slot, u, i, m))
          BY <1>0, <4>1, <5>1, <5>2, CopySlots
        <5> QED
          BY <5>1, <5>3 DEF z
      <4>3. StoredSlots(y, u, i, m) \in Slot
        BY <1>0, <3>5, <4>1, StoreStep
      <4> QED
        BY <3>4, <3>5, <4>2, <4>3
    <3> HIDE DEF n, m, h, w, x
    <3>8. ASSUME NEW a \in i + m .. n + m - 1
          PROVE  y[a] = h[a - m]
      <4>1. a \in 0 .. Room - 1 /\ a \in m .. n + m - 1
        BY <1>0, <3>0
      <4> QED
        BY <3>2, <4>1
    <3>9. \A a \in n + m .. Room - 1 : y[a] = Raw
      BY <1>0, <3>2, <3>3
    <3>10. \A a \in 0 .. i - 1 : y[a] = h[a]
      BY <3>0
    <3> QED
      BY <3>1, <3>7, <3>8, <3>9, <3>10
  <2>4. CASE ~v.trivial /\ ~(i < n)
    <3>1. i = n
      BY <1>0, <2>4
    <3>2. \A a \in n .. Room - 1 : h[a] = Raw
      BY <1>0, <2>4 DEF Holds
    <3>3. w = x(h)
      <4>1. w = Copy(v, u, i)
        BY <1>0, <2>4 DEF InsertedObjects
      <4>2. i + m <= Room
        BY <1>0, <3>1
      <4>3. \A a \in i .. i + m - 1 : h[a] = Raw <=> a >= n
        BY <1>0, <3>1, <3>2
      <4> HIDE DEF w
      <4> QED
        BY <1>0, <4>1, <4>2, <4>3, CopySlots
    <3>4. \A a \in i + m .. n + m - 1 : h[a] = h[a - m]
      BY <1>0, <3>1
    <3>5. \A a \in n + m .. Room - 1 : h[a] = Raw
      BY <1>0, <3>2
    <3> QED
      BY <1>0, <3>3, <3>4, <3>5
  <2> QED
    BY <2>1, <2>2, <2>3, <2>4
<1>3. PICK y \in Slot :
        /\ w = x(y)
        /\ \A a \in 0 .. i - 1 : y[a] = h[a]
        /\ \A a \in i + m .. n + m - 1 : y[a] = h[a - m]
        /\ ~v.trivial => \A a \in n + m .. Room - 1 : y[a] = Raw
  BY <1>2
<1> DEFINE k == StoredSlots(y, u, i, m)
<1>4. k \in Slot
  <2>1. With(v, y) \in Vec /\ With(v, y).slot = y
    BY <1>0, WithVec
  <2>2. i + m <= Room /\ m \in 0 .. m
    BY <1>0
  <2> QED
    BY <1>0, <2>1, <2>2, StoreStep
<1>5. \A a \in 0 .. Room - 1 : k[a] = IF a \in i .. i + m - 1 THEN u[a - i + 1] ELSE y[a]
  BY DEF StoredSlots
<1>6. \A a \in 0 .. n - 1 : h[a] = s[a + 1]
  BY DEF Holds
<1>7. Inserted(v, i, u) = [With(v, k) EXCEPT !.size = n + m]
  <2>1. With(v, k).size = n
    BY <1>0, <1>4, WithVec
  <2>2. Inserted(v, i, u) = [w EXCEPT !.size = @ + m]
    BY DEF Inserted
  <2>3. w = With(v, k)
    BY <1>3
  <2> HIDE DEF w, k
  <2> QED
    BY <2>1, <2>2, <2>3
<1> HIDE DEF w, t, h, n, m, k, x
<1>8. \A a \in 0 .. Len(t) - 1 : k[a] = t[a + 1]
  <2>1. ASSUME NEW a \in 0 .. n + m - 1
        PROVE  k[a] = t[a + 1]
    <3>0. a \in 0 .. Room - 1
      BY <1>0
    <3>1. CASE a < i
      <4>1. a \in 0 .. i - 1 /\ a \in 0 .. n - 1 /\ a \notin i .. i + m - 1
        BY <1>0, <3>1
      <4> QED
        BY <1>1, <1>3, <1>5, <1>6, <3>0, <3>1, <4>1
    <3>2. CASE a >= i /\ a < i + m
      <4>1. ~(a < i) /\ a \in i .. i + m - 1
        BY <1>0, <3>2
      <4> QED
        BY <1>1, <1>5, <3>0, <3>2, <4>1
    <3>3. CASE a >= i + m
      <4>1. /\ ~(a < i) /\ ~(a < i + m) /\ a \in i + m .. n + m - 1 /\ a \notin i .. i + m - 1
            /\ a - m \in 0 .. n - 1
        BY <1>0, <3>3
      <4> QED
        <5>1. k[a] = h[a - m]
          BY <1>3, <1>5, <3>0, <4>1
        <5>2. h[a - m] = s[a - m + 1]
          BY <1>6, <4>1
        <5>3. t[a + 1] = s[a - m + 1]
          BY <1>1, <4>1
        <5> QED
          BY <5>1, <5>2, <5>3
    <3> QED
      BY <1>0, <3>1, <3>2, <3>3
  <2>2. ASSUME NEW a \in 0 .. Len(t) - 1
        PROVE  k[a] = t[a + 1]
    <3>1. Len(t) = n + m /\ n \in Nat /\ m \in Nat
      BY <1>0, <1>1
    <3>2. a \in 0 .. n + m - 1
      BY <3>1
    <3> QED
      BY <2>1, <3>2
  <2> QED
    BY <2>2
<1>9. ~v.trivial => \A a \in Len(t) .. Room - 1 : k[a] = Raw
  <2>1. ASSUME ~v.trivial, NEW a \in n + m .. Room - 1
        PROVE  k[a] = Raw
    <3>1. a \in 0 .. Room - 1 /\ a \notin i .. i + m - 1
      BY <1>0
    <3> QED
      BY <1>3, <1>5, <2>1, <3>1
  <2> QED
    BY <1>1, <2>1
<1>10. /\ Holds([With(v, k) EXCEPT !.size = n + m], t)
       /\ [With(v, k) EXCEPT !.size = n + m].trivial = v.trivial
  <2>1. ~v.fault
    BY DEF Holds
  <2>2. n + m = Len(t) /\ Len(t) <= Room
    BY <1>0, <1>1
  <2> QED
    <3>1. Fits(k, t, v.trivial)
      BY <1>8, <1>9 DEF Fits
    <3> QED
      BY <1>0, <1>1, <1>4, <2>1, <2>2, <3>1, HoldsIntro
<1> QED
  BY <1>7, <1>10 DEF t

-----------------------------------------------------------------------------
(* Sequences of pairs                                                      *)

LEMMA SameSeq ==
  ASSUME NEW S, NEW s \in Seq(S), NEW t \in Seq(S), Len(s) = Len(t),
         \A j \in 1 .. Len(s) : s[j] = t[j]
  PROVE  s = t
OBVIOUS

\* That t is s with x inserted at i, without its element i, continued by r.
InsertedIn(t, s, i, x, S) ==
  /\ t \in Seq(S) /\ Len(t) = Len(s) + 1
  /\ \A j \in 1 .. Len(s) + 1 : t[j] = IF j < i THEN s[j] ELSE IF j = i THEN x ELSE s[j - 1]

RemovedFrom(t, s, i, S) ==
  /\ t \in Seq(S) /\ Len(t) = Len(s) - 1
  /\ \A j \in 1 .. Len(s) - 1 : t[j] = IF j < i THEN s[j] ELSE s[j + 1]

JoinedTo(t, s, r, S) ==
  /\ t \in Seq(S) /\ Len(t) = Len(s) + Len(r)
  /\ \A j \in 1 .. Len(s) + Len(r) : t[j] = IF j <= Len(s) THEN s[j] ELSE r[j - Len(s)]

LEMMA InsertingIn ==
  ASSUME NEW S, NEW s \in Seq(S), NEW i \in 1 .. Len(s) + 1, NEW x \in S
  PROVE  InsertedIn(InsertAt(s, i, x), s, i, x, S)
BY Inserting DEF InsertedIn

LEMMA RemovingFrom ==
  ASSUME NEW S, NEW s \in Seq(S), NEW i \in 1 .. Len(s)
  PROVE  RemovedFrom(RemoveAt(s, i), s, i, S)
BY Removing DEF RemovedFrom

LEMMA JoiningTo ==
  ASSUME NEW S, NEW s \in Seq(S), NEW r \in Seq(S)
  PROVE  JoinedTo(s \o r, s, r, S)
BY Joining DEF JoinedTo

\* l and r together are as s and t together were.
AsBefore(l, r, s, t) == l \o r = s \o t

\* What a split and an element borrowed from the left or from the right do to the sequence of the
\* two leaves.
LEMMA SplitSeq ==
  ASSUME NEW S, NEW s \in Seq(S), NEW i \in 0 .. Len(s), NEW t \in Seq(S), Len(t) = 0
  PROVE  AsBefore(SubSeq(s, 1, i), From(s, i) \o t, s, t)
<1> DEFINE l == SubSeq(s, 1, i)
           r == From(s, i)
<1>1. l \in Seq(S) /\ Len(l) = i /\ \A j \in 1 .. i : l[j] = s[j]
  BY Heading
<1>2. r \in Seq(S) /\ Len(r) = Len(s) - i /\ \A j \in 1 .. Len(s) - i : r[j] = s[i + j]
  BY Trailing
<1> HIDE DEF l, r
<1> DEFINE q == r \o t
           z == l \o q
           n == Len(s)
<1>3. q \in Seq(S) /\ Len(q) = n - i /\ \A j \in 1 .. n - i : q[j] = r[j]
  BY <1>2, Joining
<1> HIDE DEF q
<1>4. z \in Seq(S) /\ Len(z) = n /\ \A j \in 1 .. n : z[j] = IF j <= i THEN l[j] ELSE q[j - i]
  <2>1. Len(l) + Len(q) = n
    BY <1>1, <1>3
  <2> QED
    BY <1>1, <1>3, <2>1, Joining
<1>5. n \in Nat /\ i \in Nat /\ i <= n
  OBVIOUS
<1> HIDE DEF z
<1>6. ASSUME NEW j \in 1 .. n
      PROVE  z[j] = s[j]
  <2>1. CASE j <= i
    BY <1>1, <1>4, <1>5, <2>1
  <2>2. CASE j > i
    <3> DEFINE p == j - i
    <3>1. p \in 1 .. n - i /\ i + p = j
      BY <1>5, <2>2
    <3>2. z[j] = q[p]
      BY <1>4, <1>5, <2>2
    <3> HIDE DEF p, n
    <3>3. q[p] = s[j]
      BY <1>2, <1>3, <3>1 DEF n
    <3> QED
      BY <3>2, <3>3
  <2> QED
    BY <1>5, <2>1, <2>2
<1>7. z = s
  BY <1>4, <1>6, SameSeq
<1>8. s \o t = s
  BY Joining, SameSeq
<1> QED
  BY <1>7, <1>8 DEF AsBefore, z, q, l, r

LEMMA LastToFirst ==
  ASSUME NEW S, NEW s \in Seq(S), NEW t \in Seq(S), Len(s) > 0
  PROVE  AsBefore(RemoveAt(s, Len(s)), InsertAt(t, 1, s[Len(s)]), s, t)
<1> DEFINE n == Len(s)
           m == Len(t)
           l == RemoveAt(s, n)
           r == InsertAt(t, 1, s[n])
           y == l \o r
           z == s \o t
<1>0. n \in Nat /\ m \in Nat /\ n > 0
  OBVIOUS
<1>1. l \in Seq(S) /\ Len(l) = n - 1 /\ \A j \in 1 .. n - 1 : l[j] = s[j]
  <2>1. n \in 1 .. Len(s)
    OBVIOUS
  <2>2. /\ l \in Seq(S) /\ Len(l) = n - 1
        /\ \A j \in 1 .. n - 1 : l[j] = IF j < n THEN s[j] ELSE s[j + 1]
    BY <2>1, Removing
  <2> HIDE DEF l, n
  <2> QED
    BY <1>0, <2>2
<1>2. /\ r \in Seq(S) /\ Len(r) = m + 1
      /\ \A j \in 1 .. m + 1 : r[j] = IF j = 1 THEN s[n] ELSE t[j - 1]
  <2>1. 1 \in 1 .. Len(t) + 1 /\ s[n] \in S
    OBVIOUS
  <2>2. /\ r \in Seq(S) /\ Len(r) = m + 1
        /\ \A j \in 1 .. m + 1 : r[j] = IF j < 1 THEN t[j] ELSE IF j = 1 THEN s[n] ELSE t[j - 1]
    <3> DEFINE x == s[n]
    <3>1. 1 \in 1 .. Len(t) + 1 /\ x \in S
      BY <2>1
    <3> HIDE DEF x
    <3>2. InsertedIn(InsertAt(t, 1, x), t, 1, x, S)
      BY <3>1, InsertingIn
    <3> QED
      BY <3>2 DEF InsertedIn, x
  <2> HIDE DEF r, m
  <2> QED
    BY <1>0, <2>2
<1>3. z \in Seq(S) /\ Len(z) = n + m /\ \A j \in 1 .. n + m : z[j] = IF j <= n THEN s[j] ELSE t[j - n]
  BY Joining
<1> HIDE DEF l, r
<1>4. /\ y \in Seq(S) /\ Len(y) = n + m
      /\ \A j \in 1 .. n + m : y[j] = IF j <= n - 1 THEN l[j] ELSE r[j - (n - 1)]
  <2>1. Len(l) + Len(r) = n + m
    BY <1>0, <1>1, <1>2
  <2>2. l \in Seq(S) /\ r \in Seq(S)
    BY <1>1, <1>2
  <2>3. /\ y \in Seq(S) /\ Len(y) = Len(l) + Len(r)
        /\ \A j \in 1 .. Len(l) + Len(r) : y[j] = IF j <= Len(l) THEN l[j] ELSE r[j - Len(l)]
    BY <2>2, Joining
  <2> HIDE DEF y, n, m
  <2> QED
    BY <1>1, <2>1, <2>3
<1> HIDE DEF y, z, n, m
<1>5. ASSUME NEW j \in 1 .. n + m
      PROVE  y[j] = z[j]
  <2>1. CASE j < n
    <3>1. j \in 1 .. n - 1 /\ j <= n - 1 /\ j <= n
      BY <1>0, <2>1
    <3> QED
      BY <1>1, <1>3, <1>4, <3>1
  <2>2. CASE j >= n
    <3> DEFINE p == j - (n - 1)
    <3>1. p \in 1 .. m + 1 /\ (p = 1 <=> j <= n) /\ p - 1 = j - n
      BY <1>0, <2>2
    <3>2. y[j] = r[p]
      BY <1>0, <1>4, <2>2
    <3> HIDE DEF p
    <3>3. r[p] = IF j <= n THEN s[n] ELSE t[j - n]
      BY <1>2, <3>1
    <3>4. j <= n => j = n
      BY <1>0, <2>2
    <3> QED
      BY <1>3, <3>2, <3>3, <3>4
  <2> QED
    BY <1>0, <2>1, <2>2
<1>6. y = z
  BY <1>3, <1>4, <1>5, SameSeq
<1> QED
  BY <1>6 DEF AsBefore, y, z, l, r, n

LEMMA FirstToLast ==
  ASSUME NEW S, NEW s \in Seq(S), NEW t \in Seq(S), Len(t) > 0
  PROVE  AsBefore(InsertAt(s, Len(s) + 1, t[1]), RemoveAt(t, 1), s, t)
<1> DEFINE n == Len(s)
           m == Len(t)
           l == InsertAt(s, n + 1, t[1])
           r == RemoveAt(t, 1)
           y == l \o r
           z == s \o t
<1>0. n \in Nat /\ m \in Nat /\ m > 0
  OBVIOUS
<1>1. /\ l \in Seq(S) /\ Len(l) = n + 1
      /\ \A j \in 1 .. n + 1 : l[j] = IF j <= n THEN s[j] ELSE t[1]
  <2> DEFINE p == n + 1
             x == t[1]
  <2>1. p \in 1 .. Len(s) + 1 /\ x \in S
    OBVIOUS
  <2> HIDE DEF p, x
  <2>2. /\ InsertAt(s, p, x) \in Seq(S) /\ Len(InsertAt(s, p, x)) = Len(s) + 1
        /\ \A j \in 1 .. Len(s) + 1 :
             InsertAt(s, p, x)[j] = IF j < p THEN s[j] ELSE IF j = p THEN x ELSE s[j - 1]
    BY <2>1, Inserting
  <2>3. /\ l \in Seq(S) /\ Len(l) = n + 1
        /\ \A j \in 1 .. n + 1 : l[j] = IF j < p THEN s[j] ELSE IF j = p THEN x ELSE s[j - 1]
    BY <2>2 DEF p, x
  <2>4. \A j \in 1 .. n + 1 : (j < p <=> j <= n) /\ (~(j <= n) => j = p)
    BY <1>0 DEF p
  <2> HIDE DEF l, n
  <2> QED
    BY <2>3, <2>4 DEF x
<1>2. r \in Seq(S) /\ Len(r) = m - 1 /\ \A j \in 1 .. m - 1 : r[j] = t[j + 1]
  <2>1. 1 \in 1 .. Len(t)
    BY <1>0
  <2>2. /\ r \in Seq(S) /\ Len(r) = m - 1
        /\ \A j \in 1 .. m - 1 : r[j] = IF j < 1 THEN t[j] ELSE t[j + 1]
    BY <2>1, Removing
  <2> HIDE DEF r, m
  <2> QED
    BY <1>0, <2>2
<1>3. z \in Seq(S) /\ Len(z) = n + m /\ \A j \in 1 .. n + m : z[j] = IF j <= n THEN s[j] ELSE t[j - n]
  BY Joining
<1> HIDE DEF l, r
<1>4. /\ y \in Seq(S) /\ Len(y) = n + m
      /\ \A j \in 1 .. n + m : y[j] = IF j <= n + 1 THEN l[j] ELSE r[j - (n + 1)]
  <2>1. Len(l) + Len(r) = n + m
    BY <1>0, <1>1, <1>2
  <2>2. l \in Seq(S) /\ r \in Seq(S)
    BY <1>1, <1>2
  <2>3. /\ y \in Seq(S) /\ Len(y) = Len(l) + Len(r)
        /\ \A j \in 1 .. Len(l) + Len(r) : y[j] = IF j <= Len(l) THEN l[j] ELSE r[j - Len(l)]
    BY <2>2, Joining
  <2> HIDE DEF y, n, m
  <2> QED
    BY <1>1, <2>1, <2>3
<1> HIDE DEF y, z, n, m
<1>5. ASSUME NEW j \in 1 .. n + m
      PROVE  y[j] = z[j]
  <2>1. CASE j <= n
    <3>1. j \in 1 .. n + 1 /\ j <= n + 1
      BY <1>0, <2>1
    <3> QED
      BY <1>1, <1>3, <1>4, <2>1, <3>1
  <2>2. CASE j = n + 1
    <3>1. y[j] = t[1]
      BY <1>0, <1>1, <1>4, <2>2
    <3>2. j - n = 1 /\ ~(j <= n)
      BY <1>0, <2>2
    <3> QED
      BY <1>3, <3>1, <3>2
  <2>3. CASE j > n + 1
    <3> DEFINE p == j - (n + 1)
    <3>1. p \in 1 .. m - 1 /\ p + 1 = j - n
      BY <1>0, <2>3
    <3>2. y[j] = r[p]
      BY <1>0, <1>4, <2>3
    <3> HIDE DEF p
    <3>3. r[p] = t[j - n]
      BY <1>2, <3>1
    <3>4. ~(j <= n)
      BY <1>0, <2>3
    <3> QED
      BY <1>3, <3>2, <3>3, <3>4
  <2> QED
    BY <1>0, <2>1, <2>2, <2>3
<1>6. y = z
  BY <1>3, <1>4, <1>5, SameSeq
<1> QED
  BY <1>6 DEF AsBefore, y, z, l, r, n

\* That t lists the pairs of ks and vs.
ZippedFrom(t, ks, vs, S) ==
  t \in Seq(S) /\ Len(t) = Len(ks) /\ \A j \in 1 .. Len(ks) : t[j] = <<ks[j], vs[j]>>

LEMMA Zipped ==
  ASSUME NEW K, NEW V, NEW ks \in Seq(K), NEW vs \in Seq(V), Len(ks) = Len(vs)
  PROVE  ZippedFrom(Zip(ks, vs), ks, vs, K \X V)
BY DEF Zip, ZippedFrom

LEMMA ZipInsert ==
  ASSUME NEW K, NEW V, NEW ks \in Seq(K), NEW vs \in Seq(V), Len(ks) = Len(vs),
         NEW i \in 1 .. Len(ks) + 1, NEW k \in K, NEW v \in V
  PROVE  Zip(InsertAt(ks, i, k), InsertAt(vs, i, v)) = InsertAt(Zip(ks, vs), i, <<k, v>>)
<1> DEFINE S == K \X V
           n == Len(ks)
           z == Zip(ks, vs)
           x == <<k, v>>
           kk == InsertAt(ks, i, k)
           vv == InsertAt(vs, i, v)
           l == Zip(kk, vv)
           r == InsertAt(z, i, x)
<1>1. n \in Nat /\ i \in Nat /\ 1 <= i /\ i <= n + 1
  OBVIOUS
<1>2. ZippedFrom(z, ks, vs, S)
  BY Zipped
<1>3. InsertedIn(kk, ks, i, k, K)
  BY InsertingIn
<1>4. InsertedIn(vv, vs, i, v, V)
  BY InsertingIn
<1> HIDE DEF z, kk, vv
<1>5. InsertedIn(r, z, i, x, S)
  <2>1. x \in S /\ z \in Seq(S) /\ i \in 1 .. Len(z) + 1
    BY <1>1, <1>2 DEF ZippedFrom
  <2> HIDE DEF x, S, n
  <2> QED
    BY <2>1, InsertingIn
<1>6. ZippedFrom(l, kk, vv, S)
  <2>1. kk \in Seq(K) /\ vv \in Seq(V) /\ Len(kk) = Len(vv)
    BY <1>3, <1>4 DEF InsertedIn
  <2> QED
    BY <2>1, Zipped
<1> HIDE DEF l, r, S
<1>7. /\ l \in Seq(S) /\ r \in Seq(S) /\ Len(l) = n + 1 /\ Len(r) = n + 1
      /\ \A j \in 1 .. n : z[j] = <<ks[j], vs[j]>>
      /\ \A j \in 1 .. n + 1 :
           /\ kk[j] = IF j < i THEN ks[j] ELSE IF j = i THEN k ELSE ks[j - 1]
           /\ vv[j] = IF j < i THEN vs[j] ELSE IF j = i THEN v ELSE vs[j - 1]
           /\ r[j] = IF j < i THEN z[j] ELSE IF j = i THEN x ELSE z[j - 1]
           /\ l[j] = <<kk[j], vv[j]>>
  BY <1>2, <1>3, <1>4, <1>5, <1>6 DEF ZippedFrom, InsertedIn
<1> HIDE DEF n
<1>8. ASSUME NEW j \in 1 .. n + 1
      PROVE  l[j] = r[j]
  <2>1. CASE j < i
    <3>1. j \in 1 .. n
      BY <1>1, <2>1
    <3> QED
      BY <1>7, <2>1, <3>1
  <2>2. CASE j = i
    <3>1. ~(j < i)
      BY <1>1, <2>2
    <3> QED
      BY <1>7, <2>2, <3>1
  <2>3. CASE j > i
    <3>1. j - 1 \in 1 .. n /\ ~(j < i) /\ j # i
      BY <1>1, <2>3
    <3> QED
      BY <1>7, <3>1
  <2> QED
    BY <1>1, <2>1, <2>2, <2>3
<1>9. l = r
  BY <1>7, <1>8, SameSeq
<1> QED
  BY <1>9 DEF l, r, z, kk, vv

LEMMA ZipRemove ==
  ASSUME NEW K, NEW V, NEW ks \in Seq(K), NEW vs \in Seq(V), Len(ks) = Len(vs),
         NEW i \in 1 .. Len(ks)
  PROVE  Zip(RemoveAt(ks, i), RemoveAt(vs, i)) = RemoveAt(Zip(ks, vs), i)
<1> DEFINE S == K \X V
           n == Len(ks)
           z == Zip(ks, vs)
           kk == RemoveAt(ks, i)
           vv == RemoveAt(vs, i)
           l == Zip(kk, vv)
           r == RemoveAt(z, i)
<1>1. n \in Nat /\ i \in Nat /\ 1 <= i /\ i <= n
  OBVIOUS
<1>2. ZippedFrom(z, ks, vs, S)
  BY Zipped
<1>3. RemovedFrom(kk, ks, i, K)
  BY RemovingFrom
<1>4. RemovedFrom(vv, vs, i, V)
  BY RemovingFrom
<1> HIDE DEF z, kk, vv
<1>5. RemovedFrom(r, z, i, S)
  <2>1. z \in Seq(S) /\ i \in 1 .. Len(z)
    BY <1>1, <1>2 DEF ZippedFrom
  <2> HIDE DEF S, n
  <2> QED
    BY <2>1, RemovingFrom
<1>6. ZippedFrom(l, kk, vv, S)
  <2>1. kk \in Seq(K) /\ vv \in Seq(V) /\ Len(kk) = Len(vv)
    BY <1>3, <1>4 DEF RemovedFrom
  <2> QED
    BY <2>1, Zipped
<1> HIDE DEF l, r, S
<1>7. /\ l \in Seq(S) /\ r \in Seq(S) /\ Len(l) = n - 1 /\ Len(r) = n - 1
      /\ \A j \in 1 .. n : z[j] = <<ks[j], vs[j]>>
      /\ \A j \in 1 .. n - 1 :
           /\ kk[j] = IF j < i THEN ks[j] ELSE ks[j + 1]
           /\ vv[j] = IF j < i THEN vs[j] ELSE vs[j + 1]
           /\ r[j] = IF j < i THEN z[j] ELSE z[j + 1]
           /\ l[j] = <<kk[j], vv[j]>>
  BY <1>2, <1>3, <1>4, <1>5, <1>6 DEF ZippedFrom, RemovedFrom
<1> HIDE DEF n
<1>8. ASSUME NEW j \in 1 .. n - 1
      PROVE  l[j] = r[j]
  <2>1. j \in 1 .. n /\ j + 1 \in 1 .. n
    BY <1>1
  <2> QED
    BY <1>7, <2>1
<1>9. l = r
  BY <1>7, <1>8, SameSeq
<1> QED
  BY <1>9 DEF l, r, z, kk, vv

\* To pair up lists and to join them can be done in either order.
ZipsJoin(a, b, c, d) == Zip(a \o c, b \o d) = Zip(a, b) \o Zip(c, d)

LEMMA ZipJoin ==
  ASSUME NEW K, NEW V, NEW a \in Seq(K), NEW c \in Seq(K), NEW b \in Seq(V), NEW d \in Seq(V),
         Len(a) = Len(b), Len(c) = Len(d)
  PROVE  ZipsJoin(a, b, c, d)
<1> DEFINE S == K \X V
           n == Len(a)
           m == Len(c)
           y == Zip(a, b)
           z == Zip(c, d)
           ac == a \o c
           bd == b \o d
           l == Zip(ac, bd)
           r == y \o z
<1>1. n \in Nat /\ m \in Nat
  OBVIOUS
<1>2. ZippedFrom(y, a, b, S)
  BY Zipped
<1>3. ZippedFrom(z, c, d, S)
  BY Zipped
<1>4. JoinedTo(ac, a, c, K)
  BY JoiningTo
<1>5. JoinedTo(bd, b, d, V)
  BY JoiningTo
<1> HIDE DEF y, z, ac, bd
<1>6. JoinedTo(r, y, z, S)
  <2>1. y \in Seq(S) /\ z \in Seq(S)
    BY <1>2, <1>3 DEF ZippedFrom
  <2> HIDE DEF S, n, m
  <2> QED
    BY <2>1, JoiningTo
<1>7. ZippedFrom(l, ac, bd, S)
  <2>1. ac \in Seq(K) /\ bd \in Seq(V) /\ Len(ac) = Len(bd)
    BY <1>4, <1>5 DEF JoinedTo
  <2> QED
    BY <2>1, Zipped
<1> HIDE DEF l, r, S
<1>8. /\ l \in Seq(S) /\ r \in Seq(S) /\ Len(l) = n + m /\ Len(r) = n + m
      /\ \A j \in 1 .. n : y[j] = <<a[j], b[j]>>
      /\ \A j \in 1 .. m : z[j] = <<c[j], d[j]>>
      /\ \A j \in 1 .. n + m :
           /\ ac[j] = IF j <= n THEN a[j] ELSE c[j - n]
           /\ bd[j] = IF j <= n THEN b[j] ELSE d[j - n]
           /\ r[j] = IF j <= n THEN y[j] ELSE z[j - n]
           /\ l[j] = <<ac[j], bd[j]>>
  BY <1>2, <1>3, <1>4, <1>5, <1>6, <1>7 DEF ZippedFrom, JoinedTo
<1> HIDE DEF n, m
<1>9. ASSUME NEW j \in 1 .. n + m
      PROVE  l[j] = r[j]
  <2>1. CASE j <= n
    <3>1. j \in 1 .. n
      BY <1>1, <2>1
    <3> QED
      BY <1>8, <2>1, <3>1
  <2>2. CASE ~(j <= n)
    <3>1. j - n \in 1 .. m
      BY <1>1, <2>2
    <3> QED
      BY <1>8, <2>2, <3>1
  <2> QED
    BY <2>1, <2>2
<1>10. l = r
  BY <1>8, <1>9, SameSeq
<1> QED
  BY <1>10 DEF ZipsJoin, l, r, y, z, ac, bd

-----------------------------------------------------------------------------
(* A leaf as the lists of its keys and of its values.                      *)

LeafType == [keys : Vec, values : Vec]

Held(d, ks, vs) ==
  d \in LeafType /\ Holds(d.keys, ks) /\ Holds(d.values, vs) /\ Len(ks) = Len(vs)

LEMMA Elements ==
  /\ KeySet \subseteq Item /\ ValueSet \subseteq Item
  /\ \A e \in Entries : e[1] \in KeySet /\ e[2] \in ValueSet /\ e = <<e[1], e[2]>>
BY SplitAssumption DEF Item, Object, KeySet, ValueSet

LEMMA HeldContents ==
  ASSUME NEW v, NEW s, Holds(v, s)
  PROVE  Contents(v) = s
<1> DEFINE c == Contents(v)
           n == Len(s)
<1>1. /\ v \in Vec /\ s \in Seq(Item) /\ n \in Nat /\ v.size = n /\ Room \in Nat /\ n <= Room
  BY FixedAssumption DEF Holds
<1>2. ASSUME NEW j \in 1 .. n
      PROVE  Read(v, j - 1) = s[j]
  <2>1. j - 1 \in 0 .. n - 1 /\ j - 1 \in 0 .. Room - 1 /\ (j - 1) + 1 = j
    BY <1>1
  <2>2. v.slot[j - 1] = s[(j - 1) + 1]
    BY <2>1 DEF Holds
  <2>3. Read(v, j - 1) = v.slot[j - 1]
    BY <1>1, <2>1, ReadSlot
  <2> QED
    BY <2>1, <2>2, <2>3
<1>3. c = [j \in 1 .. n |-> s[j]]
  BY <1>1, <1>2 DEF Contents
<1>4. s = [j \in 1 .. n |-> s[j]]
  BY <1>1
<1> QED
  BY <1>3, <1>4

LEMMA LeafEmplaced ==
  ASSUME NEW d, NEW ks, NEW vs, Held(d, ks, vs), NEW i \in 0 .. Len(ks), Len(ks) < Room,
         NEW k \in Item, NEW v \in Item
  PROVE  Held(PairEmplaced(d, i, k, v), InsertAt(ks, i + 1, k), InsertAt(vs, i + 1, v))
<1>1. /\ d \in LeafType /\ Holds(d.keys, ks) /\ Holds(d.values, vs) /\ Len(ks) = Len(vs)
  BY DEF Held
<1>2. Holds(Emplaced(d.keys, i, k), InsertAt(ks, i + 1, k))
  BY <1>1, EmplacedHolds
<1>3. Holds(Emplaced(d.values, i, v), InsertAt(vs, i + 1, v))
  BY <1>1, EmplacedHolds
<1>4. Emplaced(d.keys, i, k) \in Vec /\ Emplaced(d.values, i, v) \in Vec
  BY <1>2, <1>3 DEF Holds
<1>5. Len(InsertAt(ks, i + 1, k)) = Len(InsertAt(vs, i + 1, v))
  <2> DEFINE p == i + 1
  <2>1. ks \in Seq(Item) /\ vs \in Seq(Item)
    BY <1>1 DEF Holds
  <2>2. p \in 1 .. Len(ks) + 1 /\ p \in 1 .. Len(vs) + 1
    BY <1>1, <2>1
  <2> HIDE DEF p
  <2>3. /\ InsertedIn(InsertAt(ks, p, k), ks, p, k, Item)
        /\ InsertedIn(InsertAt(vs, p, v), vs, p, v, Item)
    BY <2>1, <2>2, InsertingIn
  <2> QED
    BY <1>1, <2>3 DEF InsertedIn, p
<1>6. /\ PairEmplaced(d, i, k, v) \in LeafType
      /\ PairEmplaced(d, i, k, v).keys = Emplaced(d.keys, i, k)
      /\ PairEmplaced(d, i, k, v).values = Emplaced(d.values, i, v)
  <2> DEFINE a == Emplaced(d.keys, i, k)
             b == Emplaced(d.values, i, v)
             e == [d EXCEPT !.keys = a]
  <2>1. PairEmplaced(d, i, k, v) = [e EXCEPT !.values = Emplaced(e.values, i, v)]
    BY DEF PairEmplaced, Sized
  <2>2. a \in Vec /\ b \in Vec
    BY <1>4
  <2> HIDE DEF a
  <2>3. e.values = d.values
    BY <1>1, <2>2 DEF LeafType
  <2>4. PairEmplaced(d, i, k, v) = [e EXCEPT !.values = b]
    BY <2>1, <2>3
  <2> HIDE DEF b
  <2>5. /\ PairEmplaced(d, i, k, v) \in LeafType
        /\ PairEmplaced(d, i, k, v).keys = a
        /\ PairEmplaced(d, i, k, v).values = b
    BY <1>1, <2>2, <2>4 DEF LeafType
  <2> QED
    BY <2>5 DEF a, b
<1> QED
  BY <1>2, <1>3, <1>5, <1>6 DEF Held

LEMMA LeafErased ==
  ASSUME NEW d, NEW ks, NEW vs, Held(d, ks, vs), NEW i \in 0 .. Len(ks) - 1
  PROVE  Held(PairErased(d, i), RemoveAt(ks, i + 1), RemoveAt(vs, i + 1))
<1>1. /\ d \in LeafType /\ Holds(d.keys, ks) /\ Holds(d.values, vs) /\ Len(ks) = Len(vs)
  BY DEF Held
<1>2. Holds(Erased(d.keys, i), RemoveAt(ks, i + 1))
  BY <1>1, ErasedHolds
<1>3. Holds(Erased(d.values, i), RemoveAt(vs, i + 1))
  BY <1>1, ErasedHolds
<1>4. Erased(d.keys, i) \in Vec /\ Erased(d.values, i) \in Vec
  BY <1>2, <1>3 DEF Holds
<1>5. Len(RemoveAt(ks, i + 1)) = Len(RemoveAt(vs, i + 1))
  <2> DEFINE p == i + 1
  <2>1. ks \in Seq(Item) /\ vs \in Seq(Item)
    BY <1>1 DEF Holds
  <2>2. p \in 1 .. Len(ks) /\ p \in 1 .. Len(vs)
    BY <1>1, <2>1
  <2> HIDE DEF p
  <2>3. RemovedFrom(RemoveAt(ks, p), ks, p, Item) /\ RemovedFrom(RemoveAt(vs, p), vs, p, Item)
    BY <2>1, <2>2, RemovingFrom
  <2> QED
    BY <1>1, <2>3 DEF RemovedFrom, p
<1>6. /\ PairErased(d, i) \in LeafType
      /\ PairErased(d, i).keys = Erased(d.keys, i)
      /\ PairErased(d, i).values = Erased(d.values, i)
  <2> DEFINE a == Erased(d.keys, i)
             b == Erased(d.values, i)
             e == [d EXCEPT !.keys = a]
  <2>1. PairErased(d, i) = [e EXCEPT !.values = Erased(e.values, i)]
    BY DEF PairErased, Sized
  <2>2. a \in Vec /\ b \in Vec
    BY <1>4
  <2> HIDE DEF a
  <2>3. e.values = d.values
    BY <1>1, <2>2 DEF LeafType
  <2>4. PairErased(d, i) = [e EXCEPT !.values = b]
    BY <2>1, <2>3
  <2> HIDE DEF b
  <2>5. /\ PairErased(d, i) \in LeafType
        /\ PairErased(d, i).keys = a
        /\ PairErased(d, i).values = b
    BY <1>1, <2>2, <2>4 DEF LeafType
  <2> QED
    BY <2>5 DEF a, b
<1> QED
  BY <1>2, <1>3, <1>5, <1>6 DEF Held

LEMMA LeafTailErased ==
  ASSUME NEW d, NEW ks, NEW vs, Held(d, ks, vs), NEW i \in 0 .. Len(ks)
  PROVE  Held(PairsErased(d, i), SubSeq(ks, 1, i), SubSeq(vs, 1, i))
<1>1. /\ d \in LeafType /\ Holds(d.keys, ks) /\ Holds(d.values, vs) /\ Len(ks) = Len(vs)
  BY DEF Held
<1>2. Holds(ErasedTail(d.keys, i), SubSeq(ks, 1, i))
  BY <1>1, ErasedTailHolds
<1>3. Holds(ErasedTail(d.values, i), SubSeq(vs, 1, i))
  BY <1>1, ErasedTailHolds
<1>4. ErasedTail(d.keys, i) \in Vec /\ ErasedTail(d.values, i) \in Vec
  BY <1>2, <1>3 DEF Holds
<1>5. Len(SubSeq(ks, 1, i)) = i /\ Len(SubSeq(vs, 1, i)) = i
  <2>1. ks \in Seq(Item) /\ vs \in Seq(Item)
    BY <1>1 DEF Holds
  <2> QED
    BY <1>1, <2>1, Heading
<1>6. /\ PairsErased(d, i) \in LeafType
      /\ PairsErased(d, i).keys = ErasedTail(d.keys, i)
      /\ PairsErased(d, i).values = ErasedTail(d.values, i)
  <2> DEFINE a == ErasedTail(d.keys, i)
             b == ErasedTail(d.values, i)
             e == [d EXCEPT !.keys = a]
  <2>1. PairsErased(d, i) = [e EXCEPT !.values = ErasedTail(e.values, i)]
    BY DEF PairsErased, Sized
  <2>2. a \in Vec /\ b \in Vec
    BY <1>4
  <2> HIDE DEF a
  <2>3. e.values = d.values
    BY <1>1, <2>2 DEF LeafType
  <2>4. PairsErased(d, i) = [e EXCEPT !.values = b]
    BY <2>1, <2>3
  <2> HIDE DEF b
  <2>5. /\ PairsErased(d, i) \in LeafType
        /\ PairsErased(d, i).keys = a
        /\ PairsErased(d, i).values = b
    BY <1>1, <2>2, <2>4 DEF LeafType
  <2> QED
    BY <2>5 DEF a, b
<1> QED
  BY <1>2, <1>3, <1>5, <1>6 DEF Held

LEMMA LeafMovedIn ==
  ASSUME NEW d, NEW ks, NEW vs, Held(d, ks, vs), NEW kk \in Seq(Item), NEW vv \in Seq(Item),
         Len(kk) = Len(vv), Len(kk) > 0, Len(ks) + Len(kk) <= Room, NEW i \in {0, Len(ks)}
  PROVE  Held(PairsMovedIn(d, i, kk, vv), IF i = 0 THEN kk \o ks ELSE ks \o kk,
                                          IF i = 0 THEN vv \o vs ELSE vs \o vv)
<1> DEFINE nk == IF i = 0 THEN kk \o ks ELSE ks \o kk
           nv == IF i = 0 THEN vv \o vs ELSE vs \o vv
<1>1. /\ d \in LeafType /\ Holds(d.keys, ks) /\ Holds(d.values, vs) /\ Len(ks) = Len(vs)
  BY DEF Held
<1>2. Holds(Inserted(d.keys, i, kk), nk)
  BY <1>1, InsertedHolds
<1>3. Holds(Inserted(d.values, i, vv), nv)
  BY <1>1, InsertedHolds
<1>4. Inserted(d.keys, i, kk) \in Vec /\ Inserted(d.values, i, vv) \in Vec
  BY <1>2, <1>3 DEF Holds
<1>5. Len(nk) = Len(nv)
  <2>1. ks \in Seq(Item) /\ vs \in Seq(Item)
    BY <1>1 DEF Holds
  <2>2. /\ Len(kk \o ks) = Len(kk) + Len(ks) /\ Len(ks \o kk) = Len(ks) + Len(kk)
        /\ Len(vv \o vs) = Len(vv) + Len(vs) /\ Len(vs \o vv) = Len(vs) + Len(vv)
    BY <2>1
  <2> QED
    BY <1>1, <2>2
<1>6. /\ PairsMovedIn(d, i, kk, vv) \in LeafType
      /\ PairsMovedIn(d, i, kk, vv).keys = Inserted(d.keys, i, kk)
      /\ PairsMovedIn(d, i, kk, vv).values = Inserted(d.values, i, vv)
  <2> DEFINE a == Inserted(d.keys, i, kk)
             b == Inserted(d.values, i, vv)
             e == [d EXCEPT !.keys = a]
  <2>1. PairsMovedIn(d, i, kk, vv) = [e EXCEPT !.values = Inserted(e.values, i, vv)]
    BY DEF PairsMovedIn, Sized
  <2>2. a \in Vec /\ b \in Vec
    BY <1>4
  <2> HIDE DEF a
  <2>3. e.values = d.values
    BY <1>1, <2>2 DEF LeafType
  <2>4. PairsMovedIn(d, i, kk, vv) = [e EXCEPT !.values = b]
    BY <2>1, <2>3
  <2> HIDE DEF b
  <2>5. /\ PairsMovedIn(d, i, kk, vv) \in LeafType
        /\ PairsMovedIn(d, i, kk, vv).keys = a
        /\ PairsMovedIn(d, i, kk, vv).values = b
    BY <1>1, <2>2, <2>4 DEF LeafType
  <2> QED
    BY <2>5 DEF a, b
<1> HIDE DEF nk, nv
<1>7. Held(PairsMovedIn(d, i, kk, vv), nk, nv)
  BY <1>2, <1>3, <1>5, <1>6 DEF Held
<1> QED
  BY <1>7 DEF nk, nv

\* What is left of a leaf that elements have been moved from: other lists of the same length, in
\* which only the elements moved from may be others.
MovedFrom(d, ks, vs, i, n) ==
  \E kk, vv \in Seq(Item) :
    /\ Held(d, kk, vv) /\ Len(kk) = Len(ks)
    /\ \A j \in 1 .. Len(ks) : j \notin i + 1 .. i + n => kk[j] = ks[j] /\ vv[j] = vs[j]

LEMMA LeafMovedOut ==
  ASSUME NEW d, NEW ks, NEW vs, Held(d, ks, vs), NEW i \in Nat, NEW n \in Nat, i + n <= Len(ks)
  PROVE  MovedFrom(PairsMovedOut(d, i, n), ks, vs, i, n)
<1> DEFINE kk == TakenList(d.keys, ks, i, n)
           vv == TakenList(d.values, vs, i, n)
<1>1. /\ d \in LeafType /\ Holds(d.keys, ks) /\ Holds(d.values, vs) /\ Len(ks) = Len(vs)
  BY DEF Held
<1>2. Holds(Taken(d.keys, i, n), kk) /\ Len(kk) = Len(ks)
  BY <1>1, TakenHolds
<1>3. Holds(Taken(d.values, i, n), vv) /\ Len(vv) = Len(vs)
  BY <1>1, TakenHolds
<1>4. /\ Taken(d.keys, i, n) \in Vec /\ Taken(d.values, i, n) \in Vec
      /\ kk \in Seq(Item) /\ vv \in Seq(Item)
  BY <1>2, <1>3 DEF Holds
<1>5. /\ PairsMovedOut(d, i, n) \in LeafType
      /\ PairsMovedOut(d, i, n).keys = Taken(d.keys, i, n)
      /\ PairsMovedOut(d, i, n).values = Taken(d.values, i, n)
  <2> DEFINE a == Taken(d.keys, i, n)
             b == Taken(d.values, i, n)
  <2>1. PairsMovedOut(d, i, n) = [d EXCEPT !.keys = a, !.values = b]
    BY DEF PairsMovedOut, Taken
  <2>2. a \in Vec /\ b \in Vec
    BY <1>4
  <2> HIDE DEF a, b
  <2>3. /\ PairsMovedOut(d, i, n) \in LeafType
        /\ PairsMovedOut(d, i, n).keys = a
        /\ PairsMovedOut(d, i, n).values = b
    BY <1>1, <2>1, <2>2 DEF LeafType
  <2> QED
    BY <2>3 DEF a, b
<1>6. \A j \in 1 .. Len(ks) : j \notin i + 1 .. i + n => kk[j] = ks[j] /\ vv[j] = vs[j]
  BY <1>1 DEF TakenList
<1> HIDE DEF kk, vv
<1>7. Held(PairsMovedOut(d, i, n), kk, vv)
  BY <1>1, <1>2, <1>3, <1>5 DEF Held
<1> QED
  BY <1>2, <1>4, <1>6, <1>7 DEF MovedFrom

-----------------------------------------------------------------------------
(* What the calls of container.h do to the lists of a leaf.                *)

\* The leaf d keeps the lists ks and vs, of keys and values that callers gave.
Keeps(d, ks, vs) ==
  Held(d, ks, vs) /\ ks \in Seq(KeySet) /\ vs \in Seq(ValueSet)

\* What get_data returns for the leaf d, and the pairs read from it.
DataOf(d) == [d EXCEPT !.values.size = d.keys.size]

PairsIn(d) ==
  [i \in 1 .. d.keys.size |-> <<KeysOf(DataOf(d))[i], ValuesOf(DataOf(d))[i]>>]

LEMMA Kept ==
  ASSUME NEW d, NEW ks, NEW vs, Keeps(d, ks, vs)
  PROVE  /\ d \in LeafType /\ d.keys.size = Len(ks) /\ Len(vs) = Len(ks)
         /\ Len(ks) \in 0 .. Room
         /\ DataOf(d) = d /\ KeysOf(d) = ks /\ ValuesOf(d) = vs /\ PairsIn(d) = Zip(ks, vs)
<1>1. /\ d \in LeafType /\ Holds(d.keys, ks) /\ Holds(d.values, vs) /\ Len(ks) = Len(vs)
  BY DEF Keeps, Held
<1>2. /\ d.keys.size = Len(ks) /\ d.values.size = Len(ks) /\ Len(ks) \in 0 .. Room
      /\ ks \in Seq(Item)
  BY <1>1, FixedAssumption DEF Holds
<1>3. DataOf(d) = d
  <2>1. d.values \in Vec
    BY <1>1 DEF LeafType
  <2>2. [d.values EXCEPT !.size = d.keys.size] = d.values
    BY <1>2, <2>1 DEF Vec
  <2> QED
    BY <1>1, <1>2, <2>1, <2>2 DEF DataOf, LeafType
<1>4. KeysOf(d) = ks /\ ValuesOf(d) = vs
  BY <1>1, HeldContents DEF KeysOf, ValuesOf
<1>5. PairsIn(d) = Zip(ks, vs)
  <2>1. Zip(ks, vs) = [i \in 1 .. Len(ks) |-> <<ks[i], vs[i]>>]
    BY <1>1, <1>2 DEF Zip
  <2> QED
    BY <1>2, <1>3, <1>4, <2>1 DEF PairsIn
<1> QED
  BY <1>1, <1>2, <1>3, <1>4, <1>5

LEMMA KeptReads ==
  ASSUME NEW d, NEW ks, NEW vs, Keeps(d, ks, vs), NEW i \in 0 .. Len(ks) - 1
  PROVE  /\ Read(d.keys, i) = ks[i + 1] /\ Read(d.values, i) = vs[i + 1]
         /\ ks[i + 1] \in KeySet /\ vs[i + 1] \in ValueSet
<1>1. /\ d \in LeafType /\ Holds(d.keys, ks) /\ Holds(d.values, vs) /\ Len(ks) = Len(vs)
      /\ ks \in Seq(KeySet) /\ vs \in Seq(ValueSet)
  BY DEF Keeps, Held
<1>2. i \in Nat /\ i + 1 \in 1 .. Len(ks) /\ i + 1 \in 1 .. Len(vs) /\ i \in 0 .. Room - 1
  <2>1. Len(ks) <= Room /\ Room \in Nat /\ Len(ks) \in Nat
    BY <1>1, FixedAssumption DEF Holds
  <2> QED
    BY <1>1, <2>1
<1>3. Read(d.keys, i) = d.keys.slot[i] /\ Read(d.values, i) = d.values.slot[i]
  BY <1>1, <1>2, ReadSlot DEF Holds
<1>4. d.keys.slot[i] = ks[i + 1] /\ d.values.slot[i] = vs[i + 1]
  BY <1>1, <1>2 DEF Holds
<1> QED
  BY <1>1, <1>2, <1>3, <1>4

LEMMA KeepsEmplaced ==
  ASSUME NEW d, NEW ks, NEW vs, Keeps(d, ks, vs), NEW i \in 0 .. Len(ks), Len(ks) < Room,
         NEW k \in KeySet, NEW v \in ValueSet
  PROVE  Keeps(PairEmplaced(d, i, k, v), InsertAt(ks, i + 1, k), InsertAt(vs, i + 1, v))
<1> DEFINE p == i + 1
<1>1. ks \in Seq(KeySet) /\ vs \in Seq(ValueSet) /\ Held(d, ks, vs) /\ Len(ks) = Len(vs)
  BY DEF Keeps, Held
<1>2. p \in 1 .. Len(ks) + 1 /\ p \in 1 .. Len(vs) + 1
  BY <1>1
<1>3. Held(PairEmplaced(d, i, k, v), InsertAt(ks, p, k), InsertAt(vs, p, v))
  <2>1. k \in Item /\ v \in Item
    BY Elements
  <2> QED
    BY <1>1, <2>1, LeafEmplaced
<1> HIDE DEF p
<1>4. /\ InsertedIn(InsertAt(ks, p, k), ks, p, k, KeySet)
      /\ InsertedIn(InsertAt(vs, p, v), vs, p, v, ValueSet)
  BY <1>1, <1>2, InsertingIn
<1>5. Keeps(PairEmplaced(d, i, k, v), InsertAt(ks, p, k), InsertAt(vs, p, v))
  BY <1>3, <1>4 DEF Keeps, InsertedIn
<1> QED
  BY <1>5 DEF p

LEMMA KeepsErased ==
  ASSUME NEW d, NEW ks, NEW vs, Keeps(d, ks, vs), NEW i \in 0 .. Len(ks) - 1
  PROVE  Keeps(PairErased(d, i), RemoveAt(ks, i + 1), RemoveAt(vs, i + 1))
<1> DEFINE p == i + 1
<1>1. ks \in Seq(KeySet) /\ vs \in Seq(ValueSet) /\ Held(d, ks, vs) /\ Len(ks) = Len(vs)
  BY DEF Keeps, Held
<1>2. p \in 1 .. Len(ks) /\ p \in 1 .. Len(vs)
  BY <1>1
<1>3. Held(PairErased(d, i), RemoveAt(ks, p), RemoveAt(vs, p))
  BY <1>1, LeafErased
<1> HIDE DEF p
<1>4. RemovedFrom(RemoveAt(ks, p), ks, p, KeySet) /\ RemovedFrom(RemoveAt(vs, p), vs, p, ValueSet)
  BY <1>1, <1>2, RemovingFrom
<1>5. Keeps(PairErased(d, i), RemoveAt(ks, p), RemoveAt(vs, p))
  BY <1>3, <1>4 DEF Keeps, RemovedFrom
<1> QED
  BY <1>5 DEF p

LEMMA SameHead ==
  ASSUME NEW S, NEW s \in Seq(S), NEW t \in Seq(S), Len(s) = Len(t), NEW i \in 0 .. Len(s),
         \A j \in 1 .. i : s[j] = t[j]
  PROVE  SubSeq(s, 1, i) = SubSeq(t, 1, i)
OBVIOUS

LEMMA SameRemoved ==
  ASSUME NEW S, NEW s \in Seq(S), NEW t \in Seq(S), Len(s) = Len(t), NEW i \in 1 .. Len(s),
         \A j \in 1 .. Len(s) : j # i => s[j] = t[j]
  PROVE  RemoveAt(s, i) = RemoveAt(t, i)
<1> DEFINE a == RemoveAt(s, i)
           b == RemoveAt(t, i)
           n == Len(s) - 1
<1>1. RemovedFrom(a, s, i, S) /\ RemovedFrom(b, t, i, S)
  BY RemovingFrom
<1> HIDE DEF a, b
<1>2. a \in Seq(S) /\ b \in Seq(S) /\ Len(a) = n /\ Len(b) = n /\ n \in Nat
  BY <1>1 DEF RemovedFrom
<1>3. ASSUME NEW j \in 1 .. n
      PROVE  a[j] = b[j]
  <2>1. j \in 1 .. Len(s) /\ j + 1 \in 1 .. Len(s)
    BY <1>2
  <2>2. CASE j < i
    BY <1>1, <1>2, <1>3, <2>1, <2>2 DEF RemovedFrom
  <2>3. CASE ~(j < i)
    <3>1. s[j + 1] = t[j + 1]
      BY <2>1, <2>3
    <3>2. a[j] = s[j + 1]
      BY <1>1, <1>2, <1>3, <2>3 DEF RemovedFrom
    <3>3. b[j] = t[j + 1]
      BY <1>1, <1>2, <1>3, <2>3 DEF RemovedFrom
    <3> QED
      BY <3>1, <3>2, <3>3
  <2> QED
    BY <2>2, <2>3
<1> QED
  BY <1>2, <1>3, SameSeq DEF a, b

\* An element or the elements from a position on are moved from and then erased: what is left is
\* what callers gave.
LEMMA KeepsTaken ==
  ASSUME NEW d, NEW ks, NEW vs, Keeps(d, ks, vs), NEW i \in 0 .. Len(ks) - 1
  PROVE  Keeps(PairErased(PairsMovedOut(d, i, 1), i), RemoveAt(ks, i + 1), RemoveAt(vs, i + 1))
<1> DEFINE p == i + 1
           m == PairsMovedOut(d, i, 1)
<1>1. ks \in Seq(KeySet) /\ vs \in Seq(ValueSet) /\ Held(d, ks, vs) /\ Len(ks) = Len(vs)
  BY DEF Keeps, Held
<1>2. /\ p \in 1 .. Len(ks) /\ p \in 1 .. Len(vs) /\ i \in Nat /\ i + 1 <= Len(ks)
      /\ ks \in Seq(Item) /\ vs \in Seq(Item)
  BY <1>1 DEF Held, Holds
<1>3. PICK kk \in Seq(Item), vv \in Seq(Item) :
        /\ Held(m, kk, vv) /\ Len(kk) = Len(ks)
        /\ \A j \in 1 .. Len(ks) : j \notin i + 1 .. i + 1 => kk[j] = ks[j] /\ vv[j] = vs[j]
  <2>1. MovedFrom(m, ks, vs, i, 1)
    BY <1>1, <1>2, LeafMovedOut
  <2> QED
    BY <2>1 DEF MovedFrom
<1>4. Len(vv) = Len(ks) /\ \A j \in 1 .. Len(ks) : j # p => kk[j] = ks[j] /\ vv[j] = vs[j]
  BY <1>2, <1>3 DEF Held
<1> HIDE DEF m
<1>5. Held(PairErased(m, i), RemoveAt(kk, p), RemoveAt(vv, p))
  BY <1>2, <1>3, LeafErased
<1>6. RemoveAt(kk, p) = RemoveAt(ks, p)
  BY <1>1, <1>2, <1>3, <1>4, SameRemoved DEF p
<1>7. RemoveAt(vv, p) = RemoveAt(vs, p)
  BY <1>1, <1>2, <1>3, <1>4, SameRemoved DEF p
<1> HIDE DEF p
<1>8. RemovedFrom(RemoveAt(ks, p), ks, p, KeySet) /\ RemovedFrom(RemoveAt(vs, p), vs, p, ValueSet)
  BY <1>1, <1>2, RemovingFrom
<1>9. Keeps(PairErased(m, i), RemoveAt(ks, p), RemoveAt(vs, p))
  BY <1>5, <1>6, <1>7, <1>8 DEF Keeps, RemovedFrom
<1> QED
  BY <1>9 DEF m, p

LEMMA KeepsCut ==
  ASSUME NEW d, NEW ks, NEW vs, Keeps(d, ks, vs), NEW i \in 0 .. Len(ks), NEW n, n = Len(ks) - i
  PROVE  Keeps(PairsErased(PairsMovedOut(d, i, n), i), SubSeq(ks, 1, i), SubSeq(vs, 1, i))
<1> DEFINE m == PairsMovedOut(d, i, n)
<1>1. ks \in Seq(KeySet) /\ vs \in Seq(ValueSet) /\ Held(d, ks, vs) /\ Len(ks) = Len(vs)
  BY DEF Keeps, Held
<1>2. i \in Nat /\ n \in Nat /\ i + n = Len(ks) /\ ks \in Seq(Item) /\ vs \in Seq(Item)
  BY <1>1 DEF Held, Holds
<1>3. PICK kk \in Seq(Item), vv \in Seq(Item) :
        /\ Held(m, kk, vv) /\ Len(kk) = Len(ks)
        /\ \A j \in 1 .. Len(ks) : j \notin i + 1 .. i + n => kk[j] = ks[j] /\ vv[j] = vs[j]
  <2>1. MovedFrom(m, ks, vs, i, n)
    BY <1>1, <1>2, LeafMovedOut
  <2> QED
    BY <2>1 DEF MovedFrom
<1>4. Len(vv) = Len(ks) /\ \A j \in 1 .. i : kk[j] = ks[j] /\ vv[j] = vs[j]
  BY <1>2, <1>3 DEF Held
<1> HIDE DEF m
<1>5. Held(PairsErased(m, i), SubSeq(kk, 1, i), SubSeq(vv, 1, i))
  BY <1>2, <1>3, LeafTailErased
<1>6. SubSeq(kk, 1, i) = SubSeq(ks, 1, i)
  BY <1>1, <1>2, <1>3, <1>4, SameHead
<1>7. SubSeq(vv, 1, i) = SubSeq(vs, 1, i)
  BY <1>1, <1>2, <1>3, <1>4, SameHead
<1>8. SubSeq(ks, 1, i) \in Seq(KeySet) /\ SubSeq(vs, 1, i) \in Seq(ValueSet)
  BY <1>1, <1>2, Heading
<1> QED
  BY <1>5, <1>6, <1>7, <1>8 DEF Keeps, m

LEMMA KeepsMovedIn ==
  ASSUME NEW d, NEW ks, NEW vs, Keeps(d, ks, vs), NEW kk \in Seq(KeySet), NEW vv \in Seq(ValueSet),
         Len(kk) = Len(vv), Len(kk) > 0, Len(ks) + Len(kk) <= Room, NEW i \in {0, Len(ks)}
  PROVE  Keeps(PairsMovedIn(d, i, kk, vv), IF i = 0 THEN kk \o ks ELSE ks \o kk,
                                           IF i = 0 THEN vv \o vs ELSE vs \o vv)
<1> DEFINE nk == IF i = 0 THEN kk \o ks ELSE ks \o kk
           nv == IF i = 0 THEN vv \o vs ELSE vs \o vv
<1>1. ks \in Seq(KeySet) /\ vs \in Seq(ValueSet) /\ Held(d, ks, vs)
  BY DEF Keeps
<1>2. kk \in Seq(Item) /\ vv \in Seq(Item)
  BY Elements
<1>3. Held(PairsMovedIn(d, i, kk, vv), nk, nv)
  BY <1>1, <1>2, LeafMovedIn
<1>4. nk \in Seq(KeySet) /\ nv \in Seq(ValueSet)
  BY <1>1
<1> HIDE DEF nk, nv
<1>5. Keeps(PairsMovedIn(d, i, kk, vv), nk, nv)
  BY <1>3, <1>4 DEF Keeps
<1> QED
  BY <1>5 DEF nk, nv

-----------------------------------------------------------------------------
(* The two leaves                                                          *)

\* Each leaf keeps a list of keys and a list of as many values.
IInv ==
  /\ leaf \in [Side -> LeafType]
  /\ \A s \in Side : \E ks, vs : Keeps(leaf[s], ks, vs)

LEMMA Sides ==
  /\ Other("left") = "right" /\ Other("right") = "left"
  /\ \A s \in Side : Other(s) \in Side /\ Other(s) # s /\ \A o \in Side : o = s \/ o = Other(s)
<1>1. Other("left") \in Side /\ Other("left") # "left"
  BY DEF Other, Side
<1>2. Other("right") \in Side /\ Other("right") # "right"
  BY DEF Other, Side
<1> QED
  BY <1>1, <1>2 DEF Side

LEMMA Viewed ==
  ASSUME NEW s \in Side, NEW ks, NEW vs, Keeps(leaf[s], ks, vs)
  PROVE  Data(s) = leaf[s] /\ Pairs(s) = Zip(ks, vs)
<1>1. Data(s) = DataOf(leaf[s]) /\ Pairs(s) = PairsIn(leaf[s])
  BY DEF Data, DataOf, Pairs, PairsIn
<1> QED
  BY <1>1, Kept

LEMMA ViewedNext ==
  ASSUME NEW s \in Side, NEW ks, NEW vs, Keeps(leaf'[s], ks, vs)
  PROVE  Pairs(s)' = Zip(ks, vs)
<1>1. Pairs(s)' = PairsIn(leaf'[s])
  BY DEF Data, DataOf, Pairs, PairsIn
<1> QED
  BY <1>1, Kept

LEMMA EmptyHolds ==
  ASSUME NEW t \in BOOLEAN
  PROVE  Holds(EmptyVec(t), << >>)
<1>1. /\ EmptyVec(t).slot = [a \in 0 .. Room - 1 |-> Raw] /\ EmptyVec(t).size = 0
      /\ EmptyVec(t).trivial = t /\ EmptyVec(t).fault = FALSE
      /\ EmptyVec(t) = [slot |-> Buffer(Room), size |-> 0, trivial |-> t, fault |-> FALSE]
  BY DEF EmptyVec, Buffer
<1>2. [a \in 0 .. Room - 1 |-> Raw] \in Slot
  BY DEF Slot, Object
<1>3. EmptyVec(t) \in Vec
  BY <1>1, <1>2 DEF Vec, Buffer
<1>4. << >> \in Seq(Item) /\ Len(<< >>) = 0
  OBVIOUS
<1>5. \A a \in 0 .. Room - 1 : EmptyVec(t).slot[a] = Raw
  BY <1>1
<1>6. 0 .. 0 - 1 = {}
  OBVIOUS
<1> QED
  BY <1>1, <1>3, <1>4, <1>5, <1>6, FixedAssumption DEF Holds

LEMMA InitIInv == Init => IInv
<1> SUFFICES ASSUME Init PROVE IInv
  OBVIOUS
<1>1. PICK k \in BOOLEAN, v \in BOOLEAN :
        leaf = [s \in Side |-> [keys |-> EmptyVec(k), values |-> EmptyVec(v)]]
  BY DEF Init
<1> DEFINE d == [keys |-> EmptyVec(k), values |-> EmptyVec(v)]
<1>2. d.keys = EmptyVec(k) /\ d.values = EmptyVec(v)
  OBVIOUS
<1>3. Holds(EmptyVec(k), << >>) /\ Holds(EmptyVec(v), << >>)
  BY EmptyHolds
<1>4. d \in LeafType
  BY <1>3 DEF LeafType, Holds
<1>5. << >> \in Seq(KeySet) /\ << >> \in Seq(ValueSet)
  OBVIOUS
<1>6. Keeps(d, << >>, << >>)
  BY <1>2, <1>3, <1>4, <1>5 DEF Keeps, Held
<1> HIDE DEF d
<1>7. leaf \in [Side -> LeafType] /\ \A s \in Side : leaf[s] = d
  BY <1>1, <1>4 DEF d
<1> QED
  BY <1>6, <1>7 DEF IInv

LEMMA IInvInStep == IInv => InStep
<1> SUFFICES ASSUME IInv, NEW s \in Side
             PROVE  /\ Exact(Data(s).keys, KeySet) /\ ~leaf[s].keys.fault
                    /\ Exact(Data(s).values, ValueSet) /\ ~leaf[s].values.fault
  BY DEF InStep
<1> DEFINE d == leaf[s]
<1>1. PICK ks, vs : Keeps(d, ks, vs)
  BY DEF IInv
<1>2. Data(s) = d
  BY <1>1, Viewed
<1>3. Holds(d.keys, ks) /\ Holds(d.values, vs) /\ ks \in Seq(KeySet) /\ vs \in Seq(ValueSet)
  BY <1>1 DEF Keeps, Held
<1> HIDE DEF d
<1>4. ASSUME NEW w, NEW u, NEW S, Holds(w, u), u \in Seq(S)
      PROVE  Exact(w, S) /\ ~w.fault
  <2>1. /\ w \in Vec /\ ~w.fault /\ w.size = Len(u) /\ Len(u) \in Nat /\ Len(u) <= Room
        /\ Room \in Nat
    BY <1>4, FixedAssumption DEF Holds
  <2>2. DOMAIN w.slot = 0 .. Room - 1
    BY <2>1 DEF Vec, Slot
  <2>3. ASSUME NEW a \in 0 .. Room - 1, a < w.size
        PROVE  w.slot[a] \in S
    <3>1. a \in 0 .. Len(u) - 1 /\ a + 1 \in 1 .. Len(u)
      BY <2>1, <2>3
    <3>2. w.slot[a] = u[a + 1]
      BY <1>4, <3>1 DEF Holds
    <3> QED
      BY <1>4, <3>1, <3>2
  <2>4. ASSUME NEW a \in 0 .. Room - 1, ~w.trivial, a >= w.size
        PROVE  w.slot[a] = Raw
    <3>1. a \in Len(u) .. Room - 1
      BY <2>1, <2>4
    <3> QED
      BY <1>4, <2>4, <3>1 DEF Holds
  <2> QED
    BY <2>1, <2>2, <2>3, <2>4 DEF Exact
<1> QED
  BY <1>2, <1>3, <1>4 DEF d

-----------------------------------------------------------------------------
(* The steps: what each does to the lists of the two leaves                *)

\* The two leaves after a step that changes one of them, or both.
LEMMA OneWritten ==
  ASSUME leaf \in [Side -> LeafType], NEW s \in Side, NEW x \in LeafType,
         leaf' = [leaf EXCEPT ![s] = x]
  PROVE  leaf' \in [Side -> LeafType] /\ leaf'[s] = x /\ leaf'[Other(s)] = leaf[Other(s)]
<1>1. Other(s) \in Side /\ Other(s) # s
  BY Sides
<1> HIDE DEF LeafType
<1> QED
  BY <1>1

LEMMA BothWritten ==
  ASSUME leaf \in [Side -> LeafType], NEW s \in Side, NEW x \in LeafType, NEW y \in LeafType,
         leaf' = [leaf EXCEPT ![s] = x, ![Other(s)] = y]
  PROVE  leaf' \in [Side -> LeafType] /\ leaf'[s] = x /\ leaf'[Other(s)] = y
<1>1. Other(s) \in Side /\ Other(s) # s
  BY Sides
<1> QED
  BY <1>1

\* Both leaves are sound again when each keeps lists.
LEMMA BothKeep ==
  ASSUME leaf' \in [Side -> LeafType], NEW s \in Side, NEW a, NEW b, NEW c, NEW d,
         Keeps(leaf'[s], a, b), Keeps(leaf'[Other(s)], c, d)
  PROVE  IInv'
<1> SUFFICES ASSUME NEW o \in Side
             PROVE  \E ks, vs : Keeps(leaf'[o], ks, vs)
  BY DEF IInv
<1>1. o = s \/ o = Other(s)
  BY Sides
<1> QED
  BY <1>1

\* One leaf's list of pairs gains or loses a pair.
Change ==
  \E s \in Side :
    /\ Pairs(Other(s))' = Pairs(Other(s))
    /\ \/ \E i \in 1..Len(Pairs(s)) + 1, e \in Entries : Pairs(s)' = InsertAt(Pairs(s), i, e)
       \/ \E i \in DOMAIN Pairs(s) : Pairs(s)' = RemoveAt(Pairs(s), i)

LEMMA StepEmplace ==
  ASSUME IInv, NEW s \in Side, NEW i \in 0 .. 2 * N, NEW e \in Entries, Emplace(s, i, e)
  PROVE  IInv' /\ Change
<1> DEFINE d == leaf[s]
           o == Other(s)
           p == i + 1
<1>1. o \in Side /\ o # s /\ leaf \in [Side -> LeafType]
  BY Sides DEF IInv
<1>2. PICK ks, vs : Keeps(d, ks, vs)
  BY DEF IInv
<1>3. PICK ks2, vs2 : Keeps(leaf[o], ks2, vs2)
  BY <1>1 DEF IInv
<1>4. /\ d.keys.size = Len(ks) /\ Len(vs) = Len(ks) /\ Len(ks) \in Nat
      /\ ks \in Seq(KeySet) /\ vs \in Seq(ValueSet)
  BY <1>2, Kept DEF Keeps
<1>5. Data(s) = d /\ Pairs(s) = Zip(ks, vs) /\ Pairs(o) = Zip(ks2, vs2)
  BY <1>1, <1>2, <1>3, Viewed
<1>6. i \in 0 .. Len(ks) /\ Len(ks) < Room /\ p \in 1 .. Len(ks) + 1
  BY <1>4, SplitAssumption DEF Emplace
<1>7. e[1] \in KeySet /\ e[2] \in ValueSet /\ e = <<e[1], e[2]>>
  BY Elements
<1> DEFINE kk == InsertAt(ks, p, e[1])
           vv == InsertAt(vs, p, e[2])
           x == PairEmplaced(d, i, e[1], e[2])
<1>8. Keeps(x, kk, vv)
  BY <1>2, <1>6, <1>7, KeepsEmplaced
<1>9. leaf' = [leaf EXCEPT ![s] = x]
  BY <1>5 DEF Emplace
<1> DEFINE z == Zip(ks, vs)
<1>10. Zip(kk, vv) = InsertAt(z, p, <<e[1], e[2]>>)
  <2> DEFINE k == e[1]
             v == e[2]
  <2>1. k \in KeySet /\ v \in ValueSet
    BY <1>7
  <2> HIDE DEF k, v, p
  <2>2. Zip(InsertAt(ks, p, k), InsertAt(vs, p, v)) = InsertAt(Zip(ks, vs), p, <<k, v>>)
    BY <1>4, <1>6, <2>1, ZipInsert
  <2> QED
    BY <2>2 DEF k, v
<1>11. Len(z) = Len(ks)
  <2>1. ZippedFrom(z, ks, vs, KeySet \X ValueSet)
    BY <1>4, Zipped
  <2> QED
    BY <2>1 DEF ZippedFrom
<1> HIDE DEF kk, vv, x, z, d, o, p
<1>12. x \in LeafType
  BY <1>8 DEF Keeps, Held
<1>13. leaf' \in [Side -> LeafType] /\ leaf'[s] = x /\ leaf'[o] = leaf[o]
  BY <1>1, <1>9, <1>12, OneWritten DEF o
<1>14. IInv'
  BY <1>3, <1>8, <1>13, BothKeep DEF o
<1>15. Pairs(s)' = InsertAt(z, p, e) /\ Pairs(o)' = Pairs(o)
  BY <1>1, <1>3, <1>5, <1>7, <1>8, <1>10, <1>13, ViewedNext
<1> QED
  BY <1>5, <1>6, <1>11, <1>14, <1>15 DEF Change, z, o

LEMMA StepErase ==
  ASSUME IInv, NEW s \in Side, NEW i \in 0 .. 2 * N, Erase(s, i)
  PROVE  IInv' /\ Change
<1> DEFINE d == leaf[s]
           o == Other(s)
           p == i + 1
<1>1. o \in Side /\ o # s /\ leaf \in [Side -> LeafType]
  BY Sides DEF IInv
<1>2. PICK ks, vs : Keeps(d, ks, vs)
  BY DEF IInv
<1>3. PICK ks2, vs2 : Keeps(leaf[o], ks2, vs2)
  BY <1>1 DEF IInv
<1>4. /\ d.keys.size = Len(ks) /\ Len(vs) = Len(ks) /\ Len(ks) \in Nat
      /\ ks \in Seq(KeySet) /\ vs \in Seq(ValueSet)
  BY <1>2, Kept DEF Keeps
<1>5. Data(s) = d /\ Pairs(s) = Zip(ks, vs) /\ Pairs(o) = Zip(ks2, vs2)
  BY <1>1, <1>2, <1>3, Viewed
<1>6. i \in 0 .. Len(ks) - 1 /\ p \in 1 .. Len(ks)
  BY <1>4, SplitAssumption DEF Erase
<1> DEFINE kk == RemoveAt(ks, p)
           vv == RemoveAt(vs, p)
           x == PairErased(d, i)
<1>8. Keeps(x, kk, vv)
  BY <1>2, <1>6, KeepsErased
<1>9. leaf' = [leaf EXCEPT ![s] = x]
  BY <1>5 DEF Erase
<1> DEFINE z == Zip(ks, vs)
<1>10. Zip(kk, vv) = RemoveAt(z, p)
  BY <1>4, <1>6, ZipRemove
<1>11. DOMAIN z = 1 .. Len(ks)
  BY <1>4 DEF Zip
<1> HIDE DEF kk, vv, x, z, d, o, p
<1>12. x \in LeafType
  BY <1>8 DEF Keeps, Held
<1>13. leaf' \in [Side -> LeafType] /\ leaf'[s] = x /\ leaf'[o] = leaf[o]
  BY <1>1, <1>9, <1>12, OneWritten DEF o
<1>14. IInv'
  BY <1>3, <1>8, <1>13, BothKeep DEF o
<1>15. Pairs(s)' = RemoveAt(z, p) /\ Pairs(o)' = Pairs(o)
  BY <1>1, <1>3, <1>5, <1>8, <1>10, <1>13, ViewedNext
<1> QED
  BY <1>5, <1>6, <1>11, <1>14, <1>15 DEF Change, z, o

\* The pairs of both leaves, from the left to the right, stay as they are.
Rearranged ==
  Pairs("left")' \o Pairs("right")' = Pairs("left") \o Pairs("right")

LEMMA SameLists ==
  ASSUME NEW a, NEW b, NEW c, NEW d, Keeps(leaf["left"], a, b), Keeps(leaf["right"], c, d),
         leaf' \in [Side -> LeafType], NEW aa, NEW bb, NEW cc, NEW dd,
         Keeps(leaf'["left"], aa, bb), Keeps(leaf'["right"], cc, dd),
         AsBefore(aa, cc, a, c), AsBefore(bb, dd, b, d)
  PROVE  IInv' /\ Rearranged
<1>1. "left" \in Side /\ "right" \in Side /\ Other("left") = "right"
  BY Sides DEF Side
<1>2. Pairs("left") = Zip(a, b) /\ Pairs("right") = Zip(c, d)
  BY <1>1, Viewed
<1>3. Pairs("left")' = Zip(aa, bb)
  BY <1>1, ViewedNext
<1>4. Pairs("right")' = Zip(cc, dd)
  BY <1>1, ViewedNext
<1>5. /\ a \in Seq(KeySet) /\ c \in Seq(KeySet) /\ b \in Seq(ValueSet) /\ d \in Seq(ValueSet)
      /\ Len(a) = Len(b) /\ Len(c) = Len(d)
  BY DEF Keeps, Held
<1>6. /\ aa \in Seq(KeySet) /\ cc \in Seq(KeySet) /\ bb \in Seq(ValueSet) /\ dd \in Seq(ValueSet)
      /\ Len(aa) = Len(bb) /\ Len(cc) = Len(dd)
  BY DEF Keeps, Held
<1>7. ZipsJoin(a, b, c, d)
  BY <1>5, ZipJoin
<1>8. ZipsJoin(aa, bb, cc, dd)
  BY <1>6, ZipJoin
<1>9. IInv'
  BY <1>1, BothKeep
<1> QED
  BY <1>2, <1>3, <1>4, <1>7, <1>8, <1>9 DEF Rearranged, ZipsJoin, AsBefore

LEMMA AllJoined ==
  ASSUME NEW S, NEW s \in Seq(S), NEW t \in Seq(S), NEW e \in Seq(S), Len(e) = 0
  PROVE  AsBefore(e, s \o t, s, t) /\ AsBefore(s \o t, e, s, t)
<1> DEFINE q == s \o t
<1>1. q \in Seq(S)
  OBVIOUS
<1> HIDE DEF q
<1>2. e \o q = q /\ q \o e = q
  BY <1>1
<1> QED
  BY <1>2 DEF AsBefore, q

LEMMA StepSplit ==
  ASSUME IInv, Split
  PROVE  IInv' /\ Rearranged
<1> DEFINE l == leaf["left"]
           r == leaf["right"]
<1>1. /\ "left" \in Side /\ "right" \in Side /\ Other("left") = "right"
      /\ leaf \in [Side -> LeafType]
  BY Sides DEF Side, IInv
<1>2. PICK a, b : Keeps(l, a, b)
  BY <1>1 DEF IInv
<1>3. PICK c, d : Keeps(r, c, d)
  BY <1>1 DEF IInv
<1>4. Data("left") = l /\ Data("right") = r
  BY <1>1, <1>2, <1>3, Viewed
<1>5. /\ l.keys.size = Len(a) /\ Len(b) = Len(a) /\ KeysOf(l) = a /\ ValuesOf(l) = b
      /\ a \in Seq(KeySet) /\ b \in Seq(ValueSet)
  BY <1>2, Kept DEF Keeps
<1>6. /\ r.keys.size = Len(c) /\ Len(d) = Len(c) /\ c \in Seq(KeySet) /\ d \in Seq(ValueSet)
  BY <1>3, Kept DEF Keeps
<1>7. /\ Len(a) = 2 * N /\ Len(c) = 0 /\ N \in Nat /\ N > 0 /\ Room = 2 * N
  BY <1>4, <1>5, <1>6, SplitAssumption DEF Split
<1> DEFINE ka == From(a, N)
           vb == From(b, N)
           x == PairsErased(PairsMovedOut(l, N, N), N)
           y == PairsMovedIn(r, 0, ka, vb)
<1>8. leaf' = [leaf EXCEPT !["left"] = x, !["right"] = y]
  BY <1>4, <1>5 DEF Split
<1>9. N \in 0 .. Len(a) /\ N \in 0 .. Len(b) /\ N = Len(a) - N
  BY <1>5, <1>7
<1>10. Keeps(x, SubSeq(a, 1, N), SubSeq(b, 1, N))
  BY <1>2, <1>9, KeepsCut
<1>11. /\ ka \in Seq(KeySet) /\ vb \in Seq(ValueSet) /\ Len(ka) = N /\ Len(vb) = N
  BY <1>5, <1>7, <1>9, Trailing
<1>12. AsBefore(SubSeq(a, 1, N), ka \o c, a, c) /\ AsBefore(SubSeq(b, 1, N), vb \o d, b, d)
  BY <1>5, <1>6, <1>7, <1>9, SplitSeq
<1> DEFINE aa == SubSeq(a, 1, N)
           bb == SubSeq(b, 1, N)
           cc == ka \o c
           dd == vb \o d
<1> HIDE DEF ka, vb
<1>13. Keeps(y, cc, dd)
  <2>1. Len(ka) = Len(vb) /\ Len(ka) > 0 /\ Len(c) + Len(ka) <= Room
    BY <1>7, <1>11
  <2> QED
    BY <1>3, <1>11, <2>1, KeepsMovedIn
<1> HIDE DEF x, y, aa, bb, cc, dd
<1>14. x \in LeafType /\ y \in LeafType
  BY <1>10, <1>13 DEF Keeps, Held
<1>15. leaf' \in [Side -> LeafType] /\ leaf'["left"] = x /\ leaf'["right"] = y
  BY <1>1, <1>8, <1>14, BothWritten
<1>16. AsBefore(aa, cc, a, c) /\ AsBefore(bb, dd, b, d)
  BY <1>12 DEF aa, bb, cc, dd
<1>17. Keeps(leaf'["left"], aa, bb) /\ Keeps(leaf'["right"], cc, dd)
  BY <1>10, <1>13, <1>15 DEF aa, bb
<1> QED
  BY <1>2, <1>3, <1>15, <1>16, <1>17, SameLists

LEMMA StepMerge ==
  ASSUME IInv, NEW t \in Side, Merge(t)
  PROVE  IInv' /\ Rearranged
<1> DEFINE o == Other(t)
           l == leaf[t]
           r == leaf[o]
           at == IF t = "right" THEN 0 ELSE N
<1>1. o \in Side /\ leaf \in [Side -> LeafType]
  BY Sides DEF IInv
<1>2. PICK a, b : Keeps(l, a, b)
  BY DEF IInv
<1>3. PICK c, d : Keeps(r, c, d)
  BY <1>1 DEF IInv
<1>4. Data(t) = l /\ Data(o) = r
  BY <1>1, <1>2, <1>3, Viewed
<1>5. l.keys.size = Len(a) /\ Len(b) = Len(a) /\ a \in Seq(KeySet) /\ b \in Seq(ValueSet)
  BY <1>2, Kept DEF Keeps
<1>6. /\ r.keys.size = Len(c) /\ Len(d) = Len(c) /\ c \in Seq(KeySet) /\ d \in Seq(ValueSet)
      /\ KeysOf(r) = c /\ ValuesOf(r) = d
  BY <1>3, Kept DEF Keeps
<1>7. /\ Len(a) = N /\ Len(c) \in 1 .. N /\ N \in Nat /\ N > 0 /\ Room = 2 * N
  <2>1. l.keys.size = N /\ Data(o).keys.size \in 1 .. N
    BY DEF Merge
  <2> HIDE DEF l, r, o
  <2> QED
    BY <1>4, <1>5, <1>6, <2>1, SplitAssumption
<1> DEFINE n == Len(c)
           x == PairsMovedIn(l, at, c, d)
           y == PairsErased(PairsMovedOut(r, 0, n), 0)
           aa == IF at = 0 THEN c \o a ELSE a \o c
           bb == IF at = 0 THEN d \o b ELSE b \o d
           cc == SubSeq(c, 1, 0)
           dd == SubSeq(d, 1, 0)
<1>8. leaf' = [leaf EXCEPT ![t] = x, ![o] = y]
  BY <1>4, <1>6 DEF Merge
<1>9. Keeps(x, aa, bb)
  <2>1. Len(c) = Len(d) /\ Len(c) > 0 /\ Len(a) + Len(c) <= Room /\ at \in {0, Len(a)}
    BY <1>6, <1>7
  <2> HIDE DEF at
  <2> QED
    BY <1>2, <1>6, <2>1, KeepsMovedIn
<1>10. Keeps(y, cc, dd)
  <2>1. 0 \in 0 .. Len(c) /\ n = Len(c) - 0
    BY <1>7
  <2> HIDE DEF n
  <2> QED
    BY <1>3, <2>1, KeepsCut
<1>11. cc \in Seq(KeySet) /\ dd \in Seq(ValueSet) /\ Len(cc) = 0 /\ Len(dd) = 0
  BY <1>6, <1>7, Heading
<1> HIDE DEF x, y, cc, dd
<1>12. x \in LeafType /\ y \in LeafType
  BY <1>9, <1>10 DEF Keeps, Held
<1>13. leaf' \in [Side -> LeafType] /\ leaf'[t] = x /\ leaf'[o] = y
  BY <1>1, <1>8, <1>12, BothWritten
<1>14. CASE t = "right"
  <2>1. at = 0 /\ aa = c \o a /\ bb = d \o b /\ o = "left"
    BY <1>14, Sides
  <2>2. AsBefore(cc, aa, c, a) /\ AsBefore(dd, bb, d, b)
    BY <1>5, <1>6, <1>11, <2>1, AllJoined
  <2> HIDE DEF aa, bb, at, o
  <2> QED
    BY <1>2, <1>3, <1>9, <1>10, <1>13, <1>14, <2>1, <2>2, SameLists
<1>15. CASE t = "left"
  <2>1. at # 0 /\ aa = a \o c /\ bb = b \o d /\ o = "right"
    BY <1>7, <1>15, Sides
  <2>2. AsBefore(aa, cc, a, c) /\ AsBefore(bb, dd, b, d)
    BY <1>5, <1>6, <1>11, <2>1, AllJoined
  <2> HIDE DEF aa, bb, at, o
  <2> QED
    BY <1>2, <1>3, <1>9, <1>10, <1>13, <1>15, <2>1, <2>2, SameLists
<1> QED
  BY <1>14, <1>15 DEF Side

LEMMA StepBorrow ==
  ASSUME IInv, NEW t \in Side, Borrow(t)
  PROVE  IInv' /\ Rearranged
<1> DEFINE o == Other(t)
           l == leaf[t]
           r == leaf[o]
           i == IF t = "right" THEN r.keys.size - 1 ELSE 0
           at == IF t = "right" THEN 0 ELSE l.keys.size
           p == i + 1
           q == at + 1
<1>1. o \in Side /\ leaf \in [Side -> LeafType]
  BY Sides DEF IInv
<1>2. PICK a, b : Keeps(l, a, b)
  BY DEF IInv
<1>3. PICK c, d : Keeps(r, c, d)
  BY <1>1 DEF IInv
<1>4. Data(t) = l /\ Data(o) = r
  BY <1>1, <1>2, <1>3, Viewed
<1>5. /\ l.keys.size = Len(a) /\ Len(b) = Len(a) /\ a \in Seq(KeySet) /\ b \in Seq(ValueSet)
      /\ Len(a) \in Nat
  BY <1>2, Kept DEF Keeps
<1>6. /\ r.keys.size = Len(c) /\ Len(d) = Len(c) /\ c \in Seq(KeySet) /\ d \in Seq(ValueSet)
      /\ Len(c) \in Nat
  BY <1>3, Kept DEF Keeps
<1>7. Len(c) > 0 /\ Len(a) < Room
  <2>1. N \in Nat /\ N > 0 /\ Room = 2 * N
    BY SplitAssumption
  <2>2. \/ Len(c) > N /\ Len(a) < 2 * N
        \/ t = "left" /\ leaf["right"].keys.size > 0 /\ leaf["left"].keys.size <= N
    BY <1>5, <1>6 DEF Borrow, CanBorrow
  <2>3. CASE Len(c) > N /\ Len(a) < 2 * N
    BY <1>6, <2>1, <2>3
  <2>4. CASE t = "left" /\ leaf["right"].keys.size > 0 /\ leaf["left"].keys.size <= N
    <3>1. Len(c) > 0 /\ Len(a) <= N
      BY <1>5, <1>6, <2>4, Sides
    <3> QED
      BY <1>5, <2>1, <3>1
  <2> QED
    BY <2>2, <2>3, <2>4
<1>8. i \in 0 .. Len(c) - 1 /\ at \in 0 .. Len(a)
  BY <1>5, <1>6, <1>7
<1> DEFINE k == c[p]
           v == d[p]
<1>9. Read(r.keys, i) = k /\ Read(r.values, i) = v /\ k \in KeySet /\ v \in ValueSet
  <2> HIDE DEF i
  <2> QED
    BY <1>3, <1>8, KeptReads
<1> DEFINE x == PairEmplaced(l, at, k, v)
           y == PairErased(PairsMovedOut(r, i, 1), i)
           aa == InsertAt(a, q, k)
           bb == InsertAt(b, q, v)
           cc == RemoveAt(c, p)
           dd == RemoveAt(d, p)
<1>10. leaf' = [leaf EXCEPT ![t] = x, ![o] = y]
  BY <1>4, <1>9 DEF Borrow
<1>11. Keeps(x, aa, bb)
  <2> HIDE DEF at, k, v
  <2> QED
    BY <1>2, <1>7, <1>8, <1>9, KeepsEmplaced
<1>12. Keeps(y, cc, dd)
  <2> HIDE DEF i
  <2> QED
    BY <1>3, <1>8, KeepsTaken
<1> HIDE DEF x, y
<1>13. x \in LeafType /\ y \in LeafType
  BY <1>11, <1>12 DEF Keeps, Held
<1>14. leaf' \in [Side -> LeafType] /\ leaf'[t] = x /\ leaf'[o] = y
  BY <1>1, <1>10, <1>13, BothWritten
<1>15. CASE t = "right"
  <2>1. p = Len(c) /\ p = Len(d) /\ q = 1 /\ o = "left"
    BY <1>6, <1>15, Sides
  <2>2. AsBefore(RemoveAt(c, Len(c)), InsertAt(a, 1, c[Len(c)]), c, a)
    BY <1>5, <1>6, <1>7, LastToFirst
  <2>3. AsBefore(RemoveAt(d, Len(d)), InsertAt(b, 1, d[Len(d)]), d, b)
    BY <1>5, <1>6, <1>7, LastToFirst
  <2> HIDE DEF p, q
  <2>4. AsBefore(cc, aa, c, a) /\ AsBefore(dd, bb, d, b)
    BY <2>1, <2>2, <2>3
  <2> HIDE DEF aa, bb, cc, dd, o
  <2> QED
    BY <1>2, <1>3, <1>11, <1>12, <1>14, <1>15, <2>1, <2>4, SameLists
<1>16. CASE t = "left"
  <2>1. p = 1 /\ q = Len(a) + 1 /\ q = Len(b) + 1 /\ o = "right"
    BY <1>5, <1>16, Sides
  <2>2. AsBefore(InsertAt(a, Len(a) + 1, c[1]), RemoveAt(c, 1), a, c)
    BY <1>5, <1>6, <1>7, FirstToLast
  <2>3. AsBefore(InsertAt(b, Len(b) + 1, d[1]), RemoveAt(d, 1), b, d)
    BY <1>5, <1>6, <1>7, FirstToLast
  <2> HIDE DEF p, q
  <2>4. AsBefore(aa, cc, a, c) /\ AsBefore(bb, dd, b, d)
    BY <2>1, <2>2, <2>3
  <2> HIDE DEF aa, bb, cc, dd, o
  <2> QED
    BY <1>2, <1>3, <1>11, <1>12, <1>14, <1>16, <2>1, <2>4, SameLists
<1> QED
  BY <1>15, <1>16 DEF Side

\* No step leaves the invariant, and each is either a change of one leaf or moves what the two
\* keep between them.
LEMMA Steps ==
  ASSUME IInv, [Next]_vars
  PROVE  /\ IInv'
         /\ (moving' => Rearranged) \/ UNCHANGED vars
         /\ (~moving' => Change) \/ UNCHANGED vars
<1>1. ASSUME NEW s \in Side, NEW i \in 0 .. 2 * N, NEW e \in Entries, Emplace(s, i, e)
      PROVE  IInv' /\ Change /\ ~moving'
  BY <1>1, StepEmplace DEF Emplace
<1>2. ASSUME NEW s \in Side, NEW i \in 0 .. 2 * N, Erase(s, i)
      PROVE  IInv' /\ Change /\ ~moving'
  BY <1>2, StepErase DEF Erase
<1>3. ASSUME NEW s \in Side, Borrow(s)
      PROVE  IInv' /\ Rearranged /\ moving'
  BY <1>3, StepBorrow DEF Borrow
<1>4. ASSUME NEW s \in Side, Merge(s)
      PROVE  IInv' /\ Rearranged /\ moving'
  BY <1>4, StepMerge DEF Merge
<1>5. CASE Split
  BY <1>5, StepSplit DEF Split
<1>6. CASE UNCHANGED vars
  BY <1>6 DEF IInv, vars
<1> QED
  BY <1>1, <1>2, <1>3, <1>4, <1>5, <1>6 DEF Next

\* In every leaf, each key lies beside a value: both arrays hold as many objects, in exactly the
\* slots below the leaf's size, and none of them has been moved from or lost.  Of
\* fixed_split_vector and the splits, merges and borrowing of container.h, for any fan-out.
THEOREM KeysInStep == Spec => []InStep
<1>1. IInv /\ [Next]_vars => IInv'
  BY Steps
<1> QED
  BY InitIInv, <1>1, IInvInStep, PTL DEF Spec

\* A leaf that is split, merged or lent from passes its pairs on: read from the left leaf to the
\* right one they are the same pairs in the same order.
THEOREM PairsMoveInOrder == Spec => OrderKept
<1>1. IInv /\ [Next]_vars => IInv'
  BY Steps
<1>2. IInv /\ [Next]_vars =>
        [moving' => Pairs("left")' \o Pairs("right")' = Pairs("left") \o Pairs("right")]_vars
  BY Steps DEF Rearranged
<1> QED
  BY InitIInv, <1>1, <1>2, PTL DEF Spec, OrderKept

\* insert and erase do to a leaf's pairs what their names say, and leave the other leaf alone.
THEOREM PairsChangeSingly == Spec => OneChange
<1>1. IInv /\ [Next]_vars => IInv'
  BY Steps
<1>2. IInv /\ [Next]_vars =>
        [~moving' => \E s \in Side :
            /\ Pairs(Other(s))' = Pairs(Other(s))
            /\ \/ \E i \in 1..Len(Pairs(s)) + 1, e \in Entries :
                        Pairs(s)' = InsertAt(Pairs(s), i, e)
               \/ \E i \in DOMAIN Pairs(s) : Pairs(s)' = RemoveAt(Pairs(s), i)]_vars
  BY Steps DEF Change
<1> QED
  BY InitIInv, <1>1, <1>2, PTL DEF Spec, OneChange
=============================================================================
