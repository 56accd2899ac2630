--------------------------- MODULE CrdtMapProofs ---------------------------
(***************************************************************************)
(* Theorems about CrdtMap, for every set of replicas, keys and elements    *)
(* and for every use.                                                      *)
(*                                                                         *)
(* The argument. Seen through its outer kernels a map is a set: each of    *)
(* its actions is an action of CrdtSet on the keys, so that the keys have  *)
(* all that was proved of the elements of a set.  A change of a nested     *)
(* container gives its key a dot in the map's hook, and a dot there is     *)
(* also a dot of the replica's state; so no nested hook is out of reach.   *)
(***************************************************************************)
EXTENDS CrdtMap, FiniteSetTheorems, TLAPS

\* What is proved of kernels, outer and nested.
OuterFacts == INSTANCE DotKernelProofs
InnerFacts == INSTANCE DotKernelProofs WITH Key <- Elem

\* What is proved of a set, of which KeySet is an instance.
Set == INSTANCE CrdtSetProofs WITH
  state <- [r \in Replica |-> state[r].outer],
  hook <- [r \in Replica |-> hook[r].outer],
  sent <- [r \in Replica |-> [i \in 1 .. Len(sent[r]) |->
            [delta |-> sent[r][i].delta.outer, upto |-> sent[r][i].upto,
             deps |-> [s \in Replica |-> 0]]]],
  MaxDot <- [r \in Replica |-> MaxDots],
  MaxSent <- [r \in Replica |-> MaxDeltas],
  Eager <- FALSE,
  FreshInserts <- FALSE,
  Causal <- FALSE

-----------------------------------------------------------------------------
(* The bounds.                                                             *)

\* A finite set of numbers has a largest one.
LEMMA Largest ==
  ASSUME NEW S \in SUBSET Nat, IsFiniteSet(S), S # {}
  PROVE  Max(S) \in S /\ \A y \in S : Max(S) >= y
<1> DEFINE Bounded(T) == \E x \in T : \A y \in T : x >= y
           B == {T \in FiniteSubsetsOf(Nat) : T # {} /\ ~Bounded(T)}
           R == StrictSubsetOrdering(Nat)
<1>1. SUFFICES ASSUME S \in B
               PROVE  FALSE
  <2>1. Bounded(S)
    BY <1>1 DEF FiniteSubsetsOf
  <2> QED
    BY <2>1 DEF Max
<1>2. IsWellFoundedOn(R, FiniteSubsetsOf(Nat))
  BY FS_StrictSubsetOrderingWellFounded
<1>3. PICK X \in B : \A Y \in B : ~(<<Y, X>> \in R)
  <2>1. B \subseteq FiniteSubsetsOf(Nat) /\ B # {}
    BY <1>1
  <2> HIDE DEF B, R
  <2> QED
    BY <1>2, <2>1, WFMin
<1>4. X \in SUBSET Nat /\ IsFiniteSet(X) /\ X # {} /\ ~Bounded(X)
  BY DEF FiniteSubsetsOf
<1>5. PICK x : x \in X
  BY <1>4
<1>6. X \ {x} # {}
  BY <1>4, <1>5
<1>7. IsFiniteSet(X \ {x})
  BY <1>4, FS_Subset
<1>8. <<X \ {x}, X>> \in R
  BY <1>4, <1>5 DEF StrictSubsetOrdering
<1>9. Bounded(X \ {x})
  BY <1>3, <1>4, <1>6, <1>7, <1>8 DEF FiniteSubsetsOf
<1>10. PICK m \in X \ {x} : \A y \in X \ {x} : m >= y
  BY <1>9
<1> QED
  BY <1>4, <1>5, <1>10

LEMMA BoundOf ==
  ASSUME NEW f \in [Uses -> Nat]
  PROVE  LET S == {0} \cup {f[u] : u \in Uses}
         IN  Max(S) \in Nat /\ \A u \in Uses : f[u] <= Max(S)
<1> DEFINE T == {f[u] : u \in Uses}
<1>1. IsFiniteSet(Uses)
  BY MapAssumption
<1>2. f \in Surjection(Uses, T)
  BY DEF Surjection
<1>3. IsFiniteSet(T)
  BY <1>1, <1>2, FS_Surjection DEF ExistsSurjection
<1>4. IsFiniteSet({0} \cup T)
  BY <1>3, FS_AddElement
<1>5. {0} \cup T \in SUBSET Nat /\ {0} \cup T # {}
  OBVIOUS
<1> QED
  BY <1>4, <1>5, Largest

\* The bounds of KeySet are numbers, and no use exceeds them.
LEMMA BoundsCover ==
  /\ MaxDots \in Nat /\ \A u \in Uses : u.dots \in Nat /\ u.dots <= MaxDots
  /\ MaxDeltas \in Nat /\ \A u \in Uses : u.deltas \in Nat /\ u.deltas <= MaxDeltas
<1>1. \A u \in Uses : u.dots \in Nat /\ u.deltas \in Nat
  BY MapAssumption DEF Use
<1>2. PICK f \in [Uses -> Nat] : f = [u \in Uses |-> u.dots]
  BY <1>1
<1>3. PICK g \in [Uses -> Nat] : g = [u \in Uses |-> u.deltas]
  BY <1>1
<1>4. {u.dots : u \in Uses} = {f[u] : u \in Uses}
  BY <1>2
<1>5. {u.deltas : u \in Uses} = {g[u] : u \in Uses}
  BY <1>3
<1>6. MaxDots \in Nat /\ \A u \in Uses : f[u] <= MaxDots
  BY <1>4, BoundOf DEF MaxDots
<1>7. MaxDeltas \in Nat /\ \A u \in Uses : g[u] <= MaxDeltas
  BY <1>5, BoundOf DEF MaxDeltas
<1> QED
  BY <1>1, <1>2, <1>3, <1>6, <1>7

\* The assumption of CrdtSet.
LEMMA SetConstants ==
  /\ Set!IsFiniteSet(Replica)
  /\ Set!IsFiniteSet(Key)
  /\ [r \in Replica |-> MaxDots] \in [Replica -> Nat]
  /\ [r \in Replica |-> MaxDeltas] \in [Replica -> Nat]
  /\ FALSE \in BOOLEAN
BY MapAssumption, BoundsCover DEF IsFiniteSet, Set!IsFiniteSet

-----------------------------------------------------------------------------
(* Types.  NextInner is a number only while nested counters have a largest *)
(* one; so they are typed by a bound n, which every step may raise.        *)

\* Nested kernels, and maps of them, with dots and counters up to n.
Kern(n) == {l \in Inner!Kernel :
  /\ \A e \in Elem : \A r \in Replica : l.dots[e][r] \subseteq 1 .. n
  /\ \A r \in Replica : l.counters[r] \subseteq 1 .. n}

MapUpTo(n) == [outer : Outer!Kernel, inner : [Key -> Kern(n)]]

Contents == UNION {[K -> SUBSET Elem] : K \in SUBSET Key}

MessageUpTo(n) == [delta : MapUpTo(n), upto : Nat, content : Contents]

TypedUpTo(n) ==
  /\ use \in Uses
  /\ state \in [Replica -> MapUpTo(n)]
  /\ pending \in [Replica -> [Key -> Kern(n)]]
  /\ hook \in [Replica -> MapUpTo(n)]
  /\ sent \in [Replica -> Seq(MessageUpTo(n))]
  /\ got \in [Replica -> [Replica -> Nat]]
  /\ inserted \in [Replica -> Seq(Key)]
  /\ erased \in [Replica -> SUBSET (Nat \ {0})]

LEMMA OuterMergeType ==
  ASSUME NEW tag, NEW l \in Outer!Kernel, NEW d \in Outer!Kernel
  PROVE  Outer!Merge(tag, l, d) \in Outer!Kernel
<1>1. Outer!Kernel = OuterFacts!Kernel
  BY DEF Outer!Kernel, OuterFacts!Kernel, Outer!Dots, OuterFacts!Dots
<1>2. OuterFacts!Merge(tag, l, d) = Outer!Merge(tag, l, d)
  BY DEF Outer!Merge, OuterFacts!Merge, Outer!MergedDots, OuterFacts!MergedDots,
         Outer!MergedLinks, OuterFacts!MergedLinks, Outer!Valueless, OuterFacts!Valueless,
         Outer!CountersErased, OuterFacts!CountersErased, Outer!CountersMerge,
         OuterFacts!CountersMerge, Outer!Collapse, OuterFacts!Collapse,
         Outer!Succeeds, OuterFacts!Succeeds, Outer!NoDots, OuterFacts!NoDots
<1>3. OuterFacts!Merge(tag, l, d) \in OuterFacts!Kernel
  BY <1>1, OuterFacts!MergeType
<1> QED
  BY <1>1, <1>2, <1>3

LEMMA InnerMergeType ==
  ASSUME NEW n \in Nat, NEW tag, NEW l \in Kern(n), NEW d \in Kern(n)
  PROVE  Inner!Merge(tag, l, d) \in Kern(n)
<1> DEFINE D == [e \in Elem |-> [r \in Replica |-> 1 .. n]]
           C == [r \in Replica |-> 1 .. n]
<1>1. Inner!Kernel = InnerFacts!Kernel
  BY DEF Inner!Kernel, InnerFacts!Kernel, Inner!Dots, InnerFacts!Dots
<1>2. InnerFacts!Merge(tag, l, d) = Inner!Merge(tag, l, d)
  BY DEF Inner!Merge, InnerFacts!Merge, Inner!MergedDots, InnerFacts!MergedDots,
         Inner!MergedLinks, InnerFacts!MergedLinks, Inner!Valueless, InnerFacts!Valueless,
         Inner!CountersErased, InnerFacts!CountersErased, Inner!CountersMerge,
         InnerFacts!CountersMerge, Inner!Collapse, InnerFacts!Collapse,
         Inner!Succeeds, InnerFacts!Succeeds, Inner!NoDots, InnerFacts!NoDots
<1>3. l \in InnerFacts!Kernel /\ d \in InnerFacts!Kernel
  BY <1>1 DEF Kern
<1>4. InnerFacts!Within(l, D, C) /\ InnerFacts!Within(d, D, C)
  BY DEF InnerFacts!Within, Kern
<1>5. InnerFacts!Merge(tag, l, d) \in InnerFacts!Kernel
  BY <1>3, InnerFacts!MergeType
<1>6. InnerFacts!Within(InnerFacts!Merge(tag, l, d), D, C)
  BY <1>3, <1>4, InnerFacts!MergeWithin
<1> QED
  BY <1>1, <1>2, <1>5, <1>6 DEF InnerFacts!Within, Kern

LEMMA EmptyType ==
  ASSUME NEW n \in Nat
  PROVE  /\ Inner!EmptyKernel \in Kern(n) /\ Outer!EmptyKernel \in Outer!Kernel
         /\ NoInner \in [Key -> Kern(n)] /\ EmptyMap \in MapUpTo(n)
<1>1. Inner!EmptyKernel \in Kern(n)
  BY DEF Inner!EmptyKernel, Inner!Kernel, Inner!NoDots, Inner!Dots, Kern
<1>2. Outer!EmptyKernel \in Outer!Kernel
  BY DEF Outer!EmptyKernel, Outer!Kernel, Outer!NoDots, Outer!Dots
<1> QED
  BY <1>1, <1>2 DEF NoInner, EmptyMap, MapUpTo

\* Kernels up to n are kernels up to any m from n.
LEMMA TypesGrow ==
  ASSUME NEW n \in Nat, NEW m \in Nat, n <= m
  PROVE  /\ Kern(n) \subseteq Kern(m) /\ MapUpTo(n) \subseteq MapUpTo(m)
         /\ TypedUpTo(n) => TypedUpTo(m)
<1>1. Kern(n) \subseteq Kern(m)
  <2>1. 1 .. n \subseteq 1 .. m
    OBVIOUS
  <2> QED
    BY <2>1 DEF Kern
<1>2. MapUpTo(n) \subseteq MapUpTo(m)
  BY <1>1 DEF MapUpTo
<1>3. ASSUME TypedUpTo(n)
      PROVE  TypedUpTo(m)
  <2>1. MessageUpTo(n) \subseteq MessageUpTo(m)
    BY <1>2 DEF MessageUpTo
  <2>2. sent \in [Replica -> Seq(MessageUpTo(m))]
    BY <1>3, <2>1 DEF TypedUpTo
  <2> QED
    BY <1>1, <1>2, <1>3, <2>2 DEF TypedUpTo
<1> QED
  BY <1>1, <1>2, <1>3

LEMMA TypedIsTypeOK ==
  ASSUME NEW n \in Nat, TypedUpTo(n)
  PROVE  TypeOK
<1>1. Kern(n) \subseteq Inner!Kernel
  BY DEF Kern
<1>2. MapUpTo(n) \subseteq Map
  BY <1>1 DEF MapUpTo, Map
<1>3. MessageUpTo(n) \subseteq Message
  BY <1>2 DEF MessageUpTo, Message, Contents
<1>4. sent \in [Replica -> Seq(Message)]
  BY <1>3 DEF TypedUpTo
<1> QED
  BY <1>1, <1>2, <1>4 DEF TypedUpTo, TypeOK

LEMMA MapMergeType ==
  ASSUME NEW n \in Nat, NEW tag, NEW l \in MapUpTo(n), NEW d \in MapUpTo(n)
  PROVE  MapMerge(tag, l, d) \in MapUpTo(n)
<1>1. PICK outer \in Outer!Kernel : outer = Outer!Merge(tag, l.outer, d.outer)
  BY OuterMergeType DEF MapUpTo
<1>2. ASSUME NEW k \in Key
      PROVE  MergedInner(outer.keys, l, d)[k] \in Kern(n)
  <2>1. l.inner[k] \in Kern(n) /\ d.inner[k] \in Kern(n)
    BY DEF MapUpTo
  <2>2. Inner!Merge("state", l.inner[k], d.inner[k]) \in Kern(n)
    BY <2>1, InnerMergeType
  <2> QED
    BY <2>1, <2>2, EmptyType DEF MergedInner
<1>3. MergedInner(outer.keys, l, d) \in [Key -> Kern(n)]
  BY <1>2 DEF MergedInner
<1> QED
  BY <1>1, <1>3 DEF MapMerge, MapUpTo

LEMMA PendingOfType ==
  ASSUME NEW n \in Nat, NEW p \in [Key -> Kern(n)], NEW keys
  PROVE  PendingOf(p, keys) \in [Key -> Kern(n)]
BY EmptyType DEF PendingOf

-----------------------------------------------------------------------------
(* The keys are a set.                                                     *)

\* The operators of the two instances are the same.
LEMMA SameMerge ==
  ASSUME NEW tag, NEW l, NEW d
  PROVE  Set!Merge(tag, l, d) = Outer!Merge(tag, l, d)
BY DEF Outer!Merge, Set!Merge, Outer!MergedDots, Set!MergedDots,
       Outer!MergedLinks, Set!MergedLinks, Outer!Valueless, Set!Valueless,
       Outer!CountersErased, Set!CountersErased, Outer!CountersMerge,
       Set!CountersMerge, Outer!Collapse, Set!Collapse,
       Outer!Succeeds, Set!Succeeds, Outer!NoDots, Set!NoDots

LEMMA SameKernels ==
  /\ Set!EmptyKernel = Outer!EmptyKernel
  /\ \A k, r, c : Set!ValueDelta(k, r, c) = Outer!ValueDelta(k, r, c)
  /\ \A l, K : Set!CountersDelta(l, K) = Outer!CountersDelta(l, K)
  /\ \A S : Set!NextCounter(S) = Outer!NextCounter(S)
BY DEF Set!EmptyKernel, Outer!EmptyKernel, Set!NoDots, Outer!NoDots, Set!ValueDelta,
       Outer!ValueDelta, Set!CountersDelta, Outer!CountersDelta, Set!NextCounter,
       Outer!NextCounter, Set!Max, Outer!Max

\* A map's hook holds nested content for the keys of its own delta only.
HookShaped ==
  \A r \in Replica : \A k \in Key :
    k \notin hook[r].outer.keys => hook[r].inner[k] = Inner!EmptyKernel

\* A key with something in its nested hook is in the map's hook.
PendingHooked ==
  \A r \in Replica : \A k \in Key :
    pending[r][k] # Inner!EmptyKernel => k \in hook[r].outer.keys

MInv ==
  /\ \E n \in Nat : TypedUpTo(n)
  /\ Set!LInv
  /\ HookShaped
  /\ PendingHooked

LEMMA KeyDotValue ==
  ASSUME MInv, NEW r \in Replica
  PROVE  /\ NextDot(r) = Len(inserted[r]) + 1 /\ Len(inserted[r]) \in Nat
         /\ NextDot(r) = Set!NextDot(r)
<1>1. Set!NextDot(r) = NextDot(r)
  BY SameKernels DEF Set!NextDot, NextDot
<1>2. Set!IInv
  BY DEF MInv, Set!LInv
<1> QED
  BY <1>1, <1>2, SetConstants, Set!NextDotValue

\* A commit of a delta to a map is one to the set of its keys.
LEMMA CommitIsCommit ==
  ASSUME MInv, NEW r \in Replica, NEW map, NEW p, NEW delta,
         map.outer = state[r].outer, CommitTo(r, map, p, delta)
  PROVE  Set!Commit(r, delta.outer)
<1>1. /\ state \in [Replica -> Map] /\ hook \in [Replica -> Map]
      /\ state' = [state EXCEPT ![r] = MapMerge("state", map, delta)]
      /\ hook' = [hook EXCEPT ![r] = MapMerge("delta", @, delta)]
      /\ sent' = sent /\ got' = got
  BY TypedIsTypeOK DEF MInv, TypeOK, CommitTo
<1>2. MapMerge("state", map, delta).outer = Set!Merge("state", state[r].outer, delta.outer)
  BY SameMerge DEF MapMerge
<1>3. MapMerge("delta", hook[r], delta).outer = Set!Merge("delta", hook[r].outer, delta.outer)
  BY SameMerge DEF MapMerge
<1> QED
  BY <1>1, <1>2, <1>3 DEF Set!Commit

LEMMA MayUpdateSet ==
  ASSUME MInv, NEW r \in Replica, Len(sent[r]) < use.deltas
  PROVE  Set!MayUpdate(r)
<1>1. use.deltas <= MaxDeltas /\ use.deltas \in Nat /\ MaxDeltas \in Nat
  BY BoundsCover DEF MInv, TypedUpTo
<1>2. Len(sent[r]) \in Nat
  BY TypedIsTypeOK DEF MInv, TypeOK
<1>3. Len([i \in 1 .. Len(sent[r]) |->
            [delta |-> sent[r][i].delta.outer, upto |-> sent[r][i].upto,
             deps |-> [s \in Replica |-> 0]]]) = Len(sent[r])
  BY <1>2
<1> QED
  BY <1>1, <1>2, <1>3 DEF Set!MayUpdate

LEMMA KeyInsert ==
  ASSUME MInv, NEW r \in Replica, NEW k \in Key, NEW map, NEW p, NEW inner,
         map.outer = state[r].outer, Len(sent[r]) < use.deltas, NextDot(r) <= use.dots,
         CommitTo(r, map, p, KeyDelta(r, k, inner)), Remember(r, k)
  PROVE  Set!Insert(r, k)
<1>1. use.dots <= MaxDots /\ use.dots \in Nat /\ MaxDots \in Nat
  BY BoundsCover DEF MInv, TypedUpTo
<1>2. Len(inserted[r]) < MaxDots
  BY <1>1, KeyDotValue
<1>3. KeyDelta(r, k, inner).outer = Set!ValueDelta(k, r, Set!NextDot(r))
  BY KeyDotValue, SameKernels DEF KeyDelta
<1>4. PICK delta : delta = KeyDelta(r, k, inner) /\ CommitTo(r, map, p, delta)
  OBVIOUS
<1>5. Set!Commit(r, delta.outer)
  BY <1>4, CommitIsCommit
<1>6. Set!Commit(r, Set!ValueDelta(k, r, Set!NextDot(r)))
  BY <1>3, <1>4, <1>5 DEF Set!Commit
<1> QED
  BY <1>2, <1>6, MayUpdateSet DEF Set!Insert, Remember

LEMMA KeyErase ==
  ASSUME MInv, NEW r \in Replica, NEW K \in SUBSET Key, Len(sent[r]) < use.deltas,
         Commit(r, ForgetDelta(r, K)), Forget(r, K)
  PROVE  /\ Set!Commit(r, Set!CountersDelta(state[r].outer, K))
         /\ Set!Forget(r, K) /\ UNCHANGED inserted /\ Set!MayUpdate(r)
<1>1. ForgetDelta(r, K).outer = Set!CountersDelta(state[r].outer, K)
  BY SameKernels DEF ForgetDelta
<1>2. PICK map, p, delta : /\ map = state[r] /\ p = pending[r] /\ delta = ForgetDelta(r, K)
                          /\ CommitTo(r, map, p, delta)
  BY DEF Commit
<1>3. Set!Commit(r, delta.outer)
  BY <1>2, CommitIsCommit
<1>4. Set!Forget(r, K) /\ UNCHANGED inserted
  BY DEF Forget, Set!Forget
<1>5. Set!Commit(r, Set!CountersDelta(state[r].outer, K))
  BY <1>1, <1>2, <1>3 DEF Set!Commit
<1> QED
  BY <1>4, <1>5, MayUpdateSet

-----------------------------------------------------------------------------
(* The types of deltas, and of what the actions make of them.              *)

LEMMA NextCounterType ==
  ASSUME NEW n \in Nat, NEW S \in SUBSET (1 .. n)
  PROVE  Inner!NextCounter(S) \in 1 .. (n + 1)
<1>1. CASE S = {}
  <2>1. Inner!NextCounter(S) = 1
    BY <1>1 DEF Inner!NextCounter
  <2> QED
    BY <2>1
<1>2. CASE S # {}
  <2>1. IsFiniteSet(S) /\ S \in SUBSET Nat
    <3>1. IsFiniteSet(1 .. n)
      BY FS_Interval
    <3>2. IsFiniteSet(S)
      BY <3>1, FS_Subset
    <3> QED
      BY <3>2
  <2>2. Max(S) \in S
    BY <1>2, <2>1, Largest
  <2>3. Inner!Max(S) = Max(S)
    BY DEF Inner!Max, Max
  <2>4. Inner!NextCounter(S) = Max(S) + 1
    BY <1>2, <2>3 DEF Inner!NextCounter
  <2>5. Max(S) \in 1 .. n
    BY <2>2
  <2>6. Max(S) + 1 \in 1 .. (n + 1)
    BY <2>5
  <2> QED
    BY <2>4, <2>6
<1> QED
  BY <1>1, <1>2

LEMMA BuiltType ==
  ASSUME NEW r \in Replica, NEW vals \in Seq(Elem)
  PROVE  Built(r, vals) \in Kern(Len(vals))
<1> DEFINE n == Len(vals)
           counters(e) == {c \in 1 .. n : vals[c] = e}
           of(e) == [Inner!NoDots EXCEPT ![r] = counters(e)]
<1>1. n \in Nat /\ \A c \in 1 .. n : vals[c] \in Elem
  OBVIOUS
<1>2. \A e \in Elem : of(e) \in Inner!Dots /\ \A s \in Replica : of(e)[s] \subseteq 1 .. n
  BY DEF Inner!Dots, Inner!NoDots
<1>3. PICK last : last = IF vals = <<>> THEN {} ELSE {n}
  OBVIOUS
<1>4. last \subseteq 1 .. n
  BY <1>3
<1>5. [Inner!NoDots EXCEPT ![r] = last] \in Inner!Dots
  BY <1>4 DEF Inner!Dots, Inner!NoDots
<1>6. [Inner!NoDots EXCEPT ![r] = {<<c, vals[c]>> : c \in 1 .. n}]
        \in [Replica -> SUBSET ((Nat \ {0}) \X Elem)]
  BY <1>1 DEF Inner!NoDots
<1>7. Built(r, vals) = [keys |-> {e \in Elem : counters(e) # {}},
                        dots |-> [e \in Elem |-> of(e)],
                        counters |-> [Inner!NoDots EXCEPT ![r] = last],
                        links |-> [Inner!NoDots EXCEPT ![r] = {<<c, vals[c]>> : c \in 1 .. n}]]
  BY <1>3, Zenon DEF Built
<1>8. \A s \in Replica : Built(r, vals).counters[s] \subseteq 1 .. n
  <2>1. PICK K, D, C, L :
          /\ C = [Inner!NoDots EXCEPT ![r] = last]
          /\ Built(r, vals) = [keys |-> K, dots |-> D, counters |-> C, links |-> L]
    BY <1>7, Zenon
  <2>2. \A s \in Replica : C[s] \subseteq 1 .. n
    BY <1>4, <2>1 DEF Inner!NoDots
  <2>3. Built(r, vals).counters = C
    BY <2>1
  <2> QED
    BY <2>2, <2>3
<1> HIDE DEF of, counters, n
<1>9. Built(r, vals) \in Inner!Kernel
  BY <1>2, <1>5, <1>6, <1>7 DEF Inner!Kernel
<1>10. \A e \in Elem : \A s \in Replica : Built(r, vals).dots[e][s] \subseteq 1 .. n
  BY <1>2, <1>7
<1> QED
  BY <1>8, <1>9, <1>10 DEF Kern, n

LEMMA InnerValueType ==
  ASSUME NEW n \in Nat, NEW e \in Elem, NEW r \in Replica, NEW c \in 1 .. n
  PROVE  Inner!ValueDelta(e, r, c) \in Kern(n)
<1>1. c \in Nat \ {0}
  OBVIOUS
<1>2. Inner!ValueDelta(e, r, c) \in Inner!Kernel
  BY <1>1 DEF Inner!ValueDelta, Inner!EmptyKernel, Inner!Kernel, Inner!NoDots, Inner!Dots
<1> QED
  BY <1>2 DEF Kern, Inner!ValueDelta, Inner!EmptyKernel, Inner!NoDots

LEMMA InnerCountersType ==
  ASSUME NEW n \in Nat, NEW l \in Kern(n), NEW K \in SUBSET Elem
  PROVE  Inner!CountersDelta(l, K) \in Kern(n)
<1>1. \A r \in Replica : UNION {l.dots[e][r] : e \in K} \in SUBSET (1 .. n)
  BY DEF Kern
<1>2. \A r \in Replica : UNION {l.dots[e][r] : e \in K} \in SUBSET (Nat \ {0})
  BY <1>1
<1>3. Inner!CountersDelta(l, K) \in Inner!Kernel
  BY <1>2 DEF Inner!CountersDelta, Inner!EmptyKernel, Inner!Kernel, Inner!NoDots, Inner!Dots
<1> QED
  BY <1>1, <1>3 DEF Kern, Inner!CountersDelta, Inner!EmptyKernel, Inner!NoDots

LEMMA StateInnerType ==
  ASSUME NEW n \in Nat, TypedUpTo(n), NEW r \in Replica, NEW k \in Key
  PROVE  /\ state[r].inner[k] \in Kern(n) /\ state[r].inner[k].keys \in SUBSET Elem
         /\ NextInner(r, k) \in 1 .. (n + 1)
<1>1. PICK l \in Kern(n) : l = state[r].inner[k]
  BY DEF TypedUpTo, MapUpTo
<1>2. l.keys \in SUBSET Elem
  BY DEF Kern, Inner!Kernel
<1>3. l.counters[r] \in SUBSET (1 .. n)
  BY DEF Kern
<1>4. Inner!NextCounter(l.counters[r]) \in 1 .. (n + 1)
  BY <1>3, NextCounterType
<1>5. NextInner(r, k) = Inner!NextCounter(l.counters[r])
  BY <1>1 DEF NextInner
<1> QED
  BY <1>1, <1>2, <1>4, <1>5

LEMMA SetDeltaType ==
  ASSUME NEW n \in Nat, TypedUpTo(n), NEW r \in Replica, NEW k \in Key, NEW e \in Elem
  PROVE  SetDelta(r, k, e) \in Kern(n + 1)
<1>1. PICK m \in Nat : m = n + 1 /\ n <= m
  OBVIOUS
<1>2. PICK c \in 1 .. m : c = NextInner(r, k)
  BY <1>1, StateInnerType
<1>3. PICK value \in Kern(m) : value = Inner!ValueDelta(e, r, c)
  BY InnerValueType
<1>4. PICK clear \in Kern(m) :
        clear = Inner!CountersDelta(state[r].inner[k], state[r].inner[k].keys)
  BY <1>1, StateInnerType, InnerCountersType, TypesGrow
<1>5. PICK C \in Inner!Dots : C = [s \in Replica |-> value.counters[s] \cup clear.counters[s]]
  <2>1. \A s \in Replica : value.counters[s] \cup clear.counters[s] \in SUBSET (Nat \ {0})
    BY DEF Kern, Inner!Kernel, Inner!Dots
  <2> QED
    BY <2>1 DEF Inner!Dots
<1>6. SetDelta(r, k, e) = [value EXCEPT !.counters = C]
  <2>1. Inner!ValueDelta(e, r, NextInner(r, k)) = value
    BY <1>2, <1>3 DEF Inner!ValueDelta
  <2>2. SetDelta(r, k, e) =
          [value EXCEPT !.counters = [s \in Replica |-> @[s] \cup clear.counters[s]]]
    BY <1>4, <2>1 DEF SetDelta
  <2> QED
    BY <1>5, <2>2
<1>7. \A s \in Replica : C[s] \subseteq 1 .. m
  BY <1>5 DEF Kern
<1>8. value \in Inner!Kernel
  BY DEF Kern
<1>9. [value EXCEPT !.counters = C] \in Inner!Kernel
  BY <1>8 DEF Inner!Kernel
<1>10. /\ [value EXCEPT !.counters = C].counters = C
       /\ [value EXCEPT !.counters = C].dots = value.dots
  BY <1>8 DEF Inner!Kernel
<1>11. \A j \in Elem : \A s \in Replica : value.dots[j][s] \subseteq 1 .. m
  BY DEF Kern
<1> QED
  BY <1>1, <1>6, <1>7, <1>9, <1>10, <1>11 DEF Kern

LEMMA KeyDeltaType ==
  ASSUME MInv, NEW n \in Nat, NEW r \in Replica, NEW k \in Key, NEW inner \in Kern(n)
  PROVE  KeyDelta(r, k, inner) \in MapUpTo(n)
<1>1. PICK c \in Nat \ {0} : c = NextDot(r)
  BY KeyDotValue
<1>2. Outer!ValueDelta(k, r, c) \in Outer!Kernel
  BY DEF Outer!ValueDelta, Outer!EmptyKernel, Outer!Kernel, Outer!NoDots, Outer!Dots
<1>3. [NoInner EXCEPT ![k] = inner] \in [Key -> Kern(n)]
  BY EmptyType
<1> QED
  BY <1>1, <1>2, <1>3 DEF KeyDelta, MapUpTo

LEMMA ForgetDeltaType ==
  ASSUME NEW n \in Nat, TypedUpTo(n), NEW r \in Replica, NEW K \in SUBSET Key
  PROVE  ForgetDelta(r, K) \in MapUpTo(n)
<1>1. state[r].outer \in Outer!Kernel
  BY DEF TypedUpTo, MapUpTo
<1>2. \A s \in Replica :
        UNION {state[r].outer.dots[k][s] : k \in K} \in SUBSET (Nat \ {0})
  BY <1>1 DEF Outer!Kernel, Outer!Dots
<1>3. Outer!CountersDelta(state[r].outer, K) \in Outer!Kernel
  BY <1>2 DEF Outer!CountersDelta, Outer!EmptyKernel, Outer!Kernel, Outer!NoDots, Outer!Dots
<1> QED
  BY <1>3, EmptyType DEF ForgetDelta, MapUpTo

LEMMA CommitToType ==
  ASSUME NEW n \in Nat, TypedUpTo(n), NEW r \in Replica, NEW map \in MapUpTo(n),
         NEW p \in [Key -> Kern(n)], NEW delta \in MapUpTo(n), CommitTo(r, map, p, delta)
  PROVE  /\ use' \in Uses
         /\ state' \in [Replica -> MapUpTo(n)]
         /\ pending' \in [Replica -> [Key -> Kern(n)]]
         /\ hook' \in [Replica -> MapUpTo(n)]
         /\ sent' \in [Replica -> Seq(MessageUpTo(n))]
         /\ got' \in [Replica -> [Replica -> Nat]]
<1>1. MapMerge("state", map, delta) \in MapUpTo(n)
  BY MapMergeType
<1>2. hook[r] \in MapUpTo(n)
  BY DEF TypedUpTo
<1>3. MapMerge("delta", hook[r], delta) \in MapUpTo(n)
  BY <1>2, MapMergeType
<1>4. PendingOf(p, state'[r].outer.keys) \in [Key -> Kern(n)]
  BY PendingOfType
<1> QED
  BY <1>1, <1>3, <1>4 DEF TypedUpTo, CommitTo

LEMMA RememberType ==
  ASSUME NEW n, TypedUpTo(n), NEW r \in Replica, NEW k \in Key, Remember(r, k)
  PROVE  /\ inserted' \in [Replica -> Seq(Key)]
         /\ erased' \in [Replica -> SUBSET (Nat \ {0})]
BY DEF Remember, TypedUpTo

LEMMA ForgetType ==
  ASSUME NEW n, TypedUpTo(n), NEW r \in Replica, NEW K \in SUBSET Key, Forget(r, K)
  PROVE  /\ inserted' \in [Replica -> Seq(Key)]
         /\ erased' \in [Replica -> SUBSET (Nat \ {0})]
<1>1. state[r].outer \in Outer!Kernel
  BY DEF TypedUpTo, MapUpTo
<1>2. \A s \in Replica :
        UNION {state[r].outer.dots[k][s] : k \in K} \in SUBSET (Nat \ {0})
  BY <1>1 DEF Outer!Kernel, Outer!Dots
<1> QED
  BY <1>2 DEF Forget, TypedUpTo

\* What a use permits is well formed.
LEMMA UseFacts ==
  ASSUME NEW n, TypedUpTo(n), NEW vals \in use.inserts
  PROVE  vals \in Seq(Elem)
BY MapAssumption DEF TypedUpTo, Use

LEMMA ContentType ==
  ASSUME NEW n \in Nat, NEW m \in MapUpTo(n)
  PROVE  Content(m) \in Contents
<1>1. m.outer.keys \in SUBSET Key
  BY DEF MapUpTo, Outer!Kernel
<1>2. \A k \in Key : m.inner[k].keys \in SUBSET Elem
  BY DEF MapUpTo, Kern, Inner!Kernel
<1>3. Content(m) \in [m.outer.keys -> SUBSET Elem]
  BY <1>1, <1>2 DEF Content
<1> QED
  BY <1>1, <1>3 DEF Contents

LEMMA ExtractedType ==
  ASSUME NEW n \in Nat, TypedUpTo(n), NEW r \in Replica
  PROVE  /\ Extracted(r) \in MapUpTo(n)
         /\ Extracted(r).outer = Outer!Merge("delta", Outer!EmptyKernel, hook[r].outer)
<1>1. PICK d \in MapUpTo(n) : d = MapMerge("delta", EmptyMap, hook[r])
  BY EmptyType, MapMergeType DEF TypedUpTo
<1> DEFINE inner == [k \in Key |->
                       IF k \in Reached(r)
                       THEN Inner!Merge("state", d.inner[k],
                              Inner!Merge("delta", Inner!EmptyKernel, pending[r][k]))
                       ELSE d.inner[k]]
<1>2. inner \in [Key -> Kern(n)]
  <2> SUFFICES ASSUME NEW k \in Key
               PROVE  inner[k] \in Kern(n)
    OBVIOUS
  <2>1. d.inner[k] \in Kern(n)
    BY DEF MapUpTo
  <2>2. pending[r][k] \in Kern(n)
    BY DEF TypedUpTo
  <2>3. Inner!Merge("delta", Inner!EmptyKernel, pending[r][k]) \in Kern(n)
    BY <2>2, EmptyType, InnerMergeType
  <2>4. Inner!Merge("state", d.inner[k],
          Inner!Merge("delta", Inner!EmptyKernel, pending[r][k])) \in Kern(n)
    BY <2>1, <2>3, InnerMergeType
  <2> QED
    BY <2>1, <2>4
<1>3. Extracted(r) = [d EXCEPT !.inner = inner]
  BY <1>1 DEF Extracted, MapUpTo
<1> HIDE DEF inner
<1>4. Extracted(r) \in MapUpTo(n) /\ Extracted(r).outer = d.outer
  BY <1>2, <1>3 DEF MapUpTo
<1>5. d.outer = Outer!Merge("delta", Outer!EmptyKernel, hook[r].outer)
  BY <1>1 DEF MapMerge, EmptyMap
<1> QED
  BY <1>4, <1>5

LEMMA CommitTyped ==
  ASSUME NEW n \in Nat, NEW m \in Nat, n <= m, TypedUpTo(n), NEW r \in Replica,
         NEW map \in MapUpTo(m), NEW p \in [Key -> Kern(m)], NEW delta \in MapUpTo(m),
         CommitTo(r, map, p, delta),
         inserted' \in [Replica -> Seq(Key)], erased' \in [Replica -> SUBSET (Nat \ {0})]
  PROVE  TypedUpTo(m)'
<1>1. TypedUpTo(m)
  BY TypesGrow
<1> QED
  BY <1>1, CommitToType DEF TypedUpTo

LEMMA InsertTyped ==
  ASSUME MInv, NEW n \in Nat, TypedUpTo(n), NEW r \in Replica, NEW k \in Key,
         NEW vals \in use.inserts, Insert(r, k, vals)
  PROVE  \E m \in Nat : TypedUpTo(m)'
<1>1. vals \in Seq(Elem)
  BY UseFacts
<1>2. PICK m \in Nat : m = n + Len(vals) /\ n <= m /\ Len(vals) <= m /\ Len(vals) \in Nat
  BY <1>1
<1>3. Built(r, vals) \in Kern(m)
  BY <1>1, <1>2, BuiltType, TypesGrow
<1>4. PICK delta \in MapUpTo(m) : delta = KeyDelta(r, k, Built(r, vals))
  BY <1>2, <1>3, KeyDeltaType
<1>5. TypedUpTo(m)
  BY <1>2, TypesGrow
<1>6. PICK map, p : /\ map \in MapUpTo(m) /\ p \in [Key -> Kern(m)]
                    /\ CommitTo(r, map, p, delta)
  BY <1>4, <1>5 DEF Insert, Commit, CommitTo, TypedUpTo
<1>7. /\ inserted' \in [Replica -> Seq(Key)]
      /\ erased' \in [Replica -> SUBSET (Nat \ {0})]
  BY RememberType DEF Insert
<1> QED
  BY <1>2, <1>6, <1>7, CommitTyped

LEMMA ForgetTyped ==
  ASSUME MInv, NEW n \in Nat, TypedUpTo(n), NEW r \in Replica, NEW K \in SUBSET Key,
         Commit(r, ForgetDelta(r, K)), Forget(r, K)
  PROVE  TypedUpTo(n)'
<1>1. PICK delta \in MapUpTo(n) : delta = ForgetDelta(r, K)
  BY ForgetDeltaType
<1>2. PICK map, p : /\ map \in MapUpTo(n) /\ p \in [Key -> Kern(n)]
                    /\ CommitTo(r, map, p, delta)
  BY <1>1 DEF Commit, CommitTo, TypedUpTo
<1>3. /\ inserted' \in [Replica -> Seq(Key)]
      /\ erased' \in [Replica -> SUBSET (Nat \ {0})]
  BY ForgetType
<1>4. n <= n
  OBVIOUS
<1> QED
  BY <1>2, <1>3, <1>4, CommitTyped

LEMMA NestedTyped ==
  ASSUME MInv, NEW n \in Nat, TypedUpTo(n), NEW m \in Nat, n <= m, NEW r \in Replica,
         NEW k \in Key, NEW delta \in Kern(m), CommitNested(r, k, delta)
  PROVE  TypedUpTo(m)'
<1>1. TypedUpTo(m)
  BY TypesGrow
<1>2. state[r] \in MapUpTo(m) /\ pending[r] \in [Key -> Kern(m)]
  BY <1>1 DEF TypedUpTo
<1>3. state[r].inner[k] \in Kern(m) /\ pending[r][k] \in Kern(m)
  BY <1>2 DEF MapUpTo
<1>4. PICK l \in Kern(m) : l = Inner!Merge("state", state[r].inner[k], delta)
  BY <1>3, InnerMergeType
<1>5. PICK h \in Kern(m) : h = Inner!Merge("delta", pending[r][k], delta)
  BY <1>3, InnerMergeType
<1>6. PICK map : map \in MapUpTo(m) /\ map = [state[r] EXCEPT !.inner[k] = l]
  BY <1>2 DEF MapUpTo
<1>7. PICK p : p \in [Key -> Kern(m)] /\ p = [pending[r] EXCEPT ![k] = h]
  BY <1>2
<1>8. PICK up \in MapUpTo(m) : up = KeyDelta(r, k, Inner!EmptyKernel)
  BY EmptyType, KeyDeltaType
<1>9. CommitTo(r, map, p, up)
  BY <1>4, <1>5, <1>6, <1>7, <1>8 DEF CommitNested, CommitTo
<1>10. /\ inserted' \in [Replica -> Seq(Key)]
       /\ erased' \in [Replica -> SUBSET (Nat \ {0})]
  BY RememberType DEF CommitNested
<1> QED
  BY <1>6, <1>7, <1>9, <1>10, CommitTyped

LEMMA ExtractTyped ==
  ASSUME NEW n \in Nat, TypedUpTo(n), NEW r \in Replica, Extract(r)
  PROVE  TypedUpTo(n)'
<1>1. Extracted(r) \in MapUpTo(n) /\ Content(state[r]) \in Contents
  BY ExtractedType, ContentType DEF TypedUpTo
<1>2. Len(inserted[r]) \in Nat
  BY DEF TypedUpTo
<1>3. PICK msg \in MessageUpTo(n) :
        msg = [delta |-> Extracted(r), upto |-> Len(inserted[r]), content |-> Content(state[r])]
  BY <1>1, <1>2 DEF MessageUpTo
<1>4. sent' = [sent EXCEPT ![r] = Append(@, msg)]
  BY <1>3 DEF Extract
<1>5. sent' \in [Replica -> Seq(MessageUpTo(n))]
  <2>1. \A s \in Replica : sent[s] \in Seq(MessageUpTo(n))
    BY DEF TypedUpTo
  <2>2. Append(sent[r], msg) \in Seq(MessageUpTo(n))
    BY <2>1
  <2> QED
    BY <1>4, <2>1, <2>2 DEF TypedUpTo
<1>6. pending' \in [Replica -> [Key -> Kern(n)]]
  BY EmptyType DEF Extract, TypedUpTo
<1>7. hook' \in [Replica -> MapUpTo(n)]
  BY EmptyType DEF Extract, TypedUpTo
<1> QED
  BY <1>5, <1>6, <1>7 DEF Extract, TypedUpTo

LEMMA PendingDelta ==
  ASSUME NEW n \in Nat, TypedUpTo(n), NEW r \in Replica, NEW s \in Replica, Deliverable(r, s)
  PROVE  /\ got[r][s] + 1 \in 1 .. Len(sent[s])
         /\ Pending(r, s).delta \in MapUpTo(n)
<1>1. sent[s] \in Seq(MessageUpTo(n)) /\ got[r][s] \in Nat /\ got[r][s] < Len(sent[s])
  BY DEF TypedUpTo, Deliverable
<1>2. got[r][s] + 1 \in 1 .. Len(sent[s])
  BY <1>1
<1>3. Pending(r, s) \in MessageUpTo(n)
  BY <1>1, <1>2 DEF Pending
<1> QED
  BY <1>2, <1>3 DEF MessageUpTo

LEMMA DeliverTyped ==
  ASSUME NEW n \in Nat, TypedUpTo(n), NEW r \in Replica, NEW s \in Replica, Deliver(r, s)
  PROVE  TypedUpTo(n)'
<1>1. PICK d \in MapUpTo(n) : d = Pending(r, s).delta
  BY PendingDelta DEF Deliver
<1>2. state[r] \in MapUpTo(n) /\ pending[r] \in [Key -> Kern(n)]
  BY DEF TypedUpTo
<1>3. MapMerge("state", state[r], d) \in MapUpTo(n)
  BY <1>2, MapMergeType
<1>4. PendingOf(pending[r], state'[r].outer.keys) \in [Key -> Kern(n)]
  BY <1>2, PendingOfType
<1>5. state' \in [Replica -> MapUpTo(n)] /\ pending' \in [Replica -> [Key -> Kern(n)]]
  BY <1>1, <1>3, <1>4 DEF Deliver, TypedUpTo
<1>6. got' \in [Replica -> [Replica -> Nat]]
  BY DEF Deliver, TypedUpTo
<1> QED
  BY <1>5, <1>6 DEF Deliver, TypedUpTo

-----------------------------------------------------------------------------
(* Extracting and merging, seen as actions on the set of keys.             *)

\* The messages of a map as those of a set.
KeyMessage(m) ==
  [delta |-> m.delta.outer, upto |-> m.upto, deps |-> [s \in Replica |-> 0]]

KeyMessages(q) == [i \in 1 .. Len(q) |-> KeyMessage(q[i])]

LEMMA KeyMessagesAppend ==
  ASSUME NEW T, NEW q \in Seq(T), NEW m
  PROVE  KeyMessages(Append(q, m)) = Append(KeyMessages(q), KeyMessage(m))
<1> DEFINE KM(x) == KeyMessage(x)
<1>1. \A x : KeyMessage(x) = KM(x)
  OBVIOUS
<1> HIDE DEF KM
<1>2. [i \in 1 .. Len(Append(q, m)) |-> KM(Append(q, m)[i])]
        = Append([i \in 1 .. Len(q) |-> KM(q[i])], KM(m))
  OBVIOUS
<1> QED
  BY <1>1, <1>2 DEF KeyMessages

\* A map's hook is empty when its outer kernel is.
LEMMA HookEmpty ==
  ASSUME MInv, NEW r \in Replica, hook[r].outer = Outer!EmptyKernel
  PROVE  hook[r] = EmptyMap
<1>1. hook[r] \in Map
  BY TypedIsTypeOK DEF MInv, TypeOK
<1>2. \A k \in Key : hook[r].inner[k] = Inner!EmptyKernel
  BY DEF MInv, HookShaped, Outer!EmptyKernel
<1>3. hook[r].inner = NoInner
  BY <1>1, <1>2 DEF Map, NoInner
<1> QED
  BY <1>1, <1>3 DEF Map, EmptyMap

LEMMA KeyExtract ==
  ASSUME MInv, NEW r \in Replica, Extract(r)
  PROVE  Set!Extract(r)
<1>1. PICK n \in Nat : TypedUpTo(n)
  BY DEF MInv
<1>2. PICK msg : /\ msg = [delta |-> Extracted(r), upto |-> Len(inserted[r]),
                           content |-> Content(state[r])]
                 /\ sent' = [sent EXCEPT ![r] = Append(@, msg)]
  BY DEF Extract
<1>3. hook[r].outer # Set!EmptyKernel
  BY HookEmpty, SameKernels DEF Extract
<1>4. KeyMessage(msg) = Set!Envelope(r)
  <2>1. msg.delta.outer = Set!Merge("delta", Set!EmptyKernel, hook[r].outer)
    BY <1>1, <1>2, ExtractedType, SameMerge, SameKernels
  <2> QED
    BY <1>2, <2>1 DEF KeyMessage, Set!Envelope, Set!Zero
<1>5. [s \in Replica |-> KeyMessages(sent'[s])]
        = [[s \in Replica |-> KeyMessages(sent[s])] EXCEPT ![r] = Append(@, Set!Envelope(r))]
  <2>1. sent[r] \in Seq(MessageUpTo(n)) /\ DOMAIN sent = Replica
    BY <1>1 DEF TypedUpTo
  <2>2. KeyMessages(Append(sent[r], msg)) = Append(KeyMessages(sent[r]), KeyMessage(msg))
    BY <2>1, KeyMessagesAppend
  <2>3. sent'[r] = Append(sent[r], msg) /\ \A s \in Replica \ {r} : sent'[s] = sent[s]
    BY <1>2, <2>1
  <2> QED
    BY <1>4, <2>2, <2>3
<1>6. [s \in Replica |-> hook'[s].outer]
        = [[s \in Replica |-> hook[s].outer] EXCEPT ![r] = Set!EmptyKernel]
  <2>1. hook' = [hook EXCEPT ![r] = EmptyMap] /\ DOMAIN hook = Replica
    BY <1>1 DEF Extract, TypedUpTo
  <2>2. EmptyMap.outer = Set!EmptyKernel
    BY SameKernels DEF EmptyMap
  <2> QED
    BY <2>1, <2>2
<1>7. UNCHANGED <<state, got, inserted, erased>>
  BY DEF Extract
<1> QED
  BY <1>3, <1>5, <1>6, <1>7 DEF Set!Extract, KeyMessages, KeyMessage

LEMMA KeyDeliver ==
  ASSUME MInv, NEW r \in Replica, NEW s \in Replica, Deliver(r, s)
  PROVE  /\ Set!Deliver(r, s)
         /\ Set!Pending(r, s).delta = Pending(r, s).delta.outer
<1>1. PICK n \in Nat : TypedUpTo(n)
  BY DEF MInv
<1>2. got[r][s] + 1 \in 1 .. Len(sent[s]) /\ got[r][s] \in Nat
  BY <1>1, PendingDelta DEF Deliver, TypedUpTo
<1>3. Set!Pending(r, s) = KeyMessage(Pending(r, s))
  BY <1>2 DEF Set!Pending, Pending, KeyMessage
<1>4. PICK d : d = Pending(r, s).delta
  OBVIOUS
<1>5. Set!Pending(r, s).delta = d.outer /\ Set!Pending(r, s).deps = [t \in Replica |-> 0]
  BY <1>3, <1>4 DEF KeyMessage
<1>6. Set!Deliverable(r, s)
  <2>1. Len([i \in 1 .. Len(sent[s]) |->
              [delta |-> sent[s][i].delta.outer, upto |-> sent[s][i].upto,
               deps |-> [t \in Replica |-> 0]]]) = Len(sent[s])
    BY <1>1 DEF TypedUpTo
  <2>2. \A t \in Replica : Set!Pending(r, s).deps[t] <= got[r][t]
    BY <1>1, <1>5 DEF TypedUpTo
  <2> QED
    BY <2>1, <2>2 DEF Deliver, Deliverable, Set!Deliverable
<1>7. [q \in Replica |-> state'[q].outer]
        = [[q \in Replica |-> state[q].outer] EXCEPT
             ![r] = Set!Merge("state", @, Set!Pending(r, s).delta)]
  <2>1. state' = [state EXCEPT ![r] = MapMerge("state", state[r], d)] /\ DOMAIN state = Replica
    BY <1>1, <1>4 DEF Deliver, TypedUpTo
  <2>2. MapMerge("state", state[r], d).outer = Set!Merge("state", state[r].outer, d.outer)
    BY SameMerge DEF MapMerge
  <2> QED
    BY <1>5, <2>1, <2>2
<1>8. got' = [got EXCEPT ![r][s] = @ + 1] /\ UNCHANGED <<hook, sent, inserted, erased>>
  BY DEF Deliver
<1>9. Set!Deliver(r, s)
  BY <1>6, <1>7, <1>8 DEF Set!Deliver
<1> QED
  BY <1>4, <1>5, <1>9

-----------------------------------------------------------------------------
(* The invariant, action by action.                                        *)

LEMMA CommitShaped ==
  ASSUME MInv, NEW r \in Replica, NEW map, NEW p, NEW delta, CommitTo(r, map, p, delta)
  PROVE  HookShaped'
<1> SUFFICES ASSUME NEW s \in Replica, NEW k \in Key, k \notin hook'[s].outer.keys
             PROVE  hook'[s].inner[k] = Inner!EmptyKernel
  BY DEF HookShaped
<1>1. DOMAIN hook = Replica /\ hook' = [hook EXCEPT ![r] = MapMerge("delta", hook[r], delta)]
  BY TypedIsTypeOK DEF MInv, TypeOK, CommitTo
<1>2. CASE s = r
  <2>1. PICK h : h = MapMerge("delta", hook[r], delta)
    OBVIOUS
  <2>2. h.inner = MergedInner(h.outer.keys, hook[r], delta)
    BY <2>1 DEF MapMerge
  <2>3. hook'[s] = h
    BY <1>1, <1>2, <2>1
  <2> QED
    BY <2>2, <2>3 DEF MergedInner
<1>3. CASE s # r
  BY <1>1, <1>3 DEF MInv, HookShaped
<1> QED
  BY <1>2, <1>3

\* What a commit leaves in the nested hooks.
LEMMA CommitPending ==
  ASSUME MInv, NEW r \in Replica, NEW map, NEW p, NEW delta, CommitTo(r, map, p, delta),
         NEW s \in Replica, NEW k \in Key, pending'[s][k] # Inner!EmptyKernel
  PROVE  IF s = r THEN k \in state'[r].outer.keys /\ p[k] # Inner!EmptyKernel
         ELSE pending'[s] = pending[s] /\ hook'[s] = hook[s]
<1>1. /\ DOMAIN hook = Replica /\ DOMAIN pending = Replica
      /\ hook' = [hook EXCEPT ![r] = MapMerge("delta", hook[r], delta)]
      /\ pending' = [pending EXCEPT ![r] = PendingOf(p, state'[r].outer.keys)]
  BY TypedIsTypeOK DEF MInv, TypeOK, CommitTo
<1>2. CASE s = r
  BY <1>1, <1>2 DEF PendingOf
<1>3. CASE s # r
  BY <1>1, <1>3
<1> QED
  BY <1>2, <1>3

\* What an action does to the set of keys, to the types and to the nested hooks.
Preserved ==
  /\ Set!Next
  /\ \E n \in Nat : TypedUpTo(n)'
  /\ HookShaped'
  /\ Set!LInv' => PendingHooked'

LEMMA InsertPending ==
  ASSUME MInv, Set!LInv', NEW r \in Replica, NEW k \in Key, NEW map, NEW p, NEW delta,
         CommitTo(r, map, p, delta), Set!Insert(r, k),
         \A j \in Key \ {k} : p[j] = pending[r][j]
  PROVE  PendingHooked'
<1> SUFFICES ASSUME NEW s \in Replica, NEW j \in Key, pending'[s][j] # Inner!EmptyKernel
             PROVE  j \in hook'[s].outer.keys
  BY DEF PendingHooked
<1>1. CASE s # r
  BY <1>1, CommitPending DEF MInv, PendingHooked
<1>2. CASE s = r
  <2>1. p[j] # Inner!EmptyKernel
    BY <1>2, CommitPending
  <2>2. hook'[r].outer.keys = hook[r].outer.keys \cup {k}
    BY SetConstants, Set!HookInsertsKey DEF MInv
  <2>3. CASE j = k
    BY <1>2, <2>2, <2>3
  <2>4. CASE j # k
    BY <1>2, <2>1, <2>2, <2>4 DEF MInv, PendingHooked
  <2> QED
    BY <2>3, <2>4
<1> QED
  BY <1>1, <1>2

LEMMA ErasePending ==
  ASSUME MInv, Set!LInv', NEW r \in Replica, NEW k \in Key,
         Commit(r, ForgetDelta(r, {k})), Set!Erase(r, k)
  PROVE  PendingHooked'
<1> SUFFICES ASSUME NEW s \in Replica, NEW j \in Key, pending'[s][j] # Inner!EmptyKernel
             PROVE  j \in hook'[s].outer.keys
  BY DEF PendingHooked
<1>1. PICK delta : CommitTo(r, state[r], pending[r], delta)
  BY DEF Commit
<1>2. CASE s # r
  BY <1>1, <1>2, CommitPending DEF MInv, PendingHooked
<1>3. CASE s = r
  <2>1. pending[r][j] # Inner!EmptyKernel /\ j \in state'[r].outer.keys
    BY <1>1, <1>3, CommitPending
  <2>2. j \in hook[r].outer.keys
    BY <2>1 DEF MInv, PendingHooked
  <2>3. /\ state'[r].outer.keys = state[r].outer.keys \ {k}
        /\ hook[r].outer.keys \ {k} \subseteq hook'[r].outer.keys
    BY SetConstants, Set!EraseKeeps DEF MInv
  <2> QED
    BY <1>3, <2>1, <2>2, <2>3
<1> QED
  BY <1>2, <1>3

LEMMA ClearPending ==
  ASSUME MInv, Set!LInv', NEW r \in Replica, NEW K,
         Commit(r, ForgetDelta(r, K)), Set!Clear(r)
  PROVE  PendingHooked'
<1> SUFFICES ASSUME NEW s \in Replica, NEW j \in Key, pending'[s][j] # Inner!EmptyKernel
             PROVE  j \in hook'[s].outer.keys
  BY DEF PendingHooked
<1>1. PICK delta : CommitTo(r, state[r], pending[r], delta)
  BY DEF Commit
<1>2. state'[r].outer.keys = {}
  BY SetConstants, Set!ClearKeeps DEF MInv
<1>3. s # r
  BY <1>1, <1>2, CommitPending
<1> QED
  BY <1>1, <1>3, CommitPending DEF MInv, PendingHooked

LEMMA ExtractPending ==
  ASSUME MInv, NEW r \in Replica, Extract(r)
  PROVE  HookShaped' /\ PendingHooked'
<1>1. /\ DOMAIN hook = Replica /\ DOMAIN pending = Replica
      /\ hook' = [hook EXCEPT ![r] = EmptyMap]
      /\ pending' = [pending EXCEPT ![r] =
           [k \in Key |-> IF k \in Reached(r) THEN Inner!EmptyKernel ELSE pending[r][k]]]
  BY TypedIsTypeOK DEF MInv, TypeOK, Extract
<1>2. HookShaped'
  <2> SUFFICES ASSUME NEW s \in Replica, NEW k \in Key, k \notin hook'[s].outer.keys
               PROVE  hook'[s].inner[k] = Inner!EmptyKernel
    BY DEF HookShaped
  <2>1. CASE s = r
    BY <1>1, <2>1 DEF EmptyMap, NoInner
  <2>2. CASE s # r
    BY <1>1, <2>2 DEF MInv, HookShaped
  <2> QED
    BY <2>1, <2>2
<1>3. PendingHooked'
  <2> SUFFICES ASSUME NEW s \in Replica, NEW k \in Key, pending'[s][k] # Inner!EmptyKernel
               PROVE  k \in hook'[s].outer.keys
    BY DEF PendingHooked
  <2>1. CASE s = r
    <3>1. k \notin Reached(r) /\ pending[r][k] # Inner!EmptyKernel
      BY <1>1, <2>1
    <3>2. k \in hook[r].outer.keys
      BY <3>1 DEF MInv, PendingHooked
    <3>3. Set!HookWithinState
      BY SetConstants, Set!HookInState DEF MInv
    <3>4. k \in state[r].outer.keys
      BY <3>2, <3>3 DEF Set!HookWithinState
    <3> QED
      BY <3>1, <3>2, <3>4 DEF Reached
  <2>2. CASE s # r
    BY <1>1, <2>2 DEF MInv, PendingHooked
  <2> QED
    BY <2>1, <2>2
<1> QED
  BY <1>2, <1>3

LEMMA DeliverPending ==
  ASSUME MInv, NEW r \in Replica, NEW s \in Replica, Deliver(r, s)
  PROVE  HookShaped' /\ PendingHooked'
<1>1. hook' = hook
  BY DEF Deliver
<1>2. ASSUME NEW q \in Replica, NEW k \in Key, pending'[q][k] # Inner!EmptyKernel
      PROVE  pending[q][k] # Inner!EmptyKernel
  <2>1. /\ DOMAIN pending = Replica
        /\ pending' = [pending EXCEPT ![r] = PendingOf(pending[r], state'[r].outer.keys)]
    BY TypedIsTypeOK DEF MInv, TypeOK, Deliver
  <2> QED
    BY <1>2, <2>1 DEF PendingOf
<1> QED
  BY <1>1, <1>2 DEF MInv, HookShaped, PendingHooked

LEMMA InsertPreserves ==
  ASSUME MInv, NEW r \in Replica, NEW k \in Key, NEW vals \in use.inserts, Insert(r, k, vals)
  PROVE  Preserved
<1>1. Set!Insert(r, k)
  BY KeyInsert DEF Insert, Commit, MayUpdate
<1>2. Set!Next
  BY <1>1 DEF Set!Next, Set!Update
<1>3. \E n \in Nat : TypedUpTo(n)'
  BY InsertTyped DEF MInv
<1>4. PICK delta : CommitTo(r, state[r], pending[r], delta)
  BY DEF Insert, Commit
<1>5. HookShaped'
  BY <1>4, CommitShaped
<1>6. Set!LInv' => PendingHooked'
  BY <1>1, <1>4, InsertPending
<1> QED
  BY <1>2, <1>3, <1>5, <1>6 DEF Preserved

LEMMA ErasePreserves ==
  ASSUME MInv, NEW r \in Replica, NEW k \in Key, Erase(r, k)
  PROVE  Preserved
<1>1. /\ Commit(r, ForgetDelta(r, {k})) /\ Forget(r, {k})
      /\ Len(sent[r]) < use.deltas /\ k \in state[r].outer.keys
  BY DEF Erase, MayUpdate
<1>2. Set!Erase(r, k)
  BY <1>1, KeyErase DEF Set!Erase, Set!Commit
<1>3. Set!Next
  BY <1>2 DEF Set!Next, Set!Update
<1>4. \E n \in Nat : TypedUpTo(n)'
  BY <1>1, ForgetTyped DEF MInv
<1>5. PICK delta : CommitTo(r, state[r], pending[r], delta)
  BY <1>1 DEF Commit
<1>6. HookShaped'
  BY <1>5, CommitShaped
<1>7. Set!LInv' => PendingHooked'
  BY <1>1, <1>2, ErasePending
<1> QED
  BY <1>3, <1>4, <1>6, <1>7 DEF Preserved

LEMMA ClearPreserves ==
  ASSUME MInv, NEW r \in Replica, Clear(r)
  PROVE  Preserved
<1>1. PICK K : K = state[r].outer.keys
  OBVIOUS
<1>2. K \in SUBSET Key /\ K # {}
  BY <1>1, TypedIsTypeOK DEF MInv, TypeOK, Map, Outer!Kernel, Clear
<1>3. Commit(r, ForgetDelta(r, K)) /\ Forget(r, K) /\ Len(sent[r]) < use.deltas
  <2>1. Commit(r, ForgetDelta(r, K))
    <3>1. PICK delta : /\ delta = ForgetDelta(r, state[r].outer.keys)
                       /\ Commit(r, delta)
      BY DEF Clear
    <3>2. delta = ForgetDelta(r, K)
      BY <1>1, <3>1
    <3> QED
      BY <3>1, <3>2 DEF Commit, CommitTo
  <2>2. Forget(r, K)
    BY <1>1 DEF Clear, Forget
  <2>3. Len(sent[r]) < use.deltas
    BY <1>1, <1>2 DEF Clear, MayUpdate
  <2> QED
    BY <2>1, <2>2, <2>3
<1>4. Set!Clear(r)
  <2>1. /\ Set!Commit(r, Set!CountersDelta(state[r].outer, K))
        /\ Set!Forget(r, K) /\ UNCHANGED inserted /\ Set!MayUpdate(r)
    BY <1>2, <1>3, KeyErase
  <2>2. Set!CountersDelta(state[r].outer, K)
          = Set!CountersDelta([q \in Replica |-> state[q].outer][r],
                              [q \in Replica |-> state[q].outer][r].keys)
    BY <1>1
  <2>3. Set!Commit(r, Set!CountersDelta([q \in Replica |-> state[q].outer][r],
                                        [q \in Replica |-> state[q].outer][r].keys))
    BY <2>1, <2>2 DEF Set!Commit
  <2>4. Set!Forget(r, [q \in Replica |-> state[q].outer][r].keys)
    BY <1>1, <2>1 DEF Set!Forget
  <2>5. [q \in Replica |-> state[q].outer][r].keys # {}
    BY <1>1, <1>2
  <2> QED
    BY <2>1, <2>3, <2>4, <2>5 DEF Set!Clear, Set!Commit, Set!Forget
<1>5. Set!Next
  BY <1>4 DEF Set!Next, Set!Update
<1>6. \E n \in Nat : TypedUpTo(n)'
  BY <1>2, <1>3, ForgetTyped DEF MInv
<1>7. PICK delta : CommitTo(r, state[r], pending[r], delta)
  BY <1>3 DEF Commit
<1>8. HookShaped'
  BY <1>7, CommitShaped
<1>9. Set!LInv' => PendingHooked'
  BY <1>3, <1>4, ClearPending
<1> QED
  BY <1>5, <1>6, <1>8, <1>9 DEF Preserved

LEMMA CommitNestedPreserves ==
  ASSUME MInv, NEW n \in Nat, TypedUpTo(n), NEW m \in Nat, n <= m, NEW r \in Replica,
         NEW k \in Key, NEW delta \in Kern(m), CommitNested(r, k, delta),
         Len(sent[r]) < use.deltas
  PROVE  Preserved
<1>1. state[r] \in Map /\ pending[r] \in [Key -> Inner!Kernel]
  BY TypedIsTypeOK DEF TypeOK
<1>2. PICK map, p, inner :
        /\ map = [state[r] EXCEPT !.inner[k] = Inner!Merge("state", @, delta)]
        /\ p = [pending[r] EXCEPT ![k] = Inner!Merge("delta", @, delta)]
        /\ inner = Inner!EmptyKernel
        /\ CommitTo(r, map, p, KeyDelta(r, k, inner))
  BY DEF CommitNested
<1>3. map.outer = state[r].outer /\ \A j \in Key \ {k} : p[j] = pending[r][j]
  BY <1>1, <1>2 DEF Map
<1>4. Set!Insert(r, k)
  BY <1>2, <1>3, KeyInsert DEF CommitNested
<1>5. Set!Next
  BY <1>4 DEF Set!Next, Set!Update
<1>6. \E q \in Nat : TypedUpTo(q)'
  BY NestedTyped
<1>7. PICK up : CommitTo(r, map, p, up)
  BY <1>2
<1>8. HookShaped'
  BY <1>7, CommitShaped
<1>9. Set!LInv' => PendingHooked'
  BY <1>3, <1>4, <1>7, InsertPending
<1> QED
  BY <1>5, <1>6, <1>8, <1>9 DEF Preserved

LEMMA NestedPreserves ==
  ASSUME MInv, NEW r \in Replica, NEW k \in Key, NestedUpdate(r, k)
  PROVE  Preserved
<1>1. PICK n \in Nat : TypedUpTo(n)
  BY DEF MInv
<1>2. PICK m \in Nat : m = n + 1 /\ n <= m
  OBVIOUS
<1>3. PICK c \in 1 .. m : c = NextInner(r, k)
  BY <1>1, <1>2, StateInnerType
<1>4. PICK l \in Kern(m) : l = state[r].inner[k] /\ l.keys \in SUBSET Elem
  BY <1>1, <1>2, StateInnerType, TypesGrow
<1>5. PICK delta \in Kern(m) :
        CommitNested(r, k, delta) /\ Len(sent[r]) < use.deltas
  <2>1. ASSUME NEW e \in Elem, NestedInsert(r, k, e)
        PROVE  \E delta \in Kern(m) : CommitNested(r, k, delta) /\ Len(sent[r]) < use.deltas
    <3>1. Inner!ValueDelta(e, r, c) \in Kern(m)
      BY InnerValueType
    <3>2. PICK delta : delta = Inner!ValueDelta(e, r, NextInner(r, k))
      OBVIOUS
    <3>3. CommitNested(r, k, delta)
      BY <2>1, <3>2 DEF NestedInsert, CommitNested, CommitTo
    <3>4. delta = Inner!ValueDelta(e, r, c)
      BY <1>3, <3>2 DEF Inner!ValueDelta
    <3> QED
      BY <2>1, <3>1, <3>3, <3>4 DEF NestedInsert, MayUpdateNested, MayUpdate
  <2>2. ASSUME NEW e \in Elem, NestedErase(r, k, e)
        PROVE  \E delta \in Kern(m) : CommitNested(r, k, delta) /\ Len(sent[r]) < use.deltas
    <3>1. Inner!CountersDelta(l, {e}) \in Kern(m)
      BY InnerCountersType
    <3>2. PICK delta : delta = Inner!CountersDelta(state[r].inner[k], {e})
      OBVIOUS
    <3>3. CommitNested(r, k, delta)
      BY <2>2, <3>2 DEF NestedErase, CommitNested, CommitTo
    <3> QED
      BY <1>4, <2>2, <3>1, <3>2, <3>3 DEF NestedErase, MayUpdateNested, MayUpdate
  <2>3. ASSUME NEW e \in Elem, NestedSet(r, k, e)
        PROVE  \E delta \in Kern(m) : CommitNested(r, k, delta) /\ Len(sent[r]) < use.deltas
    <3>1. PICK delta \in Kern(m) : delta = SetDelta(r, k, e)
      BY <1>1, <1>2, SetDeltaType
    <3>2. CommitNested(r, k, delta)
      BY <2>3, <3>1 DEF NestedSet, CommitNested, CommitTo
    <3> QED
      BY <2>3, <3>2 DEF NestedSet, MayUpdateNested, MayUpdate
  <2>4. ASSUME NestedClear(r, k)
        PROVE  \E delta \in Kern(m) : CommitNested(r, k, delta) /\ Len(sent[r]) < use.deltas
    <3>1. Inner!CountersDelta(l, l.keys) \in Kern(m)
      BY <1>4, InnerCountersType
    <3>2. PICK delta :
            delta = Inner!CountersDelta(state[r].inner[k], state[r].inner[k].keys)
      OBVIOUS
    <3>3. CommitNested(r, k, delta)
      BY <2>4, <3>2 DEF NestedClear, CommitNested, CommitTo
    <3> QED
      BY <1>4, <2>4, <3>1, <3>2, <3>3 DEF NestedClear, MayUpdateNested, MayUpdate
  <2> QED
    BY <2>1, <2>2, <2>3, <2>4 DEF NestedUpdate
<1> QED
  BY <1>1, <1>2, <1>5, CommitNestedPreserves

LEMMA ExtractPreserves ==
  ASSUME MInv, NEW r \in Replica, Extract(r)
  PROVE  Preserved
<1>1. Set!Next
  BY KeyExtract DEF Set!Next
<1>2. \E n \in Nat : TypedUpTo(n)'
  BY ExtractTyped DEF MInv
<1> QED
  BY <1>1, <1>2, ExtractPending DEF Preserved

LEMMA DeliverPreserves ==
  ASSUME MInv, NEW r \in Replica, NEW s \in Replica, Deliver(r, s)
  PROVE  Preserved
<1>1. Set!Next
  BY KeyDeliver DEF Set!Next
<1>2. \E n \in Nat : TypedUpTo(n)'
  BY DeliverTyped DEF MInv
<1> QED
  BY <1>1, <1>2, DeliverPending DEF Preserved

LEMMA InitHolds == Init => MInv
<1> SUFFICES ASSUME Init PROVE MInv
  OBVIOUS
<1>1. TypedUpTo(0)
  BY EmptyType DEF Init, TypedUpTo
<1>2. Set!Init
  BY SameKernels DEF Init, Set!Init, Set!Zero, EmptyMap
<1>3. Set!LInv
  BY <1>2, SetConstants, Set!LinkInit
<1>4. HookShaped /\ PendingHooked
  BY DEF Init, HookShaped, PendingHooked, EmptyMap, NoInner
<1> QED
  BY <1>1, <1>3, <1>4 DEF MInv

LEMMA NextPreserves ==
  ASSUME MInv, Next
  PROVE  Preserved
<1>1. PICK r \in Replica :
        \/ \E k \in Key : \/ \E vals \in use.inserts : Insert(r, k, vals)
                          \/ Erase(r, k)
                          \/ NestedUpdate(r, k)
        \/ Clear(r)
        \/ Extract(r)
        \/ \E s \in Replica : Deliver(r, s)
  BY DEF Next
<1>2. ASSUME NEW k \in Key, NEW vals \in use.inserts, Insert(r, k, vals)
      PROVE  Preserved
  BY <1>2, InsertPreserves
<1>3. ASSUME NEW k \in Key, Erase(r, k)
      PROVE  Preserved
  BY <1>3, ErasePreserves
<1>4. ASSUME NEW k \in Key, NestedUpdate(r, k)
      PROVE  Preserved
  BY <1>4, NestedPreserves
<1>5. CASE Clear(r)
  BY <1>5, ClearPreserves
<1>6. CASE Extract(r)
  BY <1>6, ExtractPreserves
<1>7. ASSUME NEW s \in Replica, Deliver(r, s)
      PROVE  Preserved
  BY <1>7, DeliverPreserves
<1> QED
  BY <1>1, <1>2, <1>3, <1>4, <1>5, <1>6, <1>7

\* Every step of the map is a step of the set of its keys.
LEMMA StepIsSetStep == MInv /\ [Next]_vars => [Set!Next]_(Set!vars)
<1>1. ASSUME MInv, Next
      PROVE  Set!Next
  BY <1>1, NextPreserves DEF Preserved
<1>2. UNCHANGED vars => UNCHANGED Set!vars
  BY DEF vars, Set!vars
<1> QED
  BY <1>1, <1>2

LEMMA StepPreserves == MInv /\ [Next]_vars => MInv'
<1> SUFFICES ASSUME MInv, [Next]_vars PROVE MInv'
  OBVIOUS
<1>1. Set!LInv'
  BY StepIsSetStep, SetConstants, Set!LinkStep DEF MInv
<1>2. CASE Next
  <2>1. Preserved
    BY <1>2, NextPreserves
  <2>2. PICK n \in Nat : TypedUpTo(n)'
    BY <2>1 DEF Preserved
  <2> QED
    BY <1>1, <2>1, <2>2 DEF Preserved, MInv
<1>3. CASE UNCHANGED vars
  <2>1. PICK n \in Nat : TypedUpTo(n)
    BY DEF MInv
  <2>2. TypedUpTo(n)'
    BY <1>3, <2>1 DEF TypedUpTo, vars
  <2>3. HookShaped' /\ PendingHooked'
    BY <1>3 DEF MInv, HookShaped, PendingHooked, vars
  <2> QED
    BY <1>1, <2>2, <2>3 DEF MInv
<1> QED
  BY <1>2, <1>3

-----------------------------------------------------------------------------

\* The inductive invariant of the map: its types, the invariant of the set of its keys, and
\* what ties the map's hook to the nested hooks.
THEOREM MapInvariant == Spec => []MInv
BY InitHolds, StepPreserves, PTL DEF Spec

\* Every variable of the map has its type.
THEOREM TypeCorrect == Spec => []TypeOK
<1>1. MInv => TypeOK
  BY TypedIsTypeOK DEF MInv
<1> QED
  BY <1>1, MapInvariant, PTL

\* The actions of the two instances are the same.
LEMMA SameOperators ==
  /\ Set!EmptyKernel = KeySet!EmptyKernel
  /\ \A tag, l, d : Set!Merge(tag, l, d) = KeySet!Merge(tag, l, d)
  /\ \A k, r, c : Set!ValueDelta(k, r, c) = KeySet!ValueDelta(k, r, c)
  /\ \A l, K : Set!CountersDelta(l, K) = KeySet!CountersDelta(l, K)
  /\ \A r : Set!NextDot(r) = KeySet!NextDot(r)
  /\ \A r : Set!Envelope(r) = KeySet!Envelope(r)
<1>1. Set!EmptyKernel = KeySet!EmptyKernel
  BY DEF Set!EmptyKernel, KeySet!EmptyKernel, Set!NoDots, KeySet!NoDots
<1>2. ASSUME NEW tag, NEW l, NEW d
      PROVE  Set!Merge(tag, l, d) = KeySet!Merge(tag, l, d)
  BY ZenonT(40) DEF Set!Merge, KeySet!Merge, Set!MergedDots, KeySet!MergedDots, Set!MergedLinks,
     KeySet!MergedLinks, Set!Valueless, KeySet!Valueless, Set!CountersErased,
     KeySet!CountersErased, Set!CountersMerge, KeySet!CountersMerge, Set!Collapse,
     KeySet!Collapse, Set!Succeeds, KeySet!Succeeds, Set!NoDots, KeySet!NoDots
<1>3. /\ \A k, r, c : Set!ValueDelta(k, r, c) = KeySet!ValueDelta(k, r, c)
      /\ \A l, K : Set!CountersDelta(l, K) = KeySet!CountersDelta(l, K)
  BY <1>1 DEF Set!ValueDelta, KeySet!ValueDelta, Set!CountersDelta, KeySet!CountersDelta,
     Set!NoDots, KeySet!NoDots
<1>4. \A S : Set!NextCounter(S) = KeySet!NextCounter(S)
  BY DEF Set!NextCounter, KeySet!NextCounter, Set!Max, KeySet!Max
<1>5. \A r : Set!NextDot(r) = KeySet!NextDot(r)
  BY <1>4 DEF Set!NextDot, KeySet!NextDot
<1>6. \A r : Set!Envelope(r) = KeySet!Envelope(r)
  BY <1>1, <1>2 DEF Set!Envelope, KeySet!Envelope, Set!Zero, KeySet!Zero
<1> QED
  BY <1>1, <1>2, <1>3, <1>5, <1>6

LEMMA SameActions ==
  ASSUME NEW r \in Replica
  PROVE  /\ \A k \in Key : Set!Insert(r, k) => KeySet!Insert(r, k)
         /\ \A k \in Key : Set!Erase(r, k) => KeySet!Erase(r, k)
         /\ Set!Clear(r) => KeySet!Clear(r)
         /\ Set!Extract(r) => KeySet!Extract(r)
         /\ \A s \in Replica : Set!Deliver(r, s) => KeySet!Deliver(r, s)
<1>1. \A k \in Key : Set!Insert(r, k) => KeySet!Insert(r, k)
  BY SameOperators DEF Set!Insert, KeySet!Insert, Set!Commit, KeySet!Commit, Set!MayUpdate,
     KeySet!MayUpdate
<1>2. \A k \in Key : Set!Erase(r, k) => KeySet!Erase(r, k)
  BY SameOperators DEF Set!Erase, KeySet!Erase, Set!Commit, KeySet!Commit, Set!MayUpdate,
     KeySet!MayUpdate, Set!Forget, KeySet!Forget
<1>3. Set!Clear(r) => KeySet!Clear(r)
  BY SameOperators DEF Set!Clear, KeySet!Clear, Set!Commit, KeySet!Commit, Set!MayUpdate,
     KeySet!MayUpdate, Set!Forget, KeySet!Forget
<1>4. Set!Extract(r) => KeySet!Extract(r)
  BY SameOperators DEF Set!Extract, KeySet!Extract
<1>5. \A s \in Replica : Set!Deliver(r, s) => KeySet!Deliver(r, s)
  BY SameOperators DEF Set!Deliver, KeySet!Deliver, Set!Deliverable, KeySet!Deliverable,
     Set!Pending, KeySet!Pending
<1> QED
  BY <1>1, <1>2, <1>3, <1>4, <1>5

\* In every use, and whatever happens in nested containers, the keys of a map behave as the
\* elements of a crdt::set in which a nested update is an insert of its key.
THEOREM KeysAreSet == Spec => KeysAreASet
<1>1. Init => KeySet!Init
  <2>1. Init => Set!Init
    BY SameKernels DEF Init, Set!Init, Set!Zero, EmptyMap
  <2>2. Set!Init => KeySet!Init
    BY SameOperators DEF Set!Init, KeySet!Init, Set!Zero, KeySet!Zero
  <2> QED
    BY <2>1, <2>2
<1>2. Set!Next => KeySet!Next
  BY SameActions DEF Set!Next, Set!Update, KeySet!Next, KeySet!Update
<1>3. UNCHANGED Set!vars => UNCHANGED KeySet!vars
  BY DEF Set!vars, KeySet!vars
<1>4. MInv /\ [Next]_vars => [KeySet!Next]_(KeySet!vars)
  BY <1>2, <1>3, StepIsSetStep
<1> QED
  BY <1>1, <1>4, MapInvariant, PTL DEF Spec, KeysAreASet, KeySet!Spec

\* No change stays behind in a nested hook: whatever is erased, cleared or merged after the
\* nested container has called back, its key stays in the map's hook, and in the map.
THEOREM NothingStranded == Spec => []NoChangeStranded
<1>1. MInv => NoChangeStranded
  <2> SUFFICES ASSUME MInv, NEW r \in Replica, NEW k \in Key,
                      pending[r][k] # Inner!EmptyKernel
               PROVE  k \in Reached(r)
    BY DEF NoChangeStranded
  <2>1. k \in hook[r].outer.keys
    BY DEF MInv, PendingHooked
  <2>2. Set!HookWithinState
    BY SetConstants, Set!HookInState DEF MInv
  <2>3. k \in state[r].outer.keys
    BY <2>1, <2>2 DEF Set!HookWithinState
  <2> QED
    BY <2>1, <2>3 DEF Reached
<1> QED
  BY <1>1, MapInvariant, PTL

\* A change protects its key against every erase that has not seen it, at the replica that
\* made it and at those it comes to, in every use.
THEOREM ChangesWin == Spec => ChangeWins
<1>1. ASSUME MInv, MInv', [Next]_vars, NEW r \in Replica, NEW s \in Replica, Deliver(r, s)
      PROVE  hook[r].outer.keys \cup Pending(r, s).delta.outer.keys \subseteq state'[r].outer.keys
  <2>1. Set!Deliver(r, s) /\ Set!Pending(r, s).delta = Pending(r, s).delta.outer
    BY <1>1, KeyDeliver
  <2>2. /\ hook[r].outer.keys \subseteq state'[r].outer.keys
        /\ Set!Pending(r, s).delta.keys \subseteq state'[r].outer.keys
    BY <1>1, <2>1, SetConstants, Set!DeliveryKeeps DEF MInv
  <2> QED
    BY <2>1, <2>2
<1>2. MInv /\ MInv' /\ [Next]_vars =>
        [\A r, s \in Replica : Deliver(r, s) =>
           hook[r].outer.keys \cup Pending(r, s).delta.outer.keys \subseteq state'[r].outer.keys]_vars
  BY <1>1
<1> QED
  BY <1>2, MapInvariant, PTL DEF Spec, ChangeWins
=============================================================================
