-------------------------- MODULE DotKernelProofs --------------------------
(***************************************************************************)
(* Facts about the merge algorithm of DotKernel, for every set of replicas *)
(* and keys: what merging two kernels can and cannot bring about.          *)
(***************************************************************************)
EXTENDS DotKernel, FiniteSetTheorems, TLAPS

\* A kernel whose dots and counters are drawn from those of D and C.
Within(l, D, C) ==
  /\ \A k \in Key : \A r \in Replica : l.dots[k][r] \subseteq D[k][r]
  /\ \A r \in Replica : l.counters[r] \subseteq C[r]

LEMMA WithinGrows ==
  ASSUME NEW l, NEW D, NEW C, NEW E, NEW F, Within(l, D, C),
         \A k \in Key : \A r \in Replica : D[k][r] \subseteq E[k][r],
         \A r \in Replica : C[r] \subseteq F[r]
  PROVE  Within(l, E, F)
BY DEF Within

-----------------------------------------------------------------------------
(* Counter sets.                                                           *)

\* A set of counters has a least one.
LEMMA LeastCounter ==
  ASSUME NEW S \in SUBSET Nat, S # {}
  PROVE  \E x \in S : \A y \in S : x <= y
<1> DEFINE T == {0 .. y : y \in S}
           R == StrictSubsetOrdering(Nat)
<1>1. IsWellFoundedOn(R, FiniteSubsetsOf(Nat))
  BY FS_StrictSubsetOrderingWellFounded
<1>2. \A y \in S : IsFiniteSet(0 .. y) /\ 0 .. y \in SUBSET Nat
  BY FS_Interval
<1>3. T \subseteq FiniteSubsetsOf(Nat) /\ T # {}
  BY <1>2 DEF FiniteSubsetsOf
<1>4. PICK X \in T : \A Y \in T : ~(<<Y, X>> \in R)
  <2> HIDE DEF T, R
  <2> QED
    BY <1>1, <1>3, WFMin
<1>5. PICK x \in S : X = 0 .. x
  OBVIOUS
<1>6. ASSUME NEW y \in S, y < x
      PROVE  FALSE
  <2>1. 0 .. y \subseteq X /\ x \in X /\ x \notin 0 .. y
    BY <1>5, <1>6
  <2>2. <<0 .. y, X>> \in R
    BY <1>2, <1>5, <2>1 DEF StrictSubsetOrdering
  <2> QED
    BY <1>4, <2>2
<1> QED
  BY <1>6

\* A collapsed set is not collapsed any further.
LEMMA CollapseTwice ==
  ASSUME NEW S \in SUBSET Nat
  PROVE  Collapse(Collapse(S)) = Collapse(S)
<1> DEFINE T == Collapse(S)
<1>1. T \subseteq S
  BY DEF Collapse
<1>2. SUFFICES ASSUME NEW c \in T, c + 1 \in T
               PROVE  \E b \in T : b < c /\ ~(b .. c \subseteq T)
  BY DEF Collapse
<1>3. PICK b \in S : b < c /\ ~(b .. c \subseteq S)
  BY <1>1, <1>2 DEF Collapse
<1>4. PICK x \in b .. c : /\ x \notin S
                          /\ \A y \in b .. c : y \notin S => x <= y
  <2> DEFINE G == {y \in b .. c : y \notin S}
  <2>1. G \in SUBSET Nat /\ G # {}
    BY <1>3
  <2>2. \E x \in G : \A y \in G : x <= y
    BY <2>1, LeastCounter
  <2> QED
    BY <2>2
<1>5. /\ b \in Nat /\ c \in Nat /\ x \in Nat
      /\ b < x /\ x <= c
  <2>1. c \in S
    BY <1>1
  <2>2. x # b
    BY <1>4
  <2> QED
    BY <1>4, <2>1, <2>2
<1>6. x - 1 \in b .. c /\ x - 1 < x
  BY <1>5
<1>7. x - 1 \in S /\ (x - 1) + 1 = x
  <2>1. ~(x <= x - 1)
    BY <1>5
  <2> QED
    BY <1>4, <1>5, <1>6, <2>1
<1>8. x - 1 \in T
  BY <1>4, <1>7 DEF Collapse
<1>9. x \in (x - 1) .. c /\ x - 1 < c
  BY <1>5
<1> QED
  BY <1>1, <1>4, <1>8, <1>9

\* counters_merge invents no counter.
LEMMA CountersMergeSubset ==
  ASSUME NEW tag, NEW L, NEW R
  PROVE  CountersMerge(tag, L, R) \subseteq L \cup R
BY DEF CountersMerge, Collapse

\* counters_merge keeps the largest counter of the two sides, so that neither the
\* in-place replacement nor the collapse makes a replica forget its last dot.
LEMMA CountersMergeTop ==
  ASSUME NEW tag, NEW L \in SUBSET Nat, NEW R \in SUBSET Nat,
         NEW n \in L \cup R, \A c \in L \cup R : c <= n
  PROVE  n \in CountersMerge(tag, L, R)
<1>1. CASE R = {}
  BY <1>1 DEF CountersMerge
<1>2. CASE R # {} /\ Succeeds(L, R)
  <2>1. PICK c \in L : L = {c} /\ R = {c + 1}
    BY <1>2 DEF Succeeds
  <2>2. n = c + 1
    BY <2>1
  <2> QED
    BY <1>2, <2>1, <2>2 DEF CountersMerge
<1>3. CASE R # {} /\ ~Succeeds(L, R)
  <2>1. n \in Nat /\ n + 1 \notin L \cup R
    OBVIOUS
  <2>2. n \in Collapse(L \cup R)
    BY <2>1 DEF Collapse
  <2> QED
    BY <1>3, <2>2 DEF CountersMerge
<1> QED
  BY <1>1, <1>2, <1>3

\* The next dot follows the largest counter on record.
LEMMA NextCounterIsSuccessor ==
  ASSUME NEW n \in Nat, NEW S \in SUBSET (1 .. n), n = 0 \/ n \in S
  PROVE  NextCounter(S) = n + 1
<1>1. CASE S = {}
  BY <1>1 DEF NextCounter
<1>2. CASE S # {}
  <2>0. n # 0
    <3>1. PICK x \in S : x \in 1 .. n
      BY <1>2
    <3> QED
      BY <3>1
  <2>1. n \in S /\ \A y \in S : n >= y
    BY <2>0
  <2>2. \A x \in S : (\A y \in S : x >= y) => x = n
    BY <2>1
  <2>3. Max(S) = n
    BY <2>1, <2>2 DEF Max
  <2> QED
    BY <1>2, <2>3 DEF NextCounter
<1> QED
  BY <1>1, <1>2

-----------------------------------------------------------------------------
(* Kernels.                                                                *)

LEMMA EmptyKernelType == EmptyKernel \in Kernel
BY DEF EmptyKernel, Kernel, NoDots, Dots

LEMMA ValueDeltaType ==
  ASSUME NEW k \in Key, NEW r \in Replica, NEW c \in Nat \ {0}
  PROVE  ValueDelta(k, r, c) \in Kernel
BY DEF ValueDelta, EmptyKernel, Kernel, NoDots, Dots

LEMMA CountersDeltaType ==
  ASSUME NEW l \in Kernel, NEW K \in SUBSET Key
  PROVE  CountersDelta(l, K) \in Kernel
<1>1. \A r \in Replica : UNION {l.dots[k][r] : k \in K} \in SUBSET (Nat \ {0})
  BY DEF Kernel, Dots
<1> QED
  BY <1>1 DEF CountersDelta, EmptyKernel, Kernel, NoDots, Dots

\* Merging kernels yields a kernel.
LEMMA MergeType ==
  ASSUME NEW tag, NEW l \in Kernel, NEW d \in Kernel
  PROVE  Merge(tag, l, d) \in Kernel
<1> DEFINE Counter == Nat \ {0}
           dots1 == MergedDots(tag, l, d)
           links1 == MergedLinks(tag, l, d)
           dead == [r \in Replica |-> {p \in links1[r] : p[1] \in Valueless(d, r)}]
<1>1. \A r \in Replica :
        /\ l.counters[r] \subseteq Counter
        /\ d.counters[r] \subseteq Counter
        /\ l.links[r] \subseteq Counter \X Key
        /\ \A k \in Key : l.dots[k][r] \subseteq Counter /\ d.dots[k][r] \subseteq Counter
  BY DEF Kernel, Dots
<1>2. \A k \in Key : \A r \in Replica : dots1[k][r] \subseteq Counter
  BY <1>1, CountersMergeSubset DEF MergedDots
<1>3. \A r \in Replica : links1[r] \subseteq Counter \X Key
  <2> SUFFICES ASSUME NEW r \in Replica, NEW p \in links1[r]
               PROVE  p \in Counter \X Key
    OBVIOUS
  <2>1. p \in l.links[r] \/ p \in UNION {d.dots[k][r] \X {k} : k \in d.keys}
    BY DEF MergedLinks
  <2>2. ASSUME NEW k \in d.keys, p \in d.dots[k][r] \X {k}
        PROVE  p \in Counter \X Key
    <3>1. k \in Key
      BY DEF Kernel
    <3> QED
      BY <1>1, <2>2, <3>1
  <2> QED
    BY <1>1, <2>1, <2>2
<1>4. \A r \in Replica :
        CountersMerge(tag, l.counters[r], d.counters[r]) \in SUBSET Counter
  BY <1>1, CountersMergeSubset
<1>5. /\ Merge(tag, l, d).keys \in SUBSET Key
      /\ Merge(tag, l, d).dots \in [Key -> Dots]
      /\ Merge(tag, l, d).counters \in Dots
      /\ Merge(tag, l, d).links \in [Replica -> SUBSET (Counter \X Key)]
  BY <1>2, <1>3, <1>4 DEF Merge, Kernel, Dots
<1> QED
  BY <1>5 DEF Merge, Kernel

LEMMA MergeCounters ==
  ASSUME NEW tag, NEW l, NEW d, NEW r \in Replica
  PROVE  Merge(tag, l, d).counters[r] = CountersMerge(tag, l.counters[r], d.counters[r])
BY DEF Merge

\* Merging brings in no dot and no counter that neither side has.
LEMMA MergeWithin ==
  ASSUME NEW tag, NEW l \in Kernel, NEW d \in Kernel, NEW D, NEW C,
         Within(l, D, C), Within(d, D, C)
  PROVE  Within(Merge(tag, l, d), D, C)
<1>1. \A k \in Key : \A r \in Replica : MergedDots(tag, l, d)[k][r] \subseteq D[k][r]
  BY CountersMergeSubset DEF MergedDots, Within
<1>2. \A k \in Key : \A r \in Replica :
        Merge(tag, l, d).dots[k][r] \subseteq MergedDots(tag, l, d)[k][r]
  BY DEF Merge
<1>3. \A r \in Replica : Merge(tag, l, d).counters[r] \subseteq C[r]
  BY CountersMergeSubset DEF Merge, Within
<1> QED
  BY <1>1, <1>2, <1>3 DEF Within
-----------------------------------------------------------------------------
(* Links.                                                                  *)

\* A set of counters within T starts with one that T does not continue: no collapse of T
\* reaches beyond the first counter of S.
HeadedIn(S, T) == S = {} \/ \E m \in S : m + 1 \notin T /\ \A x \in S : m <= x

\* Counters that are newer than all of L and do not start with a run stay whole.
LEMMA CountersMergeFresh ==
  ASSUME NEW tag, NEW L \in SUBSET Nat, NEW R \in SUBSET Nat,
         \A x \in L : \A y \in R : x < y,
         HeadedIn(R, R)
  PROVE  R \subseteq CountersMerge(tag, L, R)
<1>1. CASE R = {} \/ Succeeds(L, R) \/ tag # "state"
  BY <1>1 DEF CountersMerge
<1>2. CASE R # {} /\ ~Succeeds(L, R) /\ tag = "state"
  <2> SUFFICES ASSUME NEW y \in R, y + 1 \in L \cup R,
                      \A b \in L \cup R : b < y => b .. y \subseteq L \cup R
               PROVE  FALSE
    BY <1>2 DEF CountersMerge, Collapse
  <2>1. PICK m \in R : m + 1 \notin R /\ \A x \in R : m <= x
    BY <1>2 DEF HeadedIn
  <2>2. y + 1 \in R
    OBVIOUS
  <2>3. m < y
    BY <2>1, <2>2
  <2>4. m + 1 \in m .. y
    BY <2>3
  <2>5. m + 1 \in L \cup R
    BY <2>3, <2>4
  <2>6. m + 1 \notin L
    OBVIOUS
  <2> QED
    BY <2>1, <2>5, <2>6
<1> QED
  BY <1>1, <1>2

\* A new counter joins the accumulated dots H and the dots L of the same element.
LEMMA CountersMergeNext ==
  ASSUME NEW n \in Nat, NEW L \in SUBSET (1 .. n), NEW H \in SUBSET L, HeadedIn(H, L)
  PROVE  /\ CountersMerge("delta", H, {n + 1}) \subseteq CountersMerge("state", L, {n + 1})
         /\ HeadedIn(CountersMerge("delta", H, {n + 1}), CountersMerge("state", L, {n + 1}))
<1> DEFINE c == n + 1
           L1 == CountersMerge("state", L, {c})
           H1 == CountersMerge("delta", H, {c})
<1>1. c \in L1 /\ L1 \subseteq L \cup {c} /\ c + 1 \notin L1
  <2>1. c \in L1
    BY CountersMergeTop
  <2> QED
    BY <2>1, CountersMergeSubset
<1>2. CASE H1 = {c}
  BY <1>1, <1>2 DEF HeadedIn
<1>3. CASE H1 # {c}
  <2>1. H # {} /\ H1 = H \cup {c}
    BY <1>3 DEF CountersMerge
  <2>2. PICK m \in H : m + 1 \notin L /\ \A x \in H : m <= x
    BY <2>1 DEF HeadedIn
  <2>3. m + 1 # c
    <3>1. SUFFICES ASSUME m = n PROVE FALSE
      OBVIOUS
    <3>2. \A x \in H : x \in 1 .. n
      OBVIOUS
    <3>3. \A x \in H : x = n
      BY <2>2, <3>1, <3>2
    <3>4. H = {n}
      BY <2>1, <3>3
    <3> QED
      BY <1>3, <3>4 DEF CountersMerge, Succeeds
  <2>4. ASSUME NEW x \in H PROVE x \in L1
    <3>1. ~Succeeds(L, {c})
      <4> SUFFICES ASSUME L = {n} PROVE FALSE
        BY DEF Succeeds
      <4> QED
        BY <2>2, <2>3
    <3>2. SUFFICES ASSUME x + 1 \in L \cup {c},
                          \A b \in L \cup {c} : b < x => b .. x \subseteq L \cup {c}
                   PROVE  FALSE
      BY <3>1 DEF CountersMerge, Collapse
    <3>3. m < x
      BY <2>2, <2>3, <3>2
    <3>4. m + 1 \in m .. x /\ m .. x \subseteq L \cup {c}
      BY <3>2, <3>3
    <3> QED
      BY <2>2, <2>3, <3>4
  <2>5. H1 \subseteq L1
    BY <1>1, <2>1, <2>4
  <2>6. m \in 1 .. n
    OBVIOUS
  <2>7. m + 1 \notin L1
    BY <1>1, <2>2, <2>3
  <2>8. m \in H1 /\ \A x \in H1 : m <= x
    <3>1. m <= c
      BY <2>6
    <3> QED
      BY <2>1, <2>2, <3>1
  <2> QED
    BY <2>5, <2>7, <2>8 DEF HeadedIn
<1> QED
  BY <1>2, <1>3

\* The elements are those with a dot.
Supported(l) == \A k \in Key : k \in l.keys <=> \E r \in Replica : l.dots[k][r] # {}

\* Linked, pair by pair.
LEMMA LinkedPairs ==
  ASSUME NEW l \in Kernel
  PROVE  Linked(l) <=>
           /\ \A r \in Replica : \A k \in Key : \A c \in Nat \ {0} :
                <<c, k>> \in l.links[r] <=> c \in l.dots[k][r]
           /\ Supported(l)
<1> DEFINE Counter == Nat \ {0}
           Pairs(r) == UNION {l.dots[k][r] \X {k} : k \in l.keys}
<1>1. /\ l.keys \subseteq Key
      /\ \A r \in Replica : l.links[r] \subseteq Counter \X Key
      /\ \A k \in Key : l.dots[k] \in [Replica -> SUBSET Counter]
  BY DEF Kernel, Dots
<1>2. \A k \in Key : l.dots[k] # NoDots <=> \E r \in Replica : l.dots[k][r] # {}
  BY <1>1 DEF NoDots
<1>3. \A r \in Replica : \A k \in Key : \A c \in Counter :
        <<c, k>> \in Pairs(r) <=> k \in l.keys /\ c \in l.dots[k][r]
  OBVIOUS
<1>4. \A r \in Replica : Pairs(r) \subseteq Counter \X Key
  BY <1>1
<1>5. ASSUME \A k \in Key : k \in l.keys <=> \E r \in Replica : l.dots[k][r] # {}
      PROVE  \A r \in Replica :
               l.links[r] = Pairs(r) <=>
                 \A k \in Key : \A c \in Counter : <<c, k>> \in l.links[r] <=> c \in l.dots[k][r]
  <2> SUFFICES ASSUME NEW r \in Replica
               PROVE  l.links[r] = Pairs(r) <=>
                 \A k \in Key : \A c \in Counter : <<c, k>> \in l.links[r] <=> c \in l.dots[k][r]
    OBVIOUS
  <2>1. \A k \in Key : \A c \in Counter : <<c, k>> \in Pairs(r) <=> c \in l.dots[k][r]
    BY <1>3, <1>5
  <2>2. l.links[r] = Pairs(r) <=>
          \A k \in Key : \A c \in Counter : <<c, k>> \in l.links[r] <=> <<c, k>> \in Pairs(r)
    BY <1>1, <1>4
  <2> QED
    BY <2>1, <2>2
<1> QED
  BY <1>2, <1>5 DEF Linked, Supported

\* D gives every dot to one key.
Apart(D) ==
  \A j, k \in Key : \A r \in Replica : \A c \in D[j][r] : c \in D[k][r] => j = k

\* No dot of d is collapsed away in the merge that brings it.
Stays(tag, l, d) ==
  \A k \in Key : \A r \in Replica :
    d.dots[k][r] \subseteq CountersMerge(tag, l.dots[k][r], d.dots[k][r])

\* The merge is a linked kernel, and an element has its merged dots but for those that d
\* records without an element.
MergedCleanly(tag, l, d) ==
  /\ Linked(Merge(tag, l, d))
  /\ \A k \in Key : \A r \in Replica :
       Merge(tag, l, d).dots[k][r] =
         CountersMerge(tag, l.dots[k][r], d.dots[k][r]) \ Valueless(d, r)

\* A kernel with links merges cleanly with one whose elements have dots. Without the last
\* assumption it fails: a dot that is collapsed away as it arrives is linked all the same.
LEMMA MergeLinked ==
  ASSUME NEW tag, NEW l \in Kernel, NEW d \in Kernel, Linked(l), Supported(d),
         NEW D, NEW C, Within(l, D, C), Within(d, D, C), Apart(D), Stays(tag, l, d)
  PROVE  MergedCleanly(tag, l, d)
<1> DEFINE Counter == Nat \ {0}
           L(k, r) == l.dots[k][r]
           R(k, r) == d.dots[k][r]
           Joined(k, r) == CountersMerge(tag, l.dots[k][r], d.dots[k][r])
           m == Merge(tag, l, d)
           erased(r) == UNION {CountersErased(tag, L(k, r), R(k, r)) : k \in d.keys}
           kept(r) == {p \in l.links[r] : p[1] \notin erased(r)}
           links1 == MergedLinks(tag, l, d)
<1>1. /\ \A r \in Replica : \A k \in Key : \A c \in Counter :
           <<c, k>> \in l.links[r] <=> c \in L(k, r)
      /\ \A k \in Key : k \in l.keys <=> \E r \in Replica : L(k, r) # {}
      /\ \A k \in Key : k \in d.keys <=> \E r \in Replica : R(k, r) # {}
  BY LinkedPairs DEF Supported
<1>2. /\ l.keys \subseteq Key /\ d.keys \subseteq Key
      /\ \A r \in Replica : l.links[r] \subseteq Counter \X Key
      /\ \A k \in Key : \A r \in Replica : L(k, r) \subseteq Counter /\ R(k, r) \subseteq Counter
  BY DEF Kernel, Dots
<1>3. \A k \in Key : \A r \in Replica :
        /\ R(k, r) \subseteq Joined(k, r)
        /\ Joined(k, r) \subseteq L(k, r) \cup R(k, r)
        /\ L(k, r) \subseteq D[k][r] /\ R(k, r) \subseteq D[k][r]
  BY CountersMergeSubset DEF Within, Stays
<1>4. \A k \in Key : \A r \in Replica : MergedDots(tag, l, d)[k][r] = Joined(k, r)
  BY <1>1 DEF MergedDots, CountersMerge
<1>5. ASSUME NEW r \in Replica, NEW k \in Key, NEW c \in L(k, r)
      PROVE  c \in erased(r) <=> c \notin Joined(k, r)
  <2>1. ASSUME NEW j \in d.keys, c \in CountersErased(tag, L(j, r), R(j, r))
        PROVE  c \notin Joined(k, r)
    <3>1. j \in Key /\ c \in L(j, r) \cup R(j, r) /\ c \notin Joined(j, r)
      BY <1>2, <2>1 DEF CountersErased
    <3>2. j = k
      BY <1>3, <3>1 DEF Apart
    <3> QED
      BY <3>1, <3>2
  <2>2. ASSUME c \notin Joined(k, r)
        PROVE  c \in erased(r)
    <3>1. R(k, r) # {}
      BY <2>2 DEF CountersMerge
    <3>2. k \in d.keys /\ c \in CountersErased(tag, L(k, r), R(k, r))
      BY <1>1, <2>2, <3>1 DEF CountersErased
    <3> QED
      BY <3>2
  <2> QED
    BY <2>1, <2>2
<1>6. ASSUME NEW r \in Replica, NEW k \in Key, NEW c \in Counter
      PROVE  <<c, k>> \in kept(r) <=> c \in L(k, r) /\ c \in Joined(k, r)
  BY <1>1, <1>5
<1>7. ASSUME NEW r \in Replica, NEW k \in Key, NEW c \in Counter
      PROVE  <<c, k>> \in links1[r] <=> c \in Joined(k, r)
  <2> DEFINE new == {p \in UNION {R(j, r) \X {j} : j \in d.keys} :
                       \A q \in kept(r) : q[1] # p[1]}
  <2>1. links1[r] = kept(r) \cup new
    BY DEF MergedLinks
  <2>2. <<c, k>> \in new => c \in R(k, r)
    OBVIOUS
  <2>3. ASSUME c \in R(k, r), c \notin L(k, r)
        PROVE  <<c, k>> \in new
    <3>1. k \in d.keys
      BY <1>1, <2>3
    <3>2. ASSUME NEW q \in kept(r), q[1] = c
          PROVE  FALSE
      <4>1. q \in Counter \X Key
        BY <1>2, <3>2
      <4>2. PICK j \in Key : q = <<c, j>>
        BY <3>2, <4>1
      <4>3. c \in L(j, r)
        BY <1>6, <4>2
      <4>4. j = k
        BY <1>3, <2>3, <4>3 DEF Apart
      <4> QED
        BY <2>3, <4>3, <4>4
    <3>3. <<c, k>> \in UNION {R(j, r) \X {j} : j \in d.keys}
      BY <2>3, <3>1
    <3> QED
      BY <3>2, <3>3
  <2> QED
    BY <1>3, <1>6, <2>1, <2>2, <2>3
<1> HIDE DEF links1
<1>8. ASSUME NEW k \in Key, NEW r \in Replica
      PROVE  m.dots[k][r] = Joined(k, r) \ Valueless(d, r)
  <2>1. Joined(k, r) \subseteq Counter
    BY <1>2, <1>3
  <2>2. m.dots[k][r] = {c \in Joined(k, r) :
                         <<c, k>> \notin {p \in links1[r] : p[1] \in Valueless(d, r)}}
    BY <1>4 DEF Merge, links1
  <2>3. \A c \in Joined(k, r) : <<c, k>> \in links1[r]
    BY <1>7, <2>1
  <2> QED
    BY <2>2, <2>3
<1>9. ASSUME NEW k \in Key, NEW r \in Replica, NEW c \in Counter
      PROVE  <<c, k>> \in m.links[r] <=> c \in m.dots[k][r]
  <2>1. m.links[r] = links1[r] \ {p \in links1[r] : p[1] \in Valueless(d, r)}
    BY DEF Merge, links1
  <2> QED
    BY <1>7, <1>8, <2>1
<1>10. ASSUME NEW k \in Key
       PROVE  k \in m.keys <=> \E r \in Replica : m.dots[k][r] # {}
  <2> DEFINE hit == \E r \in Replica : \E p \in links1[r] : p[1] \in Valueless(d, r) /\ p[2] = k
  <2>1. k \in m.keys <=> k \in l.keys \cup d.keys /\ (hit => m.dots[k] # NoDots)
    BY DEF Merge, links1
  <2>2. m.dots[k] # NoDots <=> \E r \in Replica : m.dots[k][r] # {}
    <3>1. m \in Kernel
      BY MergeType
    <3>2. m.dots[k] \in [Replica -> SUBSET Counter]
      BY <3>1 DEF Kernel, Dots
    <3> QED
      BY <3>2 DEF NoDots
  <2>3. k \in l.keys \cup d.keys <=> \E r \in Replica : Joined(k, r) # {}
    <3>1. \A r \in Replica : Joined(k, r) # {} <=> L(k, r) # {} \/ R(k, r) # {}
      BY <1>3 DEF CountersMerge
    <3> QED
      BY <1>1, <3>1
  <2>4. ASSUME ~hit, NEW r \in Replica
        PROVE  m.dots[k][r] = Joined(k, r)
    <3>1. Joined(k, r) \subseteq Counter
      BY <1>2, <1>3
    <3>2. \A c \in Joined(k, r) : <<c, k>> \in links1[r]
      BY <1>7, <3>1
    <3>3. \A c \in Joined(k, r) : c \notin Valueless(d, r)
      BY <2>4, <3>2
    <3> QED
      BY <1>8, <3>3
  <2>5. \A r \in Replica : m.dots[k][r] \subseteq Joined(k, r)
    BY <1>8
  <2> QED
    BY <2>1, <2>2, <2>3, <2>4, <2>5
<1>11. Supported(m)
  BY <1>10 DEF Supported
<1> QED
  BY <1>8, <1>9, <1>11, MergeType, LinkedPairs DEF MergedCleanly

-----------------------------------------------------------------------------
(* The same delta again.                                                   *)

\* d has only dots that are newer than those of l, and none of its elements starts with
\* a run of them.
Fresh(l, d) ==
  \A k \in Key : \A r \in Replica :
    /\ \A x \in l.dots[k][r] : \A y \in d.dots[k][r] : x < y
    /\ HeadedIn(d.dots[k][r], d.dots[k][r])

LEMMA FreshStays ==
  ASSUME NEW tag, NEW l \in Kernel, NEW d \in Kernel, Fresh(l, d)
  PROVE  Stays(tag, l, d)
<1> SUFFICES ASSUME NEW k \in Key, NEW r \in Replica
             PROVE  d.dots[k][r] \subseteq CountersMerge(tag, l.dots[k][r], d.dots[k][r])
  BY DEF Stays
<1>1. l.dots[k][r] \in SUBSET Nat /\ d.dots[k][r] \in SUBSET Nat
  BY DEF Kernel, Dots
<1> QED
  BY <1>1, CountersMergeFresh DEF Fresh

\* Merging R into M, what is left of R and others after V went, only collapses.
CollapsesOnly(tag, L, R, V, M) ==
  /\ R \subseteq M
  /\ R \subseteq CountersMerge(tag, M, R)
  /\ CountersMerge(tag, M, R) \subseteq M
  /\ L \cap V = {} => CountersMerge(tag, M, R) = M

\* The second time counters_merge can only collapse further what an erase has opened.
LEMMA CountersMergeAgain ==
  ASSUME NEW tag, NEW L \in SUBSET Nat, NEW R \in SUBSET Nat, NEW V,
         \A x \in L : \A y \in R : x < y, HeadedIn(R, R), R \cap V = {},
         NEW M, M = CountersMerge(tag, L, R) \ V
  PROVE  CollapsesOnly(tag, L, R, V, M)
<1> DEFINE J == CountersMerge(tag, L, R)
<1>1. R \subseteq J /\ J \subseteq L \cup R
  BY CountersMergeFresh, CountersMergeSubset
<1>2. R \subseteq M /\ M \in SUBSET Nat /\ M \subseteq L \cup R
  BY <1>1
<1>3. CountersMerge(tag, M, R) \subseteq M
  BY <1>2, CountersMergeSubset, ZenonT(40)
<1>4. ~Succeeds(M, R)
  BY <1>2 DEF Succeeds
<1>5. R \subseteq CountersMerge(tag, M, R)
  <2>1. SUFFICES ASSUME NEW y \in R, y \notin CountersMerge(tag, M, R)
                 PROVE  FALSE
    OBVIOUS
  <2>2. y \notin Collapse(M)
    BY <1>2, <1>4, <2>1 DEF CountersMerge
  <2>3. y + 1 \in M /\ \A b \in M : b < y => b .. y \subseteq M
    BY <1>2, <2>2 DEF Collapse
  <2>4. PICK m \in R : m + 1 \notin R /\ \A x \in R : m <= x
    BY DEF HeadedIn
  <2>5. y + 1 \in R /\ m + 1 \notin M
    BY <1>2, <2>3, <2>4
  <2>6. m < y /\ m \in M
    BY <1>2, <2>4, <2>5
  <2>7. m + 1 \in m .. y
    BY <2>6
  <2> QED
    BY <2>3, <2>5, <2>6, <2>7
<1>6. ASSUME L \cap V = {}
      PROVE  CountersMerge(tag, M, R) = M
  <2>1. M = J
    BY <1>1, <1>6
  <2>2. CASE R = {}
    BY <2>2 DEF CountersMerge
  <2>3. CASE R # {} /\ tag # "state"
    <3>1. M \cup R = M
      BY <1>2
    <3> QED
      BY <1>4, <2>3, <3>1 DEF CountersMerge
  <2>4. CASE R # {} /\ tag = "state"
    <3>1. M \cup R = M /\ CountersMerge(tag, M, R) = Collapse(M \cup R)
      BY <1>2, <1>4, <2>4 DEF CountersMerge
    <3>2. CASE Succeeds(L, R)
      <4>1. PICK c \in L : R = {c + 1}
        BY <3>2 DEF Succeeds
      <4>2. M = {c + 1}
        BY <2>1, <2>4, <3>2, <4>1 DEF CountersMerge
      <4>3. c + 2 \notin M /\ (c + 1) + 1 = c + 2
        BY <4>2
      <4>4. Collapse(M) = M
        BY <4>2, <4>3 DEF Collapse
      <4> QED
        BY <3>1, <4>4
    <3>3. CASE ~Succeeds(L, R)
      <4>1. M = Collapse(L \cup R) /\ L \cup R \in SUBSET Nat
        BY <2>1, <2>4, <3>3 DEF CountersMerge
      <4>2. Collapse(M) = M
        BY <4>1, CollapseTwice
      <4> QED
        BY <3>1, <4>2
    <3> QED
      BY <3>2, <3>3
  <2> QED
    BY <2>2, <2>3, <2>4
<1> QED
  BY <1>2, <1>3, <1>5, <1>6 DEF CollapsesOnly

\* Kernels with exact links are the same when their dots are.
LEMMA SameDots ==
  ASSUME NEW l \in Kernel, NEW m \in Kernel, Linked(l), Linked(m),
         \A k \in Key : \A r \in Replica : l.dots[k][r] = m.dots[k][r]
  PROVE  SameElements(l, m)
<1> DEFINE Counter == Nat \ {0}
<1>1. /\ Supported(l) /\ Supported(m)
      /\ \A r \in Replica : \A k \in Key : \A c \in Counter :
           /\ <<c, k>> \in l.links[r] <=> c \in l.dots[k][r]
           /\ <<c, k>> \in m.links[r] <=> c \in m.dots[k][r]
  BY LinkedPairs
<1>2. /\ l.keys \subseteq Key /\ m.keys \subseteq Key
      /\ l.dots \in [Key -> [Replica -> SUBSET Counter]]
      /\ m.dots \in [Key -> [Replica -> SUBSET Counter]]
      /\ l.links \in [Replica -> SUBSET (Counter \X Key)]
      /\ m.links \in [Replica -> SUBSET (Counter \X Key)]
  BY DEF Kernel, Dots
<1>3. l.keys = m.keys
  <2>1. ASSUME NEW k \in Key
        PROVE  k \in l.keys <=> k \in m.keys
    <3>1. \A r \in Replica : l.dots[k][r] = m.dots[k][r]
      OBVIOUS
    <3>2. /\ k \in l.keys <=> \E r \in Replica : l.dots[k][r] # {}
          /\ k \in m.keys <=> \E r \in Replica : m.dots[k][r] # {}
      BY <1>1 DEF Supported
    <3> QED
      BY <3>1, <3>2
  <2> QED
    BY <1>2, <2>1
<1>4. l.dots = m.dots
  <2>1. \A k \in Key : l.dots[k] = m.dots[k]
    BY <1>2
  <2> QED
    BY <1>2, <2>1
<1>5. \A r \in Replica : l.links[r] = m.links[r]
  <2> SUFFICES ASSUME NEW r \in Replica
               PROVE  l.links[r] = m.links[r]
    OBVIOUS
  <2>1. l.links[r] \subseteq Counter \X Key /\ m.links[r] \subseteq Counter \X Key
    BY <1>2
  <2>2. ASSUME NEW c \in Counter, NEW k \in Key
        PROVE  <<c, k>> \in l.links[r] <=> <<c, k>> \in m.links[r]
    BY <1>1
  <2>3. \A p \in Counter \X Key : p \in l.links[r] <=> p \in m.links[r]
    BY <2>2
  <2> QED
    BY <2>1, <2>3
<1>6. l.links = m.links
  BY <1>2, <1>5
<1> QED
  BY <1>3, <1>4, <1>6 DEF SameElements

\* `again` has the content of `once`, no more dots and exact links; and all of its elements'
\* metadata if d took no dot away from l.
NoMoreThan(l, d, once, again) ==
  /\ again.keys = once.keys
  /\ Linked(again)
  /\ \A k \in Key : \A r \in Replica : again.dots[k][r] \subseteq once.dots[k][r]
  /\ (\A k \in Key : \A r \in Replica : l.dots[k][r] \cap Valueless(d, r) = {})
       => SameElements(again, once)

\* Merging a delta twice in a row is harmless.
LEMMA MergeAgain ==
  ASSUME NEW tag, NEW l \in Kernel, NEW d \in Kernel, Linked(l), Supported(d),
         NEW D, NEW C, Within(l, D, C), Within(d, D, C), Apart(D), Fresh(l, d),
         NEW once, once = Merge(tag, l, d), NEW again, again = Merge(tag, once, d)
  PROVE  NoMoreThan(l, d, once, again)
<1> DEFINE L(k, r) == l.dots[k][r]
           R(k, r) == d.dots[k][r]
           M(k, r) == once.dots[k][r]
           N(k, r) == again.dots[k][r]
           V(r) == Valueless(d, r)
<1>1. MergedCleanly(tag, l, d) /\ once \in Kernel /\ again \in Kernel /\ Within(once, D, C)
  BY FreshStays, MergeLinked, MergeType, MergeWithin
<1>2. ASSUME NEW k \in Key, NEW r \in Replica
      PROVE  /\ M(k, r) = CountersMerge(tag, L(k, r), R(k, r)) \ V(r)
             /\ R(k, r) \cap V(r) = {}
  <2>1. R(k, r) \cap V(r) = {}
    BY DEF Valueless, Supported
  <2> QED
    BY <1>1, <2>1 DEF MergedCleanly
<1>3. ASSUME NEW k \in Key, NEW r \in Replica
      PROVE  CollapsesOnly(tag, L(k, r), R(k, r), V(r), M(k, r))
  <2>1. /\ L(k, r) \in SUBSET Nat /\ R(k, r) \in SUBSET Nat
        /\ \A x \in L(k, r) : \A y \in R(k, r) : x < y
        /\ HeadedIn(R(k, r), R(k, r))
    BY DEF Kernel, Dots, Fresh
  <2>2. M(k, r) = CountersMerge(tag, L(k, r), R(k, r)) \ V(r) /\ R(k, r) \cap V(r) = {}
    BY <1>2
  <2> HIDE DEF L, R, M, V
  <2> QED
    BY <2>1, <2>2, CountersMergeAgain
<1>4. MergedCleanly(tag, once, d)
  <2>1. Stays(tag, once, d)
    BY <1>3 DEF Stays, CollapsesOnly
  <2> QED
    BY <1>1, <2>1, MergeLinked DEF MergedCleanly
<1>5. Linked(once) /\ Linked(again)
  BY <1>1, <1>4 DEF MergedCleanly
<1>6. ASSUME NEW k \in Key, NEW r \in Replica
      PROVE  /\ N(k, r) \subseteq M(k, r)
             /\ M(k, r) # {} => N(k, r) # {}
             /\ L(k, r) \cap V(r) = {} => N(k, r) = M(k, r)
  <2>1. N(k, r) = CountersMerge(tag, M(k, r), R(k, r)) \ V(r)
    BY <1>4 DEF MergedCleanly
  <2>2. M(k, r) \cap V(r) = {} /\ R(k, r) \cap V(r) = {}
    BY <1>2
  <2>3. R(k, r) = {} => CountersMerge(tag, M(k, r), R(k, r)) = M(k, r)
    BY DEF CountersMerge
  <2> HIDE DEF L, R, M, N, V
  <2> QED
    BY <1>3, <2>1, <2>2, <2>3 DEF CollapsesOnly
<1>7. again.keys = once.keys
  <2>1. Supported(once) /\ Supported(again)
    BY <1>1, <1>5, LinkedPairs
  <2>2. once.keys \subseteq Key /\ again.keys \subseteq Key
    BY <1>1 DEF Kernel
  <2>3. \A k \in Key : (\E r \in Replica : M(k, r) # {}) <=> (\E r \in Replica : N(k, r) # {})
    <3> HIDE DEF M, N
    <3> QED
      BY <1>6
  <2> QED
    BY <2>1, <2>2, <2>3 DEF Supported
<1>8. ASSUME \A k \in Key : \A r \in Replica : L(k, r) \cap V(r) = {}
      PROVE  SameElements(again, once)
  BY <1>1, <1>5, <1>6, <1>8, SameDots
<1> QED
  BY <1>5, <1>6, <1>7, <1>8 DEF NoMoreThan

-----------------------------------------------------------------------------
-----------------------------------------------------------------------------
(* Merging with the empty kernel.                                          *)

\* Merging the empty kernel changes nothing.
LEMMA MergeNothing ==
  ASSUME NEW tag, NEW l \in Kernel
  PROVE  Merge(tag, l, EmptyKernel) = l
<1> DEFINE e == EmptyKernel
<1>1. /\ e.keys = {} /\ \A r \in Replica : e.counters[r] = {}
      /\ \A k \in Key : \A r \in Replica : e.dots[k][r] = {}
  BY DEF EmptyKernel, NoDots
<1> HIDE DEF e
<1>2. /\ l.keys \subseteq Key /\ l.dots \in [Key -> [Replica -> SUBSET (Nat \ {0})]]
      /\ l.counters \in [Replica -> SUBSET (Nat \ {0})]
      /\ l.links \in [Replica -> SUBSET ((Nat \ {0}) \X Key)]
      /\ l = [keys |-> l.keys, dots |-> l.dots, counters |-> l.counters, links |-> l.links]
  BY DEF Kernel, Dots
<1>3. MergedDots(tag, l, e) = l.dots
  <2>1. \A k \in Key : l.dots[k] = [r \in Replica |-> l.dots[k][r]]
    BY <1>2
  <2>2. MergedDots(tag, l, e) = [k \in Key |-> [r \in Replica |-> l.dots[k][r]]]
    BY <1>1 DEF MergedDots
  <2> QED
    BY <1>2, <2>1, <2>2
<1>4. MergedLinks(tag, l, e) = l.links
  <2>1. ASSUME NEW r \in Replica
        PROVE  MergedLinks(tag, l, e)[r] = l.links[r]
    BY <1>1 DEF MergedLinks
  <2>2. MergedLinks(tag, l, e) = [r \in Replica |-> MergedLinks(tag, l, e)[r]]
    BY DEF MergedLinks
  <2> QED
    BY <1>2, <2>1, <2>2
<1>5. \A r \in Replica : Valueless(e, r) = {}
  BY <1>1 DEF Valueless
<1>6. \A r \in Replica : CountersMerge(tag, l.counters[r], e.counters[r]) = l.counters[r]
  BY <1>1 DEF CountersMerge
<1> DEFINE m == Merge(tag, l, e)
<1>7. m.keys = l.keys
  BY <1>1, <1>2, <1>4, <1>5 DEF Merge
<1>8. m.dots = l.dots
  <2>1. m.dots = [k \in Key |-> [r \in Replica |-> l.dots[k][r]]]
    BY <1>3, <1>4, <1>5 DEF Merge
  <2>2. \A k \in Key : l.dots[k] = [r \in Replica |-> l.dots[k][r]]
    BY <1>2
  <2> QED
    BY <1>2, <2>1, <2>2
<1>9. m.counters = l.counters
  BY <1>2, <1>6 DEF Merge
<1>10. m.links = l.links
  BY <1>2, <1>4, <1>5 DEF Merge
<1>11. m = [keys |-> m.keys, dots |-> m.dots, counters |-> m.counters, links |-> m.links]
  BY DEF Merge
<1> HIDE DEF m
<1>12. m = l
  BY <1>2, <1>7, <1>8, <1>9, <1>10, <1>11
<1> QED
  BY <1>12 DEF m, e

\* A set that does not start with a run is not collapsed.
LEMMA HeadedCollapse ==
  ASSUME NEW S \in SUBSET Nat, HeadedIn(S, S)
  PROVE  Collapse(S) = S
<1>1. CASE S = {}
  BY <1>1 DEF Collapse
<1>2. CASE S # {}
  <2>1. PICK m \in S : m + 1 \notin S /\ \A x \in S : m <= x
    BY <1>2 DEF HeadedIn
  <2>2. ASSUME NEW c \in S, c + 1 \in S
        PROVE  \E b \in S : b < c /\ ~(b .. c \subseteq S)
    <3>1. m < c
      BY <2>1, <2>2
    <3>2. m + 1 \in m .. c
      BY <3>1
    <3> QED
      BY <2>1, <3>1, <3>2
  <2> QED
    BY <2>2 DEF Collapse
<1> QED
  BY <1>1, <1>2

\* Merging a kernel without runs into an empty one yields its dots.
LEMMA MergeIntoEmpty ==
  ASSUME NEW tag, NEW d \in Kernel, Linked(d), NEW D, NEW C, Within(d, D, C), Apart(D),
         \A k \in Key : \A r \in Replica : HeadedIn(d.dots[k][r], d.dots[k][r])
  PROVE  SameElements(Merge(tag, EmptyKernel, d), d)
<1> DEFINE e == EmptyKernel
           m == Merge(tag, e, d)
<1>1. e \in Kernel /\ Linked(e)
  BY EmptyKernelType DEF Linked, EmptyKernel, NoDots
<1>2. /\ \A k \in Key : \A r \in Replica : e.dots[k][r] = {}
      /\ \A r \in Replica : e.counters[r] = {}
  BY DEF EmptyKernel, NoDots
<1> HIDE DEF e
<1>3. Supported(d)
  BY LinkedPairs
<1>4. ASSUME NEW R \in SUBSET Nat, HeadedIn(R, R)
      PROVE  CountersMerge(tag, {}, R) = R
  BY <1>4, HeadedCollapse DEF CountersMerge, Succeeds
<1>5. ASSUME NEW k \in Key, NEW r \in Replica
      PROVE  CountersMerge(tag, e.dots[k][r], d.dots[k][r]) = d.dots[k][r]
  <2>1. d.dots[k][r] \in SUBSET Nat /\ HeadedIn(d.dots[k][r], d.dots[k][r])
    BY DEF Kernel, Dots
  <2> QED
    BY <1>2, <1>4, <2>1
<1>6. Stays(tag, e, d)
  BY <1>5 DEF Stays
<1>7. Within(e, D, C)
  BY <1>2 DEF Within
<1>8. MergedCleanly(tag, e, d)
  BY <1>1, <1>3, <1>6, <1>7, MergeLinked
<1>9. m \in Kernel /\ Linked(m)
  BY <1>1, <1>8, MergeType DEF MergedCleanly
<1>10. ASSUME NEW k \in Key, NEW r \in Replica
       PROVE  m.dots[k][r] = d.dots[k][r]
  <2>1. d.dots[k][r] \cap Valueless(d, r) = {}
    BY <1>3 DEF Valueless, Supported
  <2>2. m.dots[k][r] = d.dots[k][r] \ Valueless(d, r)
    BY <1>5, <1>8 DEF MergedCleanly
  <2> QED
    BY <2>1, <2>2
<1> HIDE DEF m
<1>11. SameElements(m, d)
  BY <1>9, <1>10, SameDots
<1> QED
  BY <1>11 DEF m, e

-----------------------------------------------------------------------------
(***************************************************************************)
(* A container at its replica r, nested or not, and what its hook has      *)
(* accumulated.  D and n say which dots have been issued, b how many of    *)
(* them extracted deltas cover, and c how many have been delivered.        *)
(***************************************************************************)

UpTo(n) == [s \in Replica |-> 1 .. n[s]]

Numbers(D, n) ==
  /\ n \in [Replica -> Nat] /\ Apart(D)
  /\ D \in [Key -> [Replica -> SUBSET (Nat \ {0})]]
  /\ \A k \in Key : \A s \in Replica : D[k][s] \subseteq 1 .. n[s]

\* So many counters of each replica, and no fewer.
Grows(b, q) ==
  /\ b \in [Replica -> Nat] /\ q \in [Replica -> Nat]
  /\ \A s \in Replica : b[s] <= q[s]

\* The container l has its own last dot on record, and of others what has been delivered.
HoldsOf(r, l, c, D, n) ==
  /\ l \in Kernel /\ Linked(l) /\ Within(l, D, UpTo(n))
  /\ n[r] = 0 \/ n[r] \in l.counters[r]
  /\ \A s \in Replica \ {r} : \A k \in Key : l.dots[k][s] \subseteq 1 .. c[s]

\* The hook of l has dots of its replica that no extracted delta covers.
Accumulates(r, l, h, b, D, n) ==
  /\ h \in Kernel /\ Linked(h) /\ Within(h, D, UpTo(n))
  /\ \A s \in Replica \ {r} :
       /\ \A k \in Key : h.dots[k][s] = {}
       /\ h.counters[s] \subseteq 1 .. b[s]
  /\ \A k \in Key :
       /\ h.dots[k][r] \subseteq b[r] + 1 .. n[r]
       /\ h.dots[k][r] \subseteq l.dots[k][r]
       /\ HeadedIn(h.dots[k][r], l.dots[k][r])

\* The counters of replica s that the elements K have in l.
ClearedOf(l, K, s) == UNION {l.dots[k][s] : k \in K}

\* What an update merges: the dots N for e, none or a new one, and the dots of the elements
\* K without them.
Updates(d, r, l, e, N, K) ==
  /\ d \in Kernel /\ Supported(d)
  /\ d.dots[e][r] = N
  /\ \A k \in Key : \A s \in Replica : k # e \/ s # r => d.dots[k][s] = {}
  /\ d.counters[r] = ClearedOf(l, K, r) \cup N
  /\ \A s \in Replica \ {r} : d.counters[s] = ClearedOf(l, K, s)
  /\ \A s \in Replica : Valueless(d, s) = ClearedOf(l, K, s)

\* e gets the dots N of replica r: none or the next one.
IssuedNow(D, n, E, p, r, e, N) ==
  \/ N = {} /\ E = D /\ p = n
  \/ /\ N = {n[r] + 1}
     /\ E = [D EXCEPT ![e][r] = @ \cup N]
     /\ p = [n EXCEPT ![r] = @ + 1]

\* The dots that replica r then has.
Numbered(n, p, r, N) ==
  /\ n[r] \in Nat /\ p[r] \in Nat /\ n[r] <= p[r]
  /\ N \in SUBSET Nat /\ N = n[r] + 1 .. p[r] /\ N \subseteq 1 .. p[r]
  /\ N = {} \/ N = {n[r] + 1}
  /\ N = {} <=> p[r] = n[r]
  /\ \A s \in Replica \ {r} : p[s] = n[s]

\* What is within the issued dots stays within.
Extended(D, n, E, p) == \A l : Within(l, D, UpTo(n)) => Within(l, E, UpTo(p))

LEMMA IssuesMore ==
  ASSUME NEW D, NEW n, NEW E, NEW p, NEW r \in Replica, NEW e \in Key, NEW N,
         Numbers(D, n), IssuedNow(D, n, E, p, r, e, N)
  PROVE  Numbers(E, p) /\ Numbered(n, p, r, N) /\ Extended(D, n, E, p) /\ N \subseteq E[e][r]
<1>1. CASE N = {} /\ E = D /\ p = n
  BY <1>1 DEF Numbers, Numbered, Extended
<1>2. CASE /\ N = {n[r] + 1}
           /\ E = [D EXCEPT ![e][r] = @ \cup N]
           /\ p = [n EXCEPT ![r] = @ + 1]
  <2>1. n[r] \in Nat
    BY DEF Numbers
  <2>2. /\ p \in [Replica -> Nat] /\ p[r] = n[r] + 1
        /\ \A s \in Replica \ {r} : p[s] = n[s]
    BY <1>2, <2>1 DEF Numbers
  <2>3. \A s \in Replica : 1 .. n[s] \subseteq 1 .. p[s] /\ n[s] \in Nat
    BY <2>1, <2>2 DEF Numbers
  <2>4. N \in SUBSET (Nat \ {0}) /\ N = n[r] + 1 .. p[r] /\ N \subseteq 1 .. p[r]
    BY <1>2, <2>1, <2>2
  <2>5. \A k \in Key : \A s \in Replica :
          E[k][s] = (IF k = e /\ s = r THEN D[k][s] \cup N ELSE D[k][s])
    BY <1>2 DEF Numbers
  <2>6. E \in [Key -> [Replica -> SUBSET (Nat \ {0})]]
    BY <1>2, <2>4 DEF Numbers
  <2>7. \A k \in Key : \A s \in Replica : E[k][s] \subseteq 1 .. p[s]
    <3> SUFFICES ASSUME NEW k \in Key, NEW s \in Replica
                 PROVE  E[k][s] \subseteq 1 .. p[s]
      OBVIOUS
    <3>1. D[k][s] \subseteq 1 .. p[s]
      BY <2>3 DEF Numbers
    <3> QED
      BY <2>4, <2>5, <3>1
  <2>8. Apart(E)
    <3> SUFFICES ASSUME NEW j \in Key, NEW k \in Key, NEW s \in Replica, NEW x \in E[j][s],
                        x \in E[k][s]
                 PROVE  j = k
      BY DEF Apart
    <3>1. s = r => n[r] + 1 \notin D[j][s] /\ n[r] + 1 \notin D[k][s]
      BY <2>1 DEF Numbers
    <3>2. CASE x \in D[j][s] /\ x \in D[k][s]
      BY <3>2 DEF Numbers, Apart
    <3>3. CASE x \notin D[j][s] \/ x \notin D[k][s]
      BY <1>2, <2>5, <3>1, <3>3
    <3> QED
      BY <3>2, <3>3
  <2>9. Numbers(E, p)
    BY <2>2, <2>6, <2>7, <2>8 DEF Numbers
  <2>10. ASSUME NEW l, Within(l, D, UpTo(n))
         PROVE  Within(l, E, UpTo(p))
    <3>1. \A k \in Key : \A s \in Replica : D[k][s] \subseteq E[k][s]
      BY <2>5
    <3>2. \A s \in Replica : UpTo(n)[s] \subseteq UpTo(p)[s]
      BY <2>3 DEF UpTo
    <3> QED
      BY <2>10, <3>1, <3>2, WithinGrows
  <2>11. p[r] # n[r] /\ n[r] <= p[r]
    BY <2>1, <2>2
  <2>12. N \subseteq E[e][r] /\ N # {}
    BY <1>2, <2>5
  <2>13. Numbered(n, p, r, N)
    BY <1>2, <2>1, <2>2, <2>4, <2>11, <2>12 DEF Numbered
  <2> QED
    BY <2>9, <2>10, <2>12, <2>13 DEF Extended
<1> QED
  BY <1>1, <1>2 DEF IssuedNow

\* The elements and dots of x are some of those of l.
Part(x, l) == \A k \in Key : \A s \in Replica : x.dots[k][s] \subseteq l.dots[k][s]

\* What an update does to the dots of the container, or of what its hook has of them.
UpdatedDots(tag, x, y, r, e, N, K) ==
  /\ \A k \in Key : \A s \in Replica :
       y.dots[k][s] = IF k \in K THEN IF k = e /\ s = r THEN N ELSE {}
                      ELSE IF k = e /\ s = r THEN CountersMerge(tag, x.dots[k][s], N)
                      ELSE x.dots[k][s]
  /\ N \subseteq CountersMerge(tag, x.dots[e][r], N)

LEMMA UpdateMerged ==
  ASSUME NEW D, NEW n, NEW E, NEW p, NEW r \in Replica, NEW e \in Key, NEW N,
         Numbers(D, n), IssuedNow(D, n, E, p, r, e, N),
         NEW K \in SUBSET Key, NEW l \in Kernel, Within(l, D, UpTo(n)),
         NEW d, Updates(d, r, l, e, N, K),
         NEW tag, NEW x \in Kernel, Linked(x), Within(x, D, UpTo(n)),
         Part(x, l), NEW y, y = Merge(tag, x, d)
  PROVE  /\ y \in Kernel /\ Linked(y) /\ Within(y, E, UpTo(p))
         /\ UpdatedDots(tag, x, y, r, e, N, K)
<1> DEFINE V(s) == ClearedOf(l, K, s)
<1>1. /\ n[r] \in Nat /\ N \in SUBSET Nat /\ (N = {} \/ N = {n[r] + 1})
      /\ N \subseteq 1 .. p[r] /\ N \subseteq E[e][r]
      /\ Numbers(E, p) /\ Within(x, E, UpTo(p)) /\ Within(l, E, UpTo(p))
  <2>1. Numbers(E, p) /\ Numbered(n, p, r, N) /\ Extended(D, n, E, p) /\ N \subseteq E[e][r]
    BY IssuesMore
  <2> QED
    BY <2>1 DEF Numbered, Extended
<1>2. n[r] \in Nat
  BY <1>1
<1>3. /\ d \in Kernel /\ Supported(d)
      /\ d.dots[e][r] = N
      /\ \A k \in Key : \A s \in Replica : k # e \/ s # r => d.dots[k][s] = {}
      /\ d.counters[r] = V(r) \cup N
      /\ \A s \in Replica \ {r} : d.counters[s] = V(s)
      /\ \A s \in Replica : Valueless(d, s) = V(s)
  BY DEF Updates
<1>5. Within(d, E, UpTo(p))
  <2>1. \A k \in Key : \A s \in Replica : d.dots[k][s] \subseteq E[k][s]
    BY <1>1, <1>3
  <2>2. ASSUME NEW s \in Replica
        PROVE  d.counters[s] \subseteq UpTo(p)[s]
    <3>1. \A k \in Key : E[k][s] \subseteq 1 .. p[s] /\ l.dots[k][s] \subseteq E[k][s]
      BY <1>1 DEF Numbers, Within
    <3>2. V(s) \subseteq 1 .. p[s]
      BY <3>1 DEF ClearedOf
    <3> HIDE DEF V
    <3>3. d.counters[s] \subseteq 1 .. p[s]
      BY <1>1, <1>3, <3>2
    <3> QED
      BY <3>3 DEF UpTo
  <2> QED
    BY <2>1, <2>2 DEF Within
<1>6. \A k \in Key : x.dots[k][r] \in SUBSET Nat /\ \A c \in x.dots[k][r] : c <= n[r]
  <2> SUFFICES ASSUME NEW k \in Key
               PROVE  x.dots[k][r] \in SUBSET Nat /\ \A c \in x.dots[k][r] : c <= n[r]
    OBVIOUS
  <2>1. x.dots[k][r] \subseteq D[k][r] /\ D[k][r] \subseteq 1 .. n[r]
    BY DEF Within, Numbers
  <2> QED
    BY <2>1
<1>7. N \subseteq CountersMerge(tag, x.dots[e][r], N)
  <2>1. CASE N = {}
    BY <2>1
  <2>2. CASE N = {n[r] + 1}
    <3>1. \A c \in x.dots[e][r] \cup N : c <= n[r] + 1
      BY <1>1, <1>6, <2>2
    <3>2. n[r] + 1 \in x.dots[e][r] \cup N
      BY <2>2
    <3>3. n[r] + 1 \in CountersMerge(tag, x.dots[e][r], N)
      BY <1>1, <1>6, <3>1, <3>2, CountersMergeTop
    <3> QED
      BY <2>2, <3>3
  <2> QED
    BY <1>1, <2>1, <2>2
<1>8. Stays(tag, x, d)
  <2> SUFFICES ASSUME NEW k \in Key, NEW s \in Replica
               PROVE  d.dots[k][s] \subseteq CountersMerge(tag, x.dots[k][s], d.dots[k][s])
    BY DEF Stays
  <2> QED
    BY <1>3, <1>7
<1>9. MergedCleanly(tag, x, d) /\ y \in Kernel /\ Within(y, E, UpTo(p))
  BY <1>1, <1>3, <1>5, <1>8, MergeLinked, MergeType, MergeWithin DEF Numbers
<1>10. Linked(y)
  BY <1>9 DEF MergedCleanly
<1>11. UpdatedDots(tag, x, y, r, e, N, K)
  <2> SUFFICES ASSUME NEW k \in Key, NEW s \in Replica
               PROVE  y.dots[k][s] =
                        IF k \in K THEN IF k = e /\ s = r THEN N ELSE {}
                        ELSE IF k = e /\ s = r THEN CountersMerge(tag, x.dots[k][s], N)
                        ELSE x.dots[k][s]
    BY <1>7 DEF UpdatedDots
  <2>1. y.dots[k][s] = CountersMerge(tag, x.dots[k][s], d.dots[k][s]) \ V(s)
    BY <1>3, <1>9 DEF MergedCleanly
  <2>2. d.dots[k][s] = (IF k = e /\ s = r THEN N ELSE {})
    BY <1>3
  <2>3. CountersMerge(tag, x.dots[k][s], {}) = x.dots[k][s]
    BY DEF CountersMerge
  <2>4. s = r => N \cap V(s) = {}
    <3>1. \A j \in Key : l.dots[j][r] \subseteq 1 .. n[r]
      BY DEF Within, Numbers
    <3>2. n[r] + 1 \notin V(r)
      BY <1>1, <3>1 DEF ClearedOf
    <3> HIDE DEF V
    <3>3. CASE s = r
      BY <1>1, <3>2, <3>3
    <3> QED
      BY <3>3
  <2>5. CASE k \in K
    <3>1. x.dots[k][s] \subseteq V(s)
      BY <2>5 DEF ClearedOf, Part
    <3>2. CASE k = e /\ s = r
      <4>1. CountersMerge(tag, x.dots[k][s], N) \subseteq x.dots[k][s] \cup N
        BY CountersMergeSubset
      <4> QED
        BY <1>7, <2>1, <2>2, <2>4, <2>5, <3>1, <3>2, <4>1
    <3>3. CASE ~(k = e /\ s = r)
      BY <2>1, <2>2, <2>3, <2>5, <3>1, <3>3
    <3> QED
      BY <3>2, <3>3
  <2>6. CASE k \notin K
    <3>1. x.dots[k][s] \cap V(s) = {}
      <4> SUFFICES ASSUME NEW a \in x.dots[k][s], NEW j \in K, a \in l.dots[j][s]
                   PROVE  FALSE
        BY DEF ClearedOf
      <4>1. a \in D[k][s] /\ a \in D[j][s] /\ j \in Key
        BY DEF Within, Part
      <4> QED
        BY <2>6, <4>1 DEF Numbers, Apart
    <3>2. CASE k = e /\ s = r
      <4>1. CountersMerge(tag, x.dots[k][s], N) \subseteq x.dots[k][s] \cup N
        BY CountersMergeSubset
      <4> QED
        BY <2>1, <2>2, <2>4, <2>6, <3>1, <3>2, <4>1
    <3>3. CASE ~(k = e /\ s = r)
      BY <2>1, <2>2, <2>3, <2>6, <3>1, <3>3
    <3> QED
      BY <3>2, <3>3
  <2> QED
    BY <2>5, <2>6
<1> QED
  BY <1>7, <1>9, <1>10, <1>11

\* The update d of the container l issues dots.
UpdateStep(D, n, E, p, r, l, d, e, N, K) ==
  /\ Numbers(D, n) /\ IssuedNow(D, n, E, p, r, e, N)
  /\ K \subseteq Key /\ Updates(d, r, l, e, N, K)

\* What it does to the elements.
UpdatedKeys(l, y, e, N, K) == y.keys = (l.keys \ K) \cup (IF N = {} THEN {} ELSE {e})

\* A container and its hook.
Kept(r, l, h, c, b, D, n) == HoldsOf(r, l, c, D, n) /\ Accumulates(r, l, h, b, D, n)

\* An update of both.
LEMMA UpdateKept ==
  ASSUME NEW D, NEW n, NEW E, NEW p, NEW r \in Replica, NEW e \in Key, NEW N, NEW K,
         NEW l, NEW d, UpdateStep(D, n, E, p, r, l, d, e, N, K),
         NEW b, NEW c, Grows(c, b), Grows(b, n),
         NEW h, Kept(r, l, h, c, b, D, n),
         NEW y, y = Merge("state", l, d), NEW z, z = Merge("delta", h, d)
  PROVE  Kept(r, y, z, c, b, E, p)
<1>a. HoldsOf(r, l, c, D, n)
  BY DEF Kept
<1>b. Accumulates(r, l, h, b, D, n)
  BY DEF Kept
<1> USE <1>a, <1>b DEF UpdateStep
<1> DEFINE V(s) == ClearedOf(l, K, s)
<1>1. /\ n[r] \in Nat /\ N \in SUBSET Nat /\ (N = {} \/ N = {n[r] + 1})
      /\ N = n[r] + 1 .. p[r] /\ n[r] <= p[r] /\ p[r] \in Nat
      /\ (N = {} <=> p[r] = n[r])
      /\ \A s \in Replica \ {r} : p[s] = n[s]
  <2>1. Numbered(n, p, r, N)
    BY IssuesMore
  <2> QED
    BY <2>1 DEF Numbered
<1>2. /\ l \in Kernel /\ Linked(l) /\ Within(l, D, UpTo(n))
      /\ h \in Kernel /\ Linked(h) /\ Within(h, D, UpTo(n))
      /\ Part(h, l) /\ Part(l, l)
  BY DEF HoldsOf, Accumulates, Part
<1>3. /\ \A k \in Key : l.dots[k][r] \in SUBSET (1 .. n[r])
      /\ \A s \in Replica : \A k \in Key : s # r => l.dots[k][s] \subseteq 1 .. b[s]
      /\ \A s \in Replica : \A k \in Key : l.dots[k][s] \subseteq 1 .. n[s]
  <2>1. \A k \in Key : \A s \in Replica : l.dots[k][s] \subseteq 1 .. n[s]
    BY <1>2 DEF Within, Numbers
  <2>2. ASSUME NEW s \in Replica, NEW k \in Key, s # r
        PROVE  l.dots[k][s] \subseteq 1 .. b[s]
    <3>1. l.dots[k][s] \subseteq 1 .. c[s] /\ c[s] <= b[s] /\ c[s] \in Nat /\ b[s] \in Nat
      BY <2>2 DEF HoldsOf, Grows
    <3> QED
      BY <3>1
  <2> QED
    BY <2>1, <2>2
<1>4. /\ y \in Kernel /\ Linked(y) /\ Within(y, E, UpTo(p))
      /\ UpdatedDots("state", l, y, r, e, N, K)
  <2>1. /\ y \in Kernel /\ Linked(y) /\ Within(y, E, UpTo(p))
        /\ UpdatedDots("state", l, y, r, e, N, K)
    BY <1>2, UpdateMerged
  <2> QED
    BY <2>1
<1>5. /\ z \in Kernel /\ Linked(z) /\ Within(z, E, UpTo(p))
      /\ UpdatedDots("delta", h, z, r, e, N, K)
  BY <1>2, UpdateMerged
<1>6. /\ d.counters[r] = V(r) \cup N
      /\ \A s \in Replica \ {r} : d.counters[s] = V(s)
  BY DEF Updates
<1>7. /\ y.counters[r] = CountersMerge("state", l.counters[r], d.counters[r])
      /\ \A s \in Replica : z.counters[s] = CountersMerge("delta", h.counters[s], d.counters[s])
  BY MergeCounters
<1>8. /\ V(r) \subseteq 1 .. n[r]
      /\ \A s \in Replica \ {r} : V(s) \subseteq 1 .. b[s]
  BY <1>3 DEF ClearedOf
<1> HIDE DEF V
<1>9. HoldsOf(r, y, c, E, p)
  <2>1. p[r] = 0 \/ p[r] \in y.counters[r]
    <3>1. /\ l.counters[r] \subseteq 1 .. n[r]
          /\ n[r] = 0 \/ n[r] \in l.counters[r]
      BY <1>2 DEF HoldsOf, Within, UpTo
    <3>2. \A a \in N : a = n[r] + 1 /\ a <= p[r]
      BY <1>1
    <3>3. \A a \in l.counters[r] \cup V(r) : a \in Nat /\ a <= p[r]
      BY <1>1, <1>8, <3>1
    <3>4. /\ l.counters[r] \in SUBSET Nat /\ d.counters[r] \in SUBSET Nat
          /\ \A a \in l.counters[r] \cup d.counters[r] : a <= p[r]
      BY <1>1, <1>6, <3>2, <3>3
    <3>5. p[r] = 0 \/ p[r] \in l.counters[r] \cup N
      BY <1>1, <3>1
    <3>6. CASE p[r] # 0
      <4>1. p[r] \in l.counters[r] \cup d.counters[r]
        BY <1>6, <3>5, <3>6
      <4>2. p[r] \in CountersMerge("state", l.counters[r], d.counters[r])
        BY <1>1, <3>4, <4>1, CountersMergeTop
      <4> QED
        BY <1>7, <4>2
    <3> QED
      BY <3>6
  <2>2. ASSUME NEW s \in Replica \ {r}, NEW k \in Key
        PROVE  y.dots[k][s] \subseteq 1 .. c[s]
    <3>1. y.dots[k][s] \subseteq l.dots[k][s]
      BY <1>4 DEF UpdatedDots
    <3> QED
      BY <3>1 DEF HoldsOf
  <2> QED
    BY <1>4, <2>1, <2>2 DEF HoldsOf
<1>10. Accumulates(r, y, z, b, E, p)
  <2>1. ASSUME NEW s \in Replica \ {r}
        PROVE  /\ \A k \in Key : z.dots[k][s] = {}
               /\ z.counters[s] \subseteq 1 .. b[s]
    <3>1. \A k \in Key : h.dots[k][s] = {}
      BY DEF Accumulates
    <3>2. \A k \in Key : z.dots[k][s] = {}
      BY <1>5, <3>1 DEF UpdatedDots
    <3>3. h.counters[s] \subseteq 1 .. b[s]
      BY DEF Accumulates
    <3>4. d.counters[s] \subseteq 1 .. b[s]
      BY <1>6, <1>8
    <3>5. z.counters[s] \subseteq h.counters[s] \cup d.counters[s]
      BY <1>7, CountersMergeSubset
    <3> QED
      BY <3>2, <3>3, <3>4, <3>5
  <2>2. ASSUME NEW k \in Key
        PROVE  /\ z.dots[k][r] \subseteq b[r] + 1 .. p[r]
               /\ z.dots[k][r] \subseteq y.dots[k][r]
               /\ HeadedIn(z.dots[k][r], y.dots[k][r])
    <3>1. /\ h.dots[k][r] \subseteq b[r] + 1 .. n[r]
          /\ h.dots[k][r] \subseteq l.dots[k][r]
          /\ HeadedIn(h.dots[k][r], l.dots[k][r])
      BY DEF Accumulates
    <3>2. b[r] \in Nat /\ b[r] <= n[r]
      BY DEF Grows
    <3>3. N \subseteq b[r] + 1 .. p[r] /\ b[r] + 1 .. n[r] \subseteq b[r] + 1 .. p[r]
      BY <1>1, <3>2
    <3>4. CASE k \in K
      <4>1. /\ z.dots[k][r] = IF k = e THEN N ELSE {}
            /\ y.dots[k][r] = IF k = e THEN N ELSE {}
        BY <1>4, <1>5, <3>4 DEF UpdatedDots
      <4>2. HeadedIn(N, N)
        <5>1. N = {} \/ \E m \in Nat : N = {m}
          BY <1>1
        <5>2. \A m \in Nat : m + 1 # m
          OBVIOUS
        <5> QED
          BY <5>1, <5>2 DEF HeadedIn
      <4>3. HeadedIn({}, {})
        BY DEF HeadedIn
      <4> QED
        BY <3>3, <4>1, <4>2, <4>3
    <3>5. CASE k \notin K /\ (k # e \/ N = {})
      <4>1. /\ z.dots[k][r] = h.dots[k][r] /\ y.dots[k][r] = l.dots[k][r]
        BY <1>4, <1>5, <3>5 DEF UpdatedDots, CountersMerge
      <4> QED
        BY <3>1, <3>3, <4>1
    <3>6. CASE k \notin K /\ k = e /\ N # {}
      <4>1. /\ z.dots[k][r] = CountersMerge("delta", h.dots[k][r], {n[r] + 1})
            /\ y.dots[k][r] = CountersMerge("state", l.dots[k][r], {n[r] + 1})
        BY <1>1, <1>4, <1>5, <3>6 DEF UpdatedDots
      <4>2. z.dots[k][r] \subseteq h.dots[k][r] \cup N
        BY <1>1, <3>6, <4>1, CountersMergeSubset
      <4>3. l.dots[k][r] \in SUBSET (1 .. n[r])
        BY <1>3
      <4>4. h.dots[k][r] \in SUBSET l.dots[k][r] /\ HeadedIn(h.dots[k][r], l.dots[k][r])
        BY <3>1
      <4>5. n[r] \in Nat
        BY <1>1
      <4>6. /\ CountersMerge("delta", h.dots[k][r], {n[r] + 1})
                 \subseteq CountersMerge("state", l.dots[k][r], {n[r] + 1})
            /\ HeadedIn(CountersMerge("delta", h.dots[k][r], {n[r] + 1}),
                        CountersMerge("state", l.dots[k][r], {n[r] + 1}))
        BY <4>3, <4>4, <4>5, CountersMergeNext
      <4> QED
        BY <3>3, <3>1, <4>1, <4>2, <4>6
    <3> QED
      BY <3>4, <3>5, <3>6
  <2> QED
    BY <1>5, <2>1, <2>2 DEF Accumulates
<1> QED
  BY <1>9, <1>10 DEF Kept

\* The elements after an update.
LEMMA UpdateKeys ==
  ASSUME NEW D, NEW n, NEW E, NEW p, NEW r \in Replica, NEW e \in Key, NEW N, NEW K,
         NEW l, NEW d, UpdateStep(D, n, E, p, r, l, d, e, N, K),
         NEW c, HoldsOf(r, l, c, D, n), NEW y, y = Merge("state", l, d)
  PROVE  UpdatedKeys(l, y, e, N, K)
<1>1. l \in Kernel /\ Linked(l) /\ Within(l, D, UpTo(n)) /\ Part(l, l)
  BY DEF HoldsOf, Part
<1>2. /\ y \in Kernel /\ Linked(y)
      /\ UpdatedDots("state", l, y, r, e, N, K)
  BY <1>1, UpdateMerged DEF UpdateStep
<1>3. y.keys = (l.keys \ K) \cup (IF N = {} THEN {} ELSE {e})
  <2>1. Supported(y) /\ Supported(l) /\ y.keys \subseteq Key /\ l.keys \subseteq Key
    BY <1>1, <1>2, LinkedPairs DEF Kernel
  <2>2. ASSUME NEW k \in Key
        PROVE  k \in y.keys <=> k \in (l.keys \ K) \cup (IF N = {} THEN {} ELSE {e})
    <3>1. k \in y.keys <=> \E s \in Replica : y.dots[k][s] # {}
      BY <2>1 DEF Supported
    <3>2. k \in l.keys <=> \E s \in Replica : l.dots[k][s] # {}
      BY <2>1 DEF Supported
    <3>3. CASE k \in K
      <4>1. \A s \in Replica : y.dots[k][s] = IF k = e /\ s = r THEN N ELSE {}
        BY <1>2, <3>3 DEF UpdatedDots
      <4> QED
        BY <3>1, <3>3, <4>1
    <3>4. CASE k \notin K /\ (k # e \/ N = {})
      <4>1. \A s \in Replica : y.dots[k][s] = l.dots[k][s]
        BY <1>2, <3>4 DEF UpdatedDots, CountersMerge
      <4> QED
        BY <3>1, <3>2, <3>4, <4>1
    <3>5. CASE k \notin K /\ k = e /\ N # {}
      <4>1. y.dots[k][r] = CountersMerge("state", l.dots[e][r], N)
        BY <1>2, <3>5 DEF UpdatedDots
      <4>2. k \in y.keys
        BY <1>2, <3>1, <3>5, <4>1 DEF UpdatedDots
      <4> QED
        BY <3>5, <4>2
    <3> QED
      BY <3>3, <3>4, <3>5
  <2> QED
    BY <2>1, <2>2
<1> QED
  BY <1>3 DEF UpdatedKeys

-----------------------------------------------------------------------------
(***************************************************************************)
(* What is extracted from a container and merged into its copies.          *)
(***************************************************************************)

\* What map::insert brought into the hook of the map: at most one dot for an element, older
\* than those the nested hook h has.
BroughtTo(r, g, h, b, D, n) ==
  /\ g \in Kernel /\ Linked(g) /\ Within(g, D, UpTo(n))
  /\ \A s \in Replica \ {r} : g.counters[s] = {} /\ \A k \in Key : g.dots[k][s] = {}
  /\ \A k \in Key :
       /\ g.dots[k][r] \subseteq b[r] + 1 .. n[r]
       /\ g.dots[k][r] = {} \/ \E x \in Nat : g.dots[k][r] = {x}
       /\ \A x \in g.dots[k][r] : \A y \in h.dots[k][r] : x < y

\* What replica r has of a container: the container l, its hook h and what came with g.
Keeps(r, l, h, g, c, b, D, n) ==
  /\ HoldsOf(r, l, c, D, n)
  /\ Accumulates(r, l, h, b, D, n)
  /\ BroughtTo(r, g, h, b, D, n)

\* A delta of replica s, with its dots from a + 1 to u, and the counters of others that
\* deltas of theirs cover.
SentOk(s, d, a, u, b, D, n) ==
  /\ d \in Kernel /\ Linked(d) /\ Within(d, D, UpTo(n))
  /\ \A t \in Replica \ {s} :
       d.counters[t] \subseteq 1 .. b[t] /\ \A k \in Key : d.dots[k][t] = {}
  /\ \A k \in Key :
       d.dots[k][s] \subseteq a + 1 .. u /\ HeadedIn(d.dots[k][s], d.dots[k][s])

LEMMA SentKept ==
  ASSUME NEW D, NEW n, NEW E, NEW p, Extended(D, n, E, p), NEW b, NEW q, Grows(b, q),
         NEW s \in Replica, NEW d, NEW a, NEW u, SentOk(s, d, a, u, b, D, n)
  PROVE  SentOk(s, d, a, u, q, E, p)
<1>1. Within(d, E, UpTo(p))
  BY DEF SentOk, Extended
<1>2. ASSUME NEW t \in Replica \ {s}
      PROVE  d.counters[t] \subseteq 1 .. q[t]
  <2>1. d.counters[t] \subseteq 1 .. b[t] /\ b[t] \in Nat /\ q[t] \in Nat /\ b[t] <= q[t]
    BY DEF SentOk, Grows
  <2> QED
    BY <2>1
<1> QED
  BY <1>1, <1>2 DEF SentOk

LEMMA KeepsKept ==
  ASSUME NEW D, NEW n, NEW E, NEW p, Extended(D, n, E, p), NEW b, NEW q, Grows(b, q),
         NEW r \in Replica, p[r] = n[r], q[r] = b[r],
         NEW l, NEW h, NEW g, NEW c, Keeps(r, l, h, g, c, b, D, n)
  PROVE  Keeps(r, l, h, g, c, q, E, p)
<1>1. Within(l, E, UpTo(p)) /\ Within(h, E, UpTo(p)) /\ Within(g, E, UpTo(p))
  BY DEF Keeps, HoldsOf, Accumulates, BroughtTo, Extended
<1>2. HoldsOf(r, l, c, E, p)
  BY <1>1 DEF Keeps, HoldsOf
<1>3. ASSUME NEW s \in Replica \ {r}
      PROVE  h.counters[s] \subseteq 1 .. q[s]
  <2>1. h.counters[s] \subseteq 1 .. b[s] /\ b[s] \in Nat /\ q[s] \in Nat /\ b[s] <= q[s]
    BY DEF Keeps, Accumulates, Grows
  <2> QED
    BY <2>1
<1>4. Accumulates(r, l, h, q, E, p)
  BY <1>1, <1>3 DEF Keeps, Accumulates
<1>5. BroughtTo(r, g, h, q, E, p)
  BY <1>1 DEF Keeps, BroughtTo
<1> QED
  BY <1>2, <1>4, <1>5 DEF Keeps

\* An update leaves what was brought before it.
LEMMA UpdateKeeps ==
  ASSUME NEW D, NEW n, NEW E, NEW p, NEW r \in Replica, NEW e \in Key, NEW N, NEW K,
         NEW l, NEW d, UpdateStep(D, n, E, p, r, l, d, e, N, K),
         NEW b, NEW c, Grows(c, b), Grows(b, n),
         NEW h, NEW g, Keeps(r, l, h, g, c, b, D, n),
         NEW y, y = Merge("state", l, d), NEW z, z = Merge("delta", h, d)
  PROVE  Keeps(r, y, z, g, c, b, E, p)
<1>1. HoldsOf(r, l, c, D, n) /\ Accumulates(r, l, h, b, D, n) /\ BroughtTo(r, g, h, b, D, n)
  BY DEF Keeps
<1>2. HoldsOf(r, y, c, E, p) /\ Accumulates(r, y, z, b, E, p)
  <2>1. Kept(r, l, h, c, b, D, n)
    BY <1>1 DEF Kept
  <2>2. Kept(r, y, z, c, b, E, p)
    BY <2>1, UpdateKept
  <2> QED
    BY <2>2 DEF Kept
<1>3. /\ l \in Kernel /\ Within(l, D, UpTo(n))
      /\ h \in Kernel /\ Linked(h) /\ Within(h, D, UpTo(n)) /\ Part(h, l)
  BY <1>1 DEF HoldsOf, Accumulates, Part
<1>4. UpdatedDots("delta", h, z, r, e, N, K)
  BY <1>3, UpdateMerged DEF UpdateStep
<1>5. Extended(D, n, E, p) /\ Numbered(n, p, r, N)
  BY IssuesMore DEF UpdateStep
<1>6. Within(g, E, UpTo(p))
  BY <1>1, <1>5 DEF BroughtTo, Extended
<1>7. ASSUME NEW k \in Key
      PROVE  /\ g.dots[k][r] \subseteq b[r] + 1 .. p[r]
             /\ \A x \in g.dots[k][r] : \A w \in z.dots[k][r] : x < w
  <2>1. /\ g.dots[k][r] \subseteq b[r] + 1 .. n[r]
        /\ \A x \in g.dots[k][r] : \A w \in h.dots[k][r] : x < w
    BY <1>1 DEF BroughtTo
  <2>2. n[r] \in Nat /\ p[r] \in Nat /\ n[r] <= p[r] /\ \A w \in N : w = n[r] + 1
    BY <1>5 DEF Numbered
  <2>3. b[r] \in Nat
    BY DEF Grows
  <2>4. g.dots[k][r] \subseteq b[r] + 1 .. p[r]
    BY <2>1, <2>2, <2>3
  <2>5. z.dots[k][r] \subseteq h.dots[k][r] \cup N
    <3>1. CountersMerge("delta", h.dots[k][r], N) \subseteq h.dots[k][r] \cup N
      BY CountersMergeSubset
    <3> QED
      BY <1>4, <3>1 DEF UpdatedDots
  <2>6. ASSUME NEW x \in g.dots[k][r], NEW w \in N
        PROVE  x < w
    <3>1. x \in b[r] + 1 .. n[r] /\ w = n[r] + 1
      BY <2>1, <2>2
    <3> QED
      BY <2>2, <2>3, <3>1
  <2> QED
    BY <2>1, <2>4, <2>5, <2>6
<1>8. BroughtTo(r, g, z, b, E, p)
  BY <1>1, <1>6, <1>7 DEF BroughtTo
<1> QED
  BY <1>2, <1>8 DEF Keeps

\* A single counter and newer ones without a run, merged, have no run at their low end.
LEMMA HeadedOnto ==
  ASSUME NEW L \in SUBSET Nat, NEW P \in SUBSET Nat, L = {} \/ \E c \in Nat : L = {c},
         \A x \in L : \A y \in P : x < y, HeadedIn(P, P),
         NEW V, V \cap P = {}, NEW M, M = CountersMerge("state", L, P) \ V
  PROVE  HeadedIn(M, M)
<1>1. P \subseteq CountersMerge("state", L, P)
  BY CountersMergeFresh
<1>2. CountersMerge("state", L, P) \subseteq L \cup P
  BY CountersMergeSubset
<1>3. P \subseteq M /\ M \subseteq L \cup P
  BY <1>1, <1>2
<1>4. CASE M = P
  BY <1>4
<1>5. CASE M # P
  <2>1. PICK c \in L : c \in M /\ c \notin P
    BY <1>3, <1>5
  <2>2. L = {c} /\ c \in Nat /\ M = {c} \cup P
    BY <1>3, <2>1
  <2>3. c + 1 \notin P
    <3>1. SUFFICES ASSUME c + 1 \in P
                   PROVE  FALSE
      OBVIOUS
    <3>2. c \in CountersMerge("state", L, P)
      BY <2>1
    <3>3. P # {} /\ ~Succeeds(L, P)
      <4>1. P # {c + 1}
        BY <2>1, <3>2, <3>1 DEF CountersMerge, Succeeds
      <4> QED
        BY <2>2, <3>1, <4>1 DEF Succeeds
    <3>4. c \in Collapse(L \cup P)
      BY <3>2, <3>3 DEF CountersMerge
    <3>5. PICK b \in L \cup P : b < c
      BY <3>1, <3>4 DEF Collapse
    <3>6. \A x \in L \cup P : c <= x
      BY <2>2
    <3> QED
      BY <2>2, <3>5, <3>6
  <2>4. c + 1 # c /\ \A x \in M : c <= x
    BY <2>2
  <2> QED
    BY <2>2, <2>3, <2>4 DEF HeadedIn
<1> QED
  BY <1>4, <1>5

\* What extract_delta makes of what map::insert brought and of the nested hook.
Extraction(g, h) ==
  Merge("state", Merge("state", EmptyKernel, g), Merge("delta", EmptyKernel, h))

LEMMA EmptyWithin ==
  ASSUME NEW D, NEW C
  PROVE  /\ Linked(EmptyKernel) /\ Within(EmptyKernel, D, C) /\ EmptyKernel.keys = {}
         /\ \A k \in Key : \A r \in Replica : EmptyKernel.dots[k][r] = {}
         /\ \A r \in Replica : EmptyKernel.counters[r] = {}
BY DEF Within, Linked, EmptyKernel, NoDots

\* The merge of a kernel without runs into an empty one.
LEMMA Copied ==
  ASSUME NEW tag, NEW d \in Kernel, Linked(d), NEW D, NEW C, Within(d, D, C), Apart(D),
         \A k \in Key : \A r \in Replica : HeadedIn(d.dots[k][r], d.dots[k][r]),
         NEW m, m = Merge(tag, EmptyKernel, d)
  PROVE  /\ m \in Kernel /\ Linked(m) /\ Within(m, D, C) /\ m.keys = d.keys /\ m.dots = d.dots
         /\ \A r \in Replica : m.counters[r] = CountersMerge(tag, {}, d.counters[r])
<1>1. SameElements(m, d)
  BY MergeIntoEmpty
<1>2. m \in Kernel
  BY EmptyKernelType, MergeType
<1>3. Within(m, D, C)
  BY EmptyKernelType, EmptyWithin, MergeWithin
<1>4. \A r \in Replica : m.counters[r] = CountersMerge(tag, {}, d.counters[r])
  <2>1. \A r \in Replica : m.counters[r] = CountersMerge(tag, EmptyKernel.counters[r], d.counters[r])
    BY MergeCounters
  <2>2. \A r \in Replica : EmptyKernel.counters[r] = {}
    BY DEF EmptyKernel, NoDots
  <2> QED
    BY <2>1, <2>2
<1> QED
  BY <1>1, <1>2, <1>3, <1>4 DEF SameElements, Linked

\* The delta that replica r extracts.
LEMMA ExtractSent ==
  ASSUME NEW D, NEW n, Numbers(D, n), NEW r \in Replica, NEW b, NEW c,
         NEW l, NEW h, NEW g, Keeps(r, l, h, g, c, b, D, n),
         NEW x, x = Extraction(g, h)
  PROVE  SentOk(r, x, b[r], n[r], b, D, n)
<1> DEFINE G == Merge("state", EmptyKernel, g)
           H == Merge("delta", EmptyKernel, h)
<1>1. Apart(D)
  BY DEF Numbers
<1>2. /\ g \in Kernel /\ Linked(g) /\ Within(g, D, UpTo(n))
      /\ h \in Kernel /\ Linked(h) /\ Within(h, D, UpTo(n))
  BY DEF Keeps, BroughtTo, Accumulates
<1>3. HeadedIn({}, {})
  BY DEF HeadedIn
<1>4. \A k \in Key : \A s \in Replica : HeadedIn(g.dots[k][s], g.dots[k][s])
  <2>1. \A y \in Nat : HeadedIn({y}, {y})
    <3>1. \A y \in Nat : y + 1 # y /\ y <= y
      OBVIOUS
    <3> QED
      BY <3>1 DEF HeadedIn
  <2> QED
    BY <1>3, <2>1 DEF Keeps, BroughtTo
<1>5. \A k \in Key : \A s \in Replica : HeadedIn(h.dots[k][s], h.dots[k][s])
  <2>1. \A k \in Key : HeadedIn(h.dots[k][r], h.dots[k][r])
    BY DEF Keeps, Accumulates, HeadedIn
  <2>2. \A k \in Key : \A s \in Replica \ {r} : h.dots[k][s] = {}
    BY DEF Keeps, Accumulates
  <2> QED
    BY <1>3, <2>1, <2>2
<1>6. /\ G \in Kernel /\ Linked(G) /\ Within(G, D, UpTo(n)) /\ G.dots = g.dots
      /\ \A s \in Replica : G.counters[s] = CountersMerge("state", {}, g.counters[s])
  BY <1>1, <1>2, <1>4, Copied
<1>7. /\ H \in Kernel /\ Linked(H) /\ Within(H, D, UpTo(n)) /\ H.dots = h.dots
      /\ \A s \in Replica : H.counters[s] = CountersMerge("delta", {}, h.counters[s])
  BY <1>1, <1>2, <1>5, Copied
<1>8. x = Merge("state", G, H)
  BY DEF Extraction
<1> HIDE DEF G, H
<1>9. Fresh(G, H)
  <2> SUFFICES ASSUME NEW k \in Key, NEW s \in Replica
               PROVE  \A y \in g.dots[k][s] : \A z \in h.dots[k][s] : y < z
    BY <1>5, <1>6, <1>7 DEF Fresh
  <2> QED
    BY DEF Keeps, BroughtTo, Accumulates
<1>10. Supported(H)
  BY <1>7, LinkedPairs
<1>11. Stays("state", G, H)
  BY <1>6, <1>7, <1>9, FreshStays
<1>12. MergedCleanly("state", G, H) /\ x \in Kernel /\ Within(x, D, UpTo(n))
  BY <1>1, <1>6, <1>7, <1>8, <1>10, <1>11, MergeLinked, MergeType, MergeWithin
<1>13. /\ Linked(x)
       /\ \A k \in Key : \A s \in Replica : x.dots[k][s] =
            CountersMerge("state", g.dots[k][s], h.dots[k][s]) \ Valueless(H, s)
  BY <1>6, <1>7, <1>8, <1>12 DEF MergedCleanly
<1>14. ASSUME NEW t \in Replica \ {r}
       PROVE  x.counters[t] \subseteq 1 .. b[t] /\ \A k \in Key : x.dots[k][t] = {}
  <2>1. g.counters[t] = {} /\ h.counters[t] \subseteq 1 .. b[t]
    BY DEF Keeps, BroughtTo, Accumulates
  <2>2. \A k \in Key : g.dots[k][t] = {} /\ h.dots[k][t] = {}
    BY DEF Keeps, BroughtTo, Accumulates
  <2>3. G.counters[t] = {} /\ H.counters[t] \subseteq h.counters[t]
    BY <1>6, <1>7, <2>1, CountersMergeSubset DEF CountersMerge
  <2>4. x.counters[t] \subseteq G.counters[t] \cup H.counters[t]
    BY <1>8, MergeCounters, CountersMergeSubset
  <2>5. \A k \in Key : CountersMerge("state", g.dots[k][t], h.dots[k][t]) = {}
    BY <2>2 DEF CountersMerge
  <2> QED
    BY <1>13, <2>1, <2>3, <2>4, <2>5
<1>15. ASSUME NEW k \in Key
       PROVE  x.dots[k][r] \subseteq b[r] + 1 .. n[r] /\ HeadedIn(x.dots[k][r], x.dots[k][r])
  <2>1. /\ g.dots[k][r] \subseteq b[r] + 1 .. n[r] /\ h.dots[k][r] \subseteq b[r] + 1 .. n[r]
        /\ g.dots[k][r] = {} \/ \E y \in Nat : g.dots[k][r] = {y}
        /\ \A y \in g.dots[k][r] : \A z \in h.dots[k][r] : y < z
    BY DEF Keeps, BroughtTo, Accumulates
  <2>2. g.dots[k][r] \in SUBSET Nat /\ h.dots[k][r] \in SUBSET Nat
    BY <1>2 DEF Kernel, Dots
  <2>3. CountersMerge("state", g.dots[k][r], h.dots[k][r]) \subseteq g.dots[k][r] \cup h.dots[k][r]
    BY CountersMergeSubset
  <2>4. Valueless(H, r) \cap h.dots[k][r] = {}
    BY <1>7, <1>10 DEF Valueless, Supported
  <2>5. HeadedIn(x.dots[k][r], x.dots[k][r])
    BY <1>5, <1>13, <2>1, <2>2, <2>4, HeadedOnto, ZenonT(40)
  <2> QED
    BY <1>13, <2>1, <2>3, <2>5
<1> QED
  BY <1>12, <1>13, <1>14, <1>15 DEF SentOk

\* What is left after the extraction.
LEMMA ExtractKept ==
  ASSUME NEW D, NEW n, NEW r \in Replica, NEW b, NEW q, Grows(b, q), NEW c,
         NEW l, NEW h, NEW g, Keeps(r, l, h, g, c, b, D, n)
  PROVE  Keeps(r, l, EmptyKernel, EmptyKernel, c, q, D, n)
<1>1. HeadedIn({}, {}) /\ \A T : HeadedIn({}, T)
  BY DEF HeadedIn
<1>2. Accumulates(r, l, EmptyKernel, q, D, n)
  BY <1>1, EmptyWithin, EmptyKernelType DEF Accumulates
<1>3. BroughtTo(r, EmptyKernel, EmptyKernel, q, D, n)
  BY EmptyWithin, EmptyKernelType DEF BroughtTo
<1> QED
  BY <1>2, <1>3 DEF Keeps

\* A container l of r merges d, of the counters a + 1 .. u of s, which makes it y.
Brings(D, n, r, s, b, c, q, d, a, u, l, y) ==
  /\ Numbers(D, n) /\ r # s
  /\ b \in [Replica -> Nat] /\ c \in [Replica -> Nat] /\ q = [c EXCEPT ![s] = u]
  /\ SentOk(s, d, a, u, b, D, n)
  /\ a \in Nat /\ u \in Nat /\ c[s] <= a /\ a <= u
  /\ y = Merge("state", l, d)

\* y has the elements of d, and the dots of l and d, merged, without those that d deletes.
Shows(l, d, y) ==
  /\ d.keys \subseteq y.keys
  /\ \A k \in Key : \A t \in Replica : y.dots[k][t] =
       CountersMerge("state", l.dots[k][t], d.dots[k][t]) \ Valueless(d, t)

\* A delivery of the next delta of replica s.
LEMMA DeliverKeeps ==
  ASSUME NEW D, NEW n, NEW r \in Replica, NEW s \in Replica, NEW b, NEW c, NEW q,
         NEW d, NEW a, NEW u, NEW l, NEW y, Brings(D, n, r, s, b, c, q, d, a, u, l, y),
         NEW h, NEW g, Keeps(r, l, h, g, c, b, D, n)
  PROVE  Keeps(r, y, h, g, q, b, D, n) /\ Shows(l, d, y)
<1>a. Numbers(D, n) /\ SentOk(s, d, a, u, b, D, n)
  BY DEF Brings
<1>b. r # s /\ b \in [Replica -> Nat] /\ c \in [Replica -> Nat] /\ a \in Nat /\ u \in Nat
  BY DEF Brings
<1>c. c[s] <= a /\ a <= u
  BY DEF Brings
<1>d. q = [c EXCEPT ![s] = u]
  BY DEF Brings
<1>e. y = Merge("state", l, d)
  BY DEF Brings
<1> USE <1>a, <1>b, <1>c, <1>d, <1>e
<1>1. Apart(D) /\ n[r] \in Nat /\ b[r] \in Nat /\ c[s] \in Nat
  BY DEF Numbers
<1>2. /\ l \in Kernel /\ Linked(l) /\ Within(l, D, UpTo(n))
      /\ n[r] = 0 \/ n[r] \in l.counters[r]
      /\ \A t \in Replica \ {r} : \A k \in Key : l.dots[k][t] \subseteq 1 .. c[t]
  BY DEF Keeps, HoldsOf
<1>3. /\ d \in Kernel /\ Linked(d) /\ Within(d, D, UpTo(n))
      /\ \A t \in Replica \ {s} :
           d.counters[t] \subseteq 1 .. b[t] /\ \A k \in Key : d.dots[k][t] = {}
      /\ \A k \in Key :
           d.dots[k][s] \subseteq a + 1 .. u /\ HeadedIn(d.dots[k][s], d.dots[k][s])
  BY DEF SentOk
<1>4. Supported(d)
  BY <1>3, LinkedPairs
<1>5. Fresh(l, d)
  <2> SUFFICES ASSUME NEW k \in Key, NEW t \in Replica
               PROVE  /\ \A x \in l.dots[k][t] : \A z \in d.dots[k][t] : x < z
                      /\ HeadedIn(d.dots[k][t], d.dots[k][t])
    BY DEF Fresh
  <2>1. CASE t = s
    <3>1. \A x \in 1 .. c[s] : \A z \in a + 1 .. u : x < z
      BY <1>1
    <3> QED
      BY <1>2, <1>3, <2>1, <3>1
  <2>2. CASE t # s
    BY <1>3, <2>2 DEF HeadedIn
  <2> QED
    BY <2>1, <2>2
<1>6. Stays("state", l, d)
  BY <1>2, <1>3, <1>5, FreshStays
<1>7. MergedCleanly("state", l, d) /\ y \in Kernel /\ Within(y, D, UpTo(n))
  BY <1>1, <1>2, <1>3, <1>4, <1>6, MergeLinked, MergeType, MergeWithin
<1>8. /\ Linked(y)
      /\ \A k \in Key : \A t \in Replica : y.dots[k][t] =
           CountersMerge("state", l.dots[k][t], d.dots[k][t]) \ Valueless(d, t)
  BY <1>7 DEF MergedCleanly
<1>9. ASSUME NEW k \in Key, NEW t \in Replica, t # s
      PROVE  y.dots[k][t] = l.dots[k][t] \ Valueless(d, t)
  BY <1>3, <1>8, <1>9 DEF CountersMerge
<1>10. HoldsOf(r, y, q, D, n)
  <2>1. n[r] = 0 \/ n[r] \in y.counters[r]
    <3>1. l.counters[r] \in SUBSET (1 .. n[r]) /\ d.counters[r] \in SUBSET (1 .. n[r])
      BY <1>2, <1>3 DEF Within, UpTo
    <3>2. /\ l.counters[r] \in SUBSET Nat /\ d.counters[r] \in SUBSET Nat
          /\ \A x \in l.counters[r] \cup d.counters[r] : x <= n[r]
      BY <1>1, <3>1
    <3>3. CASE n[r] \in l.counters[r] \cup d.counters[r]
      <4>1. n[r] \in CountersMerge("state", l.counters[r], d.counters[r])
        BY <3>2, <3>3, CountersMergeTop
      <4> QED
        BY <4>1, MergeCounters
    <3> QED
      BY <1>2, <3>3
  <2>2. ASSUME NEW t \in Replica \ {r}, NEW k \in Key
        PROVE  y.dots[k][t] \subseteq 1 .. q[t]
    <3>1. CASE t = s
      <4>1. CountersMerge("state", l.dots[k][s], d.dots[k][s]) \subseteq l.dots[k][s] \cup d.dots[k][s]
        BY CountersMergeSubset
      <4>2. 1 .. c[s] \subseteq 1 .. u /\ a + 1 .. u \subseteq 1 .. u
        BY <1>1
      <4>3. q[s] = u
        OBVIOUS
      <4>4. l.dots[k][s] \subseteq 1 .. u /\ d.dots[k][s] \subseteq 1 .. u
        BY <1>2, <1>3, <3>1, <4>2
      <4> QED
        BY <1>8, <3>1, <4>1, <4>3, <4>4
    <3>2. CASE t # s
      <4>1. q[t] = c[t]
        BY <3>2
      <4> QED
        BY <1>2, <1>9, <3>2, <4>1
    <3> QED
      BY <3>1, <3>2
  <2> QED
    BY <1>7, <1>8, <2>1, <2>2 DEF HoldsOf
<1>11. Accumulates(r, y, h, b, D, n)
  <2>1. ASSUME NEW k \in Key
        PROVE  h.dots[k][r] \subseteq y.dots[k][r] /\ HeadedIn(h.dots[k][r], y.dots[k][r])
    <3>1. /\ h.dots[k][r] \subseteq b[r] + 1 .. n[r]
          /\ h.dots[k][r] \subseteq l.dots[k][r]
          /\ HeadedIn(h.dots[k][r], l.dots[k][r])
      BY DEF Keeps, Accumulates
    <3>2. Valueless(d, r) \subseteq 1 .. b[r]
      BY <1>3 DEF Valueless
    <3>3. \A x \in b[r] + 1 .. n[r] : x \notin 1 .. b[r]
      BY <1>1
    <3>4. y.dots[k][r] = l.dots[k][r] \ Valueless(d, r)
      BY <1>9
    <3> QED
      BY <3>1, <3>2, <3>3, <3>4 DEF HeadedIn
  <2> QED
    BY <2>1 DEF Keeps, Accumulates
<1>12. d.keys \subseteq y.keys
  <2> SUFFICES ASSUME NEW k \in d.keys
               PROVE  k \in y.keys
    OBVIOUS
  <2>1. k \in Key
    BY <1>3 DEF Kernel
  <2>2. PICK t \in Replica : d.dots[k][t] # {}
    BY <1>4, <2>1 DEF Supported
  <2>3. d.dots[k][t] \subseteq CountersMerge("state", l.dots[k][t], d.dots[k][t])
    BY <1>6, <2>1 DEF Stays
  <2>4. d.dots[k][t] \cap Valueless(d, t) = {}
    BY DEF Valueless
  <2>5. y.dots[k][t] # {}
    BY <1>8, <2>1, <2>2, <2>3, <2>4
  <2>6. Supported(y)
    BY <1>7, <1>8, LinkedPairs
  <2> QED
    BY <2>1, <2>5, <2>6 DEF Supported
<1> QED
  BY <1>8, <1>10, <1>11, <1>12 DEF Keeps, Shows

-----------------------------------------------------------------------------
(* The updates the containers make, and the container map::insert makes.    *)

\* insert: the next dot for e.
LEMMA ValueUpdates ==
  ASSUME NEW D, NEW n, Numbers(D, n), NEW r \in Replica, NEW e \in Key, NEW l \in Kernel,
         Within(l, D, UpTo(n)), n[r] = 0 \/ n[r] \in l.counters[r],
         NEW d, d = ValueDelta(e, r, NextCounter(l.counters[r]))
  PROVE  Updates(d, r, l, e, {n[r] + 1}, {})
<1>1. n[r] \in Nat /\ l.counters[r] \subseteq 1 .. n[r]
  BY DEF Numbers, Within, UpTo
<1>2. NextCounter(l.counters[r]) = n[r] + 1
  BY <1>1, NextCounterIsSuccessor
<1> DEFINE dot == [NoDots EXCEPT ![r] = {n[r] + 1}]
<1>3. d = [EmptyKernel EXCEPT !.keys = {e}, !.dots[e] = dot, !.counters = dot]
  BY <1>2 DEF ValueDelta
<1>4. dot[r] = {n[r] + 1} /\ \A s \in Replica \ {r} : dot[s] = {}
  BY DEF NoDots
<1> HIDE DEF dot
<1>5. /\ d.keys = {e} /\ d.counters = dot
      /\ \A k \in Key : d.dots[k] = IF k = e THEN dot ELSE NoDots
  BY <1>3 DEF EmptyKernel
<1>6. \A s \in Replica : NoDots[s] = {}
  BY DEF NoDots
<1>7. d \in Kernel
  BY <1>1, <1>2, ValueDeltaType
<1>8. Supported(d)
  BY <1>4, <1>5, <1>6 DEF Supported
<1>9. \A s \in Replica : Valueless(d, s) = {} /\ ClearedOf(l, {}, s) = {}
  BY <1>5 DEF Valueless, ClearedOf
<1> QED
  BY <1>4, <1>5, <1>6, <1>7, <1>8, <1>9 DEF Updates

\* erase and clear: the counters of the elements K.
LEMMA CountersUpdates ==
  ASSUME NEW r \in Replica, NEW e \in Key, NEW l \in Kernel, NEW K \in SUBSET Key,
         NEW d, d = CountersDelta(l, K)
  PROVE  Updates(d, r, l, e, {}, K)
<1>1. d \in Kernel
  BY CountersDeltaType
<1>2. /\ d.keys = {} /\ \A k \in Key : \A s \in Replica : d.dots[k][s] = {}
      /\ \A s \in Replica : d.counters[s] = ClearedOf(l, K, s)
  BY DEF CountersDelta, EmptyKernel, NoDots, ClearedOf
<1>3. \A s \in Replica : Valueless(d, s) = ClearedOf(l, K, s)
  BY <1>2 DEF Valueless
<1> QED
  BY <1>1, <1>2, <1>3 DEF Updates, Supported

\* value_mv::set: the next dot for e, and the counters of all elements.
LEMMA SetUpdates ==
  ASSUME NEW D, NEW n, Numbers(D, n), NEW r \in Replica, NEW e \in Key, NEW l \in Kernel,
         Within(l, D, UpTo(n)), n[r] = 0 \/ n[r] \in l.counters[r], NEW v, NEW w,
         v = ValueDelta(e, r, NextCounter(l.counters[r])), w = CountersDelta(l, l.keys),
         NEW d, d = [v EXCEPT !.counters = [s \in Replica |-> @[s] \cup w.counters[s]]]
  PROVE  Updates(d, r, l, e, {n[r] + 1}, l.keys)
<1> DEFINE N == {n[r] + 1}
<1>1. Updates(v, r, l, e, N, {})
  BY ValueUpdates
<1>2. l.keys \in SUBSET Key
  BY DEF Kernel
<1>3. Updates(w, r, l, e, {}, l.keys)
  BY <1>2, CountersUpdates
<1>4. n[r] \in Nat /\ \A k \in Key : l.dots[k][r] \subseteq 1 .. n[r]
  BY DEF Numbers, Within
<1>5. N \cap ClearedOf(l, l.keys, r) = {}
  <2>1. n[r] + 1 \notin 1 .. n[r]
    BY <1>4
  <2> QED
    BY <1>2, <1>4, <2>1 DEF ClearedOf
<1> HIDE DEF N
<1>6. v \in Kernel /\ w \in Kernel /\ Supported(v)
  BY <1>1, <1>3 DEF Updates
<1>7. d = [keys |-> v.keys, dots |-> v.dots, links |-> v.links,
           counters |-> [s \in Replica |-> v.counters[s] \cup w.counters[s]]]
  BY <1>6 DEF Kernel
<1>8. d \in Kernel
  <2>1. [s \in Replica |-> v.counters[s] \cup w.counters[s]] \in Dots
    BY <1>6 DEF Kernel, Dots
  <2> QED
    BY <1>6, <1>7, <2>1 DEF Kernel
<1>9. /\ d.keys = v.keys /\ d.dots = v.dots
      /\ \A s \in Replica : d.counters[s] = v.counters[s] \cup w.counters[s]
  BY <1>7
<1>10. Supported(d)
  BY <1>6, <1>9 DEF Supported
<1>11. \A s \in Replica : ClearedOf(l, {}, s) = {}
  BY DEF ClearedOf
<1>12. /\ d.dots[e][r] = N
       /\ \A k \in Key : \A s \in Replica : k # e \/ s # r => d.dots[k][s] = {}
       /\ d.counters[r] = ClearedOf(l, l.keys, r) \cup N
       /\ \A s \in Replica \ {r} : d.counters[s] = ClearedOf(l, l.keys, s)
  BY <1>1, <1>3, <1>9, <1>11 DEF Updates
<1>13. ASSUME NEW s \in Replica
       PROVE  Valueless(d, s) = ClearedOf(l, l.keys, s)
  <2>1. Valueless(v, s) = {}
    BY <1>1, <1>11 DEF Updates
  <2>2. /\ Valueless(d, s) = Valueless(v, s) \cup (w.counters[s] \ UNION {v.dots[k][s] : k \in v.keys})
        /\ w.counters[s] = ClearedOf(l, l.keys, s)
    BY <1>3, <1>9 DEF Valueless, Updates
  <2>3. w.counters[s] \cap UNION {v.dots[k][s] : k \in v.keys} = {}
    <3>1. \A k \in v.keys : k \in Key
      BY <1>6 DEF Kernel
    <3>2. \A k \in v.keys : v.dots[k][s] # {} => s = r /\ v.dots[k][s] = N
      BY <1>1, <3>1 DEF Updates
    <3> QED
      BY <1>5, <2>2, <3>2
  <2> QED
    BY <2>1, <2>2, <2>3
<1> QED
  BY <1>8, <1>10, <1>12, <1>13 DEF Updates, N

\* A container with j dots of replica r, one for an element.
Fills(r, f, j) ==
  /\ f \in Kernel /\ Linked(f) /\ j \in Nat
  /\ \A s \in Replica \ {r} : f.counters[s] = {} /\ \A k \in Key : f.dots[k][s] = {}
  /\ f.counters[r] = IF j = 0 THEN {} ELSE {j}
  /\ \A k \in Key :
       /\ f.dots[k][r] \subseteq 1 .. j
       /\ f.dots[k][r] = {} \/ \E x \in Nat : f.dots[k][r] = {x}
  /\ Apart(f.dots)

\* Replica r, which has had no dots, has those of f.
FillStep(D, n, E, p, r, f, j) ==
  /\ Numbers(D, n) /\ n[r] = 0 /\ Fills(r, f, j)
  /\ E = [k \in Key |-> [D[k] EXCEPT ![r] = f.dots[k][r]]]
  /\ p = [n EXCEPT ![r] = j]

LEMMA FillIssues ==
  ASSUME NEW D, NEW n, NEW E, NEW p, NEW r \in Replica, NEW f, NEW j,
         FillStep(D, n, E, p, r, f, j)
  PROVE  Numbers(E, p) /\ Extended(D, n, E, p) /\ Within(f, E, UpTo(p)) /\ p[r] = j
<1> USE DEF FillStep
<1>2. f \in Kernel /\ Linked(f) /\ j \in Nat /\ \A k \in Key : f.dots[k][r] \subseteq 1 .. j
  BY DEF Fills
<1>3. p \in [Replica -> Nat] /\ p[r] = j /\ \A s \in Replica \ {r} : p[s] = n[s]
  BY <1>2 DEF Numbers
<1>4. \A k \in Key : \A s \in Replica : E[k][s] = IF s = r THEN f.dots[k][s] ELSE D[k][s]
  BY DEF Numbers
<1>5. \A k \in Key : D[k][r] = {}
  BY DEF Numbers
<1>6. \A k \in Key : \A s \in Replica :
        E[k][s] \subseteq 1 .. p[s] /\ D[k][s] \subseteq E[k][s] /\ f.dots[k][s] \subseteq E[k][s]
  BY <1>2, <1>3, <1>4, <1>5 DEF Numbers, Fills
<1>7. Numbers(E, p)
  <2>1. E \in [Key -> [Replica -> SUBSET (Nat \ {0})]]
    <3>1. \A k \in Key : f.dots[k][r] \in SUBSET (Nat \ {0}) /\ D[k] \in [Replica -> SUBSET (Nat \ {0})]
      BY <1>2 DEF Kernel, Dots, Numbers
    <3>2. \A k \in Key : [D[k] EXCEPT ![r] = f.dots[k][r]] \in [Replica -> SUBSET (Nat \ {0})]
      BY <3>1
    <3> QED
      BY <3>2
  <2>2. Apart(E)
    BY <1>4 DEF Apart, Numbers, Fills
  <2> QED
    BY <1>3, <1>6, <2>1, <2>2 DEF Numbers
<1>8. Extended(D, n, E, p)
  <2>1. \A s \in Replica : UpTo(n)[s] \subseteq UpTo(p)[s]
    <3>1. \A s \in Replica : 1 .. n[s] \subseteq 1 .. p[s]
      BY <1>3
    <3> QED
      BY <3>1 DEF UpTo
  <2>2. \A k \in Key : \A s \in Replica : D[k][s] \subseteq E[k][s]
    BY <1>6
  <2>3. ASSUME NEW l, Within(l, D, UpTo(n))
        PROVE  Within(l, E, UpTo(p))
    BY <2>1, <2>2, <2>3, WithinGrows
  <2> QED
    BY <2>3 DEF Extended
<1>9. Within(f, E, UpTo(p))
  <2>1. \A s \in Replica : f.counters[s] \subseteq UpTo(p)[s]
    BY <1>2, <1>3 DEF UpTo, Fills
  <2> QED
    BY <1>6, <2>1 DEF Within
<1> QED
  BY <1>3, <1>7, <1>8, <1>9

\* map::insert where replica r has not had the container.
LEMMA FillKeeps ==
  ASSUME NEW D, NEW n, NEW E, NEW p, NEW r \in Replica, NEW f, NEW j,
         FillStep(D, n, E, p, r, f, j), NEW b, b[r] = 0, NEW c,
         NEW y, y = Merge("state", EmptyKernel, f)
  PROVE  Keeps(r, y, EmptyKernel, y, c, b, E, p) /\ y.keys = f.keys
<1>1. Numbers(E, p) /\ Within(f, E, UpTo(p)) /\ p[r] = j
  BY FillIssues
<1>2. Fills(r, f, j) /\ f \in Kernel /\ Linked(f) /\ j \in Nat
  BY DEF Fills, FillStep
<1>3. \A k \in Key : \A s \in Replica : HeadedIn(f.dots[k][s], f.dots[k][s])
  <2>1. \A x \in Nat : HeadedIn({x}, {x})
    <3>1. \A x \in Nat : x + 1 # x /\ x <= x
      OBVIOUS
    <3> QED
      BY <3>1 DEF HeadedIn
  <2>2. HeadedIn({}, {})
    BY DEF HeadedIn
  <2> QED
    BY <1>2, <2>1, <2>2 DEF Fills
<1>4. Apart(E)
  BY <1>1 DEF Numbers
<1>5. /\ y \in Kernel /\ Linked(y) /\ Within(y, E, UpTo(p)) /\ y.keys = f.keys /\ y.dots = f.dots
      /\ \A s \in Replica : y.counters[s] = CountersMerge("state", {}, f.counters[s])
  BY <1>1, <1>2, <1>3, <1>4, Copied
<1>6. /\ \A s \in Replica \ {r} : y.counters[s] = {}
      /\ y.counters[r] = f.counters[r]
  <2>1. \A s \in Replica \ {r} : y.counters[s] = {}
    BY <1>2, <1>5 DEF CountersMerge, Fills
  <2>2. \A x \in Nat : Collapse({x}) = {x}
    <3>1. \A x \in Nat : x + 1 # x
      OBVIOUS
    <3> QED
      BY <3>1 DEF Collapse
  <2>3. CountersMerge("state", {}, f.counters[r]) = f.counters[r]
    BY <1>2, <2>2 DEF CountersMerge, Succeeds, Fills
  <2> QED
    BY <1>2, <1>5, <2>1, <2>3
<1>7. HoldsOf(r, y, c, E, p)
  <2>1. p[r] = 0 \/ p[r] \in y.counters[r]
    <3>1. CASE j = 0
      BY <1>1, <3>1
    <3>2. CASE j # 0
      <4>1. f.counters[r] = {j}
        BY <1>2, <3>2 DEF Fills
      <4> QED
        BY <1>1, <1>6, <4>1
    <3> QED
      BY <3>1, <3>2
  <2> QED
    BY <1>2, <1>5, <2>1 DEF HoldsOf, Fills
<1>8. Accumulates(r, y, EmptyKernel, b, E, p)
  <2>1. \A T : HeadedIn({}, T)
    BY DEF HeadedIn
  <2> QED
    BY <2>1, EmptyWithin, EmptyKernelType DEF Accumulates
<1>9. BroughtTo(r, y, EmptyKernel, b, E, p)
  <2>1. \A k \in Key : f.dots[k][r] \subseteq b[r] + 1 .. p[r]
    BY <1>1, <1>2 DEF Fills
  <2> QED
    BY <1>2, <1>5, <1>6, <2>1, EmptyWithin DEF BroughtTo, Fills
<1> QED
  BY <1>5, <1>7, <1>8, <1>9 DEF Keeps

-----------------------------------------------------------------------------
(***************************************************************************)
(* The copies of one container at all replicas: containers ls, hooks hs,   *)
(* what came with gs, and the first m[s] deltas ds of each replica s, of   *)
(* which r has merged got[r][s].  U[s][i] says how many dots of s its      *)
(* first i deltas cover.                                                   *)
(***************************************************************************)

SeenBy(U, i) == [s \in Replica |-> U[s][i[s]]]

Covers(U, m, n) ==
  \A s \in Replica :
    /\ \A i \in 0 .. m[s] : U[s][i] \in Nat /\ U[s][i] <= n[s]
    /\ U[s][0] = 0
    /\ \A i, j \in 0 .. m[s] : i <= j => U[s][i] <= U[s][j]

Merged(m, got) ==
  /\ m \in [Replica -> Nat] /\ got \in [Replica -> [Replica -> Nat]]
  /\ \A r, s \in Replica : got[r][s] <= m[s]

Copies(ls, hs, gs, ds, m, got, D, n, U) ==
  /\ Numbers(D, n) /\ Merged(m, got) /\ Covers(U, m, n)
  /\ \A r \in Replica : Keeps(r, ls[r], hs[r], gs[r], SeenBy(U, got[r]), SeenBy(U, m), D, n)
  /\ \A s \in Replica : \A i \in 1 .. m[s] :
       SentOk(s, ds[s][i], U[s][i - 1], U[s][i], SeenBy(U, m), D, n)

Shared(ls, hs, gs, ds, m, got) == \E D, n, U : Copies(ls, hs, gs, ds, m, got, D, n, U)

\* Only the entry of r differs.
SameBut(r, f, g) == \A q \in Replica \ {r} : f[q] = g[q]

LEMMA SeenGrows ==
  ASSUME NEW m, NEW got, Merged(m, got), NEW n \in [Replica -> Nat], NEW U, Covers(U, m, n)
  PROVE  Grows(SeenBy(U, m), n) /\ \A r \in Replica : Grows(SeenBy(U, got[r]), SeenBy(U, m))
<1>1. \A r, s \in Replica : got[r][s] \in 0 .. m[s] /\ m[s] \in 0 .. m[s]
  BY DEF Merged
<1>2. ASSUME NEW s \in Replica
      PROVE  SeenBy(U, m)[s] = U[s][m[s]] /\ U[s][m[s]] \in Nat /\ U[s][m[s]] <= n[s]
  BY <1>1 DEF Covers, SeenBy
<1>3. ASSUME NEW r \in Replica, NEW s \in Replica
      PROVE  /\ SeenBy(U, got[r])[s] = U[s][got[r][s]]
             /\ U[s][got[r][s]] \in Nat /\ U[s][got[r][s]] <= U[s][m[s]]
  <2>1. got[r][s] \in 0 .. m[s] /\ m[s] \in 0 .. m[s] /\ got[r][s] <= m[s]
    BY <1>1
  <2>2. SeenBy(U, got[r])[s] = U[s][got[r][s]]
    BY DEF SeenBy
  <2> QED
    BY <2>1, <2>2 DEF Covers
<1>4. SeenBy(U, m) \in [Replica -> Nat] /\ \A r \in Replica : SeenBy(U, got[r]) \in [Replica -> Nat]
  BY <1>2, <1>3 DEF SeenBy
<1> QED
  BY <1>2, <1>3, <1>4 DEF Grows

\* Nothing has happened to the copies yet.
LEMMA SharedInit ==
  ASSUME NEW ls, NEW hs, NEW gs, NEW ds, NEW m, NEW got, Merged(m, got),
         \A r \in Replica :
           ls[r] = EmptyKernel /\ hs[r] = EmptyKernel /\ gs[r] = EmptyKernel /\ m[r] = 0
  PROVE  Shared(ls, hs, gs, ds, m, got)
<1> DEFINE n == [s \in Replica |-> 0]
           D == [k \in Key |-> [s \in Replica |-> {}]]
           U == [s \in Replica |-> [i \in {0} |-> 0]]
<1>1. Numbers(D, n)
  BY DEF Numbers, Apart
<1>2. /\ \A r, s \in Replica : got[r][s] = 0
      /\ \A s \in Replica : m[s] = 0 /\ 0 .. m[s] = {0} /\ 1 .. m[s] = {} /\ U[s][0] = 0 /\ n[s] = 0
  BY DEF Merged
<1>3. Covers(U, m, n)
  BY <1>2 DEF Covers
<1> HIDE DEF D, n, U
<1>4. ASSUME NEW r \in Replica
      PROVE  Keeps(r, EmptyKernel, EmptyKernel, EmptyKernel, SeenBy(U, got[r]), SeenBy(U, m), D, n)
  <2>1. \A T : HeadedIn({}, T)
    BY DEF HeadedIn
  <2>2. n[r] = 0
    BY <1>2
  <2>3. /\ EmptyKernel \in Kernel /\ Linked(EmptyKernel) /\ Within(EmptyKernel, D, UpTo(n))
        /\ \A k \in Key : \A s \in Replica : EmptyKernel.dots[k][s] = {}
        /\ \A s \in Replica : EmptyKernel.counters[s] = {}
    BY EmptyWithin, EmptyKernelType
  <2>4. HoldsOf(r, EmptyKernel, SeenBy(U, got[r]), D, n)
    BY <2>2, <2>3 DEF HoldsOf
  <2>5. Accumulates(r, EmptyKernel, EmptyKernel, SeenBy(U, m), D, n)
    BY <2>1, <2>3 DEF Accumulates
  <2>6. BroughtTo(r, EmptyKernel, EmptyKernel, SeenBy(U, m), D, n)
    BY <2>3 DEF BroughtTo
  <2> QED
    BY <2>4, <2>5, <2>6 DEF Keeps
<1>5. Copies(ls, hs, gs, ds, m, got, D, n, U)
  BY <1>1, <1>2, <1>3, <1>4 DEF Copies
<1> QED
  BY <1>5 DEF Shared

\* Replicas that do nothing keep what they have when others issue dots.
LEMMA CopiesGrow ==
  ASSUME NEW ls, NEW hs, NEW gs, NEW ds, NEW m, NEW got, NEW D, NEW n, NEW U,
         Copies(ls, hs, gs, ds, m, got, D, n, U),
         NEW E, NEW p, Numbers(E, p), Extended(D, n, E, p), Grows(n, p), NEW r \in Replica,
         SameBut(r, p, n), NEW lt, NEW ht, NEW gt,
         SameBut(r, lt, ls), SameBut(r, ht, hs), SameBut(r, gt, gs),
         Keeps(r, lt[r], ht[r], gt[r], SeenBy(U, got[r]), SeenBy(U, m), E, p)
  PROVE  Shared(lt, ht, gt, ds, m, got)
<1>1. Merged(m, got) /\ Covers(U, m, n) /\ Numbers(D, n)
  BY DEF Copies
<1>2. Grows(SeenBy(U, m), SeenBy(U, m))
  <2>1. n \in [Replica -> Nat]
    BY <1>1 DEF Numbers
  <2>2. Grows(SeenBy(U, m), n)
    BY <1>1, <2>1, SeenGrows
  <2> QED
    BY <2>2 DEF Grows
<1>3. Covers(U, m, p)
  <2>1. ASSUME NEW s \in Replica, NEW i \in 0 .. m[s]
        PROVE  U[s][i] <= p[s]
    <3>1. U[s][i] \in Nat /\ U[s][i] <= n[s]
      BY <1>1 DEF Covers
    <3>2. n[s] \in Nat /\ p[s] \in Nat /\ n[s] <= p[s]
      BY DEF Grows
    <3> QED
      BY <3>1, <3>2
  <2> QED
    BY <1>1, <2>1 DEF Covers
<1>4. ASSUME NEW q \in Replica
      PROVE  Keeps(q, lt[q], ht[q], gt[q], SeenBy(U, got[q]), SeenBy(U, m), E, p)
  <2>1. CASE q = r
    BY <2>1
  <2>2. CASE q # r
    <3>1. /\ lt[q] = ls[q] /\ ht[q] = hs[q] /\ gt[q] = gs[q] /\ p[q] = n[q]
          /\ Keeps(q, ls[q], hs[q], gs[q], SeenBy(U, got[q]), SeenBy(U, m), D, n)
      BY <2>2 DEF SameBut, Copies
    <3>2. Keeps(q, ls[q], hs[q], gs[q], SeenBy(U, got[q]), SeenBy(U, m), E, p)
      BY <1>2, <3>1, KeepsKept
    <3> QED
      BY <3>1, <3>2
  <2> QED
    BY <2>1, <2>2
<1>5. ASSUME NEW s \in Replica, NEW i \in 1 .. m[s]
      PROVE  SentOk(s, ds[s][i], U[s][i - 1], U[s][i], SeenBy(U, m), E, p)
  <2>1. SentOk(s, ds[s][i], U[s][i - 1], U[s][i], SeenBy(U, m), D, n)
    BY DEF Copies
  <2> QED
    BY <1>2, <2>1, SentKept
<1>6. Copies(lt, ht, gt, ds, m, got, E, p, U)
  BY <1>1, <1>3, <1>4, <1>5 DEF Copies
<1> QED
  BY <1>6 DEF Shared

\* The update d of container l by replica r, which deletes the elements K and adds A.
Change(d, l, r, K, A) ==
  \/ \E e \in Key : d = ValueDelta(e, r, NextCounter(l.counters[r])) /\ K = {} /\ A = {e}
  \/ K \in SUBSET l.keys /\ K # {} /\ d = CountersDelta(l, K) /\ A = {}
  \/ \E e \in Key :
       /\ d = [ValueDelta(e, r, NextCounter(l.counters[r])) EXCEPT
                 !.counters = [s \in Replica |-> @[s] \cup CountersDelta(l, l.keys).counters[s]]]
       /\ K = l.keys /\ A = {e}

\* The elements that get the dots N.
AddedBy(A, e, N) == A = (IF N = {} THEN {} ELSE {e})

\* The dots that a change issues.
LEMMA ChangeUpdates ==
  ASSUME NEW D, NEW n, Numbers(D, n), NEW r \in Replica, NEW l \in Kernel,
         Within(l, D, UpTo(n)), n[r] = 0 \/ n[r] \in l.counters[r],
         NEW d, NEW K, NEW A, Change(d, l, r, K, A)
  PROVE  \E E, p, N : \E e \in Key :
           /\ UpdateStep(D, n, E, p, r, l, d, e, N, K)
           /\ AddedBy(A, e, N)
<1>1. \A e \in Key : \E E, p : IssuedNow(D, n, E, p, r, e, {n[r] + 1})
  BY DEF IssuedNow
<1>2. \A e \in Key : IssuedNow(D, n, D, n, r, e, {})
  BY DEF IssuedNow
<1>3. l.keys \in SUBSET Key
  BY DEF Kernel
<1>4. CASE \E e \in Key : d = ValueDelta(e, r, NextCounter(l.counters[r])) /\ K = {} /\ A = {e}
  <2>1. PICK e \in Key : d = ValueDelta(e, r, NextCounter(l.counters[r])) /\ K = {} /\ A = {e}
    BY <1>4
  <2>2. Updates(d, r, l, e, {n[r] + 1}, {})
    BY <2>1, ValueUpdates
  <2>3. PICK E, p : IssuedNow(D, n, E, p, r, e, {n[r] + 1})
    BY <1>1
  <2>4. UpdateStep(D, n, E, p, r, l, d, e, {n[r] + 1}, K)
    BY <2>1, <2>2, <2>3 DEF UpdateStep
  <2>5. AddedBy(A, e, {n[r] + 1})
    BY <2>1 DEF AddedBy
  <2> QED
    BY <2>4, <2>5
<1>5. CASE K \in SUBSET l.keys /\ K # {} /\ d = CountersDelta(l, K) /\ A = {}
  <2>1. PICK e \in Key : TRUE
    BY <1>3, <1>5
  <2>2. Updates(d, r, l, e, {}, K)
    BY <1>3, <1>5, <2>1, CountersUpdates
  <2>3. UpdateStep(D, n, D, n, r, l, d, e, {}, K)
    BY <1>2, <1>3, <1>5, <2>2 DEF UpdateStep
  <2>4. AddedBy(A, e, {})
    BY <1>5 DEF AddedBy
  <2> QED
    BY <2>3, <2>4
<1>6. CASE \E e \in Key :
             /\ d = [ValueDelta(e, r, NextCounter(l.counters[r])) EXCEPT
                       !.counters = [s \in Replica |-> @[s] \cup CountersDelta(l, l.keys).counters[s]]]
             /\ K = l.keys /\ A = {e}
  <2>1. PICK e \in Key :
          /\ d = [ValueDelta(e, r, NextCounter(l.counters[r])) EXCEPT
                    !.counters = [s \in Replica |-> @[s] \cup CountersDelta(l, l.keys).counters[s]]]
          /\ K = l.keys /\ A = {e}
    BY <1>6
  <2>2. Updates(d, r, l, e, {n[r] + 1}, l.keys)
    BY <2>1, SetUpdates
  <2>3. PICK E, p : IssuedNow(D, n, E, p, r, e, {n[r] + 1})
    BY <1>1
  <2>4. UpdateStep(D, n, E, p, r, l, d, e, {n[r] + 1}, K)
    BY <1>3, <2>1, <2>2, <2>3 DEF UpdateStep
  <2>5. AddedBy(A, e, {n[r] + 1})
    BY <2>1 DEF AddedBy
  <2> QED
    BY <2>4, <2>5
<1> QED
  BY <1>4, <1>5, <1>6 DEF Change

\* The elements of a container l after it.
ChangedKeys(l, m, K, A) == m.keys = (l.keys \ K) \cup A

\* Replica r changes its copy.
Changes(r, ls, hs, lt, ht, d, K, A) ==
  /\ Change(d, ls[r], r, K, A) /\ SameBut(r, lt, ls) /\ SameBut(r, ht, hs)
  /\ lt[r] = Merge("state", ls[r], d) /\ ht[r] = Merge("delta", hs[r], d)

LEMMA SharedChange ==
  ASSUME NEW ls, NEW hs, NEW gs, NEW ds, NEW m, NEW got, Shared(ls, hs, gs, ds, m, got),
         NEW r \in Replica, NEW d, NEW K, NEW A, NEW lt, NEW ht,
         Changes(r, ls, hs, lt, ht, d, K, A)
  PROVE  /\ Shared(lt, ht, gs, ds, m, got)
         /\ ChangedKeys(ls[r], lt[r], K, A)
<1>0. /\ Change(d, ls[r], r, K, A) /\ SameBut(r, lt, ls) /\ SameBut(r, ht, hs)
      /\ lt[r] = Merge("state", ls[r], d) /\ ht[r] = Merge("delta", hs[r], d)
  BY DEF Changes
<1> USE <1>0
<1>1. PICK D, n, U : Copies(ls, hs, gs, ds, m, got, D, n, U)
  BY DEF Shared
<1>2. /\ Numbers(D, n) /\ Merged(m, got) /\ Covers(U, m, n)
      /\ Keeps(r, ls[r], hs[r], gs[r], SeenBy(U, got[r]), SeenBy(U, m), D, n)
  BY <1>1 DEF Copies
<1>3. /\ ls[r] \in Kernel /\ Within(ls[r], D, UpTo(n))
      /\ n[r] = 0 \/ n[r] \in ls[r].counters[r]
      /\ HoldsOf(r, ls[r], SeenBy(U, got[r]), D, n)
      /\ Accumulates(r, ls[r], hs[r], SeenBy(U, m), D, n)
  BY <1>2 DEF Keeps, HoldsOf
<1>4. PICK E, p, N : \E e \in Key :
        /\ UpdateStep(D, n, E, p, r, ls[r], d, e, N, K)
        /\ AddedBy(A, e, N)
  BY <1>2, <1>3, ChangeUpdates
<1>5. PICK e \in Key :
        /\ UpdateStep(D, n, E, p, r, ls[r], d, e, N, K)
        /\ AddedBy(A, e, N)
  BY <1>4
<1>6. n \in [Replica -> Nat]
  BY <1>2 DEF Numbers
<1>7. Grows(SeenBy(U, m), n) /\ Grows(SeenBy(U, got[r]), SeenBy(U, m))
  BY <1>2, <1>6, SeenGrows
<1>8. Keeps(r, lt[r], ht[r], gs[r], SeenBy(U, got[r]), SeenBy(U, m), E, p)
  BY <1>2, <1>5, <1>7, UpdateKeeps
<1>9. IssuedNow(D, n, E, p, r, e, N)
  BY <1>5 DEF UpdateStep
<1>10. Numbers(E, p) /\ Numbered(n, p, r, N) /\ Extended(D, n, E, p)
  BY <1>2, <1>9, IssuesMore
<1>11. SameBut(r, p, n) /\ SameBut(r, gs, gs)
  BY <1>10 DEF Numbered, SameBut
<1>12. Grows(n, p)
  <2>1. p \in [Replica -> Nat]
    BY <1>10 DEF Numbers
  <2>2. ASSUME NEW s \in Replica
        PROVE  n[s] <= p[s]
    <3>1. n[s] \in Nat /\ n[s] <= n[s]
      BY <1>6
    <3> QED
      BY <1>10, <3>1 DEF Numbered
  <2> QED
    BY <1>6, <2>1, <2>2 DEF Grows
<1>13. Shared(lt, ht, gs, ds, m, got)
  BY <1>1, <1>8, <1>10, <1>11, <1>12, CopiesGrow
<1>14. UpdatedKeys(ls[r], lt[r], e, N, K)
  BY <1>3, <1>5, UpdateKeys
<1> QED
  BY <1>5, <1>13, <1>14 DEF UpdatedKeys, AddedBy, ChangedKeys

\* map::insert makes the copy of replica r, which has none.
Makes(r, ls, hs, gs, lt, gt, f) ==
  /\ ls[r] = EmptyKernel /\ hs[r] = EmptyKernel /\ gs[r] = EmptyKernel
  /\ SameBut(r, lt, ls) /\ SameBut(r, gt, gs)
  /\ lt[r] = Merge("state", EmptyKernel, f) /\ gt[r] = Merge("state", EmptyKernel, f)

LEMMA SharedFill ==
  ASSUME NEW ls, NEW hs, NEW gs, NEW ds, NEW m, NEW got, Shared(ls, hs, gs, ds, m, got),
         NEW r \in Replica, NEW f, NEW j, Fills(r, f, j), NEW lt, NEW gt,
         Makes(r, ls, hs, gs, lt, gt, f)
  PROVE  /\ Shared(lt, hs, gt, ds, m, got)
         /\ ChangedKeys(ls[r], lt[r], {}, f.keys)
<1>0. /\ ls[r] = EmptyKernel /\ hs[r] = EmptyKernel /\ gs[r] = EmptyKernel
      /\ SameBut(r, lt, ls) /\ SameBut(r, gt, gs)
      /\ lt[r] = Merge("state", EmptyKernel, f) /\ gt[r] = Merge("state", EmptyKernel, f)
  BY DEF Makes
<1> USE <1>0
<1>1. PICK D, n, U : Copies(ls, hs, gs, ds, m, got, D, n, U)
  BY DEF Shared
<1>2. /\ Numbers(D, n) /\ Merged(m, got) /\ Covers(U, m, n)
      /\ Keeps(r, EmptyKernel, EmptyKernel, EmptyKernel, SeenBy(U, got[r]), SeenBy(U, m), D, n)
  BY <1>1 DEF Copies
<1>3. n \in [Replica -> Nat] /\ n[r] = 0
  BY <1>2, EmptyWithin DEF Numbers, Keeps, HoldsOf
<1>4. PICK E, p : FillStep(D, n, E, p, r, f, j)
  BY <1>2, <1>3 DEF FillStep
<1>5. Numbers(E, p) /\ Extended(D, n, E, p) /\ p[r] = j
  BY <1>4, FillIssues
<1>6. SameBut(r, p, n)
  BY <1>3, <1>4 DEF SameBut, FillStep
<1>7. Grows(n, p)
  <2>1. p \in [Replica -> Nat] /\ j \in Nat
    BY <1>5 DEF Numbers, Fills
  <2>2. ASSUME NEW s \in Replica
        PROVE  n[s] <= p[s]
    <3>1. n[s] \in Nat /\ n[s] <= n[s]
      BY <1>3
    <3>2. CASE s = r
      BY <1>3, <1>5, <2>1, <3>2
    <3> QED
      BY <1>6, <3>1, <3>2 DEF SameBut
  <2> QED
    BY <1>3, <2>1, <2>2 DEF Grows
<1>8. SameBut(r, hs, hs)
  BY DEF SameBut
<1>9. SeenBy(U, m)[r] = 0
  <2>1. Grows(SeenBy(U, m), n)
    BY <1>2, <1>3, SeenGrows
  <2> QED
    BY <1>3, <2>1 DEF Grows
<1>10. lt[r].keys = f.keys
  BY <1>4, <1>9, FillKeeps
<1>11. Keeps(r, lt[r], hs[r], gt[r], SeenBy(U, got[r]), SeenBy(U, m), E, p)
  BY <1>4, <1>9, FillKeeps
<1>12. Shared(lt, hs, gt, ds, m, got)
  BY <1>1, <1>5, <1>6, <1>7, <1>8, <1>11, CopiesGrow
<1> QED
  BY <1>10, <1>12, EmptyWithin DEF ChangedKeys, EmptyKernel

\* Replica r extracts a delta.
LEMMA SharedExtract ==
  ASSUME NEW ls, NEW hs, NEW gs, NEW ds, NEW m, NEW got, Shared(ls, hs, gs, ds, m, got),
         NEW r \in Replica, NEW ht, NEW gt, SameBut(r, ht, hs), SameBut(r, gt, gs),
         ht[r] = EmptyKernel, gt[r] = EmptyKernel, NEW j, j = m[r] + 1,
         NEW dt, SameBut(r, dt, ds), \A i \in 1 .. m[r] : dt[r][i] = ds[r][i],
         dt[r][j] = Extraction(gs[r], hs[r]), NEW mt, mt = [m EXCEPT ![r] = j]
  PROVE  Shared(ls, ht, gt, dt, mt, got)
<1>1. PICK D, n, U : Copies(ls, hs, gs, ds, m, got, D, n, U)
  BY DEF Shared
<1>2. /\ Numbers(D, n) /\ Merged(m, got) /\ Covers(U, m, n) /\ n \in [Replica -> Nat]
      /\ \A q \in Replica : Keeps(q, ls[q], hs[q], gs[q], SeenBy(U, got[q]), SeenBy(U, m), D, n)
      /\ \A s \in Replica : \A i \in 1 .. m[s] :
           SentOk(s, ds[s][i], U[s][i - 1], U[s][i], SeenBy(U, m), D, n)
  BY <1>1 DEF Copies, Numbers
<1> DEFINE V == [s \in Replica |-> [i \in 0 .. mt[s] |-> IF s = r /\ i = j THEN n[r] ELSE U[s][i]]]
<1>3. /\ m \in [Replica -> Nat] /\ mt \in [Replica -> Nat] /\ j \in Nat /\ mt[r] = j /\ m[r] < j
      /\ \A s \in Replica \ {r} : mt[s] = m[s]
  BY <1>2 DEF Merged
<1>4. /\ \A s \in Replica : \A i \in 0 .. m[s] : V[s][i] = U[s][i]
      /\ V[r][j] = n[r]
  <2>1. ASSUME NEW s \in Replica, NEW i \in 0 .. m[s]
        PROVE  i \in 0 .. mt[s] /\ ~(s = r /\ i = j)
    <3>1. CASE s = r
      BY <1>3, <3>1
    <3> QED
      BY <1>3, <3>1
  <2>2. j \in 0 .. mt[r]
    BY <1>3
  <2> QED
    BY <2>1, <2>2
<1> HIDE DEF V
<1>5. Merged(mt, got)
  <2>1. ASSUME NEW q \in Replica, NEW s \in Replica
        PROVE  got[q][s] <= mt[s]
    <3>1. got[q][s] \in Nat /\ got[q][s] <= m[s] /\ m[s] \in Nat
      BY <1>2 DEF Merged
    <3>2. mt[s] \in Nat /\ m[s] <= mt[s]
      <4>1. CASE s = r
        BY <1>3, <4>1
      <4> QED
        BY <1>3, <3>1, <4>1
    <3> QED
      BY <3>1, <3>2
  <2> QED
    BY <1>2, <1>3, <2>1 DEF Merged
<1>6. Covers(V, mt, n)
  <2> SUFFICES ASSUME NEW s \in Replica
               PROVE  /\ \A i \in 0 .. mt[s] : V[s][i] \in Nat /\ V[s][i] <= n[s]
                      /\ V[s][0] = 0
                      /\ \A i, k \in 0 .. mt[s] : i <= k => V[s][i] <= V[s][k]
    BY DEF Covers
  <2>1. /\ \A i \in 0 .. m[s] : V[s][i] \in Nat /\ V[s][i] <= n[s]
        /\ V[s][0] = 0
        /\ \A i, k \in 0 .. m[s] : i <= k => V[s][i] <= V[s][k]
    <3>1. 0 \in 0 .. m[s]
      BY <1>3
    <3> QED
      BY <1>2, <1>4, <3>1 DEF Covers
  <2>2. CASE s # r
    BY <1>3, <2>1, <2>2
  <2>3. CASE s = r
    <3>1. \A i \in 0 .. mt[s] : i \in 0 .. m[s] \/ i = j
      BY <1>3, <2>3
    <3>2. \A i \in 0 .. m[s] : i < j
      BY <1>3, <2>3
    <3>3. n[s] \in Nat /\ V[s][j] = n[s] /\ j \in Nat /\ \A i \in 0 .. m[s] : i \in Nat
      BY <1>2, <1>3, <1>4, <2>3
    <3>4. \A i \in 0 .. mt[s] : V[s][i] \in Nat /\ V[s][i] <= n[s]
      BY <2>1, <3>1, <3>3
    <3>5. ASSUME NEW i \in 0 .. mt[s], NEW k \in 0 .. mt[s], i <= k
          PROVE  V[s][i] <= V[s][k]
      <4>1. CASE k = j
        BY <3>3, <3>4, <4>1
      <4>2. CASE k # j
        <5>1. k \in 0 .. m[s] /\ i # j
          BY <3>1, <3>2, <3>3, <3>5, <4>2
        <5>2. i \in 0 .. m[s]
          BY <3>1, <5>1
        <5> QED
          BY <2>1, <3>5, <5>1, <5>2
      <4> QED
        BY <4>1, <4>2
    <3> QED
      BY <2>1, <3>4, <3>5
  <2> QED
    BY <2>2, <2>3
<1>7. /\ SeenBy(V, mt)[r] = n[r] /\ SeenBy(U, m)[r] = U[r][m[r]]
      /\ \A s \in Replica \ {r} : SeenBy(V, mt)[s] = SeenBy(U, m)[s]
  <2>1. \A s \in Replica : m[s] \in 0 .. m[s]
    BY <1>3
  <2> QED
    BY <1>3, <1>4, <2>1 DEF SeenBy
<1>8. Grows(SeenBy(U, m), n)
  BY <1>2, SeenGrows
<1>9. Grows(SeenBy(U, m), SeenBy(V, mt))
  <2>1. SeenBy(V, mt) \in [Replica -> Nat]
    <3>1. \A s \in Replica : V[s][mt[s]] \in Nat
      <4>1. \A s \in Replica : mt[s] \in 0 .. mt[s]
        BY <1>3
      <4> QED
        BY <1>6, <4>1 DEF Covers
    <3> QED
      BY <3>1 DEF SeenBy
  <2>2. ASSUME NEW s \in Replica
        PROVE  SeenBy(U, m)[s] <= SeenBy(V, mt)[s]
    <3>1. SeenBy(U, m)[s] \in Nat /\ SeenBy(U, m)[s] <= n[s]
      BY <1>8 DEF Grows
    <3>2. SeenBy(U, m)[s] <= SeenBy(U, m)[s]
      BY <3>1
    <3> QED
      BY <1>7, <3>1, <3>2
  <2> QED
    BY <1>8, <2>1, <2>2 DEF Grows
<1>10. Extended(D, n, D, n)
  BY DEF Extended
<1>11. ASSUME NEW q \in Replica
       PROVE  Keeps(q, ls[q], ht[q], gt[q], SeenBy(V, got[q]), SeenBy(V, mt), D, n)
  <2>1. SeenBy(V, got[q]) = SeenBy(U, got[q])
    <3>1. \A s \in Replica : got[q][s] \in 0 .. m[s]
      BY <1>2 DEF Merged
    <3>2. \A s \in Replica : V[s][got[q][s]] = U[s][got[q][s]]
      BY <1>4, <3>1
    <3> QED
      BY <3>2 DEF SeenBy
  <2>2. CASE q = r
    <3>1. Keeps(r, ls[r], EmptyKernel, EmptyKernel, SeenBy(U, got[r]), SeenBy(V, mt), D, n)
      BY <1>2, <1>9, ExtractKept
    <3> QED
      BY <2>1, <2>2, <3>1
  <2>3. CASE q # r
    <3>1. ht[q] = hs[q] /\ gt[q] = gs[q] /\ SeenBy(V, mt)[q] = SeenBy(U, m)[q]
      BY <1>7, <2>3 DEF SameBut
    <3>2. Keeps(q, ls[q], hs[q], gs[q], SeenBy(U, got[q]), SeenBy(U, m), D, n)
      BY <1>2
    <3>3. Keeps(q, ls[q], hs[q], gs[q], SeenBy(U, got[q]), SeenBy(V, mt), D, n)
      BY <1>9, <1>10, <3>1, <3>2, KeepsKept
    <3> QED
      BY <2>1, <3>1, <3>3
  <2> QED
    BY <2>2, <2>3
<1>12. ASSUME NEW s \in Replica, NEW i \in 1 .. mt[s]
       PROVE  SentOk(s, dt[s][i], V[s][i - 1], V[s][i], SeenBy(V, mt), D, n)
  <2>1. CASE i \in 1 .. m[s]
    <3>1. i \in 0 .. m[s] /\ i - 1 \in 0 .. m[s]
      BY <1>3, <2>1
    <3>2. dt[s][i] = ds[s][i]
      BY <2>1 DEF SameBut
    <3>3. SentOk(s, ds[s][i], U[s][i - 1], U[s][i], SeenBy(U, m), D, n)
      BY <1>2, <2>1
    <3>4. SentOk(s, ds[s][i], U[s][i - 1], U[s][i], SeenBy(V, mt), D, n)
      BY <1>9, <1>10, <3>3, SentKept
    <3> QED
      BY <1>4, <3>1, <3>2, <3>4
  <2>2. CASE i \notin 1 .. m[s]
    <3>1. s = r
      BY <1>3, <2>2
    <3>2. i = j /\ i - 1 = m[r] /\ m[r] \in 0 .. m[r]
      BY <1>3, <2>2, <3>1
    <3>3. Keeps(r, ls[r], hs[r], gs[r], SeenBy(U, got[r]), SeenBy(U, m), D, n)
      BY <1>2
    <3>4. SentOk(r, dt[r][j], SeenBy(U, m)[r], n[r], SeenBy(U, m), D, n)
      BY <1>2, <3>3, ExtractSent
    <3>5. SentOk(r, dt[r][j], SeenBy(U, m)[r], n[r], SeenBy(V, mt), D, n)
      BY <1>9, <1>10, <3>4, SentKept
    <3> QED
      BY <1>4, <1>7, <3>1, <3>2, <3>5
  <2> QED
    BY <2>1, <2>2
<1>13. Copies(ls, ht, gt, dt, mt, got, D, n, V)
  BY <1>2, <1>5, <1>6, <1>11, <1>12 DEF Copies
<1> QED
  BY <1>13 DEF Shared

\* Replica r merges the next delta of replica s.
Receives(r, s, j, ls, lt, ds, m, got, gott) ==
  /\ r # s /\ j = got[r][s] + 1 /\ j <= m[s] /\ gott = [got EXCEPT ![r][s] = j]
  /\ SameBut(r, lt, ls) /\ lt[r] = Merge("state", ls[r], ds[s][j])

LEMMA SharedDeliver ==
  ASSUME NEW ls, NEW hs, NEW gs, NEW ds, NEW m, NEW got, Shared(ls, hs, gs, ds, m, got),
         NEW r \in Replica, NEW s \in Replica, NEW j, NEW lt, NEW gott,
         Receives(r, s, j, ls, lt, ds, m, got, gott)
  PROVE  Shared(lt, hs, gs, ds, m, gott) /\ Shows(ls[r], ds[s][j], lt[r])
<1>a. j = got[r][s] + 1 /\ j <= m[s] /\ gott = [got EXCEPT ![r][s] = j]
  BY DEF Receives
<1>b. r # s
  BY DEF Receives
<1>c. lt[r] = Merge("state", ls[r], ds[s][j])
  BY DEF Receives
<1>d. SameBut(r, lt, ls)
  BY DEF Receives
<1> USE <1>a, <1>b, <1>c, <1>d
<1>1. PICK D, n, U : Copies(ls, hs, gs, ds, m, got, D, n, U)
  BY DEF Shared
<1>2. /\ Numbers(D, n) /\ Merged(m, got) /\ Covers(U, m, n) /\ n \in [Replica -> Nat]
      /\ \A q \in Replica : Keeps(q, ls[q], hs[q], gs[q], SeenBy(U, got[q]), SeenBy(U, m), D, n)
      /\ \A t \in Replica : \A i \in 1 .. m[t] :
           SentOk(t, ds[t][i], U[t][i - 1], U[t][i], SeenBy(U, m), D, n)
  BY <1>1 DEF Copies, Numbers
<1>3. /\ got[r][s] \in Nat /\ m[s] \in Nat /\ j \in 1 .. m[s] /\ j - 1 = got[r][s]
      /\ j \in 0 .. m[s] /\ got[r][s] \in 0 .. m[s] /\ got[r][s] <= j
  <2>1. got[r][s] \in Nat /\ m[s] \in Nat
    BY <1>2 DEF Merged
  <2> QED
    BY <2>1
<1>4. Merged(m, gott)
  <2>1. gott \in [Replica -> [Replica -> Nat]]
    BY <1>2, <1>3 DEF Merged
  <2>2. \A q, t \in Replica : gott[q][t] = IF q = r /\ t = s THEN j ELSE got[q][t]
    BY <1>2 DEF Merged
  <2> QED
    BY <1>2, <1>3, <2>1, <2>2 DEF Merged
<1>5. /\ Grows(SeenBy(U, m), n) /\ Grows(SeenBy(U, got[r]), SeenBy(U, m))
  BY <1>2, SeenGrows
<1>6. /\ U[s][got[r][s]] \in Nat /\ U[s][j] \in Nat /\ U[s][got[r][s]] <= U[s][j]
  BY <1>2, <1>3 DEF Covers
<1>7. SentOk(s, ds[s][j], U[s][got[r][s]], U[s][j], SeenBy(U, m), D, n)
  BY <1>2, <1>3
<1>8. SeenBy(U, gott[r]) = [SeenBy(U, got[r]) EXCEPT ![s] = U[s][j]]
  <2>1. gott[r] = [got[r] EXCEPT ![s] = j]
    BY <1>2 DEF Merged
  <2>2. got[r] \in [Replica -> Nat]
    BY <1>2 DEF Merged
  <2>3. \A t \in Replica : U[t][gott[r][t]] = IF t = s THEN U[s][j] ELSE U[t][got[r][t]]
    BY <2>1, <2>2
  <2> QED
    BY <2>3 DEF SeenBy
<1>9. SeenBy(U, got[r])[s] <= U[s][got[r][s]]
  BY <1>6 DEF SeenBy
<1>10. SeenBy(U, m) \in [Replica -> Nat] /\ SeenBy(U, got[r]) \in [Replica -> Nat]
  BY <1>5 DEF Grows
<1>11. Keeps(r, ls[r], hs[r], gs[r], SeenBy(U, got[r]), SeenBy(U, m), D, n)
  BY <1>2
<1>12. /\ Keeps(r, lt[r], hs[r], gs[r], SeenBy(U, gott[r]), SeenBy(U, m), D, n)
       /\ Shows(ls[r], ds[s][j], lt[r])
  <2>1. Brings(D, n, r, s, SeenBy(U, m), SeenBy(U, got[r]), SeenBy(U, gott[r]), ds[s][j],
               U[s][got[r][s]], U[s][j], ls[r], lt[r])
    BY <1>2, <1>6, <1>7, <1>8, <1>9, <1>10 DEF Brings
  <2> QED
    BY <1>11, <2>1, DeliverKeeps
<1>13. ASSUME NEW q \in Replica
       PROVE  Keeps(q, lt[q], hs[q], gs[q], SeenBy(U, gott[q]), SeenBy(U, m), D, n)
  <2>1. CASE q = r
    BY <1>12, <2>1
  <2>2. CASE q # r
    <3>1. lt[q] = ls[q] /\ gott[q] = got[q]
      BY <1>2, <2>2 DEF SameBut, Merged
    <3> QED
      BY <1>2, <3>1
  <2> QED
    BY <2>1, <2>2
<1>14. Copies(lt, hs, gs, ds, m, gott, D, n, U)
  BY <1>2, <1>4, <1>13 DEF Copies
<1> QED
  BY <1>12, <1>14 DEF Shared

\* The copies are sound.
LEMMA SharedSound ==
  ASSUME NEW ls, NEW hs, NEW gs, NEW ds, NEW m, NEW got, Shared(ls, hs, gs, ds, m, got)
  PROVE  /\ \A r \in Replica : Linked(ls[r]) /\ Linked(hs[r]) /\ Linked(gs[r]) /\ Part(hs[r], ls[r])
         /\ \A s \in Replica : \A i \in 1 .. m[s] : Linked(ds[s][i])
<1>1. PICK D, n, U : Copies(ls, hs, gs, ds, m, got, D, n, U)
  BY DEF Shared
<1>2. ASSUME NEW r \in Replica
      PROVE  Linked(ls[r]) /\ Linked(hs[r]) /\ Linked(gs[r]) /\ Part(hs[r], ls[r])
  <2>1. Keeps(r, ls[r], hs[r], gs[r], SeenBy(U, got[r]), SeenBy(U, m), D, n)
    BY <1>1 DEF Copies
  <2> QED
    BY <2>1 DEF Keeps, HoldsOf, Accumulates, BroughtTo, Part
<1>3. ASSUME NEW s \in Replica, NEW i \in 1 .. m[s]
      PROVE  Linked(ds[s][i])
  <2>1. SentOk(s, ds[s][i], U[s][i - 1], U[s][i], SeenBy(U, m), D, n)
    BY <1>1 DEF Copies
  <2> QED
    BY <2>1 DEF SentOk
<1> QED
  BY <1>2, <1>3

-----------------------------------------------------------------------------
(***************************************************************************)
(* One replica w changes a container, and sends each change by itself.     *)
(***************************************************************************)

\* v is a copy of the container l of w that has merged every delta of it.
Follows(w, l, v) == \E D, n :
  /\ Numbers(D, n) /\ \A t \in Replica \ {w} : n[t] = 0
  /\ Keeps(w, l, EmptyKernel, EmptyKernel, [t \in Replica |-> 0], n, D, n)
  /\ \A t \in Replica \ {w} : Keeps(t, v, EmptyKernel, EmptyKernel, n, n, D, n)

LEMMA FollowsEmpty ==
  ASSUME NEW w \in Replica
  PROVE  Follows(w, EmptyKernel, EmptyKernel)
<1> DEFINE n == [s \in Replica |-> 0]
           D == [k \in Key |-> [s \in Replica |-> {}]]
<1>1. Numbers(D, n)
  BY DEF Numbers, Apart
<1>2. \A s \in Replica : n[s] = 0
  OBVIOUS
<1> HIDE DEF D, n
<1>3. ASSUME NEW t \in Replica, NEW c
      PROVE  Keeps(t, EmptyKernel, EmptyKernel, EmptyKernel, c, n, D, n)
  <2>1. \A T : HeadedIn({}, T)
    BY DEF HeadedIn
  <2>2. /\ EmptyKernel \in Kernel /\ Linked(EmptyKernel) /\ Within(EmptyKernel, D, UpTo(n))
        /\ \A k \in Key : \A s \in Replica : EmptyKernel.dots[k][s] = {}
        /\ \A s \in Replica : EmptyKernel.counters[s] = {}
    BY EmptyWithin, EmptyKernelType
  <2>3. HoldsOf(t, EmptyKernel, c, D, n)
    BY <1>2, <2>2 DEF HoldsOf
  <2>4. Accumulates(t, EmptyKernel, EmptyKernel, n, D, n)
    BY <2>1, <2>2 DEF Accumulates
  <2>5. BroughtTo(t, EmptyKernel, EmptyKernel, n, D, n)
    BY <2>2 DEF BroughtTo
  <2> QED
    BY <2>3, <2>4, <2>5 DEF Keeps
<1> QED
  BY <1>1, <1>2, <1>3 DEF Follows

\* The readers merge what w has extracted, the hook h and what came with g, when it has
\* issued the dots up to p.
Fetches(w, l, h, g, D, n, E, p) ==
  /\ Numbers(D, n) /\ Numbers(E, p) /\ Extended(D, n, E, p) /\ Grows(n, p)
  /\ \A t \in Replica \ {w} : n[t] = 0 /\ p[t] = 0
  /\ Keeps(w, l, h, g, [t \in Replica |-> 0], n, E, p)

LEMMA FetchesFollows ==
  ASSUME NEW w \in Replica, NEW l, NEW h, NEW g, NEW D, NEW n, NEW E, NEW p,
         Fetches(w, l, h, g, D, n, E, p),
         NEW v, \A t \in Replica \ {w} : Keeps(t, v, EmptyKernel, EmptyKernel, n, n, D, n),
         NEW x, x = Extraction(g, h), NEW y, y = Merge("state", v, x)
  PROVE  /\ Follows(w, l, y) /\ Linked(x) /\ Linked(h) /\ Linked(g) /\ Part(h, l)
         /\ \A t \in Replica \ {w} : x.keys \subseteq y.keys
<1>1. /\ Numbers(D, n) /\ Numbers(E, p) /\ Extended(D, n, E, p) /\ Grows(n, p) /\ Grows(n, n)
      /\ n \in [Replica -> Nat] /\ p \in [Replica -> Nat] /\ Extended(E, p, E, p)
      /\ \A t \in Replica \ {w} : n[t] = 0 /\ p[t] = 0
      /\ Keeps(w, l, h, g, [t \in Replica |-> 0], n, E, p)
  BY DEF Fetches, Grows, Numbers, Extended
<1>2. SentOk(w, x, n[w], p[w], n, E, p)
  BY <1>1, ExtractSent
<1>3. /\ Linked(x) /\ Linked(h) /\ Linked(g) /\ Part(h, l)
  BY <1>1, <1>2 DEF SentOk, Keeps, Accumulates, BroughtTo, Part
<1>4. Keeps(w, l, EmptyKernel, EmptyKernel, [t \in Replica |-> 0], p, E, p)
  BY <1>1, ExtractKept
<1>5. ASSUME NEW t \in Replica \ {w}
      PROVE  Keeps(t, y, EmptyKernel, EmptyKernel, p, p, E, p) /\ x.keys \subseteq y.keys
  <2>1. Keeps(t, v, EmptyKernel, EmptyKernel, n, n, D, n) /\ n[t] = p[t]
    BY <1>1
  <2>2. Keeps(t, v, EmptyKernel, EmptyKernel, n, n, E, p)
    BY <1>1, <2>1, KeepsKept
  <2>3. p = [n EXCEPT ![w] = p[w]]
    <3>1. \A s \in Replica : p[s] = [n EXCEPT ![w] = p[w]][s]
      BY <1>1
    <3> QED
      BY <1>1, <3>1
  <2>4. n[w] \in Nat /\ p[w] \in Nat /\ n[w] <= n[w] /\ n[w] <= p[w] /\ t # w /\ t \in Replica
    BY <1>1 DEF Grows
  <2>5. Brings(E, p, t, w, n, n, p, x, n[w], p[w], v, y)
    BY <1>1, <1>2, <2>3, <2>4 DEF Brings
  <2>6. Keeps(t, y, EmptyKernel, EmptyKernel, p, n, E, p) /\ Shows(v, x, y)
    BY <2>2, <2>5, DeliverKeeps
  <2>7. Keeps(t, y, EmptyKernel, EmptyKernel, p, p, E, p)
    BY <1>1, <2>1, <2>6, KeepsKept
  <2> QED
    BY <2>6, <2>7 DEF Shows
<1> QED
  BY <1>1, <1>3, <1>4, <1>5 DEF Follows

\* y will follow m, w's container, when it has merged x, in which are the hooks h and g.
Followed(w, m, y, h, g, x) ==
  /\ Follows(w, m, y)
  /\ Linked(x) /\ Linked(h) /\ Linked(g) /\ Part(h, m)
  /\ \A t \in Replica \ {w} : x.keys \subseteq y.keys

\* The hook is empty.
LEMMA FollowedStill ==
  ASSUME NEW w \in Replica, NEW l, NEW v, Follows(w, l, v)
  PROVE  Followed(w, l, v, EmptyKernel, EmptyKernel, EmptyKernel)
<1>1. Linked(EmptyKernel) /\ EmptyKernel.keys = {}
  BY EmptyWithin DEF EmptyKernel
<1>2. \A k \in Key : \A s \in Replica : EmptyKernel.dots[k][s] = {}
  BY DEF EmptyKernel, NoDots
<1> QED
  BY <1>1, <1>2 DEF Followed, Part

\* The container l is changed by d to m, its hook is h then, and x is extracted, which makes
\* the copy v to y.
AfterChange(l, v, d, m, h, x, y) ==
  /\ m = Merge("state", l, d) /\ h = Merge("delta", EmptyKernel, d)
  /\ x = Extraction(EmptyKernel, h) /\ y = Merge("state", v, x)

\* Replica w changes the container.
LEMMA FollowsChange ==
  ASSUME NEW w \in Replica, NEW l, NEW v, Follows(w, l, v),
         NEW d, NEW K, NEW A, Change(d, l, w, K, A),
         NEW m, NEW h, NEW x, NEW y, AfterChange(l, v, d, m, h, x, y)
  PROVE  Followed(w, m, y, h, EmptyKernel, x) /\ ChangedKeys(l, m, K, A)
<1>a. m = Merge("state", l, d)
  BY DEF AfterChange
<1>b. h = Merge("delta", EmptyKernel, d)
  BY DEF AfterChange
<1>c. x = Extraction(EmptyKernel, h)
  BY DEF AfterChange
<1>d. y = Merge("state", v, x)
  BY DEF AfterChange
<1> USE <1>a, <1>b, <1>c, <1>d
<1> DEFINE none == [t \in Replica |-> 0]
<1>1. PICK D, n :
        /\ Numbers(D, n) /\ \A t \in Replica \ {w} : n[t] = 0
        /\ Keeps(w, l, EmptyKernel, EmptyKernel, none, n, D, n)
        /\ \A t \in Replica \ {w} : Keeps(t, v, EmptyKernel, EmptyKernel, n, n, D, n)
  BY DEF Follows
<1>2. n \in [Replica -> Nat] /\ none \in [Replica -> Nat] /\ Grows(n, n) /\ Grows(none, n)
  BY <1>1 DEF Numbers, Grows
<1> HIDE DEF none
<1>3. /\ l \in Kernel /\ Within(l, D, UpTo(n))
      /\ n[w] = 0 \/ n[w] \in l.counters[w]
      /\ HoldsOf(w, l, none, D, n)
  BY <1>1 DEF Keeps, HoldsOf
<1>4. PICK E, p, N : \E e \in Key :
        /\ UpdateStep(D, n, E, p, w, l, d, e, N, K)
        /\ AddedBy(A, e, N)
  BY <1>1, <1>3, ChangeUpdates
<1>5. PICK e \in Key : UpdateStep(D, n, E, p, w, l, d, e, N, K) /\ AddedBy(A, e, N)
  BY <1>4
<1>6. Keeps(w, m, h, EmptyKernel, none, n, E, p)
  BY <1>1, <1>2, <1>5, UpdateKeeps
<1>7. IssuedNow(D, n, E, p, w, e, N)
  BY <1>5 DEF UpdateStep
<1>8. Numbers(E, p) /\ Numbered(n, p, w, N) /\ Extended(D, n, E, p)
  BY <1>1, <1>7, IssuesMore
<1>9. Grows(n, p)
  <2>1. p \in [Replica -> Nat]
    BY <1>8 DEF Numbers
  <2>2. ASSUME NEW s \in Replica
        PROVE  n[s] <= p[s]
    <3>1. n[s] \in Nat /\ n[s] <= n[s]
      BY <1>2
    <3> QED
      BY <1>8, <3>1 DEF Numbered
  <2> QED
    BY <1>2, <2>1, <2>2 DEF Grows
<1>10. Fetches(w, m, h, EmptyKernel, D, n, E, p)
  BY <1>1, <1>6, <1>8, <1>9 DEF Fetches, Numbered, none
<1>11. UpdatedKeys(l, m, e, N, K)
  BY <1>3, <1>5, UpdateKeys
<1>12. m.keys = (l.keys \ K) \cup A
  BY <1>5, <1>11 DEF UpdatedKeys, AddedBy
<1>13. /\ Follows(w, m, y) /\ Linked(x) /\ Linked(h) /\ Part(h, m)
       /\ \A t \in Replica \ {w} : x.keys \subseteq y.keys
  BY <1>1, <1>10, FetchesFollows
<1> QED
  BY <1>12, <1>13, EmptyWithin DEF Followed, ChangedKeys

\* The container m comes as f, and x is extracted, which becomes the copy y.
AfterFill(f, m, x, y) ==
  /\ m = Merge("state", EmptyKernel, f)
  /\ x = Extraction(m, EmptyKernel) /\ y = Merge("state", EmptyKernel, x)

\* Replica w makes the container.
LEMMA FollowsFill ==
  ASSUME NEW w \in Replica, NEW f, NEW j, Fills(w, f, j),
         NEW m, NEW x, NEW y, AfterFill(f, m, x, y)
  PROVE  Followed(w, m, y, EmptyKernel, m, x) /\ m.keys = f.keys
<1>a. m = Merge("state", EmptyKernel, f)
  BY DEF AfterFill
<1>b. x = Extraction(m, EmptyKernel)
  BY DEF AfterFill
<1>c. y = Merge("state", EmptyKernel, x)
  BY DEF AfterFill
<1> USE <1>a, <1>b, <1>c
<1> DEFINE none == [t \in Replica |-> 0]
<1>1. PICK D, n :
        /\ Numbers(D, n) /\ \A t \in Replica \ {w} : n[t] = 0
        /\ Keeps(w, EmptyKernel, EmptyKernel, EmptyKernel, none, n, D, n)
        /\ \A t \in Replica \ {w} : Keeps(t, EmptyKernel, EmptyKernel, EmptyKernel, n, n, D, n)
  BY FollowsEmpty DEF Follows
<1>2. n \in [Replica -> Nat] /\ n[w] = 0
  BY <1>1, EmptyWithin DEF Numbers, Keeps, HoldsOf
<1>3. PICK E, p : FillStep(D, n, E, p, w, f, j)
  BY <1>1, <1>2 DEF FillStep
<1>4. Numbers(E, p) /\ Extended(D, n, E, p) /\ p[w] = j
  BY <1>3, FillIssues
<1>5. m.keys = f.keys
  BY <1>2, <1>3, FillKeeps
<1>6. Keeps(w, m, EmptyKernel, m, none, n, E, p)
  BY <1>2, <1>3, FillKeeps
<1>7. \A t \in Replica \ {w} : p[t] = n[t]
  BY <1>2, <1>3 DEF FillStep
<1>8. Grows(n, p)
  <2>1. p \in [Replica -> Nat]
    BY <1>4 DEF Numbers
  <2>2. ASSUME NEW s \in Replica
        PROVE  n[s] <= p[s]
    <3>1. n[s] = 0 /\ p[s] \in Nat
      BY <1>1, <1>2, <2>1
    <3> QED
      BY <3>1
  <2> QED
    BY <1>2, <2>1, <2>2 DEF Grows
<1>9. Fetches(w, m, EmptyKernel, m, D, n, E, p)
  BY <1>1, <1>4, <1>6, <1>7, <1>8 DEF Fetches
<1>10. /\ Follows(w, m, y) /\ Linked(x) /\ Linked(m)
       /\ \A t \in Replica \ {w} : x.keys \subseteq y.keys
  BY <1>1, <1>9, FetchesFollows
<1>11. Linked(EmptyKernel) /\ Part(EmptyKernel, m)
  BY EmptyWithin DEF Part, EmptyKernel, NoDots
<1> QED
  BY <1>5, <1>10, <1>11 DEF Followed

\* The copies are linked.
LEMMA FollowsLinked ==
  ASSUME NEW w \in Replica, NEW l, NEW v, Follows(w, l, v)
  PROVE  Linked(l) /\ \A t \in Replica \ {w} : Linked(v)
BY DEF Follows, Keeps, HoldsOf

\* v has the dots of l, and an element has one dot, of w.
Mirrors(w, l, v) ==
  \A k \in Key :
    /\ \A s \in Replica : v.dots[k][s] = l.dots[k][s]
    /\ \A s \in Replica \ {w} : l.dots[k][s] = {}
    /\ l.dots[k][w] = {} \/ \E x \in Nat : l.dots[k][w] = {x}

LEMMA CollapseSingle ==
  ASSUME NEW S, S = {} \/ \E x \in Nat : S = {x}
  PROVE  CountersMerge("state", {}, S) = S /\ HeadedIn(S, S)
<1>1. \A x \in Nat : x + 1 # x /\ x <= x
  OBVIOUS
<1>2. \A x \in Nat : Collapse({x}) = {x}
  BY <1>1 DEF Collapse
<1> QED
  BY <1>1, <1>2 DEF CountersMerge, Succeeds, HeadedIn

\* A step that gives e the dots N instead of those it has, all of them.
Replaces(D, n, E, p, w, l, d, e, N, K) ==
  /\ UpdateStep(D, n, E, p, w, l, d, e, N, K) /\ K \subseteq {e}
  /\ \A s \in Replica : ClearedOf(l, K, s) = l.dots[e][s]
  /\ N = {} \/ ClearedOf(l, K, w) = {}

\* At most one dot.
Single(S) == S = {} \/ \E x \in Nat : S = {x}

Singles(l) == \A k \in Key : \A s \in Replica : Single(l.dots[k][s])

\* The container l of w becomes m, in which e has the dots N and no other, and x says so.
SentAlone(w, l, m, x, e, N) == \A s \in Replica :
  /\ \A k \in Key :
       /\ m.dots[k][s] = IF k = e THEN IF s = w THEN N ELSE {} ELSE l.dots[k][s]
       /\ x.dots[k][s] = IF k = e /\ s = w THEN N ELSE {}
  /\ Valueless(x, s) = l.dots[e][s]

\* The delta of a single update.
LEMMA UpdateAlone ==
  ASSUME NEW w \in Replica, NEW l \in Kernel, Linked(l), Singles(l), NEW D, NEW n,
         Within(l, D, UpTo(n)), NEW E, NEW p, NEW e \in Key, NEW N, NEW K, NEW d,
         Replaces(D, n, E, p, w, l, d, e, N, K),
         NEW m, m = Merge("state", l, d), NEW h, h = Merge("delta", EmptyKernel, d),
         NEW x, x = Extraction(EmptyKernel, h)
  PROVE  /\ SentAlone(w, l, m, x, e, N)
         /\ x \in Kernel /\ Linked(x) /\ Within(x, E, UpTo(p))
         /\ Single(N) /\ (N = {} \/ l.dots[e][w] = {}) /\ N \subseteq n[w] + 1 .. p[w]
<1>1. /\ Numbers(D, n) /\ IssuedNow(D, n, E, p, w, e, N) /\ K \in SUBSET Key
      /\ Updates(d, w, l, e, N, K) /\ K \subseteq {e}
      /\ \A s \in Replica : ClearedOf(l, K, s) = l.dots[e][s]
      /\ N = {} \/ ClearedOf(l, K, w) = {}
  BY DEF UpdateStep, Replaces
<1>2. /\ Numbers(E, p) /\ Apart(E) /\ Extended(D, n, E, p) /\ Numbered(n, p, w, N)
  <2>1. Numbers(E, p) /\ Extended(D, n, E, p) /\ Numbered(n, p, w, N)
    BY <1>1, IssuesMore
  <2> QED
    BY <2>1 DEF Numbers
<1>3. Part(l, l)
  BY DEF Part
<1>4. /\ EmptyKernel \in Kernel /\ Linked(EmptyKernel) /\ Within(EmptyKernel, D, UpTo(n))
      /\ Part(EmptyKernel, l)
      /\ \A k \in Key : \A s \in Replica : EmptyKernel.dots[k][s] = {}
      /\ \A s \in Replica : EmptyKernel.counters[s] = {}
  BY EmptyWithin, EmptyKernelType DEF Part
<1>5. UpdatedDots("state", l, m, w, e, N, K)
  BY <1>1, <1>3, UpdateMerged
<1>6. /\ h \in Kernel /\ Linked(h) /\ Within(h, E, UpTo(p))
      /\ UpdatedDots("delta", EmptyKernel, h, w, e, N, K)
  BY <1>1, <1>3, <1>4, UpdateMerged
<1>7. (N = {} \/ \E a \in Nat : N = {a}) /\ N \in SUBSET Nat
  BY <1>2 DEF Numbered
<1>8. CountersMerge("state", {}, N) = N /\ CountersMerge("delta", {}, N) = N /\ HeadedIn(N, N)
  BY <1>7, CollapseSingle DEF CountersMerge, Succeeds
<1>9. e \notin K => \A s \in Replica : l.dots[e][s] = {}
  BY <1>1 DEF ClearedOf
<1>10. \A k \in Key : \A s \in Replica :
         m.dots[k][s] = IF k = e THEN IF s = w THEN N ELSE {} ELSE l.dots[k][s]
  <2> SUFFICES ASSUME NEW k \in Key, NEW s \in Replica
               PROVE  m.dots[k][s] = IF k = e THEN IF s = w THEN N ELSE {} ELSE l.dots[k][s]
    OBVIOUS
  <2>1. CASE k # e
    BY <1>1, <1>5, <2>1 DEF UpdatedDots
  <2>2. CASE k = e /\ s # w
    BY <1>1, <1>5, <1>9, <2>2 DEF UpdatedDots
  <2>3. CASE k = e /\ s = w /\ k \in K
    BY <1>5, <2>3 DEF UpdatedDots
  <2>4. CASE k = e /\ s = w /\ k \notin K
    <3>1. l.dots[e][w] = {}
      BY <1>9, <2>4
    <3>2. m.dots[k][s] = CountersMerge("state", l.dots[e][w], N)
      BY <1>5, <2>4 DEF UpdatedDots
    <3> QED
      BY <1>8, <2>4, <3>1, <3>2
  <2> QED
    BY <2>1, <2>2, <2>3, <2>4
<1>11. \A k \in Key : \A s \in Replica : h.dots[k][s] = IF k = e /\ s = w THEN N ELSE {}
  BY <1>4, <1>6, <1>8 DEF UpdatedDots
<1>12. \A s \in Replica : h.counters[s] = l.dots[e][s] \cup (IF s = w THEN N ELSE {})
  <2> SUFFICES ASSUME NEW s \in Replica
               PROVE  h.counters[s] = l.dots[e][s] \cup (IF s = w THEN N ELSE {})
    OBVIOUS
  <2>1. h.counters[s] = CountersMerge("delta", {}, d.counters[s])
    <3>1. h.counters[s] = CountersMerge("delta", EmptyKernel.counters[s], d.counters[s])
      BY MergeCounters
    <3> QED
      BY <1>4, <3>1
  <2>2. CountersMerge("delta", {}, d.counters[s]) = d.counters[s]
    BY DEF CountersMerge, Succeeds
  <2>3. CASE s = w
    BY <1>1, <2>1, <2>2, <2>3 DEF Updates
  <2>4. CASE s # w
    BY <1>1, <2>1, <2>2, <2>4 DEF Updates
  <2> QED
    BY <2>3, <2>4
<1>13. \A s \in Replica : Single(h.counters[s])
  <2>1. N = {} \/ l.dots[e][w] = {}
    BY <1>1
  <2>2. \A s \in Replica : Single(l.dots[e][s])
    BY DEF Singles
  <2> QED
    BY <1>7, <1>12, <2>1, <2>2 DEF Single
<1>14. \A k \in Key : \A s \in Replica : HeadedIn(h.dots[k][s], h.dots[k][s])
  <2>1. HeadedIn({}, {})
    BY DEF HeadedIn
  <2> QED
    BY <1>8, <1>11, <2>1
<1> DEFINE H == Merge("delta", EmptyKernel, h)
<1>15. /\ H \in Kernel /\ Linked(H) /\ Within(H, E, UpTo(p)) /\ H.dots = h.dots
       /\ \A s \in Replica : H.counters[s] = CountersMerge("delta", {}, h.counters[s])
  BY <1>2, <1>6, <1>14, Copied
<1>16. x = Merge("state", EmptyKernel, H)
  BY EmptyKernelType, MergeNothing DEF Extraction
<1> HIDE DEF H
<1>17. /\ x \in Kernel /\ Linked(x) /\ Within(x, E, UpTo(p)) /\ x.dots = h.dots
       /\ \A s \in Replica : x.counters[s] = CountersMerge("state", {}, H.counters[s])
  BY <1>2, <1>14, <1>15, <1>16, Copied
<1>18. \A s \in Replica : x.counters[s] = h.counters[s]
  <2>1. \A s \in Replica : H.counters[s] = h.counters[s]
    BY <1>15 DEF CountersMerge, Succeeds
  <2> QED
    BY <1>13, <1>17, <2>1, CollapseSingle DEF Single
<1>19. Supported(x)
  BY <1>17, LinkedPairs
<1>20. \A s \in Replica : Valueless(x, s) = l.dots[e][s]
  <2> SUFFICES ASSUME NEW s \in Replica
               PROVE  Valueless(x, s) = l.dots[e][s]
    OBVIOUS
  <2>1. x.keys \in SUBSET Key /\ \A k \in Key : k \in x.keys <=> k = e /\ N # {}
    BY <1>11, <1>17, <1>19 DEF Supported, Kernel
  <2>2. UNION {x.dots[k][s] : k \in x.keys} = IF s = w THEN N ELSE {}
    BY <1>11, <1>17, <2>1
  <2>3. s = w => N \cap l.dots[e][w] = {}
    BY <1>1
  <2> QED
    BY <1>12, <1>18, <2>2, <2>3 DEF Valueless
<1> QED
  BY <1>1, <1>2, <1>7, <1>10, <1>11, <1>17, <1>20 DEF SentAlone, Single, Numbered

LEMMA MirrorsUpdate ==
  ASSUME NEW w \in Replica, NEW t \in Replica \ {w}, NEW l, NEW v, NEW D, NEW n, NEW c,
         Keeps(w, l, EmptyKernel, EmptyKernel, c, n, D, n),
         Keeps(t, v, EmptyKernel, EmptyKernel, n, n, D, n), Mirrors(w, l, v),
         NEW E, NEW p, NEW e \in Key, NEW N, NEW K, NEW d,
         Replaces(D, n, E, p, w, l, d, e, N, K),
         NEW m, m = Merge("state", l, d), NEW h, h = Merge("delta", EmptyKernel, d),
         NEW x, x = Extraction(EmptyKernel, h), NEW y, y = Merge("state", v, x)
  PROVE  Mirrors(w, m, y)
<1>1. Numbers(D, n) /\ IssuedNow(D, n, E, p, w, e, N)
  BY DEF UpdateStep, Replaces
<1>2. Numbers(E, p) /\ Apart(E) /\ Extended(D, n, E, p)
  <2>1. Numbers(E, p) /\ Extended(D, n, E, p)
    BY <1>1, IssuesMore
  <2> QED
    BY <2>1 DEF Numbers
<1>3. /\ l \in Kernel /\ Linked(l) /\ Within(l, D, UpTo(n))
      /\ v \in Kernel /\ Linked(v) /\ Within(v, E, UpTo(p))
  BY <1>2 DEF Keeps, HoldsOf, Extended
<1>4. Singles(l)
  <2> SUFFICES ASSUME NEW k \in Key, NEW s \in Replica
               PROVE  Single(l.dots[k][s])
    BY DEF Singles
  <2> QED
    BY DEF Mirrors, Single
<1>5. /\ SentAlone(w, l, m, x, e, N)
      /\ x \in Kernel /\ Linked(x) /\ Within(x, E, UpTo(p))
      /\ Single(N) /\ (N = {} \/ l.dots[e][w] = {})
  BY <1>3, <1>4, UpdateAlone
<1>6. CountersMerge("state", {}, N) = N
  BY <1>5, CollapseSingle DEF Single
<1>7. Supported(x)
  BY <1>5, LinkedPairs
<1>8. \A s \in Replica : s # w => l.dots[e][s] = {}
  BY DEF Mirrors
<1>9. \A k \in Key : \A s \in Replica :
         m.dots[k][s] = IF k = e THEN IF s = w THEN N ELSE {} ELSE l.dots[k][s]
  BY <1>5 DEF SentAlone
<1>10. \A k \in Key : \A s \in Replica : x.dots[k][s] = IF k = e /\ s = w THEN N ELSE {}
  BY <1>5 DEF SentAlone
<1>11. \A s \in Replica : Valueless(x, s) = l.dots[e][s]
  BY <1>5 DEF SentAlone
<1>12. \A k \in Key : \A s \in Replica : v.dots[k][s] = l.dots[k][s]
  BY DEF Mirrors
<1>13. N = {} \/ l.dots[e][w] = {}
  BY <1>5
<1>14. Stays("state", v, x)
  <2> SUFFICES ASSUME NEW k \in Key, NEW s \in Replica
               PROVE  x.dots[k][s] \subseteq CountersMerge("state", v.dots[k][s], x.dots[k][s])
    BY DEF Stays
  <2>1. CASE k = e /\ s = w
    <3>1. x.dots[k][s] = N /\ v.dots[k][s] = l.dots[e][w]
      BY <1>10, <1>12, <2>1
    <3>2. CASE N = {}
      BY <3>1, <3>2
    <3>3. CASE N # {}
      BY <1>6, <1>13, <3>1, <3>3
    <3> QED
      BY <3>2, <3>3
  <2>2. CASE ~(k = e /\ s = w)
    BY <1>10, <2>2
  <2> QED
    BY <2>1, <2>2
<1>15. MergedCleanly("state", v, x)
  BY <1>2, <1>3, <1>5, <1>7, <1>14, MergeLinked
<1>16. \A k \in Key : \A s \in Replica :
         y.dots[k][s] = IF k = e THEN IF s = w THEN N ELSE {} ELSE l.dots[k][s]
  <2> SUFFICES ASSUME NEW k \in Key, NEW s \in Replica
               PROVE  y.dots[k][s] = IF k = e THEN IF s = w THEN N ELSE {} ELSE l.dots[k][s]
    OBVIOUS
  <2>1. y.dots[k][s] = CountersMerge("state", l.dots[k][s], x.dots[k][s]) \ l.dots[e][s]
    BY <1>11, <1>12, <1>15 DEF MergedCleanly
  <2>2. x.dots[k][s] = IF k = e /\ s = w THEN N ELSE {}
    BY <1>10
  <2>3. CASE k # e
    <3>1. l.dots[k][s] \cap l.dots[e][s] = {}
      <4> SUFFICES ASSUME NEW a \in l.dots[k][s], a \in l.dots[e][s]
                   PROVE  FALSE
        OBVIOUS
      <4>1. a \in D[k][s] /\ a \in D[e][s]
        BY <1>3 DEF Within
      <4> QED
        BY <1>1, <2>3, <4>1 DEF Numbers, Apart
    <3> QED
      BY <2>1, <2>2, <2>3, <3>1 DEF CountersMerge
  <2>4. CASE k = e /\ s # w
    BY <1>8, <2>1, <2>2, <2>4 DEF CountersMerge
  <2>5. CASE k = e /\ s = w /\ N = {}
    BY <2>1, <2>2, <2>5 DEF CountersMerge
  <2>6. CASE k = e /\ s = w /\ N # {}
    BY <1>6, <1>13, <2>1, <2>2, <2>6
  <2> QED
    BY <2>3, <2>4, <2>5, <2>6
<1>17. \A k \in Key : \A s \in Replica : y.dots[k][s] = m.dots[k][s]
  BY <1>9, <1>16
<1>18. ASSUME NEW k \in Key
       PROVE  /\ \A s \in Replica \ {w} : m.dots[k][s] = {}
              /\ m.dots[k][w] = {} \/ \E a \in Nat : m.dots[k][w] = {a}
  <2>1. CASE k = e
    BY <1>5, <1>9, <2>1 DEF Single
  <2>2. CASE k # e
    BY <1>9, <2>2 DEF Mirrors
  <2> QED
    BY <2>1, <2>2
<1> QED
  BY <1>17, <1>18 DEF Mirrors

\* The insert of an absent element or the erase of one that is there.
SingleChange(d, l, w) ==
  \/ \E e \in Key \ l.keys : d = ValueDelta(e, w, NextCounter(l.counters[w]))
  \/ \E e \in l.keys : d = CountersDelta(l, {e})

\* It gives one element another dot, or none.
LEMMA SingleReplaces ==
  ASSUME NEW w \in Replica, NEW l \in Kernel, Linked(l), NEW D, NEW n, Numbers(D, n),
         Within(l, D, UpTo(n)), n[w] = 0 \/ n[w] \in l.counters[w],
         NEW d, SingleChange(d, l, w)
  PROVE  \E E, p, N, K : \E e \in Key : Replaces(D, n, E, p, w, l, d, e, N, K)
<1>1. Supported(l) /\ l.keys \in SUBSET Key
  BY LinkedPairs DEF Kernel
<1>2. CASE \E e \in Key \ l.keys : d = ValueDelta(e, w, NextCounter(l.counters[w]))
  <2>1. PICK e \in Key \ l.keys : d = ValueDelta(e, w, NextCounter(l.counters[w]))
    BY <1>2
  <2>2. Updates(d, w, l, e, {n[w] + 1}, {})
    BY <2>1, ValueUpdates
  <2>3. PICK E, p : IssuedNow(D, n, E, p, w, e, {n[w] + 1})
    BY DEF IssuedNow
  <2>4. UpdateStep(D, n, E, p, w, l, d, e, {n[w] + 1}, {})
    BY <2>2, <2>3 DEF UpdateStep
  <2>5. \A s \in Replica : ClearedOf(l, {}, s) = {} /\ l.dots[e][s] = {}
    BY <1>1, <2>1 DEF ClearedOf, Supported
  <2>6. e \in Key /\ {} \subseteq {e}
    BY <2>1
  <2>7. Replaces(D, n, E, p, w, l, d, e, {n[w] + 1}, {})
    BY <2>4, <2>5, <2>6 DEF Replaces
  <2> QED
    BY <2>6, <2>7
<1>3. CASE \E e \in l.keys : d = CountersDelta(l, {e})
  <2>1. PICK e \in l.keys : d = CountersDelta(l, {e})
    BY <1>3
  <2>2. Updates(d, w, l, e, {}, {e})
    BY <1>1, <2>1, CountersUpdates
  <2>3. IssuedNow(D, n, D, n, w, e, {})
    BY DEF IssuedNow
  <2>4. UpdateStep(D, n, D, n, w, l, d, e, {}, {e})
    BY <1>1, <2>1, <2>2, <2>3 DEF UpdateStep
  <2>5. \A s \in Replica : ClearedOf(l, {e}, s) = l.dots[e][s]
    BY DEF ClearedOf
  <2>6. e \in Key /\ {e} \subseteq {e}
    BY <1>1, <2>1
  <2>7. Replaces(D, n, D, n, w, l, d, e, {}, {e})
    BY <2>4, <2>5, <2>6 DEF Replaces
  <2> QED
    BY <2>6, <2>7
<1> QED
  BY <1>2, <1>3 DEF SingleChange

LEMMA MirrorsChange ==
  ASSUME NEW w \in Replica, NEW t \in Replica \ {w}, NEW l, NEW v, Follows(w, l, v),
         Mirrors(w, l, v), NEW d, SingleChange(d, l, w),
         NEW m, NEW h, NEW x, NEW y, AfterChange(l, v, d, m, h, x, y)
  PROVE  Mirrors(w, m, y)
<1>a. m = Merge("state", l, d)
  BY DEF AfterChange
<1>b. h = Merge("delta", EmptyKernel, d)
  BY DEF AfterChange
<1>c. x = Extraction(EmptyKernel, h)
  BY DEF AfterChange
<1>d. y = Merge("state", v, x)
  BY DEF AfterChange
<1> USE <1>a, <1>b, <1>c, <1>d
<1> DEFINE none == [s \in Replica |-> 0]
<1>1. PICK D, n :
        /\ Numbers(D, n)
        /\ Keeps(w, l, EmptyKernel, EmptyKernel, none, n, D, n)
        /\ Keeps(t, v, EmptyKernel, EmptyKernel, n, n, D, n)
  BY DEF Follows
<1> HIDE DEF none
<1>2. /\ l \in Kernel /\ Linked(l) /\ Within(l, D, UpTo(n))
      /\ n[w] = 0 \/ n[w] \in l.counters[w]
  BY <1>1 DEF Keeps, HoldsOf
<1>3. PICK E, p, N, K : \E e \in Key : Replaces(D, n, E, p, w, l, d, e, N, K)
  BY <1>1, <1>2, SingleReplaces
<1>4. PICK e \in Key : Replaces(D, n, E, p, w, l, d, e, N, K)
  BY <1>3
<1> QED
  BY <1>1, <1>4, MirrorsUpdate

\* The container that map::insert makes, extracted on its own.
LEMMA FillAlone ==
  ASSUME NEW w \in Replica, NEW f, NEW j, Fills(w, f, j),
         NEW m, m = Merge("state", EmptyKernel, f), NEW x, x = Extraction(m, EmptyKernel)
  PROVE  /\ m \in Kernel /\ Linked(m) /\ m.dots = f.dots
         /\ x \in Kernel /\ Linked(x) /\ x.dots = f.dots
         /\ \A s \in Replica : Valueless(x, s) = Valueless(f, s)
<1> DEFINE C == [s \in Replica |-> Nat]
<1>1. f \in Kernel /\ Linked(f) /\ Apart(f.dots)
  BY DEF Fills
<1>2. ASSUME NEW g \in Kernel, g.dots = f.dots
      PROVE  /\ Within(g, f.dots, C)
             /\ \A k \in Key : \A s \in Replica : HeadedIn(g.dots[k][s], g.dots[k][s])
  <2>1. Within(g, f.dots, C)
    BY <1>2 DEF Within, Kernel, Dots
  <2>2. ASSUME NEW k \in Key, NEW s \in Replica
        PROVE  f.dots[k][s] = {} \/ \E a \in Nat : f.dots[k][s] = {a}
    BY DEF Fills
  <2> QED
    BY <1>2, <2>1, <2>2, CollapseSingle
<1> HIDE DEF C
<1>3. /\ m \in Kernel /\ Linked(m) /\ m.keys = f.keys /\ m.dots = f.dots
      /\ \A s \in Replica : m.counters[s] = CountersMerge("state", {}, f.counters[s])
  BY <1>1, <1>2, Copied
<1>4. x = Merge("state", EmptyKernel, m)
  <2>1. Merge("state", EmptyKernel, m) \in Kernel
    BY <1>3, EmptyKernelType, MergeType
  <2> QED
    BY <2>1, EmptyKernelType, MergeNothing DEF Extraction
<1>5. /\ x \in Kernel /\ Linked(x) /\ x.keys = m.keys /\ x.dots = m.dots
      /\ \A s \in Replica : x.counters[s] = CountersMerge("state", {}, m.counters[s])
  BY <1>1, <1>2, <1>3, <1>4, Copied
<1>6. \A s \in Replica : f.counters[s] = {} \/ \E a \in Nat : f.counters[s] = {a}
  BY DEF Fills
<1>7. \A s \in Replica : x.counters[s] = f.counters[s]
  BY <1>3, <1>5, <1>6, CollapseSingle
<1> QED
  BY <1>3, <1>5, <1>7 DEF Valueless

LEMMA MirrorsFill ==
  ASSUME NEW w \in Replica, NEW f, NEW j, Fills(w, f, j),
         NEW m, NEW x, NEW y, AfterFill(f, m, x, y)
  PROVE  Mirrors(w, m, y)
<1> DEFINE C == [s \in Replica |-> Nat]
<1>1. m = Merge("state", EmptyKernel, f) /\ x = Extraction(m, EmptyKernel)
  BY DEF AfterFill
<1>2. y = Merge("state", EmptyKernel, x)
  BY DEF AfterFill
<1>3. m.dots = f.dots /\ x \in Kernel /\ Linked(x) /\ x.dots = f.dots
  BY <1>1, FillAlone
<1>4. Apart(f.dots)
  BY DEF Fills
<1>5. Within(x, f.dots, C)
  BY <1>3 DEF Within, Kernel, Dots
<1>6. \A k \in Key : \A s \in Replica : HeadedIn(x.dots[k][s], x.dots[k][s])
  <2>1. ASSUME NEW k \in Key, NEW s \in Replica
        PROVE  f.dots[k][s] = {} \/ \E a \in Nat : f.dots[k][s] = {a}
    BY DEF Fills
  <2> QED
    BY <1>3, <2>1, CollapseSingle
<1> HIDE DEF C
<1>7. y.dots = f.dots
  BY <1>2, <1>3, <1>4, <1>5, <1>6, Copied
<1> QED
  BY <1>3, <1>7 DEF Mirrors, Fills

\* Then the copy has the same elements.
LEMMA MirrorsKeys ==
  ASSUME NEW w \in Replica, NEW t \in Replica \ {w}, NEW l, NEW v, Follows(w, l, v),
         Mirrors(w, l, v)
  PROVE  l.keys = v.keys
<1>1. l \in Kernel /\ Linked(l) /\ v \in Kernel /\ Linked(v)
  BY DEF Follows, Keeps, HoldsOf
<1>2. \A k \in Key : \A s \in Replica : l.dots[k][s] = v.dots[k][s]
  BY DEF Mirrors
<1>3. SameElements(l, v)
  BY <1>1, <1>2, SameDots
<1> QED
  BY <1>3 DEF SameElements

\* An empty container mirrors an empty one.
LEMMA MirrorsEmpty ==
  ASSUME NEW w \in Replica
  PROVE  Mirrors(w, EmptyKernel, EmptyKernel)
<1>1. \A k \in Key : \A s \in Replica : EmptyKernel.dots[k][s] = {}
  BY DEF EmptyKernel, NoDots
<1> QED
  BY <1>1 DEF Mirrors

-----------------------------------------------------------------------------
(***************************************************************************)
(* Two replicas change their copies of a container, each sends every       *)
(* change by itself, and an element is inserted only where it is absent.   *)
(* es[s][i] is the i-th delta of replica s, from the change on that it     *)
(* tells of, and got[r][s] how many of them replica r has merged.          *)
(***************************************************************************)

Index == Nat \ {0}

\* The deltas sent, and the one that a replica is to send next.
Outgoing(hs, gs, ds, m) ==
  [s \in Replica |-> [i \in Index |->
     IF i <= m[s] THEN ds[s][i]
     ELSE IF i = m[s] + 1 THEN Extraction(gs[s], hs[s]) ELSE EmptyKernel]]

\* The i-th delta of replica s brings element e its dot c, or deletes the dot c of replica t.
Gives(es, s, i, e, c) == c \in es[s][i].dots[e][s]
Takes(es, s, i, t, c) == c \in Valueless(es[s][i], t)

\* Replica r has merged the i-th delta of replica s, or made it.
Knows(got, r, s, i) == r = s \/ i <= got[r][s]

\* Replica r knows that element e got the dot c of replica t, or that the dot was deleted.
Gained(es, got, r, e, t, c) == \E i \in Index : Knows(got, r, t, i) /\ Gives(es, t, i, e, c)
Lost(es, got, r, t, c) ==
  \E s \in Replica : \E i \in Index : Knows(got, r, s, i) /\ Takes(es, s, i, t, c)

\* A delta brings dots of its replica, at most one to an element.
OwnDots(es) == \A s \in Replica : \A i \in Index : \A e \in Key :
  Single(es[s][i].dots[e][s]) /\ \A t \in Replica \ {s} : es[s][i].dots[e][t] = {}

\* No dot is brought twice.
OnceOnly(es) == \A s \in Replica : \A i, j \in Index : \A e, f \in Key : \A c :
  Gives(es, s, i, e, c) /\ Gives(es, s, j, f, c) => i = j

\* A dot is deleted by who has seen it.
SeenFirst(es, got) == \A s, q \in Replica : \A i, h \in Index : \A e \in Key : \A c :
  Gives(es, s, i, e, c) /\ Takes(es, q, h, s, c) => IF q = s THEN i < h ELSE i <= got[q][s]

\* An element gets a dot again when the one before has been deleted.
Vacated(es) == \A s \in Replica : \A i, j \in Index : \A e \in Key : \A b, c :
  i < j /\ Gives(es, s, i, e, b) /\ Gives(es, s, j, e, c) =>
    \E t \in Replica : \E h \in Index : Takes(es, t, h, s, b) /\ (t = s => h < j)

\* A replica has the dots that it knows of and does not know to be deleted.
HasWhatItKnows(ls, es, got) == \A r, t \in Replica : \A e \in Key : \A c :
  c \in ls[r].dots[e][t] <=> Gained(es, got, r, e, t, c) /\ ~Lost(es, got, r, t, c)

Paired(ls, es, got) ==
  /\ OwnDots(es) /\ OnceOnly(es) /\ SeenFirst(es, got) /\ Vacated(es)
  /\ HasWhatItKnows(ls, es, got) /\ \A r \in Replica : Singles(ls[r])

\* The dots of x are new, and those that it deletes are there.
Novel(r, ls, es, x) ==
  /\ \A e \in Key : \A c \in x.dots[e][r] :
       /\ c \notin Valueless(x, r)
       /\ \A i \in Index : /\ \A f \in Key : ~Gives(es, r, i, f, c)
                          /\ \A s \in Replica : ~Takes(es, s, i, r, c)
  /\ \A e \in Key : Single(x.dots[e][r]) /\ \A s \in Replica \ {r} : x.dots[e][s] = {}
  /\ \A e \in Key : x.dots[e][r] = {} \/ ls[r].dots[e][r] = {}
  /\ \A s \in Replica : \A c \in Valueless(x, s) : \E e \in Key : c \in ls[r].dots[e][s]

\* Replica r makes its j-th delta x.
Adds(r, j, x, ls, lt, es, et, got) ==
  /\ j \in Index /\ SameBut(r, lt, ls) /\ Novel(r, ls, es, x)
  /\ \A i \in Index : i >= j => es[r][i] = EmptyKernel
  /\ \A q \in Replica \ {r} : got[q][r] \in Nat /\ got[q][r] < j
  /\ \A s \in Replica : \A i \in Index : et[s][i] = IF s = r /\ i = j THEN x ELSE es[s][i]
  /\ \A e \in Key : \A s \in Replica :
       lt[r].dots[e][s] = (ls[r].dots[e][s] \ Valueless(x, s)) \cup x.dots[e][s]

LEMMA PairedAdds ==
  ASSUME NEW ls, NEW es, NEW got, Paired(ls, es, got), NEW r \in Replica, NEW j, NEW x,
         NEW lt, NEW et, Adds(r, j, x, ls, lt, es, et, got)
  PROVE  Paired(lt, et, got)
<1>a. /\ j \in Index /\ SameBut(r, lt, ls) /\ Novel(r, ls, es, x)
      /\ \A i \in Index : i >= j => es[r][i] = EmptyKernel
      /\ \A q \in Replica \ {r} : got[q][r] \in Nat /\ got[q][r] < j
  BY DEF Adds
<1>b. /\ \A s \in Replica : \A i \in Index : et[s][i] = IF s = r /\ i = j THEN x ELSE es[s][i]
      /\ \A e \in Key : \A s \in Replica :
           lt[r].dots[e][s] = (ls[r].dots[e][s] \ Valueless(x, s)) \cup x.dots[e][s]
  BY DEF Adds
<1>c. /\ OwnDots(es) /\ OnceOnly(es) /\ SeenFirst(es, got) /\ Vacated(es)
      /\ HasWhatItKnows(ls, es, got) /\ \A q \in Replica : Singles(ls[q])
  BY DEF Paired
<1>1. \A i \in Index : i >= j => \A s \in Replica : \A c :
        ~Takes(es, r, i, s, c) /\ \A e \in Key : ~Gives(es, r, i, e, c)
  BY <1>a DEF Gives, Takes, Valueless, EmptyKernel, NoDots
<1>2. \A i \in Index : i >= j \/ i < j
  BY <1>a DEF Index
<1>3. ASSUME NEW s \in Replica, NEW i \in Index, NEW e \in Key, NEW c
      PROVE  Gives(et, s, i, e, c) <=> Gives(es, s, i, e, c) \/ (s = r /\ i = j /\ c \in x.dots[e][r])
  BY <1>a, <1>b, <1>1 DEF Gives, Index
<1>4. ASSUME NEW s \in Replica, NEW i \in Index, NEW t \in Replica, NEW c
      PROVE  Takes(et, s, i, t, c) <=> Takes(es, s, i, t, c) \/ (s = r /\ i = j /\ c \in Valueless(x, t))
  BY <1>a, <1>b, <1>1 DEF Takes, Index
<1>5. \A e \in Key : \A c \in x.dots[e][r] :
        /\ c \notin Valueless(x, r)
        /\ \A i \in Index : /\ \A f \in Key : ~Gives(es, r, i, f, c)
                           /\ \A s \in Replica : ~Takes(es, s, i, r, c)
  BY <1>a DEF Novel
<1>6. OwnDots(et)
  <2> SUFFICES ASSUME NEW s \in Replica, NEW i \in Index, NEW e \in Key
               PROVE  Single(et[s][i].dots[e][s]) /\ \A t \in Replica \ {s} : et[s][i].dots[e][t] = {}
    BY DEF OwnDots
  <2>1. CASE s = r /\ i = j
    BY <1>a, <1>b, <2>1 DEF Novel
  <2>2. CASE ~(s = r /\ i = j)
    BY <1>b, <1>c, <2>2 DEF OwnDots
  <2> QED
    BY <2>1, <2>2
<1>7. OnceOnly(et)
  <2> SUFFICES ASSUME NEW s \in Replica, NEW i \in Index, NEW h \in Index, NEW e \in Key,
                      NEW f \in Key, NEW c, Gives(et, s, i, e, c), Gives(et, s, h, f, c)
               PROVE  i = h
    BY DEF OnceOnly
  <2>1. CASE Gives(es, s, i, e, c) /\ Gives(es, s, h, f, c)
    BY <1>c, <2>1 DEF OnceOnly
  <2> QED
    BY <1>3, <1>5, <2>1
<1>8. ASSUME NEW s \in Replica, NEW c \in Valueless(x, s), NEW i \in Index, NEW e \in Key,
             Gives(es, s, i, e, c)
      PROVE  Knows(got, r, s, i)
  <2>1. PICK f \in Key : c \in ls[r].dots[f][s]
    BY <1>a, <1>8 DEF Novel
  <2>2. PICK h \in Index : Knows(got, r, s, h) /\ Gives(es, s, h, f, c)
    BY <1>c, <2>1 DEF HasWhatItKnows, Gained
  <2>3. i = h
    BY <1>c, <1>8, <2>2 DEF OnceOnly
  <2> QED
    BY <2>2, <2>3
<1>9. SeenFirst(et, got)
  <2> SUFFICES ASSUME NEW s \in Replica, NEW q \in Replica, NEW i \in Index, NEW h \in Index,
                      NEW e \in Key, NEW c, Gives(et, s, i, e, c), Takes(et, q, h, s, c)
               PROVE  IF q = s THEN i < h ELSE i <= got[q][s]
    BY DEF SeenFirst
  <2>1. Gives(es, s, i, e, c)
    BY <1>3, <1>4, <1>5
  <2>2. CASE Takes(es, q, h, s, c)
    BY <1>c, <2>1, <2>2 DEF SeenFirst
  <2>3. CASE q = r /\ h = j /\ c \in Valueless(x, s)
    <3>1. Knows(got, r, s, i)
      BY <1>8, <2>1, <2>3
    <3>2. r = s => i < j
      BY <1>1, <1>2, <2>1
    <3> QED
      BY <2>3, <3>1, <3>2 DEF Knows
  <2> QED
    BY <1>4, <2>2, <2>3
<1>10. Vacated(et)
  <2> SUFFICES ASSUME NEW s \in Replica, NEW i \in Index, NEW h \in Index, NEW e \in Key,
                      NEW b, NEW c, i < h, Gives(et, s, i, e, b), Gives(et, s, h, e, c)
               PROVE  \E t \in Replica : \E g \in Index : Takes(et, t, g, s, b) /\ (t = s => g < h)
    BY DEF Vacated
  <2>1. ~(s = r /\ i = j)
    <3>1. SUFFICES ASSUME s = r, i = j
                   PROVE  FALSE
      OBVIOUS
    <3>2. h # j /\ h >= j
      BY <1>a, <3>1 DEF Index
    <3> QED
      BY <1>1, <1>3, <3>1, <3>2
  <2>2. Gives(es, s, i, e, b)
    BY <1>3, <2>1
  <2>3. CASE Gives(es, s, h, e, c)
    <3>1. PICK t \in Replica, g \in Index : Takes(es, t, g, s, b) /\ (t = s => g < h)
      BY <1>c, <2>2, <2>3 DEF Vacated
    <3> QED
      BY <1>4, <3>1
  <2>4. CASE s = r /\ h = j /\ c \in x.dots[e][r]
    <3>1. b \notin ls[r].dots[e][r]
      BY <1>a, <2>4 DEF Novel
    <3>2. Gained(es, got, r, e, r, b)
      BY <2>2, <2>4 DEF Gained, Knows
    <3>3. Lost(es, got, r, r, b)
      BY <1>c, <3>1, <3>2 DEF HasWhatItKnows
    <3>4. PICK t \in Replica, g \in Index : Takes(es, t, g, r, b)
      BY <3>3 DEF Lost
    <3>5. t = r => g < j
      BY <1>1, <1>2, <3>4
    <3> QED
      BY <1>4, <2>4, <3>4, <3>5
  <2> QED
    BY <1>3, <2>3, <2>4
<1>11. ASSUME NEW q \in Replica
       PROVE  Knows(got, q, r, j) <=> q = r
  <2>1. q # r => ~(j <= got[q][r])
    BY <1>a DEF Index
  <2> QED
    BY <2>1 DEF Knows
<1>12. ASSUME NEW q \in Replica, NEW t \in Replica, NEW e \in Key, NEW c
       PROVE  /\ Gained(et, got, q, e, t, c) <=>
                   Gained(es, got, q, e, t, c) \/ (q = r /\ t = r /\ c \in x.dots[e][r])
              /\ Lost(et, got, q, t, c) <=>
                   Lost(es, got, q, t, c) \/ (q = r /\ c \in Valueless(x, t))
  BY <1>a, <1>3, <1>4, <1>11 DEF Gained, Lost
<1>13. HasWhatItKnows(lt, et, got)
  <2> SUFFICES ASSUME NEW q \in Replica, NEW t \in Replica, NEW e \in Key, NEW c
               PROVE  c \in lt[q].dots[e][t] <=>
                        Gained(et, got, q, e, t, c) /\ ~Lost(et, got, q, t, c)
    BY DEF HasWhatItKnows
  <2>1. c \in ls[q].dots[e][t] <=> Gained(es, got, q, e, t, c) /\ ~Lost(es, got, q, t, c)
    BY <1>c DEF HasWhatItKnows
  <2>2. CASE q # r
    BY <1>a, <1>12, <2>1, <2>2 DEF SameBut
  <2>3. CASE q = r
    <3>1. c \in x.dots[e][t] => t = r /\ c \in x.dots[e][r]
      BY <1>a DEF Novel
    <3>2. t = r /\ c \in x.dots[e][r] => ~Lost(es, got, r, t, c) /\ c \notin Valueless(x, t)
      BY <1>5 DEF Lost
    <3>3. c \in lt[r].dots[e][t] <=>
            (c \in ls[r].dots[e][t] /\ c \notin Valueless(x, t)) \/ c \in x.dots[e][t]
      BY <1>b
    <3> QED
      BY <1>12, <2>1, <2>3, <3>1, <3>2, <3>3
  <2> QED
    BY <2>2, <2>3
<1>14. ASSUME NEW q \in Replica
       PROVE  Singles(lt[q])
  <2>1. CASE q # r
    BY <1>a, <1>c, <2>1 DEF SameBut
  <2>2. CASE q = r
    <3> SUFFICES ASSUME NEW e \in Key, NEW s \in Replica
                 PROVE  Single(lt[r].dots[e][s])
      BY <2>2 DEF Singles
    <3>1. Single(ls[r].dots[e][s]) /\ Single(x.dots[e][r])
      BY <1>a, <1>c DEF Novel, Singles
    <3>2. lt[r].dots[e][s] = (ls[r].dots[e][s] \ Valueless(x, s)) \cup x.dots[e][s]
      BY <1>b
    <3>3. IF s = r THEN x.dots[e][s] = {} \/ ls[r].dots[e][s] = {} ELSE x.dots[e][s] = {}
      BY <1>a DEF Novel
    <3> QED
      BY <3>1, <3>2, <3>3 DEF Single
  <2> QED
    BY <2>1, <2>2
<1> QED
  BY <1>6, <1>7, <1>9, <1>10, <1>13, <1>14 DEF Paired

\* Replica r merges the next delta of the only other replica.
Gets(r, s, j, ls, lt, es, got, gott) ==
  /\ r # s /\ \A t \in Replica : t = r \/ t = s
  /\ got \in [Replica -> [Replica -> Nat]]
  /\ j = got[r][s] + 1 /\ gott = [got EXCEPT ![r][s] = j]
  /\ SameBut(r, lt, ls) /\ Shows(ls[r], es[s][j], lt[r])

LEMMA PairedGets ==
  ASSUME NEW ls, NEW es, NEW got, Paired(ls, es, got), NEW r \in Replica, NEW s \in Replica,
         NEW j, NEW lt, NEW gott, Gets(r, s, j, ls, lt, es, got, gott)
  PROVE  Paired(lt, es, gott)
<1>a. /\ r # s /\ \A t \in Replica : t = r \/ t = s
      /\ got \in [Replica -> [Replica -> Nat]]
      /\ j = got[r][s] + 1 /\ gott = [got EXCEPT ![r][s] = j]
      /\ SameBut(r, lt, ls) /\ Shows(ls[r], es[s][j], lt[r])
  BY DEF Gets
<1>b. /\ OwnDots(es) /\ OnceOnly(es) /\ SeenFirst(es, got) /\ Vacated(es)
      /\ HasWhatItKnows(ls, es, got) /\ \A q \in Replica : Singles(ls[q])
  BY DEF Paired
<1>0. PICK g \in Nat : g = got[r][s] /\ j = g + 1
  BY <1>a
<1>1. /\ j \in Index /\ ~(j <= g) /\ ~(j < j) /\ j <= j
      /\ \A i \in Index : /\ i <= g => i < j /\ ~(j < i) /\ i <= j
                          /\ i < j => i <= g
                          /\ i <= j => i <= g \/ i = j
  BY <1>0 DEF Index
<1>2. \A q, t \in Replica : gott[q][t] = IF q = r /\ t = s THEN j ELSE got[q][t]
  BY <1>a
<1>3. ASSUME NEW q \in Replica, NEW t \in Replica, NEW i \in Index
      PROVE  Knows(gott, q, t, i) <=> Knows(got, q, t, i) \/ (q = r /\ t = s /\ i = j)
  <2>1. CASE q = r /\ t = s
    BY <1>a, <1>0, <1>1, <1>2, <2>1 DEF Knows
  <2>2. CASE ~(q = r /\ t = s)
    BY <1>2, <2>2 DEF Knows
  <2> QED
    BY <2>1, <2>2
<1>4. SeenFirst(es, gott)
  <2> SUFFICES ASSUME NEW t \in Replica, NEW q \in Replica, NEW i \in Index, NEW h \in Index,
                      NEW e \in Key, NEW c, Gives(es, t, i, e, c), Takes(es, q, h, t, c)
               PROVE  IF q = t THEN i < h ELSE i <= gott[q][t]
    BY DEF SeenFirst
  <2>1. IF q = t THEN i < h ELSE i <= got[q][t]
    BY <1>b DEF SeenFirst
  <2> QED
    BY <1>0, <1>1, <1>2, <2>1
<1>5. ASSUME NEW q \in Replica, NEW t \in Replica, NEW e \in Key, NEW c
      PROVE  /\ Gained(es, gott, q, e, t, c) <=>
                  Gained(es, got, q, e, t, c) \/ (q = r /\ t = s /\ Gives(es, s, j, e, c))
             /\ Lost(es, gott, q, t, c) <=>
                  Lost(es, got, q, t, c) \/ (q = r /\ Takes(es, s, j, t, c))
  BY <1>1, <1>3 DEF Gained, Lost
<1>6. ASSUME NEW e \in Key, NEW c, Gives(es, s, j, e, c)
      PROVE  ~Lost(es, got, r, s, c) /\ ~Takes(es, s, j, s, c)
  <2>1. ASSUME NEW h \in Index, Takes(es, s, h, s, c)
        PROVE  j < h
    BY <1>b, <1>1, <1>6, <2>1 DEF SeenFirst
  <2>2. ASSUME NEW h \in Index, Takes(es, r, h, s, c)
        PROVE  FALSE
    BY <1>a, <1>b, <1>0, <1>1, <1>6, <2>2 DEF SeenFirst
  <2>3. ~Lost(es, got, r, s, c)
    BY <1>a, <1>0, <1>1, <2>1, <2>2 DEF Lost, Knows
  <2> QED
    BY <1>1, <2>1, <2>3
<1>7. ASSUME NEW e \in Key
      PROVE  ls[r].dots[e][s] = {} \/ es[s][j].dots[e][s] = {}
  <2> SUFFICES ASSUME NEW b \in ls[r].dots[e][s], NEW c \in es[s][j].dots[e][s]
               PROVE  FALSE
    OBVIOUS
  <2>1. Gained(es, got, r, e, s, b) /\ ~Lost(es, got, r, s, b)
    BY <1>b DEF HasWhatItKnows
  <2>2. PICK i \in Index : i <= g /\ Gives(es, s, i, e, b)
    BY <1>a, <1>0, <2>1 DEF Gained, Knows
  <2>3. i < j
    BY <1>0, <2>2 DEF Index
  <2>4. Gives(es, s, j, e, c)
    BY DEF Gives
  <2>5. PICK t \in Replica, h \in Index : Takes(es, t, h, s, b) /\ (t = s => h < j)
    BY <1>b, <1>1, <2>2, <2>3, <2>4 DEF Vacated
  <2>6. Knows(got, r, t, h)
    BY <1>a, <1>0, <1>1, <2>5 DEF Knows
  <2> QED
    BY <2>1, <2>5, <2>6 DEF Lost
<1>8. ASSUME NEW e \in Key, NEW t \in Replica
      PROVE  /\ lt[r].dots[e][t] =
                  (ls[r].dots[e][t] \cup es[s][j].dots[e][t]) \ Valueless(es[s][j], t)
             /\ ls[r].dots[e][t] = {} \/ es[s][j].dots[e][t] = {}
  <2>1. lt[r].dots[e][t] =
          CountersMerge("state", ls[r].dots[e][t], es[s][j].dots[e][t]) \ Valueless(es[s][j], t)
    BY <1>a DEF Shows
  <2>2. CASE es[s][j].dots[e][t] = {}
    BY <2>1, <2>2 DEF CountersMerge
  <2>3. CASE es[s][j].dots[e][t] # {}
    <3>1. t = s
      BY <1>b, <1>1, <2>3 DEF OwnDots
    <3>2. ls[r].dots[e][t] = {}
      BY <1>7, <2>3, <3>1
    <3>3. Single(es[s][j].dots[e][s])
      BY <1>b, <1>1 DEF OwnDots
    <3>4. CountersMerge("state", {}, es[s][j].dots[e][s]) = es[s][j].dots[e][s]
      BY <3>3, CollapseSingle DEF Single
    <3> QED
      BY <2>1, <3>1, <3>2, <3>4
  <2> QED
    BY <2>2, <2>3
<1>9. HasWhatItKnows(lt, es, gott)
  <2> SUFFICES ASSUME NEW q \in Replica, NEW t \in Replica, NEW e \in Key, NEW c
               PROVE  c \in lt[q].dots[e][t] <=>
                        Gained(es, gott, q, e, t, c) /\ ~Lost(es, gott, q, t, c)
    BY DEF HasWhatItKnows
  <2>1. c \in ls[q].dots[e][t] <=> Gained(es, got, q, e, t, c) /\ ~Lost(es, got, q, t, c)
    BY <1>b DEF HasWhatItKnows
  <2>2. CASE q # r
    BY <1>a, <1>5, <2>1, <2>2 DEF SameBut
  <2>3. CASE q = r
    <3>1. c \in es[s][j].dots[e][t] <=> t = s /\ Gives(es, s, j, e, c)
      BY <1>b, <1>1 DEF OwnDots, Gives
    <3>2. c \in Valueless(es[s][j], t) <=> Takes(es, s, j, t, c)
      BY DEF Takes
    <3>3. c \in lt[r].dots[e][t] <=>
            /\ c \in ls[r].dots[e][t] \/ c \in es[s][j].dots[e][t]
            /\ c \notin Valueless(es[s][j], t)
      BY <1>8
    <3> QED
      BY <1>5, <1>6, <2>1, <2>3, <3>1, <3>2, <3>3
  <2> QED
    BY <2>2, <2>3
<1>10. ASSUME NEW q \in Replica
       PROVE  Singles(lt[q])
  <2>1. CASE q # r
    BY <1>a, <1>b, <2>1 DEF SameBut
  <2>2. CASE q = r
    <3> SUFFICES ASSUME NEW e \in Key, NEW t \in Replica
                 PROVE  Single(lt[r].dots[e][t])
      BY <2>2 DEF Singles
    <3>1. Single(ls[r].dots[e][t])
      BY <1>b DEF Singles
    <3>2. Single(es[s][j].dots[e][t])
      BY <1>b, <1>1 DEF OwnDots, Single
    <3> QED
      BY <1>8, <3>1, <3>2 DEF Single
  <2> QED
    BY <2>1, <2>2
<1> QED
  BY <1>b, <1>4, <1>9, <1>10 DEF Paired

\* When each has all the deltas of the other, the replicas have the same dots.
LEMMA PairedMeet ==
  ASSUME NEW ls, NEW es, NEW got, Paired(ls, es, got), NEW q \in Replica, NEW r \in Replica,
         \A s, t \in Replica : \A i \in Index :
           Knows(got, s, t, i) \/ es[t][i] = EmptyKernel
  PROVE  \A e \in Key : \A t \in Replica : ls[q].dots[e][t] = ls[r].dots[e][t]
<1>1. \A t \in Replica : \A i \in Index : es[t][i] = EmptyKernel =>
        \A s \in Replica : \A c : ~Takes(es, t, i, s, c) /\ \A e \in Key : ~Gives(es, t, i, e, c)
  BY DEF Gives, Takes, Valueless, EmptyKernel, NoDots
<1>2. ASSUME NEW e \in Key, NEW t \in Replica, NEW c
      PROVE  /\ Gained(es, got, q, e, t, c) <=> Gained(es, got, r, e, t, c)
             /\ Lost(es, got, q, t, c) <=> Lost(es, got, r, t, c)
  BY <1>1 DEF Gained, Lost
<1>3. ASSUME NEW e \in Key, NEW t \in Replica, NEW c
      PROVE  c \in ls[q].dots[e][t] <=> c \in ls[r].dots[e][t]
  BY <1>2 DEF Paired, HasWhatItKnows
<1> QED
  BY <1>3

\* The replicas have made the deltas that they have sent and are to send.
PairedCopies(ls, hs, gs, ds, m, got) == Paired(ls, Outgoing(hs, gs, ds, m), got)

\* The parts of a delta are issued dots.
Recorded(x, D, n) == x \in Kernel /\ Linked(x) /\ Within(x, D, UpTo(n))

LEMMA OutgoingRecorded ==
  ASSUME NEW ls, NEW hs, NEW gs, NEW ds, NEW m, NEW got, NEW D, NEW n, NEW U,
         Copies(ls, hs, gs, ds, m, got, D, n, U), NEW s \in Replica, NEW i \in Index
  PROVE  Recorded(Outgoing(hs, gs, ds, m)[s][i], D, n)
<1>1. m[s] \in Nat
  BY DEF Copies, Merged
<1>2. CASE i <= m[s]
  <2>1. i \in 1 .. m[s]
    BY <1>1, <1>2 DEF Index
  <2>2. SentOk(s, ds[s][i], U[s][i - 1], U[s][i], SeenBy(U, m), D, n)
    BY <2>1 DEF Copies
  <2> QED
    BY <1>2, <2>2 DEF Outgoing, SentOk, Recorded
<1>3. CASE i = m[s] + 1
  <2>1. Numbers(D, n) /\ Keeps(s, ls[s], hs[s], gs[s], SeenBy(U, got[s]), SeenBy(U, m), D, n)
    BY DEF Copies
  <2>2. SentOk(s, Extraction(gs[s], hs[s]), SeenBy(U, m)[s], n[s], SeenBy(U, m), D, n)
    BY <2>1, ExtractSent
  <2>3. ~(i <= m[s])
    BY <1>1, <1>3
  <2>4. Outgoing(hs, gs, ds, m)[s][i] = Extraction(gs[s], hs[s])
    BY <1>3, <2>3 DEF Outgoing
  <2> QED
    BY <2>2, <2>4 DEF SentOk, Recorded
<1>4. CASE ~(i <= m[s]) /\ i # m[s] + 1
  BY <1>4, EmptyWithin, EmptyKernelType DEF Outgoing, Recorded
<1> QED
  BY <1>2, <1>3, <1>4

\* What the dots of the deltas are drawn from.
LEMMA RecordedDots ==
  ASSUME NEW es, NEW D, NEW n, Numbers(D, n),
         \A s \in Replica : \A i \in Index : Recorded(es[s][i], D, n)
  PROVE  \A s \in Replica : \A i \in Index : \A c :
           /\ \A e \in Key : Gives(es, s, i, e, c) => c \in 1 .. n[s]
           /\ \A t \in Replica : Takes(es, s, i, t, c) => c \in 1 .. n[t]
<1> SUFFICES ASSUME NEW s \in Replica, NEW i \in Index, NEW c
             PROVE  /\ \A e \in Key : Gives(es, s, i, e, c) => c \in 1 .. n[s]
                    /\ \A t \in Replica : Takes(es, s, i, t, c) => c \in 1 .. n[t]
  OBVIOUS
<1>1. Within(es[s][i], D, UpTo(n))
  BY DEF Recorded
<1>2. \A e \in Key : Gives(es, s, i, e, c) => c \in 1 .. n[s]
  BY <1>1 DEF Gives, Within, Numbers
<1>3. \A t \in Replica : Takes(es, s, i, t, c) => c \in 1 .. n[t]
  BY <1>1 DEF Takes, Within, Valueless, UpTo
<1> QED
  BY <1>2, <1>3

LEMMA ExtractionNothing == Extraction(EmptyKernel, EmptyKernel) = EmptyKernel
<1>1. Merge("state", EmptyKernel, EmptyKernel) = EmptyKernel
  BY EmptyKernelType, MergeNothing
<1>2. Merge("delta", EmptyKernel, EmptyKernel) = EmptyKernel
  BY EmptyKernelType, MergeNothing
<1> QED
  BY <1>1, <1>2 DEF Extraction

\* Replica r has nothing to send, and then something.
Starts(r, hs, gs, ht, gt) ==
  /\ hs[r] = EmptyKernel /\ gs[r] = EmptyKernel
  /\ SameBut(r, ht, hs) /\ SameBut(r, gt, gs)

LEMMA OutgoingStarts ==
  ASSUME NEW r \in Replica, NEW hs, NEW gs, NEW ht, NEW gt, Starts(r, hs, gs, ht, gt),
         NEW ds, NEW m, NEW got, Merged(m, got),
         NEW es, es = Outgoing(hs, gs, ds, m), NEW et, et = Outgoing(ht, gt, ds, m),
         NEW j, j = m[r] + 1
  PROVE  /\ j \in Index
         /\ \A i \in Index : i >= j => es[r][i] = EmptyKernel
         /\ \A q \in Replica \ {r} : got[q][r] \in Nat /\ got[q][r] < j
         /\ \A s \in Replica : \A i \in Index :
              et[s][i] = IF s = r /\ i = j THEN Extraction(gt[r], ht[r]) ELSE es[s][i]
<1>1. PICK l \in Nat : l = m[r] /\ j = l + 1
  BY DEF Merged
<1>2. j \in Index /\ \A i \in Index : /\ i >= j => ~(i <= l)
                                      /\ i = j \/ i <= l \/ (~(i <= l) /\ i # l + 1)
  BY <1>1 DEF Index
<1>3. \A i \in Index : i >= j => es[r][i] = EmptyKernel
  BY <1>1, <1>2, ExtractionNothing DEF Outgoing, Starts
<1>4. ASSUME NEW q \in Replica
      PROVE  got[q][r] \in Nat /\ got[q][r] < j
  <2>1. got[q][r] \in Nat /\ got[q][r] <= l
    BY <1>1 DEF Merged
  <2> QED
    BY <1>1, <2>1
<1>5. ASSUME NEW s \in Replica, NEW i \in Index
      PROVE  et[s][i] = IF s = r /\ i = j THEN Extraction(gt[r], ht[r]) ELSE es[s][i]
  <2>1. CASE s # r
    BY <2>1 DEF Outgoing, Starts, SameBut
  <2>2. CASE s = r /\ i = j
    <3>1. ~(i <= m[r]) /\ i = m[r] + 1
      BY <1>1, <1>2, <2>2
    <3> QED
      BY <2>2, <3>1 DEF Outgoing
  <2>3. CASE s = r /\ i # j
    BY <1>1, <1>2, <2>3 DEF Outgoing
  <2> QED
    BY <2>1, <2>2, <2>3
<1> QED
  BY <1>2, <1>3, <1>4, <1>5

\* Replica r, which has nothing to send, changes its container by d.
Alters(r, ls, hs, gs, lt, ht, d) ==
  /\ SingleChange(d, ls[r], r) /\ SameBut(r, lt, ls) /\ Starts(r, hs, gs, ht, gs)
  /\ lt[r] = Merge("state", ls[r], d) /\ ht[r] = Merge("delta", hs[r], d)

LEMMA PairedChange ==
  ASSUME NEW ls, NEW hs, NEW gs, NEW ds, NEW m, NEW got, Shared(ls, hs, gs, ds, m, got),
         PairedCopies(ls, hs, gs, ds, m, got), NEW r \in Replica, NEW d, NEW lt, NEW ht,
         Alters(r, ls, hs, gs, lt, ht, d)
  PROVE  PairedCopies(lt, ht, gs, ds, m, got)
<1>a. /\ SingleChange(d, ls[r], r) /\ SameBut(r, lt, ls) /\ Starts(r, hs, gs, ht, gs)
      /\ lt[r] = Merge("state", ls[r], d) /\ ht[r] = Merge("delta", EmptyKernel, d)
      /\ gs[r] = EmptyKernel
  BY DEF Alters, Starts
<1>1. PICK D, n, U : Copies(ls, hs, gs, ds, m, got, D, n, U)
  BY DEF Shared
<1>2. PICK es, et, x, j :
        /\ es = Outgoing(hs, gs, ds, m) /\ et = Outgoing(ht, gs, ds, m)
        /\ x = Extraction(EmptyKernel, ht[r]) /\ j = m[r] + 1
  OBVIOUS
<1>3. /\ Numbers(D, n) /\ Merged(m, got)
      /\ Keeps(r, ls[r], hs[r], gs[r], SeenBy(U, got[r]), SeenBy(U, m), D, n)
  BY <1>1 DEF Copies
<1>4. /\ ls[r] \in Kernel /\ Linked(ls[r]) /\ Within(ls[r], D, UpTo(n))
      /\ n[r] = 0 \/ n[r] \in ls[r].counters[r]
  BY <1>3 DEF Keeps, HoldsOf
<1>5. Paired(ls, es, got) /\ Singles(ls[r])
  BY <1>2 DEF PairedCopies, Paired
<1>6. PICK E, p, N, K : \E e \in Key : Replaces(D, n, E, p, r, ls[r], d, e, N, K)
  BY <1>a, <1>3, <1>4, SingleReplaces
<1>7. PICK e \in Key : Replaces(D, n, E, p, r, ls[r], d, e, N, K)
  BY <1>6
<1>8. /\ SentAlone(r, ls[r], lt[r], x, e, N)
      /\ Single(N) /\ (N = {} \/ ls[r].dots[e][r] = {}) /\ N \subseteq n[r] + 1 .. p[r]
  <2>1. PICK l, y, h : l = ls[r] /\ y = lt[r] /\ h = ht[r]
    OBVIOUS
  <2>2. /\ l \in Kernel /\ Linked(l) /\ Singles(l) /\ Within(l, D, UpTo(n))
        /\ Replaces(D, n, E, p, r, l, d, e, N, K)
    BY <1>4, <1>5, <1>7, <2>1
  <2>3. y = Merge("state", l, d) /\ h = Merge("delta", EmptyKernel, d) /\ x = Extraction(EmptyKernel, h)
    BY <1>a, <1>2, <2>1
  <2>4. /\ SentAlone(r, l, y, x, e, N)
        /\ Single(N) /\ (N = {} \/ l.dots[e][r] = {}) /\ N \subseteq n[r] + 1 .. p[r]
    BY <2>2, <2>3, UpdateAlone
  <2> QED
    BY <2>1, <2>4
<1>9. /\ \A k \in Key : \A s \in Replica :
           /\ lt[r].dots[k][s] = IF k = e THEN IF s = r THEN N ELSE {} ELSE ls[r].dots[k][s]
           /\ x.dots[k][s] = IF k = e /\ s = r THEN N ELSE {}
      /\ \A s \in Replica : Valueless(x, s) = ls[r].dots[e][s]
  BY <1>8 DEF SentAlone
<1>10. \A c \in N : c \notin 1 .. n[r]
  <2>1. n[r] \in Nat /\ \A c \in n[r] + 1 .. p[r] : c \notin 1 .. n[r]
    BY <1>3 DEF Numbers
  <2> QED
    BY <1>8, <2>1
<1>11. \A s \in Replica : \A i \in Index : Recorded(es[s][i], D, n)
  BY <1>1, <1>2, OutgoingRecorded
<1>12. \A s \in Replica : \A i \in Index : \A c :
         /\ \A f \in Key : Gives(es, s, i, f, c) => c \in 1 .. n[s]
         /\ \A t \in Replica : Takes(es, s, i, t, c) => c \in 1 .. n[t]
  BY <1>3, <1>11, RecordedDots
<1>13. \A f \in Key : \A s \in Replica : ls[r].dots[f][s] \subseteq D[f][s]
  BY <1>4 DEF Within
<1>14. Novel(r, ls, es, x)
  <2>1. ls[r].dots[e][r] \subseteq 1 .. n[r]
    BY <1>3, <1>13 DEF Numbers
  <2>2. \A f \in Key : \A c \in x.dots[f][r] : c \in N
    BY <1>9
  <2>3. \A f \in Key : \A c \in x.dots[f][r] :
          /\ c \notin Valueless(x, r)
          /\ \A i \in Index : /\ \A g \in Key : ~Gives(es, r, i, g, c)
                             /\ \A s \in Replica : ~Takes(es, s, i, r, c)
    BY <1>9, <1>10, <1>12, <2>1, <2>2
  <2>4. \A f \in Key : Single(x.dots[f][r]) /\ \A s \in Replica \ {r} : x.dots[f][s] = {}
    BY <1>8, <1>9 DEF Single
  <2>5. \A f \in Key : x.dots[f][r] = {} \/ ls[r].dots[f][r] = {}
    BY <1>8, <1>9
  <2> QED
    BY <1>9, <2>3, <2>4, <2>5 DEF Novel
<1>15. \A k \in Key : \A s \in Replica :
         lt[r].dots[k][s] = (ls[r].dots[k][s] \ Valueless(x, s)) \cup x.dots[k][s]
  <2> SUFFICES ASSUME NEW k \in Key, NEW s \in Replica
               PROVE  lt[r].dots[k][s] = (ls[r].dots[k][s] \ Valueless(x, s)) \cup x.dots[k][s]
    OBVIOUS
  <2>1. CASE k = e
    BY <1>9, <2>1
  <2>2. CASE k # e
    <3>1. ls[r].dots[k][s] \cap ls[r].dots[e][s] = {}
      BY <1>3, <1>13, <2>2 DEF Numbers, Apart
    <3> QED
      BY <1>9, <2>2, <3>1
  <2> QED
    BY <2>1, <2>2
<1>16. /\ j \in Index
       /\ \A i \in Index : i >= j => es[r][i] = EmptyKernel
       /\ \A q \in Replica \ {r} : got[q][r] \in Nat /\ got[q][r] < j
       /\ \A s \in Replica : \A i \in Index :
            et[s][i] = IF s = r /\ i = j THEN Extraction(gs[r], ht[r]) ELSE es[s][i]
  BY <1>a, <1>2, <1>3, OutgoingStarts
<1>17. Adds(r, j, x, ls, lt, es, et, got)
  BY <1>a, <1>2, <1>14, <1>15, <1>16 DEF Adds
<1>18. Paired(lt, et, got)
  BY <1>5, <1>17, PairedAdds
<1> QED
  BY <1>2, <1>18 DEF PairedCopies

\* Replica r makes its container.
LEMMA PairedFill ==
  ASSUME NEW ls, NEW hs, NEW gs, NEW ds, NEW m, NEW got, Shared(ls, hs, gs, ds, m, got),
         PairedCopies(ls, hs, gs, ds, m, got), NEW r \in Replica, NEW f, NEW a, Fills(r, f, a),
         \A s \in Replica : Valueless(f, s) = {}, NEW lt, NEW gt,
         Makes(r, ls, hs, gs, lt, gt, f)
  PROVE  PairedCopies(lt, hs, gt, ds, m, got)
<1>a. /\ ls[r] = EmptyKernel /\ hs[r] = EmptyKernel
      /\ SameBut(r, lt, ls) /\ Starts(r, hs, gs, hs, gt)
      /\ lt[r] = Merge("state", EmptyKernel, f) /\ gt[r] = lt[r]
  BY DEF Makes, Starts, SameBut
<1>1. PICK D, n, U : Copies(ls, hs, gs, ds, m, got, D, n, U)
  BY DEF Shared
<1>2. PICK es, et, x, j :
        /\ es = Outgoing(hs, gs, ds, m) /\ et = Outgoing(hs, gt, ds, m)
        /\ x = Extraction(lt[r], EmptyKernel) /\ j = m[r] + 1
  OBVIOUS
<1>3. /\ Numbers(D, n) /\ Merged(m, got)
      /\ Keeps(r, ls[r], hs[r], gs[r], SeenBy(U, got[r]), SeenBy(U, m), D, n)
  BY <1>1 DEF Copies
<1>4. n[r] = 0
  BY <1>a, <1>3, EmptyWithin DEF Keeps, HoldsOf
<1>5. Paired(ls, es, got)
  BY <1>2 DEF PairedCopies
<1>6. /\ lt[r].dots = f.dots /\ x.dots = f.dots
      /\ \A s \in Replica : Valueless(x, s) = {}
  BY <1>a, <1>2, FillAlone
<1>7. /\ \A k \in Key : Single(f.dots[k][r])
      /\ \A k \in Key : \A s \in Replica \ {r} : f.dots[k][s] = {}
  BY DEF Fills, Single
<1>8. \A k \in Key : \A s \in Replica : ls[r].dots[k][s] = {}
  BY <1>a, EmptyWithin
<1>9. \A s \in Replica : \A i \in Index : Recorded(es[s][i], D, n)
  BY <1>1, <1>2, OutgoingRecorded
<1>10. \A s \in Replica : \A i \in Index : \A c :
         /\ \A k \in Key : Gives(es, s, i, k, c) => c \in 1 .. n[s]
         /\ \A t \in Replica : Takes(es, s, i, t, c) => c \in 1 .. n[t]
  BY <1>3, <1>9, RecordedDots
<1>11. \A c : c \notin 1 .. n[r]
  BY <1>4
<1>12. Novel(r, ls, es, x)
  BY <1>6, <1>7, <1>8, <1>10, <1>11 DEF Novel
<1>13. /\ j \in Index
       /\ \A i \in Index : i >= j => es[r][i] = EmptyKernel
       /\ \A q \in Replica \ {r} : got[q][r] \in Nat /\ got[q][r] < j
       /\ \A s \in Replica : \A i \in Index :
            et[s][i] = IF s = r /\ i = j THEN Extraction(gt[r], hs[r]) ELSE es[s][i]
  BY <1>a, <1>2, <1>3, OutgoingStarts
<1>14. Adds(r, j, x, ls, lt, es, et, got)
  BY <1>a, <1>2, <1>6, <1>8, <1>12, <1>13 DEF Adds
<1>15. Paired(lt, et, got)
  BY <1>5, <1>14, PairedAdds
<1> QED
  BY <1>2, <1>15 DEF PairedCopies

\* Replica r sends what it was to send.
Sends(r, hs, gs, ds, m, ht, gt, dt, mt) ==
  /\ SameBut(r, ht, hs) /\ SameBut(r, gt, gs) /\ SameBut(r, dt, ds)
  /\ ht[r] = EmptyKernel /\ gt[r] = EmptyKernel
  /\ \A i \in 1 .. m[r] : dt[r][i] = ds[r][i]
  /\ m \in [Replica -> Nat] /\ mt = [m EXCEPT ![r] = @ + 1]
  /\ dt[r][m[r] + 1] = Extraction(gs[r], hs[r])

LEMMA PairedExtract ==
  ASSUME NEW ls, NEW hs, NEW gs, NEW ds, NEW m, NEW got,
         PairedCopies(ls, hs, gs, ds, m, got), NEW r \in Replica,
         NEW ht, NEW gt, NEW dt, NEW mt, Sends(r, hs, gs, ds, m, ht, gt, dt, mt)
  PROVE  PairedCopies(ls, ht, gt, dt, mt, got)
<1>a. /\ SameBut(r, ht, hs) /\ SameBut(r, gt, gs) /\ SameBut(r, dt, ds)
      /\ ht[r] = EmptyKernel /\ gt[r] = EmptyKernel
      /\ \A i \in 1 .. m[r] : dt[r][i] = ds[r][i]
      /\ m \in [Replica -> Nat] /\ mt = [m EXCEPT ![r] = @ + 1]
      /\ dt[r][m[r] + 1] = Extraction(gs[r], hs[r])
  BY DEF Sends
<1>1. PICK l \in Nat : m[r] = l /\ mt[r] = l + 1
  BY <1>a
<1> DEFINE Old(s, i) == IF i <= m[s] THEN ds[s][i]
                        ELSE IF i = m[s] + 1 THEN Extraction(gs[s], hs[s]) ELSE EmptyKernel
           New(s, i) == IF i <= mt[s] THEN dt[s][i]
                        ELSE IF i = mt[s] + 1 THEN Extraction(gt[s], ht[s]) ELSE EmptyKernel
<1>2. ASSUME NEW s \in Replica, NEW i \in Index
      PROVE  Old(s, i) = New(s, i)
  <2>1. CASE s # r
    <3>1. /\ mt[s] = m[s] /\ dt[s] = ds[s] /\ gt[s] = gs[s] /\ ht[s] = hs[s]
      BY <1>a, <2>1 DEF SameBut
    <3> QED
      BY <3>1
  <2>2. CASE s = r /\ i <= l
    <3>1. i \in 1 .. l /\ i <= l + 1
      BY <2>2 DEF Index
    <3> QED
      BY <1>a, <1>1, <2>2, <3>1
  <2>3. CASE s = r /\ i = l + 1
    <3>1. ~(i <= l) /\ i <= l + 1
      BY <2>3
    <3> QED
      BY <1>a, <1>1, <2>3, <3>1
  <2>4. CASE s = r /\ ~(i <= l) /\ i # l + 1
    <3>1. ~(i <= l + 1)
      BY <2>4 DEF Index
    <3>2. New(s, i) = EmptyKernel
      BY <1>a, <1>1, <2>4, <3>1, ExtractionNothing
    <3> QED
      BY <1>1, <2>4, <3>2
  <2> QED
    BY <2>1, <2>2, <2>3, <2>4
<1> HIDE DEF Old, New
<1>3. [s \in Replica |-> [i \in Index |-> Old(s, i)]]
        = [s \in Replica |-> [i \in Index |-> New(s, i)]]
  BY <1>2
<1>4. Outgoing(hs, gs, ds, m) = Outgoing(ht, gt, dt, mt)
  BY <1>3 DEF Outgoing, Old, New
<1> QED
  BY <1>4 DEF PairedCopies

\* Replica r merges the next delta of replica s.
LEMMA PairedDeliver ==
  ASSUME NEW ls, NEW hs, NEW gs, NEW ds, NEW m, NEW got, Shared(ls, hs, gs, ds, m, got),
         PairedCopies(ls, hs, gs, ds, m, got), NEW r \in Replica, NEW s \in Replica,
         \A t \in Replica : t = r \/ t = s, NEW j, NEW lt, NEW gott,
         Receives(r, s, j, ls, lt, ds, m, got, gott)
  PROVE  PairedCopies(lt, hs, gs, ds, m, gott)
<1>a. /\ r # s /\ j = got[r][s] + 1 /\ j <= m[s] /\ gott = [got EXCEPT ![r][s] = j]
      /\ SameBut(r, lt, ls)
  BY DEF Receives
<1>1. Shows(ls[r], ds[s][j], lt[r])
  BY SharedDeliver
<1>2. got \in [Replica -> [Replica -> Nat]]
  BY DEF Shared, Copies, Merged
<1>3. j \in Index
  BY <1>a, <1>2 DEF Index
<1>4. PICK es : es = Outgoing(hs, gs, ds, m)
  OBVIOUS
<1>5. es[s][j] = ds[s][j]
  BY <1>a, <1>3, <1>4 DEF Outgoing
<1>6. Gets(r, s, j, ls, lt, es, got, gott)
  BY <1>a, <1>1, <1>2, <1>5 DEF Gets
<1>7. Paired(lt, es, gott)
  BY <1>4, <1>6, PairedGets DEF PairedCopies
<1> QED
  BY <1>4, <1>7 DEF PairedCopies

\* No delta is to be sent or under way.
LEMMA PairedSame ==
  ASSUME NEW ls, NEW hs, NEW gs, NEW ds, NEW m, NEW got, Shared(ls, hs, gs, ds, m, got),
         PairedCopies(ls, hs, gs, ds, m, got),
         \A r \in Replica : hs[r] = EmptyKernel /\ gs[r] = EmptyKernel,
         \A r, s \in Replica : r # s => got[r][s] = m[s]
  PROVE  \A q, r \in Replica : ls[q].keys = ls[r].keys
<1> SUFFICES ASSUME NEW q \in Replica, NEW r \in Replica
             PROVE  ls[q].keys = ls[r].keys
  OBVIOUS
<1>1. PICK D, n, U : Copies(ls, hs, gs, ds, m, got, D, n, U)
  BY DEF Shared
<1>2. PICK es : es = Outgoing(hs, gs, ds, m)
  OBVIOUS
<1>3. ASSUME NEW s \in Replica, NEW t \in Replica, NEW i \in Index
      PROVE  Knows(got, s, t, i) \/ es[t][i] = EmptyKernel
  <2>1. CASE s = t \/ i <= m[t]
    BY <2>1 DEF Knows
  <2>2. CASE ~(i <= m[t])
    BY <1>2, <2>2, ExtractionNothing DEF Outgoing
  <2> QED
    BY <2>1, <2>2
<1>4. \A e \in Key : \A t \in Replica : ls[q].dots[e][t] = ls[r].dots[e][t]
  BY <1>2, <1>3, PairedMeet DEF PairedCopies
<1>5. \A s \in Replica : ls[s] \in Kernel /\ Linked(ls[s])
  BY <1>1 DEF Copies, Keeps, HoldsOf
<1>6. SameElements(ls[q], ls[r])
  BY <1>4, <1>5, SameDots
<1> QED
  BY <1>6 DEF SameElements

\* Nothing has happened yet.
LEMMA PairedInit ==
  ASSUME NEW ls, NEW hs, NEW gs, NEW ds, NEW m, NEW got,
         \A r \in Replica :
           ls[r] = EmptyKernel /\ hs[r] = EmptyKernel /\ gs[r] = EmptyKernel /\ m[r] = 0
  PROVE  PairedCopies(ls, hs, gs, ds, m, got)
<1>1. PICK es : es = Outgoing(hs, gs, ds, m)
  OBVIOUS
<1>2. ASSUME NEW s \in Replica, NEW i \in Index
      PROVE  es[s][i] = EmptyKernel
  <2>1. ~(i <= m[s])
    BY DEF Index
  <2> QED
    BY <1>1, <2>1, ExtractionNothing DEF Outgoing
<1>3. /\ \A e \in Key : \A s \in Replica : EmptyKernel.dots[e][s] = {}
      /\ \A s \in Replica : Valueless(EmptyKernel, s) = {}
  BY DEF EmptyKernel, NoDots, Valueless
<1>4. \A s \in Replica : \A i \in Index : \A c :
        /\ \A e \in Key : ~Gives(es, s, i, e, c)
        /\ \A t \in Replica : ~Takes(es, s, i, t, c)
  BY <1>2, <1>3 DEF Gives, Takes
<1>5. OwnDots(es)
  BY <1>2, <1>3 DEF OwnDots, Single
<1>6. OnceOnly(es) /\ SeenFirst(es, got) /\ Vacated(es)
  BY <1>4 DEF OnceOnly, SeenFirst, Vacated
<1>7. HasWhatItKnows(ls, es, got)
  BY <1>3, <1>4 DEF HasWhatItKnows, Gained
<1>8. \A r \in Replica : Singles(ls[r])
  BY <1>3 DEF Singles, Single
<1> QED
  BY <1>1, <1>5, <1>6, <1>7, <1>8 DEF PairedCopies, Paired

-----------------------------------------------------------------------------
(* The delta of one update in a hook of the delta kind.                     *)

\* Two deltas of the same content, but for the links, merge alike.
Alike(d, e) == d.keys = e.keys /\ d.dots = e.dots /\ d.counters = e.counters

LEMMA MergeAlike ==
  ASSUME NEW tag, NEW l, NEW d, NEW e, Alike(d, e)
  PROVE  Merge(tag, l, d) = Merge(tag, l, e)
<1>1. MergedDots(tag, l, d) = MergedDots(tag, l, e)
  BY DEF MergedDots, Alike
<1>2. MergedLinks(tag, l, d) = MergedLinks(tag, l, e)
  BY DEF MergedLinks, CountersErased, Alike
<1>3. \A r \in Replica : Valueless(d, r) = Valueless(e, r)
  BY DEF Valueless, Alike
<1>4. d.keys = e.keys /\ d.counters = e.counters
  BY DEF Alike
<1>5. [r \in Replica |-> {p \in MergedLinks(tag, l, d)[r] : p[1] \in Valueless(d, r)}]
      = [r \in Replica |-> {p \in MergedLinks(tag, l, e)[r] : p[1] \in Valueless(e, r)}]
  BY <1>2, <1>3
<1>6. [r \in Replica |-> CountersMerge(tag, l.counters[r], d.counters[r])]
      = [r \in Replica |-> CountersMerge(tag, l.counters[r], e.counters[r])]
  BY <1>4
<1> DEFINE
      Of(keys, dots1, links1, dead, counters) ==
        LET dots2 == [k \in Key |-> [r \in Replica |->
                        {c \in dots1[k][r] : <<c, k>> \notin dead[r]}]]
            hit   == {k \in Key : \E r \in Replica : \E p \in dead[r] : p[2] = k}
        IN  [keys     |-> {k \in l.keys \cup keys : k \in hit => dots2[k] # NoDots},
             dots     |-> dots2,
             counters |-> counters,
             links    |-> [r \in Replica |-> links1[r] \ dead[r]]]
      Dead(f) == [r \in Replica |-> {p \in MergedLinks(tag, l, f)[r] : p[1] \in Valueless(f, r)}]
      Counters(f) == [r \in Replica |-> CountersMerge(tag, l.counters[r], f.counters[r])]
<1>7. \A f : Merge(tag, l, f) =
        Of(f.keys, MergedDots(tag, l, f), MergedLinks(tag, l, f), Dead(f), Counters(f))
  BY Zenon DEF Merge
<1>8. Dead(d) = Dead(e) /\ Counters(d) = Counters(e)
  BY <1>5, <1>6
<1> HIDE DEF Of, Dead, Counters
<1>9. /\ Merge(tag, l, d) =
           Of(d.keys, MergedDots(tag, l, d), MergedLinks(tag, l, d), Dead(d), Counters(d))
      /\ Merge(tag, l, e) =
           Of(e.keys, MergedDots(tag, l, e), MergedLinks(tag, l, e), Dead(e), Counters(e))
  BY <1>7
<1> QED
  BY <1>1, <1>2, <1>4, <1>8, <1>9

\* The hook of an update holds its delta.
LEMMA HookAlike ==
  ASSUME NEW d \in Kernel, Supported(d), Apart(d.dots), NEW h, h = Merge("delta", EmptyKernel, d)
  PROVE  Alike(h, d) /\ h \in Kernel /\ Linked(h)
<1> DEFINE C == [r \in Replica |-> Nat]
<1>1. Within(d, d.dots, C) /\ Within(EmptyKernel, d.dots, C)
  BY EmptyWithin DEF Within, Kernel, Dots
<1>2. \A S : CountersMerge("delta", {}, S) = S
  BY DEF CountersMerge, Succeeds
<1>3. /\ \A k \in Key : \A r \in Replica : EmptyKernel.dots[k][r] = {}
      /\ \A r \in Replica : EmptyKernel.counters[r] = {}
  BY DEF EmptyKernel, NoDots
<1>4. Stays("delta", EmptyKernel, d)
  <2> SUFFICES ASSUME NEW k \in Key, NEW r \in Replica
               PROVE  d.dots[k][r] \subseteq
                        CountersMerge("delta", EmptyKernel.dots[k][r], d.dots[k][r])
    BY DEF Stays
  <2>1. EmptyKernel.dots[k][r] = {}
    BY <1>3
  <2> QED
    BY <1>2, <2>1
<1>5. EmptyKernel \in Kernel /\ Linked(EmptyKernel)
  BY EmptyKernelType, EmptyWithin
<1>6. MergedCleanly("delta", EmptyKernel, d) /\ h \in Kernel
  BY <1>1, <1>4, <1>5, MergeLinked, MergeType
<1>7. ASSUME NEW k \in Key, NEW r \in Replica
      PROVE  h.dots[k][r] = d.dots[k][r]
  <2>1. d.dots[k][r] \cap Valueless(d, r) = {}
    BY DEF Valueless, Supported
  <2>2. h.dots[k][r] =
          CountersMerge("delta", EmptyKernel.dots[k][r], d.dots[k][r]) \ Valueless(d, r)
    BY <1>6 DEF MergedCleanly
  <2>3. EmptyKernel.dots[k][r] = {}
    BY <1>3
  <2>4. CountersMerge("delta", {}, d.dots[k][r]) = d.dots[k][r]
    BY <1>2
  <2> QED
    BY <2>1, <2>2, <2>3, <2>4
<1>8. h.dots = d.dots
  <2>1. /\ h.dots \in [Key -> [Replica -> SUBSET (Nat \ {0})]]
        /\ d.dots \in [Key -> [Replica -> SUBSET (Nat \ {0})]]
    BY <1>6 DEF Kernel, Dots
  <2>2. \A k \in Key : h.dots[k] = d.dots[k]
    BY <1>7, <2>1
  <2> QED
    BY <2>1, <2>2
<1>9. Linked(h) /\ Supported(h)
  BY <1>6, LinkedPairs DEF MergedCleanly
<1>10. h.keys = d.keys
  <2>1. h.keys \subseteq Key /\ d.keys \subseteq Key
    BY <1>6 DEF Kernel
  <2> QED
    BY <1>7, <1>9, <2>1 DEF Supported
<1>11. h.counters = d.counters
  <2>1. \A r \in Replica : h.counters[r] = CountersMerge("delta", EmptyKernel.counters[r], d.counters[r])
    BY MergeCounters
  <2>2. \A r \in Replica : h.counters[r] = d.counters[r]
    BY <1>2, <1>3, <2>1
  <2>3. h.counters \in [Replica -> SUBSET (Nat \ {0})] /\ d.counters \in [Replica -> SUBSET (Nat \ {0})]
    BY <1>6 DEF Kernel, Dots
  <2> QED
    BY <2>2, <2>3
<1> QED
  BY <1>6, <1>8, <1>9, <1>10, <1>11 DEF Alike

\* So does what is extracted from that hook, where it is merged.
LEMMA HookTwice ==
  ASSUME NEW d \in Kernel, Supported(d), Apart(d.dots), NEW h, h = Merge("delta", EmptyKernel, d),
         NEW x, x = Merge("delta", EmptyKernel, h), NEW l
  PROVE  Merge("state", l, x) = Merge("state", l, d)
<1>1. Alike(h, d) /\ h \in Kernel /\ Linked(h)
  BY HookAlike
<1>2. Supported(h) /\ Apart(h.dots)
  BY <1>1, LinkedPairs DEF Alike
<1>3. Alike(x, h)
  BY <1>1, <1>2, HookAlike
<1>4. Alike(x, d)
  BY <1>1, <1>3 DEF Alike
<1> QED
  BY <1>4, MergeAlike
=============================================================================
