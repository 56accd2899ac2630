------------------------ MODULE CrdtMapNestedProofs ------------------------
(***************************************************************************)
(* Theorems about the nested containers of CrdtMap, for every set of       *)
(* replicas, keys and elements and for every use.                          *)
(*                                                                         *)
(* The argument. A container nested at a key numbers its dots from one, so *)
(* that its metadata is sound only as long as its copies are copies of one *)
(* container.  That is so in two ways to use a map.  Where no key goes,    *)
(* the containers at a key are made once or share their dots, and are what *)
(* the kernels of a set are (StayInv).  Where one replica updates and      *)
(* extracts each update by itself, a reader holds what the writer had when *)
(* it extracted the delta that the reader merged last, and a container     *)
(* that is made anew comes after the reader has dropped the one before     *)
(* (OneInv).  Two replicas that extract every insert and erase by itself   *)
(* end up with the same containers, because a container is what the        *)
(* changes that have arrived make of it (PairInv).                         *)
(***************************************************************************)
EXTENDS CrdtMapProofs

-----------------------------------------------------------------------------
(* The operators of the instances of DotKernel are the same.               *)

LEMMA SameInner ==
  /\ InnerFacts!Kernel = Inner!Kernel
  /\ InnerFacts!EmptyKernel = Inner!EmptyKernel
  /\ \A tag, l, d : InnerFacts!Merge(tag, l, d) = Inner!Merge(tag, l, d)
  /\ \A k, r, c : InnerFacts!ValueDelta(k, r, c) = Inner!ValueDelta(k, r, c)
  /\ \A l, K : InnerFacts!CountersDelta(l, K) = Inner!CountersDelta(l, K)
  /\ \A S : InnerFacts!NextCounter(S) = Inner!NextCounter(S)
  /\ \A l : InnerFacts!Linked(l) <=> Inner!Linked(l)
<1>1. InnerFacts!Kernel = Inner!Kernel
  BY DEF Inner!Kernel, InnerFacts!Kernel, Inner!Dots, InnerFacts!Dots
<1>2. InnerFacts!EmptyKernel = Inner!EmptyKernel
  BY DEF InnerFacts!EmptyKernel, Inner!EmptyKernel, InnerFacts!NoDots, Inner!NoDots
<1>3. ASSUME NEW tag, NEW l, NEW d
      PROVE  InnerFacts!Merge(tag, l, d) = Inner!Merge(tag, l, d)
  BY ZenonT(60) DEF Inner!Merge, InnerFacts!Merge, Inner!MergedDots, InnerFacts!MergedDots,
         Inner!MergedLinks, InnerFacts!MergedLinks, Inner!Valueless, InnerFacts!Valueless,
         Inner!CountersErased, InnerFacts!CountersErased, Inner!CountersMerge,
         InnerFacts!CountersMerge, Inner!Collapse, InnerFacts!Collapse,
         Inner!Succeeds, InnerFacts!Succeeds, Inner!NoDots, InnerFacts!NoDots
<1>4. /\ \A k, r, c : InnerFacts!ValueDelta(k, r, c) = Inner!ValueDelta(k, r, c)
      /\ \A l, K : InnerFacts!CountersDelta(l, K) = Inner!CountersDelta(l, K)
  BY <1>2 DEF InnerFacts!ValueDelta, Inner!ValueDelta, InnerFacts!CountersDelta,
     Inner!CountersDelta, InnerFacts!NoDots, Inner!NoDots
<1>5. \A S : InnerFacts!NextCounter(S) = Inner!NextCounter(S)
  BY DEF InnerFacts!NextCounter, Inner!NextCounter, InnerFacts!Max, Inner!Max
<1>6. \A l : InnerFacts!Linked(l) <=> Inner!Linked(l)
  BY DEF InnerFacts!Linked, Inner!Linked, InnerFacts!NoDots, Inner!NoDots
<1> QED
  BY <1>1, <1>2, <1>3, <1>4, <1>5, <1>6

LEMMA SameOuter ==
  /\ OuterFacts!Kernel = Outer!Kernel
  /\ OuterFacts!EmptyKernel = Outer!EmptyKernel
  /\ \A tag, l, d : OuterFacts!Merge(tag, l, d) = Outer!Merge(tag, l, d)
  /\ \A k, r, c : OuterFacts!ValueDelta(k, r, c) = Outer!ValueDelta(k, r, c)
  /\ \A l, K : OuterFacts!CountersDelta(l, K) = Outer!CountersDelta(l, K)
<1>1. OuterFacts!Kernel = Outer!Kernel
  BY DEF Outer!Kernel, OuterFacts!Kernel, Outer!Dots, OuterFacts!Dots
<1>2. OuterFacts!EmptyKernel = Outer!EmptyKernel
  BY DEF OuterFacts!EmptyKernel, Outer!EmptyKernel, OuterFacts!NoDots, Outer!NoDots
<1>3. ASSUME NEW tag, NEW l, NEW d
      PROVE  OuterFacts!Merge(tag, l, d) = Outer!Merge(tag, l, d)
  BY ZenonT(60) DEF Outer!Merge, OuterFacts!Merge, Outer!MergedDots, OuterFacts!MergedDots,
         Outer!MergedLinks, OuterFacts!MergedLinks, Outer!Valueless, OuterFacts!Valueless,
         Outer!CountersErased, OuterFacts!CountersErased, Outer!CountersMerge,
         OuterFacts!CountersMerge, Outer!Collapse, OuterFacts!Collapse,
         Outer!Succeeds, OuterFacts!Succeeds, Outer!NoDots, OuterFacts!NoDots
<1>4. /\ \A k, r, c : OuterFacts!ValueDelta(k, r, c) = Outer!ValueDelta(k, r, c)
      /\ \A l, K : OuterFacts!CountersDelta(l, K) = Outer!CountersDelta(l, K)
  BY <1>2 DEF OuterFacts!ValueDelta, Outer!ValueDelta, OuterFacts!CountersDelta,
     Outer!CountersDelta, OuterFacts!NoDots, Outer!NoDots
<1> QED
  BY <1>1, <1>2, <1>3, <1>4

\* What is proved of nested kernels, in the terms of CrdtMap.
LEMMA InnerNothing ==
  ASSUME NEW tag, NEW l \in Inner!Kernel
  PROVE  Inner!Merge(tag, l, Inner!EmptyKernel) = l
BY SameInner, InnerFacts!MergeNothing

LEMMA OuterNothing ==
  ASSUME NEW tag, NEW l \in Outer!Kernel
  PROVE  Outer!Merge(tag, l, Outer!EmptyKernel) = l
BY SameOuter, OuterFacts!MergeNothing

LEMMA InnerEmpty ==
  /\ Inner!EmptyKernel \in Inner!Kernel /\ Inner!EmptyKernel.keys = {}
  /\ Inner!Linked(Inner!EmptyKernel)
<1>1. InnerFacts!EmptyKernel \in InnerFacts!Kernel
  BY InnerFacts!EmptyKernelType
<1>2. Inner!Linked(Inner!EmptyKernel)
  BY DEF Inner!Linked, Inner!EmptyKernel, Inner!NoDots
<1> QED
  BY <1>1, <1>2, SameInner DEF Inner!EmptyKernel

-----------------------------------------------------------------------------
(* What the actions do to the nested containers, key by key.               *)

\* Nested content is that of the keys.
ShapedMap(m) == \A k \in Key : k \notin m.outer.keys => m.inner[k] = Inner!EmptyKernel

Shaped ==
  /\ \A r \in Replica :
       /\ ShapedMap(state[r])
       /\ \A k \in Key : k \notin state[r].outer.keys => pending[r][k] = Inner!EmptyKernel
  /\ \A s \in Replica : \A i \in 1 .. Len(sent[s]) : ShapedMap(sent[s][i].delta)

LEMMA MergeShaped ==
  ASSUME NEW tag, NEW l, NEW d
  PROVE  ShapedMap(MapMerge(tag, l, d))
<1>1. PICK m : m = MapMerge(tag, l, d)
  OBVIOUS
<1>2. m.inner = MergedInner(m.outer.keys, l, d)
  BY <1>1 DEF MapMerge
<1> QED
  BY <1>1, <1>2 DEF MergedInner, ShapedMap

\* Nested containers are merged, where the key stays.
LEMMA MergeInner ==
  ASSUME NEW tag, NEW l \in Map, NEW d \in Map, ShapedMap(d), NEW m, m = MapMerge(tag, l, d),
         NEW k \in Key
  PROVE  m.inner[k] = IF k \in m.outer.keys THEN Inner!Merge("state", l.inner[k], d.inner[k])
                      ELSE Inner!EmptyKernel
<1>1. m.inner = MergedInner(m.outer.keys, l, d)
  BY DEF MapMerge
<1>2. l.inner[k] \in Inner!Kernel
  BY DEF Map
<1>3. k \notin d.outer.keys => Inner!Merge("state", l.inner[k], d.inner[k]) = l.inner[k]
  BY <1>2, InnerNothing DEF ShapedMap
<1> QED
  BY <1>1, <1>3 DEF MergedInner

\* What a commit at replica r leaves.
LEMMA Committed ==
  ASSUME MInv, NEW r \in Replica, NEW map, NEW p, NEW delta, CommitTo(r, map, p, delta)
  PROVE  /\ state'[r] = MapMerge("state", map, delta)
         /\ hook'[r] = MapMerge("delta", hook[r], delta)
         /\ \A k \in Key : pending'[r][k] =
              IF k \in state'[r].outer.keys THEN p[k] ELSE Inner!EmptyKernel
         /\ \A q \in Replica \ {r} :
              state'[q] = state[q] /\ hook'[q] = hook[q] /\ pending'[q] = pending[q]
         /\ sent' = sent /\ got' = got /\ use' = use
<1>1. /\ DOMAIN hook = Replica /\ DOMAIN pending = Replica /\ DOMAIN state = Replica
      /\ state' = [state EXCEPT ![r] = MapMerge("state", map, delta)]
      /\ hook' = [hook EXCEPT ![r] = MapMerge("delta", hook[r], delta)]
      /\ pending' = [pending EXCEPT ![r] = PendingOf(p, state'[r].outer.keys)]
      /\ sent' = sent /\ got' = got /\ use' = use
  BY TypedIsTypeOK DEF MInv, TypeOK, CommitTo
<1>2. pending'[r] = PendingOf(p, state'[r].outer.keys)
  BY <1>1
<1> QED
  BY <1>1, <1>2 DEF PendingOf

\* Only replica r moves.
Alone(r) ==
  /\ \A q \in Replica \ {r} :
       state'[q] = state[q] /\ hook'[q] = hook[q] /\ pending'[q] = pending[q]
  /\ sent' = sent /\ got' = got /\ use' = use

\* Nothing is done to the container of replica r at key k.
Unmoved(r, k) ==
  /\ state'[r].inner[k] = state[r].inner[k]
  /\ pending'[r][k] = pending[r][k]
  /\ hook'[r].inner[k] = hook[r].inner[k]

\* Key j of replica r gets a dot and the content `inner`; its container and its hook have
\* become `base` and `p` before.
KeyMoves(r, j, base, p, inner) ==
  /\ Alone(r)
  /\ state'[r].outer.keys = state[r].outer.keys \cup {j}
  /\ \A k \in Key \ {j} : Unmoved(r, k)
  /\ state'[r].inner[j] = Inner!Merge("state", base, inner)
  /\ hook'[r].inner[j] = Inner!Merge("state", hook[r].inner[j], inner)
  /\ pending'[r][j] = p

\* A map whose nested container at key j is `base`, and nested hooks of which that is `p`.
NowAt(r, j, map, hooks, base, p) ==
  /\ map \in Map /\ hooks \in [Key -> Inner!Kernel]
  /\ map.outer = state[r].outer
  /\ \A k \in Key \ {j} : map.inner[k] = state[r].inner[k] /\ hooks[k] = pending[r][k]
  /\ map.inner[j] = base /\ hooks[j] = p

LEMMA KeyDeltaShape ==
  ASSUME MInv, NEW r \in Replica, NEW j \in Key, NEW inner \in Inner!Kernel
  PROVE  /\ KeyDelta(r, j, inner) \in Map /\ ShapedMap(KeyDelta(r, j, inner))
         /\ KeyDelta(r, j, inner).outer.keys = {j}
         /\ \A k \in Key : KeyDelta(r, j, inner).inner[k] =
              IF k = j THEN inner ELSE Inner!EmptyKernel
<1>1. PICK c \in Nat \ {0} : c = NextDot(r)
  BY KeyDotValue
<1>2. Outer!ValueDelta(j, r, c) \in Outer!Kernel /\ Outer!ValueDelta(j, r, c).keys = {j}
  BY DEF Outer!ValueDelta, Outer!EmptyKernel, Outer!Kernel, Outer!NoDots, Outer!Dots
<1>3. PICK ins : ins = [NoInner EXCEPT ![j] = inner]
  OBVIOUS
<1>4. /\ ins \in [Key -> Inner!Kernel]
      /\ \A k \in Key : ins[k] = IF k = j THEN inner ELSE Inner!EmptyKernel
  BY <1>3, InnerEmpty DEF NoInner
<1>5. KeyDelta(r, j, inner) = [outer |-> Outer!ValueDelta(j, r, c), inner |-> ins]
  BY <1>1, <1>3 DEF KeyDelta
<1> QED
  BY <1>2, <1>4, <1>5 DEF Map, ShapedMap

LEMMA KeyMoved ==
  ASSUME MInv, MInv', Shaped, NEW r \in Replica, NEW j \in Key, NEW map, NEW hooks,
         NEW base, NEW p, NowAt(r, j, map, hooks, base, p), NEW inner \in Inner!Kernel,
         CommitTo(r, map, hooks, KeyDelta(r, j, inner)), Set!Insert(r, j)
  PROVE  KeyMoves(r, j, base, p, inner)
<1>1. PICK d : d = KeyDelta(r, j, inner) /\ CommitTo(r, map, hooks, d)
  OBVIOUS
<1>2. /\ d \in Map /\ ShapedMap(d)
      /\ \A k \in Key : d.inner[k] = IF k = j THEN inner ELSE Inner!EmptyKernel
  BY <1>1, KeyDeltaShape
<1>3. /\ state'[r] = MapMerge("state", map, d)
      /\ hook'[r] = MapMerge("delta", hook[r], d)
      /\ \A k \in Key : pending'[r][k] =
           IF k \in state'[r].outer.keys THEN hooks[k] ELSE Inner!EmptyKernel
      /\ Alone(r)
  BY <1>1, Committed DEF Alone
<1>4. state'[r].outer.keys = state[r].outer.keys \cup {j}
  BY SetConstants, Set!InsertsKey DEF MInv
<1>5. hook'[r].outer.keys = hook[r].outer.keys \cup {j}
  BY SetConstants, Set!HookInsertsKey DEF MInv
<1>6. /\ map \in Map /\ hook[r] \in Map /\ state[r] \in Map
      /\ \A k \in Key : /\ state[r].inner[k] \in Inner!Kernel
                        /\ hook[r].inner[k] \in Inner!Kernel
  BY TypedIsTypeOK DEF NowAt, MInv, TypeOK, Map
<1>7. ASSUME NEW k \in Key
      PROVE  /\ state'[r].inner[k] =
                  IF k \in state'[r].outer.keys
                  THEN Inner!Merge("state", map.inner[k], d.inner[k]) ELSE Inner!EmptyKernel
             /\ hook'[r].inner[k] =
                  IF k \in hook'[r].outer.keys
                  THEN Inner!Merge("state", hook[r].inner[k], d.inner[k]) ELSE Inner!EmptyKernel
  BY <1>2, <1>3, <1>6, MergeInner
<1>8. ASSUME NEW k \in Key \ {j}
      PROVE  Unmoved(r, k)
  <2>1. d.inner[k] = Inner!EmptyKernel
    BY <1>2
  <2>2. /\ map.inner[k] = state[r].inner[k] /\ hooks[k] = pending[r][k]
        /\ Inner!Merge("state", state[r].inner[k], Inner!EmptyKernel) = state[r].inner[k]
        /\ Inner!Merge("state", hook[r].inner[k], Inner!EmptyKernel) = hook[r].inner[k]
    BY <1>6, InnerNothing DEF NowAt
  <2>3. state'[r].inner[k] = state[r].inner[k]
    BY <1>4, <1>7, <2>1, <2>2 DEF Shaped, ShapedMap
  <2>4. hook'[r].inner[k] = hook[r].inner[k]
    BY <1>5, <1>7, <2>1, <2>2 DEF MInv, HookShaped
  <2>5. pending'[r][k] = pending[r][k]
    BY <1>3, <1>4, <2>2 DEF Shaped
  <2> QED
    BY <2>3, <2>4, <2>5 DEF Unmoved
<1>9. /\ state'[r].inner[j] = Inner!Merge("state", base, inner)
      /\ hook'[r].inner[j] = Inner!Merge("state", hook[r].inner[j], inner)
  BY <1>2, <1>4, <1>5, <1>7 DEF NowAt
<1>10. pending'[r][j] = p
  BY <1>3, <1>4 DEF NowAt
<1> QED
  BY <1>3, <1>4, <1>8, <1>9, <1>10 DEF KeyMoves

LEMMA BuiltKernel ==
  ASSUME MInv, NEW r \in Replica, NEW vals \in use.inserts
  PROVE  vals \in Seq(Elem) /\ Built(r, vals) \in Inner!Kernel
<1>1. vals \in Seq(Elem)
  BY UseFacts DEF MInv
<1>2. Built(r, vals) \in Kern(Len(vals))
  BY <1>1, BuiltType
<1> QED
  BY <1>1, <1>2 DEF Kern

LEMMA InsertMoves ==
  ASSUME MInv, MInv', Shaped, NEW r \in Replica, NEW j \in Key, NEW vals \in use.inserts,
         Insert(r, j, vals)
  PROVE  KeyMoves(r, j, state[r].inner[j], pending[r][j], Built(r, vals))
<1>1. PICK inner \in Inner!Kernel : inner = Built(r, vals)
  BY BuiltKernel
<1>2. PICK map, hooks : map = state[r] /\ hooks = pending[r]
  OBVIOUS
<1>3. CommitTo(r, map, hooks, KeyDelta(r, j, inner))
  BY <1>1, <1>2 DEF Insert, Commit, CommitTo
<1>4. Remember(r, j) /\ Len(sent[r]) < use.deltas /\ NextDot(r) <= use.dots
  BY DEF Insert, MayUpdate
<1>5. Set!Insert(r, j)
  BY <1>2, <1>3, <1>4, KeyInsert
<1>6. NowAt(r, j, map, hooks, state[r].inner[j], pending[r][j])
  BY <1>2, TypedIsTypeOK DEF NowAt, MInv, TypeOK
<1>7. KeyMoves(r, j, state[r].inner[j], pending[r][j], inner)
  BY <1>3, <1>5, <1>6, KeyMoved
<1> QED
  BY <1>1, <1>7

\* A change of the nested container.
LEMMA NestedMoves ==
  ASSUME MInv, MInv', Shaped, NEW r \in Replica, NEW j \in Key, NEW delta \in Inner!Kernel,
         Len(sent[r]) < use.deltas, CommitNested(r, j, delta)
  PROVE  KeyMoves(r, j, Inner!Merge("state", state[r].inner[j], delta),
                  Inner!Merge("delta", pending[r][j], delta), Inner!EmptyKernel)
<1>1. /\ state[r] \in Map /\ pending[r] \in [Key -> Inner!Kernel]
      /\ state[r].inner \in [Key -> Inner!Kernel]
  BY TypedIsTypeOK DEF MInv, TypeOK, Map
<1>2. PICK base \in Inner!Kernel : base = Inner!Merge("state", state[r].inner[j], delta)
  BY <1>1, SameInner, InnerFacts!MergeType
<1>3. PICK p \in Inner!Kernel : p = Inner!Merge("delta", pending[r][j], delta)
  BY <1>1, SameInner, InnerFacts!MergeType
<1>4. PICK map, hooks, inner :
        /\ inner \in Inner!Kernel
        /\ map = [state[r] EXCEPT !.inner[j] = base]
        /\ hooks = [pending[r] EXCEPT ![j] = p]
        /\ inner = Inner!EmptyKernel
  BY InnerEmpty
<1>5. CommitTo(r, map, hooks, KeyDelta(r, j, inner))
  BY <1>2, <1>3, <1>4 DEF CommitNested, CommitTo
<1>6. NowAt(r, j, map, hooks, base, p)
  BY <1>1, <1>4 DEF NowAt, Map
<1>7. Remember(r, j) /\ NextDot(r) <= use.dots /\ map.outer = state[r].outer
  BY <1>6 DEF CommitNested, NowAt
<1>8. Set!Insert(r, j)
  BY <1>5, <1>7, KeyInsert
<1>9. KeyMoves(r, j, base, p, inner)
  BY <1>4, <1>5, <1>6, <1>8, KeyMoved
<1> QED
  BY <1>2, <1>3, <1>4, <1>9

\* The keys K of replica r go, with their containers and their hooks.
KeysGo(r, K) ==
  /\ Alone(r)
  /\ state'[r].outer.keys = state[r].outer.keys \ K
  /\ \A k \in Key :
       /\ state'[r].inner[k] =
            IF k \in state'[r].outer.keys THEN state[r].inner[k] ELSE Inner!EmptyKernel
       /\ pending'[r][k] =
            IF k \in state'[r].outer.keys THEN pending[r][k] ELSE Inner!EmptyKernel
       /\ hook'[r].inner[k] =
            IF k \in hook'[r].outer.keys THEN hook[r].inner[k] ELSE Inner!EmptyKernel

LEMMA ForgetMoves ==
  ASSUME MInv, MInv', NEW r \in Replica, NEW K \in SUBSET Key, Len(sent[r]) < use.deltas,
         Commit(r, ForgetDelta(r, K)), Forget(r, K)
  PROVE  KeysGo(r, K)
<1>1. PICK n \in Nat : TypedUpTo(n)
  BY DEF MInv
<1>2. PICK d : d = ForgetDelta(r, K) /\ CommitTo(r, state[r], pending[r], d)
  BY DEF Commit
<1>3. d \in Map /\ ShapedMap(d) /\ \A k \in Key : d.inner[k] = Inner!EmptyKernel
  <2>1. d \in MapUpTo(n)
    BY <1>1, <1>2, ForgetDeltaType
  <2>2. \A k \in Key : d.inner[k] = Inner!EmptyKernel
    BY <1>2 DEF ForgetDelta, NoInner
  <2> QED
    BY <2>1, <2>2 DEF MapUpTo, Map, Kern, ShapedMap
<1>4. /\ state'[r] = MapMerge("state", state[r], d)
      /\ hook'[r] = MapMerge("delta", hook[r], d)
      /\ \A k \in Key : pending'[r][k] =
           IF k \in state'[r].outer.keys THEN pending[r][k] ELSE Inner!EmptyKernel
      /\ Alone(r)
  BY <1>2, Committed DEF Alone
<1>5. state'[r].outer.keys = state[r].outer.keys \ K
  <2>1. /\ Set!Commit(r, Set!CountersDelta(state[r].outer, K))
        /\ Set!Forget(r, K) /\ UNCHANGED inserted
    BY KeyErase
  <2>2. Set!CountersDelta(state[r].outer, K)
          = Set!CountersDelta([q \in Replica |-> state[q].outer][r], K)
    OBVIOUS
  <2>3. Set!Forgets(r, K)
    BY <2>1, <2>2 DEF Set!Commit, Set!Forgets
  <2> QED
    BY <2>3, SetConstants, Set!ForgetsKeys DEF MInv
<1>6. /\ state[r] \in Map /\ hook[r] \in Map
      /\ \A k \in Key : /\ state[r].inner[k] \in Inner!Kernel
                        /\ hook[r].inner[k] \in Inner!Kernel
  BY TypedIsTypeOK DEF MInv, TypeOK, Map
<1>7. ASSUME NEW k \in Key
      PROVE  /\ state'[r].inner[k] =
                  IF k \in state'[r].outer.keys THEN state[r].inner[k] ELSE Inner!EmptyKernel
             /\ hook'[r].inner[k] =
                  IF k \in hook'[r].outer.keys THEN hook[r].inner[k] ELSE Inner!EmptyKernel
  <2>1. /\ state'[r].inner[k] =
             IF k \in state'[r].outer.keys
             THEN Inner!Merge("state", state[r].inner[k], d.inner[k]) ELSE Inner!EmptyKernel
        /\ hook'[r].inner[k] =
             IF k \in hook'[r].outer.keys
             THEN Inner!Merge("state", hook[r].inner[k], d.inner[k]) ELSE Inner!EmptyKernel
    BY <1>3, <1>4, <1>6, MergeInner
  <2>2. /\ Inner!Merge("state", state[r].inner[k], Inner!EmptyKernel) = state[r].inner[k]
        /\ Inner!Merge("state", hook[r].inner[k], Inner!EmptyKernel) = hook[r].inner[k]
    BY <1>6, InnerNothing
  <2>3. d.inner[k] = Inner!EmptyKernel
    BY <1>3
  <2> QED
    BY <2>1, <2>2, <2>3
<1> QED
  BY <1>4, <1>5, <1>7 DEF KeysGo

LEMMA EraseMoves ==
  ASSUME MInv, MInv', NEW r \in Replica, NEW k \in Key, Erase(r, k)
  PROVE  KeysGo(r, {k})
BY ForgetMoves DEF Erase, MayUpdate

LEMMA ClearMoves ==
  ASSUME MInv, MInv', NEW r \in Replica, Clear(r)
  PROVE  KeysGo(r, state[r].outer.keys)
<1>1. PICK K : K = state[r].outer.keys
  OBVIOUS
<1>2. K \in SUBSET Key /\ K # {}
  BY <1>1, TypedIsTypeOK DEF MInv, TypeOK, Map, Outer!Kernel, Clear
<1>3. Commit(r, ForgetDelta(r, K))
  <2>1. PICK delta : delta = ForgetDelta(r, state[r].outer.keys) /\ Commit(r, delta)
    BY DEF Clear
  <2>2. delta = ForgetDelta(r, K)
    BY <1>1, <2>1
  <2> QED
    BY <2>1, <2>2 DEF Commit, CommitTo
<1>4. Forget(r, K) /\ Len(sent[r]) < use.deltas
  BY <1>1, <1>2 DEF Clear, Forget, MayUpdate
<1>5. KeysGo(r, K)
  BY <1>2, <1>3, <1>4, ForgetMoves
<1> QED
  BY <1>1, <1>5 DEF KeysGo

LEMMA ExtractionEmpty ==
  InnerFacts!Extraction(Inner!EmptyKernel, Inner!EmptyKernel) = Inner!EmptyKernel
<1>1. /\ Inner!Merge("state", Inner!EmptyKernel, Inner!EmptyKernel) = Inner!EmptyKernel
      /\ Inner!Merge("delta", Inner!EmptyKernel, Inner!EmptyKernel) = Inner!EmptyKernel
  BY InnerEmpty, InnerNothing
<1> QED
  BY <1>1, SameInner DEF InnerFacts!Extraction

\* An extracted delta is what was accumulated, at every key.
LEMMA ExtractedShape ==
  ASSUME MInv, NEW r \in Replica
  PROVE  /\ Extracted(r) \in Map /\ ShapedMap(Extracted(r))
         /\ Extracted(r).outer = Outer!Merge("delta", Outer!EmptyKernel, hook[r].outer)
         /\ Extracted(r).outer.keys = hook[r].outer.keys
         /\ \A k \in Key : Extracted(r).inner[k] =
              InnerFacts!Extraction(hook[r].inner[k], pending[r][k])
<1>1. PICK n \in Nat : TypedUpTo(n)
  BY DEF MInv
<1>2. hook[r] \in Map /\ EmptyMap \in Map /\ ShapedMap(hook[r])
  BY <1>1, EmptyType, TypedIsTypeOK DEF TypeOK, MInv, HookShaped, ShapedMap, MapUpTo, Map, Kern
<1>3. PICK d : d = MapMerge("delta", EmptyMap, hook[r])
  OBVIOUS
<1>4. d.outer = Outer!Merge("delta", Outer!EmptyKernel, hook[r].outer)
  BY <1>3 DEF MapMerge, EmptyMap
<1>5. d.outer.keys = hook[r].outer.keys
  <2>1. Set!Envelope(r).delta = d.outer
    BY <1>4, SameMerge, SameKernels DEF Set!Envelope
  <2>2. Set!Envelope(r).delta.keys = hook[r].outer.keys
    BY SetConstants, Set!ExtractedKeys DEF MInv
  <2> QED
    BY <2>1, <2>2
<1>6. ASSUME NEW k \in Key
      PROVE  d.inner[k] = IF k \in hook[r].outer.keys
                          THEN Inner!Merge("state", Inner!EmptyKernel, hook[r].inner[k])
                          ELSE Inner!EmptyKernel
  <2>1. EmptyMap.inner[k] = Inner!EmptyKernel
    BY DEF EmptyMap, NoInner
  <2> QED
    BY <1>2, <1>3, <1>5, <2>1, MergeInner
<1>7. Reached(r) = hook[r].outer.keys
  <2>1. Set!HookWithinState
    BY SetConstants, Set!HookInState DEF MInv
  <2> QED
    BY <2>1 DEF Reached, Set!HookWithinState
<1>8. /\ Extracted(r) \in MapUpTo(n)
      /\ Extracted(r).outer = Outer!Merge("delta", Outer!EmptyKernel, hook[r].outer)
  BY <1>1, ExtractedType
<1>9. ASSUME NEW k \in Key
      PROVE  Extracted(r).inner[k] =
               IF k \in Reached(r)
               THEN Inner!Merge("state", d.inner[k],
                                Inner!Merge("delta", Inner!EmptyKernel, pending[r][k]))
               ELSE d.inner[k]
  <2>1. PICK ins : ins = [j \in Key |->
          IF j \in Reached(r)
          THEN Inner!Merge("state", d.inner[j],
                           Inner!Merge("delta", Inner!EmptyKernel, pending[r][j]))
          ELSE d.inner[j]]
    OBVIOUS
  <2>2. d = [outer |-> d.outer, inner |-> d.inner]
    BY <1>3 DEF MapMerge
  <2>3. Extracted(r) = [d EXCEPT !.inner = ins]
    BY <1>3, <2>1, <2>2 DEF Extracted
  <2>4. Extracted(r).inner = ins
    BY <2>2, <2>3
  <2> QED
    BY <2>1, <2>4
<1>10. ASSUME NEW k \in Key
       PROVE  Extracted(r).inner[k] = InnerFacts!Extraction(hook[r].inner[k], pending[r][k])
  <2>1. CASE k \in hook[r].outer.keys
    BY <1>6, <1>7, <1>9, <2>1, SameInner DEF InnerFacts!Extraction
  <2>2. CASE k \notin hook[r].outer.keys
    <3>1. hook[r].inner[k] = Inner!EmptyKernel /\ pending[r][k] = Inner!EmptyKernel
      BY <2>2 DEF MInv, HookShaped, PendingHooked
    <3>2. Extracted(r).inner[k] = Inner!EmptyKernel
      BY <1>6, <1>7, <1>9, <2>2
    <3> QED
      BY <3>1, <3>2, ExtractionEmpty
  <2> QED
    BY <2>1, <2>2
<1>11. ShapedMap(Extracted(r))
  BY <1>4, <1>5, <1>6, <1>7, <1>8, <1>9 DEF ShapedMap
<1>12. Extracted(r) \in Map
  BY <1>8 DEF MapUpTo, Map, Kern
<1> QED
  BY <1>4, <1>5, <1>8, <1>10, <1>11, <1>12

\* Replica r sends d, its N-th delta, with the content c.
Sends(r, N, d, c) ==
  /\ state' = state /\ got' = got /\ use' = use
  /\ \A k \in Key : hook'[r].inner[k] = Inner!EmptyKernel /\ pending'[r][k] = Inner!EmptyKernel
  /\ hook'[r] = EmptyMap
  /\ \A q \in Replica \ {r} :
       hook'[q] = hook[q] /\ pending'[q] = pending[q] /\ sent'[q] = sent[q]
  /\ N = Len(sent[r]) + 1 /\ Len(sent[r]) \in Nat /\ Len(sent'[r]) = N
  /\ sent'[r][N].delta = d /\ sent'[r][N].content = c
  /\ \A i \in 1 .. Len(sent[r]) : sent'[r][i] = sent[r][i]

LEMMA ExtractMoves ==
  ASSUME MInv, NEW r \in Replica, Extract(r)
  PROVE  \E N \in Nat : Sends(r, N, Extracted(r), Content(state[r]))
<1>1. /\ DOMAIN hook = Replica /\ DOMAIN pending = Replica /\ DOMAIN sent = Replica
      /\ DOMAIN pending[r] = Key
      /\ hook' = [hook EXCEPT ![r] = EmptyMap]
      /\ pending' = [pending EXCEPT ![r] =
           [k \in Key |-> IF k \in Reached(r) THEN Inner!EmptyKernel ELSE pending[r][k]]]
      /\ state' = state /\ got' = got /\ use' = use
  BY TypedIsTypeOK DEF MInv, TypeOK, Extract
<1>2. PICK n \in Nat : TypedUpTo(n)
  BY DEF MInv
<1>3. PICK q, msg :
        /\ q \in Seq(MessageUpTo(n)) /\ q = sent[r]
        /\ msg = [delta |-> Extracted(r), upto |-> Len(inserted[r]), content |-> Content(state[r])]
  BY <1>2 DEF TypedUpTo
<1>4. sent' = [sent EXCEPT ![r] = Append(q, msg)]
  BY <1>3 DEF Extract
<1>5. PICK N \in Nat : N = Len(q) + 1
  BY <1>3
<1>6. /\ Len(Append(q, msg)) = N /\ Append(q, msg)[N] = msg
      /\ \A i \in 1 .. Len(q) : Append(q, msg)[i] = q[i]
  BY <1>3, <1>5
<1>7. \A k \in Key : pending[r][k] # Inner!EmptyKernel => k \in Reached(r)
  <2>1. Set!HookWithinState
    BY SetConstants, Set!HookInState DEF MInv
  <2> QED
    BY <2>1 DEF MInv, PendingHooked, Set!HookWithinState, Reached
<1>8. \A k \in Key : hook'[r].inner[k] = Inner!EmptyKernel /\ pending'[r][k] = Inner!EmptyKernel
  BY <1>1, <1>7 DEF EmptyMap, NoInner
<1>9. Sends(r, N, Extracted(r), Content(state[r]))
  BY <1>1, <1>3, <1>4, <1>5, <1>6, <1>8 DEF Sends
<1> QED
  BY <1>9

\* Replica r merges d, the i-th delta of s.
Merges(r, s, i, d) ==
  /\ s # r /\ i \in 1 .. Len(sent[s]) /\ i = got[r][s] + 1
  /\ d = sent[s][i].delta /\ d = Pending(r, s).delta /\ d \in Map
  /\ state'[r] = MapMerge("state", state[r], d)
  /\ \A k \in Key : pending'[r][k] =
       IF k \in state'[r].outer.keys THEN pending[r][k] ELSE Inner!EmptyKernel
  /\ \A q \in Replica \ {r} : state'[q] = state[q] /\ pending'[q] = pending[q]
  /\ got' = [got EXCEPT ![r][s] = i]
  /\ hook' = hook /\ sent' = sent /\ use' = use

LEMMA DeliverMoves ==
  ASSUME MInv, NEW r \in Replica, NEW s \in Replica, Deliver(r, s)
  PROVE  \E i, d : i \in Nat /\ Merges(r, s, i, d)
<1>1. PICK n \in Nat : TypedUpTo(n)
  BY DEF MInv
<1>2. got[r][s] + 1 \in 1 .. Len(sent[s]) /\ Pending(r, s).delta \in MapUpTo(n)
  BY <1>1, PendingDelta DEF Deliver
<1>3. PICK i, d : i \in Nat /\ i = got[r][s] + 1 /\ d = Pending(r, s).delta
  BY <1>2
<1>4. d \in Map /\ d = sent[s][i].delta /\ s # r
  BY <1>2, <1>3 DEF Pending, MapUpTo, Map, Kern, Deliver, Deliverable
<1>5. /\ DOMAIN state = Replica /\ DOMAIN pending = Replica /\ got \in [Replica -> [Replica -> Nat]]
      /\ state' = [state EXCEPT ![r] = MapMerge("state", state[r], d)]
      /\ pending' = [pending EXCEPT ![r] = PendingOf(pending[r], state'[r].outer.keys)]
      /\ got' = [got EXCEPT ![r][s] = got[r][s] + 1]
      /\ hook' = hook /\ sent' = sent /\ use' = use
  BY <1>1, <1>3 DEF TypedUpTo, Deliver
<1>6. \A k \in Key : pending'[r][k] =
        IF k \in state'[r].outer.keys THEN pending[r][k] ELSE Inner!EmptyKernel
  BY <1>5 DEF PendingOf
<1>7. /\ state'[r] = MapMerge("state", state[r], d)
      /\ \A q \in Replica \ {r} : state'[q] = state[q] /\ pending'[q] = pending[q]
      /\ got' = [got EXCEPT ![r][s] = i]
  BY <1>3, <1>5
<1>8. Merges(r, s, i, d)
  BY <1>2, <1>3, <1>4, <1>5, <1>6, <1>7 DEF Merges
<1> QED
  BY <1>3, <1>8

-----------------------------------------------------------------------------
(* Nested content and nested hooks go with their keys.                     *)

LEMMA ShapedInit ==
  ASSUME Init
  PROVE  Shaped
<1>1. \A r \in Replica : state[r] = EmptyMap /\ pending[r] = NoInner /\ Len(sent[r]) = 0
  BY DEF Init
<1>2. ShapedMap(EmptyMap) /\ \A k \in Key : NoInner[k] = Inner!EmptyKernel
  BY DEF ShapedMap, EmptyMap, NoInner
<1> QED
  BY <1>1, <1>2 DEF Shaped

LEMMA ShapedKeyMoves ==
  ASSUME Shaped, NEW r \in Replica, NEW j \in Key, NEW base, NEW p, NEW inner,
         KeyMoves(r, j, base, p, inner)
  PROVE  Shaped'
<1>1. Alone(r)
  BY DEF KeyMoves
<1>2. ASSUME NEW k \in Key, k \notin state'[r].outer.keys
      PROVE  state'[r].inner[k] = Inner!EmptyKernel /\ pending'[r][k] = Inner!EmptyKernel
  <2>1. k # j /\ k \notin state[r].outer.keys /\ Unmoved(r, k)
    BY <1>2 DEF KeyMoves
  <2> QED
    BY <2>1 DEF Unmoved, Shaped, ShapedMap
<1> QED
  BY <1>1, <1>2 DEF Alone, Shaped, ShapedMap

LEMMA ShapedKeysGo ==
  ASSUME Shaped, NEW r \in Replica, NEW K, KeysGo(r, K)
  PROVE  Shaped'
BY DEF KeysGo, Alone, Shaped, ShapedMap

LEMMA ShapedExtract ==
  ASSUME MInv, Shaped, NEW r \in Replica, Extract(r)
  PROVE  Shaped'
<1>1. PICK N \in Nat : Sends(r, N, Extracted(r), Content(state[r]))
  BY ExtractMoves
<1>2. PICK d, c : Sends(r, N, d, c) /\ ShapedMap(d)
  BY <1>1, ExtractedShape
<1>3. ASSUME NEW s \in Replica, NEW i \in 1 .. Len(sent'[s])
      PROVE  ShapedMap(sent'[s][i].delta)
  <2>1. CASE s # r
    BY <1>2, <2>1 DEF Sends, Shaped
  <2>2. CASE s = r /\ i = N
    BY <1>2, <2>2 DEF Sends
  <2>3. CASE s = r /\ i # N
    <3>1. i \in 1 .. Len(sent[r])
      BY <1>2, <2>3 DEF Sends
    <3> QED
      BY <1>2, <2>3, <3>1 DEF Sends, Shaped
  <2> QED
    BY <2>1, <2>2, <2>3
<1>4. ASSUME NEW q \in Replica, NEW k \in Key, k \notin state'[q].outer.keys
      PROVE  pending'[q][k] = Inner!EmptyKernel
  BY <1>2, <1>4 DEF Sends, Shaped
<1>5. \A q \in Replica : ShapedMap(state'[q])
  BY <1>2 DEF Sends, Shaped
<1>6. \A q \in Replica : ShapedMap(state[q])'
  BY <1>5 DEF ShapedMap
<1>7. \A s \in Replica : \A i \in 1 .. Len(sent'[s]) : ShapedMap(sent[s][i].delta)'
  BY <1>3 DEF ShapedMap
<1> QED
  BY <1>4, <1>6, <1>7 DEF Shaped

LEMMA ShapedDeliver ==
  ASSUME MInv, Shaped, NEW r \in Replica, NEW s \in Replica, Deliver(r, s)
  PROVE  Shaped'
<1>1. PICK i, d : i \in Nat /\ Merges(r, s, i, d)
  BY DeliverMoves
<1>2. ShapedMap(state'[r])
  BY <1>1, MergeShaped DEF Merges
<1>3. \A q \in Replica : ShapedMap(state[q])'
  BY <1>1, <1>2 DEF Merges, ShapedMap, Shaped
<1>4. \A q \in Replica : \A k \in Key :
        k \notin state'[q].outer.keys => pending'[q][k] = Inner!EmptyKernel
  BY <1>1 DEF Merges, Shaped
<1> QED
  BY <1>1, <1>3, <1>4 DEF Merges, Shaped, ShapedMap

-----------------------------------------------------------------------------
(* The changes of nested containers.                                       *)

\* Replica r changes its container at key k by delta: K goes and A comes.
NestedBy(r, k, delta, K, A) ==
  /\ delta \in Inner!Kernel /\ CommitNested(r, k, delta) /\ MayUpdateNested(r, k)
  /\ InnerFacts!Change(delta, state[r].inner[k], r, K, A)

\* By the insert of an absent element or the erase of one that is there.
NestedSingle(r, k, delta) == InnerFacts!SingleChange(delta, state[r].inner[k], r)

LEMMA NextInnerPositive ==
  ASSUME MInv, NEW r \in Replica, NEW k \in Key
  PROVE  /\ \E n \in Nat : NextInner(r, k) \in 1 .. n
         /\ state[r].inner[k] \in Inner!Kernel /\ state[r].inner[k].keys \in SUBSET Elem
<1>1. PICK n \in Nat : TypedUpTo(n)
  BY DEF MInv
<1> QED
  BY <1>1, StateInnerType DEF Kern

LEMMA InsertChanges ==
  ASSUME MInv, NEW r \in Replica, NEW k \in Key, NEW e \in Elem, NestedInsert(r, k, e)
  PROVE  \E delta : /\ NestedBy(r, k, delta, {}, {e})
                    /\ use.fresh => NestedSingle(r, k, delta)
<1>1. PICK n \in Nat : NextInner(r, k) \in 1 .. n
  BY NextInnerPositive
<1>2. PICK delta : delta = Inner!ValueDelta(e, r, NextInner(r, k))
  OBVIOUS
<1>3. CommitNested(r, k, delta)
  BY <1>2 DEF NestedInsert, CommitNested, CommitTo
<1>4. delta \in Inner!Kernel
  BY <1>1, <1>2, InnerValueType DEF Kern
<1>5. delta = InnerFacts!ValueDelta(e, r, InnerFacts!NextCounter(state[r].inner[k].counters[r]))
  BY <1>2, SameInner DEF NextInner
<1>6. InnerFacts!Change(delta, state[r].inner[k], r, {}, {e})
  BY <1>5 DEF InnerFacts!Change
<1>7. use.fresh => NestedSingle(r, k, delta)
  BY <1>5 DEF NestedSingle, InnerFacts!SingleChange, NestedInsert
<1> QED
  BY <1>3, <1>4, <1>6, <1>7 DEF NestedBy, NestedInsert

LEMMA EraseChanges ==
  ASSUME MInv, NEW r \in Replica, NEW k \in Key, NEW e \in Elem, NestedErase(r, k, e)
  PROVE  \E delta : NestedBy(r, k, delta, {e}, {}) /\ NestedSingle(r, k, delta)
<1>1. PICK n \in Nat : TypedUpTo(n)
  BY DEF MInv
<1>2. PICK delta : delta = Inner!CountersDelta(state[r].inner[k], {e})
  OBVIOUS
<1>3. CommitNested(r, k, delta)
  BY <1>2 DEF NestedErase, CommitNested, CommitTo
<1>4. delta \in Inner!Kernel
  BY <1>1, <1>2, StateInnerType, InnerCountersType DEF Kern
<1>5. delta = InnerFacts!CountersDelta(state[r].inner[k], {e}) /\ e \in state[r].inner[k].keys
  BY <1>2, SameInner DEF NestedErase
<1>6. InnerFacts!Change(delta, state[r].inner[k], r, {e}, {})
  BY <1>5 DEF InnerFacts!Change
<1>7. NestedSingle(r, k, delta)
  BY <1>5 DEF NestedSingle, InnerFacts!SingleChange
<1> QED
  BY <1>3, <1>4, <1>6, <1>7 DEF NestedBy, NestedErase

LEMMA ClearChanges ==
  ASSUME MInv, NEW r \in Replica, NEW k \in Key, NestedClear(r, k)
  PROVE  \E delta : NestedBy(r, k, delta, state[r].inner[k].keys, {})
<1>1. PICK n \in Nat : TypedUpTo(n)
  BY DEF MInv
<1>2. PICK delta : delta = Inner!CountersDelta(state[r].inner[k], state[r].inner[k].keys)
  OBVIOUS
<1>3. CommitNested(r, k, delta)
  BY <1>2 DEF NestedClear, CommitNested, CommitTo
<1>4. delta \in Inner!Kernel
  BY <1>1, <1>2, StateInnerType, InnerCountersType DEF Kern
<1>5. /\ delta = InnerFacts!CountersDelta(state[r].inner[k], state[r].inner[k].keys)
      /\ state[r].inner[k].keys # {}
  BY <1>2, SameInner DEF NestedClear
<1>6. InnerFacts!Change(delta, state[r].inner[k], r, state[r].inner[k].keys, {})
  BY <1>5 DEF InnerFacts!Change
<1> QED
  BY <1>3, <1>4, <1>6 DEF NestedBy, NestedClear

LEMMA SetChanges ==
  ASSUME MInv, NEW r \in Replica, NEW k \in Key, NEW e \in Elem, NestedSet(r, k, e)
  PROVE  \E delta : NestedBy(r, k, delta, state[r].inner[k].keys, {e})
<1>1. PICK n \in Nat : TypedUpTo(n)
  BY DEF MInv
<1>2. PICK delta : delta = SetDelta(r, k, e)
  OBVIOUS
<1>3. CommitNested(r, k, delta)
  BY <1>2 DEF NestedSet, CommitNested, CommitTo
<1>4. delta \in Inner!Kernel
  BY <1>1, <1>2, SetDeltaType DEF Kern
<1>5. PICK l : l = state[r].inner[k]
  OBVIOUS
<1>6. delta = [InnerFacts!ValueDelta(e, r, InnerFacts!NextCounter(l.counters[r])) EXCEPT
                 !.counters =
                   [s \in Replica |-> @[s] \cup InnerFacts!CountersDelta(l, l.keys).counters[s]]]
  BY <1>2, <1>5, SameInner DEF SetDelta, NextInner
<1>7. InnerFacts!Change(delta, l, r, l.keys, {e})
  BY <1>6 DEF InnerFacts!Change
<1> QED
  BY <1>3, <1>4, <1>5, <1>7 DEF NestedBy, NestedSet

\* With one writer a reader follows the writer exactly where every change of a nested
\* container, extracted on its own, is the insert of an absent element or the erase of one
\* element. It does not when all values are deleted at once: a merge joins the counters of
\* neighbouring dots.
Tracked(u) ==
  /\ u.eager /\ u.fresh
  /\ u.calls \cap {"set.clear", "value_mv.set"} = {}

LEMMA UpdateChanges ==
  ASSUME MInv, NEW r \in Replica, NEW k \in Key, NestedUpdate(r, k)
  PROVE  \E delta, K, A : /\ NestedBy(r, k, delta, K, A)
                          /\ Tracked(use) => NestedSingle(r, k, delta)
<1>1. ASSUME NEW e \in Elem, NestedInsert(r, k, e)
      PROVE  \E delta, K, A : NestedBy(r, k, delta, K, A) /\ (Tracked(use) => NestedSingle(r, k, delta))
  BY <1>1, InsertChanges DEF Tracked
<1>2. ASSUME NEW e \in Elem, NestedErase(r, k, e)
      PROVE  \E delta, K, A : NestedBy(r, k, delta, K, A) /\ (Tracked(use) => NestedSingle(r, k, delta))
  BY <1>2, EraseChanges
<1>3. ASSUME NEW e \in Elem, NestedSet(r, k, e)
      PROVE  \E delta, K, A : NestedBy(r, k, delta, K, A) /\ (Tracked(use) => NestedSingle(r, k, delta))
  <2>1. ~Tracked(use)
    BY <1>3 DEF Tracked, NestedSet
  <2> QED
    BY <1>3, <2>1, SetChanges
<1>4. ASSUME NestedClear(r, k)
      PROVE  \E delta, K, A : NestedBy(r, k, delta, K, A) /\ (Tracked(use) => NestedSingle(r, k, delta))
  <2>1. ~Tracked(use)
    BY <1>4 DEF Tracked, NestedClear
  <2> QED
    BY <1>4, <2>1, ClearChanges
<1> QED
  BY <1>1, <1>2, <1>3, <1>4 DEF NestedUpdate

-----------------------------------------------------------------------------
(* The container that map::insert brings.                                  *)

\* f has the dots 1 .. n of replica r, the c-th for vals[c].
Lists(f, r, vals, n) ==
  /\ \A e \in Elem : f.dots[e][r] = {c \in 1 .. n : vals[c] = e}
  /\ f.counters[r] = IF vals = <<>> THEN {} ELSE {n}
  /\ f.links[r] = {<<c, vals[c]>> : c \in 1 .. n}
  /\ \A s \in Replica \ {r} :
       f.counters[s] = {} /\ f.links[s] = {} /\ \A e \in Elem : f.dots[e][s] = {}
  /\ f.keys = {vals[i] : i \in DOMAIN vals}

LEMMA BuiltParts ==
  ASSUME NEW r \in Replica, NEW vals \in Seq(Elem)
  PROVE  Lists(Built(r, vals), r, vals, Len(vals))
<1> DEFINE n == Len(vals)
           counters(e) == {c \in 1 .. n : vals[c] = e}
           of(e) == [Inner!NoDots EXCEPT ![r] = counters(e)]
<1>1. PICK last : last = IF vals = <<>> THEN {} ELSE {n}
  OBVIOUS
<1>2. PICK f : f = Built(r, vals)
  OBVIOUS
<1>3. PICK K, D, C, L :
        /\ K = {e \in Elem : counters(e) # {}} /\ D = [e \in Elem |-> of(e)]
        /\ C = [Inner!NoDots EXCEPT ![r] = last]
        /\ L = [Inner!NoDots EXCEPT ![r] = {<<c, vals[c]>> : c \in 1 .. n}]
        /\ f = [keys |-> K, dots |-> D, counters |-> C, links |-> L]
  <2>1. f = [keys |-> {e \in Elem : counters(e) # {}},
             dots |-> [e \in Elem |-> of(e)],
             counters |-> [Inner!NoDots EXCEPT ![r] = last],
             links |-> [Inner!NoDots EXCEPT ![r] = {<<c, vals[c]>> : c \in 1 .. n}]]
    BY <1>1, <1>2, Zenon DEF Built
  <2> QED
    BY <2>1, Zenon
<1>4. f.keys = K /\ f.dots = D /\ f.counters = C /\ f.links = L
  BY <1>3
<1>5. ASSUME NEW e \in Elem
      PROVE  f.dots[e][r] = counters(e) /\ \A s \in Replica \ {r} : f.dots[e][s] = {}
  <2>1. f.dots[e] = of(e)
    BY <1>3, <1>4
  <2> QED
    BY <2>1 DEF Inner!NoDots
<1>6. C[r] = last /\ \A s \in Replica \ {r} : C[s] = {}
  BY <1>3 DEF Inner!NoDots
<1>7. L[r] = {<<c, vals[c]>> : c \in 1 .. n} /\ \A s \in Replica \ {r} : L[s] = {}
  BY <1>3 DEF Inner!NoDots
<1>8. K = {vals[i] : i \in DOMAIN vals}
  <2>1. DOMAIN vals = 1 .. n /\ \A i \in 1 .. n : vals[i] \in Elem
    OBVIOUS
  <2> QED
    BY <1>3, <2>1
<1> QED
  BY <1>1, <1>2, <1>4, <1>5, <1>6, <1>7, <1>8 DEF Lists

\* An empty value brings nothing.
LEMMA BuiltEmpty ==
  ASSUME NEW r \in Replica
  PROVE  Built(r, <<>>) = Inner!EmptyKernel
<1>1. PICK f \in Inner!Kernel : f = Built(r, <<>>)
  <2>1. <<>> \in Seq(Elem)
    OBVIOUS
  <2> QED
    BY <2>1, BuiltType DEF Kern
<1>2. /\ \A e \in Elem : \A s \in Replica : f.dots[e][s] = {}
      /\ \A s \in Replica : f.counters[s] = {} /\ f.links[s] = {}
      /\ f.keys = {}
  <2>1. <<>> \in Seq(Elem) /\ Len(<<>>) = 0 /\ DOMAIN <<>> = {} /\ 1 .. 0 = {}
    OBVIOUS
  <2>2. Lists(f, r, <<>>, 0)
    BY <1>1, <2>1, BuiltParts
  <2> QED
    BY <2>1, <2>2 DEF Lists
<1>3. f.counters = Inner!NoDots /\ f.links = Inner!NoDots
  BY <1>2 DEF Inner!Kernel, Inner!Dots, Inner!NoDots
<1>4. f.dots = [e \in Elem |-> Inner!NoDots]
  <2>1. f.dots \in [Elem -> [Replica -> SUBSET (Nat \ {0})]]
    BY DEF Inner!Kernel, Inner!Dots
  <2>2. \A e \in Elem : f.dots[e] = Inner!NoDots
    BY <1>2, <2>1 DEF Inner!NoDots
  <2> QED
    BY <2>1, <2>2
<1> QED
  BY <1>1, <1>2, <1>3, <1>4 DEF Inner!Kernel, Inner!EmptyKernel

\* Different values give different elements, with a dot each.
LEMMA BuiltFills ==
  ASSUME MInv, NEW r \in Replica, NEW vals \in use.inserts
  PROVE  /\ InnerFacts!Fills(r, Built(r, vals), Len(vals))
         /\ \A s \in Replica : InnerFacts!Valueless(Built(r, vals), s) = {}
<1>1. vals \in Seq(Elem) /\ Built(r, vals) \in Inner!Kernel
  BY BuiltKernel
<1>2. PICK f \in Inner!Kernel : f = Built(r, vals)
  BY <1>1
<1>3. PICK n \in Nat : n = Len(vals)
  BY <1>1
<1>4. Lists(f, r, vals, n)
  BY <1>1, <1>2, <1>3, BuiltParts
<1>5. /\ DOMAIN vals = 1 .. n /\ \A i \in 1 .. n : vals[i] \in Elem
      /\ vals = <<>> <=> n = 0
  BY <1>1, <1>3
<1>6. \A i, j \in 1 .. n : vals[i] = vals[j] => i = j
  BY <1>5, MapAssumption, TypedIsTypeOK DEF MInv, TypeOK
<1>7. InnerFacts!Linked(f)
  <2>1. f \in InnerFacts!Kernel
    BY SameInner
  <2>2. ASSUME NEW s \in Replica, NEW e \in Elem, NEW c \in Nat \ {0}
        PROVE  <<c, e>> \in f.links[s] <=> c \in f.dots[e][s]
    <3>1. CASE s = r
      <4>1. /\ f.links[s] = {<<x, vals[x]>> : x \in 1 .. n}
            /\ f.dots[e][s] = {x \in 1 .. n : vals[x] = e}
        BY <1>4, <3>1 DEF Lists
      <4> QED
        BY <4>1
    <3>2. CASE s # r
      <4>1. f.links[s] = {} /\ f.dots[e][s] = {}
        BY <1>4, <3>2 DEF Lists
      <4> QED
        BY <4>1
    <3> QED
      BY <3>1, <3>2
  <2>3. ASSUME NEW e \in Elem
        PROVE  e \in f.keys <=> \E s \in Replica : f.dots[e][s] # {}
    <3>1. /\ f.keys = {vals[i] : i \in 1 .. n}
          /\ f.dots[e][r] = {x \in 1 .. n : vals[x] = e}
          /\ \A s \in Replica \ {r} : f.dots[e][s] = {}
      BY <1>4, <1>5 DEF Lists
    <3> QED
      BY <3>1
  <2> QED
    BY <2>1, <2>2, <2>3, InnerFacts!LinkedPairs DEF InnerFacts!Supported
<1>8. ASSUME NEW e \in Elem
      PROVE  /\ f.dots[e][r] \subseteq 1 .. n
             /\ f.dots[e][r] = {} \/ \E x \in Nat : f.dots[e][r] = {x}
  <2>1. f.dots[e][r] = {c \in 1 .. n : vals[c] = e}
    BY <1>4 DEF Lists
  <2>2. \A x \in 1 .. n : x \in Nat
    OBVIOUS
  <2>3. ASSUME NEW x \in f.dots[e][r]
        PROVE  x \in Nat /\ f.dots[e][r] = {x}
    BY <1>6, <2>1, <2>2
  <2> QED
    BY <2>1, <2>3
<1>9. InnerFacts!Apart(f.dots)
  <2> SUFFICES ASSUME NEW j \in Elem, NEW k \in Elem, NEW s \in Replica,
                      NEW c \in f.dots[j][s], c \in f.dots[k][s]
               PROVE  j = k
    BY DEF InnerFacts!Apart
  <2>1. s = r
    BY <1>4 DEF Lists
  <2>2. /\ f.dots[j][r] = {x \in 1 .. n : vals[x] = j}
        /\ f.dots[k][r] = {x \in 1 .. n : vals[x] = k}
    BY <1>4 DEF Lists
  <2> QED
    BY <2>1, <2>2
<1>10. f.counters[r] = IF n = 0 THEN {} ELSE {n}
  BY <1>4, <1>5 DEF Lists
<1>11. \A s \in Replica \ {r} : f.counters[s] = {} /\ \A e \in Elem : f.dots[e][s] = {}
  BY <1>4 DEF Lists
<1>12. InnerFacts!Fills(r, f, n)
  BY <1>7, <1>8, <1>9, <1>10, <1>11, SameInner DEF InnerFacts!Fills
<1>13. ASSUME NEW s \in Replica
       PROVE  InnerFacts!Valueless(f, s) = {}
  <2>1. CASE f.counters[s] = {}
    BY <2>1 DEF InnerFacts!Valueless
  <2>2. CASE f.counters[s] # {}
    <3>1. s = r /\ f.counters[r] = {n} /\ n \in 1 .. n
      BY <1>3, <1>10, <1>11, <2>2
    <3>2. vals[n] \in f.keys /\ n \in f.dots[vals[n]][r]
      BY <1>4, <1>5, <3>1 DEF Lists
    <3> QED
      BY <3>1, <3>2 DEF InnerFacts!Valueless
  <2> QED
    BY <2>1, <2>2
<1> QED
  BY <1>2, <1>3, <1>12, <1>13

-----------------------------------------------------------------------------
(* Several replicas update, and no key goes.                               *)

\* The containers at key k are copies of one set.
SharedAt(k) ==
  InnerFacts!Shared(
    [r \in Replica |-> state[r].inner[k]],
    [r \in Replica |-> pending[r][k]],
    [r \in Replica |-> hook[r].inner[k]],
    [s \in Replica |-> [i \in 1 .. Len(sent[s]) |-> sent[s][i].delta.inner[k]]],
    [s \in Replica |-> Len(sent[s])],
    got)

\* They are, too, what the changes that have arrived make of them.
PairedAt(k) ==
  InnerFacts!PairedCopies(
    [r \in Replica |-> state[r].inner[k]],
    [r \in Replica |-> pending[r][k]],
    [r \in Replica |-> hook[r].inner[k]],
    [s \in Replica |-> [i \in 1 .. Len(sent[s]) |-> sent[s][i].delta.inner[k]]],
    [s \in Replica |-> Len(sent[s])],
    got)

\* Replica r has nothing to extract of the container at key k.
Rested(r, k) == pending[r][k] = Inner!EmptyKernel /\ hook[r].inner[k] = Inner!EmptyKernel

\* These are the containers, their hooks and their deltas at key k.
At(k, ls, hs, gs, ds, m) ==
  /\ ls = [r \in Replica |-> state[r].inner[k]]
  /\ hs = [r \in Replica |-> pending[r][k]]
  /\ gs = [r \in Replica |-> hook[r].inner[k]]
  /\ ds = [s \in Replica |-> [i \in 1 .. Len(sent[s]) |-> sent[s][i].delta.inner[k]]]
  /\ m = [s \in Replica |-> Len(sent[s])]

LEMMA SharedPick ==
  ASSUME NEW k
  PROVE  /\ \E ls, hs, gs, ds, m :
              /\ At(k, ls, hs, gs, ds, m)
              /\ SharedAt(k) <=> InnerFacts!Shared(ls, hs, gs, ds, m, got)
              /\ PairedAt(k) <=> InnerFacts!PairedCopies(ls, hs, gs, ds, m, got)
         /\ \E ls, hs, gs, ds, m :
              /\ At(k, ls, hs, gs, ds, m)'
              /\ SharedAt(k)' <=> InnerFacts!Shared(ls, hs, gs, ds, m, got')
              /\ PairedAt(k)' <=> InnerFacts!PairedCopies(ls, hs, gs, ds, m, got')
BY DEF At, SharedAt, PairedAt

LEMMA SharedUnmoved ==
  ASSUME NEW k, SharedAt(k), \A r \in Replica : Unmoved(r, k), sent' = sent, got' = got
  PROVE  SharedAt(k)' /\ (PairedAt(k) => PairedAt(k)')
<1>1. PICK ls, hs, gs, ds, m :
        /\ At(k, ls, hs, gs, ds, m)
        /\ SharedAt(k) <=> InnerFacts!Shared(ls, hs, gs, ds, m, got)
        /\ PairedAt(k) <=> InnerFacts!PairedCopies(ls, hs, gs, ds, m, got)
  BY SharedPick
<1>2. PICK lt, ht, gt, dt, mt :
        /\ At(k, lt, ht, gt, dt, mt)'
        /\ SharedAt(k)' <=> InnerFacts!Shared(lt, ht, gt, dt, mt, got')
        /\ PairedAt(k)' <=> InnerFacts!PairedCopies(lt, ht, gt, dt, mt, got')
  BY SharedPick
<1>3. lt = ls /\ ht = hs /\ gt = gs /\ dt = ds /\ mt = m
  BY <1>1, <1>2 DEF At, Unmoved
<1> QED
  BY <1>1, <1>2, <1>3

LEMMA SharedNested ==
  ASSUME MInv, MInv', Shaped, NEW r \in Replica, NEW k \in Key, SharedAt(k),
         NEW delta, NEW K, NEW A, NestedBy(r, k, delta, K, A)
  PROVE  /\ SharedAt(k)' /\ InnerFacts!ChangedKeys(state[r].inner[k], state'[r].inner[k], K, A)
         /\ PairedAt(k) /\ NestedSingle(r, k, delta) /\ Rested(r, k) => PairedAt(k)'
<1>1. /\ delta \in Inner!Kernel /\ Len(sent[r]) < use.deltas /\ CommitNested(r, k, delta)
      /\ InnerFacts!Change(delta, state[r].inner[k], r, K, A)
  BY DEF NestedBy, MayUpdateNested, MayUpdate
<1>2. PICK base, p :
        /\ base = Inner!Merge("state", state[r].inner[k], delta)
        /\ p = Inner!Merge("delta", pending[r][k], delta)
        /\ KeyMoves(r, k, base, p, Inner!EmptyKernel)
  BY <1>1, NestedMoves
<1>3. /\ state[r].inner[k] \in Inner!Kernel /\ hook[r].inner[k] \in Inner!Kernel
      /\ base \in Inner!Kernel
  <2>1. state[r].inner[k] \in Inner!Kernel /\ hook[r].inner[k] \in Inner!Kernel
    BY TypedIsTypeOK DEF MInv, TypeOK, Map
  <2> QED
    BY <1>1, <1>2, <2>1, SameInner, InnerFacts!MergeType
<1>4. /\ state'[r].inner[k] = base /\ pending'[r][k] = p
      /\ hook'[r].inner[k] = hook[r].inner[k] /\ Alone(r)
  BY <1>2, <1>3, InnerNothing DEF KeyMoves
<1>5. PICK ls, hs, gs, ds, m :
        /\ At(k, ls, hs, gs, ds, m) /\ InnerFacts!Shared(ls, hs, gs, ds, m, got)
        /\ PairedAt(k) <=> InnerFacts!PairedCopies(ls, hs, gs, ds, m, got)
  BY SharedPick
<1>6. PICK lt, ht, gt, dt, mt :
        /\ At(k, lt, ht, gt, dt, mt)'
        /\ SharedAt(k)' <=> InnerFacts!Shared(lt, ht, gt, dt, mt, got')
        /\ PairedAt(k)' <=> InnerFacts!PairedCopies(lt, ht, gt, dt, mt, got')
  BY SharedPick
<1>7. gt = gs /\ dt = ds /\ mt = m /\ got' = got
  BY <1>4, <1>5, <1>6 DEF At, Alone
<1>8. InnerFacts!SameBut(r, lt, ls) /\ InnerFacts!SameBut(r, ht, hs)
  BY <1>4, <1>5, <1>6 DEF At, Alone, InnerFacts!SameBut
<1>9. /\ ls[r] = state[r].inner[k] /\ hs[r] = pending[r][k]
      /\ lt[r] = state'[r].inner[k] /\ ht[r] = pending'[r][k]
  BY <1>5, <1>6 DEF At
<1>10. /\ lt[r] = InnerFacts!Merge("state", ls[r], delta)
       /\ ht[r] = InnerFacts!Merge("delta", hs[r], delta)
       /\ InnerFacts!Change(delta, ls[r], r, K, A)
  BY <1>1, <1>2, <1>4, <1>9, SameInner
<1>11. InnerFacts!Changes(r, ls, hs, lt, ht, delta, K, A)
  BY <1>8, <1>10 DEF InnerFacts!Changes
<1>12. /\ InnerFacts!Shared(lt, ht, gs, ds, m, got)
       /\ InnerFacts!ChangedKeys(ls[r], lt[r], K, A)
  BY <1>5, <1>11, InnerFacts!SharedChange
<1>13. ASSUME PairedAt(k), NestedSingle(r, k, delta), Rested(r, k)
       PROVE  PairedAt(k)'
  <2>1. InnerFacts!SingleChange(delta, ls[r], r)
    BY <1>9, <1>13 DEF NestedSingle
  <2>2. hs[r] = InnerFacts!EmptyKernel /\ gs[r] = InnerFacts!EmptyKernel
    BY <1>5, <1>13, SameInner DEF At, Rested
  <2>3. InnerFacts!Alters(r, ls, hs, gs, lt, ht, delta)
    BY <1>8, <1>10, <2>1, <2>2 DEF InnerFacts!Alters, InnerFacts!Starts, InnerFacts!SameBut
  <2>4. InnerFacts!PairedCopies(lt, ht, gs, ds, m, got)
    BY <1>5, <1>13, <2>3, InnerFacts!PairedChange
  <2> QED
    BY <1>6, <1>7, <2>4
<1> QED
  BY <1>6, <1>7, <1>9, <1>12, <1>13

LEMMA SharedInsert ==
  ASSUME MInv, MInv', Shaped, NEW r \in Replica, NEW k \in Key, SharedAt(k),
         NEW vals \in use.inserts, Insert(r, k, vals), use.fresh
  PROVE  /\ SharedAt(k)' /\ state'[r].inner[k].keys = {vals[i] : i \in DOMAIN vals}
         /\ PairedAt(k) => PairedAt(k)'
<1>1. PICK f, n : /\ f = Built(r, vals) /\ n = Len(vals) /\ InnerFacts!Fills(r, f, n)
                  /\ \A s \in Replica : InnerFacts!Valueless(f, s) = {}
  BY BuiltFills
<1>2. f.keys = {vals[i] : i \in DOMAIN vals}
  <2>1. Lists(Built(r, vals), r, vals, Len(vals))
    BY BuiltKernel, BuiltParts
  <2> QED
    BY <1>1, <2>1 DEF Lists
<1>3. KeyMoves(r, k, state[r].inner[k], pending[r][k], f)
  BY <1>1, InsertMoves
<1>4. /\ state[r].inner[k] = Inner!EmptyKernel /\ pending[r][k] = Inner!EmptyKernel
      /\ hook[r].inner[k] = Inner!EmptyKernel
  <2>1. k \notin state[r].outer.keys
    BY DEF Insert
  <2>2. Set!HookWithinState
    BY SetConstants, Set!HookInState DEF MInv
  <2>3. k \notin hook[r].outer.keys
    BY <2>1, <2>2 DEF Set!HookWithinState
  <2> QED
    BY <2>1, <2>3 DEF Shaped, ShapedMap, MInv, HookShaped
<1>5. PICK ls, hs, gs, ds, m :
        /\ At(k, ls, hs, gs, ds, m) /\ InnerFacts!Shared(ls, hs, gs, ds, m, got)
        /\ PairedAt(k) <=> InnerFacts!PairedCopies(ls, hs, gs, ds, m, got)
  BY SharedPick
<1>6. PICK lt, ht, gt, dt, mt :
        /\ At(k, lt, ht, gt, dt, mt)'
        /\ SharedAt(k)' <=> InnerFacts!Shared(lt, ht, gt, dt, mt, got')
        /\ PairedAt(k)' <=> InnerFacts!PairedCopies(lt, ht, gt, dt, mt, got')
  BY SharedPick
<1>7. Alone(r) /\ pending'[r][k] = pending[r][k]
  BY <1>3 DEF KeyMoves
<1>8. ht = hs /\ dt = ds /\ mt = m /\ got' = got
  BY <1>5, <1>6, <1>7 DEF At, Alone
<1>9. InnerFacts!SameBut(r, lt, ls) /\ InnerFacts!SameBut(r, gt, gs)
  BY <1>5, <1>6, <1>7 DEF At, Alone, InnerFacts!SameBut
<1>10. /\ ls[r] = state[r].inner[k] /\ hs[r] = pending[r][k] /\ gs[r] = hook[r].inner[k]
       /\ lt[r] = state'[r].inner[k] /\ gt[r] = hook'[r].inner[k]
  BY <1>5, <1>6 DEF At
<1>11. /\ ls[r] = InnerFacts!EmptyKernel /\ hs[r] = InnerFacts!EmptyKernel
       /\ gs[r] = InnerFacts!EmptyKernel
       /\ lt[r] = InnerFacts!Merge("state", InnerFacts!EmptyKernel, f)
       /\ gt[r] = InnerFacts!Merge("state", InnerFacts!EmptyKernel, f)
  BY <1>3, <1>4, <1>10, SameInner DEF KeyMoves
<1>12. InnerFacts!Makes(r, ls, hs, gs, lt, gt, f)
  BY <1>9, <1>11 DEF InnerFacts!Makes
<1>13. /\ InnerFacts!Shared(lt, hs, gt, ds, m, got)
       /\ InnerFacts!ChangedKeys(ls[r], lt[r], {}, f.keys)
  BY <1>1, <1>5, <1>12, InnerFacts!SharedFill
<1>14. lt[r].keys = f.keys
  BY <1>4, <1>10, <1>13, InnerEmpty DEF InnerFacts!ChangedKeys
<1>15. ASSUME PairedAt(k)
       PROVE  PairedAt(k)'
  <2>1. InnerFacts!PairedCopies(lt, hs, gt, ds, m, got)
    BY <1>1, <1>5, <1>12, <1>15, InnerFacts!PairedFill
  <2> QED
    BY <1>6, <1>8, <2>1
<1> QED
  BY <1>2, <1>6, <1>8, <1>10, <1>13, <1>14, <1>15

LEMMA SharedExtracted ==
  ASSUME MInv, NEW r \in Replica, NEW k \in Key, SharedAt(k), Extract(r)
  PROVE  SharedAt(k)' /\ (PairedAt(k) => PairedAt(k)')
<1>1. PICK N \in Nat : Sends(r, N, Extracted(r), Content(state[r]))
  BY ExtractMoves
<1>2. PICK d, c : Sends(r, N, d, c)
                  /\ d.inner[k] = InnerFacts!Extraction(hook[r].inner[k], pending[r][k])
  BY <1>1, ExtractedShape
<1>3. PICK ls, hs, gs, ds, m :
        /\ At(k, ls, hs, gs, ds, m) /\ InnerFacts!Shared(ls, hs, gs, ds, m, got)
        /\ PairedAt(k) <=> InnerFacts!PairedCopies(ls, hs, gs, ds, m, got)
  BY SharedPick
<1>4. PICK lt, ht, gt, dt, mt :
        /\ At(k, lt, ht, gt, dt, mt)'
        /\ SharedAt(k)' <=> InnerFacts!Shared(lt, ht, gt, dt, mt, got')
        /\ PairedAt(k)' <=> InnerFacts!PairedCopies(lt, ht, gt, dt, mt, got')
  BY SharedPick
<1>5. lt = ls /\ got' = got
  BY <1>2, <1>3, <1>4 DEF At, Sends
<1>6. /\ InnerFacts!SameBut(r, ht, hs) /\ InnerFacts!SameBut(r, gt, gs)
      /\ InnerFacts!SameBut(r, dt, ds)
  BY <1>2, <1>3, <1>4 DEF At, Sends, InnerFacts!SameBut
<1>7. /\ ht[r] = InnerFacts!EmptyKernel /\ gt[r] = InnerFacts!EmptyKernel
      /\ hs[r] = pending[r][k] /\ gs[r] = hook[r].inner[k]
  BY <1>2, <1>3, <1>4, SameInner DEF At, Sends
<1>8. N = m[r] + 1 /\ m[r] \in Nat /\ mt = [m EXCEPT ![r] = N]
  BY <1>2, <1>3, <1>4 DEF At, Sends
<1>9. /\ dt[r] = [i \in 1 .. N |-> sent'[r][i].delta.inner[k]]
      /\ ds[r] = [i \in 1 .. m[r] |-> sent[r][i].delta.inner[k]]
  BY <1>2, <1>3, <1>4 DEF At, Sends
<1>10. \A i \in 1 .. m[r] : dt[r][i] = ds[r][i]
  <2>1. \A i \in 1 .. m[r] : i \in 1 .. N /\ sent'[r][i] = sent[r][i]
    BY <1>2, <1>3, <1>8 DEF At, Sends
  <2> QED
    BY <1>9, <2>1
<1>11. dt[r][N] = InnerFacts!Extraction(gs[r], hs[r])
  <2>1. N \in 1 .. N /\ sent'[r][N].delta = d
    BY <1>2, <1>8 DEF Sends
  <2> QED
    BY <1>2, <1>7, <1>9, <2>1
<1>12. InnerFacts!Shared(ls, ht, gt, dt, mt, got)
  BY <1>3, <1>6, <1>7, <1>8, <1>10, <1>11, InnerFacts!SharedExtract
<1>13. ASSUME PairedAt(k)
       PROVE  PairedAt(k)'
  <2>1. m \in [Replica -> Nat]
    BY <1>3, TypedIsTypeOK DEF At, MInv, TypeOK
  <2>2. InnerFacts!Sends(r, hs, gs, ds, m, ht, gt, dt, mt)
    BY <1>6, <1>7, <1>8, <1>10, <1>11, <2>1 DEF InnerFacts!Sends
  <2>3. InnerFacts!PairedCopies(ls, ht, gt, dt, mt, got)
    BY <1>3, <1>13, <2>2, InnerFacts!PairedExtract
  <2> QED
    BY <1>4, <1>5, <2>3
<1> QED
  BY <1>4, <1>5, <1>12, <1>13

\* No key goes with a delta.
LEMMA SharedDelivered ==
  ASSUME MInv, Shaped, Set!AInv, NEW r \in Replica, NEW s \in Replica, NEW k \in Key,
         SharedAt(k), Deliver(r, s)
  PROVE  /\ SharedAt(k)'
         /\ Pending(r, s).delta.inner[k].keys \subseteq state'[r].inner[k].keys
         /\ PairedAt(k) /\ (\A t \in Replica : t = r \/ t = s) => PairedAt(k)'
<1>1. PICK j, d : j \in Nat /\ Merges(r, s, j, d)
  BY DeliverMoves
<1>2. state'[r].outer.keys = state[r].outer.keys \cup d.outer.keys
  <2>1. Set!Deliver(r, s) /\ Set!Pending(r, s).delta = d.outer
    BY <1>1, KeyDeliver DEF Merges
  <2>2. [q \in Replica |-> state'[q].outer][r].keys
          = [q \in Replica |-> state[q].outer][r].keys \cup Set!Pending(r, s).delta.keys
    BY <2>1, SetConstants, Set!AdditiveDeliver DEF MInv
  <2> QED
    BY <2>1, <2>2
<1>3. ShapedMap(d) /\ state[r] \in Map /\ d \in Map
  BY <1>1, TypedIsTypeOK DEF Shaped, Merges, MInv, TypeOK
<1>4. /\ state'[r].inner[k] =
           IF k \in state'[r].outer.keys
           THEN Inner!Merge("state", state[r].inner[k], d.inner[k]) ELSE Inner!EmptyKernel
  BY <1>1, <1>3, MergeInner DEF Merges
<1>5. state'[r].inner[k] = Inner!Merge("state", state[r].inner[k], d.inner[k])
  <2>1. CASE k \in state'[r].outer.keys
    BY <1>4, <2>1
  <2>2. CASE k \notin state'[r].outer.keys
    <3>1. state[r].inner[k] = Inner!EmptyKernel /\ d.inner[k] = Inner!EmptyKernel
      BY <1>2, <1>3, <2>2 DEF Shaped, ShapedMap
    <3> QED
      BY <1>4, <2>2, <3>1, InnerEmpty, InnerNothing
  <2> QED
    BY <2>1, <2>2
<1>6. pending'[r][k] = pending[r][k]
  BY <1>1, <1>2 DEF Merges, Shaped
<1>7. PICK ls, hs, gs, ds, m :
        /\ At(k, ls, hs, gs, ds, m) /\ InnerFacts!Shared(ls, hs, gs, ds, m, got)
        /\ PairedAt(k) <=> InnerFacts!PairedCopies(ls, hs, gs, ds, m, got)
  BY SharedPick
<1>8. PICK lt, ht, gt, dt, mt :
        /\ At(k, lt, ht, gt, dt, mt)'
        /\ SharedAt(k)' <=> InnerFacts!Shared(lt, ht, gt, dt, mt, got')
        /\ PairedAt(k)' <=> InnerFacts!PairedCopies(lt, ht, gt, dt, mt, got')
  BY SharedPick
<1>9. ht = hs /\ gt = gs /\ dt = ds /\ mt = m
  BY <1>1, <1>6, <1>7, <1>8 DEF At, Merges
<1>10. InnerFacts!SameBut(r, lt, ls)
  BY <1>1, <1>7, <1>8 DEF At, Merges, InnerFacts!SameBut
<1>11. /\ j = got[r][s] + 1 /\ j <= m[s] /\ r # s /\ got' = [got EXCEPT ![r][s] = j]
       /\ ds[s][j] = d.inner[k]
  <2>1. /\ j = got[r][s] + 1 /\ r # s /\ got' = [got EXCEPT ![r][s] = j]
        /\ j \in 1 .. Len(sent[s]) /\ d = sent[s][j].delta
    BY <1>1 DEF Merges
  <2>2. m[s] = Len(sent[s]) /\ ds[s] = [i \in 1 .. Len(sent[s]) |-> sent[s][i].delta.inner[k]]
    BY <1>7 DEF At
  <2>3. Len(sent[s]) \in Nat
    BY TypedIsTypeOK DEF MInv, TypeOK
  <2> QED
    BY <2>1, <2>2, <2>3
<1>12. lt[r] = state'[r].inner[k] /\ lt[r] = InnerFacts!Merge("state", ls[r], ds[s][j])
  <2>1. lt[r] = state'[r].inner[k] /\ ls[r] = state[r].inner[k]
    BY <1>7, <1>8 DEF At
  <2> QED
    BY <1>5, <1>11, <2>1, SameInner
<1>13. InnerFacts!Receives(r, s, j, ls, lt, ds, m, got, got')
  BY <1>10, <1>11, <1>12 DEF InnerFacts!Receives
<1>14. InnerFacts!Shared(lt, hs, gs, ds, m, got') /\ ds[s][j].keys \subseteq lt[r].keys
  <2>1. InnerFacts!Shared(lt, hs, gs, ds, m, got') /\ InnerFacts!Shows(ls[r], ds[s][j], lt[r])
    BY <1>7, <1>13, InnerFacts!SharedDeliver
  <2> QED
    BY <2>1 DEF InnerFacts!Shows
<1>15. Pending(r, s).delta.inner[k] = ds[s][j]
  BY <1>1, <1>11 DEF Merges
<1>16. ASSUME PairedAt(k), \A t \in Replica : t = r \/ t = s
       PROVE  PairedAt(k)'
  <2>1. InnerFacts!PairedCopies(lt, hs, gs, ds, m, got')
    BY <1>7, <1>13, <1>16, InnerFacts!PairedDeliver
  <2> QED
    BY <1>8, <1>9, <2>1
<1> QED
  BY <1>8, <1>9, <1>12, <1>14, <1>15, <1>16

\* An insert of an empty value, where the key is, changes nothing nested.
LEMMA EmptyInsert ==
  ASSUME MInv, MInv', Shaped, NEW r \in Replica, NEW k \in Key, NEW vals \in use.inserts,
         vals = <<>>, Insert(r, k, vals)
  PROVE  Unmoved(r, k)
<1>1. PICK inner : inner = Inner!EmptyKernel /\ inner = Built(r, vals)
  BY BuiltEmpty
<1>2. KeyMoves(r, k, state[r].inner[k], pending[r][k], inner)
  BY <1>1, InsertMoves
<1>3. state[r].inner[k] \in Inner!Kernel /\ hook[r].inner[k] \in Inner!Kernel
  BY TypedIsTypeOK DEF MInv, TypeOK, Map
<1>4. /\ Inner!Merge("state", state[r].inner[k], inner) = state[r].inner[k]
      /\ Inner!Merge("state", hook[r].inner[k], inner) = hook[r].inner[k]
  BY <1>1, <1>3, InnerNothing
<1> QED
  BY <1>2, <1>4 DEF KeyMoves, Unmoved

\* Every update that does not erase a key is an insert of a key.
LEMMA InsertsAKey ==
  ASSUME MInv, NEW r \in Replica, NEW j \in Key, NEW vals \in use.inserts, Insert(r, j, vals)
  PROVE  Set!Insert(r, j)
<1>1. PICK map, hooks, inner :
        /\ map = state[r] /\ hooks = pending[r] /\ inner = Built(r, vals)
        /\ CommitTo(r, map, hooks, KeyDelta(r, j, inner))
  BY DEF Insert, Commit, CommitTo
<1>2. inner \in Inner!Kernel
  BY <1>1, BuiltKernel
<1>3. Remember(r, j) /\ Len(sent[r]) < use.deltas /\ NextDot(r) <= use.dots
  BY DEF Insert, MayUpdate
<1> QED
  BY <1>1, <1>2, <1>3, KeyInsert

LEMMA NestedInsertsAKey ==
  ASSUME MInv, NEW r \in Replica, NEW j \in Key, NEW delta, NEW K, NEW A,
         NestedBy(r, j, delta, K, A)
  PROVE  Set!Insert(r, j)
<1>1. CommitNested(r, j, delta) /\ Len(sent[r]) < use.deltas
  BY DEF NestedBy, MayUpdateNested, MayUpdate
<1>2. PICK map, hooks, inner :
        /\ map = [state[r] EXCEPT !.inner[j] = Inner!Merge("state", @, delta)]
        /\ hooks = [pending[r] EXCEPT ![j] = Inner!Merge("delta", @, delta)]
        /\ inner = Inner!EmptyKernel
        /\ CommitTo(r, map, hooks, KeyDelta(r, j, inner))
  BY <1>1 DEF CommitNested, CommitTo
<1>3. map.outer = state[r].outer
  BY <1>2, TypedIsTypeOK DEF MInv, TypeOK, Map
<1>4. Remember(r, j) /\ NextDot(r) <= use.dots /\ inner \in Inner!Kernel
  BY <1>1, <1>2, InnerEmpty DEF CommitNested
<1> QED
  BY <1>1, <1>2, <1>3, <1>4, KeyInsert

\* No container is put, with its contents, over one that is there.
NoOverwrite == use.fresh \/ use.inserts \subseteq {<<>>}

\* The invariant: no delta deletes a key, and the containers at a key are copies.
StayInv == KeysStay /\ NoOverwrite => Set!AInv /\ \A k \in Key : SharedAt(k)

LEMMA StayInit ==
  ASSUME Init
  PROVE  StayInv
<1>1. Set!AInv
  <2>1. Set!Init
    BY SameKernels DEF Init, Set!Init, Set!Zero, EmptyMap
  <2> QED
    BY <2>1, SetConstants, Set!AdditiveInit
<1>2. ASSUME NEW k \in Key
      PROVE  SharedAt(k)
  <2>1. PICK ls, hs, gs, ds, m :
          At(k, ls, hs, gs, ds, m) /\ (SharedAt(k) <=> InnerFacts!Shared(ls, hs, gs, ds, m, got))
    BY SharedPick
  <2>2. \A r \in Replica :
          /\ state[r] = EmptyMap /\ hook[r] = EmptyMap /\ pending[r] = NoInner
          /\ Len(sent[r]) = 0 /\ got[r] = [s \in Replica |-> 0]
    BY DEF Init
  <2>3. EmptyMap.inner[k] = InnerFacts!EmptyKernel /\ NoInner[k] = InnerFacts!EmptyKernel
    BY SameInner DEF EmptyMap, NoInner
  <2>4. \A r \in Replica :
          /\ ls[r] = InnerFacts!EmptyKernel /\ hs[r] = InnerFacts!EmptyKernel
          /\ gs[r] = InnerFacts!EmptyKernel /\ m[r] = 0
    BY <2>1, <2>2, <2>3 DEF At
  <2>5. got = [r \in Replica |-> [s \in Replica |-> 0]]
    BY DEF Init
  <2>6. m \in [Replica -> Nat]
    BY <2>1, <2>2 DEF At
  <2>7. InnerFacts!Merged(m, got)
    BY <2>4, <2>5, <2>6 DEF InnerFacts!Merged
  <2>8. InnerFacts!Shared(ls, hs, gs, ds, m, got)
    BY <2>4, <2>7, InnerFacts!SharedInit
  <2> QED
    BY <2>1, <2>8
<1> QED
  BY <1>1, <1>2 DEF StayInv

\* An application keeps its use.
LEMMA UseFixed ==
  ASSUME [Next]_vars
  PROVE  use' = use
<1>1. ASSUME NEW r \in Replica, NEW k \in Key, NEW vals \in use.inserts, Insert(r, k, vals)
      PROVE  use' = use
  BY <1>1 DEF Insert, Commit, CommitTo
<1>2. ASSUME NEW r \in Replica, NEW k \in Key, Erase(r, k)
      PROVE  use' = use
  BY <1>2 DEF Erase, Commit, CommitTo
<1>3. ASSUME NEW r \in Replica, NEW k \in Key, NestedUpdate(r, k)
      PROVE  use' = use
  <2>1. ASSUME NEW e \in Elem, NestedInsert(r, k, e)
        PROVE  use' = use
    BY <2>1 DEF NestedInsert, CommitNested, CommitTo
  <2>2. ASSUME NEW e \in Elem, NestedErase(r, k, e)
        PROVE  use' = use
    BY <2>2 DEF NestedErase, CommitNested, CommitTo
  <2>3. ASSUME NEW e \in Elem, NestedSet(r, k, e)
        PROVE  use' = use
    BY <2>3 DEF NestedSet, CommitNested, CommitTo
  <2>4. NestedClear(r, k) => use' = use
    BY DEF NestedClear, CommitNested, CommitTo
  <2> QED
    BY <1>3, <2>1, <2>2, <2>3, <2>4 DEF NestedUpdate
<1>4. ASSUME NEW r \in Replica, Clear(r)
      PROVE  use' = use
  BY <1>4 DEF Clear, Commit, CommitTo
<1>5. \A r \in Replica : Extract(r) => use' = use
  BY DEF Extract
<1>6. \A r, s \in Replica : Deliver(r, s) => use' = use
  BY DEF Deliver
<1>7. UNCHANGED vars => use' = use
  BY DEF vars
<1> QED
  BY <1>1, <1>2, <1>3, <1>4, <1>5, <1>6, <1>7 DEF Next

LEMMA StayStep ==
  ASSUME MInv, MInv', Shaped, StayInv, [Next]_vars
  PROVE  StayInv'
<1> SUFFICES ASSUME (KeysStay /\ NoOverwrite)'
             PROVE  (Set!AInv /\ \A k \in Key : SharedAt(k))'
  BY DEF StayInv
<1>1. use' = use
  BY UseFixed
<1>2. KeysStay /\ NoOverwrite
  BY <1>1 DEF KeysStay, NoOverwrite
<1>3. Set!AInv /\ \A k \in Key : SharedAt(k)
  BY <1>2 DEF StayInv
<1>4. ASSUME NEW r \in Replica, NEW j \in Key, NEW vals \in use.inserts, Insert(r, j, vals)
      PROVE  Set!AInv' /\ \A k \in Key : SharedAt(k)'
  <2>1. Set!AInv'
    BY <1>3, <1>4, InsertsAKey, SetConstants, Set!AdditiveInsert DEF MInv
  <2>2. PICK base, p, inner : KeyMoves(r, j, base, p, inner)
    BY <1>4, InsertMoves
  <2>3. ASSUME NEW k \in Key, Unmoved(r, k)
        PROVE  SharedAt(k)'
    <3>1. \A q \in Replica : Unmoved(q, k)
      BY <2>2, <2>3 DEF KeyMoves, Alone, Unmoved
    <3> QED
      BY <1>3, <2>2, <3>1, SharedUnmoved DEF KeyMoves, Alone
  <2>4. CASE vals = <<>>
    BY <1>4, <2>1, <2>2, <2>3, <2>4, EmptyInsert DEF KeyMoves
  <2>5. CASE vals # <<>>
    <3>1. use.fresh
      BY <1>2, <2>5 DEF NoOverwrite
    <3>2. SharedAt(j)'
      BY <1>3, <1>4, <3>1, SharedInsert
    <3> QED
      BY <2>1, <2>2, <2>3, <3>2 DEF KeyMoves
  <2> QED
    BY <2>4, <2>5
<1>5. ASSUME NEW r \in Replica, NEW j \in Key, NestedUpdate(r, j)
      PROVE  Set!AInv' /\ \A k \in Key : SharedAt(k)'
  <2>1. PICK delta, K, A : NestedBy(r, j, delta, K, A)
    BY <1>5, UpdateChanges
  <2>2. Set!AInv'
    BY <1>3, <2>1, NestedInsertsAKey, SetConstants, Set!AdditiveInsert DEF MInv
  <2>3. PICK base, p, inner : KeyMoves(r, j, base, p, inner)
    BY <2>1, NestedMoves DEF NestedBy, MayUpdateNested, MayUpdate
  <2>4. ASSUME NEW k \in Key, k # j
        PROVE  SharedAt(k)'
    <3>1. \A q \in Replica : Unmoved(q, k)
      BY <2>3, <2>4 DEF KeyMoves, Alone, Unmoved
    <3> QED
      BY <1>3, <2>3, <3>1, SharedUnmoved DEF KeyMoves, Alone
  <2>5. SharedAt(j)'
    BY <1>3, <2>1, SharedNested
  <2> QED
    BY <2>2, <2>4, <2>5
<1>6. ASSUME NEW r \in Replica, Clear(r) \/ \E k \in Key : Erase(r, k)
      PROVE  FALSE
  BY <1>2, <1>6 DEF KeysStay, Clear, Erase
<1>7. ASSUME NEW r \in Replica, Extract(r)
      PROVE  Set!AInv' /\ \A k \in Key : SharedAt(k)'
  <2>1. Set!AInv'
    BY <1>3, <1>7, KeyExtract, SetConstants, Set!AdditiveExtract DEF MInv
  <2> QED
    BY <1>3, <1>7, <2>1, SharedExtracted
<1>8. ASSUME NEW r \in Replica, NEW s \in Replica, Deliver(r, s)
      PROVE  Set!AInv' /\ \A k \in Key : SharedAt(k)'
  <2>1. Set!AInv'
    BY <1>3, <1>8, KeyDeliver, SetConstants, Set!AdditiveDeliver DEF MInv
  <2> QED
    BY <1>3, <1>8, <2>1, SharedDelivered
<1>9. CASE UNCHANGED vars
  <2>1. Set!AInv'
    <3>1. UNCHANGED Set!vars
      BY <1>9 DEF vars, Set!vars
    <3> QED
      BY <1>3, <3>1, SetConstants, Set!AdditiveStutter
  <2>2. \A k \in Key : SharedAt(k)'
    BY <1>3, <1>9, SharedUnmoved DEF vars, Unmoved
  <2> QED
    BY <2>1, <2>2
<1> QED
  BY <1>4, <1>5, <1>6, <1>7, <1>8, <1>9 DEF Next

-----------------------------------------------------------------------------
(* One replica updates, and extracts every update by itself.               *)

\* What is extracted holds what was accumulated.
Gathered(r) ==
  /\ Extracted(r) \in Map /\ ShapedMap(Extracted(r))
  /\ Extracted(r).outer = Outer!Merge("delta", Outer!EmptyKernel, hook[r].outer)
  /\ \A k \in Key : Extracted(r).inner[k] =
       InnerFacts!Extraction(hook[r].inner[k], pending[r][k])

LEMMA GatheredNow == MInv => \A r \in Replica : Gathered(r)
BY ExtractedShape DEF Gathered

LEMMA GatheredAfter == MInv' => (\A r \in Replica : Gathered(r))'
BY GatheredNow, PTL

\* When the readers, whose map is L, merge x, the delta writer w has to extract, their map v
\* has the keys of w, and their containers follow those of w.
AheadAt(w, k, x, v) ==
  /\ InnerFacts!Followed(w, state[w].inner[k], v.inner[k],
                         pending[w][k], hook[w].inner[k], x.inner[k])
  /\ Tracked(use) => \A t \in Replica \ {w} :
       InnerFacts!Mirrors(w, state[w].inner[k], v.inner[k])

Ahead(w, L) == \E x, v :
  /\ x = Extracted(w) /\ v = MapMerge("state", L, x)
  /\ v.outer = state[w].outer
  /\ \A k \in Key : AheadAt(w, k, x, v)

\* There is nothing to extract.
Level(w, L) ==
  /\ L.outer = state[w].outer
  /\ \A k \in Key :
       /\ pending[w][k] = Inner!EmptyKernel /\ hook[w].inner[k] = Inner!EmptyKernel
       /\ InnerFacts!Follows(w, state[w].inner[k], L.inner[k])
       /\ Tracked(use) => \A t \in Replica \ {w} :
            InnerFacts!Mirrors(w, state[w].inner[k], L.inner[k])

\* A map is what it was when nothing is merged into it.
LEMMA ViewSame ==
  ASSUME NEW L \in Map, ShapedMap(L), NEW x \in Map, ShapedMap(x),
         x.outer = Outer!EmptyKernel, \A k \in Key : x.inner[k] = Inner!EmptyKernel,
         NEW v, v = MapMerge("state", L, x)
  PROVE  v = L
<1>1. v.outer = L.outer
  <2>1. L.outer \in Outer!Kernel
    BY DEF Map
  <2>2. v.outer = Outer!Merge("state", L.outer, x.outer)
    BY DEF MapMerge
  <2> QED
    BY <2>1, <2>2, OuterNothing
<1>2. ASSUME NEW k \in Key
      PROVE  v.inner[k] = L.inner[k]
  <2>1. L.inner[k] \in Inner!Kernel
    BY DEF Map
  <2>2. Inner!Merge("state", L.inner[k], x.inner[k]) = L.inner[k]
    BY <2>1, InnerNothing
  <2>3. v.inner[k] = IF k \in v.outer.keys THEN Inner!Merge("state", L.inner[k], x.inner[k])
                     ELSE Inner!EmptyKernel
    BY MergeInner
  <2> QED
    BY <1>1, <2>2, <2>3 DEF ShapedMap
<1>3. v = [outer |-> v.outer, inner |-> MergedInner(v.outer.keys, L, x)]
  BY DEF MapMerge
<1>4. v.inner = MergedInner(v.outer.keys, L, x)
  BY DEF MapMerge
<1>5. v.inner = L.inner
  <2>1. L.inner \in [Key -> Inner!Kernel]
    BY DEF Map
  <2>2. DOMAIN v.inner = Key /\ v.inner = [k \in Key |-> v.inner[k]]
    BY <1>4 DEF MergedInner
  <2> QED
    BY <1>2, <2>1, <2>2
<1> QED
  BY <1>1, <1>3, <1>4, <1>5 DEF Map

\* With an empty hook nothing is extracted.
LEMMA NothingGathered ==
  ASSUME MInv, NEW w \in Replica, hook[w] = EmptyMap, NEW x, x = Extracted(w)
  PROVE  /\ x \in Map /\ ShapedMap(x) /\ x.outer = Outer!EmptyKernel
         /\ \A k \in Key : /\ x.inner[k] = Inner!EmptyKernel /\ pending[w][k] = Inner!EmptyKernel
                           /\ hook[w].inner[k] = Inner!EmptyKernel
<1>1. Gathered(w)
  BY GatheredNow
<1>2. hook[w].outer = Outer!EmptyKernel /\ hook[w].outer.keys = {}
      /\ \A k \in Key : hook[w].inner[k] = Inner!EmptyKernel
  BY DEF EmptyMap, NoInner, Outer!EmptyKernel
<1>3. \A k \in Key : pending[w][k] = Inner!EmptyKernel
  BY <1>2 DEF MInv, PendingHooked
<1>4. Outer!Merge("delta", Outer!EmptyKernel, Outer!EmptyKernel) = Outer!EmptyKernel
  <2>1. Outer!EmptyKernel \in Outer!Kernel
    BY SameOuter, OuterFacts!EmptyKernelType
  <2> QED
    BY <2>1, OuterNothing
<1> QED
  BY <1>1, <1>2, <1>3, <1>4, ExtractionEmpty DEF Gathered

LEMMA AheadLevel ==
  ASSUME MInv, NEW w \in Replica, hook[w] = EmptyMap, NEW L \in Map, ShapedMap(L), Ahead(w, L)
  PROVE  Level(w, L)
<1>1. PICK x, v : /\ x = Extracted(w) /\ v = MapMerge("state", L, x)
                  /\ v.outer = state[w].outer
                  /\ \A k \in Key : AheadAt(w, k, x, v)
  BY DEF Ahead
<1>2. v = L
  BY <1>1, NothingGathered, ViewSame
<1> QED
  BY <1>1, <1>2, NothingGathered DEF Level, AheadAt, InnerFacts!Followed

\* Then the readers are level as soon as the hook of w is empty.
Rests(w) == \A L \in Map :
  ShapedMap(L) /\ Level(w, L) /\ hook[w] = EmptyMap => Ahead(w, L)

LEMMA RestsNow == MInv => \A w \in Replica : Rests(w)
<1> SUFFICES ASSUME MInv, NEW w \in Replica, NEW L \in Map, ShapedMap(L), Level(w, L),
                    hook[w] = EmptyMap
             PROVE  Ahead(w, L)
  BY DEF Rests
<1>1. PICK x, v : x = Extracted(w) /\ v = MapMerge("state", L, x)
  OBVIOUS
<1>2. /\ x \in Map /\ ShapedMap(x) /\ x.outer = Outer!EmptyKernel
      /\ \A k \in Key : x.inner[k] = Inner!EmptyKernel
  BY <1>1, NothingGathered
<1>3. v = L
  BY <1>1, <1>2, ViewSame
<1>4. ASSUME NEW k \in Key
      PROVE  AheadAt(w, k, x, v)
  <2>1. /\ pending[w][k] = InnerFacts!EmptyKernel /\ hook[w].inner[k] = InnerFacts!EmptyKernel
        /\ x.inner[k] = InnerFacts!EmptyKernel
        /\ InnerFacts!Follows(w, state[w].inner[k], L.inner[k])
    BY <1>2, SameInner DEF Level
  <2>2. InnerFacts!Followed(w, state[w].inner[k], L.inner[k], InnerFacts!EmptyKernel,
          InnerFacts!EmptyKernel, InnerFacts!EmptyKernel)
    BY <2>1, InnerFacts!FollowedStill
  <2> QED
    BY <1>3, <2>1, <2>2 DEF AheadAt, Level
<1> QED
  BY <1>1, <1>3, <1>4 DEF Ahead, Level

LEMMA RestsAfter == MInv' => (\A w \in Replica : Rests(w))'
BY RestsNow, PTL

\* Replica w commits o to its keys and to their hook.
OuterCommit(w, o) ==
  /\ o \in Outer!Kernel /\ OuterFacts!Supported(o) /\ OuterFacts!Apart(o.dots)
  /\ state'[w].outer = Outer!Merge("state", state[w].outer, o)
  /\ hook'[w].outer = Outer!Merge("delta", hook[w].outer, o)

LEMMA InsertOuter ==
  ASSUME MInv, NEW w \in Replica, NEW j \in Key, NEW map, NEW p, NEW inner,
         map.outer = state[w].outer, CommitTo(w, map, p, KeyDelta(w, j, inner))
  PROVE  \E o : OuterCommit(w, o)
<1>1. PICK d : d = KeyDelta(w, j, inner) /\ CommitTo(w, map, p, d)
  OBVIOUS
<1>2. PICK c \in Nat \ {0} : c = NextDot(w)
  BY KeyDotValue
<1>3. PICK o : o = d.outer /\ o = Outer!ValueDelta(j, w, c)
  BY <1>1, <1>2 DEF KeyDelta
<1>4. o \in Outer!Kernel
  <2>1. Outer!ValueDelta(j, w, c) \in Outer!Kernel
    BY DEF Outer!ValueDelta, Outer!EmptyKernel, Outer!Kernel, Outer!NoDots, Outer!Dots
  <2> QED
    BY <1>3, <2>1
<1>5. /\ o.keys = {j} /\ c \in o.dots[j][w]
      /\ \A k \in Key \ {j} : \A s \in Replica : o.dots[k][s] = {}
  BY <1>3 DEF Outer!ValueDelta, Outer!EmptyKernel, Outer!NoDots
<1>6. OuterFacts!Supported(o) /\ OuterFacts!Apart(o.dots)
  BY <1>5 DEF OuterFacts!Supported, OuterFacts!Apart
<1>7. state'[w] = MapMerge("state", map, d) /\ hook'[w] = MapMerge("delta", hook[w], d)
  BY <1>1, Committed
<1>8. /\ state'[w].outer = Outer!Merge("state", state[w].outer, o)
      /\ hook'[w].outer = Outer!Merge("delta", hook[w].outer, o)
  <2>1. PICK m, h : m = MapMerge("state", map, d) /\ h = MapMerge("delta", hook[w], d)
    OBVIOUS
  <2>2. /\ m.outer = Outer!Merge("state", map.outer, d.outer)
        /\ h.outer = Outer!Merge("delta", hook[w].outer, d.outer)
    BY <2>1 DEF MapMerge
  <2>3. d.outer = o /\ state'[w] = m /\ hook'[w] = h
    BY <1>3, <1>7, <2>1
  <2> QED
    BY <2>2, <2>3
<1>9. OuterCommit(w, o)
  BY <1>4, <1>6, <1>8 DEF OuterCommit
<1> QED
  BY <1>9

LEMMA ForgetOuter ==
  ASSUME MInv, NEW w \in Replica, NEW K \in SUBSET Key, Commit(w, ForgetDelta(w, K))
  PROVE  \E o : OuterCommit(w, o)
<1>1. PICK d : d = ForgetDelta(w, K) /\ CommitTo(w, state[w], pending[w], d)
  BY DEF Commit
<1>2. PICK o : o = d.outer /\ o = OuterFacts!CountersDelta(state[w].outer, K)
  BY <1>1, SameOuter DEF ForgetDelta
<1>3. state[w].outer \in OuterFacts!Kernel
  BY SameOuter, TypedIsTypeOK DEF MInv, TypeOK, Map
<1>4. o \in Outer!Kernel
  BY <1>2, <1>3, SameOuter, OuterFacts!CountersDeltaType
<1>5. o.keys = {} /\ \A k \in Key : \A s \in Replica : o.dots[k][s] = {}
  BY <1>2 DEF OuterFacts!CountersDelta, OuterFacts!EmptyKernel, OuterFacts!NoDots
<1>6. OuterFacts!Supported(o) /\ OuterFacts!Apart(o.dots)
  BY <1>5 DEF OuterFacts!Supported, OuterFacts!Apart
<1>7. state'[w] = MapMerge("state", state[w], d) /\ hook'[w] = MapMerge("delta", hook[w], d)
  BY <1>1, Committed
<1>8. /\ state'[w].outer = Outer!Merge("state", state[w].outer, o)
      /\ hook'[w].outer = Outer!Merge("delta", hook[w].outer, o)
  <2>1. PICK m, h : m = MapMerge("state", state[w], d) /\ h = MapMerge("delta", hook[w], d)
    OBVIOUS
  <2>2. /\ m.outer = Outer!Merge("state", state[w].outer, d.outer)
        /\ h.outer = Outer!Merge("delta", hook[w].outer, d.outer)
    BY <2>1 DEF MapMerge
  <2>3. d.outer = o /\ state'[w] = m /\ hook'[w] = h
    BY <1>2, <1>7, <2>1
  <2> QED
    BY <2>2, <2>3
<1>9. OuterCommit(w, o)
  BY <1>4, <1>6, <1>8 DEF OuterCommit
<1> QED
  BY <1>9

\* What w extracts then, and what becomes of the readers' map L.
Viewed(w, L, x, v) ==
  /\ x = Extracted(w)' /\ v = MapMerge("state", L, x) /\ v.outer = state'[w].outer
  /\ \A k \in Key :
       /\ x.inner[k] = InnerFacts!Extraction(hook'[w].inner[k], pending'[w][k])
       /\ k \in state'[w].outer.keys => v.inner[k] = Inner!Merge("state", L.inner[k], x.inner[k])
       /\ k \notin state'[w].outer.keys => v.inner[k] = Inner!EmptyKernel

LEMMA UpdateViewed ==
  ASSUME MInv', NEW w \in Replica, hook[w] = EmptyMap, NEW L \in Map, ShapedMap(L),
         L.outer = state[w].outer, NEW o, OuterCommit(w, o)
  PROVE  \E x, v : Viewed(w, L, x, v)
<1>1. PICK x, v : x = Extracted(w)' /\ v = MapMerge("state", L, x)
  OBVIOUS
<1>2. Gathered(w)'
  BY GatheredAfter
<1>3. /\ x \in Map /\ ShapedMap(x)
      /\ x.outer = Outer!Merge("delta", Outer!EmptyKernel, hook'[w].outer)
      /\ \A k \in Key : x.inner[k] = InnerFacts!Extraction(hook'[w].inner[k], pending'[w][k])
  BY <1>1, <1>2 DEF Gathered, ShapedMap
<1>4. v.outer = state'[w].outer
  <2>1. PICK h : h = Outer!Merge("delta", Outer!EmptyKernel, o)
    OBVIOUS
  <2>2. hook'[w].outer = h
    BY <2>1 DEF OuterCommit, EmptyMap
  <2>3. PICK y : y = x.outer
    OBVIOUS
  <2>4. /\ o \in OuterFacts!Kernel /\ OuterFacts!Supported(o) /\ OuterFacts!Apart(o.dots)
        /\ h = OuterFacts!Merge("delta", OuterFacts!EmptyKernel, o)
        /\ y = OuterFacts!Merge("delta", OuterFacts!EmptyKernel, h)
    BY <1>3, <2>1, <2>2, <2>3, SameOuter DEF OuterCommit
  <2>5. OuterFacts!Merge("state", L.outer, y) = OuterFacts!Merge("state", L.outer, o)
    BY <2>4, OuterFacts!HookTwice
  <2>6. Outer!Merge("state", L.outer, y) = Outer!Merge("state", L.outer, o)
    BY <2>5, SameOuter
  <2>7. v.outer = Outer!Merge("state", L.outer, y)
    BY <1>1, <2>3 DEF MapMerge
  <2> QED
    BY <2>6, <2>7 DEF OuterCommit
<1>5. ASSUME NEW k \in Key
      PROVE  v.inner[k] = IF k \in v.outer.keys THEN Inner!Merge("state", L.inner[k], x.inner[k])
                          ELSE Inner!EmptyKernel
  BY <1>1, <1>3, MergeInner
<1>6. Viewed(w, L, x, v)
  BY <1>1, <1>3, <1>4, <1>5 DEF Viewed
<1> QED
  BY <1>6

LEMMA LevelUnmoved ==
  ASSUME NEW w \in Replica, NEW L \in Map, ShapedMap(L), Level(w, L), use' = use,
         NEW x, NEW v, Viewed(w, L, x, v), NEW k \in Key, Unmoved(w, k),
         k \in state[w].outer.keys => k \in state'[w].outer.keys
  PROVE  AheadAt(w, k, x, v)'
<1>1. /\ state'[w].inner[k] = state[w].inner[k]
      /\ pending'[w][k] = Inner!EmptyKernel /\ hook'[w].inner[k] = Inner!EmptyKernel
  BY DEF Unmoved, Level
<1>2. x.inner[k] = Inner!EmptyKernel
  BY <1>1, ExtractionEmpty DEF Viewed
<1>3. v.inner[k] = L.inner[k]
  <2>1. Inner!Merge("state", L.inner[k], Inner!EmptyKernel) = L.inner[k]
    BY InnerNothing DEF Map
  <2>2. CASE k \in state'[w].outer.keys
    BY <1>2, <2>1, <2>2 DEF Viewed
  <2>3. CASE k \notin state'[w].outer.keys
    <3>1. k \notin L.outer.keys
      BY <2>3 DEF Level
    <3> QED
      BY <2>3, <3>1 DEF Viewed, ShapedMap
  <2> QED
    BY <2>2, <2>3
<1>4. InnerFacts!Followed(w, state[w].inner[k], L.inner[k], InnerFacts!EmptyKernel,
        InnerFacts!EmptyKernel, InnerFacts!EmptyKernel)
  BY InnerFacts!FollowedStill DEF Level
<1>5. Tracked(use) => \A t \in Replica \ {w} :
        InnerFacts!Mirrors(w, state[w].inner[k], L.inner[k])
  BY DEF Level
<1> QED
  BY <1>1, <1>2, <1>3, <1>4, <1>5, SameInner DEF AheadAt

LEMMA LevelNested ==
  ASSUME MInv, MInv', Shaped, NEW w \in Replica, NEW L \in Map, Level(w, L), use' = use,
         NEW x, NEW v, Viewed(w, L, x, v), NEW k \in Key,
         NEW delta, NEW K, NEW A, NestedBy(w, k, delta, K, A),
         Tracked(use) => NestedSingle(w, k, delta)
  PROVE  /\ AheadAt(w, k, x, v)'
         /\ InnerFacts!ChangedKeys(state[w].inner[k], state'[w].inner[k], K, A)
<1>1. /\ delta \in Inner!Kernel /\ Len(sent[w]) < use.deltas /\ CommitNested(w, k, delta)
      /\ InnerFacts!Change(delta, state[w].inner[k], w, K, A)
  BY DEF NestedBy, MayUpdateNested, MayUpdate
<1>2. PICK base, p :
        /\ base = Inner!Merge("state", state[w].inner[k], delta)
        /\ p = Inner!Merge("delta", pending[w][k], delta)
        /\ KeyMoves(w, k, base, p, Inner!EmptyKernel)
  BY <1>1, NestedMoves
<1>3. pending[w][k] = Inner!EmptyKernel /\ hook[w].inner[k] = Inner!EmptyKernel
  BY DEF Level
<1>4. /\ base \in Inner!Kernel
      /\ Inner!Merge("state", Inner!EmptyKernel, Inner!EmptyKernel) = Inner!EmptyKernel
  <2>1. state[w].inner[k] \in Inner!Kernel
    BY TypedIsTypeOK DEF MInv, TypeOK, Map
  <2> QED
    BY <1>1, <1>2, <2>1, SameInner, InnerFacts!MergeType, InnerEmpty, InnerNothing
<1>5. /\ state'[w].inner[k] = base /\ pending'[w][k] = p
      /\ hook'[w].inner[k] = Inner!EmptyKernel /\ k \in state'[w].outer.keys
  BY <1>2, <1>3, <1>4, InnerNothing DEF KeyMoves
<1>6. /\ base = InnerFacts!Merge("state", state[w].inner[k], delta)
      /\ p = InnerFacts!Merge("delta", InnerFacts!EmptyKernel, delta)
      /\ x.inner[k] = InnerFacts!Extraction(InnerFacts!EmptyKernel, p)
      /\ v.inner[k] = InnerFacts!Merge("state", L.inner[k], x.inner[k])
  BY <1>2, <1>3, <1>5, SameInner DEF Viewed
<1>7. PICK l, u, m, y, q :
        /\ l = state[w].inner[k] /\ u = L.inner[k] /\ m = state'[w].inner[k]
        /\ y = v.inner[k] /\ q = x.inner[k]
  OBVIOUS
<1>8. InnerFacts!AfterChange(l, u, delta, m, p, q, y)
  BY <1>5, <1>6, <1>7 DEF InnerFacts!AfterChange
<1>9. InnerFacts!Follows(w, l, u) /\ InnerFacts!Change(delta, l, w, K, A)
  BY <1>1, <1>7 DEF Level
<1>10. /\ InnerFacts!Followed(w, m, y, p, InnerFacts!EmptyKernel, q)
       /\ InnerFacts!ChangedKeys(l, m, K, A)
  BY <1>8, <1>9, InnerFacts!FollowsChange
<1>11. ASSUME Tracked(use), NEW t \in Replica \ {w}
       PROVE  InnerFacts!Mirrors(w, m, y)
  <2>1. InnerFacts!Mirrors(w, l, u) /\ InnerFacts!SingleChange(delta, l, w)
    BY <1>7, <1>11 DEF Level, NestedSingle
  <2> QED
    BY <1>8, <1>9, <2>1, InnerFacts!MirrorsChange
<1> QED
  BY <1>5, <1>7, <1>10, <1>11, SameInner DEF AheadAt

LEMMA LevelInsert ==
  ASSUME MInv, MInv', Shaped, NEW w \in Replica, NEW L \in Map, ShapedMap(L), Level(w, L),
         use' = use, NEW x, NEW v, Viewed(w, L, x, v), NEW k \in Key,
         NEW vals \in use.inserts, Insert(w, k, vals), use.fresh
  PROVE  AheadAt(w, k, x, v)'
<1>1. PICK f, n : f = Built(w, vals) /\ n = Len(vals) /\ InnerFacts!Fills(w, f, n)
  BY BuiltFills
<1>2. KeyMoves(w, k, state[w].inner[k], pending[w][k], f)
  BY <1>1, InsertMoves
<1>3. /\ state[w].inner[k] = Inner!EmptyKernel /\ L.inner[k] = Inner!EmptyKernel
      /\ pending[w][k] = Inner!EmptyKernel /\ hook[w].inner[k] = Inner!EmptyKernel
  <2>1. k \notin state[w].outer.keys /\ k \notin L.outer.keys
    BY DEF Insert, Level
  <2> QED
    BY <2>1 DEF Shaped, ShapedMap, Level
<1>4. PICK m, y, q : m = state'[w].inner[k] /\ y = v.inner[k] /\ q = x.inner[k]
  OBVIOUS
<1>5. /\ m = InnerFacts!Merge("state", InnerFacts!EmptyKernel, f)
      /\ hook'[w].inner[k] = m /\ pending'[w][k] = InnerFacts!EmptyKernel
      /\ k \in state'[w].outer.keys
  BY <1>2, <1>3, <1>4, SameInner DEF KeyMoves
<1>6. /\ q = InnerFacts!Extraction(m, InnerFacts!EmptyKernel)
      /\ y = InnerFacts!Merge("state", InnerFacts!EmptyKernel, q)
  BY <1>3, <1>4, <1>5, SameInner DEF Viewed
<1>7. InnerFacts!AfterFill(f, m, q, y)
  BY <1>5, <1>6 DEF InnerFacts!AfterFill
<1>8. InnerFacts!Followed(w, m, y, InnerFacts!EmptyKernel, m, q)
  BY <1>1, <1>7, InnerFacts!FollowsFill
<1>9. InnerFacts!Mirrors(w, m, y)
  BY <1>1, <1>7, InnerFacts!MirrorsFill
<1> QED
  BY <1>4, <1>5, <1>8, <1>9 DEF AheadAt

LEMMA LevelKeysGo ==
  ASSUME NEW w \in Replica, NEW L \in Map, ShapedMap(L), Level(w, L), use' = use,
         NEW x, NEW v, Viewed(w, L, x, v), NEW k \in Key, NEW K, KeysGo(w, K)
  PROVE  AheadAt(w, k, x, v)'
<1>1. pending'[w][k] = Inner!EmptyKernel /\ hook'[w].inner[k] = Inner!EmptyKernel
  BY DEF KeysGo, Level
<1>2. CASE k \in state'[w].outer.keys
  <2>1. Unmoved(w, k)
    BY <1>1, <1>2 DEF KeysGo, Level, Unmoved
  <2> QED
    BY <1>2, <2>1, LevelUnmoved
<1>3. CASE k \notin state'[w].outer.keys
  <2>1. state'[w].inner[k] = Inner!EmptyKernel /\ v.inner[k] = Inner!EmptyKernel
    BY <1>3 DEF KeysGo, Viewed
  <2>2. x.inner[k] = Inner!EmptyKernel
    BY <1>1, ExtractionEmpty DEF Viewed
  <2>3. PICK e : e = InnerFacts!EmptyKernel
    OBVIOUS
  <2>4. InnerFacts!Followed(w, e, e, e, e, e) /\ InnerFacts!Mirrors(w, e, e)
    BY <2>3, InnerFacts!FollowsEmpty, InnerFacts!FollowedStill, InnerFacts!MirrorsEmpty
  <2> QED
    BY <1>1, <2>1, <2>2, <2>3, <2>4, SameInner DEF AheadAt
<1> QED
  BY <1>2, <1>3

LEMMA ViewedAhead ==
  ASSUME NEW w \in Replica, NEW L, NEW x, NEW v, Viewed(w, L, x, v),
         \A k \in Key : AheadAt(w, k, x, v)'
  PROVE  Ahead(w, L)'
BY DEF Viewed, Ahead

\* The updates of w, when there is nothing to extract.
LEMMA InsertAhead ==
  ASSUME MInv, MInv', Shaped, NEW w \in Replica, hook[w] = EmptyMap, NoOverwrite,
         NEW L \in Map, ShapedMap(L), Level(w, L),
         NEW j \in Key, NEW vals \in use.inserts, Insert(w, j, vals)
  PROVE  Alone(w) /\ Ahead(w, L)'
<1>1. PICK base, p, inner : KeyMoves(w, j, base, p, inner)
  BY InsertMoves
<1>2. Alone(w) /\ use' = use
  BY <1>1 DEF KeyMoves, Alone
<1>3. PICK o : OuterCommit(w, o)
  <2>1. PICK map, p2, in2 :
          /\ map = state[w] /\ p2 = pending[w] /\ in2 = Built(w, vals)
          /\ CommitTo(w, map, p2, KeyDelta(w, j, in2))
    BY DEF Insert, Commit, CommitTo
  <2> QED
    BY <2>1, InsertOuter
<1>4. PICK x, v : Viewed(w, L, x, v)
  BY <1>3, UpdateViewed DEF Level
<1>5. ASSUME NEW k \in Key, Unmoved(w, k)
      PROVE  AheadAt(w, k, x, v)'
  <2>1. k \in state[w].outer.keys => k \in state'[w].outer.keys
    BY <1>1 DEF KeyMoves
  <2> QED
    BY <1>2, <1>4, <1>5, <2>1, LevelUnmoved
<1>6. AheadAt(w, j, x, v)'
  <2>1. CASE vals = <<>>
    BY <1>5, <2>1, EmptyInsert
  <2>2. CASE vals # <<>>
    <3>1. use.fresh
      BY <2>2 DEF NoOverwrite
    <3> QED
      BY <1>2, <1>4, <3>1, LevelInsert
  <2> QED
    BY <2>1, <2>2
<1>7. \A k \in Key : AheadAt(w, k, x, v)'
  BY <1>1, <1>5, <1>6 DEF KeyMoves
<1> QED
  BY <1>2, <1>4, <1>7, ViewedAhead

LEMMA NestedAhead ==
  ASSUME MInv, MInv', Shaped, NEW w \in Replica, hook[w] = EmptyMap,
         NEW L \in Map, ShapedMap(L), Level(w, L),
         NEW j \in Key, NEW delta, NEW K, NEW A, NestedBy(w, j, delta, K, A),
         Tracked(use) => NestedSingle(w, j, delta)
  PROVE  Alone(w) /\ Ahead(w, L)'
<1>1. PICK base, p, inner : KeyMoves(w, j, base, p, inner)
  BY NestedMoves DEF NestedBy, MayUpdateNested, MayUpdate
<1>2. Alone(w) /\ use' = use
  BY <1>1 DEF KeyMoves, Alone
<1>3. PICK o : OuterCommit(w, o)
  <2>1. PICK map, p2, in2 :
          /\ map = [state[w] EXCEPT !.inner[j] = Inner!Merge("state", @, delta)]
          /\ p2 = [pending[w] EXCEPT ![j] = Inner!Merge("delta", @, delta)]
          /\ in2 = Inner!EmptyKernel
          /\ CommitTo(w, map, p2, KeyDelta(w, j, in2))
    BY DEF NestedBy, CommitNested, CommitTo
  <2>2. map.outer = state[w].outer
    BY <2>1, TypedIsTypeOK DEF MInv, TypeOK, Map
  <2> QED
    BY <2>1, <2>2, InsertOuter
<1>4. PICK x, v : Viewed(w, L, x, v)
  BY <1>3, UpdateViewed DEF Level
<1>5. ASSUME NEW k \in Key, k # j
      PROVE  AheadAt(w, k, x, v)'
  <2>1. Unmoved(w, k) /\ (k \in state[w].outer.keys => k \in state'[w].outer.keys)
    BY <1>1, <1>5 DEF KeyMoves
  <2> QED
    BY <1>2, <1>4, <2>1, LevelUnmoved
<1>6. AheadAt(w, j, x, v)'
  BY <1>2, <1>4, LevelNested
<1> QED
  BY <1>2, <1>4, <1>5, <1>6, ViewedAhead

LEMMA ForgetAhead ==
  ASSUME MInv, MInv', Shaped, NEW w \in Replica, hook[w] = EmptyMap,
         NEW L \in Map, ShapedMap(L), Level(w, L),
         NEW K \in SUBSET Key, Commit(w, ForgetDelta(w, K)), KeysGo(w, K)
  PROVE  Alone(w) /\ Ahead(w, L)'
<1>1. PICK o : OuterCommit(w, o)
  BY ForgetOuter
<1>2. PICK x, v : Viewed(w, L, x, v)
  BY <1>1, UpdateViewed DEF Level
<1>3. Alone(w) /\ use' = use
  BY DEF KeysGo, Alone
<1>4. \A k \in Key : AheadAt(w, k, x, v)'
  BY <1>2, <1>3, LevelKeysGo
<1> QED
  BY <1>2, <1>3, <1>4, ViewedAhead

LEMMA ClearForgets ==
  ASSUME MInv, NEW r \in Replica, Clear(r)
  PROVE  \E K \in SUBSET Key : K = state[r].outer.keys /\ Commit(r, ForgetDelta(r, K))
<1>1. PICK K : K = state[r].outer.keys
  OBVIOUS
<1>2. K \in SUBSET Key
  BY <1>1, TypedIsTypeOK DEF MInv, TypeOK, Map, Outer!Kernel
<1>3. PICK delta : delta = ForgetDelta(r, state[r].outer.keys) /\ Commit(r, delta)
  BY DEF Clear
<1>4. delta = ForgetDelta(r, K)
  BY <1>1, <1>3
<1> QED
  BY <1>1, <1>2, <1>3, <1>4 DEF Commit, CommitTo

-----------------------------------------------------------------------------
(* What the readers of the writer's deltas hold.                           *)

\* Only w has updated, and extracted.
Others(w) == \A r \in Replica \ {w} :
  /\ hook[r] = EmptyMap /\ Len(sent[r]) = 0
  /\ \A k \in Key : pending[r][k] = Inner!EmptyKernel

\* A map u becomes v with the delta d of w, which went with the content c.
Reads(w, d, c, u, v) ==
  /\ v = MapMerge("state", u, d)
  /\ \A k \in Key :
       /\ Inner!Linked(d.inner[k])
       /\ \A t \in Replica \ {w} :
            Inner!Linked(v.inner[k]) /\ d.inner[k].keys \subseteq v.inner[k].keys
  /\ Tracked(use) => \A t \in Replica \ {w} : c = Content(v)

\* H[i] is the map of a reader that has merged i deltas of w; L is that of one that has
\* merged them all.
Replayed(w, H, L) ==
  /\ H \in [Nat -> Map] /\ \A i \in Nat : ShapedMap(H[i])
  /\ H[0] = EmptyMap /\ L = H[Len(sent[w])]
  /\ \A i, j \in 0 .. Len(sent[w]) : j = i + 1 =>
       Reads(w, sent[w][j].delta, sent[w][j].content, H[i], H[j])
  /\ \A r \in Replica \ {w} : got[r][w] \in 0 .. Len(sent[w]) /\ state[r] = H[got[r][w]]

\* The invariant: a reader holds what it has merged of the writer's deltas.
OneAt(w, H, L) == Others(w) /\ Replayed(w, H, L) /\ Ahead(w, L)

OneInv == OneWriter /\ use.eager /\ NoOverwrite =>
  \E w \in Replica : use.writers = {w} /\ \E H, L : OneAt(w, H, L)

LEMMA MapMergeIsMap ==
  ASSUME NEW tag, NEW l \in Map, NEW d \in Map
  PROVE  MapMerge(tag, l, d) \in Map
<1>1. PICK outer \in Outer!Kernel : outer = Outer!Merge(tag, l.outer, d.outer)
  BY SameOuter, OuterFacts!MergeType DEF Map
<1>2. ASSUME NEW k \in Key
      PROVE  MergedInner(outer.keys, l, d)[k] \in Inner!Kernel
  <2>1. l.inner[k] \in Inner!Kernel /\ d.inner[k] \in Inner!Kernel
    BY DEF Map
  <2>2. Inner!Merge("state", l.inner[k], d.inner[k]) \in Inner!Kernel
    BY <2>1, SameInner, InnerFacts!MergeType
  <2> QED
    BY <2>1, <2>2, InnerEmpty DEF MergedInner
<1>3. MergedInner(outer.keys, l, d) \in [Key -> Inner!Kernel]
  BY <1>2 DEF MergedInner
<1> QED
  BY <1>1, <1>3 DEF MapMerge, Map

LEMMA OneInit ==
  ASSUME Init
  PROVE  OneInv
<1> SUFFICES ASSUME OneWriter
             PROVE  \E w \in Replica : use.writers = {w} /\ \E H, L : OneAt(w, H, L)
  BY DEF OneInv
<1>1. PICK w \in Replica : use.writers = {w}
  <2>1. use.writers \in SUBSET Replica /\ Cardinality(use.writers) = 1
    BY MapAssumption DEF Init, Use, OneWriter
  <2>2. IsFiniteSet(use.writers)
    BY <2>1, MapAssumption, FS_Subset
  <2> QED
    BY <2>1, <2>2, FS_Singleton
<1>2. MInv
  BY InitHolds
<1>3. /\ \A r \in Replica : /\ state[r] = EmptyMap /\ hook[r] = EmptyMap
                            /\ pending[r] = NoInner /\ sent[r] = <<>>
      /\ \A r, s \in Replica : got[r][s] = 0
  BY DEF Init
<1>4. /\ EmptyMap \in Map /\ ShapedMap(EmptyMap)
      /\ \A k \in Key : /\ NoInner[k] = Inner!EmptyKernel
                        /\ EmptyMap.inner[k] = Inner!EmptyKernel
  BY EmptyType, InnerEmpty, SameOuter, OuterFacts!EmptyKernelType
  DEF EmptyMap, NoInner, Map, ShapedMap
<1>5. Others(w)
  BY <1>3, <1>4 DEF Others
<1>6. PICK H, L : H = [i \in Nat |-> EmptyMap] /\ L = EmptyMap
  OBVIOUS
<1>7. Replayed(w, H, L)
  <2>1. Len(sent[w]) = 0 /\ 0 \in 0 .. 0 /\ \A i, j \in 0 .. 0 : j # i + 1
    BY <1>3
  <2>2. \A i, j \in 0 .. Len(sent[w]) : j # i + 1
    BY <2>1
  <2>3. \A r \in Replica \ {w} : got[r][w] \in 0 .. Len(sent[w]) /\ state[r] = H[got[r][w]]
    BY <1>3, <1>6, <2>1
  <2> QED
    BY <1>4, <1>6, <2>1, <2>2, <2>3 DEF Replayed
<1>8. Level(w, L)
  <2>1. ASSUME NEW k \in Key
        PROVE  /\ pending[w][k] = Inner!EmptyKernel /\ hook[w].inner[k] = Inner!EmptyKernel
               /\ InnerFacts!Follows(w, state[w].inner[k], L.inner[k])
               /\ InnerFacts!Mirrors(w, state[w].inner[k], L.inner[k])
    <3>1. PICK e : e = InnerFacts!EmptyKernel
      OBVIOUS
    <3>2. InnerFacts!Follows(w, e, e) /\ InnerFacts!Mirrors(w, e, e)
      BY <3>1, InnerFacts!FollowsEmpty, InnerFacts!MirrorsEmpty
    <3>3. /\ pending[w][k] = e /\ hook[w].inner[k] = e
          /\ state[w].inner[k] = e /\ L.inner[k] = e
      BY <1>3, <1>4, <1>6, <3>1, SameInner
    <3> QED
      BY <3>1, <3>2, <3>3, SameInner
  <2> QED
    BY <1>3, <1>6, <2>1 DEF Level
<1>9. Ahead(w, L)
  BY <1>2, <1>3, <1>4, <1>6, <1>8, RestsNow DEF Rests
<1> QED
  BY <1>1, <1>5, <1>7, <1>9 DEF OneAt

\* An update at w leaves the readers alone.
LEMMA OneUpdate ==
  ASSUME NEW w \in Replica, NEW H, NEW L, OneAt(w, H, L), Alone(w), Ahead(w, L)'
  PROVE  OneAt(w, H, L)'
<1>1. Others(w)'
  BY DEF OneAt, Others, Alone
<1>2. Replayed(w, H, L)'
  BY DEF OneAt, Replayed, Alone, Reads, ShapedMap
<1> QED
  BY <1>1, <1>2 DEF OneAt

\* What is ahead stays so when only a reader moves.
LEMMA AheadStill ==
  ASSUME NEW w \in Replica, NEW L, Ahead(w, L), state'[w] = state[w], hook'[w] = hook[w],
         pending'[w] = pending[w], use' = use
  PROVE  Ahead(w, L)'
<1>1. PICK x, v : /\ x = Extracted(w) /\ v = MapMerge("state", L, x)
                  /\ v.outer = state[w].outer
                  /\ \A k \in Key : AheadAt(w, k, x, v)
  BY DEF Ahead
<1>2. x = Extracted(w)'
  BY <1>1 DEF Extracted, Reached
<1>3. \A k \in Key : AheadAt(w, k, x, v)'
  BY <1>1 DEF AheadAt
<1> QED
  BY <1>1, <1>2, <1>3 DEF Ahead

LEMMA OneExtract ==
  ASSUME MInv, MInv', NEW w \in Replica, NEW H, NEW L, OneAt(w, H, L), Extract(w)
  PROVE  \E G, v : OneAt(w, G, v)'
<1>1. PICK N \in Nat : Sends(w, N, Extracted(w), Content(state[w]))
  BY ExtractMoves
<1>2. PICK x, v : /\ x = Extracted(w) /\ v = MapMerge("state", L, x)
                  /\ v.outer = state[w].outer
                  /\ \A k \in Key : AheadAt(w, k, x, v)
  BY DEF OneAt, Ahead
<1>3. PICK c : c = Content(state[w])
  OBVIOUS
<1>4. Sends(w, N, x, c)
  BY <1>1, <1>2, <1>3
<1>5. x \in Map /\ ShapedMap(x)
  BY <1>2, ExtractedShape
<1>6. L \in Map /\ ShapedMap(L)
  <2>1. Len(sent[w]) \in Nat
    BY <1>4 DEF Sends
  <2> QED
    BY <2>1 DEF OneAt, Replayed
<1>7. v \in Map /\ ShapedMap(v)
  BY <1>2, <1>5, <1>6, MapMergeIsMap, MergeShaped
<1>8. ASSUME NEW k \in Key
      PROVE  /\ InnerFacts!Follows(w, state[w].inner[k], v.inner[k])
             /\ Inner!Linked(x.inner[k])
             /\ \A t \in Replica \ {w} :
                  Inner!Linked(v.inner[k]) /\ x.inner[k].keys \subseteq v.inner[k].keys
             /\ Tracked(use) => \A t \in Replica \ {w} :
                  /\ InnerFacts!Mirrors(w, state[w].inner[k], v.inner[k])
                  /\ state[w].inner[k].keys = v.inner[k].keys
  <2>1. /\ InnerFacts!Follows(w, state[w].inner[k], v.inner[k])
        /\ InnerFacts!Linked(x.inner[k])
        /\ \A t \in Replica \ {w} : x.inner[k].keys \subseteq v.inner[k].keys
    BY <1>2 DEF AheadAt, InnerFacts!Followed
  <2>2. \A t \in Replica \ {w} : InnerFacts!Linked(v.inner[k])
    BY <2>1, InnerFacts!FollowsLinked
  <2>3. ASSUME Tracked(use), NEW t \in Replica \ {w}
        PROVE  /\ InnerFacts!Mirrors(w, state[w].inner[k], v.inner[k])
               /\ state[w].inner[k].keys = v.inner[k].keys
    <3>1. InnerFacts!Mirrors(w, state[w].inner[k], v.inner[k])
      BY <1>2, <2>3 DEF AheadAt
    <3> QED
      BY <2>1, <2>3, <3>1, InnerFacts!MirrorsKeys
  <2> QED
    BY <2>1, <2>2, <2>3, SameInner
<1>9. Reads(w, x, c, L, v)
  <2>1. ASSUME Tracked(use), NEW t \in Replica \ {w}
        PROVE  c = Content(v)
    <3>1. \A k \in Key : state[w].inner[k].keys = v.inner[k].keys
      BY <1>8, <2>1
    <3>2. v.outer.keys \subseteq Key /\ v.outer.keys = state[w].outer.keys
      BY <1>2, <1>7 DEF Map, Outer!Kernel
    <3> QED
      BY <1>3, <3>1, <3>2 DEF Content
  <2> QED
    BY <1>2, <1>8, <2>1 DEF Reads
<1>10. Reads(w, x, c, L, v)'
  BY <1>4, <1>9 DEF Reads, Sends, Tracked
<1>11. Level(w, v)'
  BY <1>2, <1>4, <1>8 DEF Level, Sends
<1>12. Ahead(w, v)'
  BY <1>4, <1>7, <1>11, RestsAfter DEF Rests, Sends, ShapedMap
<1>13. Others(w)'
  BY <1>4 DEF OneAt, Others, Sends
<1>14. PICK G : G = [H EXCEPT ![N] = v]
  OBVIOUS
<1>15. Replayed(w, G, v)'
  <2>1. /\ N = Len(sent[w]) + 1 /\ Len(sent[w]) \in Nat /\ Len(sent'[w]) = N
        /\ H \in [Nat -> Map] /\ \A i \in Nat : ShapedMap(H[i])
        /\ H[0] = EmptyMap /\ L = H[Len(sent[w])]
    BY <1>4 DEF Sends, OneAt, Replayed
  <2>2. PICK n \in Nat : n = Len(sent[w])
    BY <2>1
  <2>3. G \in [Nat -> Map] /\ G[N] = v /\ \A i \in Nat : i # N => G[i] = H[i]
    BY <1>7, <1>14, <2>1
  <2>4. \A i \in Nat : ShapedMap(G[i])'
    BY <1>7, <2>1, <2>3 DEF ShapedMap
  <2>5. G[0] = EmptyMap' /\ v = G[Len(sent'[w])]
    BY <2>1, <2>2, <2>3 DEF EmptyMap, NoInner
  <2>6. ASSUME NEW i \in 0 .. N, NEW j \in 0 .. N, j = i + 1
        PROVE  Reads(w, sent[w][j].delta, sent[w][j].content, G[i], G[j])'
    <3>1. CASE j = N
      <4>1. i = n /\ G[i] = L /\ G[j] = v
        BY <2>1, <2>2, <2>3, <2>6, <3>1
      <4>2. sent'[w][j].delta = x /\ sent'[w][j].content = c
        BY <1>4, <3>1 DEF Sends
      <4> QED
        BY <1>10, <4>1, <4>2
    <3>2. CASE j # N
      <4>1. i \in 0 .. n /\ j \in 0 .. n /\ j \in 1 .. n /\ i # N
        BY <2>1, <2>2, <2>6, <3>2
      <4>2. Reads(w, sent[w][j].delta, sent[w][j].content, H[i], H[j])
        BY <2>2, <2>6, <4>1 DEF OneAt, Replayed
      <4>3. sent'[w][j] = sent[w][j] /\ G[i] = H[i] /\ G[j] = H[j]
        BY <1>4, <2>2, <2>3, <3>2, <4>1 DEF Sends
      <4>4. PICK d, cc, u, y : /\ d = sent[w][j].delta /\ cc = sent[w][j].content
                               /\ u = H[i] /\ y = H[j] /\ Reads(w, d, cc, u, y)
        BY <4>2
      <4>5. Reads(w, d, cc, u, y)'
        BY <1>4, <4>4 DEF Reads, Sends, Tracked
      <4> QED
        BY <4>3, <4>4, <4>5
    <3> QED
      BY <3>1, <3>2
  <2>7. ASSUME NEW r \in Replica \ {w}
        PROVE  got'[r][w] \in 0 .. N /\ state'[r] = G[got'[r][w]]
    <3>1. got[r][w] \in 0 .. n /\ state[r] = H[got[r][w]] /\ got' = got /\ state' = state
      BY <1>4, <2>2 DEF OneAt, Replayed, Sends
    <3>2. got[r][w] \in 0 .. N /\ got[r][w] # N
      BY <2>1, <2>2, <3>1
    <3> QED
      BY <2>3, <3>1, <3>2
  <2> QED
    BY <2>1, <2>3, <2>4, <2>5, <2>6, <2>7 DEF Replayed
<1>16. OneAt(w, G, v)'
  BY <1>12, <1>13, <1>15 DEF OneAt
<1> QED
  BY <1>16

LEMMA OneDeliver ==
  ASSUME MInv, NEW w \in Replica, NEW H, NEW L, OneAt(w, H, L),
         NEW r \in Replica, NEW s \in Replica, Deliver(r, s)
  PROVE  /\ OneAt(w, H, L)'
         /\ Pending(r, s).delta \in Map
         /\ \A k \in Key : Pending(r, s).delta.inner[k].keys \subseteq state'[r].inner[k].keys
<1>1. PICK i, d : i \in Nat /\ Merges(r, s, i, d)
  BY DeliverMoves
<1>2. s = w /\ r # w
  <2>1. Len(sent[s]) # 0
    BY <1>1 DEF Merges
  <2> QED
    BY <1>1, <2>1 DEF OneAt, Others, Merges
<1>3. PICK h \in Nat : h = got[r][w] /\ h \in 0 .. Len(sent[w]) /\ state[r] = H[h]
  BY <1>2 DEF OneAt, Replayed
<1>4. i = h + 1 /\ i \in 0 .. Len(sent[w]) /\ d = sent[w][i].delta
  <2>1. PICK n \in Nat : n = Len(sent[w])
    BY TypedIsTypeOK DEF MInv, TypeOK
  <2>2. i \in 1 .. n /\ i = got[r][w] + 1 /\ d = sent[w][i].delta
    BY <1>1, <1>2, <2>1 DEF Merges
  <2>3. i = h + 1
    BY <1>3, <2>2
  <2>4. i \in 0 .. n
    BY <2>1, <2>2
  <2> QED
    BY <2>1, <2>2, <2>3, <2>4
<1>5. Reads(w, d, sent[w][i].content, H[h], H[i])
  BY <1>3, <1>4 DEF OneAt, Replayed
<1>6. state'[r] = H[i]
  BY <1>1, <1>3, <1>5 DEF Merges, Reads
<1>7. Others(w)'
  BY <1>1 DEF OneAt, Others, Merges
<1>8. Ahead(w, L)'
  BY <1>1, <1>2, AheadStill DEF OneAt, Merges
<1>9. ASSUME NEW q \in Replica \ {w}
      PROVE  got'[q][w] \in 0 .. Len(sent[w]) /\ state'[q] = H[got'[q][w]]
  <2>1. got \in [Replica -> [Replica -> Nat]] /\ got' = [got EXCEPT ![r][s] = i]
    BY <1>1, TypedIsTypeOK DEF Merges, MInv, TypeOK
  <2>2. CASE q = r
    BY <1>2, <1>4, <1>6, <2>1, <2>2
  <2>3. CASE q # r
    <3>1. got'[q][w] = got[q][w] /\ state'[q] = state[q]
      BY <1>1, <2>1, <2>3 DEF Merges
    <3> QED
      BY <3>1 DEF OneAt, Replayed
  <2> QED
    BY <2>2, <2>3
<1>10. Replayed(w, H, L)'
  BY <1>1, <1>9 DEF OneAt, Replayed, Merges, Reads, ShapedMap
<1>11. OneAt(w, H, L)'
  BY <1>7, <1>8, <1>10 DEF OneAt
<1>12. ASSUME NEW k \in Key
       PROVE  d.inner[k].keys \subseteq state'[r].inner[k].keys
  BY <1>2, <1>5, <1>6 DEF Reads
<1> QED
  BY <1>1, <1>11, <1>12 DEF Merges

LEMMA OneStep ==
  ASSUME MInv, MInv', Shaped, OneInv, [Next]_vars
  PROVE  OneInv'
<1> SUFFICES ASSUME (OneWriter /\ use.eager /\ NoOverwrite)'
             PROVE  (\E w \in Replica : use.writers = {w} /\ \E H, L : OneAt(w, H, L))'
  BY DEF OneInv
<1>1. use' = use
  BY UseFixed
<1>2. OneWriter /\ use.eager /\ NoOverwrite
  BY <1>1 DEF OneWriter, NoOverwrite
<1>3. PICK w \in Replica : use.writers = {w} /\ \E H, L : OneAt(w, H, L)
  BY <1>2 DEF OneInv
<1>4. PICK H, L : OneAt(w, H, L)
  BY <1>3
<1>5. L \in Map /\ ShapedMap(L)
  <2>1. Len(sent[w]) \in Nat
    BY TypedIsTypeOK DEF MInv, TypeOK
  <2> QED
    BY <1>4, <2>1 DEF OneAt, Replayed
<1>6. ASSUME NEW r \in Replica, NEW k \in Key, MayUpdate(r, k)
      PROVE  r = w /\ hook[w] = EmptyMap /\ Level(w, L)
  <2>1. r = w /\ hook[w] = EmptyMap
    BY <1>2, <1>3, <1>6 DEF MayUpdate
  <2> QED
    BY <1>4, <1>5, <2>1, AheadLevel DEF OneAt
<1>7. ASSUME Alone(w), Ahead(w, L)'
      PROVE  \E G, v : OneAt(w, G, v)'
  BY <1>4, <1>7, OneUpdate
<1>8. \E G, v : OneAt(w, G, v)'
  <2>1. ASSUME NEW r \in Replica, NEW k \in Key, NEW vals \in use.inserts, Insert(r, k, vals)
        PROVE  \E G, v : OneAt(w, G, v)'
    <3>1. r = w /\ hook[w] = EmptyMap /\ Level(w, L)
      BY <1>6, <2>1 DEF Insert
    <3>2. Alone(w) /\ Ahead(w, L)'
      BY <1>2, <1>5, <2>1, <3>1, InsertAhead
    <3> QED
      BY <1>7, <3>2
  <2>2. ASSUME NEW r \in Replica, NEW k \in Key, NestedUpdate(r, k)
        PROVE  \E G, v : OneAt(w, G, v)'
    <3>1. PICK delta, K, A : NestedBy(r, k, delta, K, A) /\ (Tracked(use) => NestedSingle(r, k, delta))
      BY <2>2, UpdateChanges
    <3>2. r = w /\ hook[w] = EmptyMap /\ Level(w, L)
      BY <1>6, <3>1 DEF NestedBy, MayUpdateNested
    <3>3. Alone(w) /\ Ahead(w, L)'
      BY <1>5, <3>1, <3>2, NestedAhead
    <3> QED
      BY <1>7, <3>3
  <2>3. ASSUME NEW r \in Replica, NEW k \in Key, Erase(r, k)
        PROVE  \E G, v : OneAt(w, G, v)'
    <3>1. r = w /\ hook[w] = EmptyMap /\ Level(w, L)
      BY <1>6, <2>3 DEF Erase
    <3>2. KeysGo(w, {k}) /\ Commit(w, ForgetDelta(w, {k})) /\ {k} \in SUBSET Key
      BY <2>3, <3>1, EraseMoves DEF Erase
    <3>3. Alone(w) /\ Ahead(w, L)'
      BY <1>5, <3>1, <3>2, ForgetAhead
    <3> QED
      BY <1>7, <3>3
  <2>4. ASSUME NEW r \in Replica, Clear(r)
        PROVE  \E G, v : OneAt(w, G, v)'
    <3>1. PICK K \in SUBSET Key : K = state[r].outer.keys /\ Commit(r, ForgetDelta(r, K))
      BY <2>4, ClearForgets
    <3>2. PICK k \in Key : MayUpdate(r, k)
      BY <2>4, <3>1 DEF Clear
    <3>3. r = w /\ hook[w] = EmptyMap /\ Level(w, L)
      BY <1>6, <3>2
    <3>4. KeysGo(w, K)
      BY <2>4, <3>1, <3>3, ClearMoves
    <3>5. Alone(w) /\ Ahead(w, L)'
      BY <1>5, <3>1, <3>3, <3>4, ForgetAhead
    <3> QED
      BY <1>7, <3>5
  <2>5. ASSUME NEW r \in Replica, Extract(r)
        PROVE  \E G, v : OneAt(w, G, v)'
    <3>1. r = w
      BY <1>4, <2>5 DEF OneAt, Others, Extract
    <3> QED
      BY <1>4, <2>5, <3>1, OneExtract
  <2>6. ASSUME NEW r \in Replica, NEW s \in Replica, Deliver(r, s)
        PROVE  \E G, v : OneAt(w, G, v)'
    BY <1>4, <2>6, OneDeliver
  <2>7. CASE UNCHANGED vars
    <3>1. Alone(w)
      BY <2>7 DEF vars, Alone
    <3>2. Ahead(w, L)'
      BY <1>4, <2>7, AheadStill DEF OneAt, vars
    <3> QED
      BY <1>7, <3>1, <3>2
  <2> QED
    BY <2>1, <2>2, <2>3, <2>4, <2>5, <2>6, <2>7 DEF Next
<1> QED
  BY <1>1, <1>3, <1>8

\* Nested content and nested hooks go with their keys, at every step.
LEMMA ShapedStep ==
  ASSUME MInv, MInv', Shaped, [Next]_vars
  PROVE  Shaped'
<1>1. ASSUME NEW r \in Replica, NEW k \in Key, NEW vals \in use.inserts, Insert(r, k, vals)
      PROVE  Shaped'
  BY <1>1, InsertMoves, ShapedKeyMoves
<1>2. ASSUME NEW r \in Replica, NEW k \in Key, NestedUpdate(r, k)
      PROVE  Shaped'
  <2>1. PICK delta, K, A : NestedBy(r, k, delta, K, A)
    BY <1>2, UpdateChanges
  <2>2. PICK base, p, inner : KeyMoves(r, k, base, p, inner)
    BY <2>1, NestedMoves DEF NestedBy, MayUpdateNested, MayUpdate
  <2> QED
    BY <2>2, ShapedKeyMoves
<1>3. ASSUME NEW r \in Replica, NEW k \in Key, Erase(r, k)
      PROVE  Shaped'
  BY <1>3, EraseMoves, ShapedKeysGo
<1>4. ASSUME NEW r \in Replica, Clear(r)
      PROVE  Shaped'
  BY <1>4, ClearMoves, ShapedKeysGo
<1>5. ASSUME NEW r \in Replica, Extract(r)
      PROVE  Shaped'
  BY <1>5, ShapedExtract
<1>6. ASSUME NEW r \in Replica, NEW s \in Replica, Deliver(r, s)
      PROVE  Shaped'
  BY <1>6, ShapedDeliver
<1>7. CASE UNCHANGED vars
  BY <1>7 DEF vars, Shaped, ShapedMap
<1> QED
  BY <1>1, <1>2, <1>3, <1>4, <1>5, <1>6, <1>7 DEF Next

-----------------------------------------------------------------------------
(* Two replicas update, one call at a time.                                *)

TwoReplicas == \A q, r, s \in Replica : q = r \/ q = s \/ r = s

\* The invariant: the keys of a replica, and the containers at them, are what the changes
\* that have arrived there come to.
PairInv == TwoReplicas /\ OneByOne => Set!ArrivedInv /\ \A k \in Key : PairedAt(k)

LEMMA OneByOneIs ==
  ASSUME OneByOne
  PROVE  KeysStay /\ NoOverwrite /\ use.eager /\ use.fresh /\ Tracked(use)
<1>1. use.eager /\ use.fresh /\ use.calls \subseteq {"map.insert", "set.insert", "set.erase"}
  BY DEF OneByOne
<1>2. \A c \in {"map.insert", "set.insert", "set.erase"} :
        c \notin {"map.erase", "map.clear", "set.clear", "value_mv.set"}
  OBVIOUS
<1> QED
  BY <1>1, <1>2 DEF KeysStay, NoOverwrite, Tracked

LEMMA PairInit ==
  ASSUME Init
  PROVE  PairInv
<1>1. Set!ArrivedInv
  <2>1. Set!Init
    BY SameKernels DEF Init, Set!Init, Set!Zero, EmptyMap
  <2> QED
    BY <2>1, SetConstants, Set!ArrivalsInit
<1>2. ASSUME NEW k \in Key
      PROVE  PairedAt(k)
  <2>1. PICK ls, hs, gs, ds, m :
          /\ At(k, ls, hs, gs, ds, m)
          /\ PairedAt(k) <=> InnerFacts!PairedCopies(ls, hs, gs, ds, m, got)
    BY SharedPick
  <2>2. \A r \in Replica :
          state[r] = EmptyMap /\ hook[r] = EmptyMap /\ pending[r] = NoInner /\ Len(sent[r]) = 0
    BY DEF Init
  <2>3. EmptyMap.inner[k] = InnerFacts!EmptyKernel /\ NoInner[k] = InnerFacts!EmptyKernel
    BY SameInner DEF EmptyMap, NoInner
  <2>4. \A r \in Replica :
          /\ ls[r] = InnerFacts!EmptyKernel /\ hs[r] = InnerFacts!EmptyKernel
          /\ gs[r] = InnerFacts!EmptyKernel /\ m[r] = 0
    BY <2>1, <2>2, <2>3 DEF At
  <2>5. InnerFacts!PairedCopies(ls, hs, gs, ds, m, got)
    BY <2>4, InnerFacts!PairedInit
  <2> QED
    BY <2>1, <2>5
<1> QED
  BY <1>1, <1>2 DEF PairInv

LEMMA PairStep ==
  ASSUME MInv, MInv', Shaped, StayInv, PairInv, [Next]_vars
  PROVE  PairInv'
<1> SUFFICES ASSUME TwoReplicas, OneByOne'
             PROVE  Set!ArrivedInv' /\ \A k \in Key : PairedAt(k)'
  BY DEF PairInv, TwoReplicas
<1>1. use' = use
  BY UseFixed
<1>2. KeysStay /\ NoOverwrite /\ use.eager /\ use.fresh /\ Tracked(use)
  <2>1. OneByOne
    BY <1>1 DEF OneByOne
  <2> QED
    BY <2>1, OneByOneIs
<1>3. Set!AInv /\ \A k \in Key : SharedAt(k)
  BY <1>2 DEF StayInv
<1>4. Set!ArrivedInv /\ \A k \in Key : PairedAt(k)
  <2>1. OneByOne
    BY <1>1 DEF OneByOne
  <2> QED
    BY <2>1 DEF PairInv
<1>5. Set!LInv /\ Set!LInv'
  BY DEF MInv
<1>6. ASSUME NEW r \in Replica, NEW j \in Key, NEW base, NEW p, NEW inner,
             KeyMoves(r, j, base, p, inner), PairedAt(j)'
      PROVE  \A k \in Key : PairedAt(k)'
  <2> SUFFICES ASSUME NEW k \in Key, k # j
               PROVE  PairedAt(k)'
    BY <1>6
  <2>1. \A q \in Replica : Unmoved(q, k)
    BY <1>6 DEF KeyMoves, Alone, Unmoved
  <2>2. sent' = sent /\ got' = got
    BY <1>6 DEF KeyMoves, Alone
  <2> QED
    BY <1>3, <1>4, <2>1, <2>2, SharedUnmoved
<1>7. ASSUME NEW r \in Replica, NEW j \in Key, NEW vals \in use.inserts, Insert(r, j, vals)
      PROVE  Set!ArrivedInv' /\ \A k \in Key : PairedAt(k)'
  <2>1. Set!ArrivedInv'
    BY <1>4, <1>5, <1>7, InsertsAKey, SetConstants, Set!ArrivalsInsert
  <2>2. PICK base, p, inner : KeyMoves(r, j, base, p, inner)
    BY <1>7, InsertMoves
  <2>3. PairedAt(j)'
    BY <1>2, <1>3, <1>4, <1>7, SharedInsert
  <2> QED
    BY <1>6, <2>1, <2>2, <2>3
<1>8. ASSUME NEW r \in Replica, NEW j \in Key, NestedUpdate(r, j)
      PROVE  Set!ArrivedInv' /\ \A k \in Key : PairedAt(k)'
  <2>1. PICK delta, K, A : NestedBy(r, j, delta, K, A) /\ NestedSingle(r, j, delta)
    BY <1>2, <1>8, UpdateChanges
  <2>2. Set!ArrivedInv'
    BY <1>4, <1>5, <2>1, NestedInsertsAKey, SetConstants, Set!ArrivalsInsert
  <2>3. PICK base, p, inner : KeyMoves(r, j, base, p, inner)
    BY <2>1, NestedMoves DEF NestedBy, MayUpdateNested, MayUpdate
  <2>4. Rested(r, j)
    <3>1. hook[r] = EmptyMap
      BY <1>2, <2>1 DEF NestedBy, MayUpdateNested, MayUpdate
    <3> QED
      BY <3>1, NothingGathered DEF Rested
  <2>5. PairedAt(j)'
    BY <1>3, <1>4, <2>1, <2>4, SharedNested
  <2> QED
    BY <1>6, <2>2, <2>3, <2>5
<1>9. ASSUME NEW r \in Replica, Clear(r) \/ \E k \in Key : Erase(r, k)
      PROVE  FALSE
  BY <1>2, <1>9 DEF KeysStay, Clear, Erase
<1>10. ASSUME NEW r \in Replica, Extract(r)
       PROVE  Set!ArrivedInv' /\ \A k \in Key : PairedAt(k)'
  <2>1. Set!ArrivedInv'
    BY <1>4, <1>5, <1>10, KeyExtract, SetConstants, Set!ArrivalsExtract
  <2> QED
    BY <1>3, <1>4, <1>10, <2>1, SharedExtracted
<1>11. ASSUME NEW r \in Replica, NEW s \in Replica, Deliver(r, s)
       PROVE  Set!ArrivedInv' /\ \A k \in Key : PairedAt(k)'
  <2>1. Set!ArrivedInv'
    BY <1>3, <1>4, <1>5, <1>11, KeyDeliver, SetConstants, Set!ArrivalsDeliver
  <2>2. \A t \in Replica : t = r \/ t = s
    BY <1>11 DEF TwoReplicas, Deliver, Deliverable
  <2> QED
    BY <1>3, <1>4, <1>11, <2>1, <2>2, SharedDelivered
<1>12. CASE UNCHANGED vars
  <2>1. Set!ArrivedInv'
    <3>1. UNCHANGED Set!vars
      BY <1>12 DEF vars, Set!vars
    <3> QED
      BY <1>4, <3>1, SetConstants, Set!ArrivalsStutter
  <2>2. \A k \in Key : PairedAt(k)'
    BY <1>3, <1>4, <1>12, SharedUnmoved DEF vars, Unmoved
  <2> QED
    BY <2>1, <2>2
<1> QED
  BY <1>7, <1>8, <1>9, <1>10, <1>11, <1>12 DEF Next

\* With every delta extracted and merged the two maps are the same.
LEMMA PairsMeet ==
  ASSUME MInv, Shaped, StayInv, PairInv, TwoReplicas, OneByOne, Quiet
  PROVE  \A q, r \in Replica : Content(state[q]) = Content(state[r])
<1>1. Set!ArrivedInv /\ \A k \in Key : PairedAt(k)
  BY DEF PairInv
<1>2. \A k \in Key : SharedAt(k)
  BY OneByOneIs DEF StayInv
<1>3. \A s \in Replica : Len(sent[s]) \in Nat
  BY TypedIsTypeOK DEF MInv, TypeOK
<1>4. ASSUME NEW k \in Key
      PROVE  \A q, r \in Replica : state[q].inner[k].keys = state[r].inner[k].keys
  <2>1. PICK ls, hs, gs, ds, m :
          /\ At(k, ls, hs, gs, ds, m)
          /\ InnerFacts!Shared(ls, hs, gs, ds, m, got)
          /\ InnerFacts!PairedCopies(ls, hs, gs, ds, m, got)
    BY <1>1, <1>2, SharedPick
  <2>2. \A r \in Replica :
          pending[r][k] = Inner!EmptyKernel /\ hook[r].inner[k] = Inner!EmptyKernel
    BY NothingGathered DEF Quiet
  <2>3. \A r \in Replica : hs[r] = InnerFacts!EmptyKernel /\ gs[r] = InnerFacts!EmptyKernel
    BY <2>1, <2>2, SameInner DEF At
  <2>4. \A r, s \in Replica : r # s => got[r][s] = m[s]
    BY <2>1 DEF At, Quiet
  <2>5. \A q, r \in Replica : ls[q].keys = ls[r].keys
    BY <2>1, <2>3, <2>4, InnerFacts!PairedSame
  <2>6. \A r \in Replica : ls[r] = state[r].inner[k]
    BY <2>1 DEF At
  <2> QED
    BY <2>5, <2>6
<1>5. \A q, r \in Replica : state[q].outer.keys = state[r].outer.keys
  <2>1. \A r \in Replica : [q \in Replica |-> hook[q].outer][r] = Set!EmptyKernel
    BY SameKernels DEF Quiet, EmptyMap
  <2>2. ASSUME NEW s \in Replica
        PROVE  Len([q \in Replica |-> [i \in 1 .. Len(sent[q]) |->
                 [delta |-> sent[q][i].delta.outer, upto |-> sent[q][i].upto,
                  deps |-> [t \in Replica |-> 0]]]][s]) = Len(sent[s])
    <3>1. PICK n \in Nat : n = Len(sent[s])
      BY <1>3
    <3>2. Len([i \in 1 .. n |->
                 [delta |-> sent[s][i].delta.outer, upto |-> sent[s][i].upto,
                  deps |-> [t \in Replica |-> 0]]]) = n
      BY <3>1
    <3> QED
      BY <3>1, <3>2
  <2>3. \A r, s \in Replica : r # s =>
          got[r][s] = Len([q \in Replica |-> [i \in 1 .. Len(sent[q]) |->
                 [delta |-> sent[q][i].delta.outer, upto |-> sent[q][i].upto,
                  deps |-> [t \in Replica |-> 0]]]][s])
    BY <2>2 DEF Quiet
  <2>4. \A q, r \in Replica :
          [s \in Replica |-> state[s].outer][q].keys = [s \in Replica |-> state[s].outer][r].keys
    BY <1>1, <2>1, <2>3, SetConstants, Set!ArrivalsMeet DEF MInv
  <2> QED
    BY <2>4
<1>6. ASSUME NEW q \in Replica, NEW r \in Replica
      PROVE  Content(state[q]) = Content(state[r])
  <2>1. \A p \in Replica : state[p].outer.keys \subseteq Key
    BY TypedIsTypeOK DEF MInv, TypeOK, Map, Outer!Kernel
  <2>2. PICK K \in SUBSET Key : K = state[q].outer.keys /\ K = state[r].outer.keys
    BY <1>5, <2>1
  <2>3. [k \in K |-> state[q].inner[k].keys] = [k \in K |-> state[r].inner[k].keys]
    BY <1>4
  <2> QED
    BY <2>2, <2>3 DEF Content
<1> QED
  BY <1>6

-----------------------------------------------------------------------------
(* The theorems.                                                           *)

\* The inductive invariant of a map and its nested containers.
NestedInv == MInv /\ Shaped /\ StayInv /\ OneInv /\ PairInv

LEMMA NestedInit == Init => NestedInv
BY InitHolds, ShapedInit, StayInit, OneInit, PairInit DEF NestedInv

LEMMA NestedStep == NestedInv /\ [Next]_vars => NestedInv'
<1> SUFFICES ASSUME NestedInv, [Next]_vars PROVE NestedInv'
  OBVIOUS
<1>1. MInv /\ Shaped /\ StayInv /\ OneInv /\ PairInv
  BY DEF NestedInv
<1>2. MInv'
  BY <1>1, StepPreserves
<1> QED
  BY <1>1, <1>2, ShapedStep, StayStep, OneStep, PairStep DEF NestedInv

LEMMA NestedAlways == Spec => []NestedInv
BY NestedInit, NestedStep, PTL DEF Spec

\* What is sound at key k.
SoundAt(k) ==
  /\ \A r \in Replica :
       /\ Inner!Linked(state[r].inner[k]) /\ Inner!Linked(hook[r].inner[k])
       /\ Inner!Linked(pending[r][k])
       /\ InnerFacts!Part(pending[r][k], state[r].inner[k])
  /\ \A s \in Replica : \A i \in 1 .. Len(sent[s]) : Inner!Linked(sent[s][i].delta.inner[k])

LEMMA SharedIsSound ==
  ASSUME NEW k \in Key, SharedAt(k)
  PROVE  SoundAt(k)
<1>1. PICK ls, hs, gs, ds, m :
        At(k, ls, hs, gs, ds, m) /\ InnerFacts!Shared(ls, hs, gs, ds, m, got)
  BY SharedPick
<1>2. /\ \A r \in Replica : /\ InnerFacts!Linked(ls[r]) /\ InnerFacts!Linked(hs[r])
                            /\ InnerFacts!Linked(gs[r]) /\ InnerFacts!Part(hs[r], ls[r])
      /\ \A s \in Replica : \A i \in 1 .. m[s] : InnerFacts!Linked(ds[s][i])
  BY <1>1, InnerFacts!SharedSound
<1>3. \A r \in Replica : /\ ls[r] = state[r].inner[k] /\ hs[r] = pending[r][k]
                         /\ gs[r] = hook[r].inner[k] /\ m[r] = Len(sent[r])
                         /\ \A i \in 1 .. Len(sent[r]) : ds[r][i] = sent[r][i].delta.inner[k]
  BY <1>1 DEF At
<1> QED
  BY <1>2, <1>3, SameInner DEF SoundAt

\* A reader's map, and what it has read last.
LEMMA ReadLast ==
  ASSUME MInv, NEW w \in Replica, NEW H, NEW L, OneAt(w, H, L), NEW r \in Replica \ {w}
  PROVE  \/ got[r][w] = 0 /\ state[r] = EmptyMap
         \/ \E u : Reads(w, sent[w][got[r][w]].delta, sent[w][got[r][w]].content, u, state[r])
<1>1. PICK n \in Nat : n = Len(sent[w])
  BY TypedIsTypeOK DEF MInv, TypeOK
<1>2. PICK j \in 0 .. n : j = got[r][w] /\ state[r] = H[j]
  BY <1>1 DEF OneAt, Replayed
<1>3. CASE j = 0
  BY <1>2, <1>3 DEF OneAt, Replayed
<1>4. CASE j # 0
  <2>1. PICK i \in 0 .. n : j = i + 1
    <3>1. j - 1 \in 0 .. n /\ j = (j - 1) + 1
      BY <1>4
    <3> QED
      BY <3>1
  <2>2. Reads(w, sent[w][j].delta, sent[w][j].content, H[i], H[j])
    BY <1>1, <2>1 DEF OneAt, Replayed
  <2> QED
    BY <1>2, <2>2
<1> QED
  BY <1>3, <1>4

LEMMA OneIsSound ==
  ASSUME MInv, NEW w \in Replica, NEW H, NEW L, OneAt(w, H, L), NEW k \in Key
  PROVE  SoundAt(k)
<1>1. PICK n \in Nat : n = Len(sent[w])
  BY TypedIsTypeOK DEF MInv, TypeOK
<1>2. PICK x, v : \A j \in Key : AheadAt(w, j, x, v)
  BY DEF OneAt, Ahead
<1>3. /\ Inner!Linked(state[w].inner[k]) /\ Inner!Linked(hook[w].inner[k])
      /\ Inner!Linked(pending[w][k])
      /\ InnerFacts!Part(pending[w][k], state[w].inner[k])
  <2>1. /\ InnerFacts!Follows(w, state[w].inner[k], v.inner[k])
        /\ InnerFacts!Linked(pending[w][k]) /\ InnerFacts!Linked(hook[w].inner[k])
        /\ InnerFacts!Part(pending[w][k], state[w].inner[k])
    BY <1>2 DEF AheadAt, InnerFacts!Followed
  <2>2. InnerFacts!Linked(state[w].inner[k])
    BY <2>1, InnerFacts!FollowsLinked
  <2> QED
    BY <2>1, <2>2, SameInner
<1>4. ASSUME NEW r \in Replica \ {w}
      PROVE  /\ Inner!Linked(state[r].inner[k]) /\ Inner!Linked(hook[r].inner[k])
             /\ Inner!Linked(pending[r][k])
             /\ InnerFacts!Part(pending[r][k], state[r].inner[k])
             /\ 1 .. Len(sent[r]) = {}
  <2>1. /\ hook[r] = EmptyMap /\ pending[r][k] = Inner!EmptyKernel /\ Len(sent[r]) = 0
    BY DEF OneAt, Others
  <2>2. EmptyMap.inner[k] = Inner!EmptyKernel /\ Inner!Linked(Inner!EmptyKernel)
    BY InnerEmpty DEF EmptyMap, NoInner
  <2>3. Inner!Linked(state[r].inner[k])
    BY <2>2, ReadLast DEF Reads
  <2>4. InnerFacts!Part(Inner!EmptyKernel, state[r].inner[k])
    BY DEF InnerFacts!Part, Inner!EmptyKernel, Inner!NoDots
  <2> QED
    BY <2>1, <2>2, <2>3, <2>4
<1>5. ASSUME NEW j \in 1 .. n
      PROVE  Inner!Linked(sent[w][j].delta.inner[k])
  <2>1. PICK i \in 0 .. n : j = i + 1
    <3>1. j - 1 \in 0 .. n /\ j = (j - 1) + 1
      OBVIOUS
    <3> QED
      BY <3>1
  <2>2. j \in 0 .. n
    OBVIOUS
  <2>3. Reads(w, sent[w][j].delta, sent[w][j].content, H[i], H[j])
    BY <1>1, <2>1, <2>2 DEF OneAt, Replayed
  <2> QED
    BY <2>3 DEF Reads
<1> QED
  BY <1>1, <1>3, <1>4, <1>5 DEF SoundAt

LEMMA AllSound ==
  ASSUME NestedInv, DotsNotReused, NEW k \in Key
  PROVE  SoundAt(k)
<1>1. NoOverwrite
  BY DEF DotsNotReused, NoOverwrite
<1>2. CASE KeysStay
  BY <1>1, <1>2, SharedIsSound DEF NestedInv, StayInv
<1>3. CASE OneWriter /\ use.eager
  BY <1>1, <1>3, OneIsSound DEF NestedInv, OneInv
<1> QED
  BY <1>2, <1>3 DEF DotsNotReused

\* The metadata of the nested containers and of their hooks is sound, in the states, hooks
\* and deltas of maps, wherever no two different containers with the same dots meet.
THEOREM NestedIsSound == Spec => []NestedSound
<1>1. NestedInv => NestedSound
  <2> SUFFICES ASSUME NestedInv, DotsNotReused
               PROVE  /\ \A m \in Maps : \A k \in Key : Inner!Linked(m.inner[k])
                      /\ \A r \in Replica : \A k \in Key :
                           /\ Inner!Linked(pending[r][k])
                           /\ \A e \in Elem, s \in Replica :
                                pending[r][k].dots[e][s] \subseteq state[r].inner[k].dots[e][s]
    BY DEF NestedSound
  <2>1. \A k \in Key : SoundAt(k)
    BY AllSound
  <2>2. ASSUME NEW m \in Maps, NEW k \in Key
        PROVE  Inner!Linked(m.inner[k])
    <3>1. PICK r \in Replica : m = state[r] \/ m = hook[r] \/ m \in Deltas(r)
      BY DEF Maps
    <3>2. m \in Deltas(r) => \E i \in 1 .. Len(sent[r]) : m = sent[r][i].delta
      BY DEF Deltas
    <3> QED
      BY <2>1, <3>1, <3>2 DEF SoundAt
  <2> QED
    BY <2>1, <2>2 DEF SoundAt, InnerFacts!Part
<1> QED
  BY <1>1, NestedAlways, PTL

\* What a change does to the elements of a nested container.
LEMMA NestedChangesKeys ==
  ASSUME NestedInv, NestedInv', DotsNotReused, NEW r \in Replica, NEW k \in Key,
         NEW delta, NEW K, NEW A, NestedBy(r, k, delta, K, A)
  PROVE  InnerFacts!ChangedKeys(state[r].inner[k], state'[r].inner[k], K, A)
<1>1. MInv /\ MInv' /\ Shaped /\ NoOverwrite
  BY DEF NestedInv, DotsNotReused, NoOverwrite
<1>2. CASE KeysStay
  BY <1>1, <1>2, SharedNested DEF NestedInv, StayInv
<1>3. CASE OneWriter /\ use.eager
  <2>1. PICK w \in Replica : use.writers = {w} /\ \E H, L : OneAt(w, H, L)
    BY <1>1, <1>3 DEF NestedInv, OneInv
  <2>2. PICK H, L : OneAt(w, H, L)
    BY <2>1
  <2>3. /\ r = w /\ hook[w] = EmptyMap /\ delta \in Inner!Kernel
        /\ Len(sent[r]) < use.deltas /\ CommitNested(r, k, delta)
        /\ InnerFacts!Change(delta, state[w].inner[k], w, K, A)
    BY <1>3, <2>1 DEF NestedBy, MayUpdateNested, MayUpdate
  <2>4. L \in Map /\ ShapedMap(L)
    <3>1. Len(sent[w]) \in Nat
      BY <1>1, TypedIsTypeOK DEF MInv, TypeOK
    <3> QED
      BY <2>2, <3>1 DEF OneAt, Replayed
  <2>5. Level(w, L)
    BY <1>1, <2>2, <2>3, <2>4, AheadLevel DEF OneAt
  <2>6. state'[w].inner[k] = InnerFacts!Merge("state", state[w].inner[k], delta)
    <3>1. PICK base, p :
            /\ base = Inner!Merge("state", state[r].inner[k], delta)
            /\ KeyMoves(r, k, base, p, Inner!EmptyKernel)
      BY <1>1, <2>3, NestedMoves
    <3>2. state[r].inner[k] \in Inner!Kernel
      BY <1>1, TypedIsTypeOK DEF MInv, TypeOK, Map
    <3>3. base \in Inner!Kernel
      BY <2>3, <3>1, <3>2, SameInner, InnerFacts!MergeType
    <3> QED
      BY <2>3, <3>1, <3>3, InnerNothing, SameInner DEF KeyMoves
  <2>7. PICK l, u, m, h, x, y :
          /\ l = state[w].inner[k] /\ u = L.inner[k] /\ m = state'[w].inner[k]
          /\ h = InnerFacts!Merge("delta", InnerFacts!EmptyKernel, delta)
          /\ x = InnerFacts!Extraction(InnerFacts!EmptyKernel, h)
          /\ y = InnerFacts!Merge("state", u, x)
    OBVIOUS
  <2>8. InnerFacts!AfterChange(l, u, delta, m, h, x, y)
    BY <2>6, <2>7 DEF InnerFacts!AfterChange
  <2>9. InnerFacts!Follows(w, l, u) /\ InnerFacts!Change(delta, l, w, K, A)
    BY <2>3, <2>5, <2>7 DEF Level
  <2>10. InnerFacts!ChangedKeys(l, m, K, A)
    BY <2>8, <2>9, InnerFacts!FollowsChange
  <2> QED
    BY <2>3, <2>7, <2>10
<1> QED
  BY <1>2, <1>3 DEF DotsNotReused

\* map::insert of an absent key brings its values.
LEMMA InsertBrings ==
  ASSUME MInv, MInv', Shaped, NEW r \in Replica, NEW k \in Key, NEW vals \in use.inserts,
         Insert(r, k, vals), k \notin state[r].outer.keys
  PROVE  state'[r].inner[k].keys = {vals[i] : i \in DOMAIN vals}
<1>1. PICK f, n : f = Built(r, vals) /\ n = Len(vals) /\ InnerFacts!Fills(r, f, n)
  BY BuiltFills
<1>2. f.keys = {vals[i] : i \in DOMAIN vals}
  <2>1. Lists(Built(r, vals), r, vals, Len(vals))
    BY BuiltKernel, BuiltParts
  <2> QED
    BY <1>1, <2>1 DEF Lists
<1>3. KeyMoves(r, k, state[r].inner[k], pending[r][k], f)
  BY <1>1, InsertMoves
<1>4. state[r].inner[k] = Inner!EmptyKernel
  BY DEF Shaped, ShapedMap
<1>5. PICK m, x, y : /\ m = state'[r].inner[k]
                     /\ x = InnerFacts!Extraction(m, InnerFacts!EmptyKernel)
                     /\ y = InnerFacts!Merge("state", InnerFacts!EmptyKernel, x)
  OBVIOUS
<1>6. m = InnerFacts!Merge("state", InnerFacts!EmptyKernel, f)
  BY <1>3, <1>4, <1>5, SameInner DEF KeyMoves
<1>7. InnerFacts!AfterFill(f, m, x, y)
  BY <1>5, <1>6 DEF InnerFacts!AfterFill
<1>8. m.keys = f.keys
  BY <1>1, <1>7, InnerFacts!FollowsFill
<1> QED
  BY <1>2, <1>5, <1>8

\* What replica r shows of the keys other than k.
OthersStay(r, k) == \A l \in Key \ {k} :
  /\ l \in state[r].outer.keys <=> l \in state'[r].outer.keys
  /\ l \in state[r].outer.keys => state'[r].inner[l].keys = state[r].inner[l].keys

LEMMA MovesOthers ==
  ASSUME NEW r \in Replica, NEW k \in Key, NEW base, NEW p, NEW inner,
         KeyMoves(r, k, base, p, inner)
  PROVE  k \in state'[r].outer.keys /\ OthersStay(r, k)
BY DEF KeyMoves, Unmoved, OthersStay

LEMMA StdMap ==
  ASSUME NestedInv, NestedInv', DotsNotReused, NEW r \in Replica
  PROVE  AsStdMap(r)
<1>1. MInv /\ MInv' /\ Shaped
  BY DEF NestedInv
<1>2. PICK now, then : now = Content(state[r]) /\ then = Content(state'[r])
  OBVIOUS
<1>3. /\ DOMAIN now = state[r].outer.keys /\ DOMAIN then = state'[r].outer.keys
      /\ \A k \in DOMAIN now : now[k] = state[r].inner[k].keys
      /\ \A k \in DOMAIN then : then[k] = state'[r].inner[k].keys
  BY <1>2 DEF Content
<1> DEFINE others(k) == \A l \in Key \ {k} :
             (l \in DOMAIN now <=> l \in DOMAIN then) /\ (l \in DOMAIN now => then[l] = now[l])
<1>4. ASSUME NEW k \in Key, OthersStay(r, k)
      PROVE  others(k)
  BY <1>3, <1>4 DEF OthersStay
<1> HIDE DEF others
<1>5. ASSUME NEW k \in Key, NEW vals \in use.inserts, Insert(r, k, vals)
      PROVE  /\ k \in DOMAIN then /\ others(k)
             /\ k \notin DOMAIN now => then[k] = {vals[i] : i \in DOMAIN vals}
  <2>1. k \in state'[r].outer.keys /\ OthersStay(r, k)
    BY <1>1, <1>5, InsertMoves, MovesOthers
  <2>2. k \notin DOMAIN now => state'[r].inner[k].keys = {vals[i] : i \in DOMAIN vals}
    BY <1>1, <1>3, <1>5, InsertBrings
  <2> QED
    BY <1>3, <1>4, <2>1, <2>2
<1>6. ASSUME NEW k \in Key, Erase(r, k)
      PROVE  k \notin DOMAIN then /\ others(k)
  <2>1. KeysGo(r, {k})
    BY <1>1, <1>6, EraseMoves
  <2> QED
    BY <1>3, <1>4, <2>1 DEF KeysGo, OthersStay
<1>7. ASSUME Clear(r)
      PROVE  DOMAIN then = {}
  BY <1>1, <1>3, <1>7, ClearMoves DEF KeysGo
<1>8. ASSUME NEW k \in Key, NEW delta, NEW K, NEW A, NestedBy(r, k, delta, K, A)
      PROVE  /\ k \in DOMAIN then /\ others(k) /\ k \in DOMAIN now
             /\ then[k] = (now[k] \ K) \cup A
  <2>1. PICK base, p, inner : KeyMoves(r, k, base, p, inner)
    BY <1>1, <1>8, NestedMoves DEF NestedBy, MayUpdateNested, MayUpdate
  <2>2. k \in state'[r].outer.keys /\ OthersStay(r, k)
    BY <2>1, MovesOthers
  <2>3. k \in state[r].outer.keys
    BY <1>8 DEF NestedBy, MayUpdateNested
  <2>4. InnerFacts!ChangedKeys(state[r].inner[k], state'[r].inner[k], K, A)
    BY <1>8, NestedChangesKeys
  <2> QED
    BY <1>3, <1>4, <2>2, <2>3, <2>4 DEF InnerFacts!ChangedKeys
<1>9. ASSUME NEW k \in Key, NestedUpdate(r, k)
      PROVE  k \in DOMAIN then /\ others(k)
  BY <1>1, <1>8, <1>9, UpdateChanges
<1>10. ASSUME NEW k \in Key, NEW e \in Elem, NestedInsert(r, k, e)
       PROVE  then[k] = now[k] \cup {e}
  <2>1. PICK delta : NestedBy(r, k, delta, {}, {e})
    BY <1>1, <1>10, InsertChanges
  <2>2. then[k] = (now[k] \ {}) \cup {e}
    BY <1>8, <2>1
  <2> QED
    BY <2>2
<1>11. ASSUME NEW k \in Key, NEW e \in Elem, NestedErase(r, k, e)
       PROVE  then[k] = now[k] \ {e}
  <2>1. PICK delta : NestedBy(r, k, delta, {e}, {})
    BY <1>1, <1>11, EraseChanges
  <2>2. then[k] = (now[k] \ {e}) \cup {}
    BY <1>8, <2>1
  <2> QED
    BY <2>2
<1>12. ASSUME NEW k \in Key, NEW e \in Elem, NestedSet(r, k, e)
       PROVE  then[k] = {e}
  <2>1. PICK delta : NestedBy(r, k, delta, state[r].inner[k].keys, {e})
    BY <1>1, <1>12, SetChanges
  <2>2. k \in DOMAIN now /\ then[k] = (now[k] \ state[r].inner[k].keys) \cup {e}
    BY <1>8, <2>1
  <2> QED
    BY <1>3, <2>2
<1>13. ASSUME NEW k \in Key, NestedClear(r, k)
       PROVE  then[k] = {}
  <2>1. PICK delta : NestedBy(r, k, delta, state[r].inner[k].keys, {})
    BY <1>1, <1>13, ClearChanges
  <2>2. k \in DOMAIN now /\ then[k] = (now[k] \ state[r].inner[k].keys) \cup {}
    BY <1>8, <2>1
  <2> QED
    BY <1>3, <2>2
<1> QED
  BY <1>2, <1>5, <1>6, <1>7, <1>9, <1>10, <1>11, <1>12, <1>13 DEF AsStdMap, others

LEMMA DeltaArrives ==
  ASSUME NestedInv, DotsNotReused, NEW r \in Replica, NEW s \in Replica, Deliver(r, s)
  PROVE  Arrives(r, s)
<1>1. MInv /\ Shaped /\ NoOverwrite
  BY DEF NestedInv, DotsNotReused, NoOverwrite
<1>2. PICK d \in Map : d = Pending(r, s).delta
  BY <1>1, DeliverMoves DEF Merges
<1>3. \A k \in Key : d.inner[k].keys \subseteq state'[r].inner[k].keys
  <2>1. CASE KeysStay
    BY <1>1, <1>2, <2>1, SharedDelivered DEF NestedInv, StayInv
  <2>2. CASE OneWriter /\ use.eager
    <3>1. PICK w \in Replica : \E H, L : OneAt(w, H, L)
      BY <1>1, <2>2 DEF NestedInv, OneInv
    <3>2. PICK H, L : OneAt(w, H, L)
      BY <3>1
    <3> QED
      BY <1>1, <1>2, <3>2, OneDeliver
  <2> QED
    BY <2>1, <2>2 DEF DotsNotReused
<1>4. d.outer.keys \subseteq Key
  BY DEF Map, Outer!Kernel
<1> QED
  BY <1>2, <1>3, <1>4 DEF Arrives

\* A map is to its replica what a std::map of std::sets (of values) is, and to the other
\* replicas its deltas bring what they hold, wherever no two different containers with the
\* same dots meet.
THEOREM ContentIsStdMap == Spec => ContentSemantics
<1>1. NestedInv /\ NestedInv' /\ DotsNotReused =>
        /\ \A r \in Replica : AsStdMap(r)
        /\ \A r, s \in Replica : Deliver(r, s) => Arrives(r, s)
  BY StdMap, DeltaArrives
<1>2. NestedInv /\ NestedInv' => [ DotsNotReused =>
        /\ \A r \in Replica : AsStdMap(r)
        /\ \A r, s \in Replica : Deliver(r, s) => Arrives(r, s)]_vars
  BY <1>1
<1> QED
  BY <1>2, NestedAlways, PTL DEF ContentSemantics

\* A reader's map is the one whose delta it merged last, whatever was erased, made anew and
\* changed in nested containers in between, where one writer inserts and erases the elements
\* of nested sets one by one and extracts each update.
THEOREM ReadersRead == Spec => [](Tracked(use) => ReadsTheWriter)
<1>1. NestedInv => (Tracked(use) => ReadsTheWriter)
  <2> SUFFICES ASSUME NestedInv, Tracked(use), NEW w \in Replica, use.writers = {w},
                      NEW r \in Replica \ {w}, got[r][w] # 0
               PROVE  Content(state[r]) = sent[w][got[r][w]].content
    BY DEF ReadsTheWriter
  <2>1. MInv
    BY DEF NestedInv
  <2>2. OneWriter /\ use.eager /\ NoOverwrite
    <3>1. Cardinality(use.writers) = 1
      BY FS_Singleton
    <3> QED
      BY <3>1 DEF Tracked, OneWriter, NoOverwrite
  <2>3. PICK W \in Replica : use.writers = {W} /\ \E H, L : OneAt(W, H, L)
    BY <2>2 DEF NestedInv, OneInv
  <2>4. PICK H, L : W = w /\ OneAt(w, H, L)
    BY <2>3
  <2>5. PICK u : Reads(w, sent[w][got[r][w]].delta, sent[w][got[r][w]].content, u, state[r])
    BY <2>1, <2>4, ReadLast
  <2> QED
    BY <2>5 DEF Reads
<1> QED
  BY <1>1, NestedAlways, PTL

\* Two replicas that insert what is absent and erase single elements, and extract every such
\* change by itself, hold the same keys with the same values as soon as each has merged what
\* the other one extracted, in whatever order the changes and deliveries came. With a third
\* replica it is not so without causal delivery: an erase can get to it before the insert of
\* what was erased.
THEOREM MapsConverge == Spec => [](TwoReplicas => Converged)
<1>1. NestedInv => (TwoReplicas => Converged)
  <2> SUFFICES ASSUME NestedInv, TwoReplicas, OneByOne, Quiet
               PROVE  \A r, s \in Replica : Content(state[r]) = Content(state[s])
    BY DEF Converged
  <2> QED
    BY PairsMeet DEF NestedInv
<1> QED
  BY <1>1, NestedAlways, PTL
=============================================================================
