-------------------------- MODULE CrdtValueMvProofs --------------------------
(***************************************************************************)
(* The multi-value register implements the observed-remove set of ORSet,   *)
(* for every set of replicas and values and every bound, also when several *)
(* writes are buffered into one delta, provided that a delta is merged     *)
(* after those its replica had merged (Causal).                            *)
(*                                                                         *)
(* The argument. A write deletes all that its replica holds, so that of    *)
(* all the writes of a replica that have been applied only the last one    *)
(* can still stand, and it does unless some applied write has observed it. *)
(* A delta thus carries the dot of its last write, and of each replica it  *)
(* need delete the last write observed only: counters_merge may replace    *)
(* the counters of earlier ones in the accumulated delta.                  *)
(***************************************************************************)
EXTENDS CrdtValueMv, CrdtSetProofs

-----------------------------------------------------------------------------
(* What a write does.                                                      *)

\* The delta of a write: one dot, and the dots of all that the replica holds as counters.
OneWrite(d, r, v, c) ==
  /\ d \in Kernel /\ Supported(d)
  /\ \A j \in Key : \A s \in Replica : d.dots[j][s] = IF j = v /\ s = r THEN {c} ELSE {}
  /\ \A s \in Replica :
       d.counters[s] = DotsOf(r, state[r].keys)[s] \cup IF s = r THEN {c} ELSE {}
  /\ \A s \in Replica : Valueless(d, s) = DotsOf(r, state[r].keys)[s]

LEMMA SetDeltaFacts ==
  ASSUME IInv, NEW r \in Replica, NEW v \in Key, NEW c, c = Len(inserted[r]) + 1
  PROVE  OneWrite(SetDelta(r, v), r, v, c)
<1> DEFINE K == state[r].keys
           V == DotsOf(r, K)
           w == ValueDelta(v, r, c)
           e == CountersDelta(state[r], K)
           d == SetDelta(r, v)
<1>1. NextDot(r) = c /\ c \in Nat \ {0} /\ Len(inserted[r]) \in Nat
  BY NextDotValue
<1>2. K \in SUBSET Key /\ state[r] \in Kernel
  BY DEF IInv, TypeOK, Kernel
<1>3. OneDot(w, v, r, c)
  BY <1>1, ValueDeltaFacts
<1>4. w.keys = {v}
  BY DEF ValueDelta, EmptyKernel
<1>5. e \in Kernel /\ \A s \in Replica : e.counters[s] = V[s]
  BY <1>2, CountersDeltaFacts DEF OnlyCounters, DotsOf
<1>6. d = [w EXCEPT !.counters = [s \in Replica |-> e.counters[s] \cup @[s]]]
  BY <1>1 DEF SetDelta
<1>7. \A s \in Replica : V[s] \subseteq 1 .. Len(inserted[s])
  BY <1>2 DEF DotsOf, IInv, KernelsOwned, Own, Within, IssuedFor
<1> HIDE DEF d, w, e, V, K
<1>8. w \in Kernel /\ e \in Kernel
  BY <1>3, <1>5 DEF OneDot
<1>9. [s \in Replica |-> e.counters[s] \cup w.counters[s]] \in Dots
  BY <1>8 DEF Kernel, Dots
<1>10. d \in Kernel /\ d.keys = w.keys /\ d.dots = w.dots
       /\ \A s \in Replica : d.counters[s] = e.counters[s] \cup w.counters[s]
  BY <1>6, <1>8, <1>9 DEF Kernel
<1>11. \A j \in Key : \A s \in Replica : d.dots[j][s] = IF j = v /\ s = r THEN {c} ELSE {}
  BY <1>3, <1>10 DEF OneDot
<1>12. \A s \in Replica : d.counters[s] = V[s] \cup IF s = r THEN {c} ELSE {}
  BY <1>3, <1>5, <1>10 DEF OneDot
<1>13. Supported(d)
  BY <1>4, <1>10, <1>11 DEF Supported
<1>14. ASSUME NEW s \in Replica
       PROVE  Valueless(d, s) = V[s]
  <2>1. UNION {d.dots[k][s] : k \in d.keys} = IF s = r THEN {c} ELSE {}
    BY <1>4, <1>10, <1>11
  <2>2. c \notin V[r]
    BY <1>1, <1>7
  <2> QED
    BY <1>12, <2>1, <2>2 DEF Valueless
<1> QED
  BY <1>10, <1>11, <1>12, <1>13, <1>14 DEF OneWrite, d, V, K

\* In the state and in the hook the written value is left alone, with a new dot.
Alone(l, r, v, c) ==
  \A j \in Key : \A s \in Replica : l.dots[j][s] = IF j = v /\ s = r THEN {c} ELSE {}

\* The counters of the write n + 1 join those in the hook.
HookGains(r, n) ==
  \A s \in Replica :
    hook'[r].counters[s] =
      CountersMerge("delta", hook[r].counters[s],
        DotsOf(r, state[r].keys)[s] \cup IF s = r THEN {n + 1} ELSE {})

LEMMA SetEffect ==
  ASSUME LInv, NEW r \in Replica, NEW v \in Key, Set(r, v), NEW n, n = Len(inserted[r])
  PROVE  /\ n \in Nat /\ LInv'
         /\ sent' = sent /\ got' = got
         /\ inserted' = [inserted EXCEPT ![r] = Append(@, v)]
         /\ \A s \in Replica \ {r} : state'[s] = state[s] /\ hook'[s] = hook[s]
         /\ Alone(state'[r], r, v, n + 1) /\ Alone(hook'[r], r, v, n + 1)
         /\ HookGains(r, n)
<1> DEFINE d == SetDelta(r, v)
           V == DotsOf(r, state[r].keys)
           L(j, s) == state[r].dots[j][s]
           H(j, s) == hook[r].dots[j][s]
<1>a. PICK c : c = n + 1
  OBVIOUS
<1>1. n \in Nat /\ c \in Nat \ {0} /\ IInv /\ TypeOK
  BY NextDotValue, <1>a DEF LInv, IInv
<1>2. /\ Commit(r, d)
      /\ inserted' = [inserted EXCEPT ![r] = Append(@, v)]
  BY DEF Set
<1>3. OneWrite(d, r, v, c)
  BY <1>1, <1>a, SetDeltaFacts
<1>4. \A j \in Key : \A s \in Replica : L(j, s) \subseteq V[s]
  <2>1. \A k \in Key : k \in state[r].keys <=> \E s \in Replica : state[r].dots[k][s] # {}
    BY StateKeys
  <2> QED
    BY <2>1 DEF DotsOf
<1>5. \A s \in Replica : V[s] \subseteq 1 .. Len(inserted[s]) /\ V[s] \in SUBSET (Nat \ {0})
  <2>1. state[r].keys \subseteq Key
    BY StateKeys
  <2> QED
    BY <1>1, <2>1 DEF DotsOf, IInv, KernelsOwned, Own, Within, IssuedFor
<1> HIDE DEF d
<1>6. /\ state' = [state EXCEPT ![r] = Merge("state", state[r], d)]
      /\ hook' = [hook EXCEPT ![r] = Merge("delta", hook[r], d)]
      /\ state'[r] = Merge("state", state[r], d)
      /\ hook'[r] = Merge("delta", hook[r], d)
      /\ sent' = sent /\ got' = got
      /\ \A s \in Replica \ {r} : state'[s] = state[s] /\ hook'[s] = hook[s]
  BY <1>1, <1>2 DEF Commit, TypeOK
<1>7. /\ inserted' \in [Replica -> Seq(Key)]
      /\ Len(inserted'[r]) = c
      /\ inserted'[r][c] = v
      /\ \A s \in Replica \ {r} : inserted'[s] = inserted[s]
  BY <1>1, <1>2, <1>a DEF TypeOK
<1>8. /\ state[r] \in Kernel /\ hook[r] \in Kernel /\ d \in Kernel
      /\ Linked(state[r]) /\ Linked(hook[r]) /\ Supported(d)
  BY <1>1, <1>3 DEF LInv, StateOk, HookOk, TypeOK, OneWrite
<1>9. /\ \A j \in Key : L(j, r) \subseteq 1 .. n
      /\ \A j \in Key : \A s \in Replica : H(j, s) \subseteq L(j, s)
  <2>1. \A j \in Key : L(j, r) \subseteq 1 .. n
    BY <1>1 DEF IInv, KernelsOwned, Own, Within, IssuedFor
  <2>2. \A j \in Key : \A s \in Replica : H(j, s) \subseteq L(j, s)
    BY DEF LInv, HookOk
  <2> QED
    BY <2>1, <2>2
<1>10. /\ \A s \in Replica : Within(state[s], IssuedFor', Issued')
       /\ \A s \in Replica : Within(hook[s], IssuedFor', Issued')
       /\ \A s \in Replica : \A i \in 1 .. Len(sent[s]) :
            Within(sent[s][i].delta, IssuedFor', Issued')
  BY <1>1, <1>2, IssuedGrows, WithinGrows DEF IInv, KernelsOwned, Own
<1>11. Within(d, IssuedFor', Issued')
  <2>1. c \in Issued'[r] /\ c \in IssuedFor'[v][r]
    BY <1>1, <1>7 DEF Issued, IssuedFor
  <2>2. \A s \in Replica : V[s] \subseteq Issued'[s]
    <3>1. \A s \in Replica : V[s] \subseteq Issued[s]
      BY <1>5 DEF Issued
    <3> QED
      BY <1>1, <1>2, <3>1, IssuedGrows
  <2> HIDE DEF V
  <2>3. \A s \in Replica : d.counters[s] \subseteq Issued'[s]
    BY <1>3, <2>1, <2>2 DEF OneWrite, V
  <2>4. \A j \in Key : \A s \in Replica : d.dots[j][s] \subseteq IssuedFor'[j][s]
    BY <1>3, <2>1 DEF OneWrite
  <2> QED
    BY <2>3, <2>4 DEF Within
<1>12. ASSUME NEW j \in Key
       PROVE  /\ c \in CountersMerge("state", L(j, r), {c})
              /\ c \in CountersMerge("delta", H(j, r), {c})
  <2>1. /\ L(j, r) \in SUBSET Nat /\ \A x \in L(j, r) \cup {c} : x <= c
        /\ H(j, r) \in SUBSET Nat /\ \A x \in H(j, r) \cup {c} : x <= c
    BY <1>1, <1>9, <1>a
  <2> HIDE DEF L, H
  <2> QED
    BY <1>1, <2>1, CountersMergeTop
<1>13. Stays("state", state[r], d) /\ Stays("delta", hook[r], d)
  <2> SUFFICES ASSUME NEW j \in Key, NEW s \in Replica
               PROVE  /\ d.dots[j][s] \subseteq CountersMerge("state", L(j, s), d.dots[j][s])
                      /\ d.dots[j][s] \subseteq CountersMerge("delta", H(j, s), d.dots[j][s])
    BY DEF Stays
  <2>1. d.dots[j][s] = {} \/ (s = r /\ d.dots[j][s] = {c})
    BY <1>3 DEF OneWrite
  <2> HIDE DEF L, H
  <2> QED
    BY <1>12, <2>1
<1>14. MergedCleanly("state", state[r], d) /\ MergedCleanly("delta", hook[r], d)
  <2>1. Apart(IssuedFor')
    BY DEF IssuedFor, Apart
  <2> QED
    BY <1>8, <1>10, <1>11, <1>13, <2>1, MergeLinked
<1>15. ASSUME NEW j \in Key, NEW s \in Replica
       PROVE  /\ state'[r].dots[j][s] = IF j = v /\ s = r THEN {c} ELSE {}
              /\ hook'[r].dots[j][s] = IF j = v /\ s = r THEN {c} ELSE {}
  <2>1. /\ state'[r].dots[j][s] = CountersMerge("state", L(j, s), d.dots[j][s]) \ V[s]
        /\ hook'[r].dots[j][s] = CountersMerge("delta", H(j, s), d.dots[j][s]) \ V[s]
    BY <1>3, <1>6, <1>14 DEF MergedCleanly, OneWrite
  <2>2. L(j, s) \subseteq V[s] /\ H(j, s) \subseteq V[s]
    BY <1>4, <1>9
  <2>3. c \notin V[r]
    BY <1>1, <1>5, <1>a
  <2>4. d.dots[j][s] = IF j = v /\ s = r THEN {c} ELSE {}
    BY <1>3 DEF OneWrite
  <2>5. /\ CountersMerge("state", L(j, s), d.dots[j][s]) \subseteq L(j, s) \cup d.dots[j][s]
        /\ CountersMerge("delta", H(j, s), d.dots[j][s]) \subseteq H(j, s) \cup d.dots[j][s]
    BY CountersMergeSubset
  <2> HIDE DEF L, H, V
  <2>6. CASE j = v /\ s = r
    <3>1. d.dots[j][s] = {c} /\ c \notin V[s]
      BY <2>3, <2>4, <2>6
    <3>2. /\ c \in CountersMerge("state", L(j, s), {c})
          /\ c \in CountersMerge("delta", H(j, s), {c})
      BY <1>12, <2>6
    <3>3. state'[r].dots[j][s] = {c}
      BY <2>1, <2>2, <2>5, <3>1, <3>2
    <3>4. hook'[r].dots[j][s] = {c}
      BY <2>1, <2>2, <2>5, <3>1, <3>2
    <3> QED
      BY <2>6, <3>3, <3>4
  <2>7. CASE ~(j = v /\ s = r)
    BY <2>1, <2>2, <2>4, <2>5, <2>7
  <2> QED
    BY <2>6, <2>7
<1>16. \A s \in Replica :
         /\ state'[r].counters[s] = CountersMerge("state", state[r].counters[s], d.counters[s])
         /\ hook'[r].counters[s] = CountersMerge("delta", hook[r].counters[s], d.counters[s])
         /\ d.counters[s] = V[s] \cup IF s = r THEN {c} ELSE {}
  BY <1>3, <1>6, MergeCounters DEF OneWrite
<1>17. IInv'
  <2>1. TypeOK'
    <3>1. state[r].keys \in SUBSET Key
      BY StateKeys
    <3> QED
      BY <1>1, <1>2, <1>7, <1>8, <3>1, CommitType, ForgetType DEF TypeOK, Set
  <2>2. /\ Within(state'[r], IssuedFor', Issued')
        /\ Within(hook'[r], IssuedFor', Issued')
    BY <1>6, <1>8, <1>10, <1>11, MergeWithin
  <2>3. KernelsOwned'
    <3>1. \A s \in Replica : /\ Within(state'[s], IssuedFor', Issued')
                             /\ Within(hook'[s], IssuedFor', Issued')
      BY <1>6, <1>10, <2>2
    <3> QED
      BY <1>6, <1>10, <3>1 DEF KernelsOwned, Own
  <2>4. TopRecorded'
    <3>1. c \in state'[r].counters[r]
      <4>1. state[r].counters[r] \subseteq 1 .. n
        BY <1>1 DEF IInv, KernelsOwned, Own, Within, Issued
      <4>2. V[r] \subseteq 1 .. n
        BY <1>5
      <4> DEFINE S == state[r].counters[r]
                 R == d.counters[r]
      <4>3. S \in SUBSET Nat /\ R \in SUBSET Nat /\ c \in R /\ \A x \in S \cup R : x <= c
        BY <1>1, <1>16, <1>a, <4>1, <4>2
      <4>4. state'[r].counters[r] = CountersMerge("state", S, R)
        BY <1>16
      <4> HIDE DEF S, R
      <4> QED
        BY <1>1, <4>3, <4>4, CountersMergeTop
    <3>2. \A s \in Replica \ {r} :
            Len(inserted'[s]) = 0 \/ Len(inserted'[s]) \in state'[s].counters[s]
      BY <1>1, <1>6, <1>7 DEF IInv, TopRecorded
    <3> QED
      BY <1>7, <3>1, <3>2 DEF TopRecorded
  <2> QED
    BY <2>1, <2>3, <2>4 DEF IInv
<1>18. Linked(state'[r]) /\ Linked(hook'[r])
  BY <1>6, <1>14 DEF MergedCleanly
<1>19. /\ \A s, i : Upto(s, i)' = Upto(s, i)
       /\ \A s : Last(s)' = Last(s)
  BY <1>6 DEF Upto, Last
<1>20. Last(r) \in Nat /\ Last(r) <= n /\ \A s \in Replica : Last(s) \in Nat
  <2>1. \A s \in Replica : 0 \in 0 .. Len(sent[s])
    BY <1>1 DEF TypeOK
  <2> QED
    BY <2>1, UptoOrder
<1>21. ASSUME NEW s \in Replica \ {r}
       PROVE  /\ V[s] \subseteq 1 .. Last(s)
              /\ state'[r].counters[s] \subseteq 1 .. Last(s)
              /\ hook'[r].counters[s] \subseteq 1 .. Last(s)
  <2>1. got[r][s] \in 0 .. Len(sent[s])
    BY <1>1 DEF LInv, StateOk, TypeOK
  <2>2. Upto(s, got[r][s]) \in Nat /\ Upto(s, got[r][s]) <= Last(s)
    BY <2>1, UptoOrder
  <2>3. \A k \in Key : state[r].dots[k][s] \subseteq 1 .. Last(s)
    BY <1>20, <2>2 DEF LInv, StateOk
  <2>4. V[s] \subseteq 1 .. Last(s)
    BY <2>3, StateKeys DEF DotsOf
  <2>5. state[r].counters[s] \subseteq 1 .. Last(s) /\ hook[r].counters[s] \subseteq 1 .. Last(s)
    BY DEF LInv, StateOk, HookOk
  <2> HIDE DEF V
  <2>6. /\ state'[r].counters[s] \subseteq state[r].counters[s] \cup V[s]
        /\ hook'[r].counters[s] \subseteq hook[r].counters[s] \cup V[s]
    <3>1. d.counters[s] = V[s]
      BY <1>16
    <3> QED
      BY <1>16, <3>1, CountersMergeSubset
  <2> QED
    BY <2>4, <2>5, <2>6
<1>22. StateOk(r)'
  BY <1>6, <1>15, <1>18, <1>19, <1>21 DEF LInv, StateOk
<1>23. HookOk(r)'
  <2>1. HeadedIn({c}, {c}) /\ HeadedIn({}, {c}) /\ HeadedIn({}, {})
    BY <1>1 DEF HeadedIn
  <2>2. c \in Last(r) + 1 .. Len(inserted'[r])
    BY <1>1, <1>7, <1>20, <1>a
  <2>3. ASSUME NEW k \in Key
        PROVE  /\ hook'[r].dots[k][r] \subseteq Last(r) + 1 .. Len(inserted'[r])
               /\ hook'[r].dots[k][r] \subseteq state'[r].dots[k][r]
               /\ HeadedIn(hook'[r].dots[k][r], state'[r].dots[k][r])
    BY <1>15, <2>1, <2>2
  <2> QED
    BY <1>15, <1>18, <1>19, <1>21, <2>3 DEF HookOk
<1>24. LInv'
  <2>1. Len(inserted'[r]) >= Len(inserted[r])
    BY <1>1, <1>7, <1>a
  <2> QED
    BY <1>2, <1>7, <1>8, <1>17, <1>22, <1>23, <2>1, LocalFrame
<1>25. Alone(state'[r], r, v, n + 1) /\ Alone(hook'[r], r, v, n + 1)
  BY <1>15, <1>a DEF Alone
<1>26. HookGains(r, n)
  <2>1. ASSUME NEW s \in Replica
        PROVE  hook'[r].counters[s] =
                 CountersMerge("delta", hook[r].counters[s], V[s] \cup IF s = r THEN {c} ELSE {})
    BY <1>16
  <2> QED
    BY <1>a, <2>1 DEF HookGains
<1> QED
  BY <1>1, <1>2, <1>6, <1>24, <1>25, <1>26, <1>a

-----------------------------------------------------------------------------
(* Histories: g[s] is the sequence of the writes of s.                     *)

Below(u, v) == \A s \in Replica : u[s] <= v[s]

\* v are prefixes of the logs.
Prefixes(g, v) == \A s \in Replica : v[s] \in 0 .. Len(g[s])

\* The writes in the prefixes v observed nothing outside of them.
Closed(g, v) == \A s \in Replica : \A i \in 1 .. v[s] : Below(g[s][i].past, v)

\* Some write in the prefixes v has observed the c-th write of s.
Overwritten(g, v, s, c) ==
  \E t \in Replica : \E j \in 1 .. v[t] : c <= g[t][j].past[s]

\* The last write of s in the prefixes v, when it is of k and none in v has observed it.
Standing(g, v, k, s) ==
  {c \in {v[s]} \ {0} : k \in g[s][c].adds /\ ~Overwritten(g, v, s, c)}

\* A write adds one value and removes all that its replica saw, which grows.
Issues(g, s) ==
  /\ \A i \in 1 .. Len(g[s]) :
       /\ \E k \in Key : g[s][i].adds = {k}
       /\ g[s][i].removes = Abstract!Value(g, g[s][i].past)
       /\ Prefixes(g, g[s][i].past) /\ g[s][i].past[s] = i - 1
  /\ \A i, j \in 1 .. Len(g[s]) : i <= j => Below(g[s][i].past, g[s][j].past)

History(g) == \A s \in Replica : Len(g[s]) \in Nat /\ Issues(g, s)

LEMMA WriteOf ==
  ASSUME NEW g, History(g), NEW s \in Replica, NEW i \in 1 .. Len(g[s])
  PROVE  /\ \E k \in Key : g[s][i].adds = {k}
         /\ g[s][i].removes = Abstract!Value(g, g[s][i].past)
         /\ Prefixes(g, g[s][i].past) /\ g[s][i].past[s] = i - 1
         /\ \A t \in Replica : g[s][i].past[t] \in Nat
BY DEF History, Issues, Prefixes

\* h continues g.
Continues(g, h) ==
  \A s \in Replica :
    /\ Len(g[s]) \in Nat /\ Len(h[s]) \in Nat /\ Len(g[s]) <= Len(h[s])
    /\ \A i \in 1 .. Len(g[s]) : h[s][i] = g[s][i]

LEMMA SameWrites ==
  ASSUME NEW g, NEW h, Continues(g, h), NEW v, Prefixes(g, v)
  PROVE  /\ \A s \in Replica : \A i \in 1 .. v[s] : h[s][i] = g[s][i]
         /\ Prefixes(h, v)
<1>1. ASSUME NEW s \in Replica
      PROVE  v[s] \in 0 .. Len(h[s]) /\ \A i \in 1 .. v[s] : h[s][i] = g[s][i]
  <2>1. v[s] \in 0 .. Len(g[s]) /\ Len(g[s]) \in Nat /\ Len(h[s]) \in Nat /\ Len(g[s]) <= Len(h[s])
    BY DEF Continues, Prefixes
  <2> QED
    BY <2>1 DEF Continues
<1> QED
  BY <1>1 DEF Prefixes

LEMMA SameOverwritten ==
  ASSUME NEW g, NEW h, Continues(g, h), NEW v, Prefixes(g, v), NEW s \in Replica, NEW c
  PROVE  Overwritten(h, v, s, c) <=> Overwritten(g, v, s, c)
BY SameWrites DEF Overwritten

LEMMA SameStanding ==
  ASSUME NEW g, NEW h, Continues(g, h), NEW v, Prefixes(g, v), NEW k, NEW s \in Replica
  PROVE  Standing(h, v, k, s) = Standing(g, v, k, s)
<1>1. ASSUME NEW c \in {v[s]} \ {0}
      PROVE  h[s][c] = g[s][c]
  <2>1. c \in 1 .. v[s]
    BY DEF Prefixes, Continues
  <2> QED
    BY <2>1, SameWrites
<1>2. \A c : Overwritten(h, v, s, c) <=> Overwritten(g, v, s, c)
  BY SameOverwritten
<1> QED
  BY <1>1, <1>2 DEF Standing

LEMMA SameClosed ==
  ASSUME NEW g, NEW h, Continues(g, h), NEW v, Prefixes(g, v), Closed(g, v)
  PROVE  Closed(h, v)
BY SameWrites DEF Closed

LEMMA SameValue ==
  ASSUME NEW g, NEW h, Continues(g, h), NEW v, Prefixes(g, v)
  PROVE  Abstract!Value(h, v) = Abstract!Value(g, v)
<1>1. \A s \in Replica : \A i \in 1 .. v[s] : h[s][i] = g[s][i]
  BY SameWrites
<1>2. ASSUME NEW k, NEW s \in Replica, NEW i
      PROVE  Abstract!Removed(h, v, k, s, i) <=> Abstract!Removed(g, v, k, s, i)
  BY <1>1 DEF Abstract!Removed
<1>3. \A k \in Key : k \in Abstract!Value(h, v) <=> k \in Abstract!Value(g, v)
  BY <1>1, <1>2 DEF Abstract!Value
<1> QED
  BY <1>3 DEF Abstract!Value

LEMMA OverwrittenLater ==
  ASSUME NEW g, NEW u, NEW v, Below(u, v), \A t \in Replica : u[t] \in Nat /\ v[t] \in Nat,
         NEW s \in Replica, NEW c, Overwritten(g, u, s, c)
  PROVE  Overwritten(g, v, s, c)
<1>1. \A t \in Replica : 1 .. u[t] \subseteq 1 .. v[t]
  BY DEF Below
<1> QED
  BY <1>1 DEF Overwritten

\* The values in prefixes that are closed are those of the writes that still stand. A write
\* that an applied one has observed is removed: by that one, or, if its value was not there
\* to be removed, by one applied before.
LEMMA ValueStands ==
  ASSUME NEW g, History(g), NEW v, Prefixes(g, v), Closed(g, v), NEW k \in Key
  PROVE  k \in Abstract!Value(g, v) <=> \E s \in Replica : Standing(g, v, k, s) # {}
<1>0. \A s \in Replica : Len(g[s]) \in Nat /\ v[s] \in Nat /\ 1 .. v[s] \subseteq 1 .. Len(g[s])
  BY DEF History, Prefixes
<1>1. ASSUME NEW s \in Replica, NEW i \in 1 .. v[s], k \in g[s][i].adds, Overwritten(g, v, s, i)
      PROVE  Abstract!Removed(g, v, k, s, i)
  <2>1. PICK t \in Replica : \E j \in 1 .. v[t] : i <= g[t][j].past[s]
    BY <1>1 DEF Overwritten
  <2>2. PICK j \in 1 .. v[t] : i <= g[t][j].past[s]
    BY <2>1
  <2> DEFINE u == g[t][j].past
  <2>3. g[t][j].removes = Abstract!Value(g, u) /\ \A x \in Replica : u[x] \in Nat /\ u[x] <= v[x]
    BY <1>0, WriteOf DEF Closed, Below
  <2>4. CASE k \in Abstract!Value(g, u)
    BY <2>2, <2>3, <2>4 DEF Abstract!Removed
  <2>5. CASE k \notin Abstract!Value(g, u)
    <3>1. i \in 1 .. u[s]
      BY <1>0, <2>2, <2>3
    <3>2. Abstract!Removed(g, u, k, s, i)
      BY <1>1, <2>5, <3>1 DEF Abstract!Value
    <3>3. \A x \in Replica : 1 .. u[x] \subseteq 1 .. v[x]
      BY <1>0, <2>3
    <3> HIDE DEF u
    <3> QED
      BY <3>2, <3>3 DEF Abstract!Removed
  <2> QED
    BY <2>4, <2>5
<1>2. ASSUME NEW s \in Replica, NEW i \in 1 .. v[s], i # v[s]
      PROVE  Overwritten(g, v, s, i)
  <2>1. v[s] \in 1 .. v[s] /\ i <= v[s] - 1
    BY <1>0, <1>2
  <2>2. g[s][v[s]].past[s] = v[s] - 1
    BY <1>0, <2>1, WriteOf
  <2> QED
    BY <2>1, <2>2 DEF Overwritten
<1>3. ASSUME k \in Abstract!Value(g, v)
      PROVE  \E s \in Replica : Standing(g, v, k, s) # {}
  <2>1. PICK s \in Replica : \E i \in 1 .. v[s] :
          k \in g[s][i].adds /\ ~Abstract!Removed(g, v, k, s, i)
    BY <1>3 DEF Abstract!Value
  <2>2. PICK i \in 1 .. v[s] : k \in g[s][i].adds /\ ~Abstract!Removed(g, v, k, s, i)
    BY <2>1
  <2>3. ~Overwritten(g, v, s, i)
    BY <1>1, <2>2
  <2>4. i = v[s] /\ i # 0
    BY <1>2, <2>3
  <2>5. i \in Standing(g, v, k, s)
    BY <2>2, <2>3, <2>4 DEF Standing
  <2> QED
    BY <2>5
<1>4. ASSUME NEW s \in Replica, Standing(g, v, k, s) # {}
      PROVE  k \in Abstract!Value(g, v)
  <2>1. PICK c \in {v[s]} \ {0} : k \in g[s][c].adds /\ ~Overwritten(g, v, s, c)
    BY <1>4 DEF Standing
  <2>2. c \in 1 .. v[s]
    BY <1>0
  <2>3. ~Abstract!Removed(g, v, k, s, c)
    BY <2>1 DEF Abstract!Removed, Overwritten
  <2> QED
    BY <2>1, <2>2, <2>3 DEF Abstract!Value
<1> QED
  BY <1>3, <1>4

-----------------------------------------------------------------------------
(* Deltas. The delta l of s stands for its writes a + 1 .. b.              *)

\* What s had applied at its b-th write, of its own writes only the first a.
Base(g, s, a, b) == [t \in Replica |-> IF t = s THEN a ELSE g[s][b].past[t]]

\* The c-th write of t, the last one in u, is none, or l deletes its dot, or it has been
\* observed by a write in u.
Cleared(g, l, u, t) == u[t] = 0 \/ u[t] \in Bare(l, t) \/ Overwritten(g, u, t, u[t])

\* l has the dot of the b-th write alone, deletes dots which that write observed only, and
\* leaves none of them standing.
Records(g, l, s, a, b) ==
  /\ a \in Nat /\ b \in 1 .. Len(g[s]) /\ a < b
  /\ \A k \in Key : \A t \in Replica :
       l.dots[k][t] = IF t = s /\ k \in g[s][b].adds THEN {b} ELSE {}
  /\ \A t \in Replica : Bare(l, t) \subseteq 1 .. g[s][b].past[t]
  /\ \A t \in Replica : Cleared(g, l, Base(g, s, a, b), t)

LEMMA BasePrefixes ==
  ASSUME NEW g, History(g), NEW s \in Replica, NEW a \in Nat, NEW b \in 1 .. Len(g[s]), a < b
  PROVE  Prefixes(g, Base(g, s, a, b))
<1>1. Prefixes(g, g[s][b].past) /\ Len(g[s]) \in Nat
  BY WriteOf DEF History
<1> QED
  BY <1>1 DEF Prefixes, Base

LEMMA SameRecords ==
  ASSUME NEW g, History(g), NEW h, Continues(g, h), NEW l, NEW s \in Replica, NEW a, NEW b,
         Records(g, l, s, a, b)
  PROVE  Records(h, l, s, a, b)
<1>1. a \in Nat /\ b \in 1 .. Len(g[s]) /\ a < b
  BY DEF Records
<1>2. h[s][b] = g[s][b] /\ b \in 1 .. Len(h[s])
  BY <1>1 DEF Continues
<1>3. Base(h, s, a, b) = Base(g, s, a, b)
  BY <1>2 DEF Base
<1>4. Prefixes(g, Base(g, s, a, b))
  BY <1>1, BasePrefixes
<1> DEFINE u == Base(g, s, a, b)
<1> HIDE DEF u
<1>5. ASSUME NEW t \in Replica, Cleared(g, l, u, t)
      PROVE  Cleared(h, l, u, t)
  <2>1. Overwritten(h, u, t, u[t]) <=> Overwritten(g, u, t, u[t])
    BY <1>4, SameOverwritten DEF u
  <2> QED
    BY <1>5, <2>1 DEF Cleared
<1>6. \A t \in Replica : Cleared(h, l, Base(h, s, a, b), t)
  BY <1>3, <1>5 DEF Records, u
<1> QED
  BY <1>1, <1>2, <1>6 DEF Records

\* The prefixes v, and w after the writes of s up to the b-th one, which observed nothing of
\* others outside of v.
Applies(g, v, s, b, w) ==
  /\ Prefixes(g, v) /\ Prefixes(g, w) /\ Closed(g, v)
  /\ v[s] < b /\ w[s] = b
  /\ \A t \in Replica \ {s} : w[t] = v[t] /\ g[s][b].past[t] <= v[t]

\* What is in w was in v, or is one of those writes, which observed no more than the last.
LEMMA AppliedWrites ==
  ASSUME NEW g, History(g), NEW s \in Replica, NEW b, NEW v, NEW w, Applies(g, v, s, b, w)
  PROVE  /\ b \in 1 .. Len(g[s]) /\ b \in Nat
         /\ \A t \in Replica : v[t] \in Nat /\ w[t] \in Nat
         /\ Below(v, w)
         /\ \A x \in Replica : \A j \in 1 .. w[x] :
              /\ j \in 1 .. Len(g[x])
              /\ \/ j \in 1 .. v[x]
                 \/ x = s /\ g[s][j].past[s] = j - 1 /\ j <= b /\ Below(g[s][j].past, g[s][b].past)
<1>1. \A t \in Replica : Len(g[t]) \in Nat /\ v[t] \in 0 .. Len(g[t]) /\ w[t] \in 0 .. Len(g[t])
  BY DEF History, Applies, Prefixes
<1>2. b \in 1 .. Len(g[s]) /\ b \in Nat
  BY <1>1 DEF Applies
<1>3. Below(v, w)
  BY <1>1, <1>2 DEF Applies, Below
<1>4. ASSUME NEW x \in Replica, NEW j \in 1 .. w[x]
      PROVE  /\ j \in 1 .. Len(g[x])
             /\ \/ j \in 1 .. v[x]
                \/ x = s /\ g[s][j].past[s] = j - 1 /\ j <= b /\ Below(g[s][j].past, g[s][b].past)
  <2>1. j \in 1 .. Len(g[x])
    BY <1>1
  <2>2. CASE x # s
    BY <2>1, <2>2 DEF Applies
  <2>3. CASE x = s
    <3>1. j <= b /\ j \in 1 .. Len(g[s])
      BY <1>1, <2>1, <2>3 DEF Applies
    <3>2. g[s][j].past[s] = j - 1
      BY <3>1, WriteOf
    <3>3. Below(g[s][j].past, g[s][b].past)
      BY <1>2, <3>1 DEF History, Issues
    <3> QED
      BY <2>1, <2>3, <3>1, <3>2, <3>3
  <2> QED
    BY <2>2, <2>3
<1> QED
  BY <1>1, <1>2, <1>3, <1>4

LEMMA ClosedApplied ==
  ASSUME NEW g, History(g), NEW s \in Replica, NEW b, NEW v, NEW w, Applies(g, v, s, b, w)
  PROVE  Closed(g, w)
<1> SUFFICES ASSUME NEW x \in Replica, NEW j \in 1 .. w[x], NEW t \in Replica
             PROVE  g[x][j].past[t] <= w[t]
  BY DEF Closed, Below
<1>1. /\ b \in 1 .. Len(g[s]) /\ b \in Nat /\ v[t] \in Nat /\ w[t] \in Nat /\ v[t] <= w[t]
      /\ j \in 1 .. Len(g[x])
      /\ \/ j \in 1 .. v[x]
         \/ x = s /\ g[s][j].past[s] = j - 1 /\ j <= b /\ Below(g[s][j].past, g[s][b].past)
  BY AppliedWrites DEF Below
<1>2. g[x][j].past[t] \in Nat /\ g[s][b].past[t] \in Nat
  BY <1>1, WriteOf
<1>3. CASE j \in 1 .. v[x]
  <2>1. g[x][j].past[t] <= v[t]
    BY <1>3 DEF Applies, Closed, Below
  <2> QED
    BY <1>1, <1>2, <2>1
<1>4. CASE x = s /\ j <= b /\ t = s /\ g[s][j].past[s] = j - 1
  BY <1>1, <1>2, <1>4 DEF Applies
<1>5. CASE x = s /\ t # s /\ Below(g[s][j].past, g[s][b].past)
  <2>1. g[s][j].past[t] <= g[s][b].past[t] /\ g[s][b].past[t] <= v[t]
    BY <1>5 DEF Applies, Below
  <2> QED
    BY <1>1, <1>2, <1>5, <2>1
<1> QED
  BY <1>1, <1>3, <1>4, <1>5

\* Of s its b-th write stands, of others what it has not observed.
LEMMA StandingApplied ==
  ASSUME NEW g, History(g), NEW s \in Replica, NEW b, NEW v, NEW w, Applies(g, v, s, b, w),
         NEW k \in Key, NEW t \in Replica
  PROVE  /\ t = s => Standing(g, w, k, t) = IF k \in g[s][b].adds THEN {b} ELSE {}
         /\ t # s /\ v[t] <= g[s][b].past[t] => Standing(g, w, k, t) = {}
         /\ t # s /\ ~(v[t] <= g[s][b].past[t]) => Standing(g, w, k, t) = Standing(g, v, k, t)
<1>1. /\ b \in 1 .. Len(g[s]) /\ b \in Nat /\ b # 0 /\ b \in 1 .. w[s] /\ w[s] = b
      /\ v[t] \in Nat /\ w[t] \in Nat /\ v[s] \in Nat
      /\ \A x \in Replica : \A j \in 1 .. w[x] :
              /\ j \in 1 .. Len(g[x])
              /\ \/ j \in 1 .. v[x]
                 \/ x = s /\ g[s][j].past[s] = j - 1 /\ j <= b /\ Below(g[s][j].past, g[s][b].past)
  <2>0. w[s] = b
    BY DEF Applies
  <2>1. b \in 1 .. Len(g[s]) /\ b \in Nat
    BY AppliedWrites
  <2>2. b # 0 /\ b \in 1 .. w[s] /\ w[s] = b
    <3>1. b >= 1
      BY <2>1
    <3> QED
      BY <2>0, <2>1, <3>1
  <2> QED
    BY <2>1, <2>2, AppliedWrites
<1>2. \A x \in Replica : \A j \in 1 .. w[x] : g[x][j].past[t] \in Nat /\ g[x][j].past[s] \in Nat
  BY <1>1, WriteOf
<1>3. ASSUME t = s
      PROVE  Standing(g, w, k, t) = IF k \in g[s][b].adds THEN {b} ELSE {}
  <2>1. ~Overwritten(g, w, s, b)
    <3> SUFFICES ASSUME NEW x \in Replica, NEW j \in 1 .. w[x], b <= g[x][j].past[s]
                 PROVE  FALSE
      BY DEF Overwritten
    <3>0. g[x][j].past[s] \in Nat
      BY <1>2
    <3>1. CASE j \in 1 .. v[x]
      <4>1. g[x][j].past[s] <= v[s] /\ v[s] < b
        BY <3>1 DEF Applies, Closed, Below
      <4> QED
        BY <1>1, <3>0, <4>1
    <3>2. CASE x = s /\ g[s][j].past[s] = j - 1 /\ j <= b
      BY <1>1, <3>0, <3>2
    <3> QED
      BY <1>1, <3>1, <3>2
  <2> QED
    BY <1>1, <1>3, <2>1 DEF Standing
<1>4. ASSUME t # s, v[t] <= g[s][b].past[t]
      PROVE  Standing(g, w, k, t) = {}
  <2>1. w[t] = v[t]
    BY <1>4 DEF Applies
  <2>2. Overwritten(g, w, t, w[t])
    BY <1>1, <1>4, <2>1 DEF Overwritten
  <2> QED
    BY <2>2 DEF Standing
<1>5. ASSUME t # s, ~(v[t] <= g[s][b].past[t])
      PROVE  Standing(g, w, k, t) = Standing(g, v, k, t)
  <2>1. w[t] = v[t]
    BY <1>5 DEF Applies
  <2>2. ASSUME Overwritten(g, w, t, v[t])
        PROVE  Overwritten(g, v, t, v[t])
    <3>1. PICK x \in Replica : \E j \in 1 .. w[x] : v[t] <= g[x][j].past[t]
      BY <2>2 DEF Overwritten
    <3>2. PICK j \in 1 .. w[x] : v[t] <= g[x][j].past[t]
      BY <3>1
    <3>3. CASE j \in 1 .. v[x]
      BY <3>2, <3>3 DEF Overwritten
    <3>4. CASE x = s /\ Below(g[s][j].past, g[s][b].past)
      <4>1. g[s][j].past[t] <= g[s][b].past[t] /\ g[s][j].past[t] \in Nat /\ g[s][b].past[t] \in Nat
        BY <1>1, <1>2, <3>4 DEF Below
      <4> QED
        BY <1>1, <1>5, <3>2, <3>4, <4>1
    <3> QED
      BY <1>1, <3>3, <3>4
  <2>3. ASSUME Overwritten(g, v, t, v[t])
        PROVE  Overwritten(g, w, t, v[t])
    BY <2>3, AppliedWrites, OverwrittenLater
  <2> QED
    BY <2>1, <2>2, <2>3 DEF Standing
<1> QED
  BY <1>3, <1>4, <1>5

\* Merging the delta of those writes leaves what stands after them.
LEMMA RecordsApplied ==
  ASSUME NEW g, History(g), NEW s \in Replica, NEW b, NEW v, NEW w, Applies(g, v, s, b, w),
         NEW l, Records(g, l, s, v[s], b), NEW k \in Key, NEW t \in Replica
  PROVE  CountersMerge("state", Standing(g, v, k, t), l.dots[k][t]) \ Bare(l, t)
           = Standing(g, w, k, t)
<1> DEFINE a == v[s]
           u == Base(g, s, a, b)
           S == Standing(g, v, k, t)
           B == Bare(l, t)
<1>1. a \in Nat /\ b \in Nat /\ a < b /\ b \in 1 .. Len(g[s]) /\ v[t] \in Nat
  <2>1. b \in 1 .. Len(g[s]) /\ b \in Nat /\ v[t] \in Nat
    BY AppliedWrites
  <2>2. a \in Nat /\ a < b
    BY DEF Records
  <2> QED
    BY <2>1, <2>2
<1>2. /\ l.dots[k][t] = IF t = s /\ k \in g[s][b].adds THEN {b} ELSE {}
      /\ B \subseteq 1 .. g[s][b].past[t]
      /\ Cleared(g, l, u, t)
  BY DEF Records
<1>3. g[s][b].past[t] \in Nat /\ g[s][b].past[s] = b - 1
  BY <1>1, WriteOf
<1>4. \A x \in Replica : u[x] \in Nat /\ v[x] \in Nat
  <2>1. Prefixes(g, u) /\ Prefixes(g, v)
    BY <1>1, BasePrefixes DEF Applies
  <2> QED
    BY <2>1 DEF Prefixes, History
<1>5. Below(u, v)
  BY <1>1 DEF Applies, Below, Base
<1>6. S \subseteq {v[t]} \ {0}
  BY DEF Standing
<1>7. u[t] = v[t] => S \subseteq B
  <2> SUFFICES ASSUME u[t] = v[t], S # {}
               PROVE  v[t] \in B
    BY <1>6
  <2>1. ~Overwritten(g, v, t, v[t]) /\ v[t] # 0
    BY DEF Standing
  <2>2. ~Overwritten(g, u, t, v[t])
    BY <1>4, <1>5, <2>1, OverwrittenLater
  <2> HIDE DEF u
  <2> QED
    BY <1>2, <2>1, <2>2 DEF Cleared
<1>8. CASE t = s
  <2>1. u[t] = v[t]
    BY <1>8 DEF Base
  <2>2. b \notin B
    BY <1>1, <1>2, <1>3, <1>8
  <2>3. Standing(g, w, k, t) = IF k \in g[s][b].adds THEN {b} ELSE {}
    BY <1>8, StandingApplied
  <2> HIDE DEF S, B, u, a
  <2>4. CASE k \in g[s][b].adds
    <3>1. l.dots[k][t] = {b}
      BY <1>2, <1>8, <2>4
    <3>2. b \in CountersMerge("state", S, {b})
      <4>1. S \in SUBSET Nat /\ {b} \in SUBSET Nat /\ \A c \in S \cup {b} : c <= b
        BY <1>1, <1>6, <1>8 DEF a
      <4> QED
        BY <4>1, CountersMergeTop
    <3>3. CountersMerge("state", S, {b}) \subseteq S \cup {b}
      BY CountersMergeSubset
    <3> QED
      BY <1>7, <2>1, <2>2, <2>3, <2>4, <3>1, <3>2, <3>3 DEF S, B
  <2>5. CASE k \notin g[s][b].adds
    <3>1. l.dots[k][t] = {}
      BY <1>2, <2>5
    <3> QED
      BY <1>7, <2>1, <2>3, <2>5, <3>1, CountersMergeNone DEF S, B
  <2> QED
    BY <2>4, <2>5
<1>9. CASE t # s
  <2>1. CountersMerge("state", S, l.dots[k][t]) = S
    <3>1. l.dots[k][t] = {}
      BY <1>2, <1>9
    <3> QED
      BY <3>1, CountersMergeNone
  <2>2. g[s][b].past[t] <= v[t] /\ u[t] = g[s][b].past[t]
    BY <1>9 DEF Applies, Base
  <2>3. CASE v[t] <= g[s][b].past[t]
    <3>1. u[t] = v[t]
      BY <1>1, <1>3, <2>2, <2>3
    <3>2. Standing(g, w, k, t) = {}
      BY <1>9, <2>3, StandingApplied
    <3> HIDE DEF S, B, u
    <3>3. S \ B = {}
      BY <1>7, <3>1
    <3> QED
      BY <2>1, <3>2, <3>3 DEF S, B
  <2>4. CASE ~(v[t] <= g[s][b].past[t])
    <3>1. v[t] \notin B
      BY <1>1, <1>2, <1>3, <2>4
    <3>2. Standing(g, w, k, t) = S
      BY <1>9, <2>4, StandingApplied
    <3> HIDE DEF S, B
    <3>3. S \ B = S
      BY <1>6, <3>1
    <3> QED
      BY <2>1, <3>2, <3>3 DEF S, B
  <2> QED
    BY <2>3, <2>4
<1> QED
  BY <1>8, <1>9

\* V are the dots that stand after v, of all values.
Sees(g, v, V) ==
  \A t \in Replica :
    /\ V[t] \subseteq {v[t]} \ {0}
    /\ v[t] = 0 \/ v[t] \in V[t] \/ Overwritten(g, v, t, v[t])

\* The delta l of s stands for its writes a + 1 .. n, if there are any.
Buffers(g, l, s, a, n) ==
  /\ a \in Nat /\ n \in Nat
  /\ \/ a = n /\ \A t \in Replica : l.counters[t] = {}
     \/ Records(g, l, s, a, n)

\* counters_merge for a delta drops a counter only in favour of its successor alone.
LEMMA DeltaMergeKeeps ==
  ASSUME NEW L, NEW R, NEW c, c \in L \cup R, ~(c \in L /\ R = {c + 1})
  PROVE  c \in CountersMerge("delta", L, R)
BY DEF CountersMerge, Succeeds

\* The delta l of the writes a + 1 .. n of r becomes m with its next write, which deletes V.
Extends(g, h, r, n, v, V, l, m, a) ==
  /\ History(g) /\ Continues(g, h)
  /\ n = Len(g[r]) /\ n \in Nat /\ n + 1 \in 1 .. Len(h[r])
  /\ Prefixes(g, v) /\ Closed(g, v) /\ v[r] = n /\ h[r][n + 1].past = v
  /\ Sees(g, v, V) /\ Buffers(g, l, r, a, n)
  /\ \E k \in Key : h[r][n + 1].adds = {k} /\ Alone(m, r, k, n + 1)
  /\ \A t \in Replica :
       m.counters[t] =
         CountersMerge("delta", l.counters[t], V[t] \cup IF t = r THEN {n + 1} ELSE {})

\* What m deletes of t.
Deletes(m, r, n, v, t) ==
  /\ Bare(m, t) = m.counters[t] \ IF t = r THEN {n + 1} ELSE {}
  /\ Bare(m, t) \subseteq 1 .. v[t]

LEMMA ExtendedBare ==
  ASSUME NEW g, NEW h, NEW r \in Replica, NEW n, NEW v, NEW V, NEW l, NEW m, NEW a,
         Extends(g, h, r, n, v, V, l, m, a), NEW t \in Replica
  PROVE  Deletes(m, r, n, v, t)
<1>1. v[t] \in Nat /\ n \in Nat /\ v[r] = n
  BY DEF Extends, Prefixes, History
<1>2. PICK k \in Key : h[r][n + 1].adds = {k} /\ Alone(m, r, k, n + 1)
  BY DEF Extends
<1>3. UNION {m.dots[j][t] : j \in Key} = IF t = r THEN {n + 1} ELSE {}
  <2>1. \A j \in Key : m.dots[j][t] = IF j = k /\ t = r THEN {n + 1} ELSE {}
    BY <1>2 DEF Alone
  <2>2. CASE t = r
    BY <2>1, <2>2
  <2>3. CASE t # r
    BY <2>1, <2>3
  <2> QED
    BY <2>2, <2>3
<1>4. l.counters[t] \subseteq 1 .. v[t]
  <2>1. CASE l.counters[t] = {}
    BY <2>1
  <2>2. CASE Records(g, l, r, a, n)
    <3>1. n \in 1 .. Len(g[r]) /\ n \in 1 .. v[r]
      BY <1>1, <2>2 DEF Records
    <3>2. g[r][n].past[t] \in Nat /\ g[r][n].past[t] <= v[t]
      BY <3>1, WriteOf DEF Extends, Closed, Below
    <3>3. Bare(l, t) \subseteq 1 .. v[t]
      <4>1. Bare(l, t) \subseteq 1 .. g[r][n].past[t]
        BY <2>2 DEF Records
      <4> QED
        BY <1>1, <3>2, <4>1
    <3>4. \A j \in Key : l.dots[j][t] \subseteq 1 .. v[t]
      <4>1. \A j \in Key : l.dots[j][t] \subseteq IF t = r THEN {n} ELSE {}
        BY <2>2 DEF Records
      <4> QED
        BY <1>1, <3>1, <4>1
    <3> QED
      BY <3>3, <3>4 DEF Bare
  <2> QED
    BY <2>1, <2>2 DEF Extends, Buffers
<1>5. Bare(m, t) = m.counters[t] \ (IF t = r THEN {n + 1} ELSE {})
  BY <1>3 DEF Bare
<1>6. Bare(m, t) \subseteq 1 .. v[t]
  <2>1. m.counters[t] \subseteq l.counters[t] \cup V[t] \cup IF t = r THEN {n + 1} ELSE {}
    <3>1. m.counters[t] =
            CountersMerge("delta", l.counters[t], V[t] \cup IF t = r THEN {n + 1} ELSE {})
      BY DEF Extends
    <3> QED
      BY <3>1, CountersMergeSubset
  <2>2. V[t] \subseteq 1 .. v[t]
    BY <1>1 DEF Extends, Sees
  <2> QED
    BY <1>4, <1>5, <2>1, <2>2
<1> QED
  BY <1>5, <1>6 DEF Deletes

LEMMA ExtendedOther ==
  ASSUME NEW g, NEW h, NEW r \in Replica, NEW n, NEW v, NEW V, NEW l, NEW m, NEW a,
         Extends(g, h, r, n, v, V, l, m, a), NEW t \in Replica, t # r,
         NEW u, u = [x \in Replica |-> IF x = r THEN a ELSE v[x]]
  PROVE  Cleared(g, m, u, t)
<1>1. /\ n \in Nat /\ v[r] = n /\ u[r] = a /\ a \in Nat /\ u[t] = v[t]
      /\ \A x \in Replica : v[x] \in Nat /\ u[x] \in Nat
      /\ \A x \in Replica \ {r} : u[x] = v[x]
  BY DEF Extends, Prefixes, History, Buffers
<1>2. /\ Bare(m, t) = m.counters[t]
      /\ m.counters[t] = CountersMerge("delta", l.counters[t], V[t])
      /\ V[t] \subseteq {v[t]} \ {0}
      /\ v[t] = 0 \/ v[t] \in V[t] \/ Overwritten(g, v, t, v[t])
  <2>1. Bare(m, t) = m.counters[t]
    <3>1. Deletes(m, r, n, v, t)
      BY ExtendedBare
    <3> QED
      BY <3>1 DEF Deletes
  <2>2. m.counters[t] = CountersMerge("delta", l.counters[t], V[t])
    BY DEF Extends
  <2>3. Sees(g, v, V)
    BY DEF Extends
  <2> QED
    BY <2>1, <2>2, <2>3 DEF Sees
<1>3. v[t] \in l.counters[t] \cup V[t] => v[t] \in Bare(m, t)
  <2>1. V[t] # {v[t] + 1}
    BY <1>1, <1>2
  <2> QED
    BY <1>2, <2>1, DeltaMergeKeeps
<1>4. CASE v[t] = 0 \/ v[t] \in V[t]
  BY <1>1, <1>3, <1>4 DEF Cleared
<1>5. CASE Overwritten(g, v, t, v[t])
  <2>1. PICK x \in Replica : \E j \in 1 .. v[x] : v[t] <= g[x][j].past[t]
    BY <1>5 DEF Overwritten
  <2>2. PICK j \in 1 .. v[x] : v[t] <= g[x][j].past[t]
    BY <2>1
  <2>3. CASE j \in 1 .. u[x]
    BY <1>1, <2>2, <2>3 DEF Overwritten, Cleared
  <2>4. CASE x = r /\ j \in a + 1 .. n
    <3>1. Records(g, l, r, a, n) /\ n = Len(g[r])
      BY <1>1, <2>4 DEF Extends, Buffers
    <3>2. j \in 1 .. Len(g[r]) /\ n \in 1 .. Len(g[r]) /\ n \in 1 .. v[r] /\ j <= n
      BY <1>1, <2>4, <3>1
    <3>3. g[r][j].past[t] \in Nat /\ g[r][n].past[t] \in Nat
      BY <3>2, WriteOf DEF Extends
    <3>4. g[r][j].past[t] <= g[r][n].past[t]
      BY <3>2 DEF Extends, History, Issues, Below
    <3>5. g[r][n].past[t] <= v[t]
      BY <3>2 DEF Extends, Closed, Below
    <3>6. g[r][n].past[t] = v[t]
      BY <1>1, <2>2, <2>4, <3>3, <3>4, <3>5
    <3> DEFINE b == Base(g, r, a, n)
    <3>7. b[t] = v[t] /\ b[r] = a /\ \A x1 \in Replica \ {r} : b[x1] = g[r][n].past[x1]
      BY <3>6 DEF Base
    <3>8. Cleared(g, l, b, t)
      BY <3>1 DEF Records
    <3>9. Below(b, u) /\ \A x1 \in Replica : b[x1] \in Nat
      <4>1. ASSUME NEW x1 \in Replica
            PROVE  b[x1] <= u[x1] /\ b[x1] \in Nat
        <5>1. g[r][n].past[x1] <= v[x1]
          BY <3>2 DEF Extends, Closed, Below
        <5>2. g[r][n].past[x1] \in Nat
          BY <3>2, WriteOf DEF Extends
        <5> HIDE DEF b
        <5> QED
          BY <1>1, <3>7, <5>1, <5>2
      <4> QED
        BY <4>1 DEF Below
    <3> HIDE DEF b
    <3>10. CASE v[t] = 0
      BY <1>1, <3>10 DEF Cleared
    <3>11. CASE v[t] \in Bare(l, t)
      BY <1>1, <1>3, <3>11 DEF Bare, Cleared
    <3>12. CASE Overwritten(g, b, t, v[t])
      BY <1>1, <3>9, <3>12, OverwrittenLater DEF Cleared
    <3> QED
      BY <3>7, <3>8, <3>10, <3>11, <3>12 DEF Cleared
  <2> QED
    <3>1. x # r => j \in 1 .. u[x]
      BY <1>1
    <3>2. x = r => j \in 1 .. a \/ j \in a + 1 .. n
      BY <1>1
    <3> QED
      BY <1>1, <2>3, <2>4, <3>1, <3>2
<1> QED
  BY <1>2, <1>4, <1>5

LEMMA ExtendedOwn ==
  ASSUME NEW g, NEW h, NEW r \in Replica, NEW n, NEW v, NEW V, NEW l, NEW m, NEW a,
         Extends(g, h, r, n, v, V, l, m, a),
         NEW u, u = [x \in Replica |-> IF x = r THEN a ELSE v[x]]
  PROVE  Cleared(g, m, u, r)
<1>1. /\ n \in Nat /\ v[r] = n /\ u[r] = a /\ a \in Nat /\ a <= n
      /\ \A x \in Replica : v[x] \in Nat /\ u[x] \in Nat
      /\ \A x \in Replica \ {r} : u[x] = v[x]
  BY DEF Extends, Prefixes, History, Buffers, Records
<1>2. /\ Bare(m, r) = m.counters[r] \ {n + 1}
      /\ m.counters[r] = CountersMerge("delta", l.counters[r], V[r] \cup {n + 1})
      /\ V[r] \subseteq {n} \ {0}
      /\ n = 0 \/ n \in V[r] \/ Overwritten(g, v, r, n)
  <2>1. Bare(m, r) = m.counters[r] \ {n + 1}
    <3>1. Deletes(m, r, n, v, r)
      BY ExtendedBare
    <3> QED
      BY <3>1 DEF Deletes
  <2>2. m.counters[r] = CountersMerge("delta", l.counters[r], V[r] \cup {n + 1})
    BY DEF Extends
  <2>3. Sees(g, v, V)
    BY DEF Extends
  <2>4. V[r] \subseteq {v[r]} \ {0} /\ (v[r] = 0 \/ v[r] \in V[r] \/ Overwritten(g, v, r, v[r]))
    BY <2>3 DEF Sees
  <2> QED
    BY <1>1, <2>1, <2>2, <2>4
<1>3. CASE a = n /\ l.counters[r] = {}
  <2>1. CASE n = 0
    BY <1>1, <1>3, <2>1 DEF Cleared
  <2>2. CASE n \in V[r]
    <3>1. n \in m.counters[r]
      BY <1>2, <1>3, <2>2, DeltaMergeKeeps
    <3> QED
      BY <1>1, <1>2, <1>3, <3>1 DEF Cleared
  <2>3. CASE Overwritten(g, v, r, n)
    <3>1. \A x \in Replica : u[x] = v[x]
      BY <1>1, <1>3
    <3> QED
      BY <1>1, <1>3, <2>3, <3>1 DEF Cleared, Overwritten
  <2> QED
    BY <1>2, <2>1, <2>2, <2>3
<1>4. CASE Records(g, l, r, a, n)
  <2> DEFINE b == Base(g, r, a, n)
  <2>1. a < n /\ n \in 1 .. Len(g[r]) /\ n \in 1 .. v[r]
    BY <1>1, <1>4 DEF Records
  <2>2. b[r] = a /\ \A x \in Replica \ {r} : b[x] = g[r][n].past[x]
    BY DEF Base
  <2>3. Cleared(g, l, b, r)
    BY <1>4 DEF Records
  <2>4. Below(b, u) /\ \A x \in Replica : b[x] \in Nat
    <3>1. ASSUME NEW x \in Replica
          PROVE  b[x] <= u[x] /\ b[x] \in Nat
      <4>1. g[r][n].past[x] <= v[x]
        BY <2>1 DEF Extends, Closed, Below
      <4>2. g[r][n].past[x] \in Nat
        BY <2>1, WriteOf DEF Extends
      <4> HIDE DEF b
      <4> QED
        BY <1>1, <2>2, <4>1, <4>2
    <3> QED
      BY <3>1 DEF Below
  <2> HIDE DEF b
  <2>5. CASE a = 0
    BY <1>1, <2>5 DEF Cleared
  <2>6. CASE a \in Bare(l, r)
    <3>1. V[r] \cup {n + 1} # {a + 1} /\ a # n + 1
      <4>1. n + 1 # a + 1 /\ a # n + 1
        BY <1>1, <2>1
      <4> QED
        BY <4>1
    <3>2. a \in m.counters[r]
      BY <1>2, <2>6, <3>1, DeltaMergeKeeps DEF Bare
    <3> QED
      BY <1>1, <1>2, <3>1, <3>2 DEF Cleared
  <2>7. CASE Overwritten(g, b, r, a)
    BY <1>1, <2>4, <2>7, OverwrittenLater DEF Cleared
  <2> QED
    BY <2>2, <2>3, <2>5, <2>6, <2>7 DEF Cleared
<1> QED
  BY <1>1, <1>3, <1>4 DEF Extends, Buffers

\* The accumulated delta after one more write.
LEMMA RecordsExtended ==
  ASSUME NEW g, NEW h, NEW r \in Replica, NEW n, NEW v, NEW V, NEW l, NEW m, NEW a,
         Extends(g, h, r, n, v, V, l, m, a)
  PROVE  Records(h, m, r, a, n + 1)
<1>0. PICK u : u = [x \in Replica |-> IF x = r THEN a ELSE v[x]]
  OBVIOUS
<1>1. /\ n \in Nat /\ v[r] = n /\ a \in Nat /\ a <= n /\ n + 1 \in 1 .. Len(h[r])
      /\ h[r][n + 1].past = v
  BY DEF Extends, Buffers, Records
<1>2. \A t \in Replica : Cleared(g, m, u, t)
  BY <1>0, ExtendedOwn, ExtendedOther
<1>3. Prefixes(g, u)
  <2>1. Prefixes(g, v) /\ n = Len(g[r])
    BY DEF Extends
  <2> QED
    BY <1>0, <1>1, <2>1 DEF Prefixes
<1>4. Base(h, r, a, n + 1) = u
  BY <1>0, <1>1 DEF Base
<1>5. ASSUME NEW t \in Replica
      PROVE  Cleared(h, m, u, t)
  <2>1. Cleared(g, m, u, t)
    BY <1>2
  <2>2. Overwritten(h, u, t, u[t]) <=> Overwritten(g, u, t, u[t])
    BY <1>3, SameOverwritten DEF Extends
  <2> QED
    BY <2>1, <2>2 DEF Cleared
<1>6. \A k \in Key : \A t \in Replica :
        m.dots[k][t] = IF t = r /\ k \in h[r][n + 1].adds THEN {n + 1} ELSE {}
  BY DEF Extends, Alone
<1>7. ASSUME NEW t \in Replica
      PROVE  Bare(m, t) \subseteq 1 .. h[r][n + 1].past[t]
  <2>1. Bare(m, t) \subseteq 1 .. v[t]
    <3>1. Deletes(m, r, n, v, t)
      BY ExtendedBare
    <3> QED
      BY <3>1 DEF Deletes
  <2> QED
    BY <1>1, <2>1
<1>8. a < n + 1
  BY <1>1
<1> QED
  BY <1>1, <1>4, <1>5, <1>6, <1>7, <1>8 DEF Records

-----------------------------------------------------------------------------
(* The invariant.                                                          *)

\* The delta of the i-th extraction of s, and what the transport noted with it: what its
\* last write observed has reached a replica that has merged the deltas noted.
Delivers(s, i) ==
  /\ Records(log, sent[s][i].delta, s, Upto(s, i - 1), Upto(s, i))
  /\ \A t \in Replica \ {s} :
       /\ sent[s][i].deps[t] <= Len(sent[t])
       /\ log[s][Upto(s, i)].past[t] <= Upto(t, sent[s][i].deps[t])

\* Every write of s is a dot; those not extracted are in the hook.
Tracked(s) ==
  /\ Len(log[s]) = Len(inserted[s])
  /\ hook[s] = EmptyKernel => Last(s) = Len(inserted[s])
  /\ hook[s] # EmptyKernel => Records(log, hook[s], s, Last(s), Len(inserted[s]))
  /\ \A i \in 1 .. Len(sent[s]) : Delivers(s, i)

\* The state of r holds the dots of the writes that still stand.
Exact(r) ==
  /\ Prefixes(log, Seen(r)) /\ Closed(log, Seen(r))
  /\ \A k \in Key : \A t \in Replica : state[r].dots[k][t] = Standing(log, Seen(r), k, t)

LogOk == log \in [Replica -> Seq(Abstract!Update)]

MInv ==
  /\ LInv /\ LogOk /\ History(log)
  /\ \A s \in Replica : Tracked(s) /\ Exact(s)

LEMMA Lengths ==
  ASSUME MInv, NEW s \in Replica
  PROVE  /\ Len(log[s]) \in Nat /\ Len(log[s]) = Len(inserted[s]) /\ Len(sent[s]) \in Nat
         /\ Last(s) \in Nat /\ Last(s) <= Len(log[s])
<1>1. Len(log[s]) = Len(inserted[s])
  BY DEF MInv, Tracked
<1>2. Len(inserted[s]) \in Nat /\ Len(sent[s]) \in Nat
  BY DEF MInv, LInv, IInv, TypeOK
<1>3. LInv /\ 0 \in 0 .. Len(sent[s])
  BY <1>2 DEF MInv
<1>4. Last(s) \in Nat /\ Last(s) <= Len(inserted[s])
  BY <1>3, UptoOrder
<1> QED
  BY <1>1, <1>2, <1>4

LEMMA SeenPrefixes ==
  ASSUME MInv, NEW r \in Replica
  PROVE  /\ Prefixes(log, Seen(r)) /\ Seen(r) \in [Replica -> Nat]
         /\ Seen(r)[r] = Len(log[r])
<1>1. ASSUME NEW s \in Replica
      PROVE  Seen(r)[s] = Reached(r, s) /\ Reached(r, s) \in 0 .. Len(log[s])
  <2>1. Reached(r, s) \in 0 .. Len(inserted[s])
    BY ReachedFacts DEF MInv
  <2> QED
    BY <2>1, Lengths DEF Seen
<1>2. \A s \in Replica : Reached(r, s) \in Nat
  BY <1>1, Lengths
<1>3. Seen(r) \in [Replica -> Nat]
  BY <1>2 DEF Seen
<1>4. Seen(r)[r] = Len(log[r])
  BY <1>1, Lengths DEF Reached
<1> QED
  BY <1>1, <1>3, <1>4 DEF Prefixes

LEMMA SeenOthers ==
  ASSUME MInv, NEW r \in Replica, NEW s \in Replica, r # s
  PROVE  Seen(r)[s] = Upto(s, got[r][s]) /\ got[r][s] \in 0 .. Len(sent[s])
<1>1. LInv /\ got[r][s] \in Nat /\ Len(sent[s]) \in Nat /\ got[r][s] <= Len(sent[s])
  <2>1. LInv
    BY DEF MInv
  <2>2. TypeOK /\ StateOk(r)
    BY <2>1 DEF LInv, IInv
  <2>3. got[r][s] <= Len(sent[s])
    BY <2>2 DEF StateOk
  <2> QED
    BY <2>1, <2>2, <2>3 DEF TypeOK
<1>2. Reached(r, s) = Upto(s, got[r][s])
  BY <1>1, ReachedFacts
<1> QED
  BY <1>1, <1>2 DEF Seen

-----------------------------------------------------------------------------
(* Writes.                                                                 *)

\* The log with the write u as the n+1st of r.
Appended(r, u, n) ==
  /\ n \in Nat /\ n = Len(log[r]) /\ Len(log'[r]) = n + 1 /\ log'[r][n + 1] = u
  /\ \A i \in 1 .. n : log'[r][i] = log[r][i]
  /\ \A s \in Replica \ {r} : log'[s] = log[s]
  /\ LogOk' /\ Continues(log, log')

LEMMA AppendedLog ==
  ASSUME MInv, NEW r \in Replica, NEW u \in Abstract!Update, NEW n, n = Len(log[r]),
         log' = [log EXCEPT ![r] = Append(@, u)]
  PROVE  Appended(r, u, n)
<1>1. n \in Nat
  BY Lengths
<1>2. log \in [Replica -> Seq(Abstract!Update)]
  BY DEF MInv, LogOk
<1> DEFINE U == Abstract!Update
           w == log[r]
<1>3. w \in Seq(U) /\ u \in U /\ log'[r] = Append(w, u)
  BY <1>2
<1>4. LogOk'
  BY <1>2 DEF LogOk
<1>5. \A s \in Replica \ {r} : log'[s] = log[s]
  BY <1>2
<1> HIDE DEF w, U
<1>6. Len(w) = n
  BY DEF w
<1>7. /\ Len(log'[r]) = n + 1 /\ log'[r][n + 1] = u
      /\ \A i \in 1 .. n : log'[r][i] = w[i]
  BY <1>1, <1>3, <1>6
<1>8. Continues(log, log')
  <2> SUFFICES ASSUME NEW s \in Replica
               PROVE  /\ Len(log[s]) \in Nat /\ Len(log'[s]) \in Nat /\ Len(log[s]) <= Len(log'[s])
                      /\ \A i \in 1 .. Len(log[s]) : log'[s][i] = log[s][i]
    BY DEF Continues
  <2>1. CASE s = r
    BY <1>1, <1>7, <2>1 DEF w
  <2>2. CASE s # r
    BY <1>5, <2>2, Lengths
  <2> QED
    BY <2>1, <2>2
<1> QED
  BY <1>1, <1>4, <1>5, <1>7, <1>8 DEF Appended, w

LEMMA AppendedHistory ==
  ASSUME MInv, NEW r \in Replica, NEW u, NEW n, Appended(r, u, n),
         u.past = Seen(r), u.removes = state[r].keys, NEW k \in Key, u.adds = {k},
         state[r].keys = Abstract!Value(log, Seen(r))
  PROVE  History(log')
<1>1. /\ n \in Nat /\ n = Len(log[r]) /\ Len(log'[r]) = n + 1 /\ log'[r][n + 1] = u
      /\ \A i \in 1 .. n : log'[r][i] = log[r][i]
      /\ \A s \in Replica \ {r} : log'[s] = log[s]
      /\ Continues(log, log')
  BY DEF Appended
<1>2. History(log) /\ Closed(log, Seen(r))
  BY DEF MInv, Exact
<1>3. Prefixes(log, Seen(r)) /\ Seen(r) \in [Replica -> Nat] /\ Seen(r)[r] = n
  BY <1>1, SeenPrefixes
<1>4. ASSUME NEW s \in Replica, NEW i \in 1 .. Len(log'[s])
      PROVE  \/ i \in 1 .. Len(log[s]) /\ log'[s][i] = log[s][i]
             \/ s = r /\ i = n + 1
  BY <1>1
<1>5. ASSUME NEW s \in Replica, NEW i \in 1 .. Len(log'[s])
      PROVE  /\ \E x \in Key : log'[s][i].adds = {x}
             /\ log'[s][i].removes = Abstract!Value(log', log'[s][i].past)
             /\ Prefixes(log', log'[s][i].past) /\ log'[s][i].past[s] = i - 1
  <2>1. CASE i \in 1 .. Len(log[s]) /\ log'[s][i] = log[s][i]
    <3>1. /\ \E x \in Key : log[s][i].adds = {x}
          /\ log[s][i].removes = Abstract!Value(log, log[s][i].past)
          /\ Prefixes(log, log[s][i].past) /\ log[s][i].past[s] = i - 1
      BY <1>2, <2>1, WriteOf
    <3>2. /\ Prefixes(log', log[s][i].past)
          /\ Abstract!Value(log', log[s][i].past) = Abstract!Value(log, log[s][i].past)
      BY <1>1, <3>1, SameWrites, SameValue
    <3> QED
      BY <2>1, <3>1, <3>2
  <2>2. CASE s = r /\ i = n + 1
    <3>1. log'[s][i] = u
      BY <1>1, <2>2
    <3>2. /\ Prefixes(log', Seen(r))
          /\ Abstract!Value(log', Seen(r)) = Abstract!Value(log, Seen(r))
      BY <1>1, <1>3, SameWrites, SameValue
    <3>3. log'[s][i].past[s] = i - 1
      BY <1>1, <1>3, <2>2, <3>1
    <3> QED
      BY <3>1, <3>2, <3>3
  <2> QED
    BY <1>4, <2>1, <2>2
<1>6. ASSUME NEW s \in Replica, NEW i \in 1 .. Len(log'[s]), NEW j \in 1 .. Len(log'[s]), i <= j
      PROVE  Below(log'[s][i].past, log'[s][j].past)
  <2>1. CASE j \in 1 .. Len(log[s]) /\ log'[s][j] = log[s][j]
    <3>1. i \in 1 .. Len(log[s])
      BY <1>6, <2>1
    <3>2. log'[s][i] = log[s][i]
      BY <1>1, <3>1 DEF Continues
    <3> QED
      BY <1>2, <1>6, <2>1, <3>1, <3>2 DEF History, Issues
  <2>2. CASE s = r /\ j = n + 1
    <3>1. log'[s][j].past = Seen(r)
      BY <1>1, <2>2
    <3>2. CASE i = n + 1
      BY <1>3, <2>2, <3>1, <3>2 DEF Below
    <3>3. CASE i \in 1 .. n
      <4>1. log'[s][i] = log[r][i] /\ i \in 1 .. Seen(r)[r]
        BY <1>1, <1>3, <2>2, <3>3
      <4> QED
        BY <1>2, <3>1, <4>1 DEF Closed
    <3> QED
      BY <1>1, <2>2, <3>2, <3>3
  <2> QED
    BY <1>4, <2>1, <2>2
<1>7. \A s \in Replica : Len(log'[s]) \in Nat
  BY <1>1 DEF Continues
<1> QED
  BY <1>5, <1>6, <1>7 DEF History, Issues

\* A replica holds the dots of the writes that stand, and of no other.
LEMMA HeldStands ==
  ASSUME MInv, NEW r \in Replica
  PROVE  Sees(log, Seen(r), DotsOf(r, state[r].keys))
<1> DEFINE v == Seen(r)
           V == DotsOf(r, state[r].keys)
<1>1. \A k \in Key : \A t \in Replica : state[r].dots[k][t] = Standing(log, v, k, t)
  BY DEF MInv, Exact
<1>2. Prefixes(log, v) /\ History(log)
  BY SeenPrefixes DEF MInv
<1>3. \A k \in Key : k \in state[r].keys <=> \E t \in Replica : state[r].dots[k][t] # {}
  BY StateKeys DEF MInv
<1>4. state[r].keys \subseteq Key
  BY StateKeys DEF MInv
<1>5. \A t \in Replica : V[t] = UNION {state[r].dots[k][t] : k \in state[r].keys}
  BY DEF DotsOf
<1> HIDE DEF v, V
<1>6. ASSUME NEW t \in Replica
      PROVE  V[t] \subseteq {v[t]} \ {0}
  <2>1. \A k \in Key : state[r].dots[k][t] \subseteq {v[t]} \ {0}
    BY <1>1 DEF Standing
  <2> QED
    BY <1>4, <1>5, <2>1
<1>7. ASSUME NEW t \in Replica, v[t] # 0, ~Overwritten(log, v, t, v[t])
      PROVE  v[t] \in V[t]
  <2>1. v[t] \in 1 .. Len(log[t])
    BY <1>2, <1>7 DEF Prefixes, History
  <2>2. PICK k \in Key : log[t][v[t]].adds = {k}
    BY <1>2, <2>1, WriteOf
  <2>3. v[t] \in Standing(log, v, k, t)
    BY <1>7, <2>2 DEF Standing
  <2>4. v[t] \in state[r].dots[k][t]
    BY <1>1, <2>3
  <2>5. k \in state[r].keys
    BY <1>3, <2>4
  <2> QED
    BY <1>5, <2>4, <2>5
<1>8. Sees(log, v, V)
  BY <1>6, <1>7 DEF Sees
<1> QED
  BY <1>8 DEF v, V

\* What a reader of a kernel with the standing dots sees.
LEMMA ContentIs ==
  ASSUME NEW l \in Kernel, Linked(l), NEW g, History(g), NEW v, Prefixes(g, v), Closed(g, v),
         \A k \in Key : \A t \in Replica : l.dots[k][t] = Standing(g, v, k, t)
  PROVE  l.keys = Abstract!Value(g, v)
<1>1. l.keys \subseteq Key /\ Abstract!Value(g, v) \subseteq Key
  BY KeysHaveDots DEF Abstract!Value
<1>2. ASSUME NEW k \in Key
      PROVE  k \in l.keys <=> k \in Abstract!Value(g, v)
  <2>1. k \in l.keys <=> \E t \in Replica : Standing(g, v, k, t) # {}
    BY KeysHaveDots
  <2> QED
    BY <2>1, ValueStands
<1> QED
  BY <1>1, <1>2

LEMMA ContentNow ==
  ASSUME MInv, NEW r \in Replica
  PROVE  state[r].keys = Abstract!Value(log, Seen(r))
<1>1. state[r] \in Kernel /\ Linked(state[r])
  BY DEF MInv, LInv, IInv, TypeOK, StateOk
<1>2. /\ History(log) /\ Prefixes(log, Seen(r)) /\ Closed(log, Seen(r))
      /\ \A k \in Key : \A t \in Replica : state[r].dots[k][t] = Standing(log, Seen(r), k, t)
  BY SeenPrefixes DEF MInv, Exact
<1> QED
  BY <1>1, <1>2, ContentIs

\* What is extracted says the same of a longer log.
LEMMA SameDelivers ==
  ASSUME MInv, Continues(log, log'), sent' = sent, NEW s \in Replica, NEW i \in 1 .. Len(sent[s])
  PROVE  Delivers(s, i)'
<1>1. Delivers(s, i) /\ History(log)
  BY DEF MInv, Tracked
<1>2. Upto(s, i - 1)' = Upto(s, i - 1) /\ \A t, j : Upto(t, j)' = Upto(t, j)
  BY DEF Upto
<1>3. Records(log, sent[s][i].delta, s, Upto(s, i - 1), Upto(s, i))
  BY <1>1 DEF Delivers
<1>4. Records(log', sent[s][i].delta, s, Upto(s, i - 1), Upto(s, i))
  BY <1>1, <1>3, SameRecords
<1>5. log'[s][Upto(s, i)] = log[s][Upto(s, i)]
  BY <1>3 DEF Records, Continues
<1> QED
  BY <1>1, <1>2, <1>4, <1>5 DEF Delivers

\* A replica that does not step, when the log grows.
LEMMA SameExact ==
  ASSUME MInv, Continues(log, log'), NEW s \in Replica, state'[s] = state[s], Seen(s)' = Seen(s)
  PROVE  Exact(s)'
<1>1. Closed(log, Seen(s)) /\ Prefixes(log, Seen(s))
  BY SeenPrefixes DEF MInv, Exact
<1>2. Prefixes(log', Seen(s)) /\ Closed(log', Seen(s))
  BY <1>1, SameWrites, SameClosed
<1>3. \A k \in Key : \A t \in Replica :
        Standing(log', Seen(s), k, t) = Standing(log, Seen(s), k, t)
  BY <1>1, SameStanding
<1>4. \A k \in Key : \A t \in Replica : state[s].dots[k][t] = Standing(log, Seen(s), k, t)
  BY DEF MInv, Exact
<1> QED
  BY <1>2, <1>3, <1>4 DEF Exact

\* The hook before a write.
LEMMA HookBuffers ==
  ASSUME MInv, NEW r \in Replica, NEW n, n = Len(log[r])
  PROVE  Buffers(log, hook[r], r, Last(r), n)
<1>1. n \in Nat /\ Last(r) \in Nat /\ n = Len(inserted[r]) /\ Tracked(r)
  BY Lengths DEF MInv
<1>2. hook[r] = EmptyKernel => \A t \in Replica : hook[r].counters[t] = {}
  BY DEF EmptyKernel, NoDots
<1> QED
  BY <1>1, <1>2 DEF Tracked, Buffers

LEMMA MvWritten ==
  ASSUME MInv, NEW r \in Replica, NEW v \in Key, Set(r, v)
  PROVE  MInv'
<1>a. PICK n : n = Len(log[r])
  OBVIOUS
<1>b. PICK u : u = [adds |-> {v}, removes |-> state[r].keys, past |-> Seen(r)]
  OBVIOUS
<1>c. PICK V : V = DotsOf(r, state[r].keys)
  OBVIOUS
<1>0. LInv /\ n \in Nat /\ n = Len(inserted[r]) /\ History(log)
  BY <1>a, Lengths DEF MInv
<1>1. /\ LInv'
      /\ sent' = sent /\ got' = got
      /\ inserted' = [inserted EXCEPT ![r] = Append(@, v)]
      /\ \A s \in Replica \ {r} : state'[s] = state[s] /\ hook'[s] = hook[s]
      /\ Alone(state'[r], r, v, n + 1) /\ Alone(hook'[r], r, v, n + 1)
  BY <1>0, SetEffect
<1>2. \A s \in Replica :
        hook'[r].counters[s] =
          CountersMerge("delta", hook[r].counters[s], V[s] \cup IF s = r THEN {n + 1} ELSE {})
  <2>1. HookGains(r, n)
    BY <1>0, SetEffect
  <2> QED
    BY <1>c, <2>1 DEF HookGains
<1>3. state[r].keys = Abstract!Value(log, Seen(r)) /\ state[r].keys \subseteq Key
  BY <1>0, ContentNow, StateKeys
<1>4. Appended(r, u, n)
  <2>1. Seen(r) \in [Replica -> Nat]
    BY SeenPrefixes
  <2>2. u \in Abstract!Update
    BY <1>3, <1>b, <2>1 DEF Abstract!Update
  <2>3. log' = [log EXCEPT ![r] = Append(@, u)]
    BY <1>b DEF Set
  <2> QED
    BY <1>a, <2>2, <2>3, AppendedLog
<1>5. /\ Len(log'[r]) = n + 1 /\ log'[r][n + 1] = u
      /\ \A s \in Replica \ {r} : log'[s] = log[s]
      /\ LogOk' /\ Continues(log, log')
  BY <1>4 DEF Appended
<1>6. u.past = Seen(r) /\ u.removes = state[r].keys /\ u.adds = {v}
  BY <1>b
<1>7. History(log')
  BY <1>3, <1>4, <1>6, AppendedHistory
<1>8. /\ Len(inserted'[r]) = n + 1
      /\ \A s \in Replica \ {r} : inserted'[s] = inserted[s]
  <2>1. inserted \in [Replica -> Seq(Key)]
    BY <1>0 DEF LInv, IInv, TypeOK
  <2> DEFINE w == inserted[r]
  <2>2. w \in Seq(Key) /\ inserted'[r] = Append(w, v) /\ Len(w) = n
    BY <1>0, <1>1, <2>1
  <2> HIDE DEF w
  <2>3. Len(inserted'[r]) = n + 1
    BY <2>2
  <2> QED
    BY <1>1, <2>1, <2>3
<1>9. /\ Seen(r)'[r] = n + 1
      /\ \A t \in Replica \ {r} : Seen(r)'[t] = Seen(r)[t]
      /\ \A s \in Replica \ {r} : Seen(s)' = Seen(s)
      /\ Seen(r)[r] = n
  <2>1. \A s, t \in Replica : s # t => Reached(s, t)' = Reached(s, t)
    BY <1>1 DEF Reached
  <2>2. \A s \in Replica \ {r} : Reached(s, s)' = Reached(s, s)
    BY <1>8 DEF Reached
  <2>3. Reached(r, r)' = n + 1 /\ Reached(r, r) = n
    BY <1>0, <1>8 DEF Reached
  <2> QED
    BY <2>1, <2>2, <2>3 DEF Seen
<1>10. Prefixes(log, Seen(r)) /\ Closed(log, Seen(r))
  BY SeenPrefixes DEF MInv, Exact
<1>11. Applies(log', Seen(r), r, n + 1, Seen(r)')
  <2>1. Prefixes(log', Seen(r)) /\ Closed(log', Seen(r))
    BY <1>5, <1>10, SameWrites, SameClosed
  <2>2. Prefixes(log', Seen(r)')
    <3> SUFFICES ASSUME NEW t \in Replica
                 PROVE  Seen(r)'[t] \in 0 .. Len(log'[t])
      BY DEF Prefixes
    <3>1. CASE t = r
      BY <1>0, <1>5, <1>9, <3>1
    <3>2. CASE t # r
      BY <1>9, <2>1, <3>2 DEF Prefixes
    <3> QED
      BY <3>1, <3>2
  <2>3. \A t \in Replica \ {r} :
          Seen(r)'[t] = Seen(r)[t] /\ log'[r][n + 1].past[t] <= Seen(r)[t]
    <3>1. \A t \in Replica : Seen(r)[t] \in Nat
      BY SeenPrefixes
    <3> QED
      BY <1>5, <1>6, <1>9, <3>1
  <2> QED
    BY <1>0, <1>9, <2>1, <2>2, <2>3 DEF Applies
<1>12. Exact(r)'
  <2>1. Prefixes(log', Seen(r)') /\ Closed(log', Seen(r)')
    BY <1>7, <1>11, ClosedApplied DEF Applies
  <2>2. ASSUME NEW k \in Key, NEW t \in Replica
        PROVE  state'[r].dots[k][t] = Standing(log', Seen(r)', k, t)
    <3>1. CASE t = r
      <4>1. Standing(log', Seen(r)', k, t) = IF k \in log'[r][n + 1].adds THEN {n + 1} ELSE {}
        BY <1>7, <1>11, <3>1, StandingApplied
      <4> QED
        BY <1>1, <1>5, <1>6, <3>1, <4>1 DEF Alone
    <3>2. CASE t # r
      <4>1. Seen(r)[t] <= log'[r][n + 1].past[t]
        BY <1>5, <1>6, SeenPrefixes
      <4>2. Standing(log', Seen(r)', k, t) = {}
        BY <1>7, <1>11, <3>2, <4>1, StandingApplied
      <4> QED
        BY <1>1, <3>2, <4>2 DEF Alone
    <3> QED
      BY <3>1, <3>2
  <2> QED
    BY <2>1, <2>2 DEF Exact
<1>13. \A s \in Replica \ {r} : Exact(s)'
  BY <1>1, <1>5, <1>9, SameExact
<1>14. /\ \A s, i : Upto(s, i)' = Upto(s, i)
       /\ \A s : Last(s)' = Last(s)
  BY <1>1 DEF Upto, Last
<1>15. \A s \in Replica : \A i \in 1 .. Len(sent[s]) : Delivers(s, i)'
  BY <1>1, <1>5, SameDelivers
<1>16. hook'[r] # EmptyKernel
  <2>1. hook'[r].dots[v][r] = {n + 1}
    BY <1>1 DEF Alone
  <2>2. EmptyKernel.dots[v][r] = {}
    BY DEF EmptyKernel, NoDots
  <2> QED
    BY <2>1, <2>2
<1>17. Records(log', hook'[r], r, Last(r), n + 1)
  <2>1. Sees(log, Seen(r), V) /\ Buffers(log, hook[r], r, Last(r), n)
    BY <1>a, <1>c, HeldStands, HookBuffers
  <2>2. n + 1 \in 1 .. Len(log'[r]) /\ log'[r][n + 1].past = Seen(r)
    BY <1>0, <1>5, <1>6
  <2>3. \E k \in Key : log'[r][n + 1].adds = {k} /\ Alone(hook'[r], r, k, n + 1)
    BY <1>1, <1>5, <1>6
  <2>4. Extends(log, log', r, n, Seen(r), V, hook[r], hook'[r], Last(r))
    BY <1>0, <1>2, <1>5, <1>9, <1>10, <1>a, <2>1, <2>2, <2>3 DEF Extends
  <2> QED
    BY <2>4, RecordsExtended
<1>18. Tracked(r)'
  BY <1>1, <1>5, <1>8, <1>14, <1>15, <1>16, <1>17 DEF Tracked
<1>19. ASSUME NEW s \in Replica \ {r}
       PROVE  Tracked(s)'
  <2>1. Tracked(s)
    BY DEF MInv
  <2>2. hook[s] # EmptyKernel => Records(log', hook[s], s, Last(s), Len(inserted[s]))
    <3> SUFFICES ASSUME hook[s] # EmptyKernel
                 PROVE  Records(log', hook[s], s, Last(s), Len(inserted[s]))
      OBVIOUS
    <3>1. Records(log, hook[s], s, Last(s), Len(inserted[s]))
      BY <2>1 DEF Tracked
    <3> QED
      BY <1>0, <1>5, <3>1, SameRecords
  <2>3. hook'[s] = hook[s] /\ inserted'[s] = inserted[s] /\ log'[s] = log[s] /\ Last(s)' = Last(s)
    BY <1>1, <1>5, <1>8, <1>14
  <2> QED
    BY <1>1, <1>15, <2>1, <2>2, <2>3 DEF Tracked
<1> QED
  BY <1>1, <1>5, <1>7, <1>12, <1>13, <1>18, <1>19 DEF MInv

-----------------------------------------------------------------------------
(* Extractions.                                                            *)

LEMMA RecordsMarks ==
  ASSUME NEW g, NEW l, NEW d, SameMarks(d, l), NEW s \in Replica, NEW a, NEW b,
         Records(g, l, s, a, b)
  PROVE  Records(g, d, s, a, b)
<1>1. \A t \in Replica : Bare(d, t) = Bare(l, t)
  BY SameBare
<1>2. \A k \in Key : \A t \in Replica : d.dots[k][t] = l.dots[k][t]
  BY DEF SameMarks
<1>3. \A t \in Replica : Cleared(g, d, Base(g, s, a, b), t)
  BY <1>1 DEF Records, Cleared
<1> QED
  BY <1>1, <1>2, <1>3 DEF Records

\* An extraction is seen by no reader.
LEMMA ExtractUnseen ==
  ASSUME MInv, NEW r \in Replica, MvExtract(r)
  PROVE  state' = state /\ \A s \in Replica : Seen(s)' = Seen(s)
<1>0. LInv /\ Extract(r)
  BY DEF MInv, MvExtract
<1>a. PICK N \in Nat : N = Len(sent[r])
  BY Lengths
<1>1. /\ state' = state /\ got' = got /\ inserted' = inserted
      /\ \A s \in Replica : \A i \in 0 .. Len(sent[s]) : Upto(s, i)' = Upto(s, i)
  BY <1>0, <1>a, ExtractEffect
<1>2. ASSUME NEW s \in Replica, NEW t \in Replica
      PROVE  Reached(s, t)' = Reached(s, t)
  <2>1. CASE s = t
    BY <1>1, <2>1 DEF Reached
  <2>2. CASE s # t
    <3>1. got[s][t] \in 0 .. Len(sent[t])
      BY <2>2, SeenOthers
    <3>2. Upto(t, got[s][t])' = Upto(t, got[s][t])
      BY <1>1, <3>1
    <3> QED
      BY <1>1, <2>2, <3>2 DEF Reached, Upto
  <2> QED
    BY <2>1, <2>2
<1> QED
  BY <1>1, <1>2 DEF Seen

LEMMA MvExtracted ==
  ASSUME MInv, Causal, NEW r \in Replica, MvExtract(r)
  PROVE  MInv'
<1>0. LInv /\ LInv' /\ Extract(r) /\ log' = log /\ History(log)
  BY LinkExtract DEF MInv, MvExtract
<1>a. PICK N \in Nat : N = Len(sent[r])
  BY Lengths
<1>b. PICK d : d = sent'[r][N + 1].delta
  OBVIOUS
<1>c. PICK n \in Nat : n = Len(inserted[r]) /\ n = Len(log[r])
  BY Lengths
<1>1. /\ hook' = [hook EXCEPT ![r] = EmptyKernel]
      /\ state' = state /\ got' = got /\ inserted' = inserted
      /\ Len(sent'[r]) = N + 1
      /\ \A s \in Replica \ {r} : sent'[s] = sent[s] /\ Last(s)' = Last(s)
  BY <1>0, <1>a, ExtractEffect
<1>2. /\ \A s \in Replica : \A i \in 1 .. Len(sent[s]) : sent'[s][i] = sent[s][i]
      /\ \A s \in Replica : \A i \in 0 .. Len(sent[s]) : Upto(s, i)' = Upto(s, i)
  BY <1>0, <1>a, ExtractEffect
<1>3. Upto(r, N + 1)' = n /\ Last(r)' = n /\ SameMarks(d, hook[r])
  BY <1>0, <1>a, <1>b, <1>c, ExtractEffect
<1>4. sent'[r][N + 1].deps = got[r]
  BY <1>0, <1>a, NotesWhatItSaw
<1>5. hook[r] # EmptyKernel /\ Tracked(r)
  BY <1>0 DEF Extract, MInv
<1>6. Upto(r, N)' = Last(r)
  BY <1>2, <1>a DEF Last
<1>7. Records(log, d, r, Upto(r, N)', Upto(r, N + 1)')
  <2>1. Records(log, hook[r], r, Last(r), n)
    BY <1>5, <1>c DEF Tracked
  <2> QED
    BY <1>3, <1>6, <2>1, RecordsMarks
<1>8. \A s \in Replica : Len(sent[s]) \in Nat /\ Len(sent'[s]) \in Nat /\ Len(sent[s]) <= Len(sent'[s])
  BY <1>1, <1>a, Lengths
<1>9. Delivers(r, N + 1)'
  <2>1. ASSUME NEW t \in Replica \ {r}
        PROVE  /\ got[r][t] <= Len(sent[t])
               /\ log[r][n].past[t] <= Upto(t, got[r][t])'
    <3>1. Seen(r)[t] = Upto(t, got[r][t]) /\ got[r][t] \in 0 .. Len(sent[t])
      BY SeenOthers
    <3>2. Upto(t, got[r][t])' = Upto(t, got[r][t])
      BY <1>1, <1>2, <3>1
    <3>3. n \in 1 .. Seen(r)[r]
      <4>1. n \in 1 .. Len(log[r])
        BY <1>3, <1>7 DEF Records
      <4> QED
        BY <4>1, SeenPrefixes
    <3>4. log[r][n].past[t] <= Seen(r)[t]
      BY <3>3 DEF MInv, Exact, Closed, Below
    <3> QED
      BY <1>8, <3>1, <3>2, <3>4
  <2>2. (N + 1) - 1 = N
    OBVIOUS
  <2> QED
    BY <1>0, <1>1, <1>3, <1>4, <1>7, <1>b, <2>1, <2>2 DEF Delivers
<1>10. ASSUME NEW s \in Replica, NEW i \in 1 .. Len(sent[s])
       PROVE  Delivers(s, i)'
  <2>1. Delivers(s, i)
    BY DEF MInv, Tracked
  <2>2. i - 1 \in 0 .. Len(sent[s]) /\ i \in 0 .. Len(sent[s])
    BY <1>8
  <2>3. Upto(s, i - 1)' = Upto(s, i - 1) /\ Upto(s, i)' = Upto(s, i) /\ sent'[s][i] = sent[s][i]
    BY <1>2, <2>2
  <2>4. ASSUME NEW t \in Replica \ {s}
        PROVE  /\ sent[s][i].deps[t] <= Len(sent'[t])
               /\ Upto(t, sent[s][i].deps[t])' = Upto(t, sent[s][i].deps[t])
    <3>1. sent[s] \in Seq(Message)
      BY <1>0 DEF LInv, IInv, TypeOK
    <3>2. sent[s][i] \in Message
      BY <3>1
    <3>3. sent[s][i].deps[t] \in Nat
      BY <3>2 DEF Message
    <3>4. sent[s][i].deps[t] <= Len(sent[t])
      BY <2>1 DEF Delivers
    <3>5. sent[s][i].deps[t] \in 0 .. Len(sent[t])
      BY <1>8, <3>3, <3>4
    <3> QED
      BY <1>2, <1>8, <3>3, <3>4, <3>5
  <2> QED
    BY <1>0, <2>1, <2>3, <2>4 DEF Delivers
<1>11. ASSUME NEW s \in Replica, NEW i \in 1 .. Len(sent'[s])
       PROVE  Delivers(s, i)'
  <2>1. i \in 1 .. Len(sent[s]) \/ (s = r /\ i = N + 1)
    BY <1>1, <1>a
  <2> QED
    BY <1>9, <1>10, <2>1
<1>12. Tracked(r)'
  <2>1. hook'[r] = EmptyKernel
    BY <1>0, <1>1 DEF LInv, IInv, TypeOK
  <2> QED
    BY <1>0, <1>1, <1>3, <1>5, <1>11, <1>c, <2>1 DEF Tracked
<1>13. ASSUME NEW s \in Replica \ {r}
       PROVE  Tracked(s)'
  <2>1. hook'[s] = hook[s] /\ sent'[s] = sent[s] /\ Last(s)' = Last(s)
    BY <1>0, <1>1 DEF LInv, IInv, TypeOK
  <2>2. Tracked(s)
    BY DEF MInv
  <2> QED
    BY <1>0, <1>1, <1>11, <2>1, <2>2 DEF Tracked
<1>14. \A s \in Replica : Seen(s)' = Seen(s)
  BY ExtractUnseen
<1>15. \A s \in Replica : Exact(s)'
  BY <1>0, <1>1, <1>14 DEF MInv, Exact
<1>16. LogOk'
  BY <1>0 DEF MInv, LogOk
<1> QED
  BY <1>0, <1>12, <1>13, <1>15, <1>16 DEF MInv

-----------------------------------------------------------------------------
(* Deliveries.                                                             *)

\* The i-th delta of s is what r applies next: its writes up to the b-th, which observed
\* nothing of others that has not reached r.
LEMMA DeliveredNext ==
  ASSUME MInv, NEW r \in Replica, NEW s \in Replica, MvDeliver(r, s),
         NEW i \in Nat, NEW d, NextFrom(r, s, i, d), NEW b, b = Upto(s, i)
  PROVE  /\ Applies(log, Seen(r), s, b, Seen(r)')
         /\ Records(log, d, s, Seen(r)[s], b)
         /\ \A t \in Replica \ {r} : Seen(t)' = Seen(t)
<1>0. LInv /\ History(log) /\ Tracked(s) /\ Deliver(r, s) /\ log' = log
  BY DEF MInv, MvDeliver
<1>1. /\ s # r /\ i \in 1 .. Len(sent[s]) /\ i - 1 = got[r][s] /\ d = sent[s][i].delta
      /\ sent' = sent /\ inserted' = inserted /\ got'[r][s] = i
      /\ \A t \in Replica : \A u \in Replica : t # r \/ u # s => got'[t][u] = got[t][u]
  BY <1>0, DeliverEffect DEF NextFrom
<1>2. Prefixes(log, Seen(r)) /\ Closed(log, Seen(r))
  BY SeenPrefixes DEF MInv, Exact
<1>3. Delivers(s, i)
  BY <1>0, <1>1 DEF Tracked
<1>4. Seen(r)[s] = Upto(s, i - 1)
  BY <1>1, SeenOthers
<1>5. Records(log, d, s, Seen(r)[s], b) /\ b \in 1 .. Len(log[s]) /\ Seen(r)[s] < b
  BY <1>1, <1>3, <1>4 DEF Delivers, Records
<1>6. \A t, j : Upto(t, j)' = Upto(t, j)
  BY <1>1 DEF Upto
<1>7. Seen(r)'[s] = b
  <2>1. Reached(r, s)' = Upto(s, i)
    BY <1>1 DEF Reached, Upto
  <2> QED
    BY <2>1 DEF Seen
<1>8. ASSUME NEW t \in Replica, NEW u \in Replica, t # r \/ u # s
      PROVE  Seen(t)'[u] = Seen(t)[u]
  BY <1>1, <1>8 DEF Seen, Reached
<1>9. Prefixes(log, Seen(r)')
  <2> SUFFICES ASSUME NEW t \in Replica
               PROVE  Seen(r)'[t] \in 0 .. Len(log[t])
    BY DEF Prefixes
  <2>1. CASE t = s
    BY <1>5, <1>7, <2>1, Lengths
  <2>2. CASE t # s
    BY <1>2, <1>8, <2>2 DEF Prefixes
  <2> QED
    BY <2>1, <2>2
<1>10. ASSUME NEW t \in Replica \ {s}
       PROVE  log[s][b].past[t] <= Seen(r)[t]
  <2>1. CASE t = r
    <3>1. Prefixes(log, log[s][b].past)
      BY <1>0, <1>5, WriteOf
    <3>2. log[s][b].past[t] <= Len(log[t])
      BY <3>1, Lengths DEF Prefixes
    <3> QED
      BY <2>1, <3>2, SeenPrefixes
  <2>2. CASE t # r
    <3> DEFINE x == sent[s][i].deps[t]
               y == got[r][t]
    <3>1. log[s][b].past[t] <= Upto(t, x) /\ x <= Len(sent[t])
      BY <1>3 DEF Delivers
    <3>2. x <= y
      BY <1>0, <1>1, <2>2 DEF Deliver, Deliverable, Pending, NextFrom
    <3>3. Seen(r)[t] = Upto(t, y) /\ y \in 0 .. Len(sent[t]) /\ Len(sent[t]) \in Nat
      BY <2>2, SeenOthers, Lengths
    <3>4. x \in Nat
      <4>1. sent[s] \in Seq(Message)
        BY <1>0 DEF LInv, IInv, TypeOK
      <4>2. sent[s][i] \in Message
        BY <1>1, <4>1
      <4> QED
        BY <4>2 DEF Message
    <3> HIDE DEF x, y
    <3>5. x \in 0 .. Len(sent[t])
      BY <3>1, <3>3, <3>4
    <3>6. Covered(t)
      BY <1>0 DEF LInv
    <3>7. Upto(t, x) <= Upto(t, y)
      BY <3>2, <3>3, <3>5, <3>6 DEF Covered
    <3>8. Upto(t, x) \in Nat /\ Upto(t, y) \in Nat /\ log[s][b].past[t] \in Nat
      <4>1. log[s][b].past[t] \in Nat
        BY <1>0, <1>5, WriteOf
      <4> QED
        BY <1>0, <3>3, <3>5, <4>1, UptoOrder
    <3> QED
      BY <3>1, <3>3, <3>7, <3>8
  <2> QED
    BY <2>1, <2>2
<1>11. Applies(log, Seen(r), s, b, Seen(r)')
  BY <1>2, <1>5, <1>7, <1>8, <1>9, <1>10 DEF Applies
<1>12. ASSUME NEW t \in Replica \ {r}
       PROVE  Seen(t)' = Seen(t)
  <2>1. \A u \in Replica : Reached(t, u)' = Reached(t, u)
    BY <1>1 DEF Reached
  <2> QED
    BY <2>1 DEF Seen
<1> QED
  BY <1>5, <1>11, <1>12

LEMMA MvDelivered ==
  ASSUME MInv, NEW r \in Replica, NEW s \in Replica, MvDeliver(r, s)
  PROVE  MInv'
<1>0. LInv /\ LInv' /\ Deliver(r, s) /\ log' = log /\ History(log)
  BY LinkDeliver DEF MInv, MvDeliver
<1>1. PICK i \in Nat : i = got[r][s] + 1
  BY <1>0, SMTT(30) DEF LInv, IInv, TypeOK
<1>2. PICK d : d = sent[s][i].delta /\ NextFrom(r, s, i, d)
  BY <1>1 DEF NextFrom
<1>3. /\ state'[r] = Merge("state", state[r], d)
      /\ \A t \in Replica \ {r} : state'[t] = state[t]
      /\ hook' = hook /\ sent' = sent /\ inserted' = inserted
      /\ d \in Kernel /\ Supported(d)
      /\ MergedCleanly("state", state[r], d)
  BY <1>0, <1>2, DeliverEffect
<1>b. PICK b : b = Upto(s, i)
  OBVIOUS
<1>4. /\ Applies(log, Seen(r), s, b, Seen(r)')
      /\ Records(log, d, s, Seen(r)[s], b)
      /\ \A t \in Replica \ {r} : Seen(t)' = Seen(t)
  BY <1>2, <1>b, DeliveredNext
<1>5. \A t \in Replica : Valueless(d, t) = Bare(d, t)
  <2> SUFFICES ASSUME NEW t \in Replica
               PROVE  UNION {d.dots[k][t] : k \in d.keys} = UNION {d.dots[k][t] : k \in Key}
    BY DEF Valueless, Bare
  <2>1. d.keys \subseteq Key /\ \A k \in Key \ d.keys : d.dots[k][t] = {}
    BY <1>3 DEF Kernel, Supported
  <2> QED
    BY <2>1
<1>6. ASSUME NEW k \in Key, NEW t \in Replica
      PROVE  state'[r].dots[k][t] = Standing(log, Seen(r)', k, t)
  <2>1. state'[r].dots[k][t] =
          CountersMerge("state", state[r].dots[k][t], d.dots[k][t]) \ Bare(d, t)
    BY <1>3, <1>5 DEF MergedCleanly
  <2>2. state[r].dots[k][t] = Standing(log, Seen(r), k, t)
    BY DEF MInv, Exact
  <2>3. CountersMerge("state", Standing(log, Seen(r), k, t), d.dots[k][t]) \ Bare(d, t)
          = Standing(log, Seen(r)', k, t)
    BY <1>0, <1>4, RecordsApplied
  <2> QED
    BY <2>1, <2>2, <2>3
<1>7. Exact(r)'
  <2>1. Prefixes(log, Seen(r)') /\ Closed(log, Seen(r)')
    BY <1>0, <1>4, ClosedApplied DEF Applies
  <2> QED
    BY <1>0, <1>6, <2>1 DEF Exact
<1>8. ASSUME NEW t \in Replica \ {r}
      PROVE  Exact(t)'
  <2>1. state'[t] = state[t] /\ Seen(t)' = Seen(t) /\ Exact(t)
    BY <1>3, <1>4 DEF MInv
  <2> QED
    BY <1>0, <2>1 DEF Exact
<1>9. /\ \A t, j : Upto(t, j)' = Upto(t, j)
      /\ \A t : Last(t)' = Last(t)
  BY <1>3 DEF Upto, Last
<1>10. ASSUME NEW t \in Replica
       PROVE  Tracked(t)'
  <2>1. Tracked(t)
    BY DEF MInv
  <2>2. \A j : Delivers(t, j) => Delivers(t, j)'
    BY <1>0, <1>3, <1>9 DEF Delivers
  <2> QED
    BY <1>0, <1>3, <1>9, <2>1, <2>2 DEF Tracked
<1>11. LogOk'
  BY <1>0 DEF MInv, LogOk
<1> QED
  BY <1>0, <1>7, <1>8, <1>10, <1>11 DEF MInv

-----------------------------------------------------------------------------
(* The register.                                                           *)

LEMMA MvInitially == MvInit => MInv
<1> SUFFICES ASSUME MvInit
             PROVE  MInv
  OBVIOUS
<1>1. LInv
  BY LinkInit DEF MvInit
<1>2. /\ \A s \in Replica : /\ state[s] = EmptyKernel /\ hook[s] = EmptyKernel
                            /\ sent[s] = <<>> /\ inserted[s] = <<>> /\ log[s] = <<>>
      /\ \A s, t \in Replica : got[s][t] = 0
  BY DEF MvInit, Init, Zero
<1>3. LogOk
  BY DEF MvInit, LogOk
<1>4. \A s \in Replica : Len(log[s]) = 0 /\ Len(sent[s]) = 0 /\ Len(inserted[s]) = 0
  BY <1>2
<1>5. \A s \in Replica : Last(s) = 0
  BY <1>4 DEF Last, Upto
<1>6. History(log)
  BY <1>4 DEF History, Issues
<1>7. \A s, t \in Replica : Seen(s)[t] = 0
  BY <1>2, <1>4 DEF Seen, Reached
<1>8. \A s \in Replica : Tracked(s)
  BY <1>2, <1>4, <1>5 DEF Tracked
<1>9. ASSUME NEW s \in Replica
      PROVE  Exact(s)
  <2>1. Prefixes(log, Seen(s)) /\ Closed(log, Seen(s))
    BY <1>4, <1>7 DEF Prefixes, Closed
  <2>2. \A k \in Key : \A t \in Replica : Standing(log, Seen(s), k, t) = {}
    BY <1>7 DEF Standing
  <2>3. \A k \in Key : \A t \in Replica : state[s].dots[k][t] = {}
    BY <1>2 DEF EmptyKernel, NoDots
  <2> QED
    BY <2>1, <2>2, <2>3 DEF Exact
<1> QED
  BY <1>1, <1>3, <1>6, <1>8, <1>9 DEF MInv

LEMMA MvStep ==
  ASSUME MInv, Causal, [MvNext]_mvars
  PROVE  MInv'
<1>1. CASE UNCHANGED mvars
  <2>1. /\ state' = state /\ hook' = hook /\ sent' = sent /\ got' = got
        /\ inserted' = inserted /\ erased' = erased /\ log' = log
    BY <1>1 DEF mvars
  <2>2. LInv'
    <3>1. LInv /\ [Next]_vars
      BY <2>1 DEF MInv, vars
    <3> QED
      BY <3>1, LinkStep
  <2>3. /\ \A s, i : Upto(s, i)' = Upto(s, i)
        /\ \A s : Last(s)' = Last(s)
        /\ \A s \in Replica : Seen(s)' = Seen(s)
    BY <2>1 DEF Upto, Last, Seen, Reached
  <2>4. \A s, i : Delivers(s, i) => Delivers(s, i)'
    BY <2>1, <2>3 DEF Delivers
  <2>5. \A s \in Replica : Tracked(s)' /\ Exact(s)'
    BY <2>1, <2>3, <2>4 DEF MInv, Tracked, Exact
  <2>6. LogOk' /\ History(log')
    BY <2>1 DEF MInv, LogOk
  <2> QED
    BY <2>2, <2>5, <2>6 DEF MInv
<1>2. CASE MvNext
  BY <1>2, MvWritten, MvExtracted, MvDelivered DEF MvNext
<1> QED
  BY <1>1, <1>2

\* What each replica of a register holds is what the writes that have reached it say: the
\* last one of each replica, unless a write that has reached it observed that one.
THEOREM LastWritesStand ==
  ASSUME Causal
  PROVE  MvSpec => []MInv
<1>1. MInv /\ [MvNext]_mvars => MInv'
  BY MvStep
<1> QED
  BY <1>1, MvInitially, PTL DEF MvSpec

\* What a reader sees after a step.
LEMMA ContentAfter ==
  ASSUME MInv', NEW r \in Replica
  PROVE  state'[r].keys = Abstract!Value(log', Seen(r)')
<1>1. state'[r] \in Kernel /\ Linked(state'[r])
  BY DEF MInv, LInv, IInv, TypeOK, StateOk
<1>2. /\ History(log') /\ Prefixes(log', Seen(r)') /\ Closed(log', Seen(r)')
      /\ \A k \in Key : \A t \in Replica :
           state'[r].dots[k][t] = Standing(log', Seen(r)', k, t)
  BY DEF MInv, Exact
<1> QED
  BY <1>1, <1>2, ContentIs

\* A write, as an update of the abstract set.
LEMMA IssueRefined ==
  ASSUME MInv, MInv', NEW r \in Replica, NEW v \in Key, Set(r, v),
         NEW adds, adds = {v}, NEW removes, removes = state[r].keys
  PROVE  Abstract!Issue(r, adds, removes)
<1> DEFINE seen == [t \in Replica |-> Seen(t)]
           content == [t \in Replica |-> state[t].keys]
<1>a. PICK n : n = Len(inserted[r])
  OBVIOUS
<1>1. /\ n \in Nat /\ sent' = sent /\ got' = got
      /\ inserted' = [inserted EXCEPT ![r] = Append(@, v)]
      /\ \A s \in Replica \ {r} : state'[s] = state[s]
  BY <1>a, SetEffect DEF MInv
<1>2. /\ Len(inserted'[r]) = n + 1
      /\ \A s \in Replica \ {r} : inserted'[s] = inserted[s]
  <2>1. inserted \in [Replica -> Seq(Key)]
    BY DEF MInv, LInv, IInv, TypeOK
  <2> DEFINE w == inserted[r]
  <2>2. w \in Seq(Key) /\ inserted'[r] = Append(w, v) /\ Len(w) = n
    BY <1>1, <1>a, <2>1
  <2> HIDE DEF w
  <2>3. Len(inserted'[r]) = n + 1
    BY <2>2
  <2> QED
    BY <1>1, <2>1, <2>3
<1>3. \A s, t \in Replica : Seen(s)'[t] = IF s = r /\ t = r THEN Seen(r)[r] + 1 ELSE Seen(s)[t]
  <2>1. \A s, t \in Replica : s # t => Reached(s, t)' = Reached(s, t)
    BY <1>1 DEF Reached
  <2>2. \A s \in Replica \ {r} : Reached(s, s)' = Reached(s, s)
    BY <1>2 DEF Reached
  <2>3. Reached(r, r)' = n + 1 /\ Reached(r, r) = n
    BY <1>2, <1>a DEF Reached
  <2> QED
    BY <2>1, <2>2, <2>3 DEF Seen
<1>4. seen' = [seen EXCEPT ![r][r] = @ + 1]
  <2>1. \A s \in Replica : Seen(s)' = IF s = r THEN [Seen(r) EXCEPT ![r] = @ + 1] ELSE Seen(s)
    BY <1>3 DEF Seen
  <2> QED
    BY <2>1
<1>5. content' = [content EXCEPT ![r] = Abstract!Value(log', seen'[r])]
  BY <1>1, ContentAfter
<1>6. log' = [log EXCEPT ![r] =
                Append(@, [adds |-> adds, removes |-> removes, past |-> Seen(r)])]
  BY DEF Set
<1> QED
  BY <1>4, <1>5, <1>6 DEF Abstract!Issue

\* A delivery, as the abstract set receiving the writes up to one.
LEMMA ReceiveRefined ==
  ASSUME MInv, MInv', NEW r \in Replica, NEW s \in Replica, MvDeliver(r, s)
  PROVE  \E n \in 1 .. Len(log[s]) : Abstract!Receive(r, s, n)
<1> DEFINE seen == [t \in Replica |-> Seen(t)]
           content == [t \in Replica |-> state[t].keys]
<1>1. LInv /\ Deliver(r, s) /\ log' = log
  BY DEF MInv, MvDeliver
<1>2. PICK i \in Nat : i = got[r][s] + 1
  BY <1>1 DEF LInv, IInv, TypeOK
<1>3. PICK d : NextFrom(r, s, i, d)
  BY <1>2 DEF NextFrom
<1>4. PICK b : b = Upto(s, i)
  OBVIOUS
<1>5. /\ Applies(log, Seen(r), s, b, Seen(r)')
      /\ \A t \in Replica \ {r} : Seen(t)' = Seen(t)
  BY <1>3, <1>4, DeliveredNext
<1>6. b \in 1 .. Len(log[s])
  BY <1>5, AppliedWrites DEF MInv
<1>7. /\ \A t \in Replica \ {r} : state'[t] = state[t]
  BY <1>1, <1>3, DeliverEffect
<1>8. seen' = [seen EXCEPT ![r][s] = b]
  <2>1. \A u \in Replica : Seen(r)'[u] = IF u = s THEN b ELSE Seen(r)[u]
    BY <1>5 DEF Applies
  <2>2. Seen(r)' = [Seen(r) EXCEPT ![s] = b]
    BY <2>1 DEF Seen
  <2> QED
    BY <1>5, <2>2
<1>9. seen[r][s] < b
  BY <1>5 DEF Applies
<1>10. content' = [content EXCEPT ![r] = Abstract!Value(log, seen'[r])]
  BY <1>1, <1>7, ContentAfter
<1>11. Abstract!Receive(r, s, b)
  BY <1>1, <1>8, <1>9, <1>10 DEF Abstract!Receive
<1> QED
  BY <1>6, <1>11

LEMMA StepRefined ==
  ASSUME MInv, MInv', [MvNext]_mvars
  PROVE  [Abstract!Next]_(Abstract!vars)
<1>1. CASE UNCHANGED mvars
  BY <1>1 DEF mvars, Abstract!vars, Seen, Reached
<1>2. ASSUME NEW r \in Replica, NEW v \in Key, Set(r, v)
      PROVE  Abstract!Next
  <2>1. PICK adds \in SUBSET Key : adds = {v}
    OBVIOUS
  <2>2. PICK removes \in SUBSET Key : removes = state[r].keys
    BY StateKeys DEF MInv
  <2>3. Abstract!Issue(r, adds, removes)
    BY <1>2, <2>1, <2>2, IssueRefined
  <2> QED
    BY <2>3 DEF Abstract!Next
<1>3. ASSUME NEW r \in Replica, MvExtract(r)
      PROVE  UNCHANGED Abstract!vars
  <2>1. LInv /\ Extract(r) /\ log' = log
    BY <1>3 DEF MInv, MvExtract
  <2>2. state' = state /\ \A s \in Replica : Seen(s)' = Seen(s)
    BY <1>3, ExtractUnseen
  <2> QED
    BY <2>1, <2>2 DEF Abstract!vars
<1>4. ASSUME NEW r \in Replica, NEW s \in Replica, MvDeliver(r, s)
      PROVE  Abstract!Next
  BY <1>4, ReceiveRefined DEF Abstract!Next
<1> QED
  BY <1>1, <1>2, <1>3, <1>4 DEF MvNext

LEMMA InitRefined ==
  ASSUME MvInit
  PROVE  Abstract!Init
<1>1. \A r \in Replica : state[r].keys = {} /\ got[r] = Zero /\ inserted[r] = <<>>
  BY DEF MvInit, Init, EmptyKernel
<1>2. \A r, s \in Replica : Seen(r)[s] = 0
  BY <1>1 DEF Seen, Reached, Zero
<1>3. \A r \in Replica : Seen(r) = [s \in Replica |-> 0]
  BY <1>2 DEF Seen
<1> QED
  BY <1>1, <1>3 DEF Abstract!Init, MvInit

\* The replicas implement a multi-value register also when writes are buffered, provided
\* that the application merges a delta after those its replica had merged.
THEOREM RegisterIsORSet ==
  ASSUME Causal
  PROVE  MvSpec => ImplementsRegister
<1>1. MInv /\ MInv' /\ [MvNext]_mvars => [Abstract!Next]_(Abstract!vars)
  BY StepRefined
<1>2. MvInit => Abstract!Init
  BY InitRefined
<1>3. MvSpec => []MInv
  BY LastWritesStand
<1> QED
  BY <1>1, <1>2, <1>3, PTL DEF MvSpec, ImplementsRegister, Abstract!Spec

\* A write leaves its value alone in the register of its replica, and nothing that is merged
\* later empties a register, so that get_one() has a value to return from the first set on.
THEOREM WritesReplace ==
  ASSUME Causal
  PROVE  MvSpec => SetReplaces
<1>1. MInv /\ MInv' /\ [MvNext]_mvars =>
        [\A r \in Replica :
           /\ \A v \in Key : Set(r, v) => state'[r].keys = {v}
           /\ state[r].keys # {} => state'[r].keys # {}]_mvars
  <2> SUFFICES ASSUME MInv, MInv', MvNext, NEW r \in Replica
               PROVE  /\ \A v \in Key : Set(r, v) => state'[r].keys = {v}
                      /\ state[r].keys # {} => state'[r].keys # {}
    OBVIOUS
  <2>0. /\ state'[r].keys \subseteq Key
        /\ \A k \in Key : k \in state'[r].keys <=> \E s \in Replica : state'[r].dots[k][s] # {}
    BY StateKeysAfter DEF MInv
  <2>1. ASSUME NEW v \in Key, Set(r, v)
        PROVE  state'[r].keys = {v}
    <3>1. PICK n : n = Len(inserted[r])
      OBVIOUS
    <3>2. Alone(state'[r], r, v, n + 1)
      BY <2>1, <3>1, SetEffect DEF MInv
    <3>3. v \in state'[r].keys
      BY <2>0, <3>2 DEF Alone
    <3>4. \A k \in Key \ {v} : k \notin state'[r].keys
      BY <2>0, <3>2 DEF Alone
    <3> QED
      BY <2>0, <3>3, <3>4
  <2>2. ASSUME NEW s \in Replica, NEW v \in Key, Set(s, v), s # r
        PROVE  state'[r] = state[r]
    <3>1. PICK n : n = Len(inserted[s])
      OBVIOUS
    <3> QED
      BY <2>2, <3>1, SetEffect DEF MInv
  <2>3. ASSUME NEW s \in Replica, MvExtract(s)
        PROVE  state'[r] = state[r]
    BY <2>3 DEF MvExtract, Extract
  <2>4. ASSUME NEW q \in Replica, NEW s \in Replica, MvDeliver(q, s)
        PROVE  state'[r] = state[r] \/ state'[r].keys # {}
    <3>1. LInv /\ Deliver(q, s) /\ History(log) /\ log' = log
      BY <2>4 DEF MInv, MvDeliver
    <3>2. PICK i \in Nat : i = got[q][s] + 1
      BY <3>1 DEF LInv, IInv, TypeOK
    <3>3. PICK d : NextFrom(q, s, i, d)
      BY <3>2 DEF NextFrom
    <3>4. \A t \in Replica \ {q} : state'[t] = state[t]
      BY <3>1, <3>3, DeliverEffect
    <3>5. CASE r # q
      BY <3>4, <3>5
    <3>6. CASE r = q
      <4>1. PICK b : b = Upto(s, i)
        OBVIOUS
      <4>2. Applies(log, Seen(r), s, b, Seen(r)')
        BY <2>4, <3>3, <3>6, <4>1, DeliveredNext
      <4>3. b \in 1 .. Len(log[s])
        BY <3>1, <4>2, AppliedWrites
      <4>4. PICK k \in Key : log[s][b].adds = {k}
        BY <3>1, <4>3, WriteOf
      <4>5. Standing(log, Seen(r)', k, s) = {b}
        BY <3>1, <4>2, <4>4, StandingApplied
      <4>6. state'[r].dots[k][s] = Standing(log', Seen(r)', k, s)
        BY DEF MInv, Exact
      <4> QED
        BY <2>0, <3>1, <4>5, <4>6
    <3> QED
      BY <3>5, <3>6
  <2>5. ASSUME state[r].keys # {}
        PROVE  state'[r].keys # {}
    BY <2>1, <2>2, <2>3, <2>4, <2>5 DEF MvNext
  <2> QED
    BY <2>1, <2>5
<1>2. MvSpec => []MInv
  BY LastWritesStand
<1> QED
  BY <1>1, <1>2, PTL DEF MvSpec, SetReplaces

\* A register holds at most one value of each replica: several values, at which get_one()
\* aborts, are always of concurrent writes.
THEOREM OneValueEach ==
  ASSUME Causal
  PROVE  MvSpec => []OneValuePerReplica
<1>1. MInv => OneValuePerReplica
  <2> SUFFICES ASSUME MInv, NEW r \in Replica, NEW s \in Replica
               PROVE  Cardinality({k \in Key : state[r].dots[k][s] # {}}) <= 1
    BY DEF OneValuePerReplica
  <2> DEFINE v == Seen(r)
             K == {k \in Key : state[r].dots[k][s] # {}}
  <2>1. \A k \in Key : state[r].dots[k][s] = Standing(log, v, k, s)
    BY DEF MInv, Exact
  <2>2. Prefixes(log, v) /\ History(log)
    BY SeenPrefixes DEF MInv
  <2> HIDE DEF v
  <2>3. ASSUME NEW j \in K, NEW k \in K
        PROVE  j = k
    <3>1. Standing(log, v, j, s) # {} /\ Standing(log, v, k, s) # {}
      BY <2>1
    <3>2. PICK c : c = v[s]
      OBVIOUS
    <3>3. c # 0 /\ j \in log[s][c].adds /\ k \in log[s][c].adds
      BY <3>1, <3>2 DEF Standing
    <3>4. c \in 1 .. Len(log[s])
      BY <2>2, <3>2, <3>3 DEF Prefixes, History
    <3>5. \E x \in Key : log[s][c].adds = {x}
      BY <2>2, <3>4, WriteOf
    <3> QED
      BY <3>3, <3>5
  <2> HIDE DEF K
  <2>4. CASE K = {}
    <3>1. Cardinality(K) = 0
      BY <2>4, FS_EmptySet
    <3> QED
      BY <3>1 DEF K
  <2>5. CASE K # {}
    <3>1. PICK k \in K : TRUE
      BY <2>5
    <3>2. K = {k}
      BY <2>3
    <3>3. Cardinality(K) = 1
      BY <3>2, FS_Singleton
    <3> QED
      BY <3>3 DEF K
  <2> QED
    BY <2>4, <2>5
<1>2. MvSpec => []MInv
  BY LastWritesStand
<1> QED
  BY <1>1, <1>2, PTL
=============================================================================
