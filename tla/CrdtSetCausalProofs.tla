------------------------ MODULE CrdtSetCausalProofs ------------------------
(***************************************************************************)
(* The set, used as CrdtSetCausal describes, implements the observed-      *)
(* remove set of ORSet, for every set of replicas and keys and every bound.*)
(*                                                                         *)
(* The argument. An add is one dot and a remove is the set of dots it      *)
(* takes away, so that what a replica has applied determines the dots it   *)
(* holds: those of the adds that no applied update removes. A delta finds  *)
(* every update that its own replica had applied already applied where it  *)
(* is merged (Closed), so an add finds its key without dots of the same    *)
(* replica (no counter is replaced or collapsed), and a remove takes away  *)
(* exactly the dots of the adds it observed.                               *)
(***************************************************************************)
EXTENDS CrdtSetCausal, CrdtSetProofs

Disciplined == Eager /\ FreshInserts /\ Causal

-----------------------------------------------------------------------------
(* Histories. g is a log of updates and q[s][i] is the number of adds      *)
(* among the first i updates of s, so that an add is the dot q[s][i].      *)

\* The i-th update of s adds k, and no update in the prefixes v removes that add.
Alive(g, v, k, s, i) == k \in g[s][i].adds /\ ~Abstract!Removed(g, v, k, s, i)

\* The dots of s that support k once the prefixes v have been applied.
Live(g, q, v, k, s) == {q[s][i] : i \in {j \in 1 .. v[s] : Alive(g, v, k, s, j)}}

\* The updates in the prefixes v observed nothing outside of them.
Closed(g, v) ==
  \A s \in Replica : \A i \in 1 .. v[s] : \A t \in Replica : g[s][i].past[t] <= v[t]

\* v are prefixes of the logs.
Prefixes(g, v) == \A s \in Replica : v[s] \in 0 .. Len(g[s])

Below(u, v) == \A s \in Replica : u[s] <= v[s]

\* An update adds one key, which its replica did not see then, or removes some.
AddsOrRemoves(g, q, s, i) ==
  LET u == g[s][i]
  IN  \/ /\ q[s][i] = q[s][i - 1] + 1
         /\ \E k \in Key : u.adds = {k} /\ u.removes = {} /\ Live(g, q, u.past, k, s) = {}
      \/ q[s][i] = q[s][i - 1] /\ u.adds = {}

\* The updates s has issued.
Issues(g, q, s) ==
  /\ \A i \in 0 .. Len(g[s]) : q[s][i] \in Nat
  /\ \A i, j \in 0 .. Len(g[s]) : i <= j => q[s][i] <= q[s][j]
  /\ \A i \in 1 .. Len(g[s]) :
       /\ AddsOrRemoves(g, q, s, i)
       /\ Prefixes(g, g[s][i].past) /\ g[s][i].past[s] = i - 1

History(g, q) == \A s \in Replica : Len(g[s]) \in Nat /\ Issues(g, q, s)

\* h continues g, and counts as g does.
Continues(g, q, h, p) ==
  \A s \in Replica :
    /\ Len(g[s]) \in Nat /\ Len(h[s]) \in Nat /\ Len(g[s]) <= Len(h[s])
    /\ \A i \in 1 .. Len(g[s]) : h[s][i] = g[s][i]
    /\ \A i \in 0 .. Len(g[s]) : p[s][i] = q[s][i]

LEMMA SameRemoved ==
  ASSUME NEW g, NEW q, NEW h, NEW p, Continues(g, q, h, p), NEW v, Prefixes(g, v),
         NEW k, NEW s \in Replica, NEW i
  PROVE  Abstract!Removed(h, v, k, s, i) <=> Abstract!Removed(g, v, k, s, i)
<1>1. ASSUME NEW t \in Replica, NEW j \in 1 .. v[t]
      PROVE  h[t][j] = g[t][j]
  BY DEF Continues, Prefixes
<1> QED
  BY <1>1 DEF Abstract!Removed

\* What is alive depends on the prefixes only.
LEMMA SameLive ==
  ASSUME NEW g, NEW q, NEW h, NEW p, Continues(g, q, h, p), NEW v, Prefixes(g, v),
         NEW k, NEW s \in Replica
  PROVE  Live(h, p, v, k, s) = Live(g, q, v, k, s)
<1>1. ASSUME NEW i \in 1 .. v[s]
      PROVE  h[s][i] = g[s][i] /\ p[s][i] = q[s][i]
  BY DEF Continues, Prefixes
<1>2. \A i \in 1 .. v[s] : Alive(h, v, k, s, i) <=> Alive(g, v, k, s, i)
  BY <1>1, SameRemoved DEF Alive
<1> QED
  BY <1>1, <1>2 DEF Live

LEMMA SameClosed ==
  ASSUME NEW g, NEW q, NEW h, NEW p, Continues(g, q, h, p), NEW v, Prefixes(g, v), Closed(g, v)
  PROVE  Closed(h, v)
<1>1. ASSUME NEW t \in Replica, NEW j \in 1 .. v[t]
      PROVE  h[t][j] = g[t][j]
  BY DEF Continues, Prefixes
<1> QED
  BY <1>1 DEF Closed

\* What is removed in some prefixes is removed in longer ones.
LEMMA AliveBefore ==
  ASSUME NEW g, NEW u, NEW v, NEW k, NEW s \in Replica, NEW i, Alive(g, v, k, s, i),
         Prefixes(g, u), Prefixes(g, v), \A t \in Replica : Len(g[t]) \in Nat, Below(u, v)
  PROVE  Alive(g, u, k, s, i)
<1>1. \A t \in Replica : 1 .. u[t] \subseteq 1 .. v[t]
  BY DEF Prefixes, Below
<1> QED
  BY <1>1 DEF Alive, Abstract!Removed

\* An add is found by its dot.
LEMMA AddOfDot ==
  ASSUME NEW g, NEW q, History(g, q), NEW s \in Replica,
         NEW i \in 1 .. Len(g[s]), NEW j \in 1 .. Len(g[s]),
         g[s][i].adds # {}, g[s][j].adds # {}, q[s][i] = q[s][j]
  PROVE  i = j
<1>1. Len(g[s]) \in Nat /\ Issues(g, q, s)
  BY DEF History
<1>2. ASSUME NEW x \in 1 .. Len(g[s]), NEW y \in 1 .. Len(g[s]), x < y, g[s][y].adds # {}
      PROVE  q[s][x] < q[s][y]
  <2>1. q[s][y] = q[s][y - 1] + 1
    BY <1>1, <1>2 DEF Issues, AddsOrRemoves
  <2>2. x \in 0 .. Len(g[s]) /\ y - 1 \in 0 .. Len(g[s]) /\ x <= y - 1
    BY <1>1, <1>2
  <2>3. q[s][x] <= q[s][y - 1] /\ q[s][x] \in Nat /\ q[s][y - 1] \in Nat
    BY <1>1, <2>2 DEF Issues
  <2> QED
    BY <2>1, <2>3
<1>3. q[s][i] \in Nat /\ q[s][j] \in Nat
  <2>1. i \in 0 .. Len(g[s]) /\ j \in 0 .. Len(g[s])
    BY <1>1
  <2> QED
    BY <1>1, <2>1 DEF Issues
<1>4. i < j \/ j < i \/ i = j
  BY <1>1
<1> QED
  BY <1>2, <1>3, <1>4

\* What an update of a history is.
LEMMA UpdateOf ==
  ASSUME NEW g, NEW q, History(g, q), NEW s \in Replica, NEW i \in 1 .. Len(g[s])
  PROVE  /\ AddsOrRemoves(g, q, s, i)
         /\ Prefixes(g, g[s][i].past) /\ g[s][i].past[s] = i - 1
         /\ \A t \in Replica : g[s][i].past[t] \in Nat
BY DEF History, Issues, Prefixes

\* The prefixes v, and w after the i-th update of s, which observed nothing outside of v.
Applies(g, v, s, i, w) ==
  /\ Prefixes(g, v) /\ Prefixes(g, w) /\ Closed(g, v)
  /\ i \in 1 .. Len(g[s]) /\ v[s] = i - 1 /\ w[s] = i
  /\ \A t \in Replica \ {s} : w[t] = v[t]
  /\ Below(g[s][i].past, v)

LEMMA ClosedNext ==
  ASSUME NEW g, NEW q, History(g, q), NEW s \in Replica, NEW i, NEW v, NEW w,
         Applies(g, v, s, i, w)
  PROVE  Closed(g, w) /\ Below(v, w)
<1>1. /\ \A t \in Replica : Len(g[t]) \in Nat /\ v[t] \in Nat /\ w[t] \in Nat
      /\ Len(g[s]) \in Nat /\ i \in Nat
  BY DEF History, Applies, Prefixes
<1>2. Below(v, w)
  BY <1>1 DEF Applies, Below
<1>3. ASSUME NEW t \in Replica, NEW j \in 1 .. w[t], NEW x \in Replica
      PROVE  g[t][j].past[x] <= w[x]
  <2>1. j \in 1 .. v[t] \/ (t = s /\ j = i)
    BY <1>1 DEF Applies
  <2>2. g[t][j].past[x] <= v[x]
    BY <2>1 DEF Applies, Closed, Below
  <2>3. j \in 1 .. Len(g[t])
    BY <1>1 DEF Applies, Prefixes
  <2>4. g[t][j].past[x] \in Nat
    BY <1>1, <2>3 DEF History, Issues, Prefixes
  <2> QED
    BY <1>1, <1>2, <2>2, <2>4 DEF Below
<1> QED
  BY <1>2, <1>3 DEF Closed

\* An add: its dot is the only one of its replica under its key from then on.
LEMMA LiveAdded ==
  ASSUME NEW g, NEW q, History(g, q), NEW s \in Replica, NEW i, NEW v, NEW w,
         Applies(g, v, s, i, w), NEW k \in Key, g[s][i].adds = {k},
         NEW j \in Key, NEW t \in Replica
  PROVE  /\ j = k /\ t = s => Live(g, q, v, j, t) = {} /\ Live(g, q, w, j, t) = {q[s][i]}
         /\ ~(j = k /\ t = s) => Live(g, q, w, j, t) = Live(g, q, v, j, t)
<1>1. /\ \A x \in Replica : Len(g[x]) \in Nat /\ v[x] \in Nat /\ w[x] \in Nat
      /\ Len(g[s]) \in Nat /\ i \in Nat /\ i \in 1 .. Len(g[s])
  BY DEF History, Applies, Prefixes
<1>2. /\ g[s][i].removes = {}
      /\ Live(g, q, g[s][i].past, k, s) = {}
      /\ Prefixes(g, g[s][i].past) /\ g[s][i].past[s] = i - 1
  <2>1. AddsOrRemoves(g, q, s, i) /\ Prefixes(g, g[s][i].past) /\ g[s][i].past[s] = i - 1
    BY <1>1, UpdateOf
  <2>2. PICK m \in Key : /\ g[s][i].adds = {m} /\ g[s][i].removes = {}
                         /\ Live(g, q, g[s][i].past, m, s) = {}
    BY <2>1 DEF AddsOrRemoves
  <2>3. m = k
    BY <2>2
  <2> QED
    BY <2>1, <2>2, <2>3
<1>3. \A x \in Replica : \A y : y \in 1 .. w[x] <=> y \in 1 .. v[x] \/ (x = s /\ y = i)
  BY <1>1 DEF Applies
<1>4. ASSUME NEW l \in Key, NEW x \in Replica, NEW y
      PROVE  Abstract!Removed(g, w, l, x, y) <=> Abstract!Removed(g, v, l, x, y)
  BY <1>2, <1>3 DEF Abstract!Removed
<1>5. ~Abstract!Removed(g, v, k, s, i)
  <2> SUFFICES ASSUME NEW x \in Replica, NEW y \in 1 .. v[x]
               PROVE  ~(i <= g[x][y].past[s])
    BY DEF Abstract!Removed
  <2>1. g[x][y].past[s] <= i - 1
    BY DEF Applies, Closed
  <2>2. g[x][y].past[s] \in Nat
    <3>1. y \in 1 .. Len(g[x])
      BY <1>1 DEF Applies, Prefixes
    <3> QED
      BY <3>1, UpdateOf
  <2> QED
    BY <1>1, <2>1, <2>2
<1>6. Live(g, q, v, k, s) = {}
  <2> SUFFICES ASSUME NEW y \in 1 .. v[s], Alive(g, v, k, s, y)
               PROVE  FALSE
    BY DEF Live
  <2>1. Alive(g, g[s][i].past, k, s, y)
    <3>1. Prefixes(g, v) /\ Below(g[s][i].past, v)
      BY DEF Applies
    <3> QED
      BY <1>1, <1>2, <3>1, AliveBefore
  <2>2. y \in 1 .. g[s][i].past[s]
    BY <1>2 DEF Applies
  <2> QED
    BY <1>2, <2>1, <2>2 DEF Live
<1>7. CASE j = k /\ t = s
  <2>1. Alive(g, w, k, s, i)
    BY <1>4, <1>5 DEF Alive
  <2>2. \A y \in 1 .. v[s] : ~Alive(g, w, k, s, y)
    BY <1>4, <1>6 DEF Live, Alive
  <2> QED
    BY <1>3, <1>6, <1>7, <2>1, <2>2 DEF Live
<1>8. CASE ~(j = k /\ t = s)
  <2>1. \A y \in 1 .. v[t] : Alive(g, w, j, t, y) <=> Alive(g, v, j, t, y)
    BY <1>4 DEF Alive
  <2>2. t = s => ~Alive(g, w, j, t, i)
    BY <1>8 DEF Alive
  <2>3. \A y : y \in 1 .. w[t] /\ Alive(g, w, j, t, y) <=> y \in 1 .. v[t] /\ Alive(g, v, j, t, y)
    BY <1>3, <2>1, <2>2
  <2>4. \A c : c \in Live(g, q, w, j, t) <=> c \in Live(g, q, v, j, t)
    BY <2>3 DEF Live
  <2> QED
    BY <1>8, <2>4
<1> QED
  BY <1>6, <1>7, <1>8

\* A remove: the dots it observed go.
LEMMA LiveRemoved ==
  ASSUME NEW g, NEW q, History(g, q), NEW s \in Replica, NEW i, NEW v, NEW w,
         Applies(g, v, s, i, w), g[s][i].adds = {},
         NEW j \in Key, NEW t \in Replica
  PROVE  Live(g, q, w, j, t) =
           Live(g, q, v, j, t) \ UNION {Live(g, q, g[s][i].past, m, t) : m \in g[s][i].removes}
<1> DEFINE u == g[s][i]
           V == UNION {Live(g, q, u.past, m, t) : m \in u.removes}
<1>1. /\ \A x \in Replica : Len(g[x]) \in Nat /\ v[x] \in Nat /\ w[x] \in Nat
      /\ Len(g[s]) \in Nat /\ i \in Nat /\ i \in 1 .. Len(g[s])
  BY DEF History, Applies, Prefixes
<1>2. /\ Prefixes(g, u.past) /\ Prefixes(g, v) /\ Prefixes(g, w)
      /\ Below(u.past, v) /\ Below(v, w)
  BY <1>1, ClosedNext DEF Applies, History, Issues
<1>3. \A x \in Replica : \A y : y \in 1 .. w[x] <=> y \in 1 .. v[x] \/ (x = s /\ y = i)
  BY <1>1 DEF Applies
<1>4. ASSUME NEW y \in 1 .. w[t], Alive(g, w, j, t, y)
      PROVE  y \in 1 .. v[t] /\ Alive(g, v, j, t, y) /\ q[t][y] \notin V
  <2>1. y \in 1 .. v[t]
    BY <1>3, <1>4 DEF Alive
  <2>2. Alive(g, v, j, t, y)
    BY <1>1, <1>2, <1>4, AliveBefore
  <2>3. ASSUME NEW m \in u.removes, NEW z \in 1 .. u.past[t], Alive(g, u.past, m, t, z),
               q[t][y] = q[t][z]
        PROVE  FALSE
    <3>1. y \in 1 .. Len(g[t]) /\ z \in 1 .. Len(g[t])
      BY <1>1, <1>2, <2>3 DEF Prefixes
    <3>2. j \in g[t][y].adds /\ m \in g[t][z].adds
      BY <1>4, <2>3 DEF Alive
    <3>3. y = z
      BY <2>3, <3>1, <3>2, AddOfDot
    <3>4. m = j
      BY <3>1, <3>2, <3>3 DEF History, Issues, AddsOrRemoves
    <3>5. i \in 1 .. w[s] /\ y <= u.past[t]
      BY <1>1, <1>2, <2>3, <3>3 DEF Applies, Prefixes
    <3>6. Abstract!Removed(g, w, j, t, y)
      BY <2>3, <3>4, <3>5 DEF Abstract!Removed
    <3> QED
      BY <1>4, <3>6 DEF Alive
  <2>4. q[t][y] \notin V
    BY <2>3 DEF Live
  <2> QED
    BY <2>1, <2>2, <2>4
<1>5. ASSUME NEW y \in 1 .. v[t], Alive(g, v, j, t, y), q[t][y] \notin V
      PROVE  y \in 1 .. w[t] /\ Alive(g, w, j, t, y)
  <2>1. ASSUME Abstract!Removed(g, w, j, t, y)
        PROVE  FALSE
    <3>1. ~Abstract!Removed(g, v, j, t, y)
      BY <1>5 DEF Alive
    <3>2. j \in u.removes /\ y <= u.past[t]
      BY <1>3, <2>1, <3>1 DEF Abstract!Removed
    <3>3. Alive(g, u.past, j, t, y)
      BY <1>1, <1>2, <1>5, AliveBefore
    <3>4. y \in 1 .. u.past[t]
      BY <1>1, <1>2, <3>2 DEF Prefixes
    <3>5. q[t][y] \in Live(g, q, u.past, j, t)
      BY <3>3, <3>4 DEF Live
    <3> QED
      BY <1>5, <3>2, <3>5
  <2> QED
    BY <1>3, <1>5, <2>1 DEF Alive
<1> HIDE DEF V
<1>6. Live(g, q, w, j, t) = Live(g, q, v, j, t) \ V
  BY <1>4, <1>5 DEF Live
<1> QED
  BY <1>6 DEF V

-----------------------------------------------------------------------------
(* The invariant.                                                          *)

\* How many inserts are among the first i updates of s. An update that has been extracted
\* is a delta; the last one may still be in the hook.
Counts ==
  [s \in Replica |-> [i \in 0 .. Len(log[s]) |->
     IF i <= Len(sent[s]) THEN Upto(s, i) ELSE Len(inserted[s])]]

\* The dots that the i-th update of s observed and removes.
Taken(g, q, s, i, t) == UNION {Live(g, q, g[s][i].past, m, t) : m \in g[s][i].removes}

\* The delta l is the i-th update of s: the dot of its add, and the dots it removes.
Carries(g, q, l, s, i) ==
  /\ \A k \in Key : l.dots[k][s] = IF k \in g[s][i].adds THEN {q[s][i]} ELSE {}
  /\ \A t \in Replica : Bare(l, t) = Taken(g, q, s, i, t)

LogOk == log \in [Replica -> Seq(Abstract!Update)]

\* Every update of s is in an extracted delta of its own, but for one in the hook.
Tracked(s) ==
  /\ hook[s] = EmptyKernel => Len(log[s]) = Len(sent[s]) /\ Last(s) = Len(inserted[s])
  /\ hook[s] # EmptyKernel =>
       /\ Len(log[s]) = Len(sent[s]) + 1
       /\ Carries(log, Counts, hook[s], s, Len(log[s]))
  /\ \A i \in 1 .. Len(sent[s]) : Carries(log, Counts, sent[s][i].delta, s, i)
  /\ \A t \in Replica \ {s} :
       /\ \A i \in 1 .. Len(log[s]) : log[s][i].past[t] <= got[s][t]
       /\ \A i \in 1 .. Len(sent[s]) : log[s][i].past[t] <= sent[s][i].deps[t]

\* The state of s holds the dots of the adds that no update it has applied removes.
Exact(s) ==
  /\ Closed(log, Seen(s))
  /\ \A k \in Key : \A t \in Replica :
       state[s].dots[k][t] = Live(log, Counts, Seen(s), k, t)

CInv ==
  /\ LInv /\ LogOk /\ History(log, Counts)
  /\ \A s \in Replica : Tracked(s) /\ Exact(s)

\* Lengths and prefixes.
LEMMA Lengths ==
  ASSUME CInv, NEW s \in Replica
  PROVE  /\ Len(log[s]) \in Nat /\ Len(sent[s]) \in Nat /\ Len(inserted[s]) \in Nat
         /\ Len(sent[s]) <= Len(log[s])
         /\ \A i \in 1 .. Len(log[s]) : log[s][i] \in Abstract!Update
<1>1. /\ Len(log[s]) \in Nat /\ Len(sent[s]) \in Nat /\ Len(inserted[s]) \in Nat
      /\ \A i \in 1 .. Len(log[s]) : log[s][i] \in Abstract!Update
  BY DEF CInv, LInv, IInv, TypeOK, LogOk
<1>2. Len(sent[s]) <= Len(log[s])
  BY <1>1 DEF CInv, Tracked
<1> QED
  BY <1>1, <1>2

LEMMA SeenPrefixes ==
  ASSUME CInv, NEW r \in Replica
  PROVE  Prefixes(log, Seen(r)) /\ Seen(r) \in [Replica -> Nat] /\ Seen(r)[r] = Len(log[r])
<1> SUFFICES ASSUME NEW s \in Replica
             PROVE  Seen(r)[s] \in 0 .. Len(log[s]) /\ Seen(r)[r] = Len(log[r])
  BY DEF Prefixes, Seen
<1>1. /\ Len(log[s]) \in Nat /\ Len(sent[s]) \in Nat /\ Len(sent[s]) <= Len(log[s])
      /\ Len(log[r]) \in Nat
  BY Lengths
<1>2. s # r => got[r][s] \in Nat /\ got[r][s] <= Len(sent[s])
  BY DEF CInv, LInv, IInv, TypeOK, StateOk
<1> QED
  BY <1>1, <1>2 DEF Seen

LEMMA SameCarries ==
  ASSUME NEW g, NEW q, NEW h, NEW p, History(g, q), Continues(g, q, h, p),
         NEW l, NEW s \in Replica, NEW i \in 1 .. Len(g[s])
  PROVE  Carries(h, p, l, s, i) <=> Carries(g, q, l, s, i)
<1>1. h[s][i] = g[s][i] /\ p[s][i] = q[s][i]
  <2>1. i \in 0 .. Len(g[s])
    BY DEF History
  <2> QED
    BY <2>1 DEF Continues
<1>2. Prefixes(g, g[s][i].past)
  BY UpdateOf
<1>3. \A m \in g[s][i].removes : \A t \in Replica :
        Live(h, p, g[s][i].past, m, t) = Live(g, q, g[s][i].past, m, t)
  BY <1>2, SameLive
<1>4. ASSUME NEW t \in Replica
      PROVE  Taken(h, p, s, i, t) = Taken(g, q, s, i, t)
  <2>1. \A c : c \in Taken(h, p, s, i, t) <=> c \in Taken(g, q, s, i, t)
    BY <1>1, <1>3 DEF Taken
  <2> QED
    BY <2>1
<1> QED
  BY <1>1, <1>4 DEF Carries

-----------------------------------------------------------------------------
(* Updates.                                                                *)

\* Replica r issues the update u, of which its hook is free.
Issuing(r, u) ==
  /\ u \in Abstract!Update /\ u.past = Seen(r)
  /\ log' = [log EXCEPT ![r] = Append(@, u)]
  /\ hook[r] = EmptyKernel
  /\ sent' = sent /\ got' = got
  /\ \A s \in Replica \ {r} : inserted'[s] = inserted[s]
  /\ Len(inserted'[r]) \in Nat
  /\ \/ u.adds = {} /\ Len(inserted'[r]) = Len(inserted[r])
     \/ /\ Len(inserted'[r]) = Len(inserted[r]) + 1
        /\ \E k \in Key \ state[r].keys : u.adds = {k} /\ u.removes = {}

\* The log with u as the N+1st update of r.
Appended(r, u, N) ==
  /\ N = Len(log[r]) /\ N = Len(sent[r]) /\ N \in Nat
  /\ Len(log'[r]) = N + 1 /\ log'[r][N + 1] = u
  /\ \A s \in Replica \ {r} : log'[s] = log[s] /\ Seen(s)' = Seen(s)
  /\ Counts'[r][N] = Len(inserted[r])
  /\ Counts'[r][N + 1] = Len(inserted'[r])
  /\ LogOk'
  /\ Continues(log, Counts, log', Counts')

LEMMA AppendedLog ==
  ASSUME CInv, NEW r \in Replica, NEW u, Issuing(r, u), NEW N, N = Len(log[r])
  PROVE  Appended(r, u, N)
<1>1. N = Len(log[r]) /\ N = Len(sent[r]) /\ N \in Nat /\ Last(r) = Len(inserted[r])
  BY Lengths DEF Issuing, CInv, Tracked
<1>2. /\ Len(log'[r]) = N + 1 /\ log'[r][N + 1] = u
      /\ \A i \in 1 .. N : log'[r][i] = log[r][i]
      /\ \A s \in Replica \ {r} : log'[s] = log[s]
  <2>1. /\ log \in [Replica -> Seq(Abstract!Update)] /\ u \in Abstract!Update
        /\ log' = [log EXCEPT ![r] = Append(@, u)]
    BY DEF Issuing, CInv, LogOk
  <2> DEFINE U == Abstract!Update
  <2> HIDE DEF U
  <2>2. log'[r] = Append(log[r], u) /\ log[r] \in Seq(U) /\ u \in U
    BY <2>1 DEF U
  <2> DEFINE w == log[r]
  <2>3. w \in Seq(U) /\ Len(w) = N /\ log'[r] = Append(w, u)
    BY <1>1, <2>2
  <2> HIDE DEF w
  <2>4. /\ Len(log'[r]) = N + 1 /\ log'[r][N + 1] = u
        /\ \A i \in 1 .. N : log'[r][i] = w[i]
    BY <2>2, <2>3
  <2> QED
    BY <2>1, <2>4 DEF w
<1>a. LogOk'
  BY DEF Issuing, CInv, LogOk
<1>b. \A s \in Replica \ {r} : inserted'[s] = inserted[s]
  BY DEF Issuing
<1>3. \A s \in Replica \ {r} : Seen(s)' = Seen(s)
  BY <1>2 DEF Issuing, Seen
<1>4. \A s, i : Upto(s, i)' = Upto(s, i)
  BY DEF Issuing, Upto
<1>5. ASSUME NEW s \in Replica
      PROVE  /\ Len(log[s]) \in Nat /\ Len(log'[s]) \in Nat /\ Len(log[s]) <= Len(log'[s])
             /\ \A i \in 1 .. Len(log[s]) : log'[s][i] = log[s][i]
  <2>1. Len(log[s]) \in Nat
    BY Lengths
  <2>2. CASE s = r
    <3>1. Len(log[s]) = N /\ Len(log'[s]) = N + 1
      BY <1>2, <2>2
    <3>2. ASSUME NEW i \in 1 .. Len(log[s])
          PROVE  log'[s][i] = log[s][i]
      BY <1>2, <2>2, <3>1
    <3> QED
      BY <1>1, <3>1, <3>2
  <2>3. CASE s # r
    BY <1>2, <2>1, <2>3
  <2> QED
    BY <2>2, <2>3
<1>6. ASSUME NEW s \in Replica, NEW i \in 0 .. Len(log[s])
      PROVE  Counts'[s][i] = Counts[s][i]
  <2>1. Counts[s][i] = IF i <= Len(sent[s]) THEN Upto(s, i) ELSE Len(inserted[s])
    BY DEF Counts
  <2>2. i \in 0 .. Len(log'[s])
    BY <1>5
  <2>3. Counts'[s][i] = IF i <= Len(sent[s]) THEN Upto(s, i) ELSE Len(inserted'[s])
    BY <1>4, <2>2 DEF Counts, Issuing
  <2>4. CASE i <= Len(sent[s])
    <3>1. Counts[s][i] = Upto(s, i)
      BY <2>1, <2>4
    <3>2. Counts'[s][i] = Upto(s, i)
      BY <2>3, <2>4
    <3> QED
      BY <3>1, <3>2
  <2>5. CASE ~(i <= Len(sent[s]))
    <3>1. inserted'[s] = inserted[s]
      <4>1. ASSUME s = r
            PROVE  FALSE
        <5>1. i \in 0 .. N /\ Len(sent[s]) = N
          BY <1>1, <4>1
        <5> QED
          BY <1>1, <2>5, <5>1
      <4> QED
        BY <1>b, <4>1
    <3>2. Counts[s][i] = Len(inserted[s])
      BY <2>1, <2>5
    <3>3. Counts'[s][i] = Len(inserted'[s])
      BY <2>3, <2>5
    <3> QED
      BY <3>1, <3>2, <3>3
  <2> QED
    BY <2>4, <2>5
<1>7. Counts'[r][N + 1] = Len(inserted'[r])
  <2>1. N + 1 \in 0 .. Len(log'[r]) /\ ~(N + 1 <= Len(sent'[r]))
    BY <1>1, <1>2 DEF Issuing
  <2> QED
    BY <2>1 DEF Counts
<1>8. Counts'[r][N] = Len(inserted[r])
  <2>1. N \in 0 .. Len(log'[r]) /\ N <= Len(sent'[r])
    BY <1>1, <1>2 DEF Issuing
  <2>2. Upto(r, N)' = Last(r)
    BY <1>1, <1>4 DEF Last
  <2> QED
    BY <1>1, <2>1, <2>2 DEF Counts
<1>9. Continues(log, Counts, log', Counts')
  BY <1>5, <1>6 DEF Continues
<1> QED
  BY <1>1, <1>2, <1>a, <1>3, <1>7, <1>8, <1>9 DEF Appended

\* h is g with one more update, the N+1st of r.
OneMore(g, q, h, p, r, N) ==
  /\ Continues(g, q, h, p)
  /\ N \in Nat /\ N = Len(g[r]) /\ Len(h[r]) = N + 1
  /\ \A s \in Replica \ {r} : Len(h[s]) = Len(g[s])
  /\ p[r][N + 1] \in Nat /\ p[r][N] <= p[r][N + 1]
  /\ AddsOrRemoves(h, p, r, N + 1)
  /\ Prefixes(g, h[r][N + 1].past) /\ h[r][N + 1].past[r] = N

LEMMA SamePrefixes ==
  ASSUME NEW g, NEW q, NEW h, NEW p, Continues(g, q, h, p), NEW v, Prefixes(g, v)
  PROVE  Prefixes(h, v)
<1> SUFFICES ASSUME NEW s \in Replica
             PROVE  v[s] \in 0 .. Len(h[s])
  BY DEF Prefixes
<1>1. v[s] \in 0 .. Len(g[s]) /\ Len(g[s]) \in Nat /\ Len(h[s]) \in Nat /\ Len(g[s]) <= Len(h[s])
  BY DEF Prefixes, Continues
<1> QED
  BY <1>1

LEMMA SameUpdate ==
  ASSUME NEW g, NEW q, NEW h, NEW p, History(g, q), Continues(g, q, h, p),
         NEW s \in Replica, NEW i \in 1 .. Len(g[s])
  PROVE  AddsOrRemoves(h, p, s, i) /\ Prefixes(h, h[s][i].past) /\ h[s][i].past[s] = i - 1
<1>1. Len(g[s]) \in Nat
  BY DEF History
<1>2. i \in 0 .. Len(g[s]) /\ i - 1 \in 0 .. Len(g[s])
  BY <1>1
<1>3. h[s][i] = g[s][i] /\ p[s][i] = q[s][i] /\ p[s][i - 1] = q[s][i - 1]
  BY <1>2 DEF Continues
<1>4. AddsOrRemoves(g, q, s, i) /\ Prefixes(g, g[s][i].past) /\ g[s][i].past[s] = i - 1
  BY UpdateOf
<1>5. \A k : Live(h, p, g[s][i].past, k, s) = Live(g, q, g[s][i].past, k, s)
  BY <1>4, SameLive
<1>6. AddsOrRemoves(h, p, s, i)
  BY <1>3, <1>4, <1>5 DEF AddsOrRemoves
<1> QED
  BY <1>3, <1>4, <1>6, SamePrefixes

LEMMA HistoryOneMore ==
  ASSUME NEW g, NEW q, NEW h, NEW p, History(g, q), NEW r \in Replica, NEW N,
         OneMore(g, q, h, p, r, N)
  PROVE  History(h, p)
<1>0. Continues(g, q, h, p)
  BY DEF OneMore
<1>1. ASSUME NEW s \in Replica
      PROVE  /\ Len(g[s]) \in Nat /\ Len(h[s]) \in Nat
             /\ \A i \in 0 .. Len(g[s]) : p[s][i] = q[s][i] /\ p[s][i] \in Nat
             /\ \A i, j \in 0 .. Len(g[s]) : i <= j => p[s][i] <= p[s][j]
  BY <1>0 DEF Continues, History, Issues
<1>2. ASSUME NEW s \in Replica \ {r}
      PROVE  Issues(h, p, s)
  <2>1. Len(h[s]) = Len(g[s])
    BY DEF OneMore
  <2> QED
    BY <1>0, <1>1, <2>1, SameUpdate DEF Issues
<1>3. Issues(h, p, r)
  <2>1. N \in Nat /\ Len(g[r]) = N /\ Len(h[r]) = N + 1 /\ p[r][N + 1] \in Nat
    BY DEF OneMore
  <2>2. ASSUME NEW i \in 0 .. Len(h[r])
        PROVE  i \in 0 .. N \/ i = N + 1
    BY <2>1
  <2>3. ASSUME NEW i \in 0 .. N
        PROVE  p[r][i] \in Nat /\ p[r][i] <= p[r][N + 1]
    <3>1. p[r][i] \in Nat /\ p[r][i] <= p[r][N] /\ p[r][N] \in Nat
      BY <1>1, <2>1
    <3> QED
      BY <2>1, <3>1 DEF OneMore
  <2>4. ASSUME NEW i \in 0 .. Len(h[r]), NEW j \in 0 .. Len(h[r]), i <= j
        PROVE  p[r][i] <= p[r][j]
    <3>1. CASE j \in 0 .. N
      <4>1. i \in 0 .. N
        BY <2>1, <2>4, <3>1
      <4> QED
        BY <1>1, <2>1, <2>4, <3>1, <4>1
    <3>2. CASE j = N + 1
      BY <2>1, <2>2, <2>3, <3>2
    <3> QED
      BY <2>2, <3>1, <3>2
  <2>5. ASSUME NEW i \in 1 .. Len(h[r])
        PROVE  AddsOrRemoves(h, p, r, i) /\ Prefixes(h, h[r][i].past) /\ h[r][i].past[r] = i - 1
    <3>1. CASE i = N + 1
      <4>1. Prefixes(h, h[r][i].past)
        BY <1>0, <3>1, SamePrefixes DEF OneMore
      <4> QED
        BY <2>1, <3>1, <4>1 DEF OneMore
    <3>2. CASE i # N + 1
      <4>1. i \in 1 .. Len(g[r])
        BY <2>1, <3>2
      <4> QED
        BY <1>0, <4>1, SameUpdate
    <3> QED
      BY <3>1, <3>2
  <2>6. \A i \in 0 .. Len(h[r]) : p[r][i] \in Nat
    BY <2>1, <2>2, <2>3
  <2> QED
    BY <2>4, <2>5, <2>6 DEF Issues
<1> QED
  BY <1>1, <1>2, <1>3 DEF History

\* After the update u the log is a history, of which r has applied one update more.
LEMMA AppendedHistory ==
  ASSUME CInv, NEW r \in Replica, NEW u, Issuing(r, u), NEW N, Appended(r, u, N)
  PROVE  History(log', Counts') /\ Applies(log', Seen(r), r, N + 1, Seen(r)')
<1> DEFINE v == Seen(r)
           w == Seen(r)'
<1>1. /\ N \in Nat /\ N = Len(log[r]) /\ Len(log'[r]) = N + 1 /\ log'[r][N + 1] = u
      /\ \A s \in Replica \ {r} : log'[s] = log[s]
      /\ Counts'[r][N] = Len(inserted[r]) /\ Counts'[r][N + 1] = Len(inserted'[r])
      /\ Continues(log, Counts, log', Counts')
  BY DEF Appended
<1>2. /\ Prefixes(log, v) /\ v \in [Replica -> Nat] /\ v[r] = N /\ u.past = v
      /\ Closed(log, v) /\ History(log, Counts)
  BY <1>1, SeenPrefixes DEF Issuing, CInv, Exact
<1>3. Prefixes(log', v) /\ Closed(log', v)
  BY <1>1, <1>2, SamePrefixes, SameClosed
<1>4. w[r] = N + 1 /\ \A t \in Replica \ {r} : w[t] = v[t]
  BY <1>1 DEF Seen, Issuing
<1>5. Len(inserted[r]) \in Nat /\ Len(inserted'[r]) \in Nat
  BY Lengths DEF Issuing
<1>6. \A k \in Key : Live(log', Counts', v, k, r) = state[r].dots[k][r]
  BY <1>1, <1>2, SameLive DEF CInv, Exact
<1>7. \A k \in Key \ state[r].keys : state[r].dots[k][r] = {}
  BY StateKeys DEF CInv
<1> HIDE DEF v, w
<1>8. AddsOrRemoves(log', Counts', r, N + 1)
  <2>1. N + 1 - 1 = N
    BY <1>1
  <2>2. CASE u.adds = {} /\ Len(inserted'[r]) = Len(inserted[r])
    BY <1>1, <2>1, <2>2 DEF AddsOrRemoves
  <2>3. CASE /\ Len(inserted'[r]) = Len(inserted[r]) + 1
             /\ \E k \in Key \ state[r].keys : u.adds = {k} /\ u.removes = {}
    BY <1>1, <1>2, <1>6, <1>7, <2>1, <2>3 DEF AddsOrRemoves
  <2> QED
    BY <2>2, <2>3 DEF Issuing
<1>9. Len(inserted[r]) <= Len(inserted'[r])
  BY <1>5 DEF Issuing
<1>10. \A s \in Replica \ {r} : Len(log'[s]) = Len(log[s])
  BY <1>1
<1>11. OneMore(log, Counts, log', Counts', r, N)
  BY <1>1, <1>2, <1>5, <1>8, <1>9, <1>10 DEF OneMore
<1>12. History(log', Counts')
  BY <1>2, <1>11, HistoryOneMore
<1>13. Prefixes(log', w)
  <2> SUFFICES ASSUME NEW s \in Replica
               PROVE  w[s] \in 0 .. Len(log'[s])
    BY DEF Prefixes
  <2> QED
    BY <1>1, <1>3, <1>4 DEF Prefixes
<1>14. Below(log'[r][N + 1].past, v)
  BY <1>1, <1>2 DEF Below
<1>15. N + 1 \in 1 .. Len(log'[r]) /\ v[r] = (N + 1) - 1
  BY <1>1, <1>2
<1>16. Applies(log', v, r, N + 1, w)
  BY <1>3, <1>4, <1>13, <1>14, <1>15 DEF Applies
<1> QED
  BY <1>12, <1>16 DEF v, w

\* What an update at r leaves as it is; what it must bring about in the hook and the state.
LEMMA CausalFrame ==
  ASSUME CInv, LInv', NEW r \in Replica, NEW u, Issuing(r, u), NEW N, Appended(r, u, N),
         \A s \in Replica \ {r} : state'[s] = state[s] /\ hook'[s] = hook[s],
         hook'[r] # EmptyKernel,
         Carries(log', Counts', hook'[r], r, N + 1),
         \A k \in Key : \A t \in Replica :
           state'[r].dots[k][t] = Live(log', Counts', Seen(r)', k, t)
  PROVE  CInv'
<1>1. /\ N \in Nat /\ N = Len(log[r]) /\ N = Len(sent[r])
      /\ Len(log'[r]) = N + 1 /\ log'[r][N + 1] = u
      /\ \A s \in Replica \ {r} : log'[s] = log[s] /\ Seen(s)' = Seen(s)
      /\ Continues(log, Counts, log', Counts') /\ LogOk'
  BY DEF Appended
<1>2. History(log, Counts) /\ \A s \in Replica : Tracked(s) /\ Exact(s)
  BY DEF CInv
<1>3. /\ History(log', Counts')
      /\ Applies(log', Seen(r), r, N + 1, Seen(r)')
  BY AppendedHistory
<1>4. /\ sent' = sent /\ got' = got /\ u.past = Seen(r)
      /\ \A s \in Replica \ {r} : inserted'[s] = inserted[s]
  BY DEF Issuing
<1>5. /\ \A s : Last(s)' = Last(s)
      /\ \A s \in Replica : Len(sent[s]) \in Nat /\ Len(sent[s]) <= Len(log[s])
  BY <1>4, Lengths DEF Last, Upto
<1>6. ASSUME NEW s \in Replica, NEW i \in 1 .. Len(sent[s])
      PROVE  Carries(log', Counts', sent[s][i].delta, s, i)
  <2>1. i \in 1 .. Len(log[s])
    BY <1>5, Lengths
  <2>2. Carries(log, Counts, sent[s][i].delta, s, i)
    BY <1>2 DEF Tracked
  <2> QED
    BY <1>1, <1>2, <2>1, <2>2, SameCarries
<1>7. ASSUME NEW s \in Replica \ {r}
      PROVE  Tracked(s)'
  <2>1. /\ hook'[s] = hook[s] /\ log'[s] = log[s] /\ inserted'[s] = inserted[s]
        /\ Tracked(s) /\ Last(s)' = Last(s)
    BY <1>1, <1>2, <1>4, <1>5
  <2>2. hook[s] # EmptyKernel => Carries(log', Counts', hook[s], s, Len(log[s]))
    <3> SUFFICES ASSUME hook[s] # EmptyKernel
                 PROVE  Carries(log', Counts', hook[s], s, Len(log[s]))
      OBVIOUS
    <3>1. Len(log[s]) = Len(sent[s]) + 1 /\ Carries(log, Counts, hook[s], s, Len(log[s]))
      BY <2>1 DEF Tracked
    <3>2. Len(log[s]) \in 1 .. Len(log[s])
      BY <1>5, <3>1
    <3> QED
      BY <1>1, <1>2, <3>1, <3>2, SameCarries
  <2> QED
    BY <1>4, <1>6, <2>1, <2>2 DEF Tracked
<1>8. Tracked(r)'
  <2>1. ASSUME NEW t \in Replica \ {r}, NEW i \in 1 .. Len(log'[r])
        PROVE  log'[r][i].past[t] <= got[r][t]
    <3>1. CASE i = N + 1
      <4>1. log'[r][i].past[t] = got[r][t]
        BY <1>1, <1>4, <3>1 DEF Seen
      <4>2. got[r][t] \in Nat
        BY DEF CInv, LInv, IInv, TypeOK
      <4> QED
        BY <4>1, <4>2
    <3>2. CASE i # N + 1
      <4>1. i \in 1 .. Len(log[r])
        BY <1>1, <3>2
      <4>2. log'[r][i] = log[r][i]
        BY <1>1, <4>1 DEF Continues
      <4> QED
        BY <1>2, <4>1, <4>2 DEF Tracked
    <3> QED
      BY <3>1, <3>2
  <2>2. ASSUME NEW t \in Replica \ {r}, NEW i \in 1 .. Len(sent[r])
        PROVE  log'[r][i].past[t] <= sent[r][i].deps[t]
    <3>1. i \in 1 .. Len(log[r])
      BY <1>1
    <3>2. log'[r][i] = log[r][i]
      BY <1>1, <3>1 DEF Continues
    <3> QED
      BY <1>2, <3>2 DEF Tracked
  <2> QED
    BY <1>1, <1>4, <1>6, <2>1, <2>2 DEF Tracked
<1>9. ASSUME NEW s \in Replica \ {r}
      PROVE  Exact(s)'
  <2>1. Seen(s)' = Seen(s) /\ state'[s] = state[s]
    BY <1>1
  <2>2. Prefixes(log, Seen(s)) /\ Closed(log, Seen(s))
    BY <1>2, SeenPrefixes DEF Exact
  <2>3. Closed(log', Seen(s))
    BY <1>1, <2>2, SameClosed
  <2>4. \A k \in Key : \A t \in Replica :
          Live(log', Counts', Seen(s), k, t) = Live(log, Counts, Seen(s), k, t)
    BY <1>1, <2>2, SameLive
  <2> QED
    BY <1>2, <2>1, <2>3, <2>4 DEF Exact
<1>10. Exact(r)'
  BY <1>3, ClosedNext DEF Exact
<1> QED
  BY <1>1, <1>3, <1>7, <1>8, <1>9, <1>10 DEF CInv

\* The update that an insert is.
LEMMA CausalInsert ==
  ASSUME CInv, Disciplined, NEW r \in Replica, NEW k \in Key, Insert(r, k), Record(r, {k}, {})
  PROVE  CInv'
<1>0. LInv /\ LInv'
  BY LinkInsert DEF CInv
<1>a. PICK n \in Nat : n = Len(inserted[r])
  BY Lengths
<1>b. PICK N \in Nat : N = Len(log[r])
  BY Lengths
<1>c. PICK u : u = [adds |-> {k}, removes |-> {}, past |-> Seen(r)]
  OBVIOUS
<1>d. PICK c \in Nat : c = n + 1
  BY <1>a
<1>1. /\ Commit(r, ValueDelta(k, r, n + 1))
      /\ sent' = sent /\ got' = got
      /\ Len(inserted'[r]) = n + 1
      /\ \A s \in Replica \ {r} : inserted'[s] = inserted[s]
      /\ DotsInserted(r, k, n)
  BY <1>0, <1>a, InsertEffect
<1>2. hook[r] = EmptyKernel /\ k \notin state[r].keys
  BY DEF Disciplined, Insert, MayUpdate
<1>3. Issuing(r, u)
  <2>1. u \in Abstract!Update
    BY <1>c, SeenPrefixes DEF Abstract!Update
  <2>2. log' = [log EXCEPT ![r] = Append(@, u)]
    BY <1>c DEF Record
  <2>3. u.adds = {k} /\ u.removes = {} /\ u.past = Seen(r)
    BY <1>c
  <2> QED
    BY <1>a, <1>1, <1>2, <2>1, <2>2, <2>3 DEF Issuing
<1>4. Appended(r, u, N)
  BY <1>3, <1>b, AppendedLog
<1>5. /\ log'[r][N + 1] = u /\ Counts'[r][N + 1] = c
      /\ Continues(log, Counts, log', Counts')
  BY <1>1, <1>d, <1>4 DEF Appended
<1>6. History(log', Counts') /\ Applies(log', Seen(r), r, N + 1, Seen(r)')
  BY <1>3, <1>4, AppendedHistory
<1>7. \A s \in Replica \ {r} : state'[s] = state[s] /\ hook'[s] = hook[s]
  BY <1>1 DEF Commit, CInv, LInv, IInv, TypeOK
<1>8. /\ \A j \in Key : \A s \in Replica : hook[r].dots[j][s] = {}
      /\ \A s \in Replica : hook[r].counters[s] = {}
  BY <1>2 DEF EmptyKernel, NoDots
<1>9. CountersMerge("state", {}, {c}) = {c} /\ CountersMerge("delta", {}, {c}) = {c}
  BY <1>d DEF CountersMerge, Collapse, Succeeds
<1>10. \A j \in Key : \A s \in Replica :
         hook'[r].dots[j][s] = IF j = k /\ s = r THEN {c} ELSE {}
  <2> SUFFICES ASSUME NEW j \in Key, NEW s \in Replica
               PROVE  hook'[r].dots[j][s] = IF j = k /\ s = r THEN {c} ELSE {}
    OBVIOUS
  <2>1. hook'[r].dots[j][s] =
          IF j = k /\ s = r THEN CountersMerge("delta", hook[r].dots[k][r], {c})
                           ELSE hook[r].dots[j][s]
    BY <1>1, <1>d DEF DotsInserted
  <2>2. hook[r].dots[j][s] = {} /\ hook[r].dots[k][r] = {}
    BY <1>8
  <2> QED
    BY <1>9, <2>1, <2>2
<1>11. hook'[r] # EmptyKernel
  BY <1>10, SMTT(30) DEF EmptyKernel, NoDots
<1>12. \A t \in Replica : Bare(hook'[r], t) = {}
  <2> SUFFICES ASSUME NEW t \in Replica
               PROVE  Bare(hook'[r], t) = {}
    OBVIOUS
  <2> DEFINE d == ValueDelta(k, r, c)
  <2>1. \A s \in Replica : d.counters[s] = IF s = r THEN {c} ELSE {}
    <3>1. c \in Nat \ {0}
      BY <1>d
    <3>2. OneDot(d, k, r, c)
      BY <3>1, ValueDeltaFacts
    <3> QED
      BY <3>2 DEF OneDot
  <2>2. hook'[r].counters[t] = CountersMerge("delta", {}, d.counters[t])
    <3>1. hook'[r] = Merge("delta", hook[r], d)
      BY <1>1, <1>d DEF Commit, CInv, LInv, IInv, TypeOK
    <3> HIDE DEF d
    <3>2. hook'[r].counters[t] = CountersMerge("delta", hook[r].counters[t], d.counters[t])
      BY <3>1, MergeCounters
    <3> QED
      BY <1>8, <3>2
  <2> HIDE DEF d
  <2>3. t = r => hook'[r].counters[t] = {c}
    BY <1>9, <2>1, <2>2
  <2>4. t # r => hook'[r].counters[t] = {}
    BY <2>1, <2>2, CountersMergeNone
  <2> QED
    BY <1>10, <2>3, <2>4 DEF Bare
<1>13. Carries(log', Counts', hook'[r], r, N + 1)
  <2>1. \A t : Taken(log', Counts', r, N + 1, t) = {}
    BY <1>5, <1>c DEF Taken
  <2>2. \A j \in Key : j \in log'[r][N + 1].adds <=> j = k
    BY <1>5, <1>c
  <2> QED
    BY <1>5, <1>10, <1>12, <2>1, <2>2 DEF Carries
<1>14. ASSUME NEW j \in Key, NEW t \in Replica
       PROVE  state'[r].dots[j][t] = Live(log', Counts', Seen(r)', j, t)
  <2>1. Live(log', Counts', Seen(r), j, t) = state[r].dots[j][t]
    BY <1>5, SameLive, SeenPrefixes DEF CInv, Exact
  <2>2. log'[r][N + 1].adds = {k}
    BY <1>5, <1>c
  <2>3. CASE j = k /\ t = r
    <3>1. /\ Live(log', Counts', Seen(r), k, r) = {}
          /\ Live(log', Counts', Seen(r)', k, r) = {c}
      BY <1>5, <1>6, <2>2, LiveAdded
    <3>2. state'[r].dots[k][r] = CountersMerge("state", state[r].dots[k][r], {n + 1})
      BY <1>1 DEF DotsInserted
    <3> QED
      BY <1>9, <1>d, <2>1, <2>3, <3>1, <3>2
  <2>4. CASE ~(j = k /\ t = r)
    <3>1. Live(log', Counts', Seen(r)', j, t) = Live(log', Counts', Seen(r), j, t)
      BY <1>6, <2>2, <2>4, LiveAdded
    <3> QED
      BY <1>1, <2>1, <2>4, <3>1 DEF DotsInserted
  <2> QED
    BY <2>3, <2>4
<1> QED
  BY <1>0, <1>3, <1>4, <1>7, <1>11, <1>13, <1>14, CausalFrame

\* The update that an erase or a clear is.
LEMMA CausalErase ==
  ASSUME CInv, Disciplined, NEW r \in Replica, MayUpdate(r),
         NEW K \in SUBSET Key, K \subseteq state[r].keys, K # {},
         Commit(r, CountersDelta(state[r], K)), Forget(r, K), UNCHANGED inserted,
         Record(r, {}, K)
  PROVE  CInv'
<1>0. LInv /\ LInv'
  BY LinkErase DEF CInv
<1>b. PICK N \in Nat : N = Len(log[r])
  BY Lengths
<1>c. PICK u : u = [adds |-> {}, removes |-> K, past |-> Seen(r)]
  OBVIOUS
<1> DEFINE V == DotsOf(r, K)
<1>1. sent' = sent /\ got' = got /\ DotsErased(r, V)
  BY <1>0, EraseEffect
<1>2. hook[r] = EmptyKernel
  BY DEF Disciplined, MayUpdate
<1>3. Issuing(r, u)
  <2>1. u \in Abstract!Update
    BY <1>c, SeenPrefixes DEF Abstract!Update
  <2>2. log' = [log EXCEPT ![r] = Append(@, u)]
    BY <1>c DEF Record
  <2>3. u.adds = {} /\ u.past = Seen(r)
    BY <1>c
  <2>4. Len(inserted'[r]) = Len(inserted[r]) /\ Len(inserted[r]) \in Nat
    BY Lengths
  <2> QED
    BY <1>1, <1>2, <2>1, <2>2, <2>3, <2>4 DEF Issuing
<1>4. Appended(r, u, N)
  BY <1>3, <1>b, AppendedLog
<1>5. log'[r][N + 1] = u /\ Continues(log, Counts, log', Counts')
  BY <1>4 DEF Appended
<1>6. History(log', Counts') /\ Applies(log', Seen(r), r, N + 1, Seen(r)')
  BY <1>3, <1>4, AppendedHistory
<1>7. \A s \in Replica \ {r} : state'[s] = state[s] /\ hook'[s] = hook[s]
  BY DEF Commit, CInv, LInv, IInv, TypeOK
<1>8. /\ \A j \in Key : \A s \in Replica : hook[r].dots[j][s] = {}
      /\ \A s \in Replica : hook[r].counters[s] = {}
  BY <1>2 DEF EmptyKernel, NoDots
<1>9. \A j \in Key : \A t \in Replica :
        Live(log', Counts', Seen(r), j, t) = state[r].dots[j][t]
  BY <1>5, SameLive, SeenPrefixes DEF CInv, Exact
<1>10. ASSUME NEW t \in Replica
       PROVE  Taken(log', Counts', r, N + 1, t) = V[t]
  <2>1. \A x : x \in Taken(log', Counts', r, N + 1, t) <=> x \in V[t]
    BY <1>5, <1>9, <1>c DEF Taken, DotsOf
  <2> QED
    BY <2>1
<1>11. \A j \in Key : \A s \in Replica : hook'[r].dots[j][s] = {}
  BY <1>1, <1>8 DEF DotsErased
<1>12. ASSUME NEW t \in Replica
       PROVE  hook'[r].counters[t] = V[t]
  <2> DEFINE d == CountersDelta(state[r], K)
  <2>1. hook'[r] = Merge("delta", hook[r], d)
    BY DEF Commit, CInv, LInv, IInv, TypeOK
  <2>2. d.counters[t] = V[t]
    BY DEF CountersDelta, DotsOf
  <2> HIDE DEF d, V
  <2>3. hook'[r].counters[t] = CountersMerge("delta", {}, V[t])
    <3>1. hook'[r].counters[t] = CountersMerge("delta", hook[r].counters[t], d.counters[t])
      BY <2>1, MergeCounters
    <3> QED
      BY <1>8, <2>2, <3>1
  <2> QED
    BY <2>3 DEF CountersMerge, Succeeds
<1>13. hook'[r] # EmptyKernel
  <2>1. PICK m \in K : TRUE
    OBVIOUS
  <2>2. PICK t \in Replica : state[r].dots[m][t] # {}
    BY <1>0, <2>1, StateKeys
  <2>3. V[t] # {}
    BY <2>2 DEF DotsOf
  <2> QED
    BY <1>12, <2>3 DEF EmptyKernel, NoDots
<1>14. Carries(log', Counts', hook'[r], r, N + 1)
  <2>1. \A t \in Replica : Bare(hook'[r], t) = hook'[r].counters[t]
    BY <1>11 DEF Bare
  <2>2. log'[r][N + 1].adds = {}
    BY <1>5, <1>c
  <2> QED
    BY <1>10, <1>11, <1>12, <2>1, <2>2 DEF Carries
<1>15. ASSUME NEW j \in Key, NEW t \in Replica
       PROVE  state'[r].dots[j][t] = Live(log', Counts', Seen(r)', j, t)
  <2>1. log'[r][N + 1].adds = {}
    BY <1>5, <1>c
  <2>2. Live(log', Counts', Seen(r)', j, t) =
          Live(log', Counts', Seen(r), j, t) \ Taken(log', Counts', r, N + 1, t)
    BY <1>6, <2>1, LiveRemoved DEF Taken
  <2> QED
    BY <1>1, <1>9, <1>10, <2>2 DEF DotsErased
<1> QED
  BY <1>0, <1>3, <1>4, <1>7, <1>13, <1>14, <1>15, CausalFrame

-----------------------------------------------------------------------------
(* Extractions.                                                            *)

LEMMA CausalExtracted ==
  ASSUME CInv, Disciplined, NEW r \in Replica, CausalExtract(r)
  PROVE  CInv'
<1>0. LInv /\ LInv' /\ Extract(r) /\ log' = log
  BY LinkExtract DEF CInv, CausalExtract
<1>a. PICK N \in Nat : N = Len(sent[r])
  BY Lengths
<1>b. PICK d : d = sent'[r][N + 1].delta
  OBVIOUS
<1>1. /\ hook' = [hook EXCEPT ![r] = EmptyKernel]
      /\ state' = state /\ got' = got /\ inserted' = inserted
      /\ Len(sent'[r]) = N + 1
      /\ \A s \in Replica \ {r} : sent'[s] = sent[s] /\ Last(s)' = Last(s)
  BY <1>0, <1>a, ExtractEffect
<1>2. /\ \A s \in Replica : \A i \in 1 .. Len(sent[s]) : sent'[s][i] = sent[s][i]
      /\ \A s \in Replica : \A i \in 0 .. Len(sent[s]) : Upto(s, i)' = Upto(s, i)
  BY <1>0, <1>a, ExtractEffect
<1>3. /\ Upto(r, N + 1)' = Len(inserted[r]) /\ Last(r)' = Len(inserted[r])
      /\ SameMarks(d, hook[r])
  BY <1>0, <1>a, <1>b, ExtractEffect
<1>4. sent'[r][N + 1].deps = got[r]
  BY <1>0, <1>a, NotesWhatItSaw DEF Disciplined
<1>5. /\ Tracked(r) /\ hook[r] # EmptyKernel /\ Len(log[r]) = N + 1
      /\ Carries(log, Counts, hook[r], r, N + 1)
  BY <1>0, <1>a DEF CInv, Tracked, Extract
<1>6. \A s \in Replica : Len(sent[s]) \in Nat /\ Len(log[s]) \in Nat /\ Len(sent[s]) <= Len(log[s])
  BY Lengths
<1>7. Counts' = Counts
  <2>1. ASSUME NEW s \in Replica, NEW i \in 0 .. Len(log[s])
        PROVE  (IF i <= Len(sent'[s]) THEN Upto(s, i)' ELSE Len(inserted[s]))
                 = (IF i <= Len(sent[s]) THEN Upto(s, i) ELSE Len(inserted[s]))
    <3>1. CASE i <= Len(sent[s])
      <4>1. i \in 0 .. Len(sent[s])
        BY <1>6, <3>1
      <4>2. Len(sent[s]) <= Len(sent'[s])
        BY <1>1, <1>6, <1>a
      <4>3. Len(sent'[s]) \in Nat
        BY <1>1, <1>6, <1>a
      <4>4. i <= Len(sent'[s])
        BY <1>6, <4>1, <4>2, <4>3
      <4> QED
        BY <1>2, <3>1, <4>1, <4>4
    <3>2. CASE ~(i <= Len(sent[s])) /\ s # r
      BY <1>1, <3>2
    <3>3. CASE ~(i <= Len(sent[s])) /\ s = r
      <4>1. i = N + 1
        BY <1>5, <1>a, <3>3
      <4> QED
        BY <1>1, <1>3, <3>3, <4>1
    <3> QED
      BY <3>1, <3>2, <3>3
  <2> QED
    BY <1>0, <1>1, <2>1 DEF Counts
<1>8. Carries(log, Counts, d, r, N + 1)
  <2>1. \A t \in Replica : Bare(d, t) = Bare(hook[r], t)
    BY <1>3, SameBare
  <2>2. \A k \in Key : d.dots[k][r] = hook[r].dots[k][r]
    BY <1>3 DEF SameMarks
  <2> QED
    BY <1>5, <2>1, <2>2 DEF Carries
<1>9. ASSUME NEW s \in Replica, NEW i \in 1 .. Len(sent'[s])
      PROVE  \/ i \in 1 .. Len(sent[s]) /\ sent'[s][i] = sent[s][i]
             \/ s = r /\ i = N + 1
  <2>1. CASE s # r
    BY <1>1, <1>2, <2>1
  <2>2. CASE s = r
    <3>1. i \in 1 .. N \/ i = N + 1
      BY <1>1, <2>2
    <3> QED
      BY <1>2, <1>a, <2>2, <3>1
  <2> QED
    BY <2>1, <2>2
<1>10. ASSUME NEW s \in Replica
       PROVE  Tracked(s)'
  <2>0. Tracked(s)
    BY DEF CInv
  <2>1. \A i \in 1 .. Len(sent'[s]) : Carries(log, Counts, sent'[s][i].delta, s, i)
    BY <1>8, <1>9, <1>b, <2>0 DEF Tracked
  <2>2. \A t \in Replica \ {s} : \A i \in 1 .. Len(sent'[s]) :
          log[s][i].past[t] <= sent'[s][i].deps[t]
    <3> SUFFICES ASSUME NEW t \in Replica \ {s}, NEW i \in 1 .. Len(sent'[s])
                 PROVE  log[s][i].past[t] <= sent'[s][i].deps[t]
      OBVIOUS
    <3>1. CASE i \in 1 .. Len(sent[s]) /\ sent'[s][i] = sent[s][i]
      BY <2>0, <3>1 DEF Tracked
    <3>2. CASE s = r /\ i = N + 1
      <4>1. i \in 1 .. Len(log[s])
        BY <1>5, <3>2
      <4> QED
        BY <1>4, <2>0, <3>2, <4>1 DEF Tracked
    <3> QED
      BY <1>9, <3>1, <3>2
  <2>3. CASE s = r
    <3>1. hook'[s] = EmptyKernel
      BY <1>0, <1>1, <2>3 DEF LInv, IInv, TypeOK
    <3> QED
      BY <1>0, <1>1, <1>3, <1>5, <1>7, <2>0, <2>1, <2>2, <2>3, <3>1 DEF Tracked
  <2>4. CASE s # r
    <3>1. hook'[s] = hook[s] /\ sent'[s] = sent[s] /\ Last(s)' = Last(s)
      BY <1>0, <1>1, <2>4 DEF LInv, IInv, TypeOK
    <3> QED
      BY <1>0, <1>1, <1>7, <2>0, <3>1 DEF Tracked
  <2> QED
    BY <2>3, <2>4
<1>11. ASSUME NEW s \in Replica
       PROVE  Exact(s)'
  <2>1. Seen(s)' = Seen(s)
    BY <1>0, <1>1 DEF Seen
  <2> QED
    BY <1>0, <1>1, <1>7, <2>1 DEF CInv, Exact
<1>12. LogOk'
  BY <1>0 DEF CInv, LogOk
<1>13. History(log', Counts')
  <2>1. History(log, Counts)
    BY DEF CInv
  <2> QED
    BY <1>0, <1>7, <2>1
<1> QED
  BY <1>0, <1>10, <1>11, <1>12, <1>13 DEF CInv

-----------------------------------------------------------------------------
(* Deliveries.                                                             *)

\* The i-th delta of s is the i-th update of s, which r applies next: what that update
\* observed has reached r.
LEMMA DeliveredNext ==
  ASSUME CInv, NEW r \in Replica, NEW s \in Replica, Deliver(r, s), log' = log,
         NEW i \in Nat, NEW d, NextFrom(r, s, i, d)
  PROVE  /\ Applies(log, Seen(r), s, i, Seen(r)')
         /\ Carries(log, Counts, d, s, i)
<1>0. LInv /\ History(log, Counts) /\ Tracked(s) /\ Tracked(r) /\ Exact(r)
  BY DEF CInv
<1>1. /\ s # r /\ i \in 1 .. Len(sent[s]) /\ i - 1 = got[r][s]
      /\ d = sent[s][i].delta /\ i = got[r][s] + 1
      /\ got'[r][s] = i
      /\ \A t \in Replica \ {s} : got'[r][t] = got[r][t]
  BY <1>0, DeliverEffect DEF NextFrom
<1>2. /\ Prefixes(log, Seen(r)) /\ Seen(r) \in [Replica -> Nat]
      /\ \A t \in Replica : Len(log[t]) \in Nat /\ Len(sent[t]) <= Len(log[t])
      /\ Len(sent[s]) \in Nat
  BY Lengths, SeenPrefixes
<1>3. i \in 1 .. Len(log[s])
  BY <1>1, <1>2
<1>4. /\ Seen(r)[s] = i - 1 /\ Seen(r)'[s] = i
      /\ \A t \in Replica \ {s} : Seen(r)'[t] = Seen(r)[t]
  BY <1>1 DEF Seen
<1>5. Prefixes(log, Seen(r)')
  <2> SUFFICES ASSUME NEW t \in Replica
               PROVE  Seen(r)'[t] \in 0 .. Len(log[t])
    BY DEF Prefixes
  <2>1. CASE t = s
    BY <1>2, <1>3, <1>4, <2>1
  <2>2. CASE t # s
    BY <1>2, <1>4, <2>2 DEF Prefixes
  <2> QED
    BY <2>1, <2>2
<1>6. ASSUME NEW t \in Replica
      PROVE  log[s][i].past[t] <= Seen(r)[t]
  <2>1. CASE t = s
    BY <1>0, <1>1, <1>3, <1>4, <2>1, UpdateOf
  <2>2. CASE t = r
    <3>1. log[s][i].past \in [Replica -> Nat] /\ Prefixes(log, log[s][i].past)
      BY <1>0, <1>3, UpdateOf, Lengths DEF Abstract!Update
    <3> QED
      BY <1>2, <2>2, <3>1, SeenPrefixes DEF Prefixes
  <2>3. CASE t # s /\ t # r
    <3>1. log[s][i].past[t] <= sent[s][i].deps[t]
      BY <1>0, <1>1, <2>3 DEF Tracked
    <3>2. sent[s][i].deps[t] <= got[r][t]
      BY <1>1, <2>3 DEF Deliver, Deliverable, Pending
    <3>3. /\ log[s][i].past[t] \in Nat /\ sent[s][i].deps[t] \in Nat /\ got[r][t] \in Nat
      <4>1. sent[s][i] \in Message
        <5>1. sent[s] \in Seq(Message)
          BY <1>0 DEF LInv, IInv, TypeOK
        <5> QED
          BY <1>1, <5>1
      <4>2. log[s][i].past[t] \in Nat
        BY <1>0, <1>3, UpdateOf
      <4> QED
        BY <1>0, <4>1, <4>2, SMTT(30) DEF Message, LInv, IInv, TypeOK
    <3>4. Seen(r)[t] = got[r][t]
      BY <2>3 DEF Seen
    <3> QED
      BY <3>1, <3>2, <3>3, <3>4
  <2> QED
    BY <2>1, <2>2, <2>3
<1>7. Applies(log, Seen(r), s, i, Seen(r)')
  BY <1>0, <1>2, <1>3, <1>4, <1>5, <1>6 DEF Applies, Below, Exact
<1>8. Carries(log, Counts, d, s, i)
  BY <1>0, <1>1 DEF Tracked
<1> QED
  BY <1>7, <1>8

LEMMA CausalDelivered ==
  ASSUME CInv, NEW r \in Replica, NEW s \in Replica, CausalDeliver(r, s)
  PROVE  CInv'
<1>0. LInv /\ LInv' /\ Deliver(r, s) /\ log' = log /\ History(log, Counts)
  BY LinkDeliver DEF CInv, CausalDeliver
<1>1. PICK i \in Nat : i = got[r][s] + 1 /\ i - 1 = got[r][s]
  <2>1. got[r][s] \in Nat
    BY DEF CInv, LInv, IInv, TypeOK
  <2> QED
    BY <2>1
<1>2. PICK d : d = sent[s][i].delta /\ NextFrom(r, s, i, d)
  BY <1>1 DEF NextFrom
<1>3. /\ s # r /\ i \in 1 .. Len(sent[s])
      /\ state'[r] = Merge("state", state[r], d)
      /\ \A t \in Replica \ {r} : state'[t] = state[t]
      /\ hook' = hook /\ sent' = sent /\ inserted' = inserted
      /\ got'[r][s] = i
      /\ \A t \in Replica : \A u \in Replica : t # r \/ u # s => got'[t][u] = got[t][u]
  BY <1>0, <1>1, <1>2, DeliverEffect
<1>4. /\ d \in Kernel /\ Supported(d) /\ DeltaOk(s, i)
      /\ MergedCleanly("state", state[r], d)
  BY <1>0, <1>1, <1>2, DeliverEffect
<1>5. Applies(log, Seen(r), s, i, Seen(r)') /\ Carries(log, Counts, d, s, i)
  BY <1>0, <1>1, <1>2, DeliveredNext
<1>6. Counts' = Counts /\ \A t : Last(t)' = Last(t)
  BY <1>0, <1>3 DEF Counts, Upto, Last
<1>7. \A t \in Replica : Valueless(d, t) = Bare(d, t)
  <2> SUFFICES ASSUME NEW t \in Replica
               PROVE  UNION {d.dots[k][t] : k \in d.keys} = UNION {d.dots[k][t] : k \in Key}
    BY DEF Valueless, Bare
  <2>1. d.keys \subseteq Key /\ \A k \in Key \ d.keys : d.dots[k][t] = {}
    BY <1>4 DEF Kernel, Supported
  <2> QED
    BY <2>1
<1>8. \A k \in Key : \A t \in Replica :
        state'[r].dots[k][t] =
          CountersMerge("state", state[r].dots[k][t], d.dots[k][t]) \ Bare(d, t)
  BY <1>3, <1>4, <1>7 DEF MergedCleanly
<1>9. \A k \in Key : \A t \in Replica :
        state[r].dots[k][t] = Live(log, Counts, Seen(r), k, t)
  BY DEF CInv, Exact
<1>10. \A k \in Key : \A t \in Replica : t # s => d.dots[k][t] = {}
  BY <1>2, <1>4 DEF DeltaOk
<1>11. AddsOrRemoves(log, Counts, s, i)
  BY <1>0, <1>5, UpdateOf DEF Applies
<1>12. ASSUME NEW j \in Key, NEW t \in Replica
       PROVE  state'[r].dots[j][t] = Live(log, Counts, Seen(r)', j, t)
  <2>1. state'[r].dots[j][t] =
          CountersMerge("state", Live(log, Counts, Seen(r), j, t), d.dots[j][t]) \ Bare(d, t)
    BY <1>8, <1>9
  <2>2. CASE \E k \in Key : log[s][i].adds = {k} /\ log[s][i].removes = {}
    <3>1. PICK k \in Key : log[s][i].adds = {k} /\ log[s][i].removes = {}
      BY <2>2
    <3>2. Bare(d, t) = {}
      BY <1>5, <3>1 DEF Carries, Taken
    <3>3. CASE j = k /\ t = s
      <4>1. d.dots[j][t] = {Counts[s][i]}
        BY <1>5, <3>1, <3>3 DEF Carries
      <4>2. /\ Live(log, Counts, Seen(r), j, t) = {}
            /\ Live(log, Counts, Seen(r)', j, t) = {Counts[s][i]}
        BY <1>0, <1>5, <3>1, <3>3, LiveAdded
      <4>3. Counts[s][i] \in Nat
        BY <1>0, <1>5 DEF Applies, History, Issues
      <4>4. CountersMerge("state", {}, {Counts[s][i]}) = {Counts[s][i]}
        BY <4>3 DEF CountersMerge, Collapse, Succeeds
      <4> QED
        BY <2>1, <3>2, <4>1, <4>2, <4>4
    <3>4. CASE ~(j = k /\ t = s)
      <4>1. d.dots[j][t] = {}
        BY <1>5, <1>10, <3>1, <3>4 DEF Carries
      <4>2. Live(log, Counts, Seen(r)', j, t) = Live(log, Counts, Seen(r), j, t)
        BY <1>0, <1>5, <3>1, <3>4, LiveAdded
      <4> QED
        BY <2>1, <3>2, <4>1, <4>2, CountersMergeNone
    <3> QED
      BY <3>3, <3>4
  <2>3. CASE log[s][i].adds = {}
    <3>1. d.dots[j][t] = {}
      BY <1>5, <1>10, <2>3 DEF Carries
    <3>2. Bare(d, t) = Taken(log, Counts, s, i, t)
      BY <1>5 DEF Carries
    <3>3. Live(log, Counts, Seen(r)', j, t) =
            Live(log, Counts, Seen(r), j, t) \ Taken(log, Counts, s, i, t)
      BY <1>0, <1>5, <2>3, LiveRemoved DEF Taken
    <3>4. CountersMerge("state", Live(log, Counts, Seen(r), j, t), {})
            = Live(log, Counts, Seen(r), j, t)
      BY CountersMergeNone
    <3> QED
      BY <2>1, <3>1, <3>2, <3>3, <3>4
  <2> QED
    BY <1>11, <2>2, <2>3 DEF AddsOrRemoves
<1>13. Exact(r)'
  <2>1. Closed(log, Seen(r)')
    BY <1>0, <1>5, ClosedNext
  <2> QED
    BY <1>0, <1>6, <1>12, <2>1 DEF Exact
<1>14. ASSUME NEW t \in Replica \ {r}
       PROVE  Exact(t)'
  <2>1. Seen(t)' = Seen(t)
    BY <1>0, <1>3 DEF Seen
  <2> QED
    BY <1>0, <1>3, <1>6, <2>1 DEF CInv, Exact
<1>15. ASSUME NEW t \in Replica
       PROVE  Tracked(t)'
  <2>1. Tracked(t)
    BY DEF CInv
  <2>2. ASSUME NEW u \in Replica \ {t}, NEW j \in 1 .. Len(log[t])
        PROVE  log[t][j].past[u] <= got'[t][u]
    <3>1. log[t][j].past[u] <= got[t][u]
      BY <2>1 DEF Tracked
    <3>2. log[t][j].past[u] \in Nat /\ got[t][u] \in Nat
      <4>1. log[t][j].past[u] \in Nat
        BY <1>0, UpdateOf
      <4> QED
        BY <1>0, <4>1 DEF LInv, IInv, TypeOK
    <3>3. got[t][u] <= got'[t][u] /\ got'[t][u] \in Nat
      <4>1. CASE t = r /\ u = s
        BY <1>1, <1>3, <3>2, <4>1
      <4>2. CASE ~(t = r /\ u = s)
        BY <1>3, <3>2, <4>2
      <4> QED
        BY <4>1, <4>2
    <3> QED
      BY <3>1, <3>2, <3>3
  <2> QED
    BY <1>0, <1>3, <1>6, <2>1, <2>2 DEF Tracked
<1>16. LogOk'
  BY <1>0 DEF CInv, LogOk
<1>17. History(log', Counts')
  BY <1>0, <1>6
<1> QED
  BY <1>0, <1>13, <1>14, <1>15, <1>16, <1>17 DEF CInv

-----------------------------------------------------------------------------
(* The refinement.                                                         *)

LEMMA CausalInitially == CausalInit => CInv
<1> SUFFICES ASSUME CausalInit
             PROVE  CInv
  OBVIOUS
<1>1. LInv
  BY LinkInit DEF CausalInit
<1>2. /\ \A s \in Replica : /\ state[s] = EmptyKernel /\ hook[s] = EmptyKernel
                            /\ sent[s] = <<>> /\ inserted[s] = <<>> /\ log[s] = <<>>
      /\ \A s, t \in Replica : got[s][t] = 0
  BY DEF CausalInit, Init, Zero
<1>3. LogOk
  BY DEF CausalInit, LogOk
<1>4. \A s \in Replica : Len(log[s]) = 0 /\ Len(sent[s]) = 0 /\ Len(inserted[s]) = 0
  BY <1>2
<1>5. \A s \in Replica : Last(s) = 0
  BY <1>4 DEF Last, Upto
<1>6. \A s \in Replica : Counts[s][0] = 0
  BY <1>4 DEF Counts, Upto
<1>7. History(log, Counts)
  BY <1>4, <1>6 DEF History, Issues
<1>8. \A s, t \in Replica : Seen(s)[t] = 0
  BY <1>2, <1>4 DEF Seen
<1>9. \A s \in Replica : Tracked(s)
  BY <1>2, <1>4, <1>5 DEF Tracked
<1>10. ASSUME NEW s \in Replica
       PROVE  Exact(s)
  <2>1. Closed(log, Seen(s))
    BY <1>8 DEF Closed
  <2>2. \A k \in Key : \A t \in Replica : Live(log, Counts, Seen(s), k, t) = {}
    BY <1>8 DEF Live
  <2>3. \A k \in Key : \A t \in Replica : state[s].dots[k][t] = {}
    BY <1>2 DEF EmptyKernel, NoDots
  <2> QED
    BY <2>1, <2>2, <2>3 DEF Exact
<1> QED
  BY <1>1, <1>3, <1>7, <1>9, <1>10 DEF CInv

LEMMA CausalStep ==
  ASSUME CInv, Disciplined, [CausalNext]_cvars
  PROVE  CInv'
<1>1. CASE UNCHANGED cvars
  <2>1. /\ state' = state /\ hook' = hook /\ sent' = sent /\ got' = got
        /\ inserted' = inserted /\ erased' = erased /\ log' = log
    BY <1>1 DEF cvars
  <2>2. LInv'
    <3>1. LInv /\ [Next]_vars
      BY <2>1 DEF CInv, vars
    <3> QED
      BY <3>1, LinkStep
  <2>3. /\ Counts' = Counts /\ \A s : Last(s)' = Last(s)
        /\ \A s \in Replica : Seen(s)' = Seen(s)
    BY <2>1 DEF Counts, Upto, Last, Seen
  <2>4. \A s \in Replica : Tracked(s)' /\ Exact(s)'
    BY <2>1, <2>3 DEF CInv, Tracked, Exact
  <2>5. LogOk' /\ History(log', Counts')
    BY <2>1, <2>3 DEF CInv, LogOk
  <2> QED
    BY <2>2, <2>4, <2>5 DEF CInv
<1>2. ASSUME NEW r \in Replica, CausalUpdate(r)
      PROVE  CInv'
  <2>1. ASSUME NEW k \in Key, Insert(r, k), Record(r, {k}, {})
        PROVE  CInv'
    BY <2>1, CausalInsert
  <2>2. ASSUME NEW k \in Key, Erase(r, k), Record(r, {}, {k})
        PROVE  CInv'
    <3>1. {k} \in SUBSET Key /\ {k} \subseteq state[r].keys /\ {k} # {} /\ MayUpdate(r)
      BY <2>2 DEF Erase
    <3>2. Commit(r, CountersDelta(state[r], {k})) /\ Forget(r, {k}) /\ UNCHANGED inserted
      BY <2>2 DEF Erase
    <3> QED
      BY <2>2, <3>1, <3>2, CausalErase
  <2>3. ASSUME Clear(r), Record(r, {}, state[r].keys)
        PROVE  CInv'
    <3> DEFINE K == state[r].keys
    <3>1. K \in SUBSET Key /\ K \subseteq state[r].keys /\ K # {} /\ MayUpdate(r)
      BY <2>3, StateKeys DEF Clear, CInv
    <3>2. Commit(r, CountersDelta(state[r], K)) /\ Forget(r, K) /\ UNCHANGED inserted
      BY <2>3 DEF Clear
    <3>3. Record(r, {}, K)
      BY <2>3
    <3> HIDE DEF K
    <3> QED
      BY <3>1, <3>2, <3>3, CausalErase
  <2> QED
    BY <1>2, <2>1, <2>2, <2>3 DEF CausalUpdate
<1> QED
  BY <1>1, <1>2, CausalExtracted, CausalDelivered DEF CausalNext

\* What each replica holds is what its history of applied updates says.
THEOREM HistoryDecides ==
  ASSUME Disciplined
  PROVE  CausalSpec => []CInv
<1>1. CInv /\ [CausalNext]_cvars => CInv'
  BY CausalStep
<1> QED
  BY <1>1, CausalInitially, PTL DEF CausalSpec

\* What a reader of the kernel l sees when its dots are the live ones.
LEMMA ContentIs ==
  ASSUME NEW l \in Kernel, Linked(l), NEW g, NEW q, NEW v,
         \A k \in Key : \A t \in Replica : l.dots[k][t] = Live(g, q, v, k, t)
  PROVE  l.keys = Abstract!Value(g, v)
<1>1. ASSUME NEW k \in Key
      PROVE  k \in l.keys <=> k \in Abstract!Value(g, v)
  <2>1. k \in l.keys <=> \E t \in Replica : Live(g, q, v, k, t) # {}
    BY KeysHaveDots
  <2>2. ASSUME NEW t \in Replica
        PROVE  Live(g, q, v, k, t) # {} <=> \E i \in 1 .. v[t] : Alive(g, v, k, t, i)
    BY DEF Live
  <2> QED
    BY <2>1, <2>2 DEF Abstract!Value, Alive
<1>2. l.keys \subseteq Key /\ Abstract!Value(g, v) \subseteq Key
  BY KeysHaveDots DEF Abstract!Value
<1> QED
  BY <1>1, <1>2

\* What a reader sees after a step.
LEMMA ContentAfter ==
  ASSUME CInv', NEW r \in Replica
  PROVE  state'[r].keys = Abstract!Value(log', Seen(r)')
<1>1. /\ state'[r] \in Kernel /\ Linked(state'[r])
      /\ \A k \in Key : \A t \in Replica :
           state'[r].dots[k][t] = Live(log', Counts', Seen(r)', k, t)
  BY DEF CInv, LInv, IInv, TypeOK, StateOk, Exact
<1> QED
  BY <1>1, ContentIs

\* An update at r, as an update of the abstract set.
LEMMA IssueRefined ==
  ASSUME CInv, CInv', NEW r \in Replica, NEW adds, NEW removes, removes \subseteq state[r].keys,
         Record(r, adds, removes), got' = got,
         \A s \in Replica \ {r} : state'[s] = state[s]
  PROVE  Abstract!Issue(r, adds, removes)
<1> DEFINE seen == [t \in Replica |-> Seen(t)]
           content == [t \in Replica |-> state[t].keys]
<1>1. Len(log'[r]) = Len(log[r]) + 1 /\ \A s \in Replica \ {r} : log'[s] = log[s]
  <2>1. PICK u : u = [adds |-> adds, removes |-> removes, past |-> Seen(r)]
    OBVIOUS
  <2>2. log[r] \in Seq(Abstract!Update) /\ log' = [log EXCEPT ![r] = Append(@, u)]
        /\ DOMAIN log = Replica
    BY <2>1 DEF CInv, LogOk, Record
  <2> DEFINE w == log[r]
             U == Abstract!Update
  <2>3. w \in Seq(U) /\ log'[r] = Append(w, u)
    BY <2>2
  <2> HIDE DEF w, U
  <2>4. Len(log'[r]) = Len(w) + 1
    BY <2>3
  <2> QED
    BY <2>2, <2>4 DEF w
<1>2. \A s, t \in Replica : Seen(s)'[t] = IF s = r /\ t = r THEN Seen(r)[r] + 1 ELSE Seen(s)[t]
  BY <1>1 DEF Seen
<1>3. seen' = [seen EXCEPT ![r][r] = @ + 1]
  <2>1. \A s \in Replica : Seen(s)' = IF s = r THEN [Seen(r) EXCEPT ![r] = @ + 1] ELSE Seen(s)
    BY <1>2 DEF Seen
  <2> QED
    BY <2>1
<1>4. content' = [content EXCEPT ![r] = Abstract!Value(log', seen'[r])]
  BY ContentAfter
<1> QED
  BY <1>3, <1>4 DEF Abstract!Issue, Record

\* A delivery, as the abstract set receiving one update.
LEMMA ReceiveRefined ==
  ASSUME CInv, CInv', NEW r \in Replica, NEW s \in Replica, CausalDeliver(r, s)
  PROVE  \E n \in 1 .. Len(log[s]) : Abstract!Receive(r, s, n)
<1> DEFINE seen == [t \in Replica |-> Seen(t)]
           content == [t \in Replica |-> state[t].keys]
<1>1. LInv /\ Deliver(r, s) /\ log' = log
  BY DEF CInv, CausalDeliver
<1>2. PICK i \in Nat : i = got[r][s] + 1
  BY <1>1 DEF LInv, IInv, TypeOK
<1>3. PICK d : NextFrom(r, s, i, d)
  BY <1>2 DEF NextFrom
<1>4. /\ s # r /\ i \in 1 .. Len(sent[s]) /\ got[r][s] = i - 1
      /\ \A t \in Replica \ {r} : state'[t] = state[t]
      /\ got'[r][s] = i
      /\ \A t \in Replica : \A u \in Replica : t # r \/ u # s => got'[t][u] = got[t][u]
  BY <1>1, <1>3, DeliverEffect
<1>5. i \in 1 .. Len(log[s])
  BY <1>4, Lengths
<1>6. \A t, u \in Replica : Seen(t)'[u] = IF t = r /\ u = s THEN i ELSE Seen(t)[u]
  BY <1>1, <1>4 DEF Seen
<1>7. seen' = [seen EXCEPT ![r][s] = i]
  <2>1. \A t \in Replica : Seen(t)' = IF t = r THEN [Seen(r) EXCEPT ![s] = i] ELSE Seen(t)
    BY <1>6 DEF Seen
  <2> QED
    BY <2>1
<1>8. seen[r][s] < i
  <2>1. Seen(r)[s] = i - 1
    BY <1>4 DEF Seen
  <2> QED
    BY <2>1
<1>9. content' = [content EXCEPT ![r] = Abstract!Value(log, seen'[r])]
  BY <1>1, <1>4, ContentAfter
<1>10. Abstract!Receive(r, s, i)
  BY <1>1, <1>7, <1>8, <1>9 DEF Abstract!Receive
<1> QED
  BY <1>5, <1>10

\* Every step is a step of the abstract set, or none.
LEMMA StepRefined ==
  ASSUME CInv, CInv', [CausalNext]_cvars
  PROVE  [Abstract!Next]_(Abstract!vars)
<1>1. CASE UNCHANGED cvars
  BY <1>1 DEF cvars, Abstract!vars, Seen
<1>2. ASSUME NEW r \in Replica, CausalUpdate(r)
      PROVE  Abstract!Next
  <2>1. ASSUME NEW adds \in SUBSET Key, NEW removes \in SUBSET Key, NEW d,
               removes \subseteq state[r].keys, Record(r, adds, removes), Commit(r, d)
        PROVE  Abstract!Next
    <3>1. got' = got /\ \A s \in Replica \ {r} : state'[s] = state[s]
      BY <2>1 DEF Commit, CInv, LInv, IInv, TypeOK
    <3>2. Abstract!Issue(r, adds, removes)
      BY <2>1, <3>1, IssueRefined
    <3> QED
      BY <3>2 DEF Abstract!Next
  <2>2. ASSUME NEW k \in Key, Insert(r, k), Record(r, {k}, {})
        PROVE  Abstract!Next
    BY <2>1, <2>2 DEF Insert
  <2>3. ASSUME NEW k \in Key, Erase(r, k), Record(r, {}, {k})
        PROVE  Abstract!Next
    BY <2>1, <2>3 DEF Erase
  <2>4. ASSUME Clear(r), Record(r, {}, state[r].keys)
        PROVE  Abstract!Next
    <3>1. state[r].keys \in SUBSET Key
      BY StateKeys DEF CInv
    <3> QED
      BY <2>1, <2>4, <3>1 DEF Clear
  <2> QED
    BY <1>2, <2>2, <2>3, <2>4 DEF CausalUpdate
<1>3. ASSUME NEW r \in Replica, CausalExtract(r)
      PROVE  UNCHANGED Abstract!vars
  BY <1>3 DEF CausalExtract, Extract, Abstract!vars, Seen
<1>4. ASSUME NEW r \in Replica, NEW s \in Replica, CausalDeliver(r, s)
      PROVE  Abstract!Next
  BY <1>4, ReceiveRefined DEF Abstract!Next
<1> QED
  BY <1>1, <1>2, <1>3, <1>4 DEF CausalNext

LEMMA InitRefined ==
  ASSUME CausalInit
  PROVE  Abstract!Init
<1>1. \A r \in Replica : state[r].keys = {} /\ got[r] = Zero /\ log[r] = <<>>
  BY DEF CausalInit, Init, EmptyKernel
<1>2. \A r, s \in Replica : Seen(r)[s] = 0
  BY <1>1 DEF Seen, Zero
<1>3. \A r \in Replica : Seen(r) = [s \in Replica |-> 0]
  BY <1>2 DEF Seen
<1> QED
  BY <1>1, <1>3 DEF Abstract!Init, CausalInit

\* Used with all three disciplines, the replicated set is an observed-remove set:
\* every insert, erase, clear, extraction and merge is a step of ORSet or changes nothing
\* that a reader sees.
THEOREM SetIsORSet ==
  ASSUME Disciplined
  PROVE  CausalSpec => ImplementsORSet
<1>1. CInv /\ CInv' /\ [CausalNext]_cvars => [Abstract!Next]_(Abstract!vars)
  BY StepRefined
<1>2. CausalInit => Abstract!Init
  BY InitRefined
<1>3. CausalSpec => []CInv
  BY HistoryDecides
<1> QED
  BY <1>1, <1>2, <1>3, PTL DEF CausalSpec, ImplementsORSet, Abstract!Spec

\* Replicas that have applied the same updates hold the same elements with the same dots,
\* and the same links to them.
THEOREM SameUpdatesSameDots ==
  ASSUME Disciplined
  PROVE  CausalSpec => []SameSeenSameDots
<1>1. CInv => SameSeenSameDots
  <2> SUFFICES ASSUME CInv, NEW r \in Replica, NEW s \in Replica, Seen(r) = Seen(s)
               PROVE  SameElements(state[r], state[s])
    BY DEF SameSeenSameDots
  <2>1. /\ state[r] \in Kernel /\ Linked(state[r])
        /\ state[s] \in Kernel /\ Linked(state[s])
    BY DEF CInv, LInv, IInv, TypeOK, StateOk
  <2>2. \A k \in Key : \A t \in Replica : state[r].dots[k][t] = state[s].dots[k][t]
    BY DEF CInv, Exact
  <2> QED
    BY <2>1, <2>2, SameDots
<1>2. CausalSpec => []CInv
  BY HistoryDecides
<1> QED
  BY <1>1, <1>2, PTL

\* When every extracted delta has reached every replica and nothing is left to extract,
\* all replicas hold the same elements.
THEOREM DeliveredConverge ==
  ASSUME Disciplined
  PROVE  CausalSpec => []Converged
<1>1. CInv => Converged
  <2> SUFFICES ASSUME CInv, Quiet, NEW r \in Replica, NEW s \in Replica
               PROVE  state[r].keys = state[s].keys
    BY DEF Converged
  <2>1. ASSUME NEW t \in Replica
        PROVE  Len(log[t]) = Len(sent[t])
    BY DEF Quiet, CInv, Tracked
  <2>2. Seen(r) = Seen(s)
    BY <2>1 DEF Quiet, Seen
  <2>3. /\ state[r] \in Kernel /\ Linked(state[r])
        /\ state[s] \in Kernel /\ Linked(state[s])
    BY DEF CInv, LInv, IInv, TypeOK, StateOk
  <2>4. /\ \A k \in Key : \A t \in Replica :
             state[r].dots[k][t] = Live(log, Counts, Seen(r), k, t)
        /\ \A k \in Key : \A t \in Replica :
             state[s].dots[k][t] = Live(log, Counts, Seen(s), k, t)
    BY DEF CInv, Exact
  <2>5. /\ state[r].keys = Abstract!Value(log, Seen(r))
        /\ state[s].keys = Abstract!Value(log, Seen(s))
    BY <2>3, <2>4, ContentIs
  <2> QED
    BY <2>2, <2>5
<1>2. CausalSpec => []CInv
  BY HistoryDecides
<1> QED
  BY <1>1, <1>2, PTL
=============================================================================
