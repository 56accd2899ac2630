--------------------------- MODULE CrdtSetProofs ---------------------------
(***************************************************************************)
(* Theorems about CrdtSet, for every set of replicas and of keys, every    *)
(* bound and every discipline (Eager, FreshInserts, Causal): first about   *)
(* the dots, then about the links and what the hooks hold, last about the  *)
(* content and the inserts.                                                *)
(***************************************************************************)
EXTENDS CrdtSet, DotKernelProofs

\* The counters a replica has issued, and those it issued for a key.
Issued == [s \in Replica |-> 1 .. Len(inserted[s])]
IssuedFor == [k \in Key |-> [s \in Replica |->
                {c \in 1 .. Len(inserted[s]) : inserted[s][c] = k}]]

Own(l) == Within(l, IssuedFor, Issued)

\* Every kernel holds issued counters only, and under each key dots issued for it.
KernelsOwned ==
  /\ \A r \in Replica : Own(state[r]) /\ Own(hook[r])
  /\ \A r \in Replica : \A i \in 1 .. Len(sent[r]) : Own(sent[r][i].delta)

\* A replica's state has its last dot on record. The next dot is taken from the record,
\* so this is what keeps the dots distinct.
TopRecorded ==
  \A s \in Replica : Len(inserted[s]) = 0 \/ Len(inserted[s]) \in state[s].counters[s]

IInv == TypeOK /\ KernelsOwned /\ TopRecorded

-----------------------------------------------------------------------------

LEMMA InitInvariant == Init => IInv
<1> SUFFICES ASSUME Init PROVE IInv
  OBVIOUS
<1>1. TypeOK
  BY EmptyKernelType DEF Init, TypeOK, Zero
<1>2. Own(EmptyKernel)
  BY DEF Own, Within, EmptyKernel, NoDots
<1>3. KernelsOwned
  BY <1>2 DEF Init, KernelsOwned
<1>4. TopRecorded
  BY DEF Init, TopRecorded
<1> QED
  BY <1>1, <1>3, <1>4 DEF IInv

\* The next dot of a replica is the successor of its last one.
LEMMA NextDotValue ==
  ASSUME IInv, NEW r \in Replica
  PROVE  NextDot(r) = Len(inserted[r]) + 1 /\ Len(inserted[r]) \in Nat
<1>1. Len(inserted[r]) \in Nat
  BY DEF IInv, TypeOK
<1>2. state[r].counters[r] \in SUBSET (1 .. Len(inserted[r]))
  BY DEF IInv, KernelsOwned, Own, Within, Issued
<1>3. Len(inserted[r]) = 0 \/ Len(inserted[r]) \in state[r].counters[r]
  BY DEF IInv, TopRecorded
<1> QED
  BY <1>1, <1>2, <1>3, NextCounterIsSuccessor DEF NextDot

\* A delta of known dots joins the state and the hook of a replica: types.
LEMMA CommitType ==
  ASSUME TypeOK, NEW r \in Replica, NEW d \in Kernel, Commit(r, d)
  PROVE  /\ state' \in [Replica -> Kernel]
         /\ hook' \in [Replica -> Kernel]
         /\ sent' \in [Replica -> Seq(Message)]
         /\ got' \in [Replica -> [Replica -> Nat]]
<1>1. Merge("state", state[r], d) \in Kernel /\ Merge("delta", hook[r], d) \in Kernel
  BY MergeType DEF TypeOK
<1> QED
  BY <1>1 DEF Commit, TypeOK

\* The dots recorded as erased are dots.
LEMMA ForgetType ==
  ASSUME TypeOK, NEW r \in Replica, NEW K \in SUBSET Key, Forget(r, K)
  PROVE  erased' \in [Replica -> SUBSET (Nat \ {0})]
<1>1. \A s \in Replica : UNION {state[r].dots[k][s] : k \in K} \subseteq Nat \ {0}
  BY DEF TypeOK, Kernel, Dots
<1> QED
  BY <1>1 DEF Forget, TypeOK

\* Erase and clear: a delta of counters that the state of the replica holds as dots.
LEMMA EraseStep ==
  ASSUME IInv, NEW r \in Replica, NEW K \in SUBSET Key,
         Commit(r, CountersDelta(state[r], K)), Forget(r, K), UNCHANGED inserted
  PROVE  IInv'
<1> DEFINE d == CountersDelta(state[r], K)
<1>1. d \in Kernel
  BY CountersDeltaType DEF IInv, TypeOK
<1>2. TypeOK'
  BY <1>1, CommitType, ForgetType DEF IInv, TypeOK
<1>3. Own(d)
  <2>1. \A s \in Replica : d.counters[s] = UNION {state[r].dots[k][s] : k \in K}
    BY DEF CountersDelta, EmptyKernel
  <2>2. \A s \in Replica : \A k \in K : state[r].dots[k][s] \subseteq Issued[s]
    BY DEF IInv, KernelsOwned, Own, Within, Issued, IssuedFor
  <2>3. \A s \in Replica : d.counters[s] \subseteq Issued[s]
    BY <2>1, <2>2
  <2>4. \A k \in Key : \A s \in Replica : d.dots[k][s] = {}
    BY DEF CountersDelta, EmptyKernel, NoDots
  <2> QED
    BY <2>3, <2>4 DEF Own, Within
<1>4. Own(Merge("state", state[r], d)) /\ Own(Merge("delta", hook[r], d))
  BY <1>1, <1>3, MergeWithin DEF IInv, TypeOK, KernelsOwned, Own
<1>5. KernelsOwned'
  BY <1>4 DEF IInv, TypeOK, KernelsOwned, Commit, Own, Issued, IssuedFor
<1>6. TopRecorded'
  <2>1. ASSUME NEW s \in Replica, Len(inserted[s]) # 0
        PROVE  Len(inserted[s]) \in state'[s].counters[s]
    <3>1. CASE s # r
      BY <2>1, <3>1 DEF IInv, TypeOK, TopRecorded, Commit
    <3>2. CASE s = r
      <4>1. state'[r].counters[r] =
              CountersMerge("state", state[r].counters[r], d.counters[r])
        BY DEF Commit, Merge, IInv, TypeOK
      <4>2. /\ state[r].counters[r] \subseteq 1 .. Len(inserted[r])
            /\ d.counters[r] \subseteq 1 .. Len(inserted[r])
        BY <1>3 DEF IInv, KernelsOwned, Own, Within, Issued
      <4>3. Len(inserted[r]) \in state[r].counters[r] /\ Len(inserted[r]) \in Nat
        BY <2>1, <3>2 DEF IInv, TypeOK, TopRecorded
      <4> QED
        BY <3>2, <4>1, <4>2, <4>3, CountersMergeTop
    <3> QED
      BY <3>1, <3>2
  <2> QED
    BY <2>1 DEF TopRecorded
<1> QED
  BY <1>2, <1>5, <1>6 DEF IInv

\* A further insert of replica r only adds to the issued counters.
LEMMA IssuedGrows ==
  ASSUME TypeOK, NEW r \in Replica, NEW k \in Key,
         inserted' = [inserted EXCEPT ![r] = Append(@, k)]
  PROVE  /\ \A s \in Replica : Issued[s] \subseteq Issued'[s]
         /\ \A j \in Key : \A s \in Replica : IssuedFor[j][s] \subseteq IssuedFor'[j][s]
<1>1. ASSUME NEW s \in Replica
      PROVE  /\ Len(inserted[s]) \in Nat
             /\ Len(inserted'[s]) \in Nat
             /\ Len(inserted[s]) <= Len(inserted'[s])
             /\ \A c \in 1 .. Len(inserted[s]) : inserted'[s][c] = inserted[s][c]
  BY DEF TypeOK
<1>2. \A s \in Replica : Issued[s] \subseteq Issued'[s]
  BY <1>1 DEF Issued
<1>3. \A j \in Key : \A s \in Replica : IssuedFor[j][s] \subseteq IssuedFor'[j][s]
  BY <1>1 DEF IssuedFor
<1> QED
  BY <1>2, <1>3

LEMMA InsertStep ==
  ASSUME IInv, NEW r \in Replica, NEW k \in Key, Insert(r, k)
  PROVE  IInv'
<1> DEFINE n == Len(inserted[r])
           d == ValueDelta(k, r, n + 1)
<1>1. n \in Nat /\ NextDot(r) = n + 1
  BY NextDotValue
<1>2. Commit(r, d)
  BY <1>1 DEF Insert
<1>3. d \in Kernel
  BY <1>1, ValueDeltaType
<1>4. inserted' = [inserted EXCEPT ![r] = Append(@, k)]
  BY DEF Insert
<1>5. /\ inserted' \in [Replica -> Seq(Key)]
      /\ Len(inserted'[r]) = n + 1
      /\ inserted'[r][n + 1] = k
      /\ \A s \in Replica \ {r} : inserted'[s] = inserted[s]
  BY <1>4 DEF IInv, TypeOK
<1>6. TypeOK'
  BY <1>2, <1>3, <1>5, CommitType DEF Insert, IInv, TypeOK
<1>7. Within(d, IssuedFor', Issued')
  <2>1. \A s \in Replica : d.counters[s] = IF s = r THEN {n + 1} ELSE {}
    BY DEF ValueDelta, EmptyKernel, NoDots
  <2>2. \A j \in Key : \A s \in Replica :
          d.dots[j][s] = IF j = k /\ s = r THEN {n + 1} ELSE {}
    BY DEF ValueDelta, EmptyKernel, NoDots
  <2>3. n + 1 \in Issued'[r] /\ n + 1 \in IssuedFor'[k][r]
    BY <1>1, <1>5 DEF Issued, IssuedFor
  <2> QED
    BY <2>1, <2>2, <2>3 DEF Within
<1>8. /\ \A s \in Replica : Within(state[s], IssuedFor', Issued')
      /\ \A s \in Replica : Within(hook[s], IssuedFor', Issued')
      /\ \A s \in Replica : \A i \in 1 .. Len(sent[s]) :
           Within(sent[s][i].delta, IssuedFor', Issued')
  BY <1>4, IssuedGrows, WithinGrows DEF IInv, KernelsOwned, Own
<1>9. /\ Within(Merge("state", state[r], d), IssuedFor', Issued')
      /\ Within(Merge("delta", hook[r], d), IssuedFor', Issued')
  BY <1>3, <1>7, <1>8, MergeWithin DEF IInv, TypeOK
<1>10. KernelsOwned'
  BY <1>2, <1>8, <1>9 DEF IInv, TypeOK, KernelsOwned, Commit, Own
<1>11. TopRecorded'
  <2>1. ASSUME NEW s \in Replica \ {r}
        PROVE  Len(inserted'[s]) = 0 \/ Len(inserted'[s]) \in state'[s].counters[s]
    BY <1>2, <1>5 DEF IInv, TypeOK, TopRecorded, Commit
  <2>2. n + 1 \in state'[r].counters[r]
    <3>1. state'[r].counters[r] =
            CountersMerge("state", state[r].counters[r], d.counters[r])
      BY <1>2 DEF Commit, Merge, IInv, TypeOK
    <3>2. d.counters[r] = {n + 1}
      BY DEF ValueDelta, EmptyKernel, NoDots
    <3>3. state[r].counters[r] \subseteq 1 .. n
      BY DEF IInv, KernelsOwned, Own, Within, Issued
    <3> QED
      BY <1>1, <3>1, <3>2, <3>3, CountersMergeTop
  <2> QED
    BY <1>5, <2>1, <2>2 DEF TopRecorded
<1> QED
  BY <1>6, <1>10, <1>11 DEF IInv

LEMMA ExtractStep ==
  ASSUME IInv, NEW r \in Replica, Extract(r)
  PROVE  IInv'
<1> DEFINE d == Merge("delta", EmptyKernel, hook[r])
           m == Envelope(r)
<1>1. d \in Kernel
  BY EmptyKernelType, MergeType DEF IInv, TypeOK
<1>2. m \in Message
  BY <1>1 DEF Envelope, Message, Zero, IInv, TypeOK
<1>3. sent' = [sent EXCEPT ![r] = Append(@, m)] /\ hook' = [hook EXCEPT ![r] = EmptyKernel]
  BY DEF Extract
<1>4. TypeOK'
  BY <1>2, <1>3, EmptyKernelType DEF Extract, IInv, TypeOK
<1>5. Own(EmptyKernel)
  BY DEF Own, Within, EmptyKernel, NoDots
<1>6. Own(d)
  BY <1>5, EmptyKernelType, MergeWithin DEF IInv, TypeOK, KernelsOwned, Own
<1>7. ASSUME NEW s \in Replica, NEW i \in 1 .. Len(sent'[s])
      PROVE  Own(sent'[s][i].delta)
  <2>1. CASE s = r /\ i = Len(sent[r]) + 1
    BY <1>3, <1>6, <2>1 DEF Envelope, IInv, TypeOK
  <2>2. CASE ~(s = r /\ i = Len(sent[r]) + 1)
    <3>1. i \in 1 .. Len(sent[s]) /\ sent'[s][i] = sent[s][i]
      BY <1>3, <2>2 DEF IInv, TypeOK
    <3> QED
      BY <3>1 DEF IInv, KernelsOwned
  <2> QED
    BY <2>1, <2>2
<1>8. KernelsOwned'
  <2>1. Issued' = Issued /\ IssuedFor' = IssuedFor /\ state' = state
    BY DEF Extract, Issued, IssuedFor
  <2>2. \A s \in Replica : Own(state[s]) /\ Own(hook'[s])
    BY <1>3, <1>5 DEF IInv, TypeOK, KernelsOwned
  <2> QED
    BY <1>7, <2>1, <2>2 DEF KernelsOwned, Own
<1>9. TopRecorded'
  BY DEF Extract, IInv, TopRecorded
<1> QED
  BY <1>4, <1>8, <1>9 DEF IInv

LEMMA DeliverStep ==
  ASSUME IInv, NEW r \in Replica, NEW s \in Replica, Deliver(r, s)
  PROVE  IInv'
<1> DEFINE d == Pending(r, s).delta
           i == got[r][s] + 1
<1>1. s # r /\ i \in 1 .. Len(sent[s]) /\ sent[s][i] \in Message
  BY DEF Deliver, Deliverable, IInv, TypeOK
<1>2. d \in Kernel /\ Own(d)
  BY <1>1 DEF Pending, Message, IInv, KernelsOwned
<1>3. state' = [state EXCEPT ![r] = Merge("state", state[r], d)]
  BY DEF Deliver
<1>4. Merge("state", state[r], d) \in Kernel /\ Own(Merge("state", state[r], d))
  BY <1>2, MergeType, MergeWithin DEF IInv, TypeOK, KernelsOwned, Own
<1>5. TypeOK'
  BY <1>3, <1>4 DEF Deliver, IInv, TypeOK
<1>6. KernelsOwned'
  <2>1. /\ Issued' = Issued /\ IssuedFor' = IssuedFor
        /\ hook' = hook /\ sent' = sent
    BY DEF Deliver, Issued, IssuedFor
  <2>2. \A t \in Replica : Own(state'[t])
    BY <1>3, <1>4 DEF IInv, TypeOK, KernelsOwned
  <2> QED
    BY <2>1, <2>2 DEF IInv, KernelsOwned, Own
<1>7. TopRecorded'
  <2>1. inserted' = inserted
    BY DEF Deliver
  <2>2. ASSUME NEW t \in Replica, Len(inserted[t]) # 0
        PROVE  Len(inserted[t]) \in state'[t].counters[t]
    <3>1. CASE t # r
      BY <1>3, <2>2, <3>1 DEF IInv, TypeOK, TopRecorded
    <3>2. CASE t = r
      <4>1. state'[r].counters[r] =
              CountersMerge("state", state[r].counters[r], d.counters[r])
        BY <1>3 DEF Merge, IInv, TypeOK
      <4>2. /\ state[r].counters[r] \subseteq 1 .. Len(inserted[r])
            /\ d.counters[r] \subseteq 1 .. Len(inserted[r])
        BY <1>2 DEF IInv, KernelsOwned, Own, Within, Issued
      <4>3. Len(inserted[r]) \in state[r].counters[r] /\ Len(inserted[r]) \in Nat
        BY <2>2, <3>2 DEF IInv, TypeOK, TopRecorded
      <4> QED
        BY <3>2, <4>1, <4>2, <4>3, CountersMergeTop
    <3> QED
      BY <3>1, <3>2
  <2> QED
    BY <2>1, <2>2 DEF TopRecorded
<1> QED
  BY <1>5, <1>6, <1>7 DEF IInv

LEMMA StepInvariant == IInv /\ [Next]_vars => IInv'
<1> SUFFICES ASSUME IInv, [Next]_vars PROVE IInv'
  OBVIOUS
<1>1. ASSUME NEW r \in Replica, NEW k \in Key, Insert(r, k)
      PROVE  IInv'
  BY <1>1, InsertStep
<1>2. ASSUME NEW r \in Replica, NEW k \in Key, Erase(r, k)
      PROVE  IInv'
  BY <1>2, EraseStep DEF Erase
<1>3. ASSUME NEW r \in Replica, Clear(r)
      PROVE  IInv'
  <2>1. state[r].keys \in SUBSET Key
    BY DEF IInv, TypeOK, Kernel
  <2> QED
    BY <1>3, <2>1, EraseStep DEF Clear
<1>4. ASSUME NEW r \in Replica, Extract(r)
      PROVE  IInv'
  BY <1>4, ExtractStep
<1>5. ASSUME NEW r \in Replica, NEW s \in Replica, Deliver(r, s)
      PROVE  IInv'
  BY <1>5, DeliverStep
<1>6. CASE UNCHANGED vars
  BY <1>6 DEF vars, IInv, TypeOK, KernelsOwned, TopRecorded, Own, Issued, IssuedFor
<1> QED
  BY <1>1, <1>2, <1>3, <1>4, <1>5, <1>6 DEF Next, Update

\* The inductive invariant holds in every reachable state.
THEOREM Invariant == Spec => []IInv
<1>1. Init => IInv
  BY InitInvariant
<1>2. IInv /\ [Next]_vars => IInv'
  BY StepInvariant
<1> QED
  BY <1>1, <1>2, PTL DEF Spec

-----------------------------------------------------------------------------

\* Type correctness: merging, buffering and collapsing keep every kernel of the system,
\* the extracted ones included, a kernel.
THEOREM TypeCorrect == Spec => []TypeOK
<1>1. IInv => TypeOK
  BY DEF IInv
<1> QED
  BY <1>1, Invariant, PTL

\* The kernels of the system hold dots of issued inserts only.
LEMMA KernelsOwn ==
  ASSUME IInv, NEW l \in Kernels
  PROVE  Own(l)
<1>1. CASE l \in Deltas
  BY <1>1 DEF Deltas, IInv, KernelsOwned
<1>2. CASE l \notin Deltas
  BY <1>2 DEF Kernels, IInv, KernelsOwned
<1> QED
  BY <1>1, <1>2

\* A dot identifies one insert, in every kernel of the system.
THEOREM DotsOwned == Spec => []DotOwnership
<1>1. IInv => DotOwnership
  <2> SUFFICES ASSUME IInv, NEW l \in Kernels, NEW k \in Key, NEW s \in Replica,
                      NEW c \in l.dots[k][s]
               PROVE  c \in DOMAIN inserted[s] /\ inserted[s][c] = k
    BY DEF DotOwnership
  <2>1. c \in 1 .. Len(inserted[s]) /\ inserted[s][c] = k
    BY KernelsOwn DEF Own, Within, IssuedFor
  <2> QED
    BY <2>1 DEF IInv, TypeOK
<1> QED
  BY <1>1, Invariant, PTL

\* Counters grow without holes and the next dot of a replica is new everywhere.
THEOREM NextDotsFresh == Spec => []NextDotFresh
<1>1. IInv => NextDotFresh
  <2> SUFFICES ASSUME IInv, NEW s \in Replica
               PROVE  /\ NextDot(s) = Len(inserted[s]) + 1
                      /\ \A l \in Kernels : \A c \in l.counters[s] : c < NextDot(s)
    BY DEF NextDotFresh
  <2>1. NextDot(s) = Len(inserted[s]) + 1 /\ Len(inserted[s]) \in Nat
    BY NextDotValue
  <2>2. \A l \in Kernels : l.counters[s] \subseteq 1 .. Len(inserted[s])
    BY KernelsOwn DEF Own, Within, Issued
  <2> QED
    BY <2>1, <2>2
<1> QED
  BY <1>1, Invariant, PTL

-----------------------------------------------------------------------------
(***************************************************************************)
(* LinkIntegrity and HookWithinState.  Links can go wrong only when a dot  *)
(* is collapsed away in the merge that brings it                           *)
(* (DotKernelProofs!MergeLinked). A delta brings dots of its own replica   *)
(* only, newer than all its receiver has of it, and they do not start with *)
(* a run; so they stay. That they do not start with a run follows from     *)
(* what the hook holds: dots issued since the last extraction, all in the  *)
(* state too, the first of which the state does not continue.              *)
(***************************************************************************)

\* How many inserts of s the first i extracted deltas cover, and all of them.
Upto(s, i) == IF i = 0 THEN 0 ELSE sent[s][i].upto
Last(s) == Upto(s, Len(sent[s]))

\* Extracted deltas cover more and more of the inserts.
Covered(s) ==
  \A i, j \in 0 .. Len(sent[s]) :
    i <= j => Upto(s, i) <= Upto(s, j) /\ Upto(s, j) <= Len(inserted[s])

\* A state holds dots of others that its deliveries cover.
StateOk(r) ==
  /\ Linked(state[r])
  /\ \A s \in Replica \ {r} :
       /\ got[r][s] <= Len(sent[s])
       /\ \A k \in Key : state[r].dots[k][s] \subseteq 1 .. Upto(s, got[r][s])
       /\ state[r].counters[s] \subseteq 1 .. Last(s)

\* An accumulated delta holds dots of its own replica that no extracted delta covers.
HookOk(r) ==
  /\ Linked(hook[r])
  /\ \A s \in Replica \ {r} :
       /\ \A k \in Key : hook[r].dots[k][s] = {}
       /\ hook[r].counters[s] \subseteq 1 .. Last(s)
  /\ \A k \in Key :
       /\ hook[r].dots[k][r] \subseteq Last(r) + 1 .. Len(inserted[r])
       /\ hook[r].dots[k][r] \subseteq state[r].dots[k][r]
       /\ HeadedIn(hook[r].dots[k][r], state[r].dots[k][r])

\* The i-th extracted delta of s holds dots of s that the delta before does not cover.
DeltaOk(s, i) ==
  LET l == sent[s][i].delta
  IN  /\ Linked(l)
      /\ l.counters[s] \subseteq 1 .. Upto(s, i)
      /\ \A t \in Replica \ {s} :
           /\ \A k \in Key : l.dots[k][t] = {}
           /\ l.counters[t] \subseteq 1 .. Last(t)
      /\ \A k \in Key :
           /\ l.dots[k][s] \subseteq Upto(s, i - 1) + 1 .. Upto(s, i)
           /\ HeadedIn(l.dots[k][s], l.dots[k][s])

LInv ==
  /\ IInv
  /\ \A r \in Replica : Covered(r) /\ StateOk(r) /\ HookOk(r)
  /\ \A s \in Replica : \A i \in 1 .. Len(sent[s]) : DeltaOk(s, i)

-----------------------------------------------------------------------------
(* Small facts.                                                            *)

LEMMA EmptyLinked == Linked(EmptyKernel)
BY DEF Linked, EmptyKernel, NoDots

LEMMA UptoType ==
  ASSUME TypeOK, NEW s \in Replica, NEW i \in 0 .. Len(sent[s])
  PROVE  Upto(s, i) \in Nat /\ Last(s) \in Nat /\ Len(sent[s]) \in Nat /\ Len(inserted[s]) \in Nat
<1>1. Len(sent[s]) \in Nat /\ Len(inserted[s]) \in Nat
  BY DEF TypeOK
<1>2. ASSUME NEW j \in 1 .. Len(sent[s])
      PROVE  sent[s][j].upto \in Nat
  <2>1. sent[s][j] \in Message
    BY DEF TypeOK
  <2> QED
    BY <2>1 DEF Message
<1> QED
  BY <1>1, <1>2 DEF Upto, Last

\* A dot has one owner.
LEMMA IssuedOnce == Apart(IssuedFor)
BY DEF IssuedFor, Apart

\* MergeLinked, for kernels of issued dots.
LEMMA MergeOwnLinked ==
  ASSUME NEW tag, NEW l \in Kernel, NEW d \in Kernel, Linked(l), Supported(d),
         Own(l), Own(d), Stays(tag, l, d)
  PROVE  MergedCleanly(tag, l, d)
<1>1. Within(l, IssuedFor, Issued) /\ Within(d, IssuedFor, Issued)
  BY DEF Own
<1> QED
  BY <1>1, IssuedOnce, MergeLinked

\* Counters that a delta does not mention stay as they are.
LEMMA CountersMergeNone ==
  ASSUME NEW tag, NEW L
  PROVE  CountersMerge(tag, L, {}) = L
BY DEF CountersMerge

\* The delta of an insert: one dot, which is on record.
OneDot(d, k, r, c) ==
  /\ d \in Kernel /\ Supported(d)
  /\ \A j \in Key : \A s \in Replica : d.dots[j][s] = IF j = k /\ s = r THEN {c} ELSE {}
  /\ \A s \in Replica : d.counters[s] = IF s = r THEN {c} ELSE {}
  /\ \A s \in Replica : Valueless(d, s) = {}

LEMMA ValueDeltaFacts ==
  ASSUME NEW r \in Replica, NEW k \in Key, NEW c \in Nat \ {0}
  PROVE  OneDot(ValueDelta(k, r, c), k, r, c)
<1> DEFINE d == ValueDelta(k, r, c)
<1>1. /\ d.keys = {k}
      /\ \A j \in Key : \A s \in Replica : d.dots[j][s] = IF j = k /\ s = r THEN {c} ELSE {}
      /\ \A s \in Replica : d.counters[s] = IF s = r THEN {c} ELSE {}
  BY DEF ValueDelta, EmptyKernel, NoDots
<1>2. Supported(d)
  BY <1>1 DEF Supported
<1>3. \A s \in Replica : Valueless(d, s) = {}
  BY <1>1 DEF Valueless
<1>4. d \in Kernel
  BY ValueDeltaType
<1> QED
  BY <1>1, <1>2, <1>3, <1>4 DEF OneDot

\* The delta of an erase or a clear: the dots of the elements K as counters.
OnlyCounters(d, l, K) ==
  /\ d \in Kernel /\ Supported(d)
  /\ \A j \in Key : \A s \in Replica : d.dots[j][s] = {}
  /\ \A s \in Replica : d.counters[s] = UNION {l.dots[k][s] : k \in K}
  /\ \A s \in Replica : Valueless(d, s) = UNION {l.dots[k][s] : k \in K}

LEMMA CountersDeltaFacts ==
  ASSUME NEW l \in Kernel, NEW K \in SUBSET Key
  PROVE  OnlyCounters(CountersDelta(l, K), l, K)
<1> DEFINE d == CountersDelta(l, K)
<1>1. /\ d.keys = {}
      /\ \A j \in Key : \A s \in Replica : d.dots[j][s] = {}
      /\ \A s \in Replica : d.counters[s] = UNION {l.dots[k][s] : k \in K}
  BY DEF CountersDelta, EmptyKernel, NoDots
<1>2. Supported(d)
  BY <1>1 DEF Supported
<1>3. \A s \in Replica : Valueless(d, s) = UNION {l.dots[k][s] : k \in K}
  BY <1>1 DEF Valueless
<1>4. d \in Kernel
  BY CountersDeltaType
<1> QED
  BY <1>1, <1>2, <1>3, <1>4 DEF OnlyCounters

\* Extraction hands out what was accumulated.
SameMarks(d, l) ==
  /\ d \in Kernel /\ Linked(d)
  /\ \A k \in Key : \A s \in Replica : d.dots[k][s] = l.dots[k][s]
  /\ \A s \in Replica : d.counters[s] = l.counters[s]

LEMMA EnvelopeFacts ==
  ASSUME IInv, NEW r \in Replica, Linked(hook[r])
  PROVE  SameMarks(Envelope(r).delta, hook[r])
<1> DEFINE d == Envelope(r).delta
           h == hook[r]
           e == EmptyKernel
<1>1. h \in Kernel /\ Own(h) /\ d = Merge("delta", e, h)
  BY DEF IInv, TypeOK, KernelsOwned, Envelope
<1>2. /\ \A k \in Key : \A s \in Replica : e.dots[k][s] = {}
      /\ \A s \in Replica : e.counters[s] = {}
  BY DEF EmptyKernel, NoDots
<1>3. e \in Kernel /\ Linked(e) /\ Own(e)
  BY <1>2, EmptyKernelType, EmptyLinked DEF Own, Within
<1>4. Supported(h)
  BY <1>1, LinkedPairs
<1> HIDE DEF d, e, h
<1>5. ASSUME NEW R
      PROVE  CountersMerge("delta", {}, R) = R
  BY DEF CountersMerge, Succeeds
<1>6. \A k \in Key : \A s \in Replica :
        CountersMerge("delta", e.dots[k][s], h.dots[k][s]) = h.dots[k][s]
  BY <1>2, <1>5
<1>7. Stays("delta", e, h)
  BY <1>6 DEF Stays
<1>8. /\ Linked(d)
      /\ \A k \in Key : \A s \in Replica :
           d.dots[k][s] =
             CountersMerge("delta", e.dots[k][s], h.dots[k][s]) \ Valueless(h, s)
  BY <1>1, <1>3, <1>4, <1>7, MergeOwnLinked DEF MergedCleanly
<1>9. ASSUME NEW k \in Key, NEW s \in Replica
      PROVE  d.dots[k][s] = h.dots[k][s]
  <2>1. h.dots[k][s] \cap Valueless(h, s) = {}
    BY <1>4 DEF Valueless, Supported
  <2>2. d.dots[k][s] = h.dots[k][s] \ Valueless(h, s)
    BY <1>6, <1>8
  <2> QED
    BY <2>1, <2>2
<1>10. ASSUME NEW s \in Replica
       PROVE  d.counters[s] = h.counters[s]
  <2>1. d.counters[s] = CountersMerge("delta", e.counters[s], h.counters[s])
    BY <1>1, MergeCounters
  <2> QED
    BY <1>2, <1>5, <2>1
<1>11. d \in Kernel
  BY <1>1, <1>3, MergeType
<1> QED
  BY <1>8, <1>9, <1>10, <1>11 DEF SameMarks, d, h

\* What the extracted deltas cover, and what has been inserted.
LEMMA UptoOrder ==
  ASSUME LInv, NEW s \in Replica, NEW i \in 0 .. Len(sent[s])
  PROVE  /\ Upto(s, i) \in Nat /\ Last(s) \in Nat /\ Len(inserted[s]) \in Nat
         /\ Upto(s, i) <= Last(s)
         /\ Last(s) <= Len(inserted[s])
<1>1. TypeOK /\ Covered(s)
  BY DEF LInv, IInv
<1>2. Len(sent[s]) \in Nat /\ i <= Len(sent[s]) /\ Len(sent[s]) \in 0 .. Len(sent[s])
  BY <1>1, UptoType
<1> QED
  BY <1>1, <1>2, UptoType DEF Covered, Last

\* What an update of replica r leaves alone.
LEMMA LocalFrame ==
  ASSUME LInv, IInv', NEW r \in Replica, NEW d \in Kernel, Commit(r, d),
         \A s \in Replica \ {r} : inserted'[s] = inserted[s],
         Len(inserted'[r]) >= Len(inserted[r]),
         StateOk(r)', HookOk(r)'
  PROVE  LInv'
<1>1. /\ sent' = sent /\ got' = got
      /\ \A s \in Replica \ {r} : state'[s] = state[s] /\ hook'[s] = hook[s]
  BY DEF Commit, LInv, IInv, TypeOK
<1>2. /\ \A s, i : Upto(s, i)' = Upto(s, i)
      /\ \A s : Last(s)' = Last(s)
  BY <1>1 DEF Upto, Last
<1>3. ASSUME NEW s \in Replica
      PROVE  Covered(s)'
  <2>1. Len(inserted[s]) \in Nat /\ Len(inserted'[s]) \in Nat
    BY SMTT(30) DEF LInv, IInv, TypeOK
  <2>2. Len(inserted[s]) <= Len(inserted'[s])
    <3>1. CASE s = r
      BY <2>1, <3>1
    <3>2. CASE s # r
      <4>1. inserted'[s] = inserted[s]
        BY <3>2
      <4> QED
        BY <2>1, <4>1
    <3> QED
      BY <3>1, <3>2
  <2>3. \A i \in 0 .. Len(sent[s]) : Upto(s, i) \in Nat
    BY UptoType DEF LInv, IInv
  <2> QED
    BY <1>1, <1>2, <2>1, <2>2, <2>3 DEF LInv, Covered
<1>4. ASSUME NEW s \in Replica \ {r}
      PROVE  StateOk(s)' /\ HookOk(s)'
  <2>1. inserted'[s] = inserted[s] /\ state'[s] = state[s] /\ hook'[s] = hook[s]
    BY <1>1
  <2>2. StateOk(s)'
    BY <1>1, <1>2, <2>1 DEF LInv, StateOk
  <2>3. HookOk(s)'
    BY <1>1, <1>2, <2>1 DEF LInv, HookOk
  <2> QED
    BY <2>2, <2>3
<1>5. ASSUME NEW s \in Replica, NEW i \in 1 .. Len(sent'[s])
      PROVE  DeltaOk(s, i)'
  BY <1>1, <1>2 DEF LInv, DeltaOk
<1> QED
  BY <1>3, <1>4, <1>5 DEF LInv

-----------------------------------------------------------------------------
(* One action at a time.                                                   *)

\* In the state and in the hook the dots of the key take in the n+1st, other dots stay.
DotsInserted(r, k, n) ==
  \A j \in Key : \A s \in Replica :
    /\ state'[r].dots[j][s] =
         IF j = k /\ s = r THEN CountersMerge("state", state[r].dots[k][r], {n + 1})
                          ELSE state[r].dots[j][s]
    /\ hook'[r].dots[j][s] =
         IF j = k /\ s = r THEN CountersMerge("delta", hook[r].dots[k][r], {n + 1})
                          ELSE hook[r].dots[j][s]

\* What insert does: the key gets the next dot of the replica, and nothing else changes.
LEMMA InsertEffect ==
  ASSUME LInv, NEW r \in Replica, NEW k \in Key, Insert(r, k), NEW n, n = Len(inserted[r])
  PROVE  /\ n \in Nat /\ IInv' /\ Commit(r, ValueDelta(k, r, n + 1))
         /\ sent' = sent /\ got' = got
         /\ inserted' = [inserted EXCEPT ![r] = Append(@, k)]
         /\ Len(inserted'[r]) = n + 1
         /\ \A s \in Replica \ {r} : inserted'[s] = inserted[s]
         /\ Linked(state'[r]) /\ Linked(hook'[r])
         /\ \A j \in Key : state[r].dots[j][r] \subseteq 1 .. n
         /\ \A j \in Key : hook[r].dots[j][r] \subseteq state[r].dots[j][r]
         /\ n + 1 \in CountersMerge("state", state[r].dots[k][r], {n + 1})
         /\ n + 1 \in CountersMerge("delta", hook[r].dots[k][r], {n + 1})
         /\ DotsInserted(r, k, n)
         /\ \A s \in Replica \ {r} : /\ state'[r].counters[s] = state[r].counters[s]
                                     /\ hook'[r].counters[s] = hook[r].counters[s]
         /\ hook'[r].counters[r] \subseteq hook[r].counters[r] \cup {n + 1}
<1> DEFINE d == ValueDelta(k, r, n + 1)
           L(j, s) == state[r].dots[j][s]
           H(j, s) == hook[r].dots[j][s]
<1>1. n \in Nat /\ n + 1 \in Nat \ {0} /\ NextDot(r) = n + 1 /\ IInv /\ IInv'
  BY NextDotValue, InsertStep DEF LInv
<1>2. /\ Commit(r, d)
      /\ inserted' = [inserted EXCEPT ![r] = Append(@, k)]
  BY <1>1 DEF Insert
<1>3. OneDot(d, k, r, n + 1)
  BY <1>1, ValueDeltaFacts
<1> HIDE DEF d
<1>4. /\ state'[r] = Merge("state", state[r], d)
      /\ hook'[r] = Merge("delta", hook[r], d)
      /\ sent' = sent /\ got' = got
      /\ Len(inserted'[r]) = n + 1
      /\ \A s \in Replica \ {r} : inserted'[s] = inserted[s]
  BY <1>1, <1>2 DEF Commit, IInv, TypeOK
<1>5. /\ state[r] \in Kernel /\ hook[r] \in Kernel /\ d \in Kernel
      /\ Linked(state[r]) /\ Linked(hook[r]) /\ Supported(d)
  BY <1>1, <1>3 DEF LInv, StateOk, HookOk, IInv, TypeOK, OneDot
<1>6. /\ \A j \in Key : L(j, r) \subseteq 1 .. n
      /\ \A j \in Key : H(j, r) \subseteq L(j, r)
  BY <1>1 DEF LInv, HookOk, IInv, KernelsOwned, Own, Within, IssuedFor
<1>7. /\ Within(state[r], IssuedFor', Issued')
      /\ Within(hook[r], IssuedFor', Issued')
      /\ Within(d, IssuedFor', Issued')
      /\ Apart(IssuedFor')
  <2>1. /\ Within(state[r], IssuedFor', Issued')
        /\ Within(hook[r], IssuedFor', Issued')
    BY <1>1, <1>2, IssuedGrows, WithinGrows DEF IInv, KernelsOwned, Own
  <2>2. n + 1 \in Issued'[r] /\ n + 1 \in IssuedFor'[k][r]
    BY <1>1, <1>2 DEF Issued, IssuedFor, IInv, TypeOK
  <2>3. Within(d, IssuedFor', Issued')
    BY <1>3, <2>2 DEF Within, OneDot
  <2>4. Apart(IssuedFor')
    BY DEF IssuedFor, Apart
  <2> QED
    BY <2>1, <2>3, <2>4
<1>8. \A j \in Key : /\ n + 1 \in CountersMerge("state", L(j, r), {n + 1})
                     /\ n + 1 \in CountersMerge("delta", H(j, r), {n + 1})
  <2> SUFFICES ASSUME NEW j \in Key
               PROVE  /\ n + 1 \in CountersMerge("state", L(j, r), {n + 1})
                      /\ n + 1 \in CountersMerge("delta", H(j, r), {n + 1})
    OBVIOUS
  <2>1. /\ L(j, r) \in SUBSET Nat /\ \A c \in L(j, r) \cup {n + 1} : c <= n + 1
        /\ H(j, r) \in SUBSET Nat /\ \A c \in H(j, r) \cup {n + 1} : c <= n + 1
    BY <1>1, <1>6
  <2> HIDE DEF L, H
  <2> QED
    BY <1>1, <2>1, CountersMergeTop
<1>9. Stays("state", state[r], d) /\ Stays("delta", hook[r], d)
  <2> SUFFICES ASSUME NEW j \in Key, NEW s \in Replica
               PROVE  /\ d.dots[j][s] \subseteq CountersMerge("state", L(j, s), d.dots[j][s])
                      /\ d.dots[j][s] \subseteq CountersMerge("delta", H(j, s), d.dots[j][s])
    BY DEF Stays
  <2>1. d.dots[j][s] = {} \/ (s = r /\ d.dots[j][s] = {n + 1})
    BY <1>3 DEF OneDot
  <2> HIDE DEF L, H
  <2> QED
    BY <1>8, <2>1
<1>10. /\ MergedCleanly("state", state[r], d)
       /\ MergedCleanly("delta", hook[r], d)
  BY <1>5, <1>7, <1>9, MergeLinked
<1>11. ASSUME NEW j \in Key, NEW s \in Replica
       PROVE  /\ state'[r].dots[j][s] =
                   IF j = k /\ s = r THEN CountersMerge("state", L(k, r), {n + 1}) ELSE L(j, s)
              /\ hook'[r].dots[j][s] =
                   IF j = k /\ s = r THEN CountersMerge("delta", H(k, r), {n + 1}) ELSE H(j, s)
  <2>1. /\ state'[r].dots[j][s] = CountersMerge("state", L(j, s), d.dots[j][s]) \ Valueless(d, s)
        /\ hook'[r].dots[j][s] = CountersMerge("delta", H(j, s), d.dots[j][s]) \ Valueless(d, s)
    BY <1>4, <1>10 DEF MergedCleanly
  <2>2. /\ Valueless(d, s) = {}
        /\ d.dots[j][s] = IF j = k /\ s = r THEN {n + 1} ELSE {}
    BY <1>3 DEF OneDot
  <2>3. /\ state'[r].dots[j][s] = CountersMerge("state", L(j, s), d.dots[j][s])
        /\ hook'[r].dots[j][s] = CountersMerge("delta", H(j, s), d.dots[j][s])
    BY <2>1, <2>2
  <2> HIDE DEF L, H
  <2>4. CASE j = k /\ s = r
    BY <2>2, <2>3, <2>4
  <2>5. CASE ~(j = k /\ s = r)
    BY <2>2, <2>3, <2>5, CountersMergeNone
  <2> QED
    BY <2>4, <2>5
<1>12. ASSUME NEW s \in Replica \ {r}
       PROVE  state'[r].counters[s] = state[r].counters[s] /\ hook'[r].counters[s] = hook[r].counters[s]
  <2>1. d.counters[s] = {}
    BY <1>3 DEF OneDot
  <2>2. /\ state'[r].counters[s] = CountersMerge("state", state[r].counters[s], d.counters[s])
        /\ hook'[r].counters[s] = CountersMerge("delta", hook[r].counters[s], d.counters[s])
    BY <1>4, MergeCounters
  <2> QED
    BY <2>1, <2>2, CountersMergeNone
<1>13. hook'[r].counters[r] \subseteq hook[r].counters[r] \cup {n + 1}
  <2>1. d.counters[r] = {n + 1}
    BY <1>3 DEF OneDot
  <2> QED
    BY <1>4, <2>1, MergeCounters, CountersMergeSubset
<1>14. Linked(state'[r]) /\ Linked(hook'[r])
  BY <1>4, <1>10 DEF MergedCleanly
<1>15. DotsInserted(r, k, n)
  BY <1>11 DEF DotsInserted
<1> QED
  BY <1>1, <1>2, <1>4, <1>6, <1>8, <1>12, <1>13, <1>14, <1>15 DEF d

LEMMA LinkInsert ==
  ASSUME LInv, NEW r \in Replica, NEW k \in Key, Insert(r, k)
  PROVE  LInv'
<1> DEFINE L(j, s) == state[r].dots[j][s]
           H(j, s) == hook[r].dots[j][s]
<1>a. PICK n \in Nat : n = Len(inserted[r])
  BY DEF LInv, IInv, TypeOK
<1>1. /\ IInv /\ IInv' /\ Commit(r, ValueDelta(k, r, n + 1))
      /\ sent' = sent /\ got' = got
      /\ Len(inserted'[r]) = n + 1
      /\ \A s \in Replica \ {r} : inserted'[s] = inserted[s]
      /\ Linked(state'[r]) /\ Linked(hook'[r])
      /\ \A j \in Key : L(j, r) \subseteq 1 .. n
      /\ \A j \in Key : H(j, r) \subseteq L(j, r)
  BY <1>a, InsertEffect DEF LInv
<1>2. \A s \in Replica \ {r} : /\ state'[r].counters[s] = state[r].counters[s]
                              /\ hook'[r].counters[s] = hook[r].counters[s]
  BY <1>a, InsertEffect
<1>3. \A j \in Key : \A s \in Replica :
        /\ state'[r].dots[j][s] =
             IF j = k /\ s = r THEN CountersMerge("state", L(k, r), {n + 1}) ELSE L(j, s)
        /\ hook'[r].dots[j][s] =
             IF j = k /\ s = r THEN CountersMerge("delta", H(k, r), {n + 1}) ELSE H(j, s)
  <2>1. DotsInserted(r, k, n)
    BY <1>a, InsertEffect
  <2> QED
    BY <2>1 DEF DotsInserted
<1>4. /\ \A s, i : Upto(s, i)' = Upto(s, i)
      /\ \A s : Last(s)' = Last(s)
  BY <1>1 DEF Upto, Last
<1>5. StateOk(r)'
  BY <1>1, <1>2, <1>3, <1>4 DEF LInv, StateOk
<1>6. HookOk(r)'
  <2>1. Last(r) \in Nat /\ Last(r) <= n
    <3>1. 0 \in 0 .. Len(sent[r])
      BY <1>1 DEF IInv, TypeOK
    <3> QED
      BY <1>a, <3>1, UptoOrder
  <2>2. ASSUME NEW j \in Key
        PROVE  /\ hook'[r].dots[j][r] \subseteq Last(r) + 1 .. n + 1
               /\ hook'[r].dots[j][r] \subseteq state'[r].dots[j][r]
               /\ HeadedIn(hook'[r].dots[j][r], state'[r].dots[j][r])
    <3>1. /\ H(j, r) \subseteq Last(r) + 1 .. n
          /\ HeadedIn(H(j, r), L(j, r))
      BY <1>a DEF LInv, HookOk
    <3>2. CASE j # k
      BY <1>1, <1>3, <2>1, <3>1, <3>2
    <3>3. CASE j = k
      <4>1. /\ state'[r].dots[j][r] = CountersMerge("state", L(j, r), {n + 1})
            /\ hook'[r].dots[j][r] = CountersMerge("delta", H(j, r), {n + 1})
        BY <1>3, <3>3
      <4>2. L(j, r) \in SUBSET (1 .. n) /\ H(j, r) \in SUBSET L(j, r)
        BY <1>1
      <4>3. n + 1 \in Last(r) + 1 .. n + 1 /\ H(j, r) \subseteq Last(r) + 1 .. n + 1
        BY <1>1, <2>1, <3>1
      <4> HIDE DEF L, H
      <4>4. hook'[r].dots[j][r] \subseteq H(j, r) \cup {n + 1}
        BY <4>1, CountersMergeSubset
      <4>5. hook'[r].dots[j][r] \subseteq Last(r) + 1 .. n + 1
        BY <4>3, <4>4
      <4>6. /\ CountersMerge("delta", H(j, r), {n + 1}) \subseteq CountersMerge("state", L(j, r), {n + 1})
            /\ HeadedIn(CountersMerge("delta", H(j, r), {n + 1}), CountersMerge("state", L(j, r), {n + 1}))
        BY <1>1, <3>1, <4>2, CountersMergeNext
      <4> QED
        BY <4>1, <4>5, <4>6
    <3> QED
      BY <3>2, <3>3
  <2> QED
    BY <1>1, <1>2, <1>3, <1>4, <2>2 DEF LInv, HookOk
<1>7. Len(inserted'[r]) >= Len(inserted[r])
  BY <1>a, <1>1
<1> QED
  <2>1. ValueDelta(k, r, n + 1) \in Kernel
    BY <1>a, ValueDeltaType
  <2> QED
    BY <1>1, <1>5, <1>6, <1>7, <2>1, LocalFrame

\* The dots of a set V of each replica are gone from the state and the hook of r.
DotsErased(r, V) ==
  \A j \in Key : \A s \in Replica :
    /\ state'[r].dots[j][s] = state[r].dots[j][s] \ V[s]
    /\ hook'[r].dots[j][s] = hook[r].dots[j][s] \ V[s]

\* The dots of the elements K at replica r.
DotsOf(r, K) == [s \in Replica |-> UNION {state[r].dots[k][s] : k \in K}]

\* What erase and clear do: the dots of the elements K go, all others stay.
LEMMA EraseEffect ==
  ASSUME LInv, NEW r \in Replica, NEW K \in SUBSET Key,
         Commit(r, CountersDelta(state[r], K)), Forget(r, K), UNCHANGED inserted
  PROVE  /\ IInv' /\ sent' = sent /\ got' = got
         /\ CountersDelta(state[r], K) \in Kernel
         /\ Linked(state'[r]) /\ Linked(hook'[r])
         /\ DotsErased(r, DotsOf(r, K))
         /\ \A s \in Replica : \A k \in Key \ K : state[r].dots[k][s] \cap DotsOf(r, K)[s] = {}
         /\ \A s \in Replica :
              /\ state'[r].counters[s] \subseteq state[r].counters[s] \cup DotsOf(r, K)[s]
              /\ hook'[r].counters[s] \subseteq hook[r].counters[s] \cup DotsOf(r, K)[s]
<1> DEFINE d == CountersDelta(state[r], K)
           L(j, s) == state[r].dots[j][s]
           H(j, s) == hook[r].dots[j][s]
           V(s) == UNION {state[r].dots[k][s] : k \in K}
<1>1. /\ IInv /\ IInv' /\ Commit(r, d)
      /\ state[r] \in Kernel /\ hook[r] \in Kernel
      /\ Linked(state[r]) /\ Linked(hook[r])
      /\ Own(state[r]) /\ Own(hook[r])
  BY EraseStep DEF LInv, StateOk, HookOk, IInv, TypeOK, KernelsOwned
<1>2. OnlyCounters(d, state[r], K)
  BY <1>1, CountersDeltaFacts
<1> HIDE DEF d
<1>3. /\ state'[r] = Merge("state", state[r], d)
      /\ hook'[r] = Merge("delta", hook[r], d)
      /\ sent' = sent /\ got' = got /\ inserted' = inserted
  BY <1>1 DEF Commit, IInv, TypeOK
<1>4. Own(d)
  <2>1. \A j \in Key : \A s \in Replica : d.dots[j][s] = {}
    BY <1>2 DEF OnlyCounters
  <2>2. \A s \in Replica : d.counters[s] = V(s)
    BY <1>2 DEF OnlyCounters
  <2>3. \A s \in Replica : \A k \in K : L(k, s) \subseteq Issued[s]
    BY <1>1 DEF Own, Within, Issued, IssuedFor
  <2>4. \A s \in Replica : V(s) \subseteq Issued[s]
    BY <2>3
  <2> QED
    BY <2>1, <2>2, <2>4 DEF Own, Within
<1>5. d \in Kernel /\ Supported(d) /\ Stays("state", state[r], d) /\ Stays("delta", hook[r], d)
  BY <1>2 DEF OnlyCounters, Stays
<1>6. /\ MergedCleanly("state", state[r], d)
      /\ MergedCleanly("delta", hook[r], d)
  BY <1>1, <1>4, <1>5, MergeOwnLinked
<1>7. ASSUME NEW j \in Key, NEW s \in Replica
      PROVE  state'[r].dots[j][s] = L(j, s) \ V(s) /\ hook'[r].dots[j][s] = H(j, s) \ V(s)
  <2>1. /\ state'[r].dots[j][s] = CountersMerge("state", L(j, s), d.dots[j][s]) \ Valueless(d, s)
        /\ hook'[r].dots[j][s] = CountersMerge("delta", H(j, s), d.dots[j][s]) \ Valueless(d, s)
    BY <1>3, <1>6 DEF MergedCleanly
  <2>2. d.dots[j][s] = {} /\ Valueless(d, s) = V(s)
    BY <1>2 DEF OnlyCounters
  <2> HIDE DEF L, H, V
  <2> QED
    BY <2>1, <2>2, CountersMergeNone
<1>8. ASSUME NEW s \in Replica, NEW j \in Key \ K
      PROVE  L(j, s) \cap V(s) = {}
  <2>1. \A k \in Key : L(k, s) \subseteq IssuedFor[k][s]
    BY <1>1 DEF Own, Within
  <2>2. ASSUME NEW c \in L(j, s), NEW k \in K
        PROVE  c \notin L(k, s)
    <3>1. k \in Key /\ k # j
      OBVIOUS
    <3> QED
      BY <2>1, <3>1, IssuedOnce DEF Apart
  <2>3. ASSUME NEW c \in V(s)
        PROVE  \E k \in K : c \in L(k, s)
    OBVIOUS
  <2> QED
    BY <2>2, <2>3
<1>9. ASSUME NEW s \in Replica
      PROVE  /\ state'[r].counters[s] \subseteq state[r].counters[s] \cup V(s)
             /\ hook'[r].counters[s] \subseteq hook[r].counters[s] \cup V(s)
  <2>1. d.counters[s] = V(s)
    BY <1>2 DEF OnlyCounters
  <2> HIDE DEF V
  <2> QED
    BY <1>3, <2>1, MergeCounters, CountersMergeSubset
<1>10. Linked(state'[r]) /\ Linked(hook'[r])
  BY <1>3, <1>6 DEF MergedCleanly
<1>11. DotsErased(r, DotsOf(r, K))
  BY <1>7 DEF DotsErased, DotsOf
<1>12. CountersDelta(state[r], K) \in Kernel
  BY <1>5 DEF d
<1> QED
  BY <1>1, <1>3, <1>8, <1>9, <1>10, <1>11, <1>12 DEF DotsOf

LEMMA LinkErase ==
  ASSUME LInv, NEW r \in Replica, NEW K \in SUBSET Key,
         Commit(r, CountersDelta(state[r], K)), Forget(r, K), UNCHANGED inserted
  PROVE  LInv'
<1> DEFINE L(j, s) == state[r].dots[j][s]
           H(j, s) == hook[r].dots[j][s]
           V(s) == DotsOf(r, K)[s]
<1>1. /\ IInv /\ IInv' /\ sent' = sent /\ got' = got /\ inserted' = inserted
      /\ CountersDelta(state[r], K) \in Kernel
      /\ Linked(state'[r]) /\ Linked(hook'[r])
  BY EraseEffect DEF LInv
<1>2. ASSUME NEW j \in Key, NEW s \in Replica
      PROVE  /\ state'[r].dots[j][s] = L(j, s) \ V(s) /\ hook'[r].dots[j][s] = H(j, s) \ V(s)
             /\ j \in K => L(j, s) \subseteq V(s)
             /\ j \notin K => L(j, s) \cap V(s) = {}
  <2>1. DotsErased(r, DotsOf(r, K))
    BY EraseEffect
  <2>2. j \notin K => L(j, s) \cap V(s) = {}
    BY EraseEffect
  <2> QED
    BY <2>1, <2>2 DEF DotsErased, DotsOf
<1>3. ASSUME NEW s \in Replica \ {r}
      PROVE  /\ state'[r].counters[s] \subseteq 1 .. Last(s)
             /\ hook'[r].counters[s] \subseteq 1 .. Last(s)
  <2>1. V(s) \subseteq 1 .. Last(s)
    <3>1. got[r][s] \in 0 .. Len(sent[s])
      BY <1>1 DEF LInv, StateOk, IInv, TypeOK
    <3>2. Upto(s, got[r][s]) <= Last(s) /\ Upto(s, got[r][s]) \in Nat /\ Last(s) \in Nat
      BY <3>1, UptoOrder
    <3>3. \A k \in Key : L(k, s) \subseteq 1 .. Upto(s, got[r][s])
      BY DEF LInv, StateOk
    <3>4. \A k \in Key : L(k, s) \subseteq 1 .. Last(s)
      BY <3>2, <3>3
    <3> QED
      BY <3>4 DEF DotsOf
  <2>2. /\ state'[r].counters[s] \subseteq state[r].counters[s] \cup V(s)
        /\ hook'[r].counters[s] \subseteq hook[r].counters[s] \cup V(s)
    BY EraseEffect
  <2>3. state[r].counters[s] \subseteq 1 .. Last(s) /\ hook[r].counters[s] \subseteq 1 .. Last(s)
    BY DEF LInv, StateOk, HookOk
  <2> QED
    BY <2>1, <2>2, <2>3
<1>4. /\ \A s, i : Upto(s, i)' = Upto(s, i)
      /\ \A s : Last(s)' = Last(s)
  BY <1>1 DEF Upto, Last
<1>5. StateOk(r)'
  <2>1. ASSUME NEW s \in Replica \ {r}, NEW k \in Key
        PROVE  state'[r].dots[k][s] \subseteq 1 .. Upto(s, got[r][s])
    BY <1>2 DEF LInv, StateOk
  <2>2. \A s \in Replica \ {r} : got[r][s] <= Len(sent[s])
    BY DEF LInv, StateOk
  <2> QED
    BY <1>1, <1>3, <1>4, <2>1, <2>2 DEF StateOk
<1>6. HookOk(r)'
  <2>1. ASSUME NEW s \in Replica \ {r}, NEW k \in Key
        PROVE  hook'[r].dots[k][s] = {}
    BY <1>2 DEF LInv, HookOk
  <2>2. ASSUME NEW j \in Key
        PROVE  /\ hook'[r].dots[j][r] \subseteq Last(r) + 1 .. Len(inserted[r])
               /\ hook'[r].dots[j][r] \subseteq state'[r].dots[j][r]
               /\ HeadedIn(hook'[r].dots[j][r], state'[r].dots[j][r])
    <3>1. /\ H(j, r) \subseteq Last(r) + 1 .. Len(inserted[r])
          /\ H(j, r) \subseteq L(j, r)
          /\ HeadedIn(H(j, r), L(j, r))
      BY DEF LInv, HookOk
    <3>2. CASE j \in K
      <4>1. hook'[r].dots[j][r] = {}
        BY <1>2, <3>1, <3>2
      <4> QED
        BY <4>1 DEF HeadedIn
    <3>3. CASE j \notin K
      <4>1. L(j, r) \cap V(r) = {} /\ state'[r].dots[j][r] = L(j, r) \ V(r)
            /\ hook'[r].dots[j][r] = H(j, r) \ V(r)
        BY <1>2, <3>3
      <4>2. state'[r].dots[j][r] = L(j, r) /\ hook'[r].dots[j][r] = H(j, r)
        <5> HIDE DEF L, H, V
        <5> QED
          BY <3>1, <4>1
      <4> QED
        BY <3>1, <4>2
    <3> QED
      BY <3>2, <3>3
  <2> QED
    BY <1>1, <1>3, <1>4, <2>1, <2>2 DEF HookOk
<1>7. Len(inserted'[r]) >= Len(inserted[r])
  BY <1>1 DEF IInv, TypeOK
<1> QED
  BY <1>1, <1>5, <1>6, <1>7, LocalFrame

\* What an extraction does: the accumulated delta goes out, as the n-th of the replica, and
\* covers all that has been inserted.
LEMMA ExtractEffect ==
  ASSUME LInv, NEW r \in Replica, Extract(r), NEW N, N = Len(sent[r])
  PROVE  /\ N \in Nat /\ IInv' /\ hook' = [hook EXCEPT ![r] = EmptyKernel]
         /\ state' = state /\ got' = got /\ inserted' = inserted /\ erased' = erased
         /\ Len(sent'[r]) = N + 1
         /\ \A s \in Replica \ {r} : sent'[s] = sent[s] /\ Last(s)' = Last(s)
         /\ \A s \in Replica : \A i \in 1 .. Len(sent[s]) : sent'[s][i] = sent[s][i]
         /\ \A s \in Replica : \A i \in 0 .. Len(sent[s]) : Upto(s, i)' = Upto(s, i)
         /\ Upto(r, N + 1)' = Len(inserted[r]) /\ Last(r)' = Len(inserted[r])
         /\ SameMarks(sent'[r][N + 1].delta, hook[r])
<1>1. N \in Nat /\ IInv /\ IInv' /\ Linked(hook[r])
  BY ExtractStep, SMTT(30) DEF LInv, HookOk, IInv, TypeOK
<1>2. /\ hook' = [hook EXCEPT ![r] = EmptyKernel]
      /\ state' = state /\ got' = got /\ inserted' = inserted /\ erased' = erased
      /\ Len(sent'[r]) = N + 1
      /\ sent'[r][N + 1] = Envelope(r)
      /\ \A i \in 1 .. N : sent'[r][i] = sent[r][i]
      /\ \A s \in Replica \ {r} : sent'[s] = sent[s]
  BY <1>1 DEF Extract, IInv, TypeOK
<1>3. SameMarks(Envelope(r).delta, hook[r])
  BY <1>1, EnvelopeFacts
<1>4. Envelope(r).upto = Len(inserted[r])
  BY DEF Envelope
<1>5. ASSUME NEW s \in Replica, NEW i \in 1 .. Len(sent[s])
      PROVE  sent'[s][i] = sent[s][i]
  BY <1>2
<1>6. ASSUME NEW s \in Replica, NEW i \in 0 .. Len(sent[s])
      PROVE  Upto(s, i)' = Upto(s, i)
  <2>1. i = 0 \/ i \in 1 .. Len(sent[s])
    BY <1>1 DEF IInv, TypeOK
  <2> QED
    BY <1>5, <2>1 DEF Upto
<1>7. Upto(r, N + 1)' = Len(inserted[r]) /\ Last(r)' = Len(inserted[r])
  <2>1. N + 1 # 0
    BY <1>1
  <2> QED
    BY <1>2, <1>4, <2>1 DEF Upto, Last
<1>8. \A s \in Replica \ {r} : Last(s)' = Last(s)
  BY <1>2 DEF Last, Upto
<1> QED
  BY <1>1, <1>2, <1>3, <1>5, <1>6, <1>7, <1>8

\* What the transport notes with a delta when the application is causal.
LEMMA NotesWhatItSaw ==
  ASSUME LInv, Causal, NEW r \in Replica, Extract(r), NEW N, N = Len(sent[r])
  PROVE  sent'[r][N + 1].deps = got[r]
<1>1. sent[r] \in Seq(Message) /\ sent' = [sent EXCEPT ![r] = Append(@, Envelope(r))]
      /\ r \in DOMAIN sent
  BY DEF Extract, LInv, IInv, TypeOK
<1> DEFINE w == sent[r]
           e == Envelope(r)
           M == Message
<1>2. w \in Seq(M) /\ sent'[r] = Append(w, e) /\ N = Len(w)
  BY <1>1
<1>3. e.deps = got[r]
  BY DEF Envelope
<1> HIDE DEF w, e, M
<1>4. sent'[r][N + 1] = e
  BY <1>2
<1> QED
  BY <1>3, <1>4

LEMMA LinkExtract ==
  ASSUME LInv, NEW r \in Replica, Extract(r)
  PROVE  LInv'
<1>a. PICK N \in Nat : N = Len(sent[r])
  BY DEF LInv, IInv, TypeOK
<1>b. PICK n \in Nat : n = Len(inserted[r])
  BY DEF LInv, IInv, TypeOK
<1>c. PICK d : d = sent'[r][N + 1].delta
  OBVIOUS
<1>1. IInv /\ IInv'
  BY <1>a, ExtractEffect DEF LInv
<1>2. /\ hook' = [hook EXCEPT ![r] = EmptyKernel]
      /\ state' = state /\ got' = got /\ inserted' = inserted
      /\ Len(sent'[r]) = N + 1
      /\ \A s \in Replica \ {r} : sent'[s] = sent[s]
  BY <1>a, ExtractEffect
<1>3. SameMarks(d, hook[r])
  BY <1>a, <1>c, ExtractEffect
<1>4. \A s \in Replica : \A i \in 1 .. Len(sent[s]) : sent'[s][i] = sent[s][i]
  BY <1>a, ExtractEffect
<1>5. \A s \in Replica : \A i \in 0 .. Len(sent[s]) : Upto(s, i)' = Upto(s, i)
  BY <1>a, ExtractEffect
<1>6. Upto(r, N + 1)' = n /\ Last(r)' = n
  BY <1>a, <1>b, ExtractEffect
<1>7. \A s \in Replica \ {r} : Last(s)' = Last(s) /\ Len(sent'[s]) = Len(sent[s])
  BY <1>a, ExtractEffect
<1>8. Last(r) \in Nat /\ Last(r) <= n
  <2>1. 0 \in 0 .. N
    BY <1>a
  <2> QED
    BY <1>b, <2>1, UptoOrder
<1>9. \A s \in Replica : Len(sent[s]) \in Nat /\ Len(sent[s]) <= Len(sent'[s])
  <2> SUFFICES ASSUME NEW s \in Replica
               PROVE  Len(sent[s]) \in Nat /\ Len(sent[s]) <= Len(sent'[s])
    OBVIOUS
  <2>1. Len(sent[s]) \in Nat
    BY <1>1 DEF IInv, TypeOK
  <2>2. CASE s = r
    BY <1>a, <1>2, <2>2
  <2>3. CASE s # r
    BY <1>7, <2>1, <2>3
  <2> QED
    BY <2>1, <2>2, <2>3
<1>10. ASSUME NEW s \in Replica, NEW S \in SUBSET (1 .. Last(s))
       PROVE  S \subseteq 1 .. Last(s)'
  <2>1. CASE s = r
    BY <1>6, <1>8, <2>1
  <2>2. CASE s # r
    BY <1>7, <2>2
  <2> QED
    BY <2>1, <2>2
<1>11. ASSUME NEW s \in Replica
       PROVE  Covered(s)'
  <2>1. CASE s # r
    <3>1. Len(sent'[s]) = Len(sent[s]) /\ \A i \in 0 .. Len(sent[s]) : Upto(s, i)' = Upto(s, i)
      BY <1>5, <1>7, <2>1
    <3> QED
      BY <1>2, <3>1 DEF LInv, Covered
  <2>2. CASE s = r
    <3> SUFFICES ASSUME NEW i \in 0 .. N + 1, NEW j \in 0 .. N + 1, i <= j
                 PROVE  Upto(r, i)' <= Upto(r, j)' /\ Upto(r, j)' <= n
      BY <1>b, <1>2, <2>2 DEF Covered
    <3>1. CASE j \in 0 .. N
      <4>1. i \in 0 .. N
        BY <3>1
      <4>2. Upto(r, i)' = Upto(r, i) /\ Upto(r, j)' = Upto(r, j)
        BY <1>a, <1>5, <3>1, <4>1
      <4> QED
        BY <1>a, <1>b, <3>1, <4>1, <4>2 DEF LInv, Covered
    <3>2. CASE j = N + 1 /\ i \in 0 .. N
      <4>1. Upto(r, i) <= n
        BY <1>a, <1>b, <3>2 DEF LInv, Covered
      <4>2. Upto(r, i)' = Upto(r, i) /\ Upto(r, j)' = n
        BY <1>a, <1>5, <1>6, <3>2
      <4> QED
        BY <4>1, <4>2
    <3>3. CASE j = N + 1 /\ i = N + 1
      BY <1>6, <3>3
    <3> QED
      BY <3>1, <3>2, <3>3
  <2> QED
    BY <2>1, <2>2
<1>12. ASSUME NEW t \in Replica
       PROVE  StateOk(t)'
  <2>1. Linked(state'[t])
    BY <1>2 DEF LInv, StateOk
  <2>2. ASSUME NEW s \in Replica \ {t}
        PROVE  /\ got[t][s] <= Len(sent'[s])
               /\ \A k \in Key : state[t].dots[k][s] \subseteq 1 .. Upto(s, got[t][s])'
               /\ state[t].counters[s] \subseteq 1 .. Last(s)'
    <3>0. got[t][s] \in Nat
      BY <1>1 DEF IInv, TypeOK
    <3>1. /\ got[t][s] \in Nat /\ got[t][s] <= Len(sent[s])
          /\ \A k \in Key : state[t].dots[k][s] \subseteq 1 .. Upto(s, got[t][s])
          /\ state[t].counters[s] \in SUBSET (1 .. Last(s))
      BY <3>0 DEF LInv, StateOk
    <3>2. got[t][s] <= Len(sent'[s]) /\ got[t][s] \in 0 .. Len(sent[s])
      <4>1. Len(sent'[s]) \in Nat
        BY <1>1 DEF IInv, TypeOK
      <4> QED
        BY <1>9, <3>1, <4>1
    <3>3. Upto(s, got[t][s])' = Upto(s, got[t][s])
      <4>1. got'[t][s] = got[t][s]
        BY <1>2
      <4> QED
        BY <1>5, <3>2, <4>1
    <3>4. state[t].counters[s] \subseteq 1 .. Last(s)'
      BY <1>10, <3>1
    <3> QED
      BY <3>1, <3>2, <3>3, <3>4
  <2> QED
    BY <1>2, <2>1, <2>2 DEF StateOk
<1>13. HookOk(r)'
  <2>1. hook'[r] = EmptyKernel
    BY <1>1, <1>2 DEF IInv, TypeOK
  <2>2. /\ \A k \in Key : \A s \in Replica : hook'[r].dots[k][s] = {}
        /\ \A s \in Replica : hook'[r].counters[s] = {}
    BY <2>1 DEF EmptyKernel, NoDots
  <2>3. Linked(hook'[r])
    BY <2>1, EmptyLinked
  <2> QED
    BY <2>2, <2>3 DEF HookOk, HeadedIn
<1>14. ASSUME NEW t \in Replica \ {r}
       PROVE  HookOk(t)'
  <2>1. hook'[t] = hook[t] /\ state'[t] = state[t] /\ inserted'[t] = inserted[t] /\ Last(t)' = Last(t)
    BY <1>2, <1>7
  <2>2. ASSUME NEW s \in Replica \ {t}
        PROVE  hook[t].counters[s] \subseteq 1 .. Last(s)'
    <3>1. hook[t].counters[s] \in SUBSET (1 .. Last(s))
      BY DEF LInv, HookOk
    <3> QED
      BY <1>10, <3>1
  <2> QED
    BY <2>1, <2>2 DEF LInv, HookOk
<1>15. ASSUME NEW s \in Replica, NEW i \in 1 .. Len(sent[s])
       PROVE  DeltaOk(s, i)'
  <2>1. i \in 0 .. Len(sent[s]) /\ i - 1 \in 0 .. Len(sent[s])
    BY <1>9
  <2>2. Upto(s, i)' = Upto(s, i) /\ Upto(s, i - 1)' = Upto(s, i - 1)
    BY <1>5, <2>1
  <2>3. sent'[s][i] = sent[s][i]
    BY <1>4
  <2>4. ASSUME NEW t \in Replica \ {s}
        PROVE  sent[s][i].delta.counters[t] \subseteq 1 .. Last(t)'
    <3>1. sent[s][i].delta.counters[t] \in SUBSET (1 .. Last(t))
      BY DEF LInv, DeltaOk
    <3> QED
      BY <1>10, <3>1
  <2>5. DeltaOk(s, i)
    BY DEF LInv
  <2> QED
    BY <2>2, <2>3, <2>4, <2>5 DEF DeltaOk
<1>16. DeltaOk(r, N + 1)'
  <2>1. Upto(r, N)' = Last(r)
    <3>1. N \in 0 .. Len(sent[r])
      BY <1>a
    <3> QED
      BY <1>a, <1>5, <3>1 DEF Last
  <2>2. N + 1 - 1 = N
    OBVIOUS
  <2>3. sent'[r][N + 1].delta = d
    BY <1>c
  <2>4. Linked(d) /\ d.counters[r] \subseteq 1 .. n
    <3>1. hook[r].counters[r] \subseteq 1 .. n
      BY <1>b, <1>1 DEF IInv, KernelsOwned, Own, Within, Issued
    <3> QED
      BY <1>3, <3>1 DEF SameMarks
  <2>5. ASSUME NEW t \in Replica \ {r}
        PROVE  /\ \A k \in Key : d.dots[k][t] = {}
               /\ d.counters[t] \subseteq 1 .. Last(t)'
    BY <1>3, <1>7 DEF LInv, HookOk, SameMarks
  <2>6. ASSUME NEW k \in Key
        PROVE  /\ d.dots[k][r] \subseteq Last(r) + 1 .. n
               /\ HeadedIn(d.dots[k][r], d.dots[k][r])
    <3>1. /\ d.dots[k][r] = hook[r].dots[k][r]
          /\ hook[r].dots[k][r] \subseteq Last(r) + 1 .. n
          /\ hook[r].dots[k][r] \subseteq state[r].dots[k][r]
          /\ HeadedIn(hook[r].dots[k][r], state[r].dots[k][r])
      BY <1>b, <1>3 DEF LInv, HookOk, SameMarks
    <3> QED
      BY <3>1 DEF HeadedIn
  <2> QED
    BY <1>6, <2>1, <2>2, <2>3, <2>4, <2>5, <2>6 DEF DeltaOk
<1>17. ASSUME NEW s \in Replica, NEW i \in 1 .. Len(sent'[s])
       PROVE  DeltaOk(s, i)'
  <2>1. CASE s # r
    <3>1. i \in 1 .. Len(sent[s])
      BY <1>7, <2>1
    <3> QED
      BY <1>15, <3>1
  <2>2. CASE s = r
    <3>1. i \in 1 .. N \/ i = N + 1
      BY <1>2, <2>2
    <3>2. CASE i \in 1 .. N
      BY <1>a, <1>15, <2>2, <3>2
    <3>3. CASE i = N + 1
      BY <1>16, <2>2, <3>3
    <3> QED
      BY <3>1, <3>2, <3>3
  <2> QED
    BY <2>1, <2>2
<1>18. \A t \in Replica : HookOk(t)'
  BY <1>13, <1>14
<1> QED
  BY <1>1, <1>11, <1>12, <1>17, <1>18 DEF LInv

\* The delta d that replica r merges next from s is the i-th one of s.
NextFrom(r, s, i, d) == i \in Nat /\ i = got[r][s] + 1 /\ d = sent[s][i].delta

\* What a delivery does: the i-th delta of s is merged cleanly, as its dots of s are newer
\* than those that replica r has of s.
LEMMA DeliverEffect ==
  ASSUME LInv, NEW r \in Replica, NEW s \in Replica, Deliver(r, s),
         NEW i \in Nat, NEW d, NextFrom(r, s, i, d)
  PROVE  /\ i - 1 = got[r][s] /\ d = Pending(r, s).delta
         /\ IInv' /\ s # r /\ i \in 1 .. Len(sent[s])
         /\ i \in 0 .. Len(sent[s]) /\ i - 1 \in 0 .. Len(sent[s])
         /\ state' = [state EXCEPT ![r] = Merge("state", state[r], d)]
         /\ state'[r] = Merge("state", state[r], d)
         /\ \A t \in Replica \ {r} : state'[t] = state[t]
         /\ hook' = hook /\ sent' = sent /\ inserted' = inserted
         /\ got'[r][s] = i
         /\ \A t \in Replica : \A u \in Replica : t # r \/ u # s => got'[t][u] = got[t][u]
         /\ d \in Kernel /\ Own(d) /\ DeltaOk(s, i) /\ Linked(d) /\ Supported(d)
         /\ Upto(s, i - 1) \in Nat /\ Upto(s, i) \in Nat /\ Last(s) \in Nat
         /\ Upto(s, i - 1) <= Upto(s, i) /\ Upto(s, i) <= Last(s)
         /\ \A k \in Key : state[r].dots[k][s] \subseteq 1 .. Upto(s, i - 1)
         /\ MergedCleanly("state", state[r], d)
<1> DEFINE L(k, t) == state[r].dots[k][t]
<1>1. i \in Nat /\ i = got[r][s] + 1 /\ i - 1 = got[r][s]
  BY DEF NextFrom, LInv, IInv, TypeOK
<1>2. d = sent[s][i].delta /\ d = Pending(r, s).delta
  BY DEF NextFrom, Pending
<1>3. /\ IInv /\ IInv' /\ s # r /\ i \in 1 .. Len(sent[s])
      /\ i \in 0 .. Len(sent[s]) /\ i - 1 \in 0 .. Len(sent[s])
  <2>1. IInv /\ IInv' /\ s # r /\ got[r][s] < Len(sent[s])
    BY DeliverStep DEF Deliver, Deliverable, LInv
  <2>2. got[r][s] \in Nat /\ Len(sent[s]) \in Nat
    BY <2>1 DEF IInv, TypeOK
  <2> QED
    BY <1>1, <2>1, <2>2
<1>4. /\ state' = [state EXCEPT ![r] = Merge("state", state[r], d)]
      /\ hook' = hook /\ sent' = sent /\ inserted' = inserted
      /\ got'[r][s] = i
      /\ \A t \in Replica : \A u \in Replica : t # r \/ u # s => got'[t][u] = got[t][u]
  BY <1>1, <1>2, <1>3 DEF Deliver, Pending, IInv, TypeOK
<1>5. /\ state'[r] = Merge("state", state[r], d)
      /\ \A t \in Replica \ {r} : state'[t] = state[t]
  BY <1>3, <1>4 DEF IInv, TypeOK
<1>6. /\ \A t, j : Upto(t, j)' = Upto(t, j)
      /\ \A t : Last(t)' = Last(t)
  BY <1>4 DEF Upto, Last
<1>7. /\ state[r] \in Kernel /\ Own(state[r]) /\ Linked(state[r])
      /\ d \in Kernel /\ Own(d)
  <2>1. sent[s][i] \in Message
    BY <1>3, SMTT(30) DEF IInv, TypeOK
  <2>2. d \in Kernel
    BY <1>2, <2>1 DEF Message
  <2>3. Own(sent[s][i].delta) /\ Own(state[r])
    BY <1>3 DEF IInv, KernelsOwned
  <2>4. state[r] \in Kernel /\ Linked(state[r])
    BY DEF LInv, StateOk, IInv, TypeOK
  <2> QED
    BY <1>2, <2>2, <2>3, <2>4
<1>8. DeltaOk(s, i)
  BY <1>3 DEF LInv
<1>9. /\ Linked(d)
      /\ d.counters[s] \subseteq 1 .. Upto(s, i)
      /\ \A t \in Replica \ {s} :
           /\ \A k \in Key : d.dots[k][t] = {}
           /\ d.counters[t] \subseteq 1 .. Last(t)
      /\ \A k \in Key :
           /\ d.dots[k][s] \subseteq Upto(s, i - 1) + 1 .. Upto(s, i)
           /\ HeadedIn(d.dots[k][s], d.dots[k][s])
  BY <1>2, <1>8 DEF DeltaOk
<1>10. Supported(d)
  BY <1>7, <1>9, LinkedPairs
<1>11. /\ Upto(s, i - 1) \in Nat /\ Upto(s, i) \in Nat /\ Last(s) \in Nat
       /\ Upto(s, i - 1) <= Upto(s, i) /\ Upto(s, i) <= Last(s)
  <2>1. Covered(s) /\ i - 1 <= i
    BY <1>1 DEF LInv
  <2> QED
    BY <1>3, <2>1, UptoOrder DEF Covered
<1>12. ASSUME NEW k \in Key
       PROVE  L(k, s) \subseteq 1 .. Upto(s, i - 1)
  BY <1>1, <1>3 DEF LInv, StateOk
<1>13. Stays("state", state[r], d)
  <2> SUFFICES ASSUME NEW k \in Key, NEW t \in Replica
               PROVE  d.dots[k][t] \subseteq CountersMerge("state", L(k, t), d.dots[k][t])
    BY DEF Stays
  <2>1. CASE t # s
    BY <1>9, <2>1
  <2>2. CASE t = s
    <3>1. /\ L(k, s) \subseteq 1 .. Upto(s, i - 1)
          /\ d.dots[k][s] \subseteq Upto(s, i - 1) + 1 .. Upto(s, i)
          /\ HeadedIn(d.dots[k][s], d.dots[k][s])
      BY <1>9, <1>12
    <3> HIDE DEF L
    <3>2. /\ L(k, s) \in SUBSET Nat /\ d.dots[k][s] \in SUBSET Nat
          /\ \A x \in L(k, s) : \A y \in d.dots[k][s] : x < y
      BY <1>11, <3>1
    <3> QED
      BY <2>2, <3>1, <3>2, CountersMergeFresh
  <2> QED
    BY <2>1, <2>2
<1>14. MergedCleanly("state", state[r], d)
  BY <1>7, <1>10, <1>13, MergeOwnLinked
<1> QED
  BY <1>1, <1>2, <1>3, <1>4, <1>5, <1>7, <1>8, <1>9, <1>10, <1>11, <1>12, <1>14

LEMMA LinkDeliver ==
  ASSUME LInv, NEW r \in Replica, NEW s \in Replica, Deliver(r, s)
  PROVE  LInv'
<1> DEFINE L(k, t) == state[r].dots[k][t]
<1>1. PICK i \in Nat : i = got[r][s] + 1 /\ i - 1 = got[r][s]
  BY DEF LInv, IInv, TypeOK
<1>2. PICK d : d = sent[s][i].delta /\ NextFrom(r, s, i, d)
  BY <1>1 DEF NextFrom
<1>3. /\ IInv /\ IInv' /\ s # r /\ i \in 1 .. Len(sent[s])
      /\ i \in 0 .. Len(sent[s]) /\ i - 1 \in 0 .. Len(sent[s])
  BY <1>1, <1>2, DeliverEffect DEF LInv
<1>4. /\ state'[r] = Merge("state", state[r], d)
      /\ \A t \in Replica \ {r} : state'[t] = state[t]
      /\ hook' = hook /\ sent' = sent /\ inserted' = inserted
      /\ got'[r][s] = i
      /\ \A t \in Replica : \A u \in Replica : t # r \/ u # s => got'[t][u] = got[t][u]
  BY <1>1, <1>2, DeliverEffect
<1>5. MergedCleanly("state", state[r], d) /\ DeltaOk(s, i)
  BY <1>1, <1>2, DeliverEffect
<1>6. /\ \A t, j : Upto(t, j)' = Upto(t, j)
      /\ \A t : Last(t)' = Last(t)
  BY <1>4 DEF Upto, Last
<1>7. /\ d.counters[s] \subseteq 1 .. Upto(s, i)
      /\ \A t \in Replica \ {s} :
           /\ \A k \in Key : d.dots[k][t] = {}
           /\ d.counters[t] \subseteq 1 .. Last(t)
      /\ \A k \in Key : d.dots[k][s] \subseteq Upto(s, i - 1) + 1 .. Upto(s, i)
  BY <1>2, <1>5 DEF DeltaOk
<1>8. /\ Upto(s, i - 1) \in Nat /\ Upto(s, i) \in Nat /\ Last(s) \in Nat
      /\ Upto(s, i - 1) <= Upto(s, i) /\ Upto(s, i) <= Last(s)
  BY <1>1, <1>2, DeliverEffect
<1>9. \A k \in Key : L(k, s) \subseteq 1 .. Upto(s, i - 1)
  BY <1>1, <1>2, DeliverEffect
<1>10. ASSUME NEW k \in Key, NEW t \in Replica
       PROVE  /\ state'[r].dots[k][t] \subseteq L(k, t) \cup d.dots[k][t]
              /\ state'[r].counters[t] \subseteq state[r].counters[t] \cup d.counters[t]
  BY <1>4, <1>5, MergeCounters, CountersMergeSubset DEF MergedCleanly
<1>11. StateOk(r)'
  <2>1. ASSUME NEW t \in Replica \ {r}
        PROVE  /\ got'[r][t] <= Len(sent[t])
               /\ \A k \in Key : state'[r].dots[k][t] \subseteq 1 .. Upto(t, got'[r][t])
               /\ state'[r].counters[t] \subseteq 1 .. Last(t)
    <3>1. /\ got[r][t] <= Len(sent[t])
          /\ \A k \in Key : L(k, t) \subseteq 1 .. Upto(t, got[r][t])
          /\ state[r].counters[t] \subseteq 1 .. Last(t)
      BY DEF LInv, StateOk
    <3>2. d.counters[t] \subseteq 1 .. Last(t)
      BY <1>7, <1>8
    <3>3. state'[r].counters[t] \subseteq 1 .. Last(t)
      <4>1. state'[r].counters[t] = CountersMerge("state", state[r].counters[t], d.counters[t])
        BY <1>4, MergeCounters
      <4> QED
        BY <3>1, <3>2, <4>1, CountersMergeSubset
    <3>4. CASE t # s
      <4>1. got'[r][t] = got[r][t]
        BY <1>4, <3>4
      <4>2. ASSUME NEW k \in Key
            PROVE  state'[r].dots[k][t] \subseteq L(k, t)
        BY <1>7, <1>10, <3>4
      <4> QED
        BY <3>1, <3>3, <4>1, <4>2
    <3>5. CASE t = s
      <4>1. ASSUME NEW k \in Key
            PROVE  state'[r].dots[k][s] \subseteq 1 .. Upto(s, i)
        <5>1. L(k, s) \subseteq 1 .. Upto(s, i)
          BY <1>8, <1>9
        <5>2. d.dots[k][s] \subseteq 1 .. Upto(s, i)
          BY <1>7, <1>8
        <5> QED
          BY <1>10, <5>1, <5>2
      <4>2. i <= Len(sent[s])
        BY <1>3
      <4> QED
        BY <1>4, <3>3, <3>5, <4>1, <4>2
    <3> QED
      BY <3>4, <3>5
  <2>2. Linked(state'[r])
    BY <1>4, <1>5 DEF MergedCleanly
  <2>3. \A t, j : Upto(t, j)' = Upto(t, j)
    BY <1>6
  <2> QED
    BY <1>4, <1>6, <2>1, <2>2 DEF StateOk, Upto
<1>12. ASSUME NEW t \in Replica \ {r}
       PROVE  StateOk(t)'
  <2>1. \A u \in Replica : got'[t][u] = got[t][u]
    BY <1>4
  <2> QED
    BY <1>4, <1>6, <2>1 DEF LInv, StateOk, Upto
<1>13. HookOk(r)'
  <2>1. ASSUME NEW k \in Key
        PROVE  /\ hook[r].dots[k][r] \subseteq state'[r].dots[k][r]
               /\ HeadedIn(hook[r].dots[k][r], state'[r].dots[k][r])
    <3>1. /\ hook[r].dots[k][r] \subseteq Last(r) + 1 .. Len(inserted[r])
          /\ hook[r].dots[k][r] \subseteq L(k, r)
          /\ HeadedIn(hook[r].dots[k][r], L(k, r))
      BY DEF LInv, HookOk
    <3>2. state'[r].dots[k][r] = L(k, r) \ Valueless(d, r)
      <4>1. state'[r].dots[k][r] =
              CountersMerge("state", L(k, r), d.dots[k][r]) \ Valueless(d, r)
        BY <1>4, <1>5 DEF MergedCleanly
      <4>2. d.dots[k][r] = {}
        BY <1>3, <1>7
      <4> HIDE DEF L
      <4> QED
        BY <4>1, <4>2, CountersMergeNone
    <3>3. Valueless(d, r) \subseteq 1 .. Last(r)
      BY <1>3, <1>7 DEF Valueless
    <3>4. Last(r) \in Nat /\ Len(inserted[r]) \in Nat
      <4>1. 0 \in 0 .. Len(sent[r])
        BY <1>3 DEF IInv, TypeOK
      <4> QED
        BY <4>1, UptoOrder
    <3> HIDE DEF L
    <3>5. hook[r].dots[k][r] \cap Valueless(d, r) = {}
      BY <3>1, <3>3, <3>4
    <3>6. hook[r].dots[k][r] \subseteq state'[r].dots[k][r]
      BY <3>1, <3>2, <3>5
    <3>7. HeadedIn(hook[r].dots[k][r], state'[r].dots[k][r])
      BY <3>1, <3>2 DEF HeadedIn
    <3> QED
      BY <3>6, <3>7
  <2> QED
    BY <1>4, <1>6, <2>1 DEF LInv, HookOk
<1>14. ASSUME NEW t \in Replica \ {r}
       PROVE  HookOk(t)'
  BY <1>4, <1>6 DEF LInv, HookOk
<1>15. \A t \in Replica : Covered(t)' /\ \A j \in 1 .. Len(sent'[t]) : DeltaOk(t, j)'
  BY <1>4, <1>6 DEF LInv, Covered, DeltaOk
<1> QED
  BY <1>3, <1>11, <1>12, <1>13, <1>14, <1>15 DEF LInv

LEMMA LinkInit == Init => LInv
<1> SUFFICES ASSUME Init PROVE LInv
  OBVIOUS
<1>1. IInv
  BY InitInvariant
<1>2. /\ \A k \in Key : \A s \in Replica : EmptyKernel.dots[k][s] = {}
      /\ \A s \in Replica : EmptyKernel.counters[s] = {}
  BY DEF EmptyKernel, NoDots
<1>3. ASSUME NEW r \in Replica
      PROVE  /\ state[r] = EmptyKernel /\ hook[r] = EmptyKernel
             /\ Len(sent[r]) = 0 /\ Len(inserted[r]) = 0
             /\ \A s \in Replica : got[r][s] = 0
  BY DEF Init, Zero
<1>4. \A r \in Replica : Covered(r)
  BY <1>3 DEF Covered, Upto
<1>5. \A r \in Replica : StateOk(r) /\ HookOk(r)
  BY <1>2, <1>3, EmptyLinked DEF StateOk, HookOk, HeadedIn
<1>6. \A s \in Replica : \A i \in 1 .. Len(sent[s]) : FALSE
  BY <1>3
<1> QED
  BY <1>1, <1>4, <1>5, <1>6 DEF LInv

LEMMA LinkStep == LInv /\ [Next]_vars => LInv'
<1> SUFFICES ASSUME LInv, [Next]_vars PROVE LInv'
  OBVIOUS
<1>1. ASSUME NEW r \in Replica, NEW k \in Key, Insert(r, k)
      PROVE  LInv'
  BY <1>1, LinkInsert
<1>2. ASSUME NEW r \in Replica, NEW k \in Key, Erase(r, k)
      PROVE  LInv'
  BY <1>2, LinkErase DEF Erase
<1>3. ASSUME NEW r \in Replica, Clear(r)
      PROVE  LInv'
  <2>1. state[r].keys \in SUBSET Key
    BY DEF LInv, IInv, TypeOK, Kernel
  <2> QED
    BY <1>3, <2>1, LinkErase DEF Clear
<1>4. ASSUME NEW r \in Replica, Extract(r)
      PROVE  LInv'
  BY <1>4, LinkExtract
<1>5. ASSUME NEW r \in Replica, NEW s \in Replica, Deliver(r, s)
      PROVE  LInv'
  BY <1>5, LinkDeliver
<1>6. CASE UNCHANGED vars
  <2>1. IInv'
    BY <1>6, StepInvariant DEF LInv
  <2> QED
    BY <1>6, <2>1, SMTT(30) DEF vars, LInv, Covered, StateOk, HookOk, DeltaOk, Upto, Last
<1> QED
  BY <1>1, <1>2, <1>3, <1>4, <1>5, <1>6 DEF Next, Update

\* The invariant with the links holds in every reachable state.
THEOREM LinkInvariant == Spec => []LInv
<1>1. Init => LInv
  BY LinkInit
<1>2. LInv /\ [Next]_vars => LInv'
  BY LinkStep
<1> QED
  BY <1>1, <1>2, PTL DEF Spec

-----------------------------------------------------------------------------

\* The counter -> key links of every kernel are the inverse of the dots of its elements:
\* a link always leads merge_valueless_clear to an element that is there.
THEOREM LinksExact == Spec => []LinkIntegrity
<1>1. LInv => LinkIntegrity
  <2> SUFFICES ASSUME LInv, NEW l \in Kernels
               PROVE  Linked(l)
    BY DEF LinkIntegrity
  <2>1. CASE l \in Deltas
    BY <2>1 DEF Deltas, LInv, DeltaOk
  <2>2. CASE l \notin Deltas
    BY <2>2 DEF Kernels, LInv, StateOk, HookOk
  <2> QED
    BY <2>1, <2>2
<1> QED
  BY <1>1, LinkInvariant, PTL

LEMMA HookInState == LInv => HookWithinState
<1> SUFFICES ASSUME LInv, NEW r \in Replica, NEW k \in hook[r].keys
             PROVE  /\ k \in state[r].keys
                    /\ \A s \in Replica : hook[r].dots[k][s] \subseteq state[r].dots[k][s]
  BY DEF HookWithinState
<1>1. /\ hook[r] \in Kernel /\ state[r] \in Kernel
      /\ Linked(hook[r]) /\ Linked(state[r])
  BY DEF LInv, IInv, TypeOK, StateOk, HookOk
<1>2. k \in Key
  BY <1>1 DEF Kernel
<1>3. \A s \in Replica : hook[r].dots[k][s] \subseteq state[r].dots[k][s]
  BY <1>2 DEF LInv, HookOk
<1>4. Supported(hook[r]) /\ Supported(state[r])
  BY <1>1, LinkedPairs
<1>5. k \in state[r].keys
  BY <1>2, <1>3, <1>4 DEF Supported
<1> QED
  BY <1>3, <1>5

\* The accumulated delta supports no element that the replica's state does not support
\* with the same dots: what was erased meanwhile is not sent.
THEOREM HooksWithin == Spec => []HookWithinState
BY HookInState, LinkInvariant, PTL

-----------------------------------------------------------------------------

\* A kernel with exact links holds the keys with a dot.
LEMMA KeysHaveDots ==
  ASSUME NEW l \in Kernel, Linked(l)
  PROVE  /\ l.keys \subseteq Key
         /\ \A k \in Key : k \in l.keys <=> \E s \in Replica : l.dots[k][s] # {}
<1>1. Supported(l)
  BY LinkedPairs
<1> QED
  BY <1>1 DEF Supported, Kernel

\* The states before and after a step have the keys with a dot.
LEMMA StateKeys ==
  ASSUME LInv, NEW r \in Replica
  PROVE  /\ state[r].keys \subseteq Key
         /\ \A k \in Key : k \in state[r].keys <=> \E s \in Replica : state[r].dots[k][s] # {}
<1>1. state[r] \in Kernel /\ Linked(state[r])
  BY DEF LInv, IInv, TypeOK, StateOk
<1> QED
  BY <1>1, KeysHaveDots

LEMMA StateKeysAfter ==
  ASSUME LInv', NEW r \in Replica
  PROVE  /\ state'[r].keys \subseteq Key
         /\ \A k \in Key : k \in state'[r].keys <=> \E s \in Replica : state'[r].dots[k][s] # {}
<1>1. state'[r] \in Kernel /\ Linked(state'[r])
  BY DEF LInv, IInv, TypeOK, StateOk
<1> QED
  BY <1>1, KeysHaveDots

LEMMA HookKeys ==
  ASSUME LInv, NEW r \in Replica
  PROVE  /\ hook[r].keys \subseteq Key
         /\ \A k \in Key : k \in hook[r].keys <=> \E s \in Replica : hook[r].dots[k][s] # {}
<1>1. hook[r] \in Kernel /\ Linked(hook[r])
  BY DEF LInv, IInv, TypeOK, HookOk
<1> QED
  BY <1>1, KeysHaveDots

LEMMA HookKeysAfter ==
  ASSUME LInv', NEW r \in Replica
  PROVE  /\ hook'[r].keys \subseteq Key
         /\ \A k \in Key : k \in hook'[r].keys <=> \E s \in Replica : hook'[r].dots[k][s] # {}
<1>1. hook'[r] \in Kernel /\ Linked(hook'[r])
  BY DEF LInv, IInv, TypeOK, HookOk
<1> QED
  BY <1>1, KeysHaveDots

LEMMA HookInStateAfter == LInv' => HookWithinState'
BY HookInState, PTL

LEMMA InsertsKey ==
  ASSUME LInv, LInv', NEW r \in Replica, NEW k \in Key, Insert(r, k)
  PROVE  state'[r].keys = state[r].keys \cup {k}
<1>1. PICK n \in Nat : n = Len(inserted[r])
  BY DEF LInv, IInv, TypeOK
<1>2. DotsInserted(r, k, n) /\ n + 1 \in CountersMerge("state", state[r].dots[k][r], {n + 1})
  BY <1>1, InsertEffect
<1>3. state'[r].dots[k][r] # {}
  BY <1>2 DEF DotsInserted
<1>4. \A j \in Key \ {k} : \A s \in Replica : state'[r].dots[j][s] = state[r].dots[j][s]
  BY <1>2 DEF DotsInserted
<1>5. /\ state[r].keys \subseteq Key
      /\ \A j \in Key : j \in state[r].keys <=> \E s \in Replica : state[r].dots[j][s] # {}
  BY StateKeys
<1>6. /\ state'[r].keys \subseteq Key
      /\ \A j \in Key : j \in state'[r].keys <=> \E s \in Replica : state'[r].dots[j][s] # {}
  BY StateKeysAfter
<1>7. k \in state'[r].keys
  BY <1>3, <1>6
<1>8. ASSUME NEW j \in Key \ {k}
      PROVE  j \in state'[r].keys <=> j \in state[r].keys
  <2>1. \A s \in Replica : state'[r].dots[j][s] = state[r].dots[j][s]
    BY <1>4
  <2> QED
    BY <1>5, <1>6, <2>1
<1> QED
  BY <1>5, <1>6, <1>7, <1>8

LEMMA ErasesKeys ==
  ASSUME LInv, LInv', NEW r \in Replica, NEW K \in SUBSET Key,
         Commit(r, CountersDelta(state[r], K)), Forget(r, K), UNCHANGED inserted
  PROVE  state'[r].keys = state[r].keys \ K
<1> DEFINE V == DotsOf(r, K)
<1>1. /\ DotsErased(r, V)
      /\ \A s \in Replica : \A k \in Key \ K : state[r].dots[k][s] \cap V[s] = {}
  BY EraseEffect
<1>2. \A k \in K : \A s \in Replica : state[r].dots[k][s] \subseteq V[s]
  BY DEF DotsOf
<1> HIDE DEF V
<1>3. \A k \in K : \A s \in Replica : state'[r].dots[k][s] = {}
  BY <1>1, <1>2 DEF DotsErased
<1>4. ASSUME NEW k \in Key \ K, NEW s \in Replica
      PROVE  state'[r].dots[k][s] = state[r].dots[k][s]
  <2>1. state'[r].dots[k][s] = state[r].dots[k][s] \ V[s] /\ state[r].dots[k][s] \cap V[s] = {}
    BY <1>1 DEF DotsErased
  <2> QED
    BY <2>1
<1>5. /\ state[r].keys \subseteq Key
      /\ \A k \in Key : k \in state[r].keys <=> \E s \in Replica : state[r].dots[k][s] # {}
  BY StateKeys
<1>6. /\ state'[r].keys \subseteq Key
      /\ \A k \in Key : k \in state'[r].keys <=> \E s \in Replica : state'[r].dots[k][s] # {}
  BY StateKeysAfter
<1>7. \A k \in K : k \notin state'[r].keys
  BY <1>3, <1>6
<1>8. ASSUME NEW k \in Key \ K
      PROVE  k \in state'[r].keys <=> k \in state[r].keys
  <2>1. \A s \in Replica : state'[r].dots[k][s] = state[r].dots[k][s]
    BY <1>4
  <2> QED
    BY <1>5, <1>6, <2>1
<1> QED
  BY <1>5, <1>6, <1>7, <1>8

\* At its own replica an update of the set does to the content what the same call does to
\* a std::set, although counters_merge collapses dots and deltas of others arrive between.
THEOREM UpdatesLocal == Spec => LocalSemantics
<1>1. LInv /\ LInv' /\ [Next]_vars => [\A r \in Replica : AsStdSet(r)]_vars
  <2> SUFFICES ASSUME LInv, LInv', NEW r \in Replica
               PROVE  AsStdSet(r)
    OBVIOUS
  <2>1. \A k \in Key : Insert(r, k) => state'[r].keys = state[r].keys \cup {k}
    BY InsertsKey
  <2>2. \A k \in Key : Erase(r, k) => state'[r].keys = state[r].keys \ {k}
    BY ErasesKeys DEF Erase
  <2>3. Clear(r) => state'[r].keys = {}
    <3>1. state[r].keys \in SUBSET Key
      BY StateKeys
    <3> QED
      BY <3>1, ErasesKeys DEF Clear
  <2> QED
    BY <2>1, <2>2, <2>3 DEF AsStdSet
<1> QED
  BY <1>1, LinkInvariant, PTL DEF Spec, LocalSemantics

\* The dots of a delta are newer than those that its receiver has.
LEMMA FreshNext ==
  ASSUME LInv, NEW r \in Replica, NEW s \in Replica, Deliver(r, s),
         NEW i \in Nat, NEW d, NextFrom(r, s, i, d)
  PROVE  Fresh(state[r], d)
<1>1. /\ d = sent[s][i].delta /\ DeltaOk(s, i)
      /\ Upto(s, i - 1) \in Nat /\ Upto(s, i) \in Nat
      /\ \A k \in Key : state[r].dots[k][s] \subseteq 1 .. Upto(s, i - 1)
  BY DeliverEffect DEF NextFrom
<1> SUFFICES ASSUME NEW k \in Key, NEW t \in Replica
             PROVE  /\ \A x \in state[r].dots[k][t] : \A y \in d.dots[k][t] : x < y
                    /\ HeadedIn(d.dots[k][t], d.dots[k][t])
  BY DEF Fresh
<1>2. CASE t # s
  <2>1. d.dots[k][t] = {}
    BY <1>1, <1>2 DEF DeltaOk
  <2> QED
    BY <2>1 DEF HeadedIn
<1>3. CASE t = s
  <2>1. /\ d.dots[k][s] \subseteq Upto(s, i - 1) + 1 .. Upto(s, i)
        /\ HeadedIn(d.dots[k][s], d.dots[k][s])
    BY <1>1 DEF DeltaOk
  <2>2. \A x \in state[r].dots[k][s] : \A y \in d.dots[k][s] : x < y
    BY <1>1, <2>1
  <2> QED
    BY <1>3, <2>1, <2>2
<1> QED
  BY <1>2, <1>3

\* Merging a delta twice in a row leaves the content as it is, brings no dot back and keeps
\* links exact, and changes nothing of the elements if the delta took no dot away.
THEOREM RepeatsHarmless == Spec => RepeatedDelivery
<1>1. LInv /\ [Next]_vars =>
        [\A r, s \in Replica : Deliver(r, s) => Harmless(r, Pending(r, s).delta)]_vars
  <2> SUFFICES ASSUME LInv, NEW r \in Replica, NEW s \in Replica, Deliver(r, s)
               PROVE  Harmless(r, Pending(r, s).delta)
    OBVIOUS
  <2>1. PICK i \in Nat : i = got[r][s] + 1
    BY DEF LInv, IInv, TypeOK
  <2>2. PICK d : d = sent[s][i].delta /\ NextFrom(r, s, i, d)
    BY <2>1 DEF NextFrom
  <2>3. /\ d = Pending(r, s).delta /\ d \in Kernel /\ Own(d) /\ Supported(d)
        /\ state'[r] = Merge("state", state[r], d)
    BY <2>2, DeliverEffect
  <2>4. state[r] \in Kernel /\ Linked(state[r]) /\ Own(state[r])
    BY DEF LInv, StateOk, IInv, TypeOK, KernelsOwned
  <2>5. Fresh(state[r], d)
    BY <2>2, FreshNext
  <2>6. PICK again : again = Merge("state", state'[r], d)
    OBVIOUS
  <2>7. Within(state[r], IssuedFor, Issued) /\ Within(d, IssuedFor, Issued)
    BY <2>3, <2>4 DEF Own
  <2>8. NoMoreThan(state[r], d, state'[r], again)
    BY <2>3, <2>4, <2>5, <2>6, <2>7, IssuedOnce, MergeAgain
  <2> QED
    BY <2>3, <2>6, <2>8 DEF Harmless, NoMoreThan
<1> QED
  BY <1>1, LinkInvariant, PTL DEF Spec, RepeatedDelivery

-----------------------------------------------------------------------------
(* No insert is lost. q is the sequence of inserts of a replica and E are  *)
(* its dots that an erase covered, or the function to these.               *)

\* The c-th insert is current among the first n: no erase covered its dot and none of the
\* later ones is of its key.
Current(q, E, c, n) ==
  /\ c \notin E
  /\ \A e \in c + 1 .. n : q[e] # q[c]

\* l holds the dots of s in a .. b that are current among the first b.
Holds(l, s, q, E, a, b) ==
  \A c \in a .. b : Current(q, E, c, b) => c \in l.dots[q[c]][s]

\* The counters of s that l has on record without an element.
Bare(l, s) == l.counters[s] \ UNION {l.dots[k][s] : k \in Key}

\* l deletes no dot of s that is current among the first b, and no dot of others that no
\* erase covered.
Spares(l, s, q, E, b) ==
  /\ \A c \in Bare(l, s) : ~Current(q, E[s], c, b)
  /\ \A t \in Replica \ {s} : Bare(l, t) \subseteq E[t]

\* A state holds the current ones among the inserts that have reached it.
StateKeeps(r) ==
  \A s \in Replica : Holds(state[r], s, inserted[s], erased[s], 1, Reached(r, s))

\* An accumulated delta holds the current ones among the inserts since the last extraction.
HookKeeps(r) ==
  /\ Holds(hook[r], r, inserted[r], erased[r], Last(r) + 1, Len(inserted[r]))
  /\ Spares(hook[r], r, inserted[r], erased, Len(inserted[r]))

\* And so does an extracted delta, as far as it goes.
DeltaKeeps(s, i) ==
  /\ Holds(sent[s][i].delta, s, inserted[s], erased[s], Upto(s, i - 1) + 1, Upto(s, i))
  /\ Spares(sent[s][i].delta, s, inserted[s], erased, Upto(s, i))

KInv ==
  /\ LInv
  /\ \A r \in Replica : StateKeeps(r) /\ HookKeeps(r)
  /\ \A s \in Replica : \A i \in 1 .. Len(sent[s]) : DeltaKeeps(s, i)

\* A sequence of inserts was only appended to; more dots are erased.
SamePrefix(q, p, n) == \A c \in 1 .. n : p[c] = q[c]
Contains(F, E) == \A t \in Replica : E[t] \subseteq F[t]

\* m is l with the dots V erased.
Erased(l, m, V) ==
  /\ \A j \in Key : \A t \in Replica : m.dots[j][t] = l.dots[j][t] \ V[t]
  /\ \A t \in Replica : m.counters[t] \subseteq l.counters[t] \cup V[t]

\* Inserts and erases elsewhere change neither.
LEMMA HoldsGrows ==
  ASSUME NEW l, NEW s, NEW q, NEW E, NEW p, NEW F, NEW a \in Nat \ {0}, NEW b \in Nat,
         Holds(l, s, q, E, a, b), \A c \in 1 .. b : p[c] = q[c], E \subseteq F
  PROVE  Holds(l, s, p, F, a, b)
<1> SUFFICES ASSUME NEW c \in a .. b, Current(p, F, c, b)
             PROVE  c \in l.dots[p[c]][s]
  BY DEF Holds
<1>1. c \in 1 .. b /\ \A e \in c + 1 .. b : e \in 1 .. b
  OBVIOUS
<1>2. Current(q, E, c, b)
  BY <1>1 DEF Current
<1> QED
  BY <1>1, <1>2 DEF Holds

LEMMA SparesGrows ==
  ASSUME NEW l \in Kernel, NEW s \in Replica, NEW q, NEW E, NEW p, NEW F, NEW b \in Nat,
         NEW n \in Nat, b <= n,
         Spares(l, s, q, E, b), SamePrefix(q, p, b), Contains(F, E)
  PROVE  Spares(l, s, p, F, n)
<1>1. ASSUME NEW c \in Bare(l, s)
      PROVE  ~Current(p, F[s], c, n)
  <2>1. c \in Nat \ {0}
    BY DEF Bare, Kernel, Dots
  <2>2. c \in E[s] \/ \E e \in c + 1 .. b : q[e] = q[c]
    BY DEF Spares, Current
  <2>3. CASE c \in E[s]
    BY <2>3 DEF Current, Contains
  <2>4. ASSUME NEW e \in c + 1 .. b, q[e] = q[c]
        PROVE  ~Current(p, F[s], c, n)
    <3>1. e \in 1 .. b /\ c \in 1 .. b /\ e \in c + 1 .. n
      BY <2>1
    <3> QED
      BY <2>4, <3>1 DEF Current, SamePrefix
  <2> QED
    BY <2>2, <2>3, <2>4
<1> QED
  BY <1>1 DEF Spares, Contains

\* The n+1st insert is of k: p continues q, and m holds its dot and those that l holds of
\* other keys.
InsertedAs(k, n, q, p, l, m, s) ==
  /\ \A c \in 1 .. n : p[c] = q[c] /\ q[c] \in Key
  /\ p[n + 1] = k
  /\ \A j \in Key : j # k => m.dots[j][s] = l.dots[j][s]
  /\ n + 1 \in m.dots[k][s]

LEMMA HoldsInserted ==
  ASSUME NEW l, NEW m, NEW s, NEW q, NEW p, NEW E, NEW k, NEW n \in Nat, NEW a \in Nat \ {0},
         Holds(l, s, q, E, a, n), InsertedAs(k, n, q, p, l, m, s)
  PROVE  Holds(m, s, p, E, a, n + 1)
<1> SUFFICES ASSUME NEW c \in a .. n + 1, Current(p, E, c, n + 1)
             PROVE  c \in m.dots[p[c]][s]
  BY DEF Holds
<1>1. CASE c = n + 1
  BY <1>1 DEF InsertedAs
<1>2. CASE c # n + 1
  <2>1. c \in a .. n /\ c \in 1 .. n /\ n + 1 \in c + 1 .. n + 1
    BY <1>2
  <2>2. p[c] # k /\ p[c] = q[c] /\ q[c] \in Key
    BY <2>1 DEF Current, InsertedAs
  <2>3. \A e \in c + 1 .. n : e \in c + 1 .. n + 1 /\ e \in 1 .. n
    BY <2>1
  <2>4. Current(q, E, c, n)
    BY <2>1, <2>3 DEF Current, InsertedAs
  <2>5. c \in l.dots[q[c]][s]
    BY <2>1, <2>4 DEF Holds
  <2> QED
    BY <2>2, <2>5 DEF InsertedAs
<1> QED
  BY <1>1, <1>2

LEMMA HoldsErased ==
  ASSUME NEW l, NEW m, NEW s, NEW q, NEW E, NEW V, NEW a \in Nat \ {0}, NEW b \in Nat,
         Holds(l, s, q, E, a, b), \A c \in 1 .. b : q[c] \in Key,
         \A j \in Key : m.dots[j][s] = l.dots[j][s] \ V
  PROVE  Holds(m, s, q, E \cup V, a, b)
<1> SUFFICES ASSUME NEW c \in a .. b, Current(q, E \cup V, c, b)
             PROVE  c \in m.dots[q[c]][s]
  BY DEF Holds
<1>1. c \in 1 .. b
  OBVIOUS
<1> QED
  BY <1>1 DEF Holds, Current

\* A delta of s brings what is current among the first b to a state that held what was
\* current among the first a of them.
LEMMA HoldsMerged ==
  ASSUME NEW l \in Kernel, NEW d \in Kernel, NEW m, NEW s \in Replica, NEW q, NEW E,
         NEW a \in Nat, NEW b \in Nat, a <= b,
         Holds(l, s, q, E[s], 1, a), Holds(d, s, q, E[s], a + 1, b), Spares(d, s, q, E, b),
         \A k \in Key : l.dots[k][s] \subseteq 1 .. a /\ d.dots[k][s] \subseteq a + 1 .. b,
         \A k \in Key : \A c \in l.dots[k][s] \cup d.dots[k][s] : q[c] = k,
         \A c \in 1 .. b : q[c] \in Key,
         \A k \in Key : m.dots[k][s] =
           CountersMerge("state", l.dots[k][s], d.dots[k][s]) \ Bare(d, s)
  PROVE  Holds(m, s, q, E[s], 1, b)
<1> SUFFICES ASSUME NEW c \in 1 .. b, Current(q, E[s], c, b)
             PROVE  c \in m.dots[q[c]][s]
  BY DEF Holds
<1> DEFINE L == l.dots[q[c]][s]
           R == d.dots[q[c]][s]
<1>1. /\ q[c] \in Key /\ c \notin Bare(d, s)
      /\ L \subseteq 1 .. a /\ R \subseteq a + 1 .. b
      /\ \A x \in L \cup R : q[x] = q[c]
  BY DEF Spares
<1>2. \A x \in L \cup R : x <= c
  <2> SUFFICES ASSUME NEW x \in L \cup R, ~(x <= c)
               PROVE  FALSE
    OBVIOUS
  <2>1. x \in c + 1 .. b /\ q[x] = q[c]
    BY <1>1
  <2> QED
    BY <2>1 DEF Current
<1>3. c \in CountersMerge("state", L, R)
  <2>1. CASE c \in a + 1 .. b
    <3>1. c \in R
      BY <2>1 DEF Holds
    <3>2. L \in SUBSET Nat /\ R \in SUBSET Nat
      BY <1>1
    <3> HIDE DEF L, R
    <3> QED
      BY <1>2, <3>1, <3>2, CountersMergeTop
  <2>2. CASE c \in 1 .. a
    <3>1. Current(q, E[s], c, a)
      <4>1. \A e \in c + 1 .. a : e \in c + 1 .. b
        OBVIOUS
      <4> QED
        BY <4>1 DEF Current
    <3>2. c \in L
      BY <2>2, <3>1 DEF Holds
    <3>3. R = {}
      <4> SUFFICES ASSUME NEW x \in R
                   PROVE  FALSE
        OBVIOUS
      <4>1. x \in a + 1 .. b /\ x <= c
        BY <1>1, <1>2
      <4> QED
        BY <2>2, <4>1
    <3> HIDE DEF L, R
    <3> QED
      BY <3>2, <3>3, CountersMergeNone
  <2>3. c \in 1 .. a \/ c \in a + 1 .. b
    OBVIOUS
  <2> QED
    BY <2>1, <2>2, <2>3
<1> QED
  BY <1>1, <1>3

\* An accumulated delta takes in the dot of an insert: the dots this drops are of the key
\* that was inserted again.
LEMMA SparesInserted ==
  ASSUME NEW l \in Kernel, NEW m, NEW s \in Replica, NEW q, NEW p, NEW E, NEW k \in Key,
         NEW n \in Nat, Spares(l, s, q, E, n),
         \A c \in 1 .. n : p[c] = q[c], p[n + 1] = k,
         l.counters[s] \subseteq 1 .. n,
         \A c \in l.dots[k][s] : q[c] = k,
         \A j \in Key : \A t \in Replica : j # k \/ t # s => m.dots[j][t] = l.dots[j][t],
         n + 1 \in m.dots[k][s],
         \A t \in Replica \ {s} : m.counters[t] = l.counters[t],
         m.counters[s] \subseteq l.counters[s] \cup {n + 1}
  PROVE  Spares(m, s, p, E, n + 1)
<1>1. ASSUME NEW c \in Bare(m, s)
      PROVE  ~Current(p, E[s], c, n + 1)
  <2>1. c \in l.counters[s] /\ c \in 1 .. n
    BY DEF Bare
  <2>2. n + 1 \in c + 1 .. n + 1
    BY <2>1
  <2>3. CASE c \in l.dots[k][s]
    <3>1. p[c] = k
      BY <2>1, <2>3
    <3> QED
      BY <2>2, <3>1 DEF Current
  <2>4. CASE c \notin l.dots[k][s]
    <3>1. \A j \in Key : c \notin l.dots[j][s]
      BY <2>4 DEF Bare
    <3>2. c \in Bare(l, s)
      BY <2>1, <3>1 DEF Bare
    <3>3. c \in E[s] \/ \E e \in c + 1 .. n : q[e] = q[c]
      BY <3>2 DEF Spares, Current
    <3>4. ASSUME NEW e \in c + 1 .. n, q[e] = q[c]
          PROVE  ~Current(p, E[s], c, n + 1)
      <4>1. e \in 1 .. n /\ e \in c + 1 .. n + 1
        BY <2>1
      <4> QED
        BY <2>1, <3>4, <4>1 DEF Current
    <3> QED
      BY <3>3, <3>4 DEF Current
  <2> QED
    BY <2>3, <2>4
<1>2. ASSUME NEW t \in Replica \ {s}
      PROVE  Bare(m, t) \subseteq E[t]
  <2>1. \A j \in Key : m.dots[j][t] = l.dots[j][t]
    OBVIOUS
  <2>2. Bare(m, t) = Bare(l, t)
    BY <2>1 DEF Bare
  <2> QED
    BY <2>2 DEF Spares
<1> QED
  BY <1>1, <1>2 DEF Spares

\* It takes in the dots of an erase, which are erased by then.
LEMMA SparesErased ==
  ASSUME NEW l, NEW m, NEW s \in Replica, NEW q, NEW E, NEW F, NEW V, NEW b,
         Spares(l, s, q, E, b),
         Contains(F, E), Contains(F, V), Erased(l, m, V)
  PROVE  Spares(m, s, q, F, b)
<1>1. ASSUME NEW t \in Replica, NEW c \in Bare(m, t)
      PROVE  c \in Bare(l, t) \/ c \in V[t]
  <2>1. c \in m.counters[t] /\ \A j \in Key : c \notin m.dots[j][t]
    BY DEF Bare
  <2>2. c \in V[t] \/ (c \in l.counters[t] /\ \A j \in Key : c \notin l.dots[j][t])
    BY <2>1 DEF Erased
  <2> QED
    BY <2>2 DEF Bare
<1>2. ASSUME NEW c \in Bare(m, s)
      PROVE  ~Current(q, F[s], c, b)
  BY <1>1 DEF Spares, Current, Contains
<1>3. ASSUME NEW t \in Replica \ {s}
      PROVE  Bare(m, t) \subseteq F[t]
  BY <1>1 DEF Spares, Contains
<1> QED
  BY <1>2, <1>3 DEF Spares

-----------------------------------------------------------------------------
(* The invariant, one action at a time.                                    *)

\* What reaches a replica has been inserted.
LEMMA ReachedFacts ==
  ASSUME LInv, NEW r \in Replica, NEW s \in Replica
  PROVE  /\ Len(inserted[s]) \in Nat
         /\ Reached(r, s) \in 0 .. Len(inserted[s])
         /\ r # s => Reached(r, s) = Upto(s, got[r][s])
         /\ \A c \in 1 .. Len(inserted[s]) : inserted[s][c] \in Key
<1>1. Len(inserted[s]) \in Nat /\ \A c \in 1 .. Len(inserted[s]) : inserted[s][c] \in Key
  BY DEF LInv, IInv, TypeOK
<1>2. r # s => Reached(r, s) = Upto(s, got[r][s])
  BY DEF Reached, Upto
<1>3. CASE r = s
  BY <1>1, <1>3 DEF Reached
<1>4. CASE r # s
  <2>1. got[r][s] \in 0 .. Len(sent[s])
    BY <1>4 DEF LInv, StateOk, IInv, TypeOK
  <2>2. /\ Upto(s, got[r][s]) \in Nat /\ Last(s) \in Nat
        /\ Upto(s, got[r][s]) <= Last(s) /\ Last(s) <= Len(inserted[s])
    BY <2>1, UptoOrder
  <2> QED
    BY <1>1, <1>2, <1>4, <2>2
<1> QED
  BY <1>1, <1>2, <1>3, <1>4

\* What the deltas cover has been inserted.
LEMMA UptoInserted ==
  ASSUME LInv, NEW s \in Replica, NEW i \in 1 .. Len(sent[s])
  PROVE  /\ Len(inserted[s]) \in Nat
         /\ Upto(s, i - 1) \in 0 .. Len(inserted[s])
         /\ Upto(s, i) \in 0 .. Len(inserted[s])
         /\ Last(s) \in 0 .. Len(inserted[s])
         /\ sent[s][i].delta \in Kernel
<1>1. Len(sent[s]) \in Nat /\ sent[s][i] \in Message
  BY DEF LInv, IInv, TypeOK
<1>2. i \in 0 .. Len(sent[s]) /\ i - 1 \in 0 .. Len(sent[s])
  BY <1>1
<1> QED
  BY <1>1, <1>2, UptoOrder, SMTT(30) DEF Message

\* inserted and erased only grow.
Grown ==
  \A s \in Replica :
    /\ \A c \in 1 .. Len(inserted[s]) : inserted'[s][c] = inserted[s][c]
    /\ erased[s] \subseteq erased'[s]

\* What an update of replica r leaves alone.
LEMMA KeepsFrame ==
  ASSUME KInv, LInv', NEW r \in Replica, NEW d, Commit(r, d), Grown,
         \A s \in Replica \ {r} : inserted'[s] = inserted[s],
         StateKeeps(r)', HookKeeps(r)'
  PROVE  KInv'
<1>0. LInv /\ LInv'
  BY DEF KInv
<1>1. /\ sent' = sent /\ got' = got
      /\ \A s \in Replica \ {r} : state'[s] = state[s] /\ hook'[s] = hook[s]
  BY <1>0 DEF Commit, LInv, IInv, TypeOK
<1>2. /\ \A s, i : Upto(s, i)' = Upto(s, i)
      /\ \A s : Last(s)' = Last(s)
  BY <1>1 DEF Upto, Last
<1>2a. ASSUME NEW t \in Replica \ {r}, NEW s \in Replica
       PROVE  Reached(t, s)' = Reached(t, s)
  <2>1. CASE t = s
    <3>1. inserted'[s] = inserted[s]
      BY <2>1
    <3> QED
      BY <2>1, <3>1 DEF Reached
  <2>2. CASE t # s
    BY <1>1, <2>2 DEF Reached
  <2> QED
    BY <2>1, <2>2
<1>3. ASSUME NEW t \in Replica \ {r}
      PROVE  StateKeeps(t)'
  <2> SUFFICES ASSUME NEW s \in Replica
               PROVE  Holds(state'[t], s, inserted'[s], erased'[s], 1, Reached(t, s)')
    BY DEF StateKeeps
  <2>1. Reached(t, s)' = Reached(t, s) /\ state'[t] = state[t]
    BY <1>1, <1>2a
  <2>2. Reached(t, s) \in 0 .. Len(inserted[s]) /\ Len(inserted[s]) \in Nat
    BY <1>0, ReachedFacts
  <2>3. Holds(state[t], s, inserted[s], erased[s], 1, Reached(t, s))
    BY DEF KInv, StateKeeps
  <2>4. \A c \in 1 .. Reached(t, s) : inserted'[s][c] = inserted[s][c]
    BY <2>2 DEF Grown
  <2>5. erased[s] \subseteq erased'[s]
    BY DEF Grown
  <2>6. Reached(t, s) \in Nat /\ 1 \in Nat \ {0}
    BY <2>2
  <2>7. Holds(state[t], s, inserted'[s], erased'[s], 1, Reached(t, s))
    BY <2>3, <2>4, <2>5, <2>6, HoldsGrows
  <2> QED
    BY <2>1, <2>7
<1>4. ASSUME NEW t \in Replica \ {r}
      PROVE  HookKeeps(t)'
  <2>1. /\ hook'[t] = hook[t] /\ inserted'[t] = inserted[t] /\ Last(t)' = Last(t)
        /\ hook[t] \in Kernel /\ Len(inserted[t]) \in Nat /\ Last(t) \in Nat
        /\ Last(t) + 1 \in Nat \ {0}
    <3>1. 0 \in 0 .. Len(sent[t]) /\ hook[t] \in Kernel
      BY <1>0 DEF LInv, IInv, TypeOK
    <3> QED
      BY <1>0, <1>1, <1>2, <3>1, UptoOrder
  <2>2. Holds(hook[t], t, inserted[t], erased[t], Last(t) + 1, Len(inserted[t]))
    BY DEF KInv, HookKeeps
  <2>3. Spares(hook[t], t, inserted[t], erased, Len(inserted[t]))
    BY DEF KInv, HookKeeps
  <2>4. Contains(erased', erased)
    BY DEF Grown, Contains
  <2>5. Holds(hook[t], t, inserted[t], erased'[t], Last(t) + 1, Len(inserted[t]))
    BY <2>1, <2>2, <2>4, HoldsGrows DEF Contains
  <2>6. Spares(hook[t], t, inserted[t], erased', Len(inserted[t]))
    <3> DEFINE l == hook[t]
               q == inserted[t]
               n == Len(inserted[t])
    <3>1. l \in Kernel /\ n \in Nat /\ n <= n /\ Spares(l, t, q, erased, n) /\ SamePrefix(q, q, n)
      BY <2>1, <2>3 DEF SamePrefix
    <3> HIDE DEF l, q, n
    <3>2. Spares(l, t, q, erased', n)
      BY <2>4, <3>1, SparesGrows
    <3> QED
      BY <3>2 DEF l, q, n
  <2> QED
    BY <2>1, <2>5, <2>6 DEF HookKeeps
<1>5. ASSUME NEW s \in Replica, NEW i \in 1 .. Len(sent[s])
      PROVE  DeltaKeeps(s, i)'
  <2>1. /\ Len(inserted[s]) \in Nat
        /\ Upto(s, i - 1) \in 0 .. Len(inserted[s])
        /\ Upto(s, i) \in 0 .. Len(inserted[s])
        /\ sent[s][i].delta \in Kernel
    BY <1>0, UptoInserted
  <2>2. /\ Upto(s, i) \in Nat /\ Upto(s, i - 1) + 1 \in Nat \ {0}
        /\ \A c \in 1 .. Upto(s, i) : c \in 1 .. Len(inserted[s])
    BY <2>1
  <2>3. DeltaKeeps(s, i)
    BY DEF KInv
  <2>4. /\ \A c \in 1 .. Upto(s, i) : inserted'[s][c] = inserted[s][c]
        /\ \A t \in Replica : erased[t] \subseteq erased'[t]
    BY <2>2 DEF Grown
  <2> DEFINE l == sent[s][i].delta
             a == Upto(s, i - 1) + 1
             b == Upto(s, i)
  <2>5. Holds(l, s, inserted[s], erased[s], a, b) /\ Spares(l, s, inserted[s], erased, b)
    BY <2>3 DEF DeltaKeeps
  <2>6. l \in Kernel /\ a \in Nat \ {0} /\ b \in Nat /\ b <= b
    BY <2>1, <2>2
  <2>7. \A c \in 1 .. b : inserted'[s][c] = inserted[s][c]
    BY <2>4
  <2> HIDE DEF l, a, b
  <2>8. Holds(l, s, inserted'[s], erased'[s], a, b)
    BY <2>4, <2>5, <2>6, <2>7, HoldsGrows
  <2>9. Spares(l, s, inserted'[s], erased', b)
    <3> DEFINE q == inserted[s]
               p == inserted'[s]
               E == erased
               F == erased'
    <3>1. /\ Spares(l, s, q, E, b)
          /\ SamePrefix(q, p, b)
          /\ Contains(F, E)
      BY <2>4, <2>5, <2>7 DEF SamePrefix, Contains
    <3> HIDE DEF q, p, E, F
    <3>2. Spares(l, s, p, F, b)
      BY <2>6, <3>1, SparesGrows
    <3> QED
      BY <3>2 DEF p, F
  <2> QED
    BY <1>1, <1>2, <2>8, <2>9 DEF DeltaKeeps, l, a, b
<1>6. \A t \in Replica : StateKeeps(t)' /\ HookKeeps(t)'
  BY <1>3, <1>4
<1>7. \A s \in Replica : \A i \in 1 .. Len(sent'[s]) : DeltaKeeps(s, i)'
  BY <1>1, <1>5
<1> QED
  BY <1>6, <1>7 DEF KInv

LEMMA KeepsInsert ==
  ASSUME KInv, NEW r \in Replica, NEW k \in Key, Insert(r, k)
  PROVE  KInv'
<1>0. LInv /\ LInv'
  BY LinkInsert DEF KInv
<1>a. PICK n \in Nat : n = Len(inserted[r])
  BY <1>0 DEF LInv, IInv, TypeOK
<1>1. /\ Commit(r, ValueDelta(k, r, n + 1))
      /\ sent' = sent /\ got' = got
      /\ inserted' = [inserted EXCEPT ![r] = Append(@, k)]
      /\ Len(inserted'[r]) = n + 1
      /\ \A s \in Replica \ {r} : inserted'[s] = inserted[s]
      /\ n + 1 \in CountersMerge("state", state[r].dots[k][r], {n + 1})
      /\ n + 1 \in CountersMerge("delta", hook[r].dots[k][r], {n + 1})
      /\ DotsInserted(r, k, n)
      /\ \A s \in Replica \ {r} : hook'[r].counters[s] = hook[r].counters[s]
      /\ hook'[r].counters[r] \subseteq hook[r].counters[r] \cup {n + 1}
  BY <1>0, <1>a, InsertEffect
<1>2. erased' = erased
  BY DEF Insert
<1>3. /\ \A s \in Replica : \A c \in 1 .. Len(inserted[s]) : inserted'[s][c] = inserted[s][c]
      /\ inserted'[r][n + 1] = k
  BY <1>0, <1>1, <1>a DEF LInv, IInv, TypeOK
<1>4. Grown
  BY <1>2, <1>3 DEF Grown
<1>5. \A c \in 1 .. n : inserted'[r][c] = inserted[r][c] /\ inserted[r][c] \in Key
  BY <1>0, <1>3, <1>a, ReachedFacts
<1>6. /\ \A j \in Key : j # k => state'[r].dots[j][r] = state[r].dots[j][r]
      /\ n + 1 \in state'[r].dots[k][r]
      /\ \A j \in Key : \A t \in Replica : j # k \/ t # r => hook'[r].dots[j][t] = hook[r].dots[j][t]
      /\ n + 1 \in hook'[r].dots[k][r]
      /\ \A j \in Key : \A t \in Replica \ {r} : state'[r].dots[j][t] = state[r].dots[j][t]
  BY <1>1 DEF DotsInserted
<1>7. Last(r)' = Last(r)
  BY <1>1 DEF Last, Upto
<1>8. StateKeeps(r)'
  <2> SUFFICES ASSUME NEW s \in Replica
               PROVE  Holds(state'[r], s, inserted'[s], erased'[s], 1, Reached(r, s)')
    BY DEF StateKeeps
  <2>1. Holds(state[r], s, inserted[s], erased[s], 1, Reached(r, s))
    BY DEF KInv, StateKeeps
  <2>2. CASE s = r
    <3>1. Reached(r, r) = n /\ Reached(r, r)' = n + 1
      BY <1>1, <1>a DEF Reached
    <3>2. Holds(state[r], r, inserted[r], erased[r], 1, n) /\ 1 \in Nat \ {0}
      BY <2>1, <2>2, <3>1
    <3>3. Holds(state'[r], r, inserted'[r], erased[r], 1, n + 1)
      <4> DEFINE l == state[r]
                 m == state'[r]
                 q == inserted[r]
                 p == inserted'[r]
                 E == erased[r]
      <4>1. /\ Holds(l, r, q, E, 1, n) /\ 1 \in Nat \ {0}
            /\ InsertedAs(k, n, q, p, l, m, r)
        BY <1>3, <1>5, <1>6, <3>2 DEF InsertedAs
      <4> HIDE DEF l, m, q, p, E
      <4>2. Holds(m, r, p, E, 1, n + 1)
        BY <4>1, HoldsInserted
      <4> QED
        BY <4>2 DEF m, p, E
    <3> QED
      BY <1>2, <2>2, <3>1, <3>3
  <2>3. CASE s # r
    <3>1. Reached(r, s)' = Reached(r, s) /\ inserted'[s] = inserted[s]
      BY <1>1, <2>3 DEF Reached
    <3>2. Reached(r, s) \in 0 .. Len(inserted[s]) /\ Len(inserted[s]) \in Nat
      BY <1>0, ReachedFacts
    <3>3. \A c \in 1 .. Reached(r, s) : inserted[s][c] \in Key
      BY <1>0, <3>2, ReachedFacts
    <3>4. \A j \in Key : state'[r].dots[j][s] = state[r].dots[j][s]
      BY <1>6, <2>3
    <3> QED
      BY <1>2, <2>1, <3>1, <3>3, <3>4 DEF Holds
  <2> QED
    BY <2>2, <2>3
<1>9. HookKeeps(r)'
  <2>0. hook[r] \in Kernel /\ Last(r) \in Nat /\ Last(r) + 1 \in Nat \ {0}
    <3>1. 0 \in 0 .. Len(sent[r]) /\ hook[r] \in Kernel
      BY <1>0 DEF LInv, IInv, TypeOK
    <3> QED
      BY <1>0, <3>1, UptoOrder
  <2>1. /\ Holds(hook[r], r, inserted[r], erased[r], Last(r) + 1, n)
        /\ Spares(hook[r], r, inserted[r], erased, n)
    BY <1>a DEF KInv, HookKeeps
  <2>2. /\ hook[r].counters[r] \subseteq 1 .. n
        /\ \A c \in hook[r].dots[k][r] : inserted[r][c] = k
    BY <1>0, <1>a DEF LInv, IInv, KernelsOwned, Own, Within, Issued, IssuedFor
  <2> DEFINE l == hook[r]
             m == hook'[r]
             q == inserted[r]
             p == inserted'[r]
             a == Last(r) + 1
             E == erased
             G == erased[r]
  <2>3. /\ Holds(l, r, q, G, a, n) /\ a \in Nat \ {0}
        /\ InsertedAs(k, n, q, p, l, m, r)
    BY <1>3, <1>5, <1>6, <2>0, <2>1 DEF InsertedAs
  <2>4. /\ Spares(l, r, q, E, n)
        /\ l \in Kernel
        /\ l.counters[r] \subseteq 1 .. n
        /\ \A c \in l.dots[k][r] : q[c] = k
        /\ \A j \in Key : \A t \in Replica : j # k \/ t # r => m.dots[j][t] = l.dots[j][t]
        /\ \A t \in Replica \ {r} : m.counters[t] = l.counters[t]
        /\ m.counters[r] \subseteq l.counters[r] \cup {n + 1}
    BY <1>1, <1>6, <2>0, <2>1, <2>2
  <2> HIDE DEF l, m, p, q, a, E, G
  <2>5. Holds(m, r, p, G, a, n + 1)
    BY <2>3, HoldsInserted
  <2>6. Spares(m, r, p, E, n + 1)
    BY <2>3, <2>4, SparesInserted DEF InsertedAs
  <2> QED
    BY <1>1, <1>2, <1>7, <2>5, <2>6 DEF HookKeeps, m, p, a, E, G
<1> QED
  BY <1>0, <1>1, <1>4, <1>8, <1>9, KeepsFrame

LEMMA KeepsErase ==
  ASSUME KInv, NEW r \in Replica, NEW K \in SUBSET Key,
         Commit(r, CountersDelta(state[r], K)), Forget(r, K), UNCHANGED inserted
  PROVE  KInv'
<1>0. LInv /\ LInv'
  BY LinkErase DEF KInv
<1>1. /\ sent' = sent /\ got' = got /\ inserted' = inserted
      /\ DotsErased(r, DotsOf(r, K))
      /\ \A s \in Replica : hook'[r].counters[s] \subseteq hook[r].counters[s] \cup DotsOf(r, K)[s]
  BY <1>0, EraseEffect
<1>2. \A s \in Replica : erased'[s] = erased[s] \cup DotsOf(r, K)[s]
  BY DEF Forget, DotsOf
<1>3. Grown
  BY <1>1, <1>2 DEF Grown
<1>4. /\ \A s : Last(s)' = Last(s)
      /\ \A s \in Replica : Reached(r, s)' = Reached(r, s)
  BY <1>1 DEF Last, Upto, Reached
<1>5. StateKeeps(r)'
  <2> SUFFICES ASSUME NEW s \in Replica
               PROVE  Holds(state'[r], s, inserted[s], erased'[s], 1, Reached(r, s))
    BY <1>1, <1>4 DEF StateKeeps
  <2> DEFINE l == state[r]
             m == state'[r]
             q == inserted[s]
             b == Reached(r, s)
             V == DotsOf(r, K)[s]
  <2>1. b \in 0 .. Len(inserted[s]) /\ Len(inserted[s]) \in Nat
    BY <1>0, ReachedFacts
  <2>2. \A c \in 1 .. b : q[c] \in Key
    BY <1>0, <2>1, ReachedFacts
  <2>3. Holds(l, s, q, erased[s], 1, b)
    BY DEF KInv, StateKeeps
  <2>4. \A j \in Key : m.dots[j][s] = l.dots[j][s] \ V
    BY <1>1 DEF DotsErased
  <2>5. b \in Nat /\ 1 \in Nat \ {0} /\ erased'[s] = erased[s] \cup V
    BY <1>2, <2>1
  <2> HIDE DEF l, m, q, b, V
  <2>6. Holds(m, s, q, erased[s] \cup V, 1, b)
    BY <2>2, <2>3, <2>4, <2>5, HoldsErased
  <2> QED
    BY <2>5, <2>6 DEF l, m, q, b, V
<1>6. HookKeeps(r)'
  <2> DEFINE l == hook[r]
             m == hook'[r]
             q == inserted[r]
             n == Len(inserted[r])
             a == Last(r) + 1
             V == DotsOf(r, K)
             E == erased
             F == erased'
  <2>1. n \in Nat /\ a \in Nat \ {0} /\ \A c \in 1 .. n : q[c] \in Key
    <3>1. 0 \in 0 .. Len(sent[r])
      BY <1>0 DEF LInv, IInv, TypeOK
    <3> QED
      BY <1>0, <3>1, UptoOrder, ReachedFacts
  <2>2. Holds(l, r, q, E[r], a, n) /\ Spares(l, r, q, E, n)
    BY DEF KInv, HookKeeps
  <2>3. Erased(l, m, V) /\ \A t \in Replica : F[t] = E[t] \cup V[t]
    BY <1>1, <1>2 DEF DotsErased, Erased
  <2>a. Contains(F, E) /\ Contains(F, V)
    BY <2>3 DEF Contains
  <2> HIDE DEF l, m, q, n, a, V, E, F
  <2>4. Holds(m, r, q, E[r] \cup V[r], a, n)
    <3> DEFINE W == V[r]
               G == E[r]
    <3>1. Holds(l, r, q, G, a, n) /\ \A j \in Key : m.dots[j][r] = l.dots[j][r] \ W
      BY <2>2, <2>3 DEF Erased
    <3> HIDE DEF W, G
    <3>2. Holds(m, r, q, G \cup W, a, n)
      BY <2>1, <3>1, HoldsErased
    <3> QED
      BY <3>2 DEF W, G
  <2>5. Spares(m, r, q, F, n)
    BY <2>2, <2>3, <2>a, SparesErased
  <2>6. Holds(m, r, q, F[r], a, n)
    BY <2>3, <2>4
  <2> QED
    BY <1>1, <1>4, <2>5, <2>6 DEF HookKeeps, l, m, q, n, a, E, F
<1> QED
  BY <1>0, <1>1, <1>3, <1>5, <1>6, KeepsFrame

\* What l deletes by its counters without an element depends on its marks only.
LEMMA SameBare ==
  ASSUME NEW d, NEW l, SameMarks(d, l), NEW s \in Replica
  PROVE  Bare(d, s) = Bare(l, s)
BY DEF SameMarks, Bare

LEMMA KeepsExtract ==
  ASSUME KInv, NEW r \in Replica, Extract(r)
  PROVE  KInv'
<1>0. LInv /\ LInv'
  BY LinkExtract DEF KInv
<1>a. PICK N \in Nat : N = Len(sent[r])
  BY <1>0 DEF LInv, IInv, TypeOK
<1>b. PICK n \in Nat : n = Len(inserted[r])
  BY <1>0 DEF LInv, IInv, TypeOK
<1>c. PICK d : d = sent'[r][N + 1].delta
  OBVIOUS
<1>1. /\ hook' = [hook EXCEPT ![r] = EmptyKernel]
      /\ state' = state /\ got' = got /\ inserted' = inserted /\ erased' = erased
      /\ Len(sent'[r]) = N + 1
      /\ \A s \in Replica \ {r} : sent'[s] = sent[s] /\ Last(s)' = Last(s)
  BY <1>0, <1>a, ExtractEffect
<1>2. /\ \A s \in Replica : \A i \in 1 .. Len(sent[s]) : sent'[s][i] = sent[s][i]
      /\ \A s \in Replica : \A i \in 0 .. Len(sent[s]) : Upto(s, i)' = Upto(s, i)
  BY <1>0, <1>a, ExtractEffect
<1>3. Upto(r, N + 1)' = n /\ Last(r)' = n /\ SameMarks(d, hook[r])
  BY <1>0, <1>a, <1>b, <1>c, ExtractEffect
<1>4. \A s \in Replica : Len(sent[s]) \in Nat
  BY <1>0 DEF LInv, IInv, TypeOK
<1>5. ASSUME NEW t \in Replica
      PROVE  StateKeeps(t)'
  <2> SUFFICES ASSUME NEW s \in Replica
               PROVE  Reached(t, s)' = Reached(t, s)
    BY <1>1 DEF KInv, StateKeeps
  <2>1. CASE t = s
    BY <1>1, <2>1 DEF Reached
  <2>2. CASE t # s
    <3>1. got[t][s] \in 0 .. Len(sent[s])
      BY <1>0, <2>2 DEF LInv, StateOk, IInv, TypeOK
    <3>2. Upto(s, got[t][s])' = Upto(s, got[t][s])
      <4>1. got'[t][s] = got[t][s]
        BY <1>1
      <4> QED
        BY <1>2, <3>1, <4>1
    <3>3. Reached(t, s) = Upto(s, got[t][s])
      BY <1>0, <2>2, ReachedFacts
    <3>4. Reached(t, s)' = Upto(s, got[t][s])'
      BY <2>2 DEF Reached, Upto
    <3> QED
      BY <3>2, <3>3, <3>4
  <2> QED
    BY <2>1, <2>2
<1>6. HookKeeps(r)'
  <2>1. hook'[r] = EmptyKernel
    BY <1>0, <1>1 DEF LInv, IInv, TypeOK
  <2>2. \A s \in Replica : Bare(hook'[r], s) = {}
    BY <2>1 DEF Bare, EmptyKernel, NoDots
  <2>3. Spares(hook'[r], r, inserted'[r], erased', n)
    BY <2>2 DEF Spares
  <2>4. Holds(hook'[r], r, inserted'[r], erased'[r], n + 1, n)
    BY DEF Holds
  <2> QED
    BY <1>1, <1>3, <1>b, <2>3, <2>4 DEF HookKeeps
<1>7. ASSUME NEW t \in Replica \ {r}
      PROVE  HookKeeps(t)'
  <2>1. hook'[t] = hook[t] /\ Last(t)' = Last(t)
    BY <1>1
  <2> QED
    BY <1>1, <2>1 DEF KInv, HookKeeps
<1>8. ASSUME NEW s \in Replica, NEW i \in 1 .. Len(sent[s])
      PROVE  DeltaKeeps(s, i)'
  <2>1. i \in 0 .. Len(sent[s]) /\ i - 1 \in 0 .. Len(sent[s])
    BY <1>4
  <2>2. Upto(s, i)' = Upto(s, i) /\ Upto(s, i - 1)' = Upto(s, i - 1)
    BY <1>2, <2>1
  <2>3. sent'[s][i] = sent[s][i]
    BY <1>2
  <2> QED
    BY <1>1, <2>2, <2>3 DEF KInv, DeltaKeeps
<1>9. DeltaKeeps(r, N + 1)'
  <2>1. Upto(r, N)' = Last(r)
    <3>1. N \in 0 .. N
      OBVIOUS
    <3> QED
      BY <1>a, <1>2, <3>1 DEF Last
  <2>2. N + 1 - 1 = N
    OBVIOUS
  <2>3. /\ Holds(hook[r], r, inserted[r], erased[r], Last(r) + 1, n)
        /\ Spares(hook[r], r, inserted[r], erased, n)
    BY <1>b DEF KInv, HookKeeps
  <2>4. Spares(d, r, inserted[r], erased, n)
    BY <1>3, <2>3, SameBare DEF Spares
  <2>5. Holds(d, r, inserted[r], erased[r], Last(r) + 1, n)
    <3> SUFFICES ASSUME NEW c \in Last(r) + 1 .. n, Current(inserted[r], erased[r], c, n)
                 PROVE  c \in d.dots[inserted[r][c]][r]
      BY DEF Holds
    <3>1. Last(r) \in Nat
      <4>1. 0 \in 0 .. Len(sent[r])
        BY <1>4
      <4> QED
        BY <1>0, <4>1, UptoOrder
    <3>2. inserted[r][c] \in Key
      <4>1. c \in 1 .. n
        BY <3>1
      <4> QED
        BY <1>0, <1>b, <4>1, ReachedFacts
    <3> QED
      BY <1>3, <2>3, <3>2 DEF Holds, SameMarks
  <2> QED
    BY <1>1, <1>3, <1>c, <2>1, <2>2, <2>4, <2>5 DEF DeltaKeeps
<1>10. ASSUME NEW s \in Replica, NEW i \in 1 .. Len(sent'[s])
       PROVE  DeltaKeeps(s, i)'
  <2>1. CASE s # r
    BY <1>1, <1>8, <2>1
  <2>2. CASE s = r
    <3>1. i \in 1 .. N \/ i = N + 1
      BY <1>1, <2>2
    <3> QED
      BY <1>a, <1>8, <1>9, <2>2, <3>1
  <2> QED
    BY <2>1, <2>2
<1>11. \A t \in Replica : StateKeeps(t)' /\ HookKeeps(t)'
  BY <1>5, <1>6, <1>7
<1> QED
  BY <1>0, <1>10, <1>11 DEF KInv

LEMMA KeepsDeliver ==
  ASSUME KInv, NEW r \in Replica, NEW s \in Replica, Deliver(r, s)
  PROVE  KInv'
<1>0. LInv /\ LInv'
  BY LinkDeliver DEF KInv
<1>1. PICK i \in Nat : i = got[r][s] + 1 /\ i - 1 = got[r][s]
  <2>1. got[r][s] \in Nat
    BY DEF KInv, LInv, IInv, TypeOK
  <2> QED
    BY <2>1
<1>2. PICK d : d = sent[s][i].delta /\ NextFrom(r, s, i, d)
  BY <1>1 DEF NextFrom
<1>3. /\ s # r /\ i \in 1 .. Len(sent[s])
      /\ state'[r] = Merge("state", state[r], d)
      /\ \A t \in Replica \ {r} : state'[t] = state[t]
      /\ hook' = hook /\ sent' = sent /\ inserted' = inserted
      /\ got'[r][s] = i
      /\ \A t \in Replica : \A u \in Replica : t # r \/ u # s => got'[t][u] = got[t][u]
  BY <1>0, <1>1, <1>2, DeliverEffect
<1>4. /\ d \in Kernel /\ Own(d) /\ Supported(d) /\ DeltaOk(s, i)
      /\ MergedCleanly("state", state[r], d)
  BY <1>0, <1>1, <1>2, DeliverEffect
<1>5. /\ Upto(s, i - 1) \in Nat /\ Upto(s, i) \in Nat
      /\ Upto(s, i - 1) <= Upto(s, i)
      /\ \A k \in Key : state[r].dots[k][s] \subseteq 1 .. Upto(s, i - 1)
  BY <1>0, <1>1, <1>2, DeliverEffect
<1>6. erased' = erased
  BY DEF Deliver
<1>7. /\ \A t, j : Upto(t, j)' = Upto(t, j)
      /\ \A t : Last(t)' = Last(t)
  BY <1>3 DEF Upto, Last
<1>8. /\ Holds(d, s, inserted[s], erased[s], Upto(s, i - 1) + 1, Upto(s, i))
      /\ Spares(d, s, inserted[s], erased, Upto(s, i))
  BY <1>2, <1>3 DEF KInv, DeltaKeeps
<1>9. \A t \in Replica : Valueless(d, t) = Bare(d, t)
  <2> SUFFICES ASSUME NEW t \in Replica
               PROVE  UNION {d.dots[k][t] : k \in d.keys} = UNION {d.dots[k][t] : k \in Key}
    BY DEF Valueless, Bare
  <2>1. d.keys \subseteq Key /\ \A k \in Key \ d.keys : d.dots[k][t] = {}
    BY <1>4 DEF Kernel, Supported
  <2> QED
    BY <2>1
<1>10. \A k \in Key : \A t \in Replica :
         state'[r].dots[k][t] =
           CountersMerge("state", state[r].dots[k][t], d.dots[k][t]) \ Bare(d, t)
  BY <1>3, <1>4, <1>9 DEF MergedCleanly
<1>11. StateKeeps(r)'
  <2> SUFFICES ASSUME NEW t \in Replica
               PROVE  Holds(state'[r], t, inserted[t], erased[t], 1, Reached(r, t)')
    BY <1>3, <1>6 DEF StateKeeps
  <2>0. /\ Holds(state[r], t, inserted[t], erased[t], 1, Reached(r, t))
        /\ Reached(r, t) \in 0 .. Len(inserted[t]) /\ Len(inserted[t]) \in Nat
        /\ \A c \in 1 .. Len(inserted[t]) : inserted[t][c] \in Key
    BY <1>0, ReachedFacts DEF KInv, StateKeeps
  <2>1. CASE t = s
    <3>1. Reached(r, s) = Upto(s, i - 1) /\ Reached(r, s)' = Upto(s, i)
      <4>1. Reached(r, s) = Upto(s, got[r][s])
        BY <1>0, <1>3, ReachedFacts
      <4>2. Reached(r, s)' = Upto(s, got[r][s])'
        BY <1>3 DEF Reached, Upto
      <4>3. Upto(s, got[r][s])' = Upto(s, i)
        BY <1>3 DEF Upto
      <4> QED
        BY <1>1, <4>1, <4>2, <4>3
    <3> DEFINE l == state[r]
               m == state'[r]
               q == inserted[s]
               E == erased
               a == Upto(s, i - 1)
               b == Upto(s, i)
    <3>2. l \in Kernel /\ a \in Nat /\ b \in Nat /\ a <= b
      BY <1>0, <1>5 DEF LInv, IInv, TypeOK
    <3>3. /\ Holds(l, s, q, E[s], 1, a)
          /\ Holds(d, s, q, E[s], a + 1, b)
          /\ Spares(d, s, q, E, b)
      BY <1>8, <2>0, <2>1, <3>1
    <3>4. \A k \in Key : l.dots[k][s] \subseteq 1 .. a /\ d.dots[k][s] \subseteq a + 1 .. b
      BY <1>2, <1>4, <1>5 DEF DeltaOk
    <3>5. \A k \in Key : \A c \in l.dots[k][s] \cup d.dots[k][s] : q[c] = k
      BY <1>0, <1>4 DEF LInv, IInv, KernelsOwned, Own, Within, IssuedFor
    <3>6. \A c \in 1 .. b : q[c] \in Key
      <4>1. b \in 0 .. Len(inserted[s])
        BY <1>0, <1>3, UptoInserted
      <4> QED
        BY <2>0, <2>1, <4>1
    <3>7. \A k \in Key : m.dots[k][s] =
            CountersMerge("state", l.dots[k][s], d.dots[k][s]) \ Bare(d, s)
      BY <1>10
    <3> HIDE DEF l, m, q, E, a, b
    <3>8. Holds(m, s, q, E[s], 1, b)
      BY <1>4, <3>2, <3>3, <3>4, <3>5, <3>6, <3>7, HoldsMerged
    <3> QED
      BY <2>1, <3>1, <3>8 DEF m, q, E, b
  <2>2. CASE t # s
    <3>1. Reached(r, t)' = Reached(r, t)
      BY <1>3, <2>2 DEF Reached
    <3>2. \A k \in Key : d.dots[k][t] = {}
      BY <1>2, <1>4, <2>2 DEF DeltaOk
    <3>3. Bare(d, t) \subseteq erased[t]
      BY <1>8, <2>2 DEF Spares
    <3> SUFFICES ASSUME NEW c \in 1 .. Reached(r, t),
                        Current(inserted[t], erased[t], c, Reached(r, t))
                 PROVE  c \in state'[r].dots[inserted[t][c]][t]
      BY <3>1 DEF Holds
    <3>4. inserted[t][c] \in Key /\ c \in state[r].dots[inserted[t][c]][t]
      BY <2>0 DEF Holds
    <3>5. c \notin Bare(d, t)
      BY <3>3 DEF Current
    <3>6. CountersMerge("state", state[r].dots[inserted[t][c]][t], d.dots[inserted[t][c]][t])
            = state[r].dots[inserted[t][c]][t]
      BY <3>2, <3>4, CountersMergeNone
    <3> QED
      BY <1>10, <3>4, <3>5, <3>6
  <2> QED
    BY <2>1, <2>2
<1>12. ASSUME NEW t \in Replica \ {r}
       PROVE  StateKeeps(t)'
  <2>1. \A u \in Replica : Reached(t, u)' = Reached(t, u)
    BY <1>3 DEF Reached
  <2> QED
    BY <1>3, <1>6, <2>1 DEF KInv, StateKeeps
<1>13. \A t \in Replica : HookKeeps(t)'
  BY <1>3, <1>6, <1>7 DEF KInv, HookKeeps
<1>14. \A t \in Replica : \A j \in 1 .. Len(sent'[t]) : DeltaKeeps(t, j)'
  BY <1>3, <1>6, <1>7 DEF KInv, DeltaKeeps
<1> QED
  BY <1>0, <1>11, <1>12, <1>13, <1>14 DEF KInv

LEMMA KeepsInit == Init => KInv
<1> SUFFICES ASSUME Init PROVE KInv
  OBVIOUS
<1>1. LInv
  BY LinkInit
<1>2. ASSUME NEW r \in Replica
      PROVE  /\ hook[r] = EmptyKernel /\ Len(sent[r]) = 0 /\ Len(inserted[r]) = 0
             /\ \A s \in Replica : got[r][s] = 0
  BY DEF Init, Zero
<1>3. \A r, s \in Replica : Reached(r, s) = 0
  BY <1>2 DEF Reached
<1>4. \A r \in Replica : StateKeeps(r)
  BY <1>3 DEF StateKeeps, Holds
<1>5. ASSUME NEW r \in Replica
      PROVE  HookKeeps(r)
  <2>1. \A s \in Replica : Bare(hook[r], s) = {}
    BY <1>2 DEF Bare, EmptyKernel, NoDots
  <2>2. Last(r) = 0
    BY <1>2 DEF Last, Upto
  <2> QED
    BY <1>2, <2>1, <2>2 DEF HookKeeps, Holds, Spares
<1>6. \A s \in Replica : \A i \in 1 .. Len(sent[s]) : FALSE
  BY <1>2
<1> QED
  BY <1>1, <1>4, <1>5, <1>6 DEF KInv

LEMMA KeepsStep == KInv /\ [Next]_vars => KInv'
<1> SUFFICES ASSUME KInv, [Next]_vars PROVE KInv'
  OBVIOUS
<1>1. ASSUME NEW r \in Replica, NEW k \in Key, Insert(r, k)
      PROVE  KInv'
  BY <1>1, KeepsInsert
<1>2. ASSUME NEW r \in Replica, NEW k \in Key, Erase(r, k)
      PROVE  KInv'
  BY <1>2, KeepsErase DEF Erase
<1>3. ASSUME NEW r \in Replica, Clear(r)
      PROVE  KInv'
  <2>1. state[r].keys \in SUBSET Key
    BY DEF KInv, LInv, IInv, TypeOK, Kernel
  <2> QED
    BY <1>3, <2>1, KeepsErase DEF Clear
<1>4. ASSUME NEW r \in Replica, Extract(r)
      PROVE  KInv'
  BY <1>4, KeepsExtract
<1>5. ASSUME NEW r \in Replica, NEW s \in Replica, Deliver(r, s)
      PROVE  KInv'
  BY <1>5, KeepsDeliver
<1>6. CASE UNCHANGED vars
  <2>1. LInv'
    BY <1>6, LinkStep DEF KInv
  <2> QED
    BY <1>6, <2>1 DEF vars, KInv, StateKeeps, HookKeeps, DeltaKeeps, Reached, Upto, Last
<1> QED
  BY <1>1, <1>2, <1>3, <1>4, <1>5, <1>6 DEF Next, Update

\* The last insert of a key that reached a replica from each source keeps its dot there until
\* an erase or a clear covers it: add wins, through buffering, replacement and collapse.
THEOREM InsertsKept == Spec => []NoLostInsert
<1>1. KInv => NoLostInsert
  BY DEF KInv, NoLostInsert, StateKeeps, Holds, Current
<1>2. Init => KInv
  BY KeepsInit
<1>3. KInv /\ [Next]_vars => KInv'
  BY KeepsStep
<1> QED
  BY <1>1, <1>2, <1>3, PTL DEF Spec

-----------------------------------------------------------------------------
(* The elements of states and hooks, from step to step.                    *)

LEMMA HookInsertsKey ==
  ASSUME LInv, LInv', NEW r \in Replica, NEW k \in Key, Insert(r, k)
  PROVE  hook'[r].keys = hook[r].keys \cup {k}
<1>1. PICK n \in Nat : n = Len(inserted[r])
  BY DEF LInv, IInv, TypeOK
<1>2. DotsInserted(r, k, n) /\ n + 1 \in CountersMerge("delta", hook[r].dots[k][r], {n + 1})
  BY <1>1, InsertEffect
<1>3. hook'[r].dots[k][r] # {}
  BY <1>2 DEF DotsInserted
<1>4. \A j \in Key \ {k} : \A s \in Replica : hook'[r].dots[j][s] = hook[r].dots[j][s]
  BY <1>2 DEF DotsInserted
<1>5. /\ hook[r].keys \subseteq Key
      /\ \A j \in Key : j \in hook[r].keys <=> \E s \in Replica : hook[r].dots[j][s] # {}
  BY HookKeys
<1>6. /\ hook'[r].keys \subseteq Key
      /\ \A j \in Key : j \in hook'[r].keys <=> \E s \in Replica : hook'[r].dots[j][s] # {}
  BY HookKeysAfter
<1>7. k \in hook'[r].keys
  BY <1>3, <1>6
<1>8. ASSUME NEW j \in Key \ {k}
      PROVE  j \in hook'[r].keys <=> j \in hook[r].keys
  <2>1. \A s \in Replica : hook'[r].dots[j][s] = hook[r].dots[j][s]
    BY <1>4
  <2> QED
    BY <1>5, <1>6, <2>1
<1> QED
  BY <1>5, <1>6, <1>7, <1>8

LEMMA HookKeepsKeys ==
  ASSUME LInv, LInv', NEW r \in Replica, NEW K \in SUBSET Key,
         Commit(r, CountersDelta(state[r], K)), Forget(r, K), UNCHANGED inserted,
         NEW k \in hook[r].keys, k \notin K
  PROVE  k \in hook'[r].keys
<1> DEFINE V == DotsOf(r, K)
<1>1. /\ DotsErased(r, V)
      /\ \A s \in Replica : \A j \in Key \ K : state[r].dots[j][s] \cap V[s] = {}
  BY EraseEffect
<1> HIDE DEF V
<1>2. k \in Key /\ \E s \in Replica : hook[r].dots[k][s] # {}
  BY HookKeys
<1>3. PICK s \in Replica : hook[r].dots[k][s] # {}
  BY <1>2
<1>4. s = r /\ hook[r].dots[k][r] \subseteq state[r].dots[k][r]
  BY <1>2, <1>3 DEF LInv, HookOk
<1>5. hook'[r].dots[k][s] = hook[r].dots[k][s] \ V[s]
  BY <1>1, <1>2 DEF DotsErased
<1>6. hook'[r].dots[k][s] # {}
  BY <1>1, <1>2, <1>3, <1>4, <1>5
<1> QED
  BY <1>2, <1>6, HookKeysAfter

\* A delta brings all of its elements, and takes none that its receiver has still to send.
LEMMA DeliveryKeeps ==
  ASSUME LInv, LInv', NEW r \in Replica, NEW s \in Replica, Deliver(r, s)
  PROVE  hook[r].keys \cup Pending(r, s).delta.keys \subseteq state'[r].keys
<1>1. PICK i \in Nat : i = got[r][s] + 1
  BY DEF LInv, IInv, TypeOK
<1>2. PICK d : d = sent[s][i].delta /\ NextFrom(r, s, i, d)
  BY <1>1 DEF NextFrom
<1>3. /\ d = Pending(r, s).delta /\ d \in Kernel /\ Supported(d) /\ hook' = hook
      /\ state'[r] = Merge("state", state[r], d)
      /\ MergedCleanly("state", state[r], d)
  BY <1>2, DeliverEffect
<1>4. state[r] \in Kernel /\ Stays("state", state[r], d)
  BY <1>2, <1>3, FreshNext, FreshStays DEF LInv, IInv, TypeOK
<1>5. ASSUME NEW k \in d.keys
      PROVE  k \in state'[r].keys
  <2>1. k \in Key
    BY <1>3 DEF Kernel
  <2>2. PICK t \in Replica : d.dots[k][t] # {}
    BY <1>3, <2>1 DEF Supported
  <2>3. PICK c : c \in d.dots[k][t]
    BY <2>2
  <2>4. c \in CountersMerge("state", state[r].dots[k][t], d.dots[k][t])
    BY <1>4, <2>1, <2>3 DEF Stays
  <2>5. c \notin Valueless(d, t)
    BY <2>3 DEF Valueless
  <2>6. c \in state'[r].dots[k][t]
    BY <1>3, <2>1, <2>4, <2>5 DEF MergedCleanly
  <2> QED
    BY <2>1, <2>6, StateKeysAfter
<1>6. ASSUME NEW k \in hook[r].keys
      PROVE  k \in state'[r].keys
  BY <1>3, HookInStateAfter DEF HookWithinState
<1> QED
  BY <1>3, <1>5, <1>6

\* What an erase and a clear leave of the elements, and of those in the hook.
LEMMA EraseKeeps ==
  ASSUME LInv, LInv', NEW r \in Replica, NEW k \in Key, Erase(r, k)
  PROVE  /\ state'[r].keys = state[r].keys \ {k}
         /\ hook[r].keys \ {k} \subseteq hook'[r].keys
BY ErasesKeys, HookKeepsKeys DEF Erase

LEMMA ClearKeeps ==
  ASSUME LInv, LInv', NEW r \in Replica, Clear(r)
  PROVE  state'[r].keys = {}
<1>1. state[r].keys \in SUBSET Key
  BY StateKeys
<1> QED
  BY <1>1, ErasesKeys DEF Clear

-----------------------------------------------------------------------------
(* A set from which nothing is erased only grows: no delta carries a       *)
(* counter without its element.                                            *)

Additive(l) == \A s \in Replica : Valueless(l, s) = {}

\* The hook records the last insert at most.
OnlyLast(r) ==
  /\ \A s \in Replica \ {r} : hook[r].counters[s] = {}
  /\ hook[r].counters[r] \subseteq {Len(inserted[r])}

AInv ==
  /\ \A r \in Replica : OnlyLast(r) /\ Additive(hook[r])
  /\ \A s \in Replica : \A i \in 1 .. Len(sent[s]) : Additive(sent[s][i].delta)

LEMMA AdditiveInit ==
  ASSUME Init
  PROVE  AInv
<1>1. \A s \in Replica : EmptyKernel.counters[s] = {}
  BY DEF EmptyKernel, NoDots
<1>2. Additive(EmptyKernel)
  BY <1>1 DEF Additive, Valueless
<1> QED
  BY <1>1, <1>2 DEF Init, AInv, OnlyLast

LEMMA AdditiveInsert ==
  ASSUME LInv, AInv, NEW r \in Replica, NEW k \in Key, Insert(r, k)
  PROVE  AInv'
<1>1. PICK n \in Nat : n = Len(inserted[r])
  BY DEF LInv, IInv, TypeOK
<1>2. PICK d : d = ValueDelta(k, r, n + 1)
  OBVIOUS
<1>3. /\ Commit(r, d) /\ sent' = sent
      /\ Len(inserted'[r]) = n + 1 /\ \A s \in Replica \ {r} : inserted'[s] = inserted[s]
      /\ Linked(hook'[r])
      /\ n + 1 \in CountersMerge("delta", hook[r].dots[k][r], {n + 1})
      /\ DotsInserted(r, k, n)
      /\ \A s \in Replica \ {r} : hook'[r].counters[s] = hook[r].counters[s]
  BY <1>1, <1>2, InsertEffect
<1>4. OneDot(d, k, r, n + 1)
  BY <1>2, ValueDeltaFacts
<1>5. /\ hook'[r] = Merge("delta", hook[r], d) /\ \A s \in Replica \ {r} : hook'[s] = hook[s]
      /\ hook[r] \in Kernel /\ hook'[r] \in Kernel
  BY <1>3, <1>4, MergeType DEF Commit, LInv, IInv, TypeOK, OneDot
<1>6. hook'[r].counters[r] = {n + 1}
  <2>1. hook'[r].counters[r] = CountersMerge("delta", hook[r].counters[r], {n + 1})
    BY <1>4, <1>5, MergeCounters DEF OneDot
  <2>2. hook[r].counters[r] = {} \/ hook[r].counters[r] = {n}
    BY <1>1 DEF AInv, OnlyLast
  <2> QED
    BY <2>1, <2>2 DEF CountersMerge, Succeeds
<1>7. OnlyLast(r)'
  BY <1>3, <1>6 DEF AInv, OnlyLast
<1>8. n + 1 \in hook'[r].dots[k][r] /\ k \in hook'[r].keys
  <2>1. n + 1 \in hook'[r].dots[k][r]
    BY <1>3 DEF DotsInserted
  <2>2. Supported(hook'[r])
    BY <1>3, <1>5, LinkedPairs
  <2> QED
    BY <2>1, <2>2 DEF Supported
<1>9. Additive(hook'[r])
  <2> SUFFICES ASSUME NEW s \in Replica
               PROVE  Valueless(hook'[r], s) = {}
    BY DEF Additive
  <2>1. CASE s = r
    BY <1>6, <1>8, <2>1 DEF Valueless
  <2>2. CASE s # r
    BY <1>3, <2>2 DEF AInv, OnlyLast, Valueless
  <2> QED
    BY <2>1, <2>2
<1>10. ASSUME NEW s \in Replica \ {r}
       PROVE  OnlyLast(s)' /\ Additive(hook'[s])
  BY <1>3, <1>5 DEF AInv, OnlyLast
<1> QED
  BY <1>3, <1>7, <1>9, <1>10 DEF AInv

\* A delta that is extracted has the elements of the hook.
LEMMA ExtractedKeys ==
  ASSUME LInv, NEW r \in Replica
  PROVE  /\ Envelope(r).delta \in Kernel /\ Envelope(r).delta.keys = hook[r].keys
         /\ \A k \in Key : \A s \in Replica : Envelope(r).delta.dots[k][s] = hook[r].dots[k][s]
         /\ \A s \in Replica : Envelope(r).delta.counters[s] = hook[r].counters[s]
<1>1. IInv /\ hook[r] \in Kernel /\ Linked(hook[r])
  BY DEF LInv, IInv, TypeOK, HookOk
<1>2. PICK d : d = Envelope(r).delta /\ SameMarks(d, hook[r])
  BY <1>1, EnvelopeFacts
<1>3. /\ \A k \in Key : \A s \in Replica : d.dots[k][s] = hook[r].dots[k][s]
      /\ \A s \in Replica : d.counters[s] = hook[r].counters[s]
      /\ d \in Kernel /\ Linked(d)
  BY <1>2 DEF SameMarks
<1>4. d.keys = hook[r].keys
  <2>1. /\ d.keys \subseteq Key /\ hook[r].keys \subseteq Key
        /\ \A k \in Key : k \in d.keys <=> \E s \in Replica : d.dots[k][s] # {}
        /\ \A k \in Key : k \in hook[r].keys <=> \E s \in Replica : hook[r].dots[k][s] # {}
    BY <1>1, <1>3, KeysHaveDots
  <2> QED
    BY <1>3, <2>1
<1> QED
  BY <1>2, <1>3, <1>4

LEMMA AdditiveExtract ==
  ASSUME LInv, AInv, NEW r \in Replica, Extract(r)
  PROVE  AInv'
<1>1. PICK N \in Nat : N = Len(sent[r])
  BY DEF LInv, IInv, TypeOK
<1>2. PICK d : d = Envelope(r).delta /\ d.keys = hook[r].keys
        /\ (\A k \in Key : \A s \in Replica : d.dots[k][s] = hook[r].dots[k][s])
        /\ \A s \in Replica : d.counters[s] = hook[r].counters[s]
  BY ExtractedKeys
<1>3. hook[r].keys \subseteq Key
  BY HookKeys
<1>4. Additive(d)
  <2> SUFFICES ASSUME NEW s \in Replica
               PROVE  Valueless(d, s) = {}
    BY DEF Additive
  <2>1. UNION {d.dots[k][s] : k \in d.keys} = UNION {hook[r].dots[k][s] : k \in hook[r].keys}
    BY <1>2, <1>3
  <2>2. Valueless(hook[r], s) = {}
    BY DEF AInv, Additive
  <2> QED
    BY <1>2, <2>1, <2>2 DEF Valueless
<1>5. /\ hook' = [hook EXCEPT ![r] = EmptyKernel] /\ inserted' = inserted
      /\ Len(sent'[r]) = N + 1
      /\ \A s \in Replica \ {r} : sent'[s] = sent[s]
      /\ \A s \in Replica : \A i \in 1 .. Len(sent[s]) : sent'[s][i] = sent[s][i]
  BY <1>1, ExtractEffect
<1>6. sent'[r][N + 1].delta = d
  BY <1>1, <1>2 DEF Extract, LInv, IInv, TypeOK
<1>7. \A s \in Replica : EmptyKernel.counters[s] = {}
  BY DEF EmptyKernel, NoDots
<1>8. Additive(EmptyKernel)
  BY <1>7 DEF Additive, Valueless
<1>9. DOMAIN hook = Replica
  BY DEF LInv, IInv, TypeOK
<1>10. ASSUME NEW s \in Replica
       PROVE  OnlyLast(s)' /\ Additive(hook'[s])
  <2>1. CASE s = r
    BY <1>5, <1>7, <1>8, <1>9, <2>1 DEF OnlyLast
  <2>2. CASE s # r
    BY <1>5, <1>9, <2>2 DEF AInv, OnlyLast
  <2> QED
    BY <2>1, <2>2
<1>11. ASSUME NEW s \in Replica, NEW i \in 1 .. Len(sent'[s])
       PROVE  Additive(sent'[s][i].delta)
  <2>1. CASE s # r
    BY <1>5, <2>1 DEF AInv
  <2>2. CASE s = r /\ i # N + 1
    <3>1. i \in 1 .. Len(sent[s])
      BY <1>1, <1>5, <2>2
    <3> QED
      BY <1>5, <3>1 DEF AInv
  <2>3. CASE s = r /\ i = N + 1
    BY <1>4, <1>6, <2>3
  <2> QED
    BY <2>1, <2>2, <2>3
<1> QED
  BY <1>10, <1>11 DEF AInv

\* A merge of such a delta takes no element away.
LEMMA AdditiveMerge ==
  ASSUME NEW tag, NEW l \in Kernel, NEW d \in Kernel, Additive(d)
  PROVE  Merge(tag, l, d).keys = l.keys \cup d.keys
<1>1. \A s \in Replica : Valueless(d, s) = {}
  BY DEF Additive
<1>2. l.keys \cup d.keys \subseteq Key
  BY DEF Kernel
<1> QED
  BY <1>1, <1>2 DEF Merge

LEMMA AdditiveDeliver ==
  ASSUME LInv, AInv, NEW r \in Replica, NEW s \in Replica, Deliver(r, s)
  PROVE  AInv' /\ state'[r].keys = state[r].keys \cup Pending(r, s).delta.keys
<1>1. PICK i \in Nat : i = got[r][s] + 1
  BY DEF LInv, IInv, TypeOK
<1>2. PICK d : d = sent[s][i].delta /\ NextFrom(r, s, i, d)
  BY <1>1 DEF NextFrom
<1>3. /\ i \in 1 .. Len(sent[s])
      /\ state'[r] = Merge("state", state[r], d)
      /\ hook' = hook /\ sent' = sent /\ inserted' = inserted
  BY <1>1, <1>2, DeliverEffect
<1>A. d = Pending(r, s).delta /\ d \in Kernel
  BY <1>1, <1>2, DeliverEffect
<1>4. Additive(d)
  BY <1>2, <1>3 DEF AInv
<1>5. state[r] \in Kernel
  BY DEF LInv, IInv, TypeOK
<1>6. state'[r].keys = state[r].keys \cup d.keys
  BY <1>3, <1>A, <1>4, <1>5, AdditiveMerge
<1>7. AInv'
  BY <1>3 DEF AInv, OnlyLast, Additive
<1> QED
  BY <1>A, <1>6, <1>7

\* The elements K are erased together.
Forgets(r, K) == Commit(r, CountersDelta(state[r], K)) /\ Forget(r, K) /\ UNCHANGED inserted

LEMMA ForgetsKeys ==
  ASSUME LInv, LInv', NEW r \in Replica, NEW K \in SUBSET Key, Forgets(r, K)
  PROVE  state'[r].keys = state[r].keys \ K
BY ErasesKeys DEF Forgets

LEMMA AdditiveStutter ==
  ASSUME AInv, UNCHANGED vars
  PROVE  AInv'
BY DEF vars, AInv, OnlyLast, Additive, Valueless

\* A delta that replica r has merged, or extracted, brings element k.
Arrived(r, k) == \E s \in Replica : \E i \in 1 .. Len(sent[s]) :
  (s = r \/ i <= got[r][s]) /\ k \in sent[s][i].delta.keys

\* A replica has the elements that it has not extracted yet and those that have arrived.
ArrivedInv == \A r \in Replica : \A k \in Key :
  k \in state[r].keys <=> k \in hook[r].keys \/ Arrived(r, k)

LEMMA ArrivalsInit ==
  ASSUME Init
  PROVE  ArrivedInv
<1>1. \A r \in Replica : state[r].keys = {} /\ hook[r].keys = {} /\ Len(sent[r]) = 0
  BY DEF Init, EmptyKernel
<1>2. \A r \in Replica : \A k \in Key : ~Arrived(r, k)
  BY <1>1 DEF Arrived
<1> QED
  BY <1>1, <1>2 DEF ArrivedInv

LEMMA ArrivalsInsert ==
  ASSUME LInv, LInv', ArrivedInv, NEW r \in Replica, NEW e \in Key, Insert(r, e)
  PROVE  ArrivedInv'
<1>1. state'[r].keys = state[r].keys \cup {e} /\ hook'[r].keys = hook[r].keys \cup {e}
  BY InsertsKey, HookInsertsKey
<1>2. /\ sent' = sent /\ got' = got
      /\ \A q \in Replica \ {r} : state'[q] = state[q] /\ hook'[q] = hook[q]
  BY DEF Insert, Commit, LInv, IInv, TypeOK
<1>3. \A q \in Replica : \A k \in Key : Arrived(q, k)' <=> Arrived(q, k)
  BY <1>2 DEF Arrived
<1> QED
  BY <1>1, <1>2, <1>3 DEF ArrivedInv

LEMMA ArrivalsExtract ==
  ASSUME LInv, ArrivedInv, NEW r \in Replica, Extract(r)
  PROVE  ArrivedInv'
<1>1. PICK N \in Nat : N = Len(sent[r])
  BY DEF LInv, IInv, TypeOK
<1>2. PICK d : d = Envelope(r).delta /\ d.keys = hook[r].keys
  BY ExtractedKeys
<1>3. /\ hook' = [hook EXCEPT ![r] = EmptyKernel]
      /\ Len(sent'[r]) = N + 1
      /\ \A s \in Replica \ {r} : sent'[s] = sent[s]
      /\ \A s \in Replica : \A i \in 1 .. Len(sent[s]) : sent'[s][i] = sent[s][i]
  BY <1>1, ExtractEffect
<1>4. sent'[r][N + 1].delta = d /\ state' = state /\ got' = got /\ DOMAIN hook = Replica
  BY <1>1, <1>2 DEF Extract, LInv, IInv, TypeOK
<1>5. /\ \A i \in 1 .. N + 1 : i \in 1 .. N \/ i = N + 1
      /\ \A i \in 1 .. N : i \in 1 .. N + 1
      /\ N + 1 \in 1 .. N + 1
  OBVIOUS
<1>6. ASSUME NEW q \in Replica, NEW k \in Key
      PROVE  Arrived(q, k)' <=> Arrived(q, k) \/ ((q = r \/ N + 1 <= got[q][r]) /\ k \in d.keys)
  <2>1. ASSUME NEW s \in Replica \ {r}
        PROVE  \A i \in 1 .. Len(sent'[s]) : i \in 1 .. Len(sent[s]) /\ sent'[s][i] = sent[s][i]
    BY <1>3
  <2>2. /\ \A i \in 1 .. N : sent'[r][i] = sent[r][i]
        /\ Len(sent'[r]) = N + 1 /\ Len(sent[r]) = N
    BY <1>1, <1>3
  <2>3. Arrived(q, k)' => Arrived(q, k) \/ ((q = r \/ N + 1 <= got[q][r]) /\ k \in d.keys)
    <3> SUFFICES ASSUME NEW s \in Replica, NEW i \in 1 .. Len(sent'[s]),
                        s = q \/ i <= got[q][s], k \in sent'[s][i].delta.keys
                 PROVE  Arrived(q, k) \/ ((q = r \/ N + 1 <= got[q][r]) /\ k \in d.keys)
      BY <1>4 DEF Arrived
    <3>1. CASE s # r
      BY <2>1, <3>1 DEF Arrived
    <3>2. CASE s = r /\ i \in 1 .. N
      BY <2>2, <3>2 DEF Arrived
    <3>3. CASE s = r /\ i = N + 1
      BY <1>4, <3>3
    <3> QED
      BY <1>5, <2>2, <3>1, <3>2, <3>3
  <2>4. ASSUME NEW s \in Replica, NEW i \in 1 .. Len(sent[s])
        PROVE  i \in 1 .. Len(sent'[s]) /\ sent'[s][i] = sent[s][i]
    BY <1>3, <1>5, <2>2
  <2>5. Arrived(q, k) => Arrived(q, k)'
    BY <1>4, <2>4 DEF Arrived
  <2>6. (q = r \/ N + 1 <= got[q][r]) /\ k \in d.keys => Arrived(q, k)'
    BY <1>4, <1>5, <2>2 DEF Arrived
  <2> QED
    BY <2>3, <2>5, <2>6
<1>7. \A q \in Replica \ {r} : ~(N + 1 <= got[q][r])
  <2>1. \A q \in Replica \ {r} : got[q][r] \in Nat /\ got[q][r] <= N
    BY <1>1 DEF LInv, IInv, TypeOK, StateOk
  <2> QED
    BY <2>1
<1>8. hook'[r].keys = {}
  BY <1>3, <1>4 DEF EmptyKernel
<1>9. \A q \in Replica \ {r} : hook'[q] = hook[q]
  BY <1>3, <1>4
<1> QED
  BY <1>2, <1>4, <1>6, <1>7, <1>8, <1>9 DEF ArrivedInv

LEMMA ArrivalsDeliver ==
  ASSUME LInv, AInv, ArrivedInv, NEW r \in Replica, NEW s \in Replica, Deliver(r, s)
  PROVE  ArrivedInv'
<1>1. PICK g \in Nat : g = got[r][s]
  BY DEF LInv, IInv, TypeOK
<1>2. PICK j, d : /\ j = g + 1 /\ d = sent[s][j].delta
                  /\ state'[r].keys = state[r].keys \cup d.keys
  BY <1>1, AdditiveDeliver DEF Pending
<1>3. /\ got' = [got EXCEPT ![r][s] = j] /\ hook' = hook /\ sent' = sent
      /\ \A q \in Replica \ {r} : state'[q] = state[q]
      /\ g < Len(sent[s]) /\ Len(sent[s]) \in Nat /\ s # r
  BY <1>1, <1>2 DEF Deliver, Deliverable, LInv, IInv, TypeOK
<1>4. /\ \A q, t \in Replica : got'[q][t] = IF q = r /\ t = s THEN j ELSE got[q][t]
      /\ j \in 1 .. Len(sent[s]) /\ j <= j
      /\ \A i \in 1 .. Len(sent[s]) : i <= j <=> i <= g \/ i = j
  <2>1. got \in [Replica -> [Replica -> Nat]]
    BY DEF LInv, IInv, TypeOK
  <2>2. PICK n \in Nat : n = Len(sent[s]) /\ g < n
    BY <1>3
  <2>3. j \in 1 .. n /\ j <= j /\ \A i \in 1 .. n : i <= j <=> i <= g \/ i = j
    BY <1>2, <2>2
  <2> QED
    BY <1>3, <2>1, <2>2, <2>3
<1>5. ASSUME NEW q \in Replica, NEW k \in Key
      PROVE  Arrived(q, k)' <=> Arrived(q, k) \/ (q = r /\ k \in d.keys)
  <2>1. CASE q = r
    <3>1. Arrived(r, k)' => Arrived(r, k) \/ k \in d.keys
      BY <1>1, <1>2, <1>3, <1>4 DEF Arrived
    <3>2. Arrived(r, k) => Arrived(r, k)'
      BY <1>1, <1>3, <1>4 DEF Arrived
    <3>3. k \in d.keys => Arrived(r, k)'
      BY <1>2, <1>3, <1>4 DEF Arrived
    <3> QED
      BY <2>1, <3>1, <3>2, <3>3
  <2>2. CASE q # r
    BY <1>3, <1>4, <2>2 DEF Arrived
  <2> QED
    BY <2>1, <2>2
<1> QED
  BY <1>2, <1>3, <1>5 DEF ArrivedInv

LEMMA ArrivalsStutter ==
  ASSUME ArrivedInv, UNCHANGED vars
  PROVE  ArrivedInv'
<1>1. \A q \in Replica : \A k \in Key : Arrived(q, k)' <=> Arrived(q, k)
  BY DEF vars, Arrived
<1> QED
  BY <1>1 DEF vars, ArrivedInv

\* When every delta has arrived everywhere the elements are the same.
LEMMA ArrivalsMeet ==
  ASSUME LInv, ArrivedInv, \A r \in Replica : hook[r] = EmptyKernel,
         \A r, s \in Replica : r # s => got[r][s] = Len(sent[s])
  PROVE  \A q, r \in Replica : state[q].keys = state[r].keys
<1> SUFFICES ASSUME NEW q \in Replica, NEW r \in Replica
             PROVE  state[q].keys = state[r].keys
  OBVIOUS
<1>1. ASSUME NEW p \in Replica, NEW s \in Replica
      PROVE  \A i \in 1 .. Len(sent[s]) : s = p \/ i <= got[p][s]
  <2>1. PICK n : n = Len(sent[s]) /\ (p # s => got[p][s] = n)
    OBVIOUS
  <2>2. n \in Nat
    BY <2>1 DEF LInv, IInv, TypeOK
  <2>3. \A i \in 1 .. n : i <= n
    BY <2>2
  <2> QED
    BY <2>1, <2>3
<1>2. \A k \in Key : Arrived(q, k) <=> Arrived(r, k)
  BY <1>1 DEF Arrived
<1>3. \A k \in Key : k \notin hook[q].keys /\ k \notin hook[r].keys
  BY DEF EmptyKernel
<1>4. state[q].keys \subseteq Key /\ state[r].keys \subseteq Key
  BY StateKeys
<1> QED
  BY <1>2, <1>3, <1>4 DEF ArrivedInv
=============================================================================
