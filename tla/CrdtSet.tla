------------------------------ MODULE CrdtSet ------------------------------
(***************************************************************************)
(* Replicas of one crdt::set< Key, ..., tag_state, ..., hook_extract >     *)
(* (crdt/set.h, crdt/hooks/hook_extract.h) that exchange extracted deltas. *)
(*                                                                         *)
(* A local update builds a delta, merges it into the replica's state and   *)
(* commits it to the hook, which accumulates deltas until extract_delta    *)
(* hands them out. Carrying an extracted delta to the other replicas and   *)
(* merging it there is the application's part; readme.md requires only     *)
(* that the deltas of one replica arrive in order. Three constants say how *)
(* much more discipline than that the application has.                     *)
(***************************************************************************)
EXTENDS DotKernel, Sequences

CONSTANTS
  MaxDot,        \* bound: MaxDot[r] inserts at replica r
  MaxSent,       \* bound: replica r stops after MaxSent[r] extracted deltas
  Eager,         \* every update is extracted before the next one
  FreshInserts,  \* insert is called only for keys that are absent
  Causal         \* a delta is merged after the deltas its replica had merged

ASSUME ConstantsAssumption ==
  /\ IsFiniteSet(Replica)
  /\ IsFiniteSet(Key)
  /\ MaxDot \in [Replica -> Nat]
  /\ MaxSent \in [Replica -> Nat]
  /\ Eager \in BOOLEAN
  /\ FreshInserts \in BOOLEAN
  /\ Causal \in BOOLEAN

VARIABLES
  state,     \* state[r]: the kernel of replica r's set
  hook,      \* hook[r]: hook_extract::delta_, empty when there is none
  sent,      \* sent[r]: the deltas extracted from replica r, in order
  got,       \* got[r][s]: how many deltas of sent[s] replica r has merged
  inserted,  \* history: inserted[r][c] is the key of replica r's c-th insert
  erased     \* history: the dots some erase or clear covered

vars == <<state, hook, sent, got, inserted, erased>>

Message == [delta : Kernel, upto : Nat, deps : [Replica -> Nat]]

Zero == [s \in Replica |-> 0]

Init ==
  /\ state = [r \in Replica |-> EmptyKernel]
  /\ hook = [r \in Replica |-> EmptyKernel]
  /\ sent = [r \in Replica |-> <<>>]
  /\ got = [r \in Replica |-> Zero]
  /\ inserted = [r \in Replica |-> <<>>]
  /\ erased = [r \in Replica |-> {}]

-----------------------------------------------------------------------------

\* get_next_dot at replica r.
NextDot(r) == NextCounter(state[r].counters[r])

\* Mutant of Commit: a delta without elements is not committed to the hook.
CommitValuesOnly(r, delta) ==
  /\ state' = [state EXCEPT ![r] = Merge("state", @, delta)]
  /\ hook' = IF delta.keys = {} THEN hook ELSE [hook EXCEPT ![r] = Merge("delta", @, delta)]
  /\ UNCHANGED <<sent, got>>

\* merge into the container, then hook_extract::commit_delta.
Commit(r, delta) ==
  /\ state' = [state EXCEPT ![r] = Merge("state", @, delta)]
  /\ hook' = [hook EXCEPT ![r] = Merge("delta", @, delta)]
  /\ UNCHANGED <<sent, got>>

MayUpdate(r) ==
  /\ Len(sent[r]) < MaxSent[r]
  /\ Eager => hook[r] = EmptyKernel

\* set::insert. It takes a new dot also when the key is already there.
Insert(r, k) ==
  /\ MayUpdate(r)
  /\ FreshInserts => k \notin state[r].keys
  /\ Len(inserted[r]) < MaxDot[r]
  /\ Commit(r, ValueDelta(k, r, NextDot(r)))
  /\ inserted' = [inserted EXCEPT ![r] = Append(@, k)]
  /\ UNCHANGED erased

\* The dots of the elements K at replica r join the history of erased dots.
Forget(r, K) ==
  erased' = [s \in Replica |-> erased[s] \cup UNION {state[r].dots[k][s] : k \in K}]

\* set::erase(key), which returns 0 and does nothing for an absent key.
Erase(r, k) ==
  /\ MayUpdate(r)
  /\ k \in state[r].keys
  /\ Commit(r, CountersDelta(state[r], {k}))
  /\ Forget(r, {k})
  /\ UNCHANGED inserted

\* set::clear, which does nothing to an empty set.
Clear(r) ==
  /\ MayUpdate(r)
  /\ state[r].keys # {}
  /\ Commit(r, CountersDelta(state[r], state[r].keys))
  /\ Forget(r, state[r].keys)
  /\ UNCHANGED inserted

\* The accumulated delta merged into an empty one, and what the transport notes with it.
Envelope(r) ==
  [delta |-> Merge("delta", EmptyKernel, hook[r]),
   upto |-> Len(inserted[r]),
   deps |-> IF Causal THEN got[r] ELSE Zero]

\* Mutant of Extract: a delta without elements is taken for an empty one.
ExtractValuesOnly(r) ==
  /\ hook[r].keys # {}
  /\ sent' = [sent EXCEPT ![r] = Append(@, Envelope(r))]
  /\ hook' = [hook EXCEPT ![r] = EmptyKernel]
  /\ UNCHANGED <<state, got, inserted, erased>>

\* Mutant of Extract: the hook is not reset.
ExtractKeeps(r) ==
  /\ hook[r] # EmptyKernel
  /\ sent' = [sent EXCEPT ![r] = Append(@, Envelope(r))]
  /\ UNCHANGED <<state, hook, got, inserted, erased>>

\* hook_extract::extract_delta. With nothing accumulated it returns an empty delta,
\* which changes no replica.
Extract(r) ==
  /\ hook[r] # EmptyKernel
  /\ sent' = [sent EXCEPT ![r] = Append(@, Envelope(r))]
  /\ hook' = [hook EXCEPT ![r] = EmptyKernel]
  /\ UNCHANGED <<state, got, inserted, erased>>

Pending(r, s) == sent[s][got[r][s] + 1]

Deliverable(r, s) ==
  /\ s # r
  /\ got[r][s] < Len(sent[s])
  /\ \A t \in Replica \ {r} : Pending(r, s).deps[t] <= got[r][t]

\* merge(extracted delta) at replica r: the hook of r is not told.
Deliver(r, s) ==
  /\ Deliverable(r, s)
  /\ state' = [state EXCEPT ![r] = Merge("state", @, Pending(r, s).delta)]
  /\ got' = [got EXCEPT ![r][s] = @ + 1]
  /\ UNCHANGED <<hook, sent, inserted, erased>>

Update(r) ==
  \/ \E k \in Key : Insert(r, k) \/ Erase(r, k)
  \/ Clear(r)

Next ==
  \E r \in Replica :
    \/ Update(r)
    \/ Extract(r)
    \/ \E s \in Replica : Deliver(r, s)

Spec == Init /\ [][Next]_vars

-----------------------------------------------------------------------------
(* Properties of every use of the set, with no discipline beyond the order *)
(* of one replica's deltas.                                                *)

\* The kernels of the system: states, accumulated deltas, extracted deltas.
Deltas == UNION {{sent[r][i].delta : i \in 1 .. Len(sent[r])} : r \in Replica}
Kernels == {state[r] : r \in Replica} \cup {hook[r] : r \in Replica} \cup Deltas

\* Every variable has its type.
TypeOK ==
  /\ state \in [Replica -> Kernel]
  /\ hook \in [Replica -> Kernel]
  /\ sent \in [Replica -> Seq(Message)]
  /\ got \in [Replica -> [Replica -> Nat]]
  /\ inserted \in [Replica -> Seq(Key)]
  /\ erased \in [Replica -> SUBSET (Nat \ {0})]

\* The counter -> key links of every kernel are the exact inverse of the dots of its
\* elements and no element is left without a dot. merge_valueless_clear follows a link
\* to values_.find(key) and dereferences it unchecked; erase(key) of an element without
\* a dot would commit nothing and leave the element.
LinkIntegrity == \A l \in Kernels : Linked(l)

\* A dot identifies one insert: wherever a dot of replica s supports an element, s has
\* issued it, and for that element.
DotOwnership ==
  \A l \in Kernels : \A k \in Key : \A s \in Replica : \A c \in l.dots[k][s] :
    c \in DOMAIN inserted[s] /\ inserted[s][c] = k

\* Counters grow without holes: the next dot of a replica is the successor of its last
\* insert, although merges collapse its counters, and no kernel anywhere has it yet.
NextDotFresh ==
  \A s \in Replica :
    /\ NextDot(s) = Len(inserted[s]) + 1
    /\ \A l \in Kernels : \A c \in l.counters[s] : c < NextDot(s)

\* The inserts of replica s that have reached replica r.
Reached(r, s) ==
  IF r = s THEN Len(inserted[s])
  ELSE IF got[r][s] = 0 THEN 0 ELSE sent[s][got[r][s]].upto

\* The last insert of a key that reached a replica from each source keeps its dot there
\* until some erase or clear covers that dot: no merge, in-place replacement or collapse
\* takes an element away by itself (add wins over what has not seen it).
NoLostInsert ==
  \A r, s \in Replica : \A c \in 1 .. Reached(r, s) :
    (/\ c \notin erased[s]
     /\ \A d \in c + 1 .. Reached(r, s) : inserted[s][d] # inserted[s][c])
      => c \in state[r].dots[inserted[s][c]][s]

\* Buffering keeps what is current: the dots of the accumulated delta support the same
\* elements in the replica's own state, so that what was added and erased again before
\* an extraction is not sent, whatever deltas were merged in between.
HookWithinState ==
  \A r \in Replica : \A k \in hook[r].keys :
    k \in state[r].keys /\ \A s \in Replica : hook[r].dots[k][s] \subseteq state[r].dots[k][s]

\* What the updates of replica r would do to a std::set.
AsStdSet(r) ==
  /\ \A k \in Key : Insert(r, k) => state'[r].keys = state[r].keys \cup {k}
  /\ \A k \in Key : Erase(r, k) => state'[r].keys = state[r].keys \ {k}
  /\ Clear(r) => state'[r].keys = {}

\* At its own replica an update does to the content what the same call does to a
\* std::set, whatever dots earlier merges left on the elements.
LocalSemantics == [][\A r \in Replica : AsStdSet(r)]_vars

\* Merging d once more than replica r has just done changes no content, brings no dot back
\* and leaves exact links; if d took no dot away, it changes no dot and no link.
Harmless(r, d) ==
  LET again == Merge("state", state'[r], d)
  IN  /\ again.keys = state'[r].keys
      /\ Linked(again)
      /\ \A k \in Key : \A t \in Replica : again.dots[k][t] \subseteq state'[r].dots[k][t]
      /\ (\A k \in Key : \A t \in Replica : state[r].dots[k][t] \cap Valueless(d, t) = {})
           => SameElements(again, state'[r])

\* A delta may be merged twice in a row, as by a transport that repeats its last message.
\* (A dot taken from below a run of counters opens the run to the next collapse, and a
\* collapsed counter comes back on record below a gap: so not all metadata stays.)
RepeatedDelivery == [][
  \A r, s \in Replica : Deliver(r, s) => Harmless(r, Pending(r, s).delta)]_vars

\* Every extracted delta has reached every replica and nothing is left to extract.
Quiet ==
  /\ \A r \in Replica : hook[r] = EmptyKernel
  /\ \A r, s \in Replica : r # s => got[r][s] = Len(sent[s])

\* Replicas that have merged all the deltas hold the same elements.
Converged == Quiet => \A r, s \in Replica : state[r].keys = state[s].keys

\* The comment of counters_merge on its state variant: a replica keeps at most one
\* counter of every replica.
SingleCounter == \A r, s \in Replica : Cardinality(state[r].counters[s]) <= 1
=============================================================================
