------------------------------ MODULE CrdtMap ------------------------------
(***************************************************************************)
(* Replicas of one crdt::map< Key, crdt::set< Elem >, ..., hook_extract >  *)
(* or crdt::map< Key, crdt::value_mv< Elem >, ... > (crdt/map.h) that      *)
(* exchange extracted deltas as the sets of CrdtSet do.                    *)
(*                                                                         *)
(* A map is two levels of dot_kernel: an outer one over Key, and in each   *)
(* element (detail/dot_kernel_value.h) a nested one over Elem with a hook  *)
(* of its own.  A nested container that is changed calls back through its  *)
(* allocator (detail/dot_kernel_allocator.h) to the element and the map,   *)
(* which gives the key another dot; extract_delta descends to the nested   *)
(* hooks of the keys that its own delta holds.                             *)
(***************************************************************************)
EXTENDS Naturals, Sequences, FiniteSets, FiniteSetsExt

CONSTANTS
  Replica, Key, Elem,
  Uses  \* the ways in which applications use the map

\* What an application does with its replicas.
Use == [
  keys    : SUBSET Key,      \* the keys it updates
  writers : SUBSET Replica,  \* the replicas at which it does
  calls   : SUBSET {"map.insert", "map.erase", "map.clear",
                    "set.insert", "set.erase", "set.clear", "value_mv.set"},
  inserts : SUBSET Seq(Elem),  \* the contents map::insert brings; <<>> is operator[]
  eager   : BOOLEAN,         \* every update is extracted before the next one
  fresh   : BOOLEAN,         \* insert, here and nested, is called only for what is absent
  dots    : Nat,             \* bound: so many dots of the outer kernel are issued at a replica
  deltas  : Nat]             \* bound: a replica stops after so many extracted deltas

ASSUME MapAssumption ==
  /\ IsFiniteSet(Replica) /\ IsFiniteSet(Key) /\ IsFiniteSet(Elem)
  /\ Uses \subseteq Use /\ IsFiniteSet(Uses)
  /\ \A u \in Uses : \A vals \in u.inserts : \A i, j \in DOMAIN vals : vals[i] = vals[j] => i = j

VARIABLES
  use,      \* the application's use, fixed from the start
  state,    \* state[r]: the map of replica r, without the nested hooks
  pending,  \* pending[r][k]: delta_ of the hook of the container nested at key k
  hook,     \* hook[r]: delta_ of the map's own hook
  sent,     \* sent[r]: the deltas extracted from replica r, in order
  got,      \* got[r][s]: how many deltas of sent[s] replica r has merged
  inserted, \* history: inserted[r][c] is the key that replica r gave its c-th dot
  erased    \* history: the dots some erase or clear covered

vars == <<use, state, pending, hook, sent, got, inserted, erased>>

\* The kernel of a map, and that of a nested container.
Outer == INSTANCE DotKernel
Inner == INSTANCE DotKernel WITH Key <- Elem

\* A map or a map's delta: the outer kernel and the nested kernel of every key, which
\* is empty where the key is absent.
Map == [outer : Outer!Kernel, inner : [Key -> Inner!Kernel]]

NoInner == [k \in Key |-> Inner!EmptyKernel]

EmptyMap == [outer |-> Outer!EmptyKernel, inner |-> NoInner]

Init ==
  /\ use \in Uses
  /\ state = [r \in Replica |-> EmptyMap]
  /\ pending = [r \in Replica |-> NoInner]
  /\ hook = [r \in Replica |-> EmptyMap]
  /\ sent = [r \in Replica |-> <<>>]
  /\ got = [r \in Replica |-> [s \in Replica |-> 0]]
  /\ inserted = [r \in Replica |-> <<>>]
  /\ erased = [r \in Replica |-> {}]

-----------------------------------------------------------------------------
(* Merging *)

\* Mutant of MergedInner: the nested container is replaced, not merged.
MergedInnerReplaced(keys, l, d) ==
  [k \in Key |-> IF k \notin keys THEN Inner!EmptyKernel
                 ELSE IF k \in d.outer.keys THEN d.inner[k] ELSE l.inner[k]]

\* dot_kernel_value::merge for the elements of d, of which `keys` are there afterwards.
\* Nested containers are of the state kind in a map's delta too.
MergedInner(keys, l, d) ==
  [k \in Key |->
     IF k \notin keys THEN Inner!EmptyKernel
     ELSE IF k \in d.outer.keys THEN Inner!Merge("state", l.inner[k], d.inner[k])
     ELSE l.inner[k]]

\* dot_kernel::merge of a map.
MapMerge(tag, l, d) ==
  LET outer == Outer!Merge(tag, l.outer, d.outer)
  IN  [outer |-> outer, inner |-> MergedInner(outer.keys, l, d)]

\* The nested hooks that are left: a hook goes with its element.
PendingOf(p, keys) == [k \in Key |-> IF k \in keys THEN p[k] ELSE Inner!EmptyKernel]

-----------------------------------------------------------------------------
(* Updates at a replica *)

\* Mutant of NextDot: counting from zero.
NextDotZero(r) == Outer!NextCounter(state[r].outer.counters[r]) - 1

\* get_next_dot of the map
NextDot(r) == Outer!NextCounter(state[r].outer.counters[r])

\* The delta of key k with the next dot and the nested content `inner`.
KeyDelta(r, k, inner) ==
  [outer |-> Outer!ValueDelta(k, r, NextDot(r)), inner |-> [NoInner EXCEPT ![k] = inner]]

\* Mutant of CommitTo: the map's hook is not told of what a nested container changed.
CommitToState(r, map, p, delta) ==
  /\ state' = [state EXCEPT ![r] = MapMerge("state", map, delta)]
  /\ pending' = [pending EXCEPT ![r] = PendingOf(p, state'[r].outer.keys)]
  /\ hook' = IF p = pending[r] THEN [hook EXCEPT ![r] = MapMerge("delta", @, delta)] ELSE hook
  /\ UNCHANGED <<use, sent, got>>

\* The delta is merged into `map` and committed to the map's hook; p are the nested hooks.
CommitTo(r, map, p, delta) ==
  /\ state' = [state EXCEPT ![r] = MapMerge("state", map, delta)]
  /\ pending' = [pending EXCEPT ![r] = PendingOf(p, state'[r].outer.keys)]
  /\ hook' = [hook EXCEPT ![r] = MapMerge("delta", @, delta)]
  /\ UNCHANGED <<use, sent, got>>

Commit(r, delta) == CommitTo(r, state[r], pending[r], delta)

\* History: key k has got a dot.
Remember(r, k) ==
  /\ inserted' = [inserted EXCEPT ![r] = Append(@, k)]
  /\ UNCHANGED erased

MayUpdate(r, k) ==
  /\ r \in use.writers /\ k \in use.keys
  /\ Len(sent[r]) < use.deltas
  /\ use.eager => hook[r] = EmptyMap

\* A container in which replica r inserted vals, one after the other.
Built(r, vals) ==
  LET counters(e) == {c \in 1 .. Len(vals) : vals[c] = e}
      of(e) == [Inner!NoDots EXCEPT ![r] = counters(e)]
  IN  [keys     |-> {e \in Elem : counters(e) # {}},
       dots     |-> [e \in Elem |-> of(e)],
       counters |-> [Inner!NoDots EXCEPT ![r] = IF vals = <<>> THEN {} ELSE {Len(vals)}],
       links    |-> [Inner!NoDots EXCEPT ![r] = {<<c, vals[c]>> : c \in 1 .. Len(vals)}]]

\* map::insert; operator[] inserts an empty value, also when the key is there.
Insert(r, k, vals) ==
  /\ "map.insert" \in use.calls
  /\ MayUpdate(r, k)
  /\ NextDot(r) <= use.dots
  /\ use.fresh => k \notin state[r].outer.keys
  /\ Commit(r, KeyDelta(r, k, Built(r, vals)))
  /\ Remember(r, k)

\* The deletion of the keys K, with all their dots.
ForgetDelta(r, K) == [outer |-> Outer!CountersDelta(state[r].outer, K), inner |-> NoInner]

\* History: these dots are erased.
Forget(r, K) ==
  /\ erased' = [s \in Replica |-> erased[s] \cup UNION {state[r].outer.dots[k][s] : k \in K}]
  /\ UNCHANGED inserted

\* map::erase(key), which does nothing for an absent key.
Erase(r, k) ==
  /\ "map.erase" \in use.calls
  /\ MayUpdate(r, k)
  /\ k \in state[r].outer.keys
  /\ Commit(r, ForgetDelta(r, {k}))
  /\ Forget(r, {k})

\* map::clear
Clear(r) ==
  /\ "map.clear" \in use.calls
  /\ state[r].outer.keys # {}
  /\ \A k \in state[r].outer.keys : MayUpdate(r, k)
  /\ Commit(r, ForgetDelta(r, state[r].outer.keys))
  /\ Forget(r, state[r].outer.keys)

\* A nested container at key k commits `delta`: it merges it, its hook does, and the map
\* is called back (hook_extract::commit_delta, dot_kernel_allocator::update,
\* dot_kernel_value::update, map::update), which gives the key its next dot.
CommitNested(r, k, delta) ==
  /\ NextDot(r) <= use.dots
  /\ CommitTo(r,
       [state[r] EXCEPT !.inner[k] = Inner!Merge("state", @, delta)],
       [pending[r] EXCEPT ![k] = Inner!Merge("delta", @, delta)],
       KeyDelta(r, k, Inner!EmptyKernel))
  /\ Remember(r, k)

\* get_next_dot of the nested container
NextInner(r, k) == Inner!NextCounter(state[r].inner[k].counters[r])

MayUpdateNested(r, k) == MayUpdate(r, k) /\ k \in state[r].outer.keys

\* set::insert of the set at key k
NestedInsert(r, k, e) ==
  /\ "set.insert" \in use.calls
  /\ MayUpdateNested(r, k)
  /\ use.fresh => e \notin state[r].inner[k].keys
  /\ CommitNested(r, k, Inner!ValueDelta(e, r, NextInner(r, k)))

\* set::erase(e)
NestedErase(r, k, e) ==
  /\ "set.erase" \in use.calls
  /\ MayUpdateNested(r, k)
  /\ e \in state[r].inner[k].keys
  /\ CommitNested(r, k, Inner!CountersDelta(state[r].inner[k], {e}))

\* set::clear
NestedClear(r, k) ==
  /\ "set.clear" \in use.calls
  /\ MayUpdateNested(r, k)
  /\ state[r].inner[k].keys # {}
  /\ CommitNested(r, k, Inner!CountersDelta(state[r].inner[k], state[r].inner[k].keys))

\* Mutant of SetDelta: the values present are not deleted.
SetDeltaKeeps(r, k, e) == Inner!ValueDelta(e, r, NextInner(r, k))

\* delta_clear and delta_insert of the register's values into one delta
SetDelta(r, k, e) ==
  LET value == Inner!ValueDelta(e, r, NextInner(r, k))
      clear == Inner!CountersDelta(state[r].inner[k], state[r].inner[k].keys)
  IN  [value EXCEPT !.counters = [s \in Replica |-> @[s] \cup clear.counters[s]]]

\* value_mv::set of the register at key k
NestedSet(r, k, e) ==
  /\ "value_mv.set" \in use.calls
  /\ MayUpdateNested(r, k)
  /\ CommitNested(r, k, SetDelta(r, k, e))

-----------------------------------------------------------------------------
(* Exchange *)

\* Mutant of Reached: the keys of the delta are not looked up in the map.
ReachedNone(r) == {}

\* The keys whose nested hooks delta_extractor::apply asks for their deltas.
Reached(r) == hook[r].outer.keys \cap state[r].outer.keys

\* The delta that extract_delta returns, with what the nested hooks had.
Extracted(r) ==
  LET delta == MapMerge("delta", EmptyMap, hook[r])
  IN  [delta EXCEPT !.inner =
         [k \in Key |->
            IF k \in Reached(r)
            THEN Inner!Merge("state", @[k], Inner!Merge("delta", Inner!EmptyKernel, pending[r][k]))
            ELSE @[k]]]

\* What a reader of a map sees.
Content(m) == [k \in m.outer.keys |-> m.inner[k].keys]

\* hook_extract::extract_delta. With it goes what the map held, which only the properties
\* read.
Extract(r) ==
  /\ hook[r] # EmptyMap
  /\ sent' = [sent EXCEPT ![r] = Append(@,
       [delta |-> Extracted(r), upto |-> Len(inserted[r]), content |-> Content(state[r])])]
  /\ pending' = [pending EXCEPT ![r] =
       [k \in Key |-> IF k \in Reached(r) THEN Inner!EmptyKernel ELSE @[k]]]
  /\ hook' = [hook EXCEPT ![r] = EmptyMap]
  /\ UNCHANGED <<use, state, got, inserted, erased>>

Pending(r, s) == sent[s][got[r][s] + 1]

Deliverable(r, s) ==
  /\ s # r
  /\ got[r][s] < Len(sent[s])

\* merge(extracted delta) at replica r; no hook is told.
Deliver(r, s) ==
  /\ Deliverable(r, s)
  /\ state' = [state EXCEPT ![r] = MapMerge("state", @, Pending(r, s).delta)]
  /\ pending' = [pending EXCEPT ![r] = PendingOf(@, state'[r].outer.keys)]
  /\ got' = [got EXCEPT ![r][s] = @ + 1]
  /\ UNCHANGED <<use, hook, sent, inserted, erased>>

NestedUpdate(r, k) ==
  \/ \E e \in Elem : NestedInsert(r, k, e) \/ NestedErase(r, k, e) \/ NestedSet(r, k, e)
  \/ NestedClear(r, k)

Next ==
  \E r \in Replica :
    \/ \E k \in Key :
         \/ \E vals \in use.inserts : Insert(r, k, vals)
         \/ Erase(r, k)
         \/ NestedUpdate(r, k)
    \/ Clear(r)
    \/ Extract(r)
    \/ \E s \in Replica : Deliver(r, s)

Spec == Init /\ [][Next]_vars

-----------------------------------------------------------------------------
(* Properties *)

Message == [delta : Map, upto : Nat, content : UNION {[K -> SUBSET Elem] : K \in SUBSET Key}]

TypeOK ==
  /\ use \in Uses
  /\ state \in [Replica -> Map]
  /\ pending \in [Replica -> [Key -> Inner!Kernel]]
  /\ hook \in [Replica -> Map]
  /\ sent \in [Replica -> Seq(Message)]
  /\ got \in [Replica -> [Replica -> Nat]]
  /\ inserted \in [Replica -> Seq(Key)]
  /\ erased \in [Replica -> SUBSET (Nat \ {0})]

Deltas(r) == {sent[r][i].delta : i \in 1 .. Len(sent[r])}

Maps == UNION {{state[r], hook[r]} \cup Deltas(r) : r \in Replica}

\* The bounds of all uses.
MaxDots == Max({0} \cup {u.dots : u \in Uses})
MaxDeltas == Max({0} \cup {u.deltas : u \in Uses})

\* The keys of the replicas, with their dots, as the replicas of a set: what of the map is
\* left when the nested containers are taken away.
KeySet == INSTANCE CrdtSet WITH
  state <- [r \in Replica |-> state[r].outer],
  hook <- [r \in Replica |-> hook[r].outer],
  sent <- [r \in Replica |-> [i \in 1 .. Len(sent[r]) |->
            [delta |-> sent[r][i].delta.outer, upto |-> sent[r][i].upto,
             deps |-> [s \in Replica |-> 0]]]],
  MaxDot <- [r \in Replica |-> MaxDots],
  MaxSent <- [r \in Replica |-> MaxDeltas],
  Eager <- FALSE,
  FreshInserts <- FALSE,
  Causal <- FALSE

\* In every use the keys are a crdt::set: a nested update acts on them as an insert of its
\* key, and no nested container, hook or delta has an influence on which keys there are. What
\* holds for the elements of a set, its dots and its links, holds for the keys of a map.
KeysAreASet == KeySet!Spec

\* Only one replica updates.
OneWriter == Cardinality(use.writers) = 1

\* Keys are not erased, so that no nested container is made anew.
KeysStay == use.calls \cap {"map.erase", "map.clear"} = {}

\* A nested container numbers its dots from 1. No two containers at a key whose dots are the
\* same meet: none is made anew, or the peer has dropped the earlier one before it gets the
\* next, and none is inserted, with contents, over one that is there.
DotsNotReused ==
  /\ KeysStay \/ (OneWriter /\ use.eager)
  /\ use.fresh \/ use.inserts \subseteq {<<>>}

\* The metadata of nested containers and of their hooks is sound: links are the inverse of
\* dots, no element lacks a dot, and what a hook is to send is what its container holds.
NestedSound == DotsNotReused =>
  /\ \A m \in Maps : \A k \in Key : Inner!Linked(m.inner[k])
  /\ \A r \in Replica : \A k \in Key :
       /\ Inner!Linked(pending[r][k])
       /\ \A e \in Elem, s \in Replica :
            pending[r][k].dots[e][s] \subseteq state[r].inner[k].dots[e][s]

\* No change stays behind in a nested hook: extract_delta descends only to the keys of the
\* map's delta, and each key with something to extract is one of them, whatever was erased,
\* cleared and merged since the nested container called back.
NoChangeStranded ==
  \A r \in Replica : \A k \in Key :
    pending[r][k] # Inner!EmptyKernel => k \in Reached(r)

\* A change of a nested container protects its key against an erase that has not seen it:
\* the key is there when the change arrives where it was erased, and stays when the erase
\* arrives where it has been changed.
ChangeWins == [][
  \A r, s \in Replica : Deliver(r, s) =>
    hook[r].outer.keys \cup Pending(r, s).delta.outer.keys \subseteq state'[r].outer.keys]_vars

\* What the updates of replica r would do to a std::map of std::sets (of values).
AsStdMap(r) ==
  LET now == Content(state[r])
      then == Content(state'[r])
      others(k) == \A l \in Key \ {k} :
        (l \in DOMAIN now <=> l \in DOMAIN then) /\ (l \in DOMAIN now => then[l] = now[l])
  IN  /\ \A k \in Key, vals \in use.inserts : Insert(r, k, vals) =>
           /\ k \in DOMAIN then /\ others(k)
           /\ k \notin DOMAIN now => then[k] = {vals[i] : i \in DOMAIN vals}
      /\ \A k \in Key : Erase(r, k) => k \notin DOMAIN then /\ others(k)
      /\ Clear(r) => DOMAIN then = {}
      /\ \A k \in Key : NestedUpdate(r, k) => k \in DOMAIN then /\ others(k)
      /\ \A k \in Key, e \in Elem :
           /\ NestedInsert(r, k, e) => then[k] = now[k] \cup {e}
           /\ NestedErase(r, k, e) => then[k] = now[k] \ {e}
           /\ NestedSet(r, k, e) => then[k] = {e}
      /\ \A k \in Key : NestedClear(r, k) => then[k] = {}

\* The elements of a delta are there when it has been merged.
Arrives(r, s) ==
  LET d == Pending(r, s).delta
  IN  \A k \in d.outer.keys : d.inner[k].keys \subseteq state'[r].inner[k].keys

\* At its own replica every update does to the content what the same call does to a
\* std::map of std::sets (of values), and at the other ones the elements it has sent come to
\* what is there already, whatever was erased or changed there in the meantime.
ContentSemantics == [][ DotsNotReused =>
  /\ \A r \in Replica : AsStdMap(r)
  /\ \A r, s \in Replica : Deliver(r, s) => Arrives(r, s)]_vars

\* With one writer, a reader's map is always one the writer had: the one whose delta the
\* reader merged last.
ReadsTheWriter ==
  \A w \in Replica :
    use.writers = {w} =>
      \A r \in Replica \ {w} :
        got[r][w] # 0 => Content(state[r]) = sent[w][got[r][w]].content

\* Every update has been extracted and every delta merged everywhere.
Quiet ==
  /\ \A r \in Replica : hook[r] = EmptyMap
  /\ \A r, s \in Replica : r # s => got[r][s] = Len(sent[s])

\* Inserts of what is absent, erases of single elements, each extracted.
OneByOne ==
  /\ use.eager /\ use.fresh
  /\ use.calls \subseteq {"map.insert", "set.insert", "set.erase"}

\* Then the replicas hold the same keys with the same values.
Converged == OneByOne /\ Quiet => \A r, s \in Replica : Content(state[r]) = Content(state[s])
=============================================================================
