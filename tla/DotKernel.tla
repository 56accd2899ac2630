----------------------------- MODULE DotKernel -----------------------------
(***************************************************************************)
(* The merge algorithm of crdt/detail/dot_kernel.h, as a pure operator.    *)
(*                                                                         *)
(* A kernel is the observable state of a dot_kernel:                       *)
(*   keys      the keys of values_                                         *)
(*   dots      values_[k].dots : the dots (replica, counter) that support  *)
(*             element k; an absent entry is the empty set                 *)
(*   counters  replica_[r].counters : the counters of replica r on record  *)
(*   links     replica_[r].dots : the map counter -> key, as its set of    *)
(*             pairs; it finds the element a counter belongs to            *)
(*                                                                         *)
(* The three metadata back-ends (btree, stl, flat) implement this state    *)
(* with the same operations; nothing here depends on which one is used.    *)
(***************************************************************************)
EXTENDS Naturals, FiniteSets, FiniteSetsExt

CONSTANTS Replica, Key

Dots == [Replica -> SUBSET (Nat \ {0})]

Kernel == [keys     : SUBSET Key,
           dots     : [Key -> Dots],
           counters : Dots,
           links    : [Replica -> SUBSET ((Nat \ {0}) \X Key)]]

NoDots == [r \in Replica |-> {}]

EmptyKernel == [keys     |-> {},
                dots     |-> [k \in Key |-> NoDots],
                counters |-> NoDots,
                links    |-> NoDots]

-----------------------------------------------------------------------------
(* Counter sets.                                                           *)

\* Mutant of Collapse: the first counter of the run stays instead of the last.
CollapseToFirst(S) == {c \in S : c - 1 \in S => \E b \in S : b < c /\ ~(b .. c \subseteq S)}

\* counters_collapse: what is left of a set of counters once the run of
\* consecutive counters at its low end is replaced by the last one of the run.
\* The loop breaks at the first gap: a later run is left as it is.
Collapse(S) == {c \in S : c + 1 \in S => \E b \in S : b < c /\ ~(b .. c \subseteq S)}

\* The in-place replacement of counters_merge: one counter on each side, the
\* right one being the successor of the left one.
Succeeds(L, R) == \E c \in L : L = {c} /\ R = {c + 1}

\* Mutant of CountersMerge: the replacement is also made for the same counter again
\* (*l + 1 >= *r).
CountersMergeLoose(tag, L, R) ==
  IF R = {} THEN L
  ELSE IF \E c \in L : L = {c} /\ R \in {{c}, {c + 1}} THEN {c + 1 : c \in L}
  ELSE IF tag = "state" THEN Collapse(L \cup R)
  ELSE L \cup R

\* counters_merge. R = {} stands for an absent entry, for which it is not called.
CountersMerge(tag, L, R) ==
  IF R = {} THEN L
  ELSE IF Succeeds(L, R) THEN R
  ELSE IF tag = "state" THEN Collapse(L \cup R)
  ELSE L \cup R

\* The counters that counters_merge reports through register_erase.
CountersErased(tag, L, R) ==
  IF R = {} THEN {} ELSE (L \cup R) \ CountersMerge(tag, L, R)

\* Mutant of NextCounter: counting from zero.
NextCounterFromZero(S) == IF S = {} THEN 0 ELSE Max(S) + 1

\* Mutant of NextCounter: the last counter again.
NextCounterStale(S) == IF S = {} THEN 1 ELSE Max(S)

\* replica_counters_get + 1: the counter of the next dot of a replica.
NextCounter(S) == IF S = {} THEN 1 ELSE Max(S) + 1

-----------------------------------------------------------------------------
(* Merging another kernel d into l.                                        *)

\* Mutant of MergedDots: an element that is there keeps the dots it has.
MergedDotsFirst(tag, l, d) ==
  [k \in Key |-> IF k \in d.keys \ l.keys THEN d.dots[k] ELSE l.dots[k]]

\* value_dots_merge for the elements of d.
MergedDots(tag, l, d) ==
  [k \in Key |-> [r \in Replica |->
     IF k \in d.keys THEN CountersMerge(tag, l.dots[k][r], d.dots[k][r])
                     ELSE l.dots[k][r]]]

\* Mutant of MergedLinks: value_context::register_erase does nothing.
MergedLinksKept(tag, l, d) ==
  [r \in Replica |->
     l.links[r] \cup {p \in UNION {d.dots[k][r] \X {k} : k \in d.keys} :
                       \A q \in l.links[r] : q[1] # p[1]}]

\* "Merge values": links of the dots that counters_merge dropped go (value_context),
\* then every dot of d is linked to its element. The link is an emplace: a counter
\* that is still linked keeps its link. The code does this element by element; a dot
\* belongs to one element (CrdtSet!DotOwnership), so the elements do not disturb each other.
MergedLinks(tag, l, d) ==
  [r \in Replica |->
     LET erased == UNION {CountersErased(tag, l.dots[k][r], d.dots[k][r]) : k \in d.keys}
         kept   == {p \in l.links[r] : p[1] \notin erased}
     IN  kept \cup {p \in UNION {d.dots[k][r] \X {k} : k \in d.keys} :
                      \A q \in kept : q[1] # p[1]}]

\* Mutant of Valueless: the visited counters are not taken out.
ValuelessAll(d, r) == d.counters[r]

\* The counters of d that no element of d carries: set_difference(rdata.counters, visited).
Valueless(d, r) == d.counters[r] \ UNION {d.dots[k][r] : k \in d.keys}

\* "Merge replicas" and merge_valueless_clear: a counter of d without an element deletes
\* its dot from the local element it is linked to; an element without dots goes.
Merge(tag, l, d) ==
  LET dots1 == MergedDots(tag, l, d)
      links1 == MergedLinks(tag, l, d)
      dead  == [r \in Replica |-> {p \in links1[r] : p[1] \in Valueless(d, r)}]
      dots2 == [k \in Key |-> [r \in Replica |->
                  {c \in dots1[k][r] : <<c, k>> \notin dead[r]}]]
      hit   == {k \in Key : \E r \in Replica : \E p \in dead[r] : p[2] = k}
  IN  [keys     |-> {k \in l.keys \cup d.keys : k \in hit => dots2[k] # NoDots},
       dots     |-> dots2,
       counters |-> [r \in Replica |-> CountersMerge(tag, l.counters[r], d.counters[r])],
       links    |-> [r \in Replica |-> links1[r] \ dead[r]]]

-----------------------------------------------------------------------------
(* The deltas the containers build.                                        *)

\* add_counter_dot and add_value: element k with the single dot (r, c).
ValueDelta(k, r, c) ==
  LET dot == [NoDots EXCEPT ![r] = {c}]
  IN  [EmptyKernel EXCEPT !.keys = {k}, !.dots[k] = dot, !.counters = dot]

\* Mutant of CountersDelta: only the last counter of each replica.
CountersDeltaTop(l, K) ==
  [EmptyKernel EXCEPT !.counters =
     [r \in Replica |->
        LET S == UNION {l.dots[k][r] : k \in K} IN IF S = {} THEN {} ELSE {Max(S)}]]

\* add_counter_dots over the elements K of l: their counters and no element.
CountersDelta(l, K) ==
  [EmptyKernel EXCEPT !.counters = [r \in Replica |-> UNION {l.dots[k][r] : k \in K}]]

-----------------------------------------------------------------------------
(* What a well-formed kernel is.                                           *)

\* links is the exact inverse of the dots of the elements, and no element lacks a dot.
Linked(l) ==
  /\ \A r \in Replica :
       l.links[r] = UNION {l.dots[k][r] \X {k} : k \in l.keys}
  /\ \A k \in Key : k \in l.keys <=> l.dots[k] # NoDots

\* Equal but for the counters on record.
SameElements(l, m) == l.keys = m.keys /\ l.dots = m.dots /\ l.links = m.links
=============================================================================
