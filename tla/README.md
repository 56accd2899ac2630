# A TLA+ model of fluidstore

fluidstore is a header-only C++ library of conflict-free replicated containers: `crdt::set`,
`crdt::map` and the multi-value register `crdt::value_mv`, on top of one merge algorithm
(`crdt/detail/dot_kernel.h`) and of a home-made B-tree, flat containers and a buffer
allocator. This directory holds the model of it in TLA+, the TLC configurations that
check the model on small instances, and proofs, checked by TLAPS, that the main safety
properties hold for all instances. Paths below are relative to the repository root unless
they name a `.tla` or `.cfg` file.

To run a check: `tlc -config MCCrdtSet.cfg MCCrdtSet`. To check the proofs of a module:
`tlapm CrdtSetProofs.tla`, and likewise for the other seven modules whose name ends in
`Proofs`.

## 1. The system

### Components

| Component | State it keeps | Operations |
|---|---|---|
| `dot_kernel` (`crdt/detail/dot_kernel.h`) | `values_`: element -> its dots (and a nested container); `replica_`: replica -> counters on record, and a map counter -> element (the links) | `merge` (values, replicas, valueless dots), `get_next_dot`, `add_counter_dot(s)`, `add_value`, `update`, `clear`, `counters_merge/collapse/erase` |
| metadata back-ends (`dot_kernel_metadata_{btree,stl,flat}.h`, `metadata.h`) | the sets and maps above, as B-trees, std or boost flat containers, local or shared | set and map primitives the kernel is written with |
| `crdt::set` (`crdt/set.h`) | a kernel with empty elements | `insert`, `erase(key)`, `erase(it)`, `clear`, `merge`, `extract_delta`, lookups |
| `crdt::map` (`crdt/map.h`) | a kernel whose elements are nested containers | `insert`, `operator[]`, `erase`, `clear`, `merge`, recursive `extract_delta`, parent update |
| `crdt::value_mv` (`crdt/value_mv.h`) | a kernel whose keys are the register's values | `set`, `get_one`, `get_all`, `merge`, `extract_delta` |
| hooks (`crdt/hooks/hook_extract.h`, `hook_default.h`) | `delta_`: the accumulated local updates, or nothing | `commit_delta`, `extract_delta` |
| replica, dot, allocators, nested values (`replica.h`, `dot.h`, `allocator*.h`, `dot_kernel_value.h`, ...) | replica id, pointer to the parent container | construction, `update` callback to the parent |
| B-tree (`btree/detail/container.h`, `fixed_vector.h`, `set.h`, `map.h`) | nodes with parent pointers, leaf chain, root, depth, size | `find`, `insert`/`emplace` with split and redistribution, `erase` with share or merge, iteration |
| flat containers (`flat/*.h`) | sorted vector: data pointer, size, capacity | `reserve`, `emplace`, `erase`, `assign`, lookups |
| `buffer_allocator` (`memory/buffer_allocator.h`) | bytes handed out of a fixed or growing buffer | `allocate`, `deallocate`, fallback allocation |

The tests (`src/tests`), benchmarks and build files only use the library.

### How the components interact

Every update of a container is a merge. `insert` takes the replica's next dot, builds a
temporary kernel with that element and that dot on the stack (memory from a
`buffer_allocator`), merges it into the container and passes it to `commit_delta` of the
hook, which merges it into its own accumulated kernel. `erase` and `clear` do the same
with a kernel that has *no* element and, as counters, the dots of what is erased: a counter
without an element deletes. `extract_delta` moves the accumulated kernel out. The
application carries it to the other replicas and calls `merge` there; a remote merge does
not go to the hook. In a map, a nested container that changes calls its parent's `update`
through its allocator, which gives the element a new dot in the parent.

All calls are synchronous and single-threaded within a replica. What is concurrent is the
system of replicas: each updates on its own, and extracted deltas reach the others late and
in different orders. There is no persistence, hence no crash recovery, and no timer.

### What is hard here

 * `counters_merge` drops counters: the in-place replacement (one counter on each side, the
   right one following the left one) and `counters_collapse` (a run of consecutive counters
   becomes its last one), in states and, for the former, in accumulated deltas too. Whatever
   it drops is forgotten, and elements, links, the next dot and later erases depend on it.
 * `merge_valueless_clear` follows a counter -> element link and dereferences the result of
   `find` unchecked.
 * Deltas of different replicas arrive in any order, and may be buffered, which interleaves
   a replica's own accumulated updates with remote ones that only its state sees.
 * An element can have dots of several replicas and several dots of one.
 * Everything must arrive: an erase-only delta has no element, but is not nothing.
 * In the map, nested containers are created, erased and re-created with dots that restart;
   a nested change is reached by extraction only through the key's dot in the outer delta; a delta
   collapses counters in its nested containers because these are of the state's kind.
 * In the B-tree, sequences of splits, shares and merges must keep order, fill, depth,
   parent pointers and the leaf chain. Erasing leaves separators behind that are keys no longer,
   the last leaf may be empty, and `erase(it)` moves keys before it erases.
 * A leaf of a `btree::map` has two arrays and one size: keys and values must change in step.
 * In the vectors elements are shifted between overlapping raw and live slots; sizes are of
   8 bits in places, and growth is integer arithmetic.
 * A buffer of the allocator starts over when its count of bytes says that nothing is held.

`PROJECT.json` lists these as hazards, each at its line, with the properties that guard it.

### What makes each component correct

 * kernel: links are the exact inverse of the elements' dots; no element without a dot;
   a merge removes exactly the dots the delta records without an element; counters dropped
   are never needed again (next dot new, no element lost).
 * set: local calls act like those of a `std::set`; the replicas implement an
   observed-remove set; they converge.
 * register: at most one value per replica; a write replaces all that its replica saw;
   the replicas implement the multi-value register.
 * hook: what is buffered is current; everything committed is extracted.
 * map: as the set for its keys, and recursively for its values; no nested change is left
   behind by extraction.
 * B-tree: sorted, balanced, fill bounds, correct parents and chain; implements a sorted set.
 * flat set, and the leaves of a `btree::map`: the live slots are exactly the first `size`, and hold
   the set, or the list of pairs, expected.
 * buffer allocator: live blocks are disjoint and inside the buffer; a block is returned
   where it came from.

## 2. What is modelled

| Module | Models | Notes |
|---|---|---|
| `DotKernel` | `dot_kernel.h`: the kernel's state and `merge` as a pure operator; the deltas the containers build | a record of keys, dots, counters and links |
| `CrdtSet` | `set.h` and `hook_extract.h`: several replicas of a set, their hooks, the extracted deltas in transit | actions `Insert`, `Erase`, `Clear`, `Extract`, `Deliver` |
| `CrdtSetCausal` | the same, in a disciplined use close to that of the tests, with the history of updates | the refinement to `ORSet`, fairness, liveness |
| `CrdtValueMv` | `value_mv.h`: action `Set` instead of the set's updates | the refinement to `ORSet` |
| `ORSet` | abstract: what a reader of a replica sees is a function of the updates that reached it | no metadata |
| `CrdtMap` | `map.h`, `dot_kernel_value.h`, the callback of `dot_kernel_allocator.h`: maps of sets and maps of registers | two instances of `DotKernel`, one inside the other; its keys refine `CrdtSet` |
| `SortedSet` | abstract: what a `std::set` promises, with the position or flag each call returns | implemented by `BTree` and by `FlatSet` |
| `BTree` | `btree/detail/container.h` and `btree/set.h` | operators from a tree to the tree after it |
| `Slots` | raw memory, object lifetimes, and the moves of `flat/memory.h` | operators only |
| `FixedVector`, `FixedSplitVector` | `fixed_vector.h` and the leaves of `btree/map.h`: two neighbouring leaves as `container.h` works on them | extends `Slots` |
| `FlatVector`, `FlatSet` | `flat/vector.h` and `flat/set.h` | extends `Slots` |
| `BufferAllocator` | `memory/buffer_allocator.h`: a chain of buffers and what is behind it | |
| `MC...` | values of the constants, bounds, symmetry | |
| `DotKernelProofs` | theorems about the merge operator | used by all that follow but the last two |
| `CrdtSetProofs` | theorems about the set in every use: dots, links, content | |
| `CrdtSetCausalProofs` | the set under all three disciplines: the refinement of `ORSet` | |
| `CrdtValueMvProofs` | the register: the refinement of `ORSet` | |
| `CrdtMapProofs` | the map: the refinement of `CrdtSet` by its keys, and what follows | instantiates `CrdtSetProofs` and `DotKernelProofs` |
| `CrdtMapNestedProofs` | the containers in a map: soundness, content, what readers see | extends `CrdtMapProofs` |
| `FixedSplitVectorProofs` | theorems about the leaves, and lemmas about the loops of `Slots` and `FixedVector` | |
| `BufferAllocatorProofs` | theorems about the buffers | |

**Kernels.** `keys`, `dots[k][r]`, `counters[r]` and `links[r]` are the contents of `values_`,
`values_[k].dots`, `replica_[r].counters` and `replica_[r].dots`. An entry that is absent in
the code and one that is there but empty are the same in the model: the kernel never tells
them apart, except that `counters_merge` is not called for an absent one (`R = {}` in
`CountersMerge`). `Merge` is the whole of `merge`: the values pass with the erase callbacks of
`value_context`, the links, then per replica the counters on record, and `merge_valueless_clear`
with the removal of elements that have lost their last dot. The code goes element by element; the model
treats all elements of a delta at once, which agrees because a dot belongs to one element
(`DotOwnership`, proved). The `tag` argument is the code's tag type: collapse happens in
states only.

**Updates.** `Commit` is the pair of merges every update makes, into the state and into the
hook. An action is a whole call: nothing runs between the two merges. The guards of `Erase`
and `Clear` are the early returns for an absent key and an empty set. `Extract` is
`extract_delta`; with nothing accumulated the code returns an empty delta, which changes no
replica and is left out. `Deliver` is `merge` of the next extracted delta of a replica.

**The application** is the part of the model that is not code: who extracts, and who delivers
when. The deltas of one replica always arrive in order, which `readme.md:17` requires. What
else it does is set by three constants: `Eager` (every update is extracted before the next),
`FreshInserts` (`insert` only for absent keys), `Causal` (a delta is merged after the deltas its
replica had merged). The tests do the last two where they replicate, and the first but for two inserts that
`set_merge` and `set_extract` (and two nested updates that `map_map_value_mv_merge`) extract together. The properties
of `CrdtSet` itself need none.

**Maps.** The state of a replica is `state[r]` (the outer kernel, and per key the nested one),
`pending[r]` (the hooks of the nested containers) and `hook[r]` (the map's own). A nested update is
one action: it merges into the nested container, into the nested hook, and then gives the key a new
outer dot and commits that to the map's hook, as `dot_kernel_value::update` and `map::update` do in
the same call. `Extract` descends to the nested hooks of the keys of the map's delta and of no
others. `MapMerge` is the outer merge with, for every key in both, the nested one; a key that is
erased takes its nested container and hook with it, one that is made anew starts from nothing.

**Uses.** `CrdtMap` and `BTree` have a variable `use`, chosen in `Init` from a constant set and never
changed: which calls an application makes, from which replicas, under which discipline, and its
bounds. One run then covers several ways of using the component, and a property that needs a
discipline names it (`DotsNotReused`, `OneWriter`, `OneByOne`) instead of a run of its own with a smaller model.
In the map, `inserts` are the contents an application passes to `map::insert`: `<<>>` alone stands for
`operator[]`.

**Trees.** `tree.node` is the heap, a function from the ids of allocated nodes to their fields, with
`root`, `first`, `last`, `size` and `depth` as in the code. Every call is one action; its answer is
the key that the returned iterator stands on. Within it the operators follow the code's
order of assignments, because later steps read what earlier ones wrote (for example `depth_` during
`split` and `rebalance_erase`). `tree.fault` records an abort, an overrun node, or a node taken for the wrong
kind. In `BTree` the keys of a leaf are a sequence; how an array does that is the business of
`FixedVector`.

**Slots.** A position of memory is `Raw`, `Moved` (an object that was moved from) or holds a value.
Constructing over a living object, reading or destroying a dead one, and leaving the buffer set
`fault`. Whether elements are trivial (bytes, moved with `memmove`) or objects selects the
code's overloads; `Init` chooses. `FixedSplitVector` has two leaves of a `btree::map`, whose keys and values are each bytes
or objects: `emplace` and `erase` at every position, `Split`, `Borrow` and `Merge`. `Data(s)` is `get_data()`,
which makes the values' size a copy. `FlatSet` has a `size_type` of `W` bits; growth and its overflow are computed as
in `reserve`, and an insertion that throws is an action of its own.

**Buffers.** Addresses are numbers, `current[b]` the bump pointer, `allocated[b]` the count of bytes,
`live` what callers hold, each block with the buffer it came from, which no action reads: a
block is recognised by its address, as in the code. `endAllocator` is what follows the last
buffer: `buffer_allocator_throw`, `std::allocator`, or that behind a `stats_buffer`.

**History variables.** `inserted` and `erased` (which key a dot was issued for, which dots some
erase covered), here and in the map, and `log` (the updates, as the abstract specification knows them)
are read by properties, by bounds and by the `upto`/`deps` notes on a message, never by the code's part of
an action. `call` and `answer` (the last call and what it returned) and `moving` are written only.

## 3. What the runs check

| Run | Instance | Distinct states | Shows |
|---|---|---|---|
| `set_any_use` | 2 replicas, 2 keys; 3 and 1 inserts, 2 extractions each; no discipline | 201,862 | metadata integrity and local semantics in every use |
| `set_observed_remove` | 3 replicas, 2 keys; inserts 2, 1, 0; extractions 2, 2, 1; all disciplines | 575,789 | the replicas implement the observed-remove set |
| `set_converges` | 2 replicas, 2 keys; 2 inserts each; extractions 3 and 2; all disciplines, fair | 88,271 | the replicas converge |
| `value_mv` | 3 replicas, 2 values; writes 3, 2, 0; extractions 2, 2, 0; causal, buffered | 142,481 | the replicas implement the multi-value register |
| `map` | 2 replicas, 1 or 2 keys, 2 elements; five uses | 147,693 | which guarantee of the map holds in which use; its keys are a set |
| `btree` | N = 2; three uses, trees of depth 2, 3 and 4 | 141,268 | balance, order, pointers; a sorted set |
| `flat_set` | 7 keys, 3-bit `size_type`, bytes and objects, shifts of any length | 43,559 | object lifetimes, lookups; a sorted set, also where it throws; where exactly objects go wrong |
| `split_vector` | N = 2, two leaves, up to 6 pairs, 4 combinations of bytes and objects | 65,516 | keys and values stay in step |
| `buffer_allocator` | 2 buffers of 5 and 3 bytes side by side, 4 bytes of heap, 3 lengths, 3 alignments, 3 end allocators | 160,398 | blocks disjoint, returned home, counts exact |
| `set_buffered` | the set, buffered | to the first violation | a buffered erase is lost |
| `map_overwritten` | a map of registers, one writer | to the first violation | an overwritten value stays |
| `flat_shift` | the flat set | to the first violation | objects that make room overwrite each other |

**The set.** `set_any_use` checks the type invariant and:
 * `LinkIntegrity`: links are the inverse of dots, no element lacks a dot, in states, hooks and deltas;
 * `DotOwnership`: a dot identifies one insert, wherever it is;
 * `NextDotFresh`: counters grow without holes and the next dot is new everywhere;
 * `NoLostInsert`: the last insert of a key that reached a replica keeps its dot there until an
   erase covers it: neither replacement nor collapse takes an element away;
 * `HookWithinState`: buffered dots support the same elements in the state;
 * `LocalSemantics`: at its own replica a call does what it does to a `std::set`;
 * `RepeatedDelivery`: merging the last delta twice changes no content, brings no dot back and leaves
   exact links, and changes no dot at all if the delta took none away. (More would be false: a dot taken
   from below a run of counters opens the run to the next collapse.)

`set_observed_remove` checks `ImplementsORSet`, a refinement: the variable `content` of `ORSet`
is the keys of the state, `seen` how much of each log the replica has applied. It also checks
`SameSeenSameDots`: replicas that applied the same updates agree on dots and links as well.
`value_mv` checks `ImplementsRegister` against the same abstract specification (a write adds a
value and removes those its replica sees), `SetReplaces` and `OneValuePerReplica`.

**The map.** Three properties hold in every use. `KeysAreASet` is a refinement of `CrdtSet`: the outer
kernels of a map, its hook and its deltas behave as those of a set, in which a nested update is an
insert of its key. `NoChangeStranded`: whatever is in a nested hook will be reached by the next
extraction, after any erases, clears and merges. `ChangeWins`: a change that is buffered, or arrives, keeps
its key alive against an erase that has not seen it.

The nested level is sound under `DotsNotReused` only. An element made anew starts its nested counters
from 1, so that a peer that still holds dots of an earlier container at the key, or a hook in
which the earlier one was not yet sent, takes old and new dots for one another; and so does `map::insert` of a
value with contents over a key that is there. So either keys stay, or one replica writes and extracts each
update; and what is inserted is empty, or goes to absent keys. Then `NestedSound` (nested links
are exact, nested hooks hold what their containers hold) and `ContentSemantics` (a call does to the content
what it does to a `std::map` of `std::set`s, and delivered elements are there afterwards) hold. TLC
refutes both without either half of the condition.
`Converged` is claimed for `OneByOne` (single updates, each extracted), and `ReadsTheWriter` for one writer that
does not clear nested sets (`clear` records several counters, of which the nested collapse in the delta sends
the last).

**The tree.** `Balanced`, `Ordered` and `Linked` are what `container.h`'s own `verify_*` functions assert in
debug builds, and that no node is leaked; `NoFault` that `std::abort` in `rebalance_erase` is not
reached; `ReadsExact` that `find`, `lower_bound` and iteration in both directions tell the truth when separators are
stale; `ImplementsSortedSet` is the refinement, with the iterators `insert` and `erase` return.

**Memory.** `MemoryExact` and `InStep` say that objects live in exactly the slots below `size`; `OrderKept`
and `OneChange` are the abstract list of pairs, as action properties. (`FixedSplitVector` inserts ranges at the two ends
only, as the tree does, so `InStep` says nothing of a range inserted in the middle.) `BlocksDisjoint`, `ReturnsHome` (also
next to a neighbour's first byte), `AllocatedExact` and `Reusable` are the allocator's.

The flat set is right for bytes and not for objects, and no call is left out of the model for that: every insert and
erase is explored, with any number of elements behind, also after a fault. `FaultsOfOverlap` says which calls construct
over a living object, destroy a dead one or read one: exactly those that move two or more objects by one slot, erase and
emplace alike. `MemoryExact` is about what they leave behind, and holds throughout. `SortedUntilTorn` is `SortedSet` call by call,
lookups and their answers included, for bytes and for objects, double destructions or not, up to an emplace with three or more
objects behind. Only that leaves a moved-from object among the elements. What becomes of the set then is followed too,
for `MemoryExact` and `FaultsOfOverlap`: such an object compares as an empty string.

**Bounds.** In the sets, `MaxDot[r]` bounds the inserts of replica `r` and `MaxSent[r]` its extractions; they
are in the guards of the updates. Three inserts at one replica are what it takes
to have a counter, a gap and a counter beyond it, to run through the in-place replacement
twice, and to collapse a run of three; two extractions
per replica let a buffered, a late and a current delta exist side by side, and let each replica
react to what it merged. Two keys are enough for a dot to be collapsed because of a dot of
another element, and a third replica (which writes nothing, or little) for deltas of two writers
to arrive in both orders. Keys are symmetric; replicas are not, their bounds differ.
In the map, `dots` and `deltas` of a use do the same: two outer dots at each replica let a key be
erased and made anew while a peer still holds the old one, three let nested counters collapse, and
four with six deltas let one writer go through insert, change, erase and change again. Elements and
replicas of the map are symmetric (each replica has its use as the one writer), keys are not. In the tree, 8 keys one by
one reach every shape of depth 2, with an empty and a non-empty last leaf; a tree of depth 3 that loses
its keys in every order goes through each case of sharing and merging at both levels and
shrinks to nothing; one of depth 4 that loses some makes the recursion cross two internal levels. N = 2 is the
smallest order the code admits, at which all cases are nearest to each other. Ranges are
inserted into an empty tree only, to bound the instance. A 3-bit `size_type` makes a flat set of 7 elements
full, the case that 8 bits meet at 255. Six pairs in two leaves of four cover full,
half-full and empty next to each other. The buffers of 5 and 3 bytes are adjacent and start at odd addresses,
so that alignment skips bytes and an empty remainder borders on a neighbour.
`CHECK_DEADLOCK FALSE` is set in the runs of the sets, the register and the map, and only there: with
the bounds used up and all delivered the system rests.

**Fairness.** `FairCausalSpec` assumes weak fairness of extraction and of delivery and of nothing
else. Both are up to the application: one that stops extracting or delivering has
replicas that differ, rightly. Neither is disabled once possible other than by being done, so that weak
fairness suffices, and nobody has to keep updating. The code's own part, that an update which
was committed can be extracted, is what `EventuallyConverged` tests. The other components are sequential
and every call returns: they have no liveness of their own.

**Mutants.** Each property of a passing run has a mutant of a modelled definition, a plausible bug
that it catches (`...Loose`, `...Stale`, `...Kept`, ... next to the definition).

### What the violated runs show

`readme.md:17` says a delta can be distributed "now or later", that "the modifications comming from
single replica needs to be ordered" and that this "allows for buffering the changes naturally". With
that and nothing more the replicas do not always converge:
 * `set_buffered`: insert x, extract, erase x, insert y, extract. In the hook the counter 2 of the
   second insert replaces the counter 1 of the erase in place, so the erase is never sent.
 * `map_overwritten`: set(1), extract, set(2), extract on a register nested in a map. The second delta has the counters
   1 (deleted) and 2, and the nested container of an extracted delta is of the state's kind: it
   collapses them to 2. The reader keeps the value 1 beside 2, whatever the writer does to other keys.
 * `flat_shift`: `flat/memory.h:87` moves overlapping objects in ascending order also when they go up. With two or more of
   them between source and destination the first overwrites the next. The B-tree
   has its own `move_backward` and is right; trivial elements use `memmove` and are right.

All three were reproduced with the library itself. More of the same kind was found while modelling; the first four
have a `.cfg` to see them by:
 * `FlatErase.cfg`: in the moves of `flat_shift` `move_uninitialized` destroys the object it has emptied, which is where
   `move_construct` constructs first, destroying it again (`flat/memory.h:38` and `:45`). Two objects behind an erased one
   suffice; `flat.cpp:124-127` erases with up to nine behind. The elements that are left are the right ones. Reproduced with
   the library as well. `FaultsOfOverlap`, in the run `flat_set`, says exactly when it happens.
 * `SetReinsert.cfg`: an element inserted again while present has one dot or two at different replicas,
   depending on what they merged when; an erase covers the dots of its own replica only.
 * `SetUncausal.cfg`: an insert merged after another replica's erase of it brings the element back,
   since merging values does not consult the counters on record.
 * `SetCounters.cfg`: a state can keep more than one counter of a replica, against the comment at
   `dot_kernel.h:319`, because `counters_collapse` stops at the first gap.
 * Map: a key erased at one replica while the nested set changes at another stays at both, with different
   elements; in a nested set made anew dots are taken for those of the old one, so that erasing 2 from
   {1, 2, 5} leaves {2, 5}.
 * `flat/vector.h:269` compares against the wrong bound: a `vector< char, allocator, unsigned char >` of 200 elements cannot
   grow to 201, although `max_size` is 255.
 * `fixed_vector.h:295`: inserting a range of trivial elements in the middle moves too many. `container.h` only inserts at an end,
   which the model does too.

`CrdtSetCausal` therefore claims convergence for the set under all three disciplines, and `CrdtValueMv`,
whose `set` re-records all it replaces, with buffering too.

## 4. What is proved

For every finite set of replicas, of keys and of elements, all bounds, all values of the three
disciplines and every set of uses of a map (`ConstantsAssumption`, `MapAssumption`); for leaves of any
size that hold any pairs (`SplitAssumption`); and for chains of any length, buffers of any size at any
addresses that do not overlap, and all lengths and alignments (`BufferAssumption`):

| Theorem | Statement |
|---|---|
| `DotKernelProofs!MergeWithin`, `MergeLinked`, `MergeAgain` | what a merge, and a second one, can bring about |
| `CrdtSetProofs!TypeCorrect` | `Spec => []TypeOK` |
| `CrdtSetProofs!DotsOwned` | `Spec => []DotOwnership` |
| `CrdtSetProofs!NextDotsFresh` | `Spec => []NextDotFresh` |
| `CrdtSetProofs!LinksExact` | `Spec => []LinkIntegrity` |
| `CrdtSetProofs!HooksWithin` | `Spec => []HookWithinState` |
| `CrdtSetProofs!UpdatesLocal` | `Spec => LocalSemantics` |
| `CrdtSetProofs!RepeatsHarmless` | `Spec => RepeatedDelivery` |
| `CrdtSetProofs!InsertsKept` | `Spec => []NoLostInsert` |
| `CrdtSetCausalProofs!SetIsORSet` | `Disciplined` implies `CausalSpec => ImplementsORSet`: the refinement |
| `CrdtSetCausalProofs!SameUpdatesSameDots` | likewise `CausalSpec => []SameSeenSameDots` |
| `CrdtSetCausalProofs!DeliveredConverge` | likewise `CausalSpec => []Converged` |
| `CrdtValueMvProofs!RegisterIsORSet` | `Causal` implies `MvSpec => ImplementsRegister`: the refinement |
| `CrdtValueMvProofs!WritesReplace`, `OneValueEach` | likewise `MvSpec => SetReplaces`, `MvSpec => []OneValuePerReplica` |
| `CrdtMapProofs!TypeCorrect` | `Spec => []TypeOK` |
| `CrdtMapProofs!KeysAreSet` | `Spec => KeysAreASet`: the refinement |
| `CrdtMapProofs!NothingStranded` | `Spec => []NoChangeStranded` |
| `CrdtMapProofs!ChangesWin` | `Spec => ChangeWins` |
| `CrdtMapNestedProofs!NestedIsSound` | `Spec => []NestedSound` |
| `CrdtMapNestedProofs!ContentIsStdMap` | `Spec => ContentSemantics` |
| `CrdtMapNestedProofs!ReadersRead` | `Spec => [](Tracked(use) => ReadsTheWriter)` |
| `CrdtMapNestedProofs!MapsConverge` | `Spec => [](TwoReplicas => Converged)` |
| `FixedSplitVectorProofs!KeysInStep` | `Spec => []InStep` |
| `FixedSplitVectorProofs!PairsMoveInOrder` | `Spec => OrderKept` |
| `FixedSplitVectorProofs!PairsChangeSingly` | `Spec => OneChange` |
| `BufferAllocatorProofs!TypeCorrect` | `Spec => []TypeOK`: no count drops below 0 |
| `BufferAllocatorProofs!DisjointBlocks` | `Spec => []BlocksDisjoint` |
| `BufferAllocatorProofs!BlocksReturnHome` | `Spec => []ReturnsHome` |
| `BufferAllocatorProofs!ExactCount` | `Spec => []AllocatedExact` |
| `BufferAllocatorProofs!ReusableBuffers` | `Spec => []Reusable` |

`Disciplined` is all three disciplines: `Eager`, `FreshInserts` and `Causal`. Each of these modules also states its inductive invariant as a theorem (`Invariant`, `LinkInvariant`,
`HistoryDecides`, `LastWritesStand`, `MapInvariant`).

**Dots (`CrdtSetProofs`).** The properties are not inductive: that the next dot is new depends on
the counters on record, which merges replace and collapse. The invariant is `IInv`: the
type; every kernel, those in transit included, holds issued counters only and under a key the dots issued for that
key (`KernelsOwned`); and a state has its own replica's last counter on record (`TopRecorded`).
`CountersMergeTop` is the heart: neither replacement nor collapse drops the largest
counter. `MergeWithin` carries `KernelsOwned` through merges, and `NextCounterIsSuccessor`
turns `TopRecorded` into freshness.

**Links (`CrdtSetProofs`).** `MergeLinked` says a merge keeps links exact *provided* no dot is
collapsed away in the very merge that brings it (`Stays`): otherwise it is linked and not there,
and a later counter would lead `merge_valueless_clear` to an element that may be gone. So one
has to show that this never happens, and `LInv` says why: an
extracted delta holds dots of its own replica only, newer than all that the earlier deltas cover,
hence newer than all its receiver has; and within an element they do not start with a run of
consecutive counters (`HeadedIn`), so that the collapse, which starts at the low end, leaves them
alone (`CountersMergeFresh`). That they do not start with a run goes back to the hook: its dots are among those
of the state, whose collapse has seen them all, and the first one is not continued there
(`CountersMergeNext`). A remote erase cannot take a dot the hook still holds, because nobody else
has it (counters in transit are covered by what was extracted). `LInv` was checked with TLC on the
instance of `set_any_use` before it was proved.

**Content in every use (`CrdtSetProofs`).** With links exact, what a step does to the elements is what
it does to their dots. `UpdatesLocal`: an insert leaves the others' dots alone, an erase takes all dots of
its key and none of another. `InsertsKept` needs an invariant over what is on its way: the last insert
of a key is, dot and all, in the hook or in a delta that holds everything up to some counter (`Holds`), and no
counter that deletes is recorded for it there (`Spares`) unless an erase has covered it. In-place
replacement and collapse spare it because it is the largest dot of its replica at that key.
`RepeatsHarmless` is `MergeAgain` with the fact that a delta's dots are newer than its receiver's.

**The refinement of `ORSet` (`CrdtSetCausalProofs`).** Under the three disciplines a delta is one update, and the
history decides the dots: a replica holds exactly the dots of those adds that have reached it and
that no remove which reached it had seen (`HistoryDecides`). So replicas with the same
updates have the same dots, and what a reader sees is what `ORSet` computes. Causal delivery is what makes a remove
arrive after the adds it saw; extraction of each update is what keeps the hook from losing a counter
(which it does in `set_buffered`); fresh inserts are what gives an element one dot of a replica at most.

**The register (`CrdtValueMvProofs`).** Here buffering is allowed. Of every replica only the last write that was applied
can stand, and it does unless an applied write had observed it. A delta carries for each replica the last
write it observed, and the last one suffices, because `set` re-records all that it replaces. Whether an observed write
is covered by a delta's deletions is decided by what its writer had applied, and causal delivery carries that over.

**The map (`CrdtMapProofs`).** The outer kernel of `MapMerge` depends on outer kernels alone, and each
action of the map maps to one of `CrdtSet`: `map::insert` and every nested update to an insert, an
extraction to an extraction, because a map's hook with an empty outer kernel is empty altogether
(`HookShaped`). So the invariant `LInv` of the set holds for the keys, with all theorems about it.
`NothingStranded` then needs that a key with something in its nested hook is in the map's hook (`PendingHooked`): an
erase or a clear takes the nested hook away with the key, no merge takes a key out of the hook that it leaves
in the state (`EraseKeeps`), and what is in the hook is in the state (`HookInState`). `ChangesWin`
is the same fact for what arrives: a delta's dots are newer than those of its receiver and stay.
For `TypeCorrect` the type alone is not inductive, because the next nested dot is the maximum of a set of counters that could be
infinite: the invariant bounds all nested counters by a number that each step may raise (`TypedUpTo`).

**Nested containers (`CrdtMapNestedProofs`).** A merge hands the nested delta of a key to the nested container there,
and whether that is sound depends on where both come from: after an erase the new container numbers its dots from
1 again. `NestedSound` and `ContentSemantics` are claimed where this cannot go wrong, `DotsNotReused`, and its two
halves have different reasons; the invariant `NestedInv` is `MInv` (the outer level), `Shaped` (hooks and
deltas of a container), a conjunct for each, and one for `Converged`.
 * `StayInv`, where keys stay. Nothing is then deleted from an outer kernel (`AInv`: deltas only add), so all
   containers at a key, in states, hooks and deltas, are copies of one (`Shared`): the dots issued at a replica are numbered,
   delta i of it holds those from where delta i - 1 ended, and a replica has on record no dot of another that was not delivered.
   Unlike a delta of the set, a nested delta is of the kind of a state and collapses its own counters, so that a dot which
   arrives stays (`Stays`) has to be shown for it anew.
 * `OneInv`, where one replica writes and extracts each update. A reader's map is the replay of the first i deltas,
   and its container at a key `Follows` the writer's. When the writer makes a container anew, the numbering starts over,
   but the reader has dropped its own by the delta that precedes, for deltas arrive in order.

For `ReadsTheWriter` the two containers must also hold the same dots, one for an element (`Mirrors`). That is so under `Tracked`:
one writer who extracts each update and inserts what is absent only, no `set.clear`, no `value_mv.set`. Those are the uses of
`MCCrdtMap` in which the run checks the property; `MapOverwritten.cfg` shows that `value_mv.set` breaks it (section 3).
`StayInv` and `OneInv` speak of numberings of dots and of replays, which TLC cannot enumerate; TLC checks the properties themselves.

 * `PairInv`, for `Converged`, is about two replicas that follow `OneByOne`. The keys of a replica are those in its own hook
   and those that some merged delta brought (`ArrivedInv`), since no delta deletes one. Of a nested container more has
   to be said, because elements are erased and inserted again (`Paired`): a replica has exactly the dots that some change it
   knows of gave and none deleted (`HasWhatItKnows`), where the changes are the deltas sent and the one in the
   hooks (`Outgoing`). That a merge neither replaces nor collapses a dot meanwhile follows from three facts about the changes: each
   dot is given once (`OnceOnly`), an element is given a dot again only when the one before was deleted (`Vacated`), and who
   deletes a dot has been given it (`SeenFirst`). The last one is where there have to be two replicas: a replica that gets a delete from
   the other one has got, or made, what was deleted. With a third replica the delete can come first, and the
   deleted element stays there: TLC finds that after eight steps. `Paired` and `ArrivedInv` hold dots only, and TLC checked
   them before they were proved.

**Leaves (`FixedSplitVectorProofs`).** A leaf's elements move in loops, one object at a time, partly
into memory where objects live and partly into memory where there are none, and there is a second version of
everything for bytes. What a loop does for every number of rounds is shown by writing down the slots
after i rounds and that one round leads from those after i - 1 to those after i (`SameSteps`; this is why
`Loop` is a recursive function). `MoveBackward` never overwrites what it has yet to move and constructs
exactly where nothing lives; `Copy` and the erasing loop likewise. So a vector that `Holds` a list s of elements
(they lie in the first `Len(s)` slots, behind them there is nothing, no fault) holds `InsertAt(s, i + 1, x)` after
`Emplaced`, `u \o s` or `s \o u` after `Inserted`, and so on, bytes or objects alike, and the steps of `container.h` are
steps on lists. The invariant is that each leaf `Keeps` a list of keys and a list of values of the same
length; `InStep` does not suffice as the invariant, because it leaves out the slots' type. A range is inserted only at an
end of a vector, as `container.h` does: elsewhere the code for bytes moves too many (section 3).

**Buffers (`BufferAllocatorProofs`).** That blocks stay disjoint rests on the count: a buffer starts over when
its count is 0, so the count must be exact, and it is only exact if every block goes back to the buffer
it came from, which in turn holds because blocks lie in their own buffer. The invariant is
these together with `Packed` (what callers hold of a buffer is below its bump pointer) and the finiteness
of what they hold. `BlockAdded` and `BlockRemoved` say how the number of bytes held changes, because a
block is disjoint from all others; `Home` derives `ReturnsHome` from the rest.

Where a fact about all numbers or all finite sets needs induction (`LeastCounter`, `Largest`, `Least`), the proof takes a
minimal counterexample from the well-foundedness of `<` and of strict inclusion.

**Only model-checked**: the properties of the tree (its operators are recursive, which puts them out of the prover's
reach) and of the flat set, whose loops are those of `Slots` but in other ranges; and liveness, which is out of reach of the prover together with `ENABLED`.

## 5. What is not modelled, and why

 * Layout of the metadata back-ends: the kernel sees sets and maps. The B-tree and the
   flat containers beneath are components of their own; that the metadata goes through them is composition
   by their abstract specification, `SortedSet`.
 * Maps in maps, and maps of three replicas: two levels of kernel and hook and two writers already show the recursion and
   concurrency; a third makes the state space too large.
 * Causal delivery is not a discipline of `CrdtMap`: with two replicas it is hardly different from order.
 * Move construction, `swap` and assignment of containers and the parent pointer in the nested allocators: they
   relocate state; the model has no addresses for containers. The hazard list names it.
 * `flat::map`, which is `flat::set` with a pair for an element, and the operations of `flat/vector.h` and `flat/set.h`
   that nothing in the library calls (`update`, public `reserve`).
 * `btree::map` as a whole: its container is the one of `BTree`, its leaves those of `FixedSplitVector`.
 * Overflow of the 64-bit counters: 2^64 inserts are out of the program's reach, so the models count in `Nat`.
 * Allocation failure inside a merge or a split: nothing in the code recovers from it. (That the buffer
   allocator throws and stays as it was is modelled.)
 * Tests, benchmarks, build files.

## 6. Plan

What is left to prove is `FlatSet`: `MemoryExact` and `SortedUntilTorn`, by lemmas for
`Move` like those for `MoveBackward`; lookups need that the binary search ends at the right place.
