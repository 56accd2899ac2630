-------------------------------- MODULE BTree --------------------------------
(***************************************************************************)
(* btree/detail/container.h: a B-tree whose keys live in the leaves (value *)
(* nodes).  Leaves are chained; every node points to its parent.  A node   *)
(* is a record in the heap `tree.node`, an id (its address) names it.      *)
(*                                                                         *)
(* An operation changes many fields, in an order that later steps of it    *)
(* depend on, and recurses up the tree, so the operators below take a tree *)
(* and return the tree after them.  `fault` is set when the code would     *)
(* abort, overrun a node, or cast a node to the wrong type.  Positions     *)
(* count from 1 where the code counts from 0.                              *)
(***************************************************************************)
EXTENDS Integers, SequencesExt

CONSTANTS
    N,          \* half of a node: a leaf holds N .. 2N keys, an internal node N-1 .. 2N-1
    Keys,
    Uses,       \* the ways in which callers use a tree
    End,        \* what the iterator end() points at
    Dangling    \* what an iterator that is neither end() nor at a key points at

\* A use u: the keys it erases and looks up, those it inserts one by one, the sequences for
\* insert(begin, end), and, to bound the instance, the size below which it erases no key.
UseOK(u) ==
    /\ DOMAIN u = {"keys", "inserts", "batches", "floor"}
    /\ u.keys \subseteq Keys
    /\ u.inserts \subseteq u.keys
    /\ u.batches \subseteq Seq(u.keys)
    /\ u.floor \in Nat

ASSUME BTreeAssumption ==
    /\ N \in Nat /\ N >= 2
    /\ Keys \subseteq Int
    /\ \A u \in Uses : UseOK(u)
    /\ End \notin Keys /\ Dangling \notin Keys /\ End # Dangling

VARIABLES
    use,        \* the caller's use, fixed from the start
    tree,       \* the container
    call,       \* the last call
    answer      \* and what it returned, as in SortedSet

vars == <<use, tree, call, answer>>

Nil == 0        \* nullptr

EmptyNode(leaf) ==
    [leaf |-> leaf, keys |-> <<>>, children |-> <<>>,
     parent |-> Nil, left |-> Nil, right |-> Nil]

EmptyTree ==
    [node |-> <<>>, root |-> Nil, first |-> Nil, last |-> Nil,
     size |-> 0, depth |-> 0, fault |-> FALSE]

-----------------------------------------------------------------------------
(* Nodes *)

\* The address the next allocation returns: the lowest free one.
NewId(t) == Min((1..Cardinality(DOMAIN t.node) + 1) \ DOMAIN t.node)

Allocate(t, leaf) == [t EXCEPT !.node = (NewId(t) :> EmptyNode(leaf)) @@ @]

Deallocate(t, ns) == [t EXCEPT !.node = Restrict(@, DOMAIN @ \ ns)]

Capacity(t, n) == IF t.node[n].leaf THEN 2 * N ELSE 2 * N - 1

Full(t, n) == Len(t.node[n].keys) = Capacity(t, n)

\* The position of the first key that is not below k.
KeyIndex(keys, k) == Min({i \in DOMAIN keys : ~(keys[i] < k)} \cup {Len(keys) + 1})

\* get_index: n's position among its parent's children.
NodeIndex(t, n) ==
    IF t.node[n].parent = Nil
    THEN 1
    ELSE LET children == t.node[t.node[n].parent].children
         IN  Min({i \in DOMAIN children : children[i] = n} \cup {Len(children) + 1})

\* get_left and get_right under the same parent, for the node at position i.
LeftSibling(t, n, i) ==
    IF i > 1 THEN t.node[t.node[n].parent].children[i - 1] ELSE Nil

RightSibling(t, n, i) ==
    LET children == t.node[t.node[n].parent].children
    IN  IF i + 1 <= Len(children) THEN children[i + 1] ELSE Nil

\* set_parent for several nodes.  The code is told whether they are value nodes
\* and casts them to that type, where the parent pointer has another place.
SetParent(t, leaf, ns, p) ==
    [t EXCEPT !.node = [n \in DOMAIN @ |-> IF n \in ns THEN [@[n] EXCEPT !.parent = p]
                                                       ELSE @[n]],
              !.fault = @ \/ \E n \in ns : t.node[n].leaf # leaf]

\* The nodes of each level, from left to right; the last level is the leaves.
Levels(t) ==
    LET level[d \in 1..t.depth] ==
            IF d = 1 THEN <<t.root>>
            ELSE FlattenSeq([i \in DOMAIN level[d - 1] |-> t.node[level[d - 1][i]].children])
    IN  level

-----------------------------------------------------------------------------
(* Search and iteration *)

\* Mutant of ChildIndex: a key equal to the separator is sought on its left.
ChildIndexLeft(keys, k) == KeyIndex(keys, k)

\* Where find_value_node descends from an internal node.
ChildIndex(keys, k) ==
    LET i == KeyIndex(keys, k)
    IN  IF i <= Len(keys) /\ keys[i] = k THEN i + 1 ELSE i

\* The leaf for k and its position in its parent.
FindValueNode(t, k) ==
    LET path[d \in 1..t.depth] ==
            IF d = 1 THEN [node |-> t.root, index |-> 1]
            ELSE LET up == t.node[path[d - 1].node]
                     i  == ChildIndex(up.keys, k)
                 IN  [node |-> up.children[i], index |-> i]
    IN  path[t.depth]

Iterator(n, i) == [node |-> n, index |-> i]

BeginOf(t) == Iterator(t.first, 1)

EndOf(t) == Iterator(t.last, IF t.last = Nil THEN 1 ELSE Len(t.node[t.last].keys) + 1)

\* operator++: past a leaf's last key it goes on to the next leaf, if there is one.
Increment(t, it) ==
    LET n == t.node[it.node]
    IN  IF it.index = Len(n.keys) /\ n.right # Nil THEN Iterator(n.right, 1)
                                                   ELSE Iterator(it.node, it.index + 1)

Decrement(t, it) ==
    LET left == t.node[it.node].left
    IN  IF it.index = 1 THEN Iterator(left, Len(t.node[left].keys))
                        ELSE Iterator(it.node, it.index - 1)

\* What an iterator points at.
KeyAt(t, it) ==
    IF it = EndOf(t) THEN End
    ELSE IF it.node \in DOMAIN t.node /\ it.index \in DOMAIN t.node[it.node].keys
         THEN t.node[it.node].keys[it.index]
         ELSE Dangling

Find(t, k) ==
    IF t.root = Nil THEN EndOf(t)
    ELSE LET n    == FindValueNode(t, k).node
             keys == t.node[n].keys
             i    == KeyIndex(keys, k)
         IN  IF i <= Len(keys) /\ keys[i] = k THEN Iterator(n, i) ELSE EndOf(t)

LowerBound(t, k) ==
    IF t.root = Nil THEN EndOf(t)
    ELSE LET n    == FindValueNode(t, k).node
             i    == KeyIndex(t.node[n].keys, k)
         IN  IF i <= Len(t.node[n].keys) THEN Iterator(n, i)
             ELSE IF t.node[n].right # Nil THEN Iterator(t.node[n].right, 1)
             ELSE EndOf(t)

-----------------------------------------------------------------------------
(* Insertion *)

\* What the steps return: the tree, the node they ended in, a position there.
Reached(t, n) == [tree |-> t, node |-> n]

Inserted(t, n, i, done) == [tree |-> t, at |-> KeyAt(t, Iterator(n, i)), done |-> done]

\* insert(n, kindex, value)
InsertAtIndex(t, n, i, k) ==
    Inserted([t EXCEPT !.fault = @ \/ Full(t, n),
                       !.node[n].keys = InsertAt(@, i, k),
                       !.size = @ + 1],
             n, i, TRUE)

\* insert(compare, n, value)
InsertInNode(t, n, k) ==
    LET keys == t.node[n].keys
        i    == KeyIndex(keys, k)
    IN  IF i <= Len(keys) /\ keys[i] = k THEN Inserted(t, n, i, FALSE)
                                         ELSE InsertAtIndex(t, n, i, k)

LinkNode(t, l, r) ==
    LET z == t.node[l].right
    IN  [t EXCEPT !.node = [n \in DOMAIN @ |->
            CASE n = l -> [@[n] EXCEPT !.right = r]
              [] n = r -> [@[n] EXCEPT !.left = l, !.right = z]
              [] n = z -> [@[n] EXCEPT !.left = r]
              [] OTHER -> @[n]]]

\* split_node of a leaf: the upper half moves to a new right neighbour, unless k is
\* appended at the right edge, when the new leaf stays empty for it.
SplitValueNode(t, n, k) ==
    LET keys   == t.node[n].keys
        r      == NewId(t)
        append == t.node[n].right = Nil /\ Last(keys) < k
        moved  == IF append THEN <<>> ELSE SubSeq(keys, N + 1, Len(keys))
        kept   == IF append THEN keys ELSE SubSeq(keys, 1, N)
        u      == [Allocate(t, TRUE) EXCEPT !.node[n].keys = kept, !.node[r].keys = moved,
                                            !.fault = @ \/ ~Full(t, n)]
    IN  [tree |-> LinkNode(u, n, r), node |-> r, key |-> IF append THEN k ELSE Head(moved)]

\* Mutant of SplitInternalNode: the children that move keep their parent.
SplitInternalNodeOrphans(t, n, depth) ==
    LET old   == t.node[n]
        r     == NewId(t)
    IN  [tree |-> [Allocate(t, FALSE) EXCEPT
                      !.node[r].children = SubSeq(old.children, N + 1, Len(old.children)),
                      !.node[r].keys = SubSeq(old.keys, N + 1, Len(old.keys)),
                      !.node[n].children = SubSeq(@, 1, N),
                      !.node[n].keys = SubSeq(@, 1, N - 1)],
         node |-> r, key |-> old.keys[N]]

\* split_node of an internal node: the middle key goes to the parent.
SplitInternalNode(t, n, depth) ==
    LET old   == t.node[n]
        r     == NewId(t)
        moved == SubSeq(old.children, N + 1, Len(old.children))
        u     == SetParent(Allocate(t, FALSE), t.depth = depth + 1, ToSet(moved), r)
    IN  [tree |-> [u EXCEPT !.node[r].children = moved,
                            !.node[r].keys = SubSeq(old.keys, N + 1, Len(old.keys)),
                            !.node[n].children = SubSeq(@, 1, N),
                            !.node[n].keys = SubSeq(@, 1, N - 1),
                            !.fault = @ \/ ~Full(t, n)],
         node |-> r, key |-> old.keys[N]]

SplitNode(t, n, depth, k) ==
    IF t.node[n].leaf THEN SplitValueNode(t, n, k) ELSE SplitInternalNode(t, n, depth)

\* The half that k belongs to.
HalfFor(k, n, split) == IF ~(k < split.key) THEN split.node ELSE n

\* rebalance_insert of a node without parent: it gets a new root above it.
SplitRoot(t, n, depth, k) ==
    LET root  == NewId(t)
        split == SplitNode(Allocate(t, FALSE), n, depth, k)
        u     == [split.tree EXCEPT !.node[root].children = <<n, split.node>>,
                                    !.node[root].keys = <<split.key>>,
                                    !.node[n].parent = root,
                                    !.node[split.node].parent = root,
                                    !.first = IF t.root = t.last THEN n ELSE @,
                                    !.last = IF t.root = t.last THEN split.node ELSE @,
                                    !.root = root,
                                    !.depth = @ + 1]
    IN  Reached(u, HalfFor(k, n, split))

\* Mutant of DepthCheck: the depth the caller passed is used on.
DepthUnchecked(depth, before, after, change) == depth

\* The local depth is corrected when the tree became deeper or shallower (depth_check).
DepthCheck(depth, before, after, change) ==
    IF before.depth # after.depth THEN depth + change ELSE depth

\* rebalance_insert of a full node, child i of a parent with room
SplitUnder(t, n, i, depth, k) ==
    LET split == SplitNode(t, n, depth, k)
        p     == t.node[n].parent
        u     == [split.tree EXCEPT !.node[p].children = InsertAt(@, i + 1, split.node),
                                    !.node[p].keys = InsertAt(@, i, split.key),
                                    !.node[split.node].parent = p,
                                    !.last = IF t.node[n].leaf /\ @ = n THEN split.node ELSE @,
                                    !.fault = @ \/ Full(t, p)]
    IN  Reached(u, HalfFor(k, n, split))

\* The same, after the parent was split: n may have a new one.
SplitUnderNew(before, t, n, depth, k) ==
    SplitUnder(t, n, NodeIndex(t, n), DepthCheck(depth, before, t, 1), k)

\* rebalance_insert of a full node: room is made in its parent first.  (The key given for the
\* parent refers into the node that is split.  It selects the half that is returned, and the
\* caller drops what is returned, so that its value does not matter.)
RECURSIVE RebalanceInsert(_, _, _, _), SplitChild(_, _, _, _, _)

SplitChild(t, n, i, depth, k) ==
    LET up   == t.node[n].parent
        room == RebalanceInsert(t, up, depth - 1, t.node[up].keys[N + 1])
    IN  IF Full(t, up) THEN SplitUnderNew(t, room.tree, n, depth, k)
                       ELSE SplitUnder(t, n, i, depth, k)

RebalanceInsert(t, n, depth, k) ==
    IF t.node[n].parent = Nil THEN SplitRoot(t, n, depth, k)
                              ELSE SplitChild(t, n, NodeIndex(t, n), depth, k)

\* b is the leaf with room that was reached.
InsertInReached(b, k) == InsertInNode(b.tree, b.node, k)

\* emplace: a full leaf is split before it is known whether k is there already.
Emplace(t, k) ==
    IF t.root = Nil
    THEN LET r == NewId(t)
         IN  InsertAtIndex([Allocate(t, TRUE) EXCEPT !.root = r, !.first = r, !.last = r,
                                                     !.depth = 1], r, 1, k)
    ELSE LET f == FindValueNode(t, k)
         IN  InsertInReached(IF ~Full(t, f.node) THEN Reached(t, f.node)
                             ELSE IF t.node[f.node].parent # Nil
                             THEN SplitChild(t, f.node, f.index, t.depth, k)
                             ELSE RebalanceInsert(t, f.node, t.depth, k), k)

\* emplace_hint with the hint end(): k is appended without a search if it is the greatest.
EmplaceAtEnd(t, k) ==
    IF t.size = 0 \/ ~(Last(t.node[t.last].keys) < k) THEN Emplace(t, k)
    ELSE IF ~Full(t, t.last)
         THEN InsertAtIndex(t, t.last, Len(t.node[t.last].keys) + 1, k)
         ELSE InsertInReached(RebalanceInsert(t, t.last, t.depth, k), k)

\* insert(begin, end)
EmplaceAll(t, s) == FoldLeft(LAMBDA u, k : Emplace(u, k).tree, t, s)

-----------------------------------------------------------------------------
(* Removal *)

\* share_keys between siblings.  i is the position of the key between the two in their parent.

\* direction::right, leaves: the last key of the left one moves.
KeyFromLeft(t, n, left, i) ==
    LET k == Last(t.node[left].keys)
    IN  [t EXCEPT !.node[n].keys = <<k>> \o @,
                  !.node[left].keys = Front(@),
                  !.node[t.node[n].parent].keys[i] = k]

\* direction::right, internal nodes: the last child, and a key through the parent.
ChildFromLeft(t, depth, n, left, i) ==
    LET p == t.node[n].parent
        c == Last(t.node[left].children)
    IN  [SetParent(t, t.depth = depth + 1, {c}, n)
            EXCEPT !.node[n].children = <<c>> \o @,
                   !.node[n].keys = <<t.node[p].keys[i]>> \o @,
                   !.node[left].children = Front(@),
                   !.node[left].keys = Front(@),
                   !.node[p].keys[i] = Last(t.node[left].keys)]

ShareFromLeft(t, depth, n, left, i) ==
    IF t.node[n].leaf THEN KeyFromLeft(t, n, left, i) ELSE ChildFromLeft(t, depth, n, left, i)

\* Mutant of KeyFromRight: the key that moves becomes the separator.
KeyFromRightStale(t, n, right, i) ==
    LET keys == t.node[right].keys
    IN  [t EXCEPT !.node[n].keys = Append(@, Head(keys)),
                  !.node[right].keys = Tail(@),
                  !.node[t.node[n].parent].keys[i] = Head(keys)]

\* direction::left, leaves.  The last leaf may give its only key; it is then removed by the
\* caller, and the key between the two left as it is.
KeyFromRight(t, n, right, i) ==
    LET keys == t.node[right].keys
    IN  [t EXCEPT !.node[n].keys = Append(@, Head(keys)),
                  !.node[right].keys = Tail(@),
                  !.node[t.node[n].parent].keys[i] = IF Len(keys) > 1 THEN keys[2] ELSE @]

\* direction::left, internal nodes
ChildFromRight(t, depth, n, right, i) ==
    LET p == t.node[n].parent
        c == Head(t.node[right].children)
    IN  [SetParent(t, t.depth = depth + 1, {c}, n)
            EXCEPT !.node[n].children = Append(@, c),
                   !.node[n].keys = Append(@, t.node[p].keys[i]),
                   !.node[right].children = Tail(@),
                   !.node[right].keys = Tail(@),
                   !.node[p].keys[i] = Head(t.node[right].keys)]

ShareFromRight(t, depth, n, right, i) ==
    IF t.node[n].leaf THEN KeyFromRight(t, n, right, i) ELSE ChildFromRight(t, depth, n, right, i)

\* Half full, below which a node is rebalanced.
MinKeys(t, n) == IF t.node[n].leaf THEN N ELSE N - 1

\* The condition of share_keys.
CanShare(t, target, source) ==
    \/ Len(t.node[source].keys) > MinKeys(t, source) /\ ~Full(t, target)
    \/ source = t.last /\ t.node[source].keys # <<>>

\* Mutant of UnlinkNode: the right neighbour keeps its left pointer.
UnlinkNodeOneWay(t, n) ==
    LET l == t.node[n].left
    IN  [t EXCEPT !.node = [m \in DOMAIN @ |->
            IF m = l THEN [@[m] EXCEPT !.right = t.node[n].right] ELSE @[m]]]

UnlinkNode(t, n) ==
    LET l == t.node[n].left
        r == t.node[n].right
    IN  [t EXCEPT !.node = [m \in DOMAIN @ |->
            CASE m = l -> [@[m] EXCEPT !.right = r]
              [] m = r -> [@[m] EXCEPT !.left = l]
              [] OTHER -> @[m]]]

\* merge_keys: all of n goes to its left neighbour's end or its right neighbour's front.

\* Leaves: n leaves the chain.
LeafIntoLeft(t, left, n) ==
    [UnlinkNode(t, n) EXCEPT !.last = IF @ = n THEN left ELSE @,
                             !.node[left].keys = @ \o t.node[n].keys]

LeafIntoRight(t, right, n) ==
    [UnlinkNode(t, n) EXCEPT !.first = IF @ = n THEN right ELSE @,
                             !.node[right].keys = t.node[n].keys \o @]

\* Mutant of NodeIntoLeft: the separator does not come along.
NodeIntoLeftBare(t, depth, left, n, i) ==
    [SetParent(t, t.depth = depth + 1, ToSet(t.node[n].children), left)
        EXCEPT !.node[left].keys = @ \o t.node[n].keys,
               !.node[left].children = @ \o t.node[n].children]

\* Internal nodes: the key that separated them comes along.
NodeIntoLeft(t, depth, left, n, i) ==
    LET source == t.node[n]
    IN  [SetParent(t, t.depth = depth + 1, ToSet(source.children), left)
            EXCEPT !.node[left].keys = Append(@, t.node[source.parent].keys[i]) \o source.keys,
                   !.node[left].children = @ \o source.children]

NodeIntoRight(t, depth, right, n, i) ==
    LET source == t.node[n]
    IN  [SetParent(t, t.depth = depth + 1, ToSet(source.children), right)
            EXCEPT !.node[right].keys = Append(source.keys, t.node[source.parent].keys[i]) \o @,
                   !.node[right].children = source.children \o @]

MergeIntoLeft(t, depth, left, n, i) ==
    IF t.node[n].leaf THEN LeafIntoLeft(t, left, n) ELSE NodeIntoLeft(t, depth, left, n, i)

MergeIntoRight(t, depth, right, n, i) ==
    IF t.node[n].leaf THEN LeafIntoRight(t, right, n) ELSE NodeIntoRight(t, depth, right, n, i)

\* remove_node, then deallocate_node of n.  A root without keys gives way to its only
\* child.
RemoveNode(t, n, ci, ki) ==
    LET p == t.node[n].parent
        u == [t EXCEPT !.node[p].children = RemoveAt(@, ci), !.node[p].keys = RemoveAt(@, ki)]
        c == Head(u.node[p].children)
    IN  IF u.node[p].keys # <<>> THEN Deallocate(u, {n})
        ELSE Deallocate(SetParent([u EXCEPT !.root = c, !.depth = @ - 1],
                                  t.depth = 2, {c}, Nil),
                        {n, t.root})

\* The right neighbour's first key, and the last leaf if that was its only one.
BorrowRight(u, n, right, i) ==
    IF u.node[right].keys = <<>>
    THEN RemoveNode([u EXCEPT !.last = n, !.node[n].right = Nil], right, i + 1, i)
    ELSE u

\* rebalance_erase of n: it borrows a key from a neighbour or is merged with it.  std::abort
\* when neither is possible.
BorrowOrMerge(t, n, depth) ==
    LET i     == NodeIndex(t, n)
        left  == LeftSibling(t, n, i)
        right == RightSibling(t, n, i)
        Mergeable(m) == m # Nil /\ Len(t.node[m].keys) = MinKeys(t, m)
    IN  IF left # Nil /\ CanShare(t, n, left)
        THEN Reached(ShareFromLeft(t, depth, n, left, i - 1), n)
        ELSE IF right # Nil /\ CanShare(t, n, right)
        THEN Reached(BorrowRight(ShareFromRight(t, depth, n, right, i), n, right, i), n)
        ELSE IF Mergeable(left)
        THEN Reached(RemoveNode(MergeIntoLeft(t, depth, left, n, i - 1), n, i, i - 1), left)
        ELSE IF Mergeable(right)
        THEN Reached(RemoveNode(MergeIntoRight(t, depth, right, n, i), n, i, i), right)
        ELSE Reached([t EXCEPT !.fault = TRUE], n)

\* The same, after the parent was rebalanced.
BorrowOrMergeUnderNew(before, t, n, depth) ==
    BorrowOrMerge(t, n, DepthCheck(depth, before, t, -1))

\* rebalance_erase, before a key leaves a node with no key to spare: a merge takes a key from
\* the parent, which is rebalanced first.
RECURSIVE RebalanceErase(_, _, _)

RebalanceErase(t, n, depth) ==
    LET up    == t.node[n].parent
        above == RebalanceErase(t, up, depth - 1)
    IN  IF up = Nil THEN Reached(t, Nil)
        ELSE IF Len(t.node[up].keys) <= N - 1 THEN BorrowOrMergeUnderNew(t, above.tree, n, depth)
        ELSE BorrowOrMerge(t, n, depth)

\* clear: free_node from the root down.
ClearTree(t) ==
    IF t.root = Nil THEN t
    ELSE [Deallocate(t, UNION {ToSet(Levels(t)[d]) : d \in 1..t.depth})
            EXCEPT !.root = Nil, !.first = Nil, !.last = Nil, !.depth = 0, !.size = 0]

\* The iterator erase returns: where the key was, or the next leaf if it was the last.
AfterErase(t, n, i) ==
    IF i = Len(t.node[n].keys) + 1 /\ t.node[n].right # Nil
    THEN Iterator(t.node[n].right, 1)
    ELSE Iterator(n, i)

EraseKey(t, n, i) == [t EXCEPT !.node[n].keys = RemoveAt(@, i), !.size = @ - 1]

Erased(t, it) == [tree |-> t, at |-> KeyAt(t, it), done |-> TRUE]

\* erase of a leaf's key when the leaf has more, or after rebalancing
EraseInNode(t, n, i) == LET u == EraseKey(t, n, i) IN Erased(u, AfterErase(u, n, i))

\* Mutant of EraseInReached: the position from before rebalancing is used.
EraseInReachedStale(b, i, k) == EraseInNode(b.tree, b.node, i)

\* Rebalancing has moved the key k, from position i: it is now in the node b reached.
EraseInReached(b, i, k) ==
    EraseInNode(b.tree, b.node, KeyIndex(b.tree.node[b.node].keys, k))

\* erase(it)
EraseAt(t, n, i) ==
    LET keys == t.node[n].keys
        u    == EraseKey(t, n, i)
        v    == IF u.size = 0 THEN ClearTree(u) ELSE u
    IN  IF t.node[n].parent = Nil
        THEN Erased(v, IF i = Len(keys) THEN EndOf(v) ELSE Iterator(n, i))
        ELSE IF Len(keys) > N
        THEN EraseInNode(t, n, i)
        ELSE EraseInReached(RebalanceErase(t, n, t.depth), i, keys[i])

-----------------------------------------------------------------------------
(* The calls of btree::set *)

Call(c, r) ==
    /\ call' = c /\ tree' = r.tree /\ answer' = [at |-> r.at, done |-> r.done]
    /\ UNCHANGED use

\* A call that returns no iterator.
Done(t, done) == [tree |-> t, at |-> End, done |-> done]

Init ==
    /\ use \in Uses
    /\ tree = EmptyTree /\ call = <<"none">> /\ answer = [at |-> End, done |-> FALSE]

Insert(k) == Call(<<"insert", k>>, Emplace(tree, k))

InsertAtEnd(k) == Call(<<"insert", k>>, EmplaceAtEnd(tree, k))

\* A batch is only inserted into an empty tree, to bound the instance.
InsertRange(s) ==
    /\ tree.size = 0
    /\ Call(<<"range", ToSet(s)>>, Done(EmplaceAll(tree, s), TRUE))

Erase(k) ==
    /\ tree.size >= use.floor
    /\ LET it == Find(tree, k)
       IN  Call(<<"erase", k>>, IF it = EndOf(tree) THEN Done(tree, FALSE)
                                                    ELSE EraseAt(tree, it.node, it.index))

Clear == Call(<<"clear">>, Done(ClearTree(tree), TRUE))

Next ==
    \/ \E k \in use.inserts : Insert(k) \/ InsertAtEnd(k)
    \/ \E k \in use.keys : Erase(k)
    \/ \E s \in use.batches : InsertRange(s)
    \/ Clear

Spec == Init /\ [][Next]_vars

-----------------------------------------------------------------------------
(* Properties *)

\* Every leaf's keys in the order of the tree, from its root.
Contents(t) ==
    IF t.root = Nil THEN <<>>
    ELSE LET leaves == Levels(t)[t.depth]
         IN  FlattenSeq([i \in DOMAIN leaves |-> t.node[leaves[i]].keys])

Node == [leaf : BOOLEAN, keys : Seq(Keys), children : Seq(Nat),
         parent : Nat, left : Nat, right : Nat]

\* The fields have their types: pointers lead to nodes of the heap, or nowhere.
TypeOK ==
    LET ids == DOMAIN tree.node
    IN  /\ \A n \in ids : /\ tree.node[n] \in Node
                          /\ {tree.node[n].parent, tree.node[n].left, tree.node[n].right}
                                 \subseteq ids \cup {Nil}
                          /\ ToSet(tree.node[n].children) \subseteq ids
        /\ {tree.root, tree.first, tree.last} \subseteq ids \cup {Nil}
        /\ tree.size \in Nat /\ tree.depth \in Nat /\ tree.fault \in BOOLEAN

\* verify_node: a node but the root and the last leaf is at least half full, none is
\* overfull, an internal node has a child more than keys; the leaves are those at depth_.
Filled(t, n) ==
    LET size == Len(t.node[n].keys)
    IN  /\ size <= Capacity(t, n)
        /\ n \notin {t.root, t.last} => size >= MinKeys(t, n)
        /\ size >= 1
        /\ ~t.node[n].leaf => Len(t.node[n].children) = size + 1

\* Splits, shares and merges leave a balanced tree: every leaf at depth_, every node
\* within its bounds, whatever the sequence of inserts and erases was.
Balanced ==
    \A d \in 1..tree.depth :
        \A n \in ToSet(Levels(tree)[d]) : Filled(tree, n) /\ (tree.node[n].leaf <=> d = tree.depth)

\* The keys below each child of an internal node.
KeysBelow(t, n, d) ==
    LET level[e \in d..t.depth] ==
            IF e = d THEN {n} ELSE UNION {ToSet(t.node[m].children) : m \in level[e - 1]}
    IN  UNION {ToSet(t.node[m].keys) : m \in level[t.depth]}

\* verify_keys, verify_children, verify_separator: what lies left of a separator is below
\* it, what lies right of it is not.  Erases leave separators that are keys no longer;
\* find_value_node goes by them all the same.
Separated(t, n, d) ==
    \A i \in DOMAIN t.node[n].keys :
        /\ \A k \in KeysBelow(t, t.node[n].children[i], d + 1) : k < t.node[n].keys[i]
        /\ \A k \in KeysBelow(t, t.node[n].children[i + 1], d + 1) : t.node[n].keys[i] <= k

\* The tree is a search tree: keys ascend from leaf to leaf, separators separate.
Ordered ==
    /\ LET all == Contents(tree) IN \A i, j \in DOMAIN all : i < j => all[i] < all[j]
    /\ \A d \in 1..tree.depth - 1 : \A n \in ToSet(Levels(tree)[d]) : Separated(tree, n, d)

PointersRight ==
    IF tree.root = Nil
    THEN tree.first = Nil /\ tree.last = Nil /\ tree.size = 0 /\ tree.depth = 0
    ELSE LET leaves == Levels(tree)[tree.depth]
         IN  /\ tree.node[tree.root].parent = Nil
             /\ \A n \in DOMAIN tree.node : \A c \in ToSet(tree.node[n].children) :
                    tree.node[c].parent = n
             /\ \A i \in DOMAIN leaves :
                    /\ tree.node[leaves[i]].left = IF i = 1 THEN Nil ELSE leaves[i - 1]
                    /\ tree.node[leaves[i]].right = IF i = Len(leaves) THEN Nil ELSE leaves[i + 1]
             /\ tree.first = Head(leaves) /\ tree.last = Last(leaves)
             /\ tree.size = Len(Contents(tree))

\* verify_value_nodes: the pointers that splits and merges patch agree with the tree that
\* the children span.  Parents are right (get_index and the rebalancing rely on them),
\* the chain runs through the leaves in order, first_node_ and last_node_ are its ends,
\* size_ is the number of keys.  No node is lost or freed too early: the allocated nodes are
\* those the tree reaches, after merges, after the root was replaced, after clear.
Linked ==
    /\ DOMAIN tree.node = UNION {ToSet(Levels(tree)[d]) : d \in 1..tree.depth}
    /\ PointersRight

\* The code never gets to std::abort in rebalance_erase (container.h:1345), never inserts into
\* a full node, and never takes a leaf for an internal node: its notion of depth, which is
\* corrected while the tree grows and shrinks under it, is right.
NoFault == ~tree.fault

Iterates ==
    LET all == Contents(tree)
        forth[i \in 1..tree.size + 1] == IF i = 1 THEN BeginOf(tree) ELSE Increment(tree, forth[i - 1])
        back[i \in 1..tree.size + 1] == IF i = 1 THEN EndOf(tree) ELSE Decrement(tree, back[i - 1])
    IN  /\ forth[tree.size + 1] = EndOf(tree)
        /\ back[tree.size + 1] = BeginOf(tree)
        /\ \A i \in 1..tree.size : /\ KeyAt(tree, forth[i]) = all[i]
                                   /\ KeyAt(tree, back[i + 1]) = all[tree.size + 1 - i]

\* Readers see the set of keys.  Lookups, of present and absent keys: find is end() for an
\* absent key, lower_bound crosses to the next leaf where a separator that is a key no longer
\* sent it too far left.  And iterating from begin() to end(), and back, meets every key.
ReadsExact ==
    LET all == ToSet(Contents(tree))
        AtLeast(k) == {l \in all : k <= l}
    IN  /\ Iterates
        /\ \A k \in use.keys :
            /\ KeyAt(tree, Find(tree, k)) = IF k \in all THEN k ELSE End
            /\ KeyAt(tree, LowerBound(tree, k)) = IF AtLeast(k) = {} THEN End ELSE Min(AtLeast(k))

LeafKeys == UNION {ToSet(tree.node[n].keys) : n \in {m \in DOMAIN tree.node : tree.node[m].leaf}}

Sorted == INSTANCE SortedSet WITH
    set <- LeafKeys, Limit <- Cardinality(Keys) + 1,
    Batches <- {ToSet(s) : s \in UNION {u.batches : u \in Uses}}

\* The B-tree is a sorted set: every call changes the keys as SortedSet says, and answers
\* what it says; erase(it) returns the next key's position although rebalancing has moved it.
ImplementsSortedSet == Sorted!Spec
==============================================================================
