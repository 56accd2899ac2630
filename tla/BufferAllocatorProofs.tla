------------------------ MODULE BufferAllocatorProofs ------------------------
(***************************************************************************)
(* Theorems about BufferAllocator, for chains of any length, buffers of    *)
(* any size at any addresses, all block sizes and alignments, whichever    *)
(* allocator is behind the last buffer.                                    *)
(***************************************************************************)
EXTENDS BufferAllocator, FiniteSetTheorems, TLAPS

\* What callers hold of a buffer lies below the address it allocates from next.
Packed ==
  /\ \A b \in Chain : Base[b] <= current[b]
  /\ \A k \in live : k.from # 0 => k.addr + k.len <= current[k.from]

BytesFinite == \A b \in 0..Buffers : IsFiniteSet(LiveBytes(b))

IInv ==
  /\ TypeOK
  /\ BlocksDisjoint
  /\ BytesFinite
  /\ AllocatedExact
  /\ Packed
  /\ Reusable

-----------------------------------------------------------------------------
(* Blocks *)

LEMMA BlockSize ==
  ASSUME NEW k \in Block
  PROVE  /\ IsFiniteSet(BlockBytes(k))
         /\ Cardinality(BlockBytes(k)) = k.len
         /\ k.addr \in BlockBytes(k)
         /\ k.addr \in Nat /\ k.len \in Nat \ {0} /\ k.from \in 0..Buffers
<1>1. k.addr \in Nat /\ k.len \in Nat \ {0} /\ k.from \in 0..Buffers
  BY DEF Block
<1>2. \A p, q \in Int : /\ IsFiniteSet(p..q)
                       /\ Cardinality(p..q) = IF p > q THEN 0 ELSE q - p + 1
  BY FS_Interval
<1>3. PICK q : q = k.addr + k.len - 1
  OBVIOUS
<1>4. IsFiniteSet(k.addr..q) /\ Cardinality(k.addr..q) = k.len
  <2>1. k.addr \in Int /\ q \in Int /\ ~(k.addr > q) /\ q - k.addr + 1 = k.len
    BY <1>1, <1>3
  <2> QED
    BY <1>2, <2>1
<1>5. k.addr \in k.addr..(k.addr + k.len - 1)
  BY <1>1
<1> QED
  BY <1>1, <1>3, <1>4, <1>5 DEF BlockBytes

LEMMA AlignUpAbove ==
  ASSUME NEW p \in Nat, NEW a \in Nat \ {0}
  PROVE  AlignUp(p, a) \in Nat /\ AlignUp(p, a) >= p
<1>1. p % a \in 0..(a - 1)
  OBVIOUS
<1>2. a - (p % a) \in Nat
  BY <1>1
<1>3. (a - (p % a)) % a \in 0..(a - 1)
  BY <1>2
<1> QED
  BY <1>3 DEF AlignUp

\* A block lies in its own buffer and the buffers are apart, so that its address tells which
\* one it is from.
LEMMA Home ==
  ASSUME TypeOK, BlocksDisjoint
  PROVE  ReturnsHome
<1> SUFFICES ASSUME NEW k \in live, NEW b \in Chain
             PROVE  Holds(b, k) <=> b = k.from
  BY DEF ReturnsHome
<1> k \in Block
  BY DEF TypeOK
<1>1. /\ k.addr \in Nat /\ k.len \in Nat \ {0} /\ k.from \in 0..Buffers
      /\ k.addr \in BlockBytes(k)
  BY BlockSize
<1>2. BlockBytes(k) \subseteq IF k.from = 0 THEN Heap ELSE Bytes(k.from)
  BY DEF BlocksDisjoint
<1>3. /\ Base[b] \in Nat /\ Size[b] \in Nat /\ b # 0
  BY BufferAssumption DEF Chain
<1>4. ASSUME b = k.from PROVE Holds(b, k)
  <2>1. k.addr + k.len - 1 \in BlockBytes(k)
    BY <1>1 DEF BlockBytes
  <2>2. k.addr \in Bytes(b) /\ k.addr + k.len - 1 \in Bytes(b)
    BY <1>1, <1>2, <1>3, <1>4, <2>1
  <2> QED
    BY <1>1, <1>3, <2>2 DEF Bytes, Holds
<1>5. ASSUME Holds(b, k), b # k.from PROVE FALSE
  <2>1. k.addr \in Bytes(b)
    BY <1>1, <1>3, <1>5 DEF Holds, Bytes
  <2>2. CASE k.from = 0
    BY <1>1, <1>2, <2>1, <2>2, BufferAssumption
  <2>3. CASE k.from # 0
    <3>1. k.from \in Chain
      BY <1>1, <2>3, BufferAssumption DEF Chain
    <3> QED
      BY <1>1, <1>2, <1>5, <2>1, <2>3, <3>1, BufferAssumption
  <2> QED
    BY <2>2, <2>3
<1> QED
  BY <1>4, <1>5

-----------------------------------------------------------------------------
(* What callers hold when a block comes and goes *)

LEMMA BlockAdded ==
  ASSUME IInv, NEW k \in Block, live' = live \cup {k},
         \A l \in live : BlockBytes(k) \cap BlockBytes(l) = {}
  PROVE  /\ \A b \in 0..Buffers \ {k.from} :
              LiveBytes(b)' = LiveBytes(b) /\ LiveFrom(b)' = LiveFrom(b)
         /\ IsFiniteSet(LiveBytes(k.from)')
         /\ Cardinality(LiveBytes(k.from)') = Cardinality(LiveBytes(k.from)) + k.len
         /\ LiveFrom(k.from)' # {}
<1>1. \A b \in 0..Buffers \ {k.from} : LiveFrom(b)' = LiveFrom(b)
  BY DEF LiveFrom
<1>2. LiveFrom(k.from)' = LiveFrom(k.from) \cup {k}
  BY DEF LiveFrom
<1>3. \A b \in 0..Buffers \ {k.from} : LiveBytes(b)' = LiveBytes(b)
  BY <1>1 DEF LiveBytes, BlockBytes
<1>4. LiveBytes(k.from)' = LiveBytes(k.from) \cup BlockBytes(k)
  BY <1>2 DEF LiveBytes, BlockBytes
<1>5. LiveBytes(k.from) \cap BlockBytes(k) = {}
  BY DEF LiveBytes, LiveFrom
<1>6. IsFiniteSet(LiveBytes(k.from)) /\ IsFiniteSet(BlockBytes(k))
  BY BlockSize DEF IInv, BytesFinite
<1>7. /\ Cardinality(BlockBytes(k)) = k.len /\ k.len \in Nat
      /\ Cardinality(LiveBytes(k.from)) \in Nat
  BY <1>6, BlockSize, FS_CardinalityType
<1>8. /\ IsFiniteSet(LiveBytes(k.from) \cup BlockBytes(k))
      /\ Cardinality(LiveBytes(k.from) \cup BlockBytes(k))
           = Cardinality(LiveBytes(k.from)) + Cardinality(BlockBytes(k))
               - Cardinality(LiveBytes(k.from) \cap BlockBytes(k))
  BY <1>6, FS_Union
<1>9. Cardinality(LiveBytes(k.from) \cup BlockBytes(k)) = Cardinality(LiveBytes(k.from)) + k.len
  <2>1. Cardinality(LiveBytes(k.from) \cap BlockBytes(k)) = 0
    BY <1>5, FS_EmptySet
  <2> QED
    BY <1>7, <1>8, <2>1
<1>10. LiveFrom(k.from)' # {}
  BY <1>2
<1> QED
  BY <1>1, <1>3, <1>4, <1>8, <1>9, <1>10

LEMMA BlockRemoved ==
  ASSUME IInv, NEW k \in live, live' = live \ {k}
  PROVE  /\ \A b \in 0..Buffers \ {k.from} :
              LiveBytes(b)' = LiveBytes(b) /\ LiveFrom(b)' = LiveFrom(b)
         /\ IsFiniteSet(LiveBytes(k.from)')
         /\ Cardinality(LiveBytes(k.from)') = Cardinality(LiveBytes(k.from)) - k.len
         /\ Cardinality(LiveBytes(k.from)') \in Nat
         /\ LiveFrom(k.from)' = {} => Cardinality(LiveBytes(k.from)') = 0
         /\ Cardinality(LiveBytes(k.from)') = 0 => LiveFrom(k.from)' = {}
<1> k \in Block
  BY DEF IInv, TypeOK
<1>1. \A b \in 0..Buffers \ {k.from} : LiveFrom(b)' = LiveFrom(b)
  BY DEF LiveFrom
<1>2. LiveFrom(k.from)' = LiveFrom(k.from) \ {k}
  BY DEF LiveFrom
<1>3. \A b \in 0..Buffers \ {k.from} : LiveBytes(b)' = LiveBytes(b)
  BY <1>1 DEF LiveBytes, BlockBytes
<1>4. \A l \in live : l # k => BlockBytes(k) \cap BlockBytes(l) = {}
  BY DEF IInv, BlocksDisjoint
<1>5. LiveBytes(k.from)' = LiveBytes(k.from) \ BlockBytes(k)
  BY <1>2, <1>4 DEF LiveBytes, LiveFrom, BlockBytes
<1>6. BlockBytes(k) \subseteq LiveBytes(k.from)
  BY DEF LiveBytes, LiveFrom
<1>7. IsFiniteSet(LiveBytes(k.from)) /\ IsFiniteSet(BlockBytes(k))
  BY BlockSize DEF IInv, BytesFinite
<1>8. /\ Cardinality(BlockBytes(k)) = k.len /\ k.len \in Nat
      /\ Cardinality(LiveBytes(k.from)) \in Nat
  BY <1>7, BlockSize, FS_CardinalityType
<1>9. /\ IsFiniteSet(LiveBytes(k.from) \ BlockBytes(k))
      /\ Cardinality(LiveBytes(k.from) \ BlockBytes(k))
           = Cardinality(LiveBytes(k.from)) - Cardinality(LiveBytes(k.from) \cap BlockBytes(k))
  BY <1>7, FS_Difference
<1>10. LiveBytes(k.from) \cap BlockBytes(k) = BlockBytes(k)
  BY <1>6
<1>11. Cardinality(LiveBytes(k.from)') \in Nat
  BY <1>5, <1>9, FS_CardinalityType
<1>12. LiveFrom(k.from)' = {} => Cardinality(LiveBytes(k.from)') = 0
  <2>1. LiveFrom(k.from)' = {} => LiveBytes(k.from)' = {}
    BY DEF LiveBytes
  <2> QED
    BY <2>1, FS_EmptySet
<1>13. ASSUME Cardinality(LiveBytes(k.from)') = 0, LiveFrom(k.from)' # {} PROVE FALSE
  <2>1. PICK l \in live : l.from = k.from /\ l # k
    BY <1>2, <1>13 DEF LiveFrom
  <2>2. l \in Block
    BY DEF IInv, TypeOK
  <2>3. l.addr \in BlockBytes(l)
    BY <2>2, BlockSize
  <2>4. l.addr \in LiveBytes(k.from)'
    BY <1>5, <1>4, <2>1, <2>3 DEF LiveBytes, LiveFrom
  <2> QED
    BY <1>5, <1>9, <1>13, <2>4, FS_EmptySet
<1> QED
  BY <1>1, <1>3, <1>5, <1>8, <1>9, <1>10, <1>11, <1>12, <1>13

-----------------------------------------------------------------------------
(* The invariant *)

LEMMA InitInvariant == Init => IInv
<1> SUFFICES ASSUME Init PROVE IInv
  OBVIOUS
<1>1. TypeOK
  BY BufferAssumption DEF Init, TypeOK, Chain
<1>2. BlocksDisjoint /\ Reusable
  BY DEF Init, BlocksDisjoint, Reusable
<1>3. \A b \in 0..Buffers : LiveBytes(b) = {}
  BY DEF Init, LiveBytes, LiveFrom
<1>4. BytesFinite
  BY <1>3, FS_EmptySet DEF BytesFinite
<1>5. AllocatedExact
  <2>1. \A b \in 0..Buffers : allocated[b] = 0 /\ Cardinality(LiveBytes(b)) = 0
    BY <1>3, FS_EmptySet DEF Init
  <2>2. 0 \in 0..Buffers /\ Chain \subseteq 0..Buffers
    BY BufferAssumption DEF Chain
  <2> QED
    BY <2>1, <2>2 DEF AllocatedExact
<1>6. Packed
  BY BufferAssumption DEF Init, Packed
<1> QED
  BY <1>1, <1>2, <1>4, <1>5, <1>6 DEF IInv

\* A buffer with room serves a request: the new block is above all it has handed out.
LEMMA AllocateInvariant ==
  ASSUME IInv, NEW n \in Lengths, NEW a \in Alignments, Allocate(n, a)
  PROVE  IInv'
<1>1. PICK b \in Chain : Fits(b, n, a) /\ TakeFrom(b, n, a)
  BY DEF Allocate
<1> DEFINE p == AlignUp(current[b], a)
           k == [addr |-> p, len |-> n, from |-> b]
<1>2. /\ n \in Nat \ {0} /\ a \in Nat \ {0} /\ Base[b] \in Nat /\ Size[b] \in Nat
      /\ current[b] \in Nat /\ b \in 0..Buffers /\ b # 0 /\ allocated[b] \in Nat
      /\ Base[b] <= current[b]
  BY BufferAssumption DEF IInv, TypeOK, Chain, Packed
<1>3. p \in Nat /\ p >= current[b]
  BY <1>2, AlignUpAbove
<1> HIDE DEF p
<1>4. k \in Block /\ k.addr = p /\ k.len = n /\ k.from = b
  BY <1>2, <1>3 DEF Block
<1>5. /\ live' = live \cup {k}
      /\ current' = [current EXCEPT ![b] = p + n]
      /\ allocated' = [allocated EXCEPT ![b] = @ + n]
      /\ endAllocator' = endAllocator
      /\ p + n <= Base[b] + Size[b]
  BY <1>1 DEF TakeFrom, Fits, p, Allocate
<1>6. BlockBytes(k) \subseteq Bytes(b)
  BY <1>2, <1>3, <1>4, <1>5 DEF BlockBytes, Bytes
<1>7. ASSUME NEW l \in live PROVE BlockBytes(k) \cap BlockBytes(l) = {}
  <2>1. /\ l \in Block
        /\ BlockBytes(l) \subseteq IF l.from = 0 THEN Heap ELSE Bytes(l.from)
        /\ l.from # 0 => l.addr + l.len <= current[l.from]
    BY DEF IInv, TypeOK, BlocksDisjoint, Packed
  <2>2. l.addr \in Nat /\ l.len \in Nat \ {0} /\ l.from \in 0..Buffers
    BY <2>1, BlockSize
  <2>3. CASE l.from = b
    BY <1>2, <1>3, <1>4, <2>1, <2>2, <2>3 DEF BlockBytes
  <2>4. CASE l.from = 0
    BY <1>6, <2>1, <2>4, BufferAssumption
  <2>5. CASE l.from # b /\ l.from # 0
    <3>1. l.from \in Chain
      BY <2>2, <2>5, BufferAssumption DEF Chain
    <3> QED
      BY <1>6, <2>1, <2>5, <3>1, BufferAssumption
  <2> QED
    BY <2>3, <2>4, <2>5
<1> HIDE DEF k
<1>8. /\ \A c \in 0..Buffers \ {b} : LiveBytes(c)' = LiveBytes(c) /\ LiveFrom(c)' = LiveFrom(c)
      /\ IsFiniteSet(LiveBytes(b)')
      /\ Cardinality(LiveBytes(b)') = Cardinality(LiveBytes(b)) + n
      /\ LiveFrom(b)' # {}
  BY <1>4, <1>5, <1>7, BlockAdded
<1>9. TypeOK'
  BY <1>2, <1>3, <1>4, <1>5 DEF IInv, TypeOK
<1>10. BlocksDisjoint'
  <2>1. \A l, m \in live' : l # m => BlockBytes(l) \cap BlockBytes(m) = {}
    BY <1>5, <1>7 DEF IInv, BlocksDisjoint
  <2>2. \A l \in live' : BlockBytes(l) \subseteq IF l.from = 0 THEN Heap ELSE Bytes(l.from)
    BY <1>2, <1>4, <1>5, <1>6 DEF IInv, BlocksDisjoint
  <2> QED
    BY <2>1, <2>2 DEF BlocksDisjoint, BlockBytes
<1>11. BytesFinite'
  BY <1>8 DEF IInv, BytesFinite
<1>12. AllocatedExact'
  <2>1. \A c \in Chain : allocated'[c] = Cardinality(LiveBytes(c)')
    <3> SUFFICES ASSUME NEW c \in Chain PROVE allocated'[c] = Cardinality(LiveBytes(c)')
      OBVIOUS
    <3>1. c \in 0..Buffers /\ allocated[c] = Cardinality(LiveBytes(c)) /\ b \in DOMAIN allocated
      BY <1>2, BufferAssumption DEF IInv, AllocatedExact, Chain, TypeOK
    <3>2. CASE c = b
      BY <1>5, <1>8, <3>1, <3>2
    <3>3. CASE c # b
      BY <1>5, <1>8, <3>1, <3>3
    <3> QED
      BY <3>2, <3>3
  <2>2. endAllocator' = "stats" => allocated'[0] = Cardinality(LiveBytes(0)')
    BY <1>2, <1>5, <1>8, BufferAssumption DEF IInv, AllocatedExact, TypeOK
  <2> QED
    BY <2>1, <2>2 DEF AllocatedExact
<1>13. Packed'
  <2>1. \A c \in Chain : Base[c] <= current'[c]
    BY <1>2, <1>3, <1>5, BufferAssumption DEF IInv, Packed, TypeOK
  <2>2. ASSUME NEW l \in live', l.from # 0 PROVE l.addr + l.len <= current'[l.from]
    <3>1. CASE l = k
      BY <1>2, <1>3, <1>4, <1>5, <3>1 DEF IInv, TypeOK
    <3>2. CASE l # k
      <4>1. l \in live /\ l \in Block /\ l.addr + l.len <= current[l.from]
        BY <1>5, <2>2, <3>2 DEF IInv, TypeOK, Packed
      <4>2. l.addr \in Nat /\ l.len \in Nat /\ l.from \in Chain
        BY <2>2, <4>1, BlockSize, BufferAssumption DEF Chain
      <4> QED
        BY <1>2, <1>3, <1>5, <4>1, <4>2 DEF IInv, TypeOK
    <3> QED
      BY <3>1, <3>2
  <2> QED
    BY <2>1, <2>2 DEF Packed
<1>14. Reusable'
  <2> SUFFICES ASSUME NEW c \in Chain, LiveFrom(c)' = {} PROVE current'[c] = Base[c]
    BY DEF Reusable
  <2>1. c # b /\ c \in 0..Buffers
    BY <1>8, BufferAssumption DEF Chain
  <2>2. LiveFrom(c) = {}
    BY <1>8, <2>1
  <2> QED
    BY <1>5, <2>1, <2>2 DEF IInv, Reusable, TypeOK
<1> QED
  BY <1>9, <1>10, <1>11, <1>12, <1>13, <1>14 DEF IInv

\* std::allocator serves it: the buffers stay as they are.
LEMMA AllocateBehindInvariant ==
  ASSUME IInv, NEW n \in Lengths, NEW a \in Alignments, AllocateBehind(n, a)
  PROVE  IInv'
<1>1. PICK p \in Heap :
        LET k == [addr |-> p, len |-> n, from |-> 0]
        IN  /\ BlockBytes(k) \subseteq Heap
            /\ \A l \in live : BlockBytes(k) \cap BlockBytes(l) = {}
            /\ live' = live \cup {k}
  BY DEF AllocateBehind
<1> DEFINE k == [addr |-> p, len |-> n, from |-> 0]
<1>2. n \in Nat \ {0} /\ p \in Nat /\ 0 \in 0..Buffers
  BY BufferAssumption
<1>3. k \in Block /\ k.len = n /\ k.from = 0
  BY <1>2 DEF Block
<1>4. /\ BlockBytes(k) \subseteq Heap
      /\ \A l \in live : BlockBytes(k) \cap BlockBytes(l) = {}
      /\ live' = live \cup {k}
  BY <1>1
<1>5. /\ allocated' = [allocated EXCEPT ![0] = Counted(n)]
      /\ endAllocator' = endAllocator /\ current' = current
  BY DEF AllocateBehind
<1> HIDE DEF k
<1>6. /\ \A c \in 0..Buffers \ {0} : LiveBytes(c)' = LiveBytes(c) /\ LiveFrom(c)' = LiveFrom(c)
      /\ IsFiniteSet(LiveBytes(0)')
      /\ Cardinality(LiveBytes(0)') = Cardinality(LiveBytes(0)) + n
  BY <1>3, <1>4, BlockAdded
<1>7. \A c \in Chain : c \in 0..Buffers /\ c # 0
  BY BufferAssumption DEF Chain
<1>8. allocated[0] \in Nat /\ Counted(n) \in Nat /\ 0 \in DOMAIN allocated
  BY <1>2 DEF IInv, TypeOK, Counted
<1>9. TypeOK'
  BY <1>3, <1>4, <1>5, <1>8 DEF IInv, TypeOK
<1>10. BlocksDisjoint'
  <2>1. \A l, m \in live' : l # m => BlockBytes(l) \cap BlockBytes(m) = {}
    BY <1>4 DEF IInv, BlocksDisjoint
  <2>2. \A l \in live' : BlockBytes(l) \subseteq IF l.from = 0 THEN Heap ELSE Bytes(l.from)
    BY <1>3, <1>4 DEF IInv, BlocksDisjoint
  <2> QED
    BY <2>1, <2>2 DEF BlocksDisjoint, BlockBytes
<1>11. BytesFinite'
  BY <1>6 DEF IInv, BytesFinite
<1>12. AllocatedExact'
  <2>1. \A c \in Chain : allocated'[c] = Cardinality(LiveBytes(c)')
    BY <1>5, <1>6, <1>7 DEF IInv, AllocatedExact, TypeOK
  <2>2. endAllocator' = "stats" => allocated'[0] = Cardinality(LiveBytes(0)')
    <3> SUFFICES ASSUME endAllocator = "stats" PROVE allocated'[0] = Cardinality(LiveBytes(0)')
      BY <1>5
    <3>1. allocated'[0] = allocated[0] + n
      BY <1>5, <1>8 DEF Counted
    <3> QED
      BY <1>6, <3>1 DEF IInv, AllocatedExact
  <2> QED
    BY <2>1, <2>2 DEF AllocatedExact
<1>13. Packed'
  BY <1>3, <1>4, <1>5 DEF IInv, Packed
<1>14. Reusable'
  BY <1>5, <1>6, <1>7 DEF IInv, Reusable
<1> QED
  BY <1>9, <1>10, <1>11, <1>12, <1>13, <1>14 DEF IInv

\* A block that is gone leaves the others disjoint and below the next address.
LEMMA BlocksLeft ==
  ASSUME IInv, NEW k \in live, live' = live \ {k}
  PROVE  BlocksDisjoint'
BY DEF IInv, BlocksDisjoint, BlockBytes

\* A buffer takes a block back, and starts over when it was the last one.
LEMMA DeallocateInvariant ==
  ASSUME IInv, NEW k \in live, Deallocate(k)
  PROVE  IInv'
<1>1. PICK b \in Chain : Holds(b, k) /\ GiveTo(b, k)
  BY DEF Deallocate
<1>2. b = k.from
  BY <1>1, Home DEF IInv, ReturnsHome
<1>3. live' = live \ {k} /\ endAllocator' = endAllocator
  BY DEF Deallocate
<1>4. /\ k \in Block /\ k.addr \in Nat /\ k.len \in Nat \ {0}
      /\ b \in 0..Buffers /\ b # 0
      /\ Base[b] \in Nat /\ current[b] \in Nat /\ allocated[b] \in Nat
      /\ allocated[b] = Cardinality(LiveBytes(b))
  BY BlockSize, BufferAssumption DEF IInv, TypeOK, AllocatedExact, Chain
<1> DEFINE left == allocated[b] - k.len
<1>5. /\ allocated' = [allocated EXCEPT ![b] = left]
      /\ current' = [current EXCEPT ![b] = IF left = 0 THEN Base[b] ELSE current[b]]
  BY <1>1 DEF GiveTo, Rewound
<1>6. /\ \A c \in 0..Buffers \ {b} : LiveBytes(c)' = LiveBytes(c) /\ LiveFrom(c)' = LiveFrom(c)
      /\ IsFiniteSet(LiveBytes(b)')
      /\ Cardinality(LiveBytes(b)') = left
      /\ left \in Nat
      /\ LiveFrom(b)' = {} <=> left = 0
  BY <1>2, <1>3, <1>4, BlockRemoved
<1> HIDE DEF left
<1>7. \A c \in Chain : c \in 0..Buffers
  BY BufferAssumption DEF Chain
<1>8. TypeOK'
  BY <1>3, <1>4, <1>5, <1>6 DEF IInv, TypeOK
<1>9. BlocksDisjoint'
  BY <1>3, BlocksLeft
<1>10. BytesFinite'
  BY <1>6 DEF IInv, BytesFinite
<1>11. AllocatedExact'
  <2>1. ASSUME NEW c \in Chain PROVE allocated'[c] = Cardinality(LiveBytes(c)')
    <3>1. CASE c = b
      BY <1>4, <1>5, <1>6, <3>1 DEF IInv, TypeOK
    <3>2. CASE c # b
      BY <1>5, <1>6, <1>7, <3>2 DEF IInv, AllocatedExact, TypeOK
    <3> QED
      BY <3>1, <3>2
  <2>2. endAllocator' = "stats" => allocated'[0] = Cardinality(LiveBytes(0)')
    BY <1>3, <1>4, <1>5, <1>6, BufferAssumption DEF IInv, AllocatedExact, TypeOK
  <2> QED
    BY <2>1, <2>2 DEF AllocatedExact
<1>12. Packed'
  <2>1. \A c \in Chain : Base[c] <= current'[c]
    BY <1>4, <1>5 DEF IInv, Packed, TypeOK
  <2>2. ASSUME NEW l \in live', l.from # 0 PROVE l.addr + l.len <= current'[l.from]
    <3>1. l \in live /\ l \in Block /\ l.addr + l.len <= current[l.from]
      BY <1>3, <2>2 DEF IInv, TypeOK, Packed
    <3>2. l.from \in Chain
      BY <2>2, <3>1, BlockSize, BufferAssumption DEF Chain
    <3>3. CASE l.from = b
      <4>1. l \in LiveFrom(b)'
        BY <2>2, <3>3 DEF LiveFrom
      <4>2. left # 0
        BY <1>6, <4>1
      <4> QED
        BY <1>5, <3>1, <3>2, <3>3, <4>2 DEF IInv, TypeOK
    <3>4. CASE l.from # b
      BY <1>5, <3>1, <3>2, <3>4 DEF IInv, TypeOK
    <3> QED
      BY <3>3, <3>4
  <2> QED
    BY <2>1, <2>2 DEF Packed
<1>13. Reusable'
  <2> SUFFICES ASSUME NEW c \in Chain, LiveFrom(c)' = {} PROVE current'[c] = Base[c]
    BY DEF Reusable
  <2>1. CASE c = b
    BY <1>5, <1>6, <2>1 DEF IInv, TypeOK
  <2>2. CASE c # b
    BY <1>5, <1>6, <1>7, <2>2 DEF IInv, Reusable, TypeOK
  <2> QED
    BY <2>1, <2>2
<1> QED
  BY <1>8, <1>9, <1>10, <1>11, <1>12, <1>13 DEF IInv

\* A block that no buffer recognises is std::allocator's.
LEMMA DeallocateBehindInvariant ==
  ASSUME IInv, NEW k \in live, DeallocateBehind(k)
  PROVE  IInv'
<1>1. k \in Block /\ k.len \in Nat \ {0} /\ k.from \in 0..Buffers
  BY BlockSize DEF IInv, TypeOK
<1>2. k.from = 0
  <2> SUFFICES ASSUME k.from # 0 PROVE FALSE
    OBVIOUS
  <2>1. k.from \in Chain
    BY <1>1, BufferAssumption DEF Chain
  <2> QED
    BY <2>1, Home DEF IInv, ReturnsHome, DeallocateBehind
<1>3. /\ live' = live \ {k} /\ endAllocator' = endAllocator /\ current' = current
      /\ allocated' = [allocated EXCEPT ![0] = Uncounted(k.len)]
  BY DEF DeallocateBehind
<1>4. /\ \A c \in 0..Buffers \ {0} : LiveBytes(c)' = LiveBytes(c) /\ LiveFrom(c)' = LiveFrom(c)
      /\ IsFiniteSet(LiveBytes(0)')
      /\ Cardinality(LiveBytes(0)') = Cardinality(LiveBytes(0)) - k.len
      /\ Cardinality(LiveBytes(0)') \in Nat
  BY <1>2, <1>3, BlockRemoved
<1>5. \A c \in Chain : c \in 0..Buffers /\ c # 0
  BY BufferAssumption DEF Chain
<1>6. allocated[0] \in Nat /\ 0 \in DOMAIN allocated
  BY BufferAssumption DEF IInv, TypeOK
<1>7. endAllocator = "stats" => Uncounted(k.len) = Cardinality(LiveBytes(0)')
  BY <1>4 DEF IInv, AllocatedExact, Uncounted
<1>8. Uncounted(k.len) \in Nat
  BY <1>4, <1>6, <1>7 DEF Uncounted
<1>9. TypeOK'
  BY <1>3, <1>6, <1>8 DEF IInv, TypeOK
<1>10. BlocksDisjoint'
  BY <1>3, BlocksLeft
<1>11. BytesFinite'
  BY <1>4 DEF IInv, BytesFinite
<1>12. AllocatedExact'
  BY <1>3, <1>4, <1>5, <1>6, <1>7 DEF IInv, AllocatedExact, TypeOK
<1>13. Packed'
  BY <1>3 DEF IInv, Packed
<1>14. Reusable'
  BY <1>3, <1>4, <1>5 DEF IInv, Reusable
<1> QED
  BY <1>9, <1>10, <1>11, <1>12, <1>13, <1>14 DEF IInv

LEMMA NextInvariant == IInv /\ [Next]_vars => IInv'
<1> SUFFICES ASSUME IInv, [Next]_vars PROVE IInv'
  OBVIOUS
<1>1. ASSUME NEW n \in Lengths, NEW a \in Alignments, Allocate(n, a) PROVE IInv'
  BY <1>1, AllocateInvariant
<1>2. ASSUME NEW n \in Lengths, NEW a \in Alignments, AllocateBehind(n, a) PROVE IInv'
  BY <1>2, AllocateBehindInvariant
<1>3. ASSUME NEW k \in live, Deallocate(k) PROVE IInv'
  BY <1>3, DeallocateInvariant
<1>4. ASSUME NEW k \in live, DeallocateBehind(k) PROVE IInv'
  BY <1>4, DeallocateBehindInvariant
<1>5. CASE UNCHANGED vars
  BY <1>5 DEF vars, IInv, TypeOK, BlocksDisjoint, BytesFinite, AllocatedExact, Packed, Reusable,
              LiveBytes, LiveFrom, BlockBytes
<1> QED
  BY <1>1, <1>2, <1>3, <1>4, <1>5 DEF Next

LEMMA Invariant == Spec => []IInv
<1>1. Init => IInv
  BY InitInvariant
<1>2. IInv /\ [Next]_vars => IInv'
  BY NextInvariant
<1> QED
  BY <1>1, <1>2, PTL DEF Spec

-----------------------------------------------------------------------------
(* The properties of the run *)

\* Every state of every chain has its type: no count of allocated bytes ever drops below 0.
THEOREM TypeCorrect == Spec => []TypeOK
<1>1. IInv => TypeOK
  BY DEF IInv
<1> QED
  BY <1>1, Invariant, PTL

\* Whatever callers return in whatever order, they never share a byte, and what a buffer hands
\* out lies inside it.
THEOREM DisjointBlocks == Spec => []BlocksDisjoint
<1>1. IInv => BlocksDisjoint
  BY DEF IInv
<1> QED
  BY <1>1, Invariant, PTL

\* A block is recognised by the buffer that handed it out and by no other, so that deallocate
\* gives it back there, and with buffer_allocator_throw never terminates the program.
THEOREM BlocksReturnHome == Spec => []ReturnsHome
<1>1. IInv => ReturnsHome
  BY Home DEF IInv
<1> QED
  BY <1>1, Invariant, PTL

\* The count of a buffer, and the statistics of the allocator behind the chain, are the number
\* of bytes callers hold.
THEOREM ExactCount == Spec => []AllocatedExact
<1>1. IInv => AllocatedExact
  BY DEF IInv
<1> QED
  BY <1>1, Invariant, PTL

\* A buffer of which everything has been returned offers all its bytes again.
THEOREM ReusableBuffers == Spec => []Reusable
<1>1. IInv => Reusable
  BY DEF IInv
<1> QED
  BY <1>1, Invariant, PTL
==============================================================================
