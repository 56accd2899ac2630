--------------------------- MODULE BufferAllocator ---------------------------
(***************************************************************************)
(* memory/buffer_allocator.h: buffers that hand out memory by moving a     *)
(* pointer, chained so that the next one serves what the one before cannot *)
(* (static_dynamic_buffer in the tests; every update of a container puts a *)
(* static buffer before std::allocator).  A buffer takes memory back by    *)
(* counting: when all is returned it starts over.                          *)
(*                                                                         *)
(* Addresses are byte numbers.  static_buffer and dynamic_buffer differ in *)
(* where their bytes are, which Base says.  Behind the last buffer there   *)
(* is an end allocator, number 0.                                          *)
(***************************************************************************)
EXTENDS Integers, FiniteSets

CONSTANTS
    Buffers,        \* the number of buffers in the chain
    Base,           \* Base[b]: the address of the first byte of buffer b
    Size,           \* Size[b]: the number of its bytes
    Lengths,        \* the sizes in bytes of what callers allocate
    Alignments,     \* and its alignments
    Heap            \* the bytes std::allocator manages

Chain == 1..Buffers

Bytes(b) == Base[b]..(Base[b] + Size[b] - 1)

ASSUME BufferAssumption ==
    /\ Buffers \in Nat
    /\ Base \in [Chain -> Nat]
    /\ Size \in [Chain -> Nat]
    /\ Lengths \subseteq Nat \ {0}
    /\ Alignments \subseteq Nat \ {0}
    /\ Heap \subseteq Nat
    /\ \A b \in Chain : Bytes(b) \cap Heap = {}
    /\ \A b, c \in Chain : b # c => Bytes(b) \cap Bytes(c) = {}

\* buffer_allocator_throw, std::allocator, std::allocator behind a stats_buffer
EndAllocators == {"throw", "std", "stats"}

VARIABLES
    endAllocator,   \* which of them the chain ends with
    current,        \* current[b]: the address from which buffer b allocates next
    allocated,      \* allocated[b]: the bytes handed out; allocated[0]: those of stats_buffer
    live            \* the blocks callers hold, each with the allocator it came from

vars == <<endAllocator, current, allocated, live>>

Block == [addr : Nat, len : Nat \ {0}, from : 0..Buffers]

BlockBytes(k) == k.addr..(k.addr + k.len - 1)

Init ==
    /\ endAllocator \in EndAllocators
    /\ current = Base
    /\ allocated = [b \in 0..Buffers |-> 0]
    /\ live = {}

-----------------------------------------------------------------------------
(* Allocation *)

\* uintptr_t(p + a - 1) & ~(a - 1)
AlignUp(p, a) == p + ((a - (p % a)) % a)

\* Mutant of Fits: the bytes that alignment skips are not counted.
FitsUnaligned(b, n, a) == current[b] + n <= Base[b] + Size[b]

\* buffer b has room for n bytes
Fits(b, n, a) == AlignUp(current[b], a) + n <= Base[b] + Size[b]

\* allocate of a buffer with room
TakeFrom(b, n, a) ==
    /\ current' = [current EXCEPT ![b] = AlignUp(@, a) + n]
    /\ allocated' = [allocated EXCEPT ![b] = @ + n]
    /\ live' = live \cup {[addr |-> AlignUp(current[b], a), len |-> n, from |-> b]}

\* buffer_allocator::allocate: the first buffer with room serves the request.
Allocate(n, a) ==
    /\ \E b \in Chain :
        /\ Fits(b, n, a)
        /\ \A c \in 1..b - 1 : ~Fits(c, n, a)
        /\ TakeFrom(b, n, a)
    /\ UNCHANGED endAllocator

\* stats_buffer counts what goes through it.
Counted(n) == IF endAllocator = "stats" THEN allocated[0] + n ELSE allocated[0]

Uncounted(n) == IF endAllocator = "stats" THEN allocated[0] - n ELSE allocated[0]

\* No buffer has room: std::allocator finds some bytes (or buffer_allocator_throw throws
\* bad_alloc, and nothing has changed).
AllocateBehind(n, a) ==
    /\ \A b \in Chain : ~Fits(b, n, a)
    /\ endAllocator # "throw"
    /\ \E p \in Heap :
        LET k == [addr |-> p, len |-> n, from |-> 0]
        IN  /\ p % a = 0
            /\ BlockBytes(k) \subseteq Heap
            /\ \A l \in live : BlockBytes(k) \cap BlockBytes(l) = {}
            /\ live' = live \cup {k}
    /\ allocated' = [allocated EXCEPT ![0] = Counted(n)]
    /\ UNCHANGED <<endAllocator, current>>

-----------------------------------------------------------------------------
(* Deallocation *)

\* Mutant of Holds: a block of the next buffer that starts where this one ends is taken.
HoldsEnd(b, k) == k.addr >= Base[b] /\ k.addr <= Base[b] + Size[b]

\* A buffer recognises its blocks by their address.
Holds(b, k) == k.addr >= Base[b] /\ k.addr + k.len <= Base[b] + Size[b]

\* Mutant of Rewound: the buffer starts over once half of it is returned.
RewoundEarly(b, left) == IF 2 * left <= Size[b] THEN Base[b] ELSE current[b]

\* Mutant of Rewound: the buffer never starts over.
RewoundNever(b, left) == current[b]

\* Where buffer b goes on when `left` bytes are still out.
Rewound(b, left) == IF left = 0 THEN Base[b] ELSE current[b]

\* Mutant of GiveTo: the count is kept.
GiveToUncounted(b, k) ==
    /\ current' = [current EXCEPT ![b] = Rewound(b, allocated[b] - k.len)]
    /\ UNCHANGED allocated

\* deallocate of a buffer that holds the block
GiveTo(b, k) ==
    /\ allocated' = [allocated EXCEPT ![b] = @ - k.len]
    /\ current' = [current EXCEPT ![b] = Rewound(b, allocated[b] - k.len)]

\* buffer_allocator::deallocate: the first buffer that recognises the block takes it.
Deallocate(k) ==
    /\ live' = live \ {k}
    /\ \E b \in Chain :
        /\ Holds(b, k)
        /\ \A c \in 1..b - 1 : ~Holds(c, k)
        /\ GiveTo(b, k)
    /\ UNCHANGED endAllocator

\* No buffer does: the block goes to the end allocator.
DeallocateBehind(k) ==
    /\ \A b \in Chain : ~Holds(b, k)
    /\ live' = live \ {k}
    /\ allocated' = [allocated EXCEPT ![0] = Uncounted(k.len)]
    /\ UNCHANGED <<endAllocator, current>>

Next ==
    \/ \E n \in Lengths, a \in Alignments : Allocate(n, a) \/ AllocateBehind(n, a)
    \/ \E k \in live : Deallocate(k) \/ DeallocateBehind(k)

Spec == Init /\ [][Next]_vars

-----------------------------------------------------------------------------
(* Properties *)

\* allocated is a size_t: no buffer is given back more than it handed out.
TypeOK ==
    /\ endAllocator \in EndAllocators
    /\ current \in [Chain -> Nat]
    /\ allocated \in [0..Buffers -> Nat]
    /\ live \subseteq Block

\* Callers never share a byte: whatever was returned in whatever order, the blocks they hold
\* are disjoint, those of a buffer lie inside it.
BlocksDisjoint ==
    /\ \A k, l \in live : k # l => BlockBytes(k) \cap BlockBytes(l) = {}
    /\ \A k \in live : BlockBytes(k) \subseteq IF k.from = 0 THEN Heap ELSE Bytes(k.from)

\* A block goes back where it came from: the buffer that recognises it is the one that
\* allocated it, also next to a neighbour's first byte.  With buffer_allocator_throw at the
\* end, a block that nobody recognises would terminate the program (deallocate is noexcept).
ReturnsHome ==
    \A k \in live : \A b \in Chain : Holds(b, k) <=> b = k.from

LiveFrom(b) == {k \in live : k.from = b}

LiveBytes(b) == UNION {BlockBytes(k) : k \in LiveFrom(b)}

\* The count by which a buffer decides to start over is the number of bytes callers hold;
\* stats_buffer's figure (get_allocated) is what they hold of std::allocator.
AllocatedExact ==
    /\ \A b \in Chain : allocated[b] = Cardinality(LiveBytes(b))
    /\ endAllocator = "stats" => allocated[0] = Cardinality(LiveBytes(0))

\* Nothing leaks: a buffer of which callers hold nothing offers all its bytes again.
Reusable == \A b \in Chain : LiveFrom(b) = {} => current[b] = Base[b]
==============================================================================
