SPECIFICATION Spec
CONSTANTS
    Buffers = 2
    Base <- BaseOf
    Size <- SizeOf
    Lengths = {1, 2, 3}
    Alignments = {1, 2, 4}
    Heap <- HeapBytes
INVARIANTS
    TypeOK
    BlocksDisjoint
    ReturnsHome
    AllocatedExact
    Reusable
