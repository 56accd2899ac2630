SPECIFICATION Spec
CONSTANTS
    Raw = Raw
    Moved = Moved
    W = 3
    Keys = {1, 2, 3, 4, 5, 6, 7}
    Ranges <- SomeRanges
    End = End
VIEW WithoutAnswer
INVARIANT MemoryExact
PROPERTIES
    FaultsOfOverlap
    SortedUntilTorn
