SPECIFICATION Spec
CONSTANTS
    N = 2
    Keys = {1, 2, 3, 4, 5, 6, 7, 8, 9, 10, 11, 12, 13, 14, 15, 16, 17, 18, 19, 20, 21, 22, 23}
    Uses <- AllUses
    End = End
    Dangling = Dangling
VIEW WithoutAnswer
INVARIANTS
    TypeOK
    Balanced
    Ordered
    Linked
    NoFault
    ReadsExact
PROPERTY ImplementsSortedSet
