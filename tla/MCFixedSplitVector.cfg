SPECIFICATION Spec
CONSTANTS
    Raw = Raw
    Moved = Moved
    Room = 4
    N = 2
    Entries <- TwoEntries
    Most = 6
INVARIANT InStep
PROPERTIES
    OrderKept
    OneChange
