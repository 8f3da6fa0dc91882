\* An import, an export of what was imported and an import of that.
CONSTANTS
    Structs = {r1, r2, r3, r4, r5}
    Objects = {o1, o2, o3}
    Handles = {h1, h2}
    Unmade = Unmade
    Empty = Empty
    Unborn = Unborn
    Gone = Gone
    NoCall = NoCall
    Absent = Absent
SPECIFICATION Spec
SYMMETRY Symmetry
INVARIANTS TypeOK ReleasedExactlyOnce ImportsConsume
\* Every object closed, every handle released, no struct left to fill.
CHECK_DEADLOCK FALSE
