\* Two u32 halves shrunk to one bit and a half: slots 1..2, generations 1..2.
CONSTANTS
    Threads = {t1, t2}
    Kinds = {frame, expr}
    Payloads = {a, b}
    NoValue = NoValue
    Unissued = Unissued
    Spent = Spent
    HandleBase = 4
    MaxSlots = 2
    MaxGeneration = 2
    MaxInputs = 2
    MaxOutputs = 2
SPECIFICATION Spec
SYMMETRY Symmetry
INVARIANTS TypeOK FreeListExact HandlesAccounted NoAliasing
PROPERTIES ImplementsTable
