\* Two callers, two names, one frame to release or give twice, batches of up to two tables.
CONSTANTS
    Threads = {t1, t2}
    Names = {a, b}
    Handles = {h}
    Made = Made
    NoTable = NoTable
    Free = Free
    MaxTables = 2
SPECIFICATION FairSpec
INVARIANTS TypeOK
PROPERTIES ImplementsCatalog
