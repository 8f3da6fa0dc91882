\* The table has a wrong row: the run stops at it.
SPECIFICATION Spec
INVARIANT ListedIsAccepted
\* Every command asked: there is nothing left to do.
CHECK_DEADLOCK FALSE
