\* Two operations at a time, two batches and a result, room for two of them.
CONSTANTS
    Callers = {c1, c2}
    Total = 2
    Room = 2
SPECIFICATION FairSpec
INVARIANTS TypeOK FramesOwned ClientsAgree
PROPERTIES WaitEnds
\* Both objects closed and every frame closed: there is nothing left to do.
CHECK_DEADLOCK FALSE
