\* Two callers; a channel of two for a query of four batches.
CONSTANTS
    Threads = {t1, t2}
    Total = 4
    Capacity = 2
    Complete = Complete
    Failed = Failed
    Nothing = Nothing
SPECIFICATION FairSpec
INVARIANTS TypeOK FlowExact
PROPERTIES ImplementsPull WorkerStops PollingEnds
\* The stream is released and its worker gone: there is nothing left to do.
CHECK_DEADLOCK FALSE
