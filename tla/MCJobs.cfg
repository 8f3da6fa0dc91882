\* Two callers and two jobs that compete for one permit.
CONSTANTS
    Threads = {t1, t2}
    Jobs = {j1, j2}
    NoJob = NoJob
    MaxActive = 1
SPECIFICATION FairSpec
INVARIANTS TypeOK PermitsExact CancelIsFinal ObserverReports FrameConserved
PROPERTIES AbandonedFreesPermit
\* Every job submitted and released: there is nothing left to do.
CHECK_DEADLOCK FALSE
