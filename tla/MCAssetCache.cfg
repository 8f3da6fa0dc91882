\* Two calls queue in one process; a third comes from another one.
CONSTANTS
    a = a
    b = b
    c = c
    Callers = {a, b, c}
    isolateOf <- HooksIsolate
    processOf <- HooksProcess
    Nobody = Nobody
SPECIFICATION FairSpec
INVARIANTS TypeOK ReturnedIsVerified
PROPERTIES OnlyVerified CallsEnd
\* Every call has ended or its process is dead.
CHECK_DEADLOCK FALSE
