\* Two isolates of one process.
CONSTANTS
    a = a
    b = b
    c = c
    Callers = {a, b}
    isolateOf <- PoolIsolate
    processOf <- PoolProcess
    Nobody = Nobody
SPECIFICATION Spec
INVARIANTS ReturnedIsVerified
CHECK_DEADLOCK FALSE
