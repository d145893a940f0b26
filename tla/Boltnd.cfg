SPECIFICATION Spec
CONSTANTS
    Starters = {a1, a2}
    Stoppers = {z1, z2}
    Retries = {0, 1, 4, 254}
INVARIANTS TypeOK RetriesExhausted NoLeakedConnection StoppedClean
CHECK_DEADLOCK FALSE
