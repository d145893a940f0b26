SPECIFICATION Spec
CONSTANTS
    Starters = {a1, a2}
    Stoppers = {z1, z2}
    Retries = {255}
INVARIANT AtLeastOneAttempt
CHECK_DEADLOCK FALSE
