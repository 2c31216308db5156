SPECIFICATION Spec
CONSTANTS
    Desk = {d1, d2}
    Worker = {w1}
    Retries = {t1, t2}
    Cap = 2
    LastDay = 2
SYMMETRY RequestSymmetry
INVARIANTS CapUnlessStray
CHECK_DEADLOCK FALSE
