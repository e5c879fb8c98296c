SPECIFICATION Spec
CONSTANTS
    Hosts <- Colliding
    Machines = {m1, m2}
    m1 = m1
    m2 = m2
    MinExponent = 2
    MaxExponent = 3
INVARIANTS
    NoDangling
CHECK_DEADLOCK FALSE
