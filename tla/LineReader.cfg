\* Every input of up to five bytes in every cut; a zero limit and a zero
\* capacity are raised to one. The source stops at the end or at an error.
CONSTANTS
    MaxInput = 5
    Capacities = {0, 3}
    MaxLineLens = {0, 2}
SPECIFICATION Spec
INVARIANTS TypeOK 
CHECK_DEADLOCK FALSE
