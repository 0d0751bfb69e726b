SPECIFICATION Spec
CONSTANTS
    r1 = r1
    r2 = r2
    NoRun = NoRun
    Runs = {r1}
    MaxBatches = 1
    Budgets <- KillsAndStops
INVARIANTS TypeOK LeaseInHand
PROPERTIES OthersLeaseRespected
\* Once the disturbances are spent and every job has ended, the process waits.
CHECK_DEADLOCK FALSE
