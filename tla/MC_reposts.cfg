SPECIFICATION Spec
CONSTANTS
    r1 = r1
    r2 = r2
    NoRun = NoRun
    Runs = {r1}
    MaxBatches = 2
    Budgets <- Reposts
PROPERTIES ResultStands ImplementsLifecycle
\* Once the disturbances are spent and every job has ended, the process waits.
CHECK_DEADLOCK FALSE
