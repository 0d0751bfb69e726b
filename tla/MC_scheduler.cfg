SPECIFICATION FairSpec
CONSTANTS
    r1 = r1
    r2 = r2
    Runs = {r1, r2}
    Procs = {1, 2}
    Gone = 3
    Interval = 2
    LeaseTime = 1
    MaxAttempts = 2
    TicksFit = TRUE
    Budgets <- Mixes
INVARIANTS OneTickAtATime 
PROPERTIES Cadence NeverReruns OldestFirst ReadyRunsSettle
