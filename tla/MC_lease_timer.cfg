SPECIFICATION TimerSpec
CONSTANTS
    Procs = {1, 2, 3}
    Nobody = 0
    Lease = 8
    Beat = 2
    Delay = 2
INVARIANTS GivesUpInTime OverrunIsBounded
