SPECIFICATION LiveSpec
CONSTANTS
    Process = {p1, p2}
    Deployments <- MCDeployments
    MaxSetups = 2
    MaxMishaps = 1
INVARIANTS Wired OneServer RefusedExplained
PROPERTY EveryWorkerRuns
CHECK_DEADLOCK FALSE
