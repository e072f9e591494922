SPECIFICATION Spec
CONSTANTS
    t1 = t1 t2 = t2 t3 = t3 r1 = r1 r2 = r2 j1 = j1 j2 = j2
    NoJob = NoJob
    Job = {j1}
    Task = {t1, t2}
    Replica = {r1}
    Host <- OneHost
    Limited = {}
    MaxSnosJobs = 1
    MaxProcessAttempts <- Attempts2
    MaxVerificationAttempts <- Polls1
    MaxReceives = 2
    Routes = {}
    Faults = {"call", "alert", "slow", "panic", "crash"}
    MaxRetries = 0
    MaxReverifications = 0
    MaxQueued = 1
SYMMETRY TaskSymmetry
\* The system rests when all its jobs do and no operator calls.
CHECK_DEADLOCK FALSE
INVARIANTS AttemptBounds BoundedRuns
