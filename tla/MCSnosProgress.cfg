SPECIFICATION FairSpec
CONSTANTS
    t1 = t1 t2 = t2 t3 = t3 r1 = r1 r2 = r2 j1 = j1 j2 = j2
    NoJob = NoJob
    Job = {j1, j2}
    Task = {t1, t2}
    Replica = {r1}
    Host <- OneHost
    Limited = {j1, j2}
    MaxSnosJobs = 1
    MaxProcessAttempts <- Attempts1
    MaxVerificationAttempts <- Polls0
    MaxReceives = 1
    Routes = {}
    Faults = {"alert", "slow"}
    MaxRetries = 0
    MaxReverifications = 0
    MaxQueued = 1
\* The system rests when all its jobs do.
CHECK_DEADLOCK FALSE
INVARIANTS PermitsConserved SnosCapacity
PROPERTY Settles
