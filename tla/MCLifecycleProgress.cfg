SPECIFICATION FairSpec
CONSTANTS
    t1 = t1 t2 = t2 t3 = t3 r1 = r1 r2 = r2 j1 = j1 j2 = j2
    NoJob = NoJob
    Job = {j1}
    Task = {t1, t2}
    Replica = {r1}
    Host <- OneHost
    Limited = {}
    MaxSnosJobs = 1
    MaxProcessAttempts <- Attempts1
    MaxVerificationAttempts <- Polls1
    MaxReceives = 2
    Routes = {"retry"}
    Faults = {"slow"}
    MaxRetries = 1
    MaxReverifications = 0
    MaxQueued = 1
\* The system rests when all its jobs do and no operator calls.
CHECK_DEADLOCK FALSE
INVARIANT NoStrandedJob
PROPERTY Settles
