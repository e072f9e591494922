SPECIFICATION Spec
CONSTANTS
    t1 = t1
    t2 = t2
    j1 = j1
    j2 = j2
    Job = {j1}
    NoJob = NoJob
    Task = {t1}
    Blocks <- TwoBlocks
    Layers = {"Ethereum"}
    MaxProcessAttempts <- Once
    MaxVerificationAttempts <- TenTimes
    Routes = {"retry"}
    Faults = {"call"}
    MaxMishaps = 1
    MaxRetries = 1
    MaxReverifications = 0
INVARIANT RetryResumes
CHECK_DEADLOCK FALSE
