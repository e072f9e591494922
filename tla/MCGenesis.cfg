SPECIFICATION FairSpec
CONSTANTS
    t1 = t1
    t2 = t2
    j1 = j1
    j2 = j2
    Job = {j1}
    NoJob = NoJob
    Task = {t1, t2}
    Blocks <- FromZero
    Layers = {"Ethereum"}
    MaxProcessAttempts <- Once
    MaxVerificationAttempts <- TenTimes
    Routes = {}
    Faults = {"slow"}
    MaxMishaps = 1
    MaxRetries = 1
    MaxReverifications = 1
PROPERTY GenesisSettles
CHECK_DEADLOCK FALSE
