SPECIFICATION FairSpec
CONSTANTS
    t1 = t1
    t2 = t2
    j1 = j1
    j2 = j2
    Job = {j1}
    NoJob = NoJob
    Task = {t1, t2}
    Blocks <- TwoBlocks
    Layers = {"Ethereum", "Starknet"}
    MaxProcessAttempts <- Once
    MaxVerificationAttempts <- TenTimes
    Routes = {"retry", "verify"}
    Faults = {"call", "output", "slow", "crash", "late"}
    MaxMishaps = 1
    MaxRetries = 1
    MaxReverifications = 1
INVARIANTS TypeOK CompletedIsSettled SentOnce NoBlockSkipped HashesInOrder NoneWasted
PROPERTY Settles
CHECK_DEADLOCK FALSE
