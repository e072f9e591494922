SPECIFICATION FairSpec
CONSTANTS
    t1 = t1
    t2 = t2
    Job = {"snos", "proof", "da"}
    NoJob = NoJob
    Task = {t1, t2}
    MaxProcessAttempts <- Attempts
    MaxVerificationAttempts <- Verifications
    Routes = {"retry", "verify"}
    Faults = {"call", "prove", "lag", "slow", "crash"}
    MaxMishaps = 1
    MaxRetries = 1
    MaxReverifications = 1
INVARIANTS FilesHandedOver ProvenOnChain SubmissionsBounded NoDoubleProving
PROPERTY BecomesReady
CHECK_DEADLOCK FALSE
