------------------------------- MODULE JobStore -------------------------------
(***************************************************************************)
(* The collection and the queues as the handler of one job sees them.      *)
(* JobLifecycle shows that a job's document moves by whole moves of        *)
(* JobContract, and that a task which read the job can only write while    *)
(* the document still has the version it read.  Here that is all there is: *)
(* `current` holds the tasks whose copy has the version in the store, and  *)
(* a queue holds a message about a job or not.  A handler of one job type  *)
(* is specified on top of this module.                                     *)
(***************************************************************************)
EXTENDS Naturals, Sequences, FiniteSets

CONSTANTS
    Job,
    NoJob,                      \* the job of an idle task
    Task,                       \* tokio tasks that handle messages
    MaxProcessAttempts,         \* max_process_attempts of each job's handler
    MaxVerificationAttempts,    \* max_verification_attempts of each handler
    Routes,                     \* operator endpoints in use: subset of {"retry", "verify"}
    Faults,                     \* kinds of faults that happen
    MaxMishaps,                 \* bound: faults in one behaviour
    MaxRetries,                 \* bound: retry requests per job
    MaxReverifications          \* bound: verify requests per job

ASSUME JobStoreAssumption ==
    /\ NoJob \notin Job
    /\ Task # {}
    /\ MaxProcessAttempts \in [Job -> Nat \ {0}]
    /\ MaxVerificationAttempts \in [Job -> Nat]
    /\ Routes \subseteq {"retry", "verify"}
    /\ MaxMishaps \in Nat /\ MaxRetries \in Nat /\ MaxReverifications \in Nat

VARIABLES
    book,       \* the entry of every job
    current,    \* the tasks whose copy of a job has the version in the store
    mail,       \* the queues that hold a message about a job
    mishaps     \* number of faults so far

storeVars == <<book, current, mail>>

Contract == INSTANCE JobContract

Queues == {"process", "verify", "failure"}

StoreTypeOK ==
    /\ book \in [Job -> Contract!Entries]
    /\ current \in [Job -> SUBSET Task]
    /\ mail \in [Job -> SUBSET Queues]
    /\ mishaps \in 0 .. MaxMishaps

StoreInit ==
    /\ Contract!Init
    /\ current = [j \in Job |-> {}]
    /\ mail = [j \in Job |-> {}]
    /\ mishaps = 0

-------------------------------------------------------------------------------
(* Messages *)

Put(j, q)  == mail' = [mail EXCEPT ![j] = @ \cup {q}]
Take(j, q) == q \in mail[j] /\ mail' = [mail EXCEPT ![j] = @ \ {q}]

\* Only the copies of the tasks in `owners` are up to date from now on.
Owned(j, owners) == current' = [current EXCEPT ![j] = owners]

Processable == {"Created", "VerificationFailed", "PendingRetry"}

CreateJob(j) == Contract!Create(j) /\ Put(j, "process") /\ UNCHANGED current

\* Mutant of TakeToProcess: a job found locked is processed once more.
TakeLocked(t, j) ==
    /\ book[j].status \in Processable \cup {"LockedForProcessing"}
    /\ book' = [book EXCEPT ![j].status = "LockedForProcessing"]
    /\ Take(j, "process")
    /\ Owned(j, {t})

\* process_job reads the job and locks it.
TakeToProcess(t, j) == Take(j, "process") /\ Contract!Lock(j) /\ Owned(j, {t})

\* verify_job reads the job and writes its verification timestamp.
TakeToVerify(t, j) ==
    /\ Take(j, "verify")
    /\ book[j].status \in Contract!Verifiable
    /\ Owned(j, {t})
    /\ UNCHANGED book

\* handle_job_failure.
HandleFailure(j) == Take(j, "failure") /\ Contract!Abandon(j) /\ Owned(j, {})

\* A message is received that does not fit the job's status.
Dismiss(j, q) ==
    /\ Take(j, q)
    /\ CASE q = "process" -> book[j].status \notin Processable
         [] q = "verify"  -> book[j].status \notin Contract!Verifiable
         [] q = "failure" -> book[j].status \in {"Completed", "Failed"}
    /\ UNCHANGED <<book, current>>

\* retry_job.
Retry(j) ==
    /\ book[j].processRetry < MaxRetries
    /\ Contract!Retry(j) /\ Put(j, "process") /\ Owned(j, {})

\* queue_job_for_verification.
Reverify(j) ==
    /\ book[j].verificationRetry < MaxReverifications
    /\ Contract!Reverify(j) /\ Put(j, "verify") /\ Owned(j, {})

\* What happens to a job beside the work of its handler.
Discard(j)   == HandleFailure(j) \/ \E q \in Queues : Dismiss(j, q)
Intervene(j) == Retry(j) \/ Reverify(j)

-------------------------------------------------------------------------------
(* update_job at the end of a handler *)

Fresh(t, j) == t \in current[j]

\* process_job: PendingVerification, or move_job_to_failed.
RecordProcessed(t, j) == Fresh(t, j) /\ Contract!Finish(j)  /\ Owned(j, {t}) /\ UNCHANGED mail
RecordFailed(t, j)    == Fresh(t, j) /\ Contract!Abandon(j) /\ Owned(j, {})  /\ UNCHANGED mail

\* verify_job: Verified, Rejected with and without an attempt left, Pending.
RecordVerified(t, j)  == Fresh(t, j) /\ Contract!Accept(j)  /\ Owned(j, {})  /\ UNCHANGED mail
RecordRejected(t, j)  == Fresh(t, j) /\ Contract!Reject(j)  /\ Owned(j, {t}) /\ UNCHANGED mail
RecordExhausted(t, j) == /\ book[j].processAttempt >= MaxProcessAttempts[j]
                         /\ RecordFailed(t, j)
RecordPending(t, j)   == Fresh(t, j) /\ Contract!Poll(j)    /\ Owned(j, {t}) /\ UNCHANGED mail
RecordTimeout(t, j)   == Fresh(t, j) /\ Contract!GiveUp(j)  /\ Owned(j, {})  /\ UNCHANGED mail

-------------------------------------------------------------------------------
(* Faults *)

Mishap(kind) ==
    /\ kind \in Faults
    /\ mishaps < MaxMishaps
    /\ mishaps' = mishaps + 1

\* A message of queue `q` is visible again, in the failure queue in the end.
Reappear(j, q) == q # "none" /\ (Put(j, q) \/ Put(j, "failure"))

\* An operator has retried or verified job j again.
SteppedIn(j) == book[j].processRetry + book[j].verificationRetry > 0
===============================================================================
