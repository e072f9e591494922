----------------------------- MODULE JobContract ------------------------------
(***************************************************************************)
(* What the job store promises a reader of one job: the job moves through  *)
(* its life one whole move at a time, each move taken from the entry that  *)
(* is in the store at that moment.  There are no handlers, snapshots,      *)
(* versions or queues here.  JobLifecycle, where handlers read a job, work *)
(* for minutes and then write, is shown to implement this module.          *)
(***************************************************************************)
EXTENDS Naturals

CONSTANTS
    Job,                        \* the (job type, internal id) pairs
    MaxProcessAttempts,         \* max_process_attempts of each job's handler
    MaxVerificationAttempts,    \* max_verification_attempts of each handler
    Routes                      \* operator endpoints in use

VARIABLE book                   \* the entry of every job

Entries == [status : {"Absent", "Created", "LockedForProcessing", "PendingVerification",
                      "Completed", "VerificationTimeout", "VerificationFailed",
                      "Failed", "PendingRetry"},
            processAttempt : Nat, verificationAttempt : Nat,
            processRetry : Nat, verificationRetry : Nat]

Missing == [status |-> "Absent", processAttempt |-> 0, verificationAttempt |-> 0,
            processRetry |-> 0, verificationRetry |-> 0]

\* The job leaves one of the statuses `from` and its entry becomes `entry`.
Move(j, from, entry) ==
    /\ book[j].status \in from
    /\ book' = [book EXCEPT ![j] = entry]

Create(j)  == Move(j, {"Absent"}, [Missing EXCEPT !.status = "Created"])

Lock(j)    == Move(j, {"Created", "VerificationFailed", "PendingRetry"},
                   [book[j] EXCEPT !.status = "LockedForProcessing"])

Finish(j)  == Move(j, {"LockedForProcessing"},
                   [book[j] EXCEPT !.status = "PendingVerification",
                                   !.processAttempt = @ + 1])

\* A failed attempt, or the failure queue, gives the job up.
Abandon(j) == Move(j, {"Created", "LockedForProcessing", "PendingVerification",
                       "VerificationTimeout", "VerificationFailed", "PendingRetry"},
                   [book[j] EXCEPT !.status = "Failed"])

Verifiable == {"PendingVerification", "VerificationTimeout"}

Accept(j)  == Move(j, Verifiable, [book[j] EXCEPT !.status = "Completed"])

Reject(j)  == /\ book[j].processAttempt < MaxProcessAttempts[j]
              /\ Move(j, Verifiable, [book[j] EXCEPT !.status = "VerificationFailed"])

Poll(j)    == /\ book[j].verificationAttempt < MaxVerificationAttempts[j]
              /\ Move(j, Verifiable, [book[j] EXCEPT !.verificationAttempt = @ + 1])

GiveUp(j)  == /\ book[j].verificationAttempt >= MaxVerificationAttempts[j]
              /\ Move(j, Verifiable, [book[j] EXCEPT !.status = "VerificationTimeout"])

Retry(j)   == /\ "retry" \in Routes
              /\ Move(j, {"Failed"},
                      [book[j] EXCEPT !.status = "PendingRetry", !.processAttempt = 0,
                                      !.processRetry = @ + 1])

\* The operator's /verify accepts every job that exists.
Reverify(j) == /\ "verify" \in Routes
               /\ book[j].status # "Absent"
               /\ book' = [book EXCEPT ![j] =
                      [book[j] EXCEPT !.status = "PendingVerification",
                                      !.verificationAttempt = 0,
                                      !.verificationRetry = @ + 1]]

Init == book = [j \in Job |-> Missing]

Next == \E j \in Job :
            \/ Create(j) \/ Lock(j) \/ Finish(j) \/ Abandon(j)
            \/ Accept(j) \/ Reject(j) \/ Poll(j) \/ GiveUp(j)
            \/ Retry(j) \/ Reverify(j)

Spec == Init /\ [][Next]_book
===============================================================================
