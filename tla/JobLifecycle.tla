----------------------------- MODULE JobLifecycle -----------------------------
(***************************************************************************)
(* The life of jobs in the orchestrator: create_job, process_job,          *)
(* verify_job, handle_job_failure and the operator routes of               *)
(* orchestrator/src/jobs/mod.rs, run by tokio tasks that the queue         *)
(* consumers spawn, over a MongoDB collection with optimistic locking and  *)
(* SQS queues that deliver at least once.                                  *)
(*                                                                         *)
(* A task performs one call to the database or a queue per step and keeps  *)
(* the job it read (task[t].doc) meanwhile; every other task may act       *)
(* between two of its steps.  Delays, wording and metrics are left out.    *)
(***************************************************************************)
EXTENDS Naturals, FiniteSets

CONSTANTS
    Job,                        \* the (job type, internal id) pairs
    NoJob,                      \* the job of an idle task
    Task,                       \* tokio tasks that handle messages or requests
    Replica,                    \* orchestrator processes
    Host,                       \* the replica each task runs on
    Limited,                    \* jobs whose handler has a job_processing_lock (SNOS)
    MaxSnosJobs,                \* permits of the lock: max_concurrent_snos_jobs
    MaxProcessAttempts,         \* max_process_attempts of each job's handler
    MaxVerificationAttempts,    \* max_verification_attempts of each handler
    MaxReceives,                \* maxReceiveCount of the queues' redrive policy
    Routes,                     \* operator endpoints in use: subset of RouteNames
    Faults,                     \* what may go wrong: subset of FaultNames
    MaxRetries,                 \* bound: retry requests per job
    MaxReverifications,         \* bound: verify requests per job
    MaxQueued                   \* bound: copies of one message made by faults or /process

RouteNames == {"process", "verify", "retry"}

(***************************************************************************)
(* "call"  : a database or queue call, or a handler's verify_job, errs     *)
(* "alert" : the alert about a failed handler cannot be sent               *)
(* "slow"  : a handler outlasts the visibility timeout of its message      *)
(* "panic" : a handler's verify_job panics                                 *)
(* "crash" : a replica stops and starts again                              *)
(***************************************************************************)
FaultNames == {"call", "alert", "slow", "panic", "crash"}

ASSUME ConstantsAssumption ==
    /\ NoJob \notin Job
    /\ IsFiniteSet(Task)
    /\ Host \in [Task -> Replica]
    /\ Limited \subseteq Job
    /\ MaxSnosJobs \in Nat \ {0}
    /\ MaxProcessAttempts \in [Job -> Nat \ {0}]
    /\ MaxVerificationAttempts \in [Job -> Nat]
    /\ MaxReceives \in Nat \ {0}
    /\ Routes \subseteq RouteNames
    /\ Faults \subseteq FaultNames
    /\ MaxRetries \in Nat /\ MaxReverifications \in Nat /\ MaxQueued \in Nat

VARIABLES
    jobs,       \* the collection: the document of every job
    queue,      \* number of visible messages in every slot
    task,       \* what every task is doing
    permits,    \* free permits of every replica's semaphore
    active,     \* active_jobs of every replica's JobProcessingState
    runs        \* history: handler executions of a job since its last retry

vars == <<jobs, queue, task, permits, active, runs>>

-------------------------------------------------------------------------------
(* Documents, messages and tasks *)

Statuses == {"Created", "LockedForProcessing", "PendingVerification", "Completed",
             "VerificationTimeout", "VerificationFailed", "Failed", "PendingRetry"}

Docs == [status : Statuses \cup {"Absent"}, version : Nat,
         processAttempt : Nat, verificationAttempt : Nat,
         processRetry : Nat, verificationRetry : Nat,
         externalId : BOOLEAN]                           \* external_id is set

Absent == [status |-> "Absent", version |-> 0,
           processAttempt |-> 0, verificationAttempt |-> 0,
           processRetry |-> 0, verificationRetry |-> 0, externalId |-> FALSE]

NewJob == [Absent EXCEPT !.status = "Created"]

\* The process and verification queue of the job's type, and JobHandleFailure.
Queues == {"process", "verify", "failure"}

\* A message <<q, j, n>> names job j; its next delivery is its n-th.
Slot == Queues \X Job \X (1 .. MaxReceives)

\* Where a message goes that was received and not acknowledged in time.
Redelivered(s) ==
    CASE s[1] = "failure"                       -> s
      [] s[1] # "failure" /\ s[3] < MaxReceives -> <<s[1], s[2], s[3] + 1>>
      [] s[1] # "failure" /\ s[3] >= MaxReceives -> <<"failure", s[2], 1>>

Steps == {"insert", "acquire", "claim", "run", "announce", "stamp", "check",
          "requeue", "markFailed", "markRetry", "markVerify"}

Tasks == [pc : Steps \cup {"idle"}, job : Job \cup {NoJob}, doc : Docs,
          msg : SUBSET Slot,                             \* the delivery it holds
          permit : BOOLEAN]

Idle == [pc |-> "idle", job |-> NoJob, doc |-> Absent, msg |-> {}, permit |-> FALSE]

\* The queues once the deliveries held by the tasks of T are visible again.
Returned(q0, T) ==
    [s \in Slot |->
        q0[s] + Cardinality({t \in T : \E m \in task[t].msg : Redelivered(m) = s})]

Sent(q0, s) == [q0 EXCEPT ![s] = @ + 1]

TypeOK ==
    /\ jobs \in [Job -> Docs]
    /\ queue \in [Slot -> Nat]
    /\ task \in [Task -> Tasks]
    /\ permits \in [Replica -> 0 .. MaxSnosJobs]
    /\ active \in [Replica -> SUBSET Job]
    /\ runs \in [Job -> Nat]

Init ==
    /\ jobs = [j \in Job |-> Absent]
    /\ queue = [s \in Slot |-> 0]
    /\ task = [t \in Task |-> Idle]
    /\ permits = [r \in Replica |-> MaxSnosJobs]
    /\ active = [r \in Replica |-> {}]
    /\ runs = [j \in Job |-> 0]

-------------------------------------------------------------------------------
(* How a handler starts, updates its job and returns *)

Begin(t, j, pc, msg) ==
    /\ task[t].pc = "idle"
    /\ task' = [task EXCEPT ![t] = [pc |-> pc, job |-> j, doc |-> jobs[j],
                                    msg |-> msg, permit |-> FALSE]]

\* Mutants of End: the permit is forgotten; a permit is given back by every task.
EndLeaksPermit(t) ==
    /\ task' = [task EXCEPT ![t] = Idle]
    /\ UNCHANGED permits

EndForgesPermit(t) ==
    /\ task' = [task EXCEPT ![t] = Idle]
    /\ permits' = [permits EXCEPT ![Host[t]] = @ + 1]

\* The task ends; its semaphore permit, if any, is dropped with it.
End(t) ==
    /\ task' = [task EXCEPT ![t] = Idle]
    /\ permits' = IF task[t].permit THEN [permits EXCEPT ![Host[t]] = @ + 1] ELSE permits

\* The handler returned Err: an alert is sent and the message acknowledged all
\* the same; when the alert cannot be sent the message is left to reappear.
EndErr(t, q0) ==
    /\ End(t)
    /\ \/ queue' = q0
       \/ /\ "alert" \in Faults
          /\ \A m \in task[t].msg : q0[Redelivered(m)] < MaxQueued
          /\ queue' = Returned(q0, {t})
    /\ UNCHANGED active

\* Mutant of Fresh: update_job filters by id only.
FreshById(t) == jobs[task[t].job].status # "Absent"

\* The filter of update_job: id and version still are those that were read.
Fresh(t) == jobs[task[t].job].version = task[t].doc.version

Bumped(doc) == [doc EXCEPT !.version = @ + 1]

\* update_job at step `at` writes doc and hands it on to the step `next`.
UpdateThen(t, at, doc, next) ==
    /\ task[t].pc = at
    /\ Fresh(t)
    /\ jobs' = [jobs EXCEPT ![task[t].job] = Bumped(doc)]
    /\ task' = [task EXCEPT ![t].pc = next, ![t].doc = Bumped(doc)]
    /\ UNCHANGED permits

\* update_job at step `at` writes doc and the handler returns.
UpdateLast(t, at, doc) ==
    /\ task[t].pc = at
    /\ Fresh(t)
    /\ jobs' = [jobs EXCEPT ![task[t].job] = Bumped(doc)]
    /\ End(t)

\* update_job finds no document with that version: the handler returns Err.
UpdateOutdated(t) ==
    /\ task[t].pc \in {"claim", "run", "stamp", "check",
                       "markFailed", "markRetry", "markVerify"}
    /\ ~Fresh(t)
    /\ EndErr(t, queue)
    /\ UNCHANGED <<jobs, runs>>

\* add_job_to_process_queue is the handler's last call.
Requeue(t) ==
    /\ task[t].pc = "requeue"
    /\ queue' = Sent(queue, <<"process", task[t].job, 1>>)
    /\ End(t)
    /\ UNCHANGED <<jobs, active, runs>>

\* add_job_to_verification_queue; process_job then releases its lock.
Announce(t) ==
    /\ task[t].pc = "announce"
    /\ queue' = Sent(queue, <<"verify", task[t].job, 1>>)
    /\ active' = IF task[t].permit
                 THEN [active EXCEPT ![Host[t]] = @ \ {task[t].job}]
                 ELSE active
    /\ End(t)
    /\ UNCHANGED <<jobs, runs>>

-------------------------------------------------------------------------------
(* create_job *)

StartCreate(t, j) ==
    /\ jobs[j].status = "Absent"
    /\ Begin(t, j, "insert", {})
    /\ UNCHANGED <<jobs, queue, permits, active, runs>>

\* The upsert inserts the document only when there is none yet.
Insert(t) ==
    /\ task[t].pc = "insert"
    /\ jobs[task[t].job].status = "Absent"
    /\ jobs' = [jobs EXCEPT ![task[t].job] = NewJob]
    /\ task' = [task EXCEPT ![t].pc = "requeue", ![t].doc = NewJob]
    /\ UNCHANGED <<queue, permits, active, runs>>

InsertExists(t) ==
    /\ task[t].pc = "insert"
    /\ jobs[task[t].job].status # "Absent"
    /\ EndErr(t, queue)
    /\ UNCHANGED <<jobs, runs>>

-------------------------------------------------------------------------------
(* Queue consumers: a task is spawned for every message received *)

Processable == {"Created", "VerificationFailed", "PendingRetry"}
Verifiable  == {"PendingVerification", "VerificationTimeout"}

\* Mutants of Accepts: process_job resumes a job it finds locked;
\* move_job_to_failed does not spare finished jobs.
AcceptsLocked(q, status) ==
    \/ q = "process" /\ status \in Processable \cup {"LockedForProcessing"}
    \/ q = "verify"  /\ status \in Verifiable
    \/ q = "failure" /\ status \notin {"Completed", "Failed", "Absent"}

AcceptsAnyFailure(q, status) ==
    \/ q = "process" /\ status \in Processable
    \/ q = "verify"  /\ status \in Verifiable
    \/ q = "failure" /\ status # "Absent"

\* The statuses in which a message of queue q makes its handler act on the job.
Accepts(q, status) ==
    \/ q = "process" /\ status \in Processable
    \/ q = "verify"  /\ status \in Verifiable
    \/ q = "failure" /\ status \notin {"Completed", "Failed", "Absent"}

FirstStep(q, j) ==
    CASE q = "process" /\ j \in Limited -> "acquire"
      [] q = "process" /\ j \notin Limited -> "claim"
      [] q = "verify"  -> "stamp"
      [] q = "failure" -> "markFailed"

\* The message is received and the handler reads the job it names.
Receive(t, q, j, n) ==
    /\ queue[<<q, j, n>>] > 0
    /\ Accepts(q, jobs[j].status)
    /\ queue' = [queue EXCEPT ![<<q, j, n>>] = @ - 1]
    /\ Begin(t, j, FirstStep(q, j), {<<q, j, n>>})
    /\ UNCHANGED <<jobs, permits, active, runs>>

\* The message is received and its handler returns at once: the status is not
\* one it acts on, or the job cannot be read.
Dismiss(q, j, n) ==
    /\ queue[<<q, j, n>>] > 0
    /\ ~Accepts(q, jobs[j].status) \/ "call" \in Faults
    /\ \E acked \in BOOLEAN :
           /\ ~acked => "alert" \in Faults
           /\ LET taken == [queue EXCEPT ![<<q, j, n>>] = @ - 1]
                  back  == Redelivered(<<q, j, n>>)
              IN  /\ ~acked => taken[back] < MaxQueued
                  /\ queue' = IF acked THEN taken ELSE Sent(taken, back)
    /\ UNCHANGED <<jobs, task, permits, active, runs>>

-------------------------------------------------------------------------------
(* process_job *)

\* try_acquire_lock gets a permit of the replica's semaphore.
Acquire(t) ==
    /\ task[t].pc = "acquire"
    /\ permits[Host[t]] > 0
    /\ permits' = [permits EXCEPT ![Host[t]] = @ - 1]
    /\ active' = [active EXCEPT ![Host[t]] = @ \cup {task[t].job}]
    /\ task' = [task EXCEPT ![t].pc = "claim", ![t].permit = TRUE]
    /\ UNCHANGED <<jobs, queue, runs>>

\* try_acquire_lock times out: a new message is sent, and Err is returned.
AtCapacity(t) ==
    /\ task[t].pc = "acquire"
    /\ permits[Host[t]] = 0
    /\ EndErr(t, Sent(queue, <<"process", task[t].job, 1>>))
    /\ UNCHANGED <<jobs, runs>>

Claim(t) ==
    /\ UpdateThen(t, "claim", [task[t].doc EXCEPT !.status = "LockedForProcessing"], "run")
    /\ runs' = [runs EXCEPT ![task[t].job] = @ + 1]
    /\ UNCHANGED <<queue, active>>

\* The handler's process_job returned an external id.
ProcessSucceeds(t) ==
    /\ UpdateThen(t, "run",
                  [task[t].doc EXCEPT !.status = "PendingVerification",
                                      !.processAttempt = @ + 1,
                                      !.externalId = TRUE], "announce")
    /\ UNCHANGED <<queue, active, runs>>

\* Mutant of ProcessFails: the error is ignored and the job goes on to verification.
ProcessErrorIgnored(t) ==
    /\ UpdateThen(t, "run", [task[t].doc EXCEPT !.status = "PendingVerification"], "announce")
    /\ UNCHANGED <<queue, active, runs>>

\* The handler's process_job returned Err or panicked: move_job_to_failed.
ProcessFails(t) ==
    /\ UpdateLast(t, "run", [task[t].doc EXCEPT !.status = "Failed"])
    /\ UNCHANGED <<queue, active, runs>>

-------------------------------------------------------------------------------
(* verify_job *)

\* The metadata-only update before the handler's verify_job is called.
StampVerification(t) ==
    /\ UpdateThen(t, "stamp", task[t].doc, "check")
    /\ UNCHANGED <<queue, active, runs>>

Verified(t) ==
    /\ UpdateLast(t, "check", [task[t].doc EXCEPT !.status = "Completed"])
    /\ UNCHANGED <<queue, active, runs>>

\* Mutant of AttemptsLeft: off by one.
AttemptsLeftOrEqual(t) ==
    task[t].doc.processAttempt <= MaxProcessAttempts[task[t].job]

AttemptsLeft(t) == task[t].doc.processAttempt < MaxProcessAttempts[task[t].job]
PollsLeft(t) ==
    task[t].doc.verificationAttempt < MaxVerificationAttempts[task[t].job]

RejectedRetry(t) ==
    /\ UpdateThen(t, "check", [task[t].doc EXCEPT !.status = "VerificationFailed"], "requeue")
    /\ AttemptsLeft(t)
    /\ UNCHANGED <<queue, active, runs>>

RejectedLast(t) ==
    /\ UpdateLast(t, "check", [task[t].doc EXCEPT !.status = "Failed"])
    /\ ~AttemptsLeft(t)
    /\ UNCHANGED <<queue, active, runs>>

\* Mutant of StillPending: the job is not queued for its next poll.
PendingForgotten(t) ==
    /\ UpdateLast(t, "check", [task[t].doc EXCEPT !.verificationAttempt = @ + 1])
    /\ PollsLeft(t)
    /\ UNCHANGED <<queue, active, runs>>

StillPending(t) ==
    /\ UpdateThen(t, "check", [task[t].doc EXCEPT !.verificationAttempt = @ + 1], "announce")
    /\ PollsLeft(t)
    /\ UNCHANGED <<queue, active, runs>>

TimedOut(t) ==
    /\ UpdateLast(t, "check", [task[t].doc EXCEPT !.status = "VerificationTimeout"])
    /\ ~PollsLeft(t)
    /\ UNCHANGED <<queue, active, runs>>

-------------------------------------------------------------------------------
(* handle_job_failure and the operator routes *)

MarkFailed(t) ==
    /\ UpdateLast(t, "markFailed", [task[t].doc EXCEPT !.status = "Failed"])
    /\ UNCHANGED <<queue, active, runs>>

StartRetry(t, j) ==
    /\ "retry" \in Routes
    /\ jobs[j].status = "Failed"
    /\ jobs[j].processRetry < MaxRetries
    /\ Begin(t, j, "markRetry", {})
    /\ UNCHANGED <<jobs, queue, permits, active, runs>>

MarkRetry(t) ==
    /\ UpdateThen(t, "markRetry",
                  [task[t].doc EXCEPT !.status = "PendingRetry", !.processAttempt = 0,
                                      !.processRetry = @ + 1], "requeue")
    /\ runs' = [runs EXCEPT ![task[t].job] = 0]
    /\ UNCHANGED <<queue, active>>

\* queue_job_for_verification accepts the job in whatever status it is.
StartVerifyRequest(t, j) ==
    /\ "verify" \in Routes
    /\ jobs[j].status # "Absent"
    /\ jobs[j].verificationRetry < MaxReverifications
    /\ Begin(t, j, "markVerify", {})
    /\ UNCHANGED <<jobs, queue, permits, active, runs>>

MarkVerify(t) ==
    /\ UpdateThen(t, "markVerify",
                  [task[t].doc EXCEPT !.status = "PendingVerification",
                                      !.verificationAttempt = 0,
                                      !.verificationRetry = @ + 1], "announce")
    /\ UNCHANGED <<queue, active, runs>>

\* queue_job_for_processing only sends a message.
QueueForProcessing(j) ==
    /\ "process" \in Routes
    /\ jobs[j].status # "Absent"
    /\ queue[<<"process", j, 1>>] < MaxQueued
    /\ queue' = Sent(queue, <<"process", j, 1>>)
    /\ UNCHANGED <<jobs, task, permits, active, runs>>

-------------------------------------------------------------------------------
(* Faults *)

\* The task's next call errs and the handler returns early with `?`.
CallFails(t) ==
    /\ "call" \in Faults
    /\ task[t].pc # "idle"
    /\ EndErr(t, queue)
    /\ UNCHANGED <<jobs, runs>>

\* A panic in the handler's verify_job ends the task without acknowledgement.
VerifyPanics(t) ==
    /\ "panic" \in Faults
    /\ task[t].pc = "check"
    /\ queue' = Returned(queue, {t})
    /\ End(t)
    /\ UNCHANGED <<jobs, active, runs>>

\* The visibility timeout ends while the handler is at work.
Expire(t) ==
    /\ "slow" \in Faults
    /\ task[t].msg # {}
    /\ \A m \in task[t].msg : queue[Redelivered(m)] < MaxQueued
    /\ queue' = Returned(queue, {t})
    /\ task' = [task EXCEPT ![t].msg = {}]
    /\ UNCHANGED <<jobs, permits, active, runs>>

\* Replica r stops with all its tasks; what they held in memory is gone.
Crash(r) ==
    LET lost == {t \in Task : Host[t] = r} IN
    /\ "crash" \in Faults
    /\ \E t \in lost : task[t].pc # "idle"
    /\ queue' = Returned(queue, lost)
    /\ task' = [t \in Task |-> IF t \in lost THEN Idle ELSE task[t]]
    /\ permits' = [permits EXCEPT ![r] = MaxSnosJobs]
    /\ active' = [active EXCEPT ![r] = {}]
    /\ UNCHANGED <<jobs, runs>>

-------------------------------------------------------------------------------
TaskStep(t) ==
    \/ Insert(t) \/ InsertExists(t)
    \/ Acquire(t) \/ AtCapacity(t) \/ Claim(t) \/ ProcessSucceeds(t) \/ ProcessFails(t)
    \/ StampVerification(t) \/ Verified(t) \/ RejectedRetry(t) \/ RejectedLast(t)
    \/ StillPending(t) \/ TimedOut(t)
    \/ MarkFailed(t) \/ MarkRetry(t) \/ MarkVerify(t)
    \/ Requeue(t) \/ Announce(t) \/ UpdateOutdated(t)

Request(t, j) == StartCreate(t, j) \/ StartRetry(t, j) \/ StartVerifyRequest(t, j)

Fault(t) == CallFails(t) \/ VerifyPanics(t) \/ Expire(t)

Next ==
    \/ \E t \in Task : TaskStep(t) \/ Fault(t)
    \/ \E t \in Task, j \in Job : Request(t, j)
    \/ \E t \in Task, q \in Queues, j \in Job, n \in 1 .. MaxReceives : Receive(t, q, j, n)
    \/ \E q \in Queues, j \in Job, n \in 1 .. MaxReceives : Dismiss(q, j, n)
    \/ \E j \in Job : QueueForProcessing(j)
    \/ \E r \in Replica : Crash(r)

Spec == Init /\ [][Next]_vars

\* A spawned task runs on, and the consumer loops keep receiving.
Fairness ==
    /\ \A t \in Task : WF_vars(TaskStep(t))
    /\ \A q \in Queues, j \in Job, n \in 1 .. MaxReceives :
           WF_vars(Dismiss(q, j, n) \/ \E t \in Task : Receive(t, q, j, n))

FairSpec == Spec /\ Fairness

-------------------------------------------------------------------------------
(* Safety *)

\* Whatever goes wrong, two executions of a job's handler never hold the same
\* version of the job, and an execution that still holds the current version
\* sees the job locked: at most one of them can record its result.  This is what
\* the version filter of update_job gives process_job.
FencedRuns ==
    /\ \A t1, t2 \in Task :
           /\ task[t1].pc = "run" /\ task[t2].pc = "run"
           /\ task[t1].job = task[t2].job
           /\ t1 # t2
           => task[t1].doc.version # task[t2].doc.version
    /\ \A t \in Task : task[t].pc = "run" /\ Fresh(t) =>
           jobs[task[t].job].status = "LockedForProcessing"

\* The attempt counters respect the handler's maxima; a job sent back for
\* reprocessing has an attempt left, a job that timed out has used all its polls.
AttemptBounds ==
    \A j \in Job :
        /\ jobs[j].processAttempt <= MaxProcessAttempts[j]
        /\ jobs[j].status \in Processable \cup {"LockedForProcessing"} =>
               jobs[j].processAttempt < MaxProcessAttempts[j]
        /\ jobs[j].verificationAttempt <= MaxVerificationAttempts[j]
        /\ jobs[j].status = "VerificationTimeout" =>
               jobs[j].verificationAttempt = MaxVerificationAttempts[j]

\* While a handler executes a job no other task executes it ("no other system to
\* process the job", JobStatus::LockedForProcessing), unless an operator intervened:
\* two tasks execute a job side by side only when a retry or a /verify came between
\* their starts.  Redelivered, repeated and outdated messages, panics, crashes and
\* the failure queue never give a job a second runner.
OneRunnerPerIntervention ==
    \A t1, t2 \in Task :
        /\ task[t1].pc = "run" /\ task[t2].pc = "run"
        /\ task[t1].job = task[t2].job
        /\ task[t1].doc.processRetry = task[t2].doc.processRetry
        /\ task[t1].doc.verificationRetry = task[t2].doc.verificationRetry
        => t1 = t2

\* A job is verified, rejected, timed out or completed on an attempt that its handler's
\* process_job made since the last retry, with an external id to verify - however late
\* the messages and handlers of earlier attempts are -, or because an operator called
\* /verify, which queue_job_for_verification grants to a job in whatever status it is.
ProcessedBeforeVerdict ==
    \A j \in Job :
        jobs[j].status \in {"PendingVerification", "VerificationTimeout",
                            "VerificationFailed", "Completed"} =>
            \/ jobs[j].externalId /\ jobs[j].processAttempt > 0
            \/ jobs[j].verificationRetry > 0

\* Between two retries by an operator a handler is started on a job at most
\* max_process_attempts times, crashes and repeated messages included.
BoundedRuns == \A j \in Job : runs[j] <= MaxProcessAttempts[j]

Holders(r) == {t \in Task : Host[t] = r /\ task[t].permit}

\* No way out of a handler - success, failure, panic, crash - loses or forges a
\* permit of the semaphore.
PermitsConserved ==
    \A r \in Replica : permits[r] + Cardinality(Holders(r)) = MaxSnosJobs

SnosRuns(r) == {t \in Task : Host[t] = r /\ task[t].pc = "run" /\ task[t].job \in Limited}

\* However messages are repeated and tasks fail, a process executes at most
\* max_concurrent_snos_jobs SNOS handlers at a time.
SnosCapacity == \A r \in Replica : Cardinality(SnosRuns(r)) <= MaxSnosJobs

\* Some message or some task that still holds the current version of job j will
\* take it further.
Visible(q, j) == \E n \in 1 .. MaxReceives : queue[<<q, j, n>>] > 0

InCharge(j, steps) == \E t \in Task : task[t].job = j /\ task[t].pc \in steps /\ Fresh(t)

Attended(j) ==
    LET status == jobs[j].status IN
    /\ status \in Processable =>
           Visible("process", j) \/ InCharge(j, {"requeue", "acquire", "claim"})
    /\ status = "LockedForProcessing" => InCharge(j, {"run"})
    /\ status = "PendingVerification" =>
           Visible("verify", j) \/ InCharge(j, {"announce", "stamp", "check"})

\* No job waits for a message that nobody is going to send: a job that is not
\* finished has a message in a queue or a task that will act on it.
NoStrandedJob ==
    \A j \in Job : Attended(j) \/ Visible("failure", j) \/ InCharge(j, {"markFailed"})

(* Refinement *)

\* The view of the collection that JobContract speaks of.
Entry(j) == [status |-> jobs[j].status,
             processAttempt |-> jobs[j].processAttempt,
             verificationAttempt |-> jobs[j].verificationAttempt,
             processRetry |-> jobs[j].processRetry,
             verificationRetry |-> jobs[j].verificationRetry]

Contract == INSTANCE JobContract WITH book <- [j \in Job |-> Entry(j)]

\* Handlers that work on stale snapshots are invisible in the collection: every
\* change of a job is one whole move of the contract from the job's current entry,
\* so no update is lost and no counter goes back.
RefinesContract == Contract!Spec

\* What a worker's queries tell of a job in a status.
Standing(status) ==
    CASE status \in {"Created", "LockedForProcessing", "PendingVerification", "PendingRetry"} -> "Open"
      [] status = "VerificationFailed" -> "Rejected"
      [] status \in {"Failed", "VerificationTimeout"} -> "Halted"
      [] status \in {"Absent", "Completed"} -> status

Outcome == INSTANCE JobOutcome
               WITH standing <- [j \in Job |-> Standing(jobs[j].status)],
                    Outcomes <- {"reject", "halt"} \cup (Routes \ {"process"})

\* What the workers may assume of jobs holds of them: a completed job is reopened by
\* an operator's /verify only, and nothing but an operator reopens a failed one.
RefinesOutcome == Outcome!Spec

(* Liveness *)

\* Without faults every job that was created comes to rest: completed, failed or
\* timed out.
Settles ==
    \A j \in Job :
        jobs[j].status # "Absent"
            ~> jobs[j].status \in {"Completed", "Failed", "VerificationTimeout"}
===============================================================================
