-------------------------- MODULE JobLifecycle_proofs --------------------------
(***************************************************************************)
(* Proofs about JobLifecycle, for any set of jobs, tasks and replicas, any *)
(* attempt bounds, any choice of operator endpoints and of faults.         *)
(*                                                                         *)
(* The types need the count of permits (a permit that is given back was    *)
(* taken before); the fencing of runs needs what a task knows of its job   *)
(* through the document it read.  That no job is stranded is its own       *)
(* induction over who tends it: a message in a queue, or a task that holds *)
(* the current version of its document and is about to act on it.          *)
(*                                                                         *)
(* A task's update takes effect only with the current version, and then    *)
(* the task holds the current document (VersionInv).  So each step is one  *)
(* of the moves of the collection listed below, which mention no task; the *)
(* counters and that JobContract is implemented follow from the moves.     *)
(***************************************************************************)
EXTENDS JobLifecycle, FiniteSetTheorems, TLAPS

-------------------------------------------------------------------------------
(* Types *)

TasksInv ==
    /\ task \in [Task -> Tasks]
    /\ \A t \in Task : IF task[t].pc = "idle" THEN task[t] = Idle ELSE task[t].job \in Job

TypeInv ==
    /\ jobs \in [Job -> Docs]
    /\ queue \in [Slot -> Nat]
    /\ TasksInv
    /\ permits \in [Replica -> Nat]
    /\ active \in [Replica -> SUBSET Job]
    /\ runs \in [Job -> Nat]

(* A redelivered message is in a slot of the queues. *)
LEMMA RedeliveredType == ASSUME NEW s \in Slot PROVE Redelivered(s) \in Slot
  BY ConstantsAssumption DEF Redelivered, Slot, Queues

(* Returning deliveries keeps the queues' type. *)
LEMMA ReturnedType ==
  ASSUME NEW q0 \in [Slot -> Nat], NEW T \in SUBSET Task
  PROVE  Returned(q0, T) \in [Slot -> Nat]
<1>1. IsFiniteSet(T)
  BY FS_Subset, ConstantsAssumption
<1>2. ASSUME NEW s \in Slot
      PROVE  Cardinality({t \in T : \E m \in task[t].msg : Redelivered(m) = s}) \in Nat
  <2> DEFINE S == {t \in T : \E m \in task[t].msg : Redelivered(m) = s}
  <2>1. S \subseteq T
    OBVIOUS
  <2>2. IsFiniteSet(S)
    BY <1>1, <2>1, FS_Subset
  <2> QED
    BY <2>2, FS_CardinalityType
<1> QED
  BY <1>2 DEF Returned

(* Sending a message keeps the queues' type. *)
LEMMA SentType ==
  ASSUME NEW q0 \in [Slot -> Nat], NEW s \in Slot
  PROVE  Sent(q0, s) \in [Slot -> Nat]
  BY DEF Sent

(* The first delivery of a message has a slot. *)
LEMMA SlotType == ASSUME NEW q \in Queues, NEW j \in Job PROVE <<q, j, 1>> \in Slot
  BY ConstantsAssumption DEF Slot

(* An idle task is well typed. *)
LEMMA IdleType == Idle \in Tasks
  BY DEF Idle, Tasks, Absent, Docs, Statuses, Steps

(* The job of a task at work is a job of the system. *)
LEMMA BusyType ==
  ASSUME TypeInv, NEW t \in Task, task[t].pc # "idle"
  PROVE  /\ task[t] \in Tasks
         /\ task[t].job \in Job
         /\ task[t].doc \in Docs
         /\ task[t].msg \subseteq Slot
         /\ jobs[task[t].job] \in Docs
<1>1. task[t] \in Tasks /\ task[t].job \in Job
  BY DEF TypeInv, TasksInv
<1> QED
  BY <1>1 DEF Tasks, TypeInv

(* A task that begins, goes on or ends keeps the type of the tasks. *)
LEMMA TasksType ==
  ASSUME TasksInv, NEW t \in Task, NEW new \in Tasks,
         IF new.pc = "idle" THEN new = Idle ELSE new.job \in Job,
         task' = [task EXCEPT ![t] = new]
  PROVE  TasksInv'
  BY DEF TasksInv

(* Giving a permit back keeps the type of the permits. *)
LEMMA EndType ==
  ASSUME NEW t \in Task, TypeInv, End(t)
  PROVE  TasksInv' /\ permits' \in [Replica -> Nat]
<1>1. TasksInv'
  <2>1. Idle.pc = "idle"
    BY DEF Idle
  <2>2. task' = [task EXCEPT ![t] = Idle]
    BY DEF End
  <2> QED
    BY <2>1, <2>2, IdleType, TasksType DEF TypeInv
<1>2. permits' \in [Replica -> Nat]
  <2>1. CASE permits' = permits
    BY <2>1 DEF TypeInv
  <2>2. CASE permits' = [permits EXCEPT ![Host[t]] = @ + 1]
    <3>1. Host[t] \in Replica
      BY ConstantsAssumption
    <3> QED
      BY <2>2, <3>1 DEF TypeInv
  <2> QED
    BY <2>1, <2>2 DEF End
<1> QED
  BY <1>1, <1>2

(* A handler that returns Err leaves well-typed queues. *)
LEMMA EndErrType ==
  ASSUME NEW t \in Task, TypeInv, NEW q0 \in [Slot -> Nat], EndErr(t, q0)
  PROVE  /\ TasksInv' /\ permits' \in [Replica -> Nat]
         /\ queue' \in [Slot -> Nat]
         /\ active' \in [Replica -> SUBSET Job]
<1>1. queue' = q0 \/ queue' = Returned(q0, {t})
  BY DEF EndErr
<1>2. Returned(q0, {t}) \in [Slot -> Nat]
  BY ReturnedType
<1>3. End(t) /\ active' = active
  BY DEF EndErr
<1> QED
  BY <1>1, <1>2, <1>3, EndType DEF TypeInv

(* Starting a handler keeps the tasks well typed. *)
LEMMA BeginType ==
  ASSUME NEW t \in Task, TypeInv, NEW j \in Job, NEW pc \in Steps, NEW msg \in SUBSET Slot,
         Begin(t, j, pc, msg)
  PROVE  TasksInv'
<1> DEFINE new == [pc |-> pc, job |-> j, doc |-> jobs[j], msg |-> msg, permit |-> FALSE]
<1>1. new \in Tasks
  BY DEF Tasks, TypeInv
<1>2. new.pc # "idle" /\ new.job \in Job
  BY DEF Steps
<1>3. task' = [task EXCEPT ![t] = new]
  BY DEF Begin
<1> HIDE DEF new
<1> QED
  BY <1>1, <1>2, <1>3, TasksType DEF TypeInv

(* Bumping the version keeps a document well typed. *)
LEMMA BumpedType ==
  ASSUME NEW doc \in Docs
  PROVE  /\ Bumped(doc) \in Docs
         /\ Bumped(doc).version = doc.version + 1
         /\ Bumped(doc).status = doc.status
  BY DEF Bumped, Docs

(* Where the handler that wrote a document goes on. *)
LEMMA UpdateThenTask ==
  ASSUME TypeInv, NEW t \in Task, NEW at, NEW doc, NEW next, UpdateThen(t, at, doc, next)
  PROVE  task' = [task EXCEPT ![t] = [task[t] EXCEPT !.pc = next, !.doc = Bumped(doc)]]
  BY DEF UpdateThen, TypeInv, TasksInv, Tasks

(* update_job writes a document, and the task goes on with that document. *)
LEMMA UpdateThenType ==
  ASSUME TypeInv, NEW t \in Task, NEW at \in Steps, NEW doc \in Docs, NEW next \in Steps,
         UpdateThen(t, at, doc, next)
  PROVE  /\ jobs' \in [Job -> Docs] /\ TasksInv' /\ permits' = permits
         /\ jobs' = [jobs EXCEPT ![task[t].job] = Bumped(doc)]
         /\ task' = [task EXCEPT ![t] = [task[t] EXCEPT !.pc = next, !.doc = Bumped(doc)]]
<1> DEFINE d == Bumped(doc)
           new == [task[t] EXCEPT !.pc = next, !.doc = d]
<1>0. task[t].pc # "idle"
  BY DEF UpdateThen, Steps
<1>1. d \in Docs
  BY BumpedType
<1>2. jobs' = [jobs EXCEPT ![task[t].job] = d]
  BY DEF UpdateThen
<1>3. task' = [task EXCEPT ![t] = new]
  BY DEF UpdateThen, TypeInv, TasksInv, Tasks
<1>4. new \in Tasks /\ new.pc = next /\ new.job = task[t].job
  <2> HIDE DEF d
  <2>1. task[t] \in Tasks
    BY DEF TypeInv, TasksInv
  <2> QED
    BY <1>1, <2>1 DEF Tasks
<1> HIDE DEF d, new
<1>5. jobs' \in [Job -> Docs]
  BY <1>1, <1>2 DEF TypeInv
<1>6. TasksInv'
  <2>1. next # "idle"
    BY DEF Steps
  <2>2. task[t].job \in Job
    BY <1>0, BusyType
  <2> QED
    BY <1>3, <1>4, <2>1, <2>2, TasksType DEF TypeInv
<1> QED
  BY <1>2, <1>3, <1>5, <1>6 DEF UpdateThen, d, new

(* update_job writes a document, and the handler returns. *)
LEMMA UpdateLastType ==
  ASSUME TypeInv, NEW t \in Task, NEW at, NEW doc \in Docs, UpdateLast(t, at, doc)
  PROVE  /\ jobs' \in [Job -> Docs] /\ TasksInv' /\ permits' \in [Replica -> Nat]
         /\ jobs' = [jobs EXCEPT ![task[t].job] = Bumped(doc)]
         /\ task' = [task EXCEPT ![t] = Idle]
<1>1. jobs' = [jobs EXCEPT ![task[t].job] = Bumped(doc)]
  BY DEF UpdateLast
<1>2. jobs' \in [Job -> Docs]
  BY <1>1, BumpedType DEF TypeInv
<1>3. End(t)
  BY DEF UpdateLast
<1> QED
  BY <1>1, <1>2, <1>3, EndType DEF End

(* The documents that the handlers write are documents. *)
LEMMA WrittenType ==
  ASSUME NEW d \in Docs
  PROVE  /\ \A st \in Statuses : [d EXCEPT !.status = st] \in Docs
         /\ [d EXCEPT !.status = "PendingVerification", !.processAttempt = @ + 1,
                      !.externalId = TRUE] \in Docs
         /\ [d EXCEPT !.verificationAttempt = @ + 1] \in Docs
         /\ [d EXCEPT !.status = "PendingRetry", !.processAttempt = 0,
                      !.processRetry = @ + 1] \in Docs
         /\ [d EXCEPT !.status = "PendingVerification", !.verificationAttempt = 0,
                      !.verificationRetry = @ + 1] \in Docs
<1>1. /\ d.processAttempt + 1 \in Nat /\ d.verificationAttempt + 1 \in Nat
      /\ d.processRetry + 1 \in Nat /\ d.verificationRetry + 1 \in Nat
  BY DEF Docs
<1>2. \A st \in Statuses : [d EXCEPT !.status = st] \in Docs
  BY DEF Docs
<1>3. \A st \in Statuses, n \in Nat :
          [d EXCEPT !.status = st, !.processAttempt = n, !.externalId = TRUE] \in Docs
  BY DEF Docs
<1>4. \A n \in Nat : [d EXCEPT !.verificationAttempt = n] \in Docs
  BY DEF Docs
<1>5. \A st \in Statuses, n \in Nat, m \in Nat :
          [d EXCEPT !.status = st, !.processAttempt = n, !.processRetry = m] \in Docs
  BY DEF Docs
<1>6. \A st \in Statuses, n \in Nat, m \in Nat :
          [d EXCEPT !.status = st, !.verificationAttempt = n, !.verificationRetry = m] \in Docs
  BY DEF Docs
<1>7. "PendingVerification" \in Statuses /\ "PendingRetry" \in Statuses /\ 0 \in Nat
  BY DEF Statuses
<1> QED
  BY <1>1, <1>2, <1>3, <1>4, <1>5, <1>6, <1>7, ZenonT(60)

(* The document create_job inserts is well typed and has version 0. *)
LEMMA NewJobType == NewJob \in Docs /\ NewJob.version = 0 /\ NewJob.status = "Created"
  BY DEF NewJob, Absent, Docs, Statuses

(* Every step of a task preserves the types. *)
LEMMA TaskStepType ==
  ASSUME TypeInv, NEW t \in Task, TaskStep(t)
  PROVE  TypeInv'
<1> DEFINE d == task[t].doc
           j == task[t].job
<1>1. CASE Insert(t)
  <2> DEFINE new == [task[t] EXCEPT !.pc = "requeue", !.doc = NewJob]
  <2>1. task[t] \in Tasks /\ j \in Job
    BY <1>1, BusyType DEF Insert
  <2>2. new \in Tasks /\ new.pc # "idle" /\ new.job = j
    BY <2>1, NewJobType DEF Tasks, Steps
  <2>3. task' = [task EXCEPT ![t] = new]
    BY <1>1 DEF Insert, TypeInv, TasksInv, Tasks
  <2>4. jobs' \in [Job -> Docs]
    BY <1>1, NewJobType DEF Insert, TypeInv
  <2> HIDE DEF new
  <2> QED
    BY <1>1, <2>1, <2>2, <2>3, <2>4, TasksType DEF Insert, TypeInv
<1>2. CASE InsertExists(t)
  BY <1>2, EndErrType DEF InsertExists, TypeInv
<1>3. CASE Acquire(t)
  <2> DEFINE new == [task[t] EXCEPT !.pc = "claim", !.permit = TRUE]
  <2>1. task[t] \in Tasks /\ j \in Job
    BY <1>3, BusyType DEF Acquire
  <2>2. new \in Tasks /\ new.pc # "idle" /\ new.job = j
    BY <2>1 DEF Tasks, Steps
  <2>3. task' = [task EXCEPT ![t] = new]
    BY <1>3 DEF Acquire, TypeInv, TasksInv, Tasks
  <2>4. Host[t] \in Replica
    BY ConstantsAssumption
  <2>5. permits' \in [Replica -> Nat]
    BY <1>3, <2>4 DEF Acquire, TypeInv
  <2>6. active' \in [Replica -> SUBSET Job]
    BY <1>3, <2>1, <2>4 DEF Acquire, TypeInv
  <2> HIDE DEF new
  <2> QED
    BY <1>3, <2>1, <2>2, <2>3, <2>5, <2>6, TasksType DEF Acquire, TypeInv
<1>4. CASE AtCapacity(t)
  <2>1. j \in Job
    BY <1>4, BusyType DEF AtCapacity
  <2>2. Sent(queue, <<"process", j, 1>>) \in [Slot -> Nat]
    BY <2>1, SlotType, SentType DEF Queues, TypeInv
  <2> QED
    BY <1>4, <2>2, EndErrType DEF AtCapacity, TypeInv
<1>5. CASE Claim(t)
  <2>1. d \in Docs /\ j \in Job
    BY <1>5, BusyType DEF Claim, UpdateThen
  <2>2. [d EXCEPT !.status = "LockedForProcessing"] \in Docs
    BY <2>1, WrittenType, ZenonT(60) DEF Statuses
  <2>3. runs' \in [Job -> Nat]
    BY <1>5, <2>1 DEF Claim, TypeInv
  <2> QED
    BY <1>5, <2>2, <2>3, UpdateThenType, ZenonT(60) DEF Claim, TypeInv, Steps
<1>6. CASE ProcessSucceeds(t)
  <2>1. d \in Docs
    BY <1>6, BusyType DEF ProcessSucceeds, UpdateThen
  <2> QED
    BY <1>6, <2>1, WrittenType, UpdateThenType, ZenonT(60) DEF ProcessSucceeds, TypeInv, Steps
<1>7. CASE ProcessFails(t)
  <2>1. d \in Docs
    BY <1>7, BusyType DEF ProcessFails, UpdateLast
  <2>2. [d EXCEPT !.status = "Failed"] \in Docs
    BY <2>1, WrittenType, ZenonT(60) DEF Statuses
  <2> QED
    BY <1>7, <2>2, UpdateLastType DEF ProcessFails, TypeInv
<1>8. CASE StampVerification(t)
  <2>1. d \in Docs
    BY <1>8, BusyType DEF StampVerification, UpdateThen
  <2> QED
    BY <1>8, <2>1, UpdateThenType, ZenonT(60) DEF StampVerification, TypeInv, Steps
<1>9. CASE Verified(t)
  <2>1. d \in Docs
    BY <1>9, BusyType DEF Verified, UpdateLast
  <2>2. [d EXCEPT !.status = "Completed"] \in Docs
    BY <2>1, WrittenType, ZenonT(60) DEF Statuses
  <2> QED
    BY <1>9, <2>2, UpdateLastType DEF Verified, TypeInv
<1>10. CASE RejectedRetry(t)
  <2>1. d \in Docs
    BY <1>10, BusyType DEF RejectedRetry, UpdateThen
  <2>2. [d EXCEPT !.status = "VerificationFailed"] \in Docs
    BY <2>1, WrittenType, ZenonT(60) DEF Statuses
  <2> QED
    BY <1>10, <2>2, UpdateThenType, ZenonT(60) DEF RejectedRetry, TypeInv, Steps
<1>11. CASE RejectedLast(t)
  <2>1. d \in Docs
    BY <1>11, BusyType DEF RejectedLast, UpdateLast
  <2>2. [d EXCEPT !.status = "Failed"] \in Docs
    BY <2>1, WrittenType DEF Statuses
  <2> QED
    BY <1>11, <2>2, UpdateLastType DEF RejectedLast, TypeInv
<1>12. CASE StillPending(t)
  <2>1. d \in Docs
    BY <1>12, BusyType DEF StillPending, UpdateThen
  <2> QED
    BY <1>12, <2>1, WrittenType, UpdateThenType, ZenonT(60) DEF StillPending, TypeInv, Steps
<1>13. CASE TimedOut(t)
  <2>1. d \in Docs
    BY <1>13, BusyType DEF TimedOut, UpdateLast
  <2>2. [d EXCEPT !.status = "VerificationTimeout"] \in Docs
    BY <2>1, WrittenType, ZenonT(60) DEF Statuses
  <2> QED
    BY <1>13, <2>2, UpdateLastType DEF TimedOut, TypeInv
<1>14. CASE MarkFailed(t)
  <2>1. d \in Docs
    BY <1>14, BusyType DEF MarkFailed, UpdateLast
  <2>2. [d EXCEPT !.status = "Failed"] \in Docs
    BY <2>1, WrittenType DEF Statuses
  <2> QED
    BY <1>14, <2>2, UpdateLastType DEF MarkFailed, TypeInv
<1>15. CASE MarkRetry(t)
  <2>1. d \in Docs /\ j \in Job
    BY <1>15, BusyType DEF MarkRetry, UpdateThen
  <2>2. runs' \in [Job -> Nat]
    BY <1>15, <2>1 DEF MarkRetry, TypeInv
  <2> QED
    BY <1>15, <2>1, <2>2, WrittenType, UpdateThenType, ZenonT(60) DEF MarkRetry, TypeInv, Steps
<1>16. CASE MarkVerify(t)
  <2>1. d \in Docs
    BY <1>16, BusyType DEF MarkVerify, UpdateThen
  <2> QED
    BY <1>16, <2>1, WrittenType, UpdateThenType, ZenonT(60) DEF MarkVerify, TypeInv, Steps
<1>17. CASE Requeue(t)
  <2>1. j \in Job
    BY <1>17, BusyType DEF Requeue
  <2>2. Sent(queue, <<"process", j, 1>>) \in [Slot -> Nat]
    BY <2>1, SlotType, SentType DEF Queues, TypeInv
  <2> QED
    BY <1>17, <2>2, EndType DEF Requeue, TypeInv
<1>18. CASE Announce(t)
  <2>1. j \in Job
    BY <1>18, BusyType DEF Announce
  <2>2. Sent(queue, <<"verify", j, 1>>) \in [Slot -> Nat]
    BY <2>1, SlotType, SentType DEF Queues, TypeInv
  <2>3. active' = active \/ active' = [active EXCEPT ![Host[t]] = @ \ {j}]
    BY <1>18 DEF Announce
  <2>4. active' \in [Replica -> SUBSET Job]
    BY <2>3, ConstantsAssumption DEF TypeInv
  <2> QED
    BY <1>18, <2>2, <2>4, EndType DEF Announce, TypeInv
<1>19. CASE UpdateOutdated(t)
  BY <1>19, EndErrType DEF UpdateOutdated, TypeInv
<1> QED
  BY <1>1, <1>2, <1>3, <1>4, <1>5, <1>6, <1>7, <1>8, <1>9, <1>10, <1>11, <1>12,
     <1>13, <1>14, <1>15, <1>16, <1>17, <1>18, <1>19 DEF TaskStep

(* Failing calls, panics and expired deliveries preserve the types. *)
LEMMA FaultType ==
  ASSUME TypeInv, NEW t \in Task, Fault(t)
  PROVE  TypeInv'
<1>1. Returned(queue, {t}) \in [Slot -> Nat]
  BY ReturnedType DEF TypeInv
<1>2. CASE CallFails(t)
  BY <1>2, EndErrType DEF CallFails, TypeInv
<1>3. CASE VerifyPanics(t)
  BY <1>1, <1>3, EndType DEF VerifyPanics, TypeInv
<1>4. CASE Expire(t)
  <2> DEFINE new == [task[t] EXCEPT !.msg = {}]
  <2>1. task[t].pc # "idle"
    BY <1>4 DEF Expire, TypeInv, TasksInv, Idle
  <2>2. task[t] \in Tasks /\ task[t].job \in Job
    BY <2>1, BusyType
  <2>3. new \in Tasks /\ new.pc # "idle" /\ new.job = task[t].job
    BY <2>1, <2>2 DEF Tasks
  <2>4. task' = [task EXCEPT ![t] = new]
    BY <1>4 DEF Expire
  <2> HIDE DEF new
  <2> QED
    BY <1>1, <1>4, <2>2, <2>3, <2>4, TasksType DEF Expire, TypeInv
<1> QED
  BY <1>2, <1>3, <1>4 DEF Fault

(* Receiving a message or a request preserves the types. *)
LEMMA StartType ==
  ASSUME TypeInv, NEW t \in Task, NEW j \in Job,
         \/ Request(t, j)
         \/ \E q \in Queues, n \in 1 .. MaxReceives : Receive(t, q, j, n)
  PROVE  TypeInv'
<1>1. CASE Request(t, j)
  BY <1>1, BeginType
     DEF Request, StartCreate, StartRetry, StartVerifyRequest, TypeInv, Steps
<1>2. ASSUME NEW q \in Queues, NEW n \in 1 .. MaxReceives, Receive(t, q, j, n)
      PROVE  TypeInv'
  <2>1. <<q, j, n>> \in Slot
    BY DEF Slot
  <2>2. FirstStep(q, j) \in Steps
    BY DEF FirstStep, Steps, Queues
  <2>3. queue' \in [Slot -> Nat]
    BY <1>2, <2>1 DEF Receive, TypeInv
  <2>4. {<<q, j, n>>} \in SUBSET Slot
    BY <2>1
  <2> QED
    BY <1>2, <2>2, <2>3, <2>4, BeginType DEF Receive, TypeInv
<1> QED
  BY <1>1, <1>2

(* Every step preserves the types. *)
LEMMA NextType ==
  ASSUME TypeInv, [Next]_vars
  PROVE  TypeInv'
<1>1. ASSUME NEW t \in Task, TaskStep(t) \/ Fault(t)
      PROVE  TypeInv'
  BY <1>1, TaskStepType, FaultType
<1>2. ASSUME NEW t \in Task, NEW j \in Job, Request(t, j)
      PROVE  TypeInv'
  BY <1>2, StartType
<1>3. ASSUME NEW t \in Task, NEW q \in Queues, NEW j \in Job, NEW n \in 1 .. MaxReceives,
             Receive(t, q, j, n)
      PROVE  TypeInv'
  BY <1>3, StartType
<1>4. ASSUME NEW q \in Queues, NEW j \in Job, NEW n \in 1 .. MaxReceives, Dismiss(q, j, n)
      PROVE  TypeInv'
  <2> DEFINE taken == [queue EXCEPT ![<<q, j, n>>] = @ - 1]
  <2>1. <<q, j, n>> \in Slot
    BY DEF Slot
  <2>2. taken \in [Slot -> Nat]
    BY <1>4, <2>1 DEF Dismiss, TypeInv
  <2>3. Sent(taken, Redelivered(<<q, j, n>>)) \in [Slot -> Nat]
    BY <2>1, <2>2, RedeliveredType, SentType
  <2> QED
    BY <1>4, <2>2, <2>3 DEF Dismiss, TypeInv, TasksInv
<1>5. ASSUME NEW j \in Job, QueueForProcessing(j)
      PROVE  TypeInv'
  <2>1. Sent(queue, <<"process", j, 1>>) \in [Slot -> Nat]
    BY SlotType, SentType DEF Queues, TypeInv
  <2> QED
    BY <1>5, <2>1 DEF QueueForProcessing, TypeInv, TasksInv
<1>6. ASSUME NEW r \in Replica, Crash(r)
      PROVE  TypeInv'
  <2> DEFINE lost == {t \in Task : Host[t] = r}
  <2>1. queue' \in [Slot -> Nat]
    BY <1>6, ReturnedType DEF Crash, TypeInv
  <2>2. \A t \in Task : task'[t] = Idle \/ task'[t] = task[t]
    BY <1>6 DEF Crash
  <2>3. task' \in [Task -> Tasks]
    BY <1>6, IdleType DEF Crash, TypeInv, TasksInv
  <2>4. TasksInv'
    BY <2>2, <2>3 DEF TypeInv, TasksInv, Idle
  <2>5. permits' \in [Replica -> Nat]
    BY <1>6, ConstantsAssumption DEF Crash, TypeInv
  <2> QED
    BY <1>6, <2>1, <2>4, <2>5 DEF Crash, TypeInv
<1>7. ASSUME UNCHANGED vars
      PROVE  TypeInv'
  BY <1>7 DEF vars, TypeInv, TasksInv
<1> QED
  BY <1>1, <1>2, <1>3, <1>4, <1>5, <1>6, <1>7 DEF Next

(* The collection, the queues and the tasks are well typed at the start. *)
LEMMA InitType == Init => TypeInv
<1> SUFFICES ASSUME Init PROVE TypeInv
  OBVIOUS
<1>1. Absent \in Docs
  BY DEF Absent, Docs, Statuses
<1> QED
  BY <1>1, IdleType, ConstantsAssumption DEF Init, TypeInv, TasksInv, Idle

(* The types hold in every state. *)
LEMMA TypeInvariant == Spec => []TypeInv
  BY InitType, NextType, PTL DEF Spec

-------------------------------------------------------------------------------
(* Permits *)

\* A task that waits for a permit holds none.
PermitsInv ==
    /\ PermitsConserved
    /\ \A t \in Task : task[t].pc = "acquire" => ~task[t].permit

(* The holders of a replica's permits are finitely many. *)
LEMMA HoldersFinite ==
  ASSUME NEW r \in Replica
  PROVE  IsFiniteSet(Holders(r)) /\ Cardinality(Holders(r)) \in Nat
<1>1. Holders(r) \subseteq Task
  BY DEF Holders
<1> QED
  BY <1>1, FS_Subset, FS_CardinalityType, ConstantsAssumption

(* Nothing changes when no permit moves. *)
LEMMA PermitsKept ==
  ASSUME PermitsConserved, UNCHANGED permits,
         \A t \in Task : task'[t].permit = task[t].permit
  PROVE  PermitsConserved'
<1>1. \A r : Holders(r)' = Holders(r)
  BY DEF Holders
<1> QED
  BY <1>1 DEF PermitsConserved

(* The permit of a task that ends is the only one that moves. *)
LEMMA PermitsEnd ==
  ASSUME TypeInv, PermitsConserved, NEW t \in Task, End(t)
  PROVE  PermitsConserved'
<1>1. task' = [task EXCEPT ![t] = Idle] /\ ~Idle.permit
  BY DEF End, Idle
<1>2. CASE ~task[t].permit
  <2>1. permits' = permits
    BY <1>2 DEF End
  <2>2. \A r : Holders(r)' = Holders(r)
    BY <1>1, <1>2 DEF Holders, TypeInv, TasksInv
  <2> QED
    BY <2>1, <2>2 DEF PermitsConserved
<1>3. CASE task[t].permit
  <2>1. permits' = [permits EXCEPT ![Host[t]] = @ + 1]
    BY <1>3 DEF End
  <2> SUFFICES ASSUME NEW r \in Replica
               PROVE  permits'[r] + Cardinality(Holders(r)') = MaxSnosJobs
    BY DEF PermitsConserved
  <2>2. permits[r] + Cardinality(Holders(r)) = MaxSnosJobs /\ permits[r] \in Nat
    BY DEF PermitsConserved, TypeInv
  <2>3. CASE r = Host[t]
    <3>1. Holders(r)' = Holders(r) \ {t}
      BY <1>1, <2>3 DEF Holders, TypeInv, TasksInv
    <3>2. t \in Holders(r)
      BY <1>3, <2>3 DEF Holders
    <3>3. Cardinality(Holders(r)') = Cardinality(Holders(r)) - 1
      BY <3>1, <3>2, HoldersFinite, FS_RemoveElement
    <3>4. permits'[r] = permits[r] + 1
      BY <2>1, <2>3 DEF TypeInv
    <3> QED
      BY <2>2, <3>3, <3>4, HoldersFinite
  <2>4. CASE r # Host[t]
    <3>1. Holders(r)' = Holders(r)
      BY <1>1, <2>4 DEF Holders, TypeInv, TasksInv
    <3>2. permits'[r] = permits[r]
      BY <2>1, <2>4 DEF TypeInv
    <3> QED
      BY <2>2, <3>1, <3>2
  <2> QED
    BY <2>3, <2>4
<1> QED
  BY <1>2, <1>3

(* A permit that is taken moves from the semaphore to the task. *)
LEMMA PermitsAcquire ==
  ASSUME TypeInv, PermitsInv, NEW t \in Task, Acquire(t)
  PROVE  PermitsConserved'
<1>1. /\ task[t].pc = "acquire" /\ ~task[t].permit
      /\ permits' = [permits EXCEPT ![Host[t]] = @ - 1]
  BY DEF Acquire, PermitsInv
<1>2. task' = [task EXCEPT ![t] = [task[t] EXCEPT !.pc = "claim", !.permit = TRUE]]
  BY DEF Acquire, TypeInv, TasksInv, Tasks
<1>3. \A u \in Task : task'[u].permit <=> (u = t \/ task[u].permit)
  BY <1>2 DEF TypeInv, TasksInv, Tasks
<1> SUFFICES ASSUME NEW r \in Replica
             PROVE  permits'[r] + Cardinality(Holders(r)') = MaxSnosJobs
  BY DEF PermitsConserved
<1>4. permits[r] + Cardinality(Holders(r)) = MaxSnosJobs /\ permits[r] \in Nat
  BY DEF PermitsInv, PermitsConserved, TypeInv
<1>5. CASE r = Host[t]
  <2>1. Holders(r)' = Holders(r) \cup {t}
    BY <1>3, <1>5 DEF Holders
  <2>2. t \notin Holders(r)
    BY <1>1 DEF Holders
  <2>3. Cardinality(Holders(r)') = Cardinality(Holders(r)) + 1
    BY <2>1, <2>2, HoldersFinite, FS_AddElement
  <2>4. permits'[r] = permits[r] - 1
    BY <1>1, <1>5 DEF TypeInv
  <2> QED
    BY <1>4, <2>3, <2>4, HoldersFinite
<1>6. CASE r # Host[t]
  <2>1. Holders(r)' = Holders(r)
    BY <1>3, <1>6 DEF Holders
  <2>2. permits'[r] = permits[r]
    BY <1>1, <1>6 DEF TypeInv
  <2> QED
    BY <1>4, <2>1, <2>2
<1> QED
  BY <1>5, <1>6

(* A crash takes the tasks of a replica and its semaphore together. *)
LEMMA PermitsCrash ==
  ASSUME TypeInv, PermitsConserved, NEW s \in Replica, Crash(s)
  PROVE  PermitsConserved'
<1>1. \A u \in Task : task'[u] = IF Host[u] = s THEN Idle ELSE task[u]
  BY DEF Crash
<1>2. permits' = [permits EXCEPT ![s] = MaxSnosJobs]
  BY DEF Crash
<1> SUFFICES ASSUME NEW r \in Replica
             PROVE  permits'[r] + Cardinality(Holders(r)') = MaxSnosJobs
  BY DEF PermitsConserved
<1>3. CASE r = s
  <2>1. Holders(r)' = {}
    BY <1>1, <1>3 DEF Holders, Idle
  <2>2. permits'[r] = MaxSnosJobs
    BY <1>2, <1>3 DEF TypeInv
  <2> QED
    BY <2>1, <2>2, FS_EmptySet, ConstantsAssumption
<1>4. CASE r # s
  <2>1. Holders(r)' = Holders(r)
    BY <1>1, <1>4 DEF Holders
  <2>2. permits'[r] = permits[r]
    BY <1>2, <1>4 DEF TypeInv
  <2> QED
    BY <2>1, <2>2 DEF PermitsConserved
<1> QED
  BY <1>3, <1>4

(* The step of a task moves permits only through Acquire and End. *)
LEMMA PermitsTaskStep ==
  ASSUME TypeInv, PermitsInv, NEW t \in Task, TaskStep(t) \/ Fault(t)
  PROVE  PermitsConserved'
<1>0. PermitsConserved
  BY DEF PermitsInv
<1>1. CASE End(t)
  BY <1>0, <1>1, PermitsEnd
<1>2. CASE Acquire(t)
  BY <1>2, PermitsAcquire
<1>3. CASE ~End(t) /\ ~Acquire(t)
  <2>1. task \in [Task -> Tasks]
    BY DEF TypeInv, TasksInv
  <2>2. permits' = permits /\ \A u \in Task : task'[u].permit = task[u].permit
    <3>1. ASSUME NEW at, NEW new, NEW next, UpdateThen(t, at, new, next)
          PROVE  permits' = permits /\ \A u \in Task : task'[u].permit = task[u].permit
      BY <2>1, <3>1 DEF UpdateThen, Tasks
    <3>2. CASE Insert(t) \/ Expire(t)
      BY <2>1, <3>2 DEF Insert, Expire, Tasks
    <3>3. CASE Claim(t) \/ ProcessSucceeds(t) \/ StampVerification(t)
      BY <3>1, <3>3 DEF Claim, ProcessSucceeds, StampVerification
    <3>4. CASE RejectedRetry(t) \/ StillPending(t) \/ MarkRetry(t) \/ MarkVerify(t)
      BY <3>1, <3>4 DEF RejectedRetry, StillPending, MarkRetry, MarkVerify
    <3> QED
      BY <1>3, <3>2, <3>3, <3>4
         DEF TaskStep, Fault, InsertExists, AtCapacity, ProcessFails, Verified, RejectedLast,
             TimedOut, MarkFailed, Requeue, Announce, UpdateOutdated, CallFails, VerifyPanics,
             UpdateLast, EndErr
  <2> QED
    BY <1>0, <2>2, PermitsKept
<1> QED
  BY <1>1, <1>2, <1>3

(* A task that begins holds no permit, before and after. *)
LEMMA PermitsBegin ==
  ASSUME TypeInv, PermitsConserved, UNCHANGED permits,
         NEW t \in Task, NEW j, NEW pc, NEW msg, Begin(t, j, pc, msg)
  PROVE  PermitsConserved'
<1>1. task[t] = Idle /\ task \in [Task -> Tasks]
  BY DEF Begin, TypeInv, TasksInv
<1>3. \A u \in Task \ {t} : task'[u] = task[u]
  BY <1>1 DEF Begin
<1>4. task[t].permit = FALSE /\ task'[t].permit = FALSE
  BY <1>1 DEF Begin, Idle
<1>5. \A u \in Task : task'[u].permit = task[u].permit
  BY <1>3, <1>4
<1> QED
  BY <1>5, PermitsKept

(* Only a task that begins reaches the step `acquire`. *)
LEMMA WaitersHoldNone ==
  ASSUME TypeInv, PermitsInv, [Next]_vars
  PROVE  \A u \in Task : task'[u].pc = "acquire" => ~task'[u].permit
<1> SUFFICES ASSUME NEW u \in Task, task'[u].pc = "acquire"
             PROVE  ~task'[u].permit
  OBVIOUS
<1>1. ASSUME task'[u].pc = task[u].pc, task'[u].permit = task[u].permit
      PROVE  ~task'[u].permit
  BY <1>1 DEF PermitsInv
<1>2. task \in [Task -> Tasks]
  BY DEF TypeInv, TasksInv
<1>3. ASSUME NEW t \in Task, NEW at, NEW new, NEW next \in Steps \ {"acquire"},
             UpdateThen(t, at, new, next)
      PROVE  ~task'[u].permit
  BY <1>1, <1>2, <1>3 DEF UpdateThen, Tasks
<1>4. ASSUME NEW t \in Task, End(t)
      PROVE  ~task'[u].permit
  BY <1>1, <1>2, <1>4 DEF End, Idle
<1>5. ASSUME NEW t \in Task, NEW j, NEW pc, NEW msg, Begin(t, j, pc, msg)
      PROVE  ~task'[u].permit
  BY <1>1, <1>2, <1>5 DEF Begin
<1>6. ASSUME NEW t \in Task, TaskStep(t)
      PROVE  ~task'[u].permit
  <2>1. CASE Insert(t) \/ Acquire(t)
    BY <1>1, <1>2, <2>1 DEF Insert, Acquire, Tasks
  <2>2. CASE \/ Claim(t) \/ ProcessSucceeds(t) \/ StampVerification(t)
             \/ RejectedRetry(t) \/ StillPending(t) \/ MarkRetry(t) \/ MarkVerify(t)
    BY <1>3, <2>2 DEF Claim, ProcessSucceeds, StampVerification, RejectedRetry,
                      StillPending, MarkRetry, MarkVerify, Steps
  <2> QED
    BY <1>4, <1>6, <2>1, <2>2
       DEF TaskStep, InsertExists, AtCapacity, ProcessFails, Verified, RejectedLast,
           TimedOut, MarkFailed, Requeue, Announce, UpdateOutdated, UpdateLast, EndErr
<1>7. ASSUME NEW t \in Task, Fault(t)
      PROVE  ~task'[u].permit
  <2>1. CASE Expire(t)
    BY <1>1, <1>2, <2>1 DEF Expire, Tasks
  <2> QED
    BY <1>4, <1>7, <2>1 DEF Fault, CallFails, VerifyPanics, EndErr
<1>8. ASSUME NEW t \in Task, NEW j \in Job,
             \/ Request(t, j)
             \/ \E q \in Queues, n \in 1 .. MaxReceives : Receive(t, q, j, n)
      PROVE  ~task'[u].permit
  BY <1>5, <1>8 DEF Request, StartCreate, StartRetry, StartVerifyRequest, Receive
<1>9. ASSUME NEW r \in Replica, Crash(r)
      PROVE  ~task'[u].permit
  BY <1>1, <1>2, <1>9 DEF Crash, Idle
<1>10. CASE UNCHANGED task
  BY <1>1, <1>10
<1> QED
  BY <1>6, <1>7, <1>8, <1>9, <1>10 DEF Next, vars, Dismiss, QueueForProcessing

(* Permits are conserved by every step. *)
LEMMA PermitsStep ==
  ASSUME TypeInv, PermitsInv, [Next]_vars
  PROVE  PermitsInv'
<1>0. PermitsConserved
  BY DEF PermitsInv
<1>1. ASSUME NEW t \in Task, TaskStep(t) \/ Fault(t)
      PROVE  PermitsConserved'
  BY <1>1, PermitsTaskStep
<1>2. ASSUME NEW t \in Task, NEW j \in Job,
             \/ Request(t, j)
             \/ \E q \in Queues, n \in 1 .. MaxReceives : Receive(t, q, j, n)
      PROVE  PermitsConserved'
  BY <1>0, <1>2, PermitsBegin
     DEF Request, StartCreate, StartRetry, StartVerifyRequest, Receive
<1>3. ASSUME NEW r \in Replica, Crash(r)
      PROVE  PermitsConserved'
  BY <1>0, <1>3, PermitsCrash
<1>4. ASSUME UNCHANGED <<task, permits>>
      PROVE  PermitsConserved'
  <2>1. \A u \in Task : task'[u].permit = task[u].permit
    BY <1>4
  <2> QED
    BY <1>0, <1>4, <2>1, PermitsKept
<1> QED
  BY <1>1, <1>2, <1>3, <1>4, WaitersHoldNone
     DEF Next, vars, Dismiss, QueueForProcessing, PermitsInv

(* At the start every permit of every semaphore is free. *)
LEMMA PermitsInit == Init => PermitsInv
<1> SUFFICES ASSUME Init PROVE PermitsInv
  OBVIOUS
<1>1. \A r \in Replica : Holders(r) = {}
  BY DEF Init, Holders, Idle
<1>2. \A r \in Replica : permits[r] = MaxSnosJobs /\ Cardinality(Holders(r)) = 0
  BY <1>1, FS_EmptySet DEF Init
<1>3. PermitsConserved
  BY <1>2, ConstantsAssumption DEF PermitsConserved
<1>4. \A t \in Task : task[t].pc # "acquire"
  BY DEF Init, Idle
<1> QED
  BY <1>3, <1>4 DEF PermitsInv

\* For every number of tasks, replicas and permits: no way out of a handler loses
\* or forges a permit of a replica's semaphore.
THEOREM PermitsAreConserved == Spec => []PermitsConserved
<1>1. Init => TypeInv /\ PermitsInv
  BY InitType, PermitsInit
<1>2. TypeInv /\ PermitsInv /\ [Next]_vars => TypeInv' /\ PermitsInv'
  BY NextType, PermitsStep
<1>3. PermitsInv => PermitsConserved
  BY DEF PermitsInv
<1> QED
  BY <1>1, <1>2, <1>3, PTL DEF Spec

\* Every variable has its type in every reachable state; that a semaphore never
\* has more permits than it started with follows from their conservation.
THEOREM TypeCorrect == Spec => []TypeOK
<1>1. TypeInv /\ PermitsConserved => TypeOK
  <2> SUFFICES ASSUME TypeInv, PermitsConserved
               PROVE  permits \in [Replica -> 0 .. MaxSnosJobs]
    BY DEF TypeInv, TasksInv, TypeOK
  <2>1. \A r \in Replica : permits[r] \in 0 .. MaxSnosJobs
    BY HoldersFinite, ConstantsAssumption DEF PermitsConserved, TypeInv
  <2> QED
    BY <2>1 DEF TypeInv
<1> QED
  BY <1>1, TypeInvariant, PermitsAreConserved, PTL

-------------------------------------------------------------------------------
(* What a handler knows of its job *)

\* Facts about a task alone: the status its handler checked, the request it
\* serves, and the permit its step needs.
HandlerOK(tk) ==
    /\ tk.pc \in {"acquire", "claim"} => tk.doc.status \in Processable
    /\ tk.pc = "run" => tk.doc.status = "LockedForProcessing"
    /\ tk.pc \in {"stamp", "check"} => tk.doc.status \in Verifiable
    /\ tk.pc = "markFailed" => tk.doc.status \notin {"Completed", "Failed", "Absent"}
    /\ tk.pc = "markRetry" => "retry" \in Routes /\ tk.doc.status = "Failed"
    /\ tk.pc = "markVerify" => "verify" \in Routes /\ tk.doc.status # "Absent"
    /\ tk.pc \in {"claim", "run"} /\ tk.job \in Limited => tk.permit

HandlerInv == \A t \in Task : HandlerOK(task[t])

(* An idle task satisfies what is asked of handlers. *)
LEMMA IdleOK == HandlerOK(Idle)
  BY DEF HandlerOK, Idle

(* A handler starts only in a status it accepts. *)
LEMMA BeginOK ==
  ASSUME TypeInv, HandlerInv, NEW t \in Task, NEW j \in Job, NEW pc, NEW msg,
         Begin(t, j, pc, msg),
         HandlerOK([pc |-> pc, job |-> j, doc |-> jobs[j], msg |-> msg, permit |-> FALSE])
  PROVE  HandlerInv'
<1> DEFINE new == [pc |-> pc, job |-> j, doc |-> jobs[j], msg |-> msg, permit |-> FALSE]
<1>1. task' = [task EXCEPT ![t] = new] /\ task \in [Task -> Tasks]
  BY DEF Begin, TypeInv, TasksInv
<1>2. HandlerOK(new)
  OBVIOUS
<1> HIDE DEF new
<1> QED
  BY <1>1, <1>2 DEF HandlerInv

(* A handler that goes on with the document it wrote. *)
LEMMA UpdateThenOK ==
  ASSUME TypeInv, HandlerInv, NEW t \in Task, NEW at \in Steps, NEW doc \in Docs,
         NEW next \in {"run", "check", "announce", "requeue"},
         UpdateThen(t, at, doc, next),
         next = "run" => at = "claim" /\ doc.status = "LockedForProcessing",
         next = "check" => doc.status \in Verifiable
  PROVE  HandlerInv'
<1> DEFINE new == [task[t] EXCEPT !.pc = next, !.doc = Bumped(doc)]
<1>0. next \in Steps /\ task[t].pc = at
  BY DEF Steps, UpdateThen
<1>1. task' = [task EXCEPT ![t] = new]
  BY UpdateThenTask, ZenonT(60)
<1>2. task \in [Task -> Tasks]
  BY DEF TypeInv, TasksInv
<1>3. /\ new.pc = next /\ new.doc = Bumped(doc) /\ new.job = task[t].job
      /\ new.permit = task[t].permit
  BY <1>2 DEF Tasks
<1>4. new.doc.status = doc.status
  BY <1>3, BumpedType
<1> HIDE DEF new
<1>5. HandlerOK(new)
  <2>1. next = "run" /\ new.job \in Limited => new.permit
    BY <1>0, <1>3 DEF HandlerInv, HandlerOK
  <2> QED
    BY <1>3, <1>4, <2>1 DEF HandlerOK
<1> QED
  BY <1>1, <1>2, <1>5 DEF HandlerInv

(* A handler that returns. *)
LEMMA EndOK ==
  ASSUME TypeInv, HandlerInv, NEW t \in Task, End(t)
  PROVE  HandlerInv'
  BY IdleOK DEF End, HandlerInv, TypeInv, TasksInv

(* A task's step keeps what handlers checked. *)
LEMMA HandlerTaskStep ==
  ASSUME TypeInv, HandlerInv, NEW t \in Task, TaskStep(t) \/ Fault(t)
  PROVE  HandlerInv'
<1> DEFINE d == task[t].doc
<1>1. task \in [Task -> Tasks]
  BY DEF TypeInv, TasksInv
<1>2. CASE End(t)
  BY <1>2, EndOK
<1>3. CASE Insert(t) \/ Acquire(t) \/ Expire(t)
  BY <1>1, <1>3 DEF Insert, Acquire, Expire, HandlerInv, HandlerOK, Tasks
<1>4. CASE Claim(t)
  <2>1. d \in Docs
    BY <1>4, BusyType DEF Claim, UpdateThen
  <2>2. [d EXCEPT !.status = "LockedForProcessing"] \in Docs
    BY <2>1, WrittenType, ZenonT(60) DEF Statuses
  <2>3. [d EXCEPT !.status = "LockedForProcessing"].status = "LockedForProcessing"
    BY <2>1 DEF Docs
  <2> QED
    BY <1>4, <2>2, <2>3, UpdateThenOK DEF Claim, Steps
<1>5. CASE ProcessSucceeds(t)
  <2>1. d \in Docs
    BY <1>5, BusyType DEF ProcessSucceeds, UpdateThen
  <2> QED
    BY <1>5, <2>1, WrittenType, UpdateThenOK, ZenonT(60) DEF ProcessSucceeds, Steps
<1>6. CASE StampVerification(t)
  <2>1. d \in Docs /\ d.status \in Verifiable
    BY <1>6, BusyType DEF StampVerification, UpdateThen, HandlerInv, HandlerOK
  <2> QED
    BY <1>6, <2>1, UpdateThenOK DEF StampVerification, Steps
<1>7. CASE RejectedRetry(t)
  <2>1. d \in Docs
    BY <1>7, BusyType DEF RejectedRetry, UpdateThen
  <2>2. [d EXCEPT !.status = "VerificationFailed"] \in Docs
    BY <2>1, WrittenType, ZenonT(60) DEF Statuses
  <2> QED
    BY <1>7, <2>2, UpdateThenOK DEF RejectedRetry, Steps
<1>8. CASE StillPending(t)
  <2>1. d \in Docs
    BY <1>8, BusyType DEF StillPending, UpdateThen
  <2> QED
    BY <1>8, <2>1, WrittenType, UpdateThenOK, ZenonT(60) DEF StillPending, Steps
<1>9. CASE MarkRetry(t)
  <2>1. d \in Docs
    BY <1>9, BusyType DEF MarkRetry, UpdateThen
  <2> QED
    BY <1>9, <2>1, WrittenType, UpdateThenOK, ZenonT(60) DEF MarkRetry, Steps
<1>10. CASE MarkVerify(t)
  <2>1. d \in Docs
    BY <1>10, BusyType DEF MarkVerify, UpdateThen
  <2> QED
    BY <1>10, <2>1, WrittenType, UpdateThenOK, ZenonT(60) DEF MarkVerify, Steps
<1> QED
  BY <1>2, <1>3, <1>4, <1>5, <1>6, <1>7, <1>8, <1>9, <1>10
     DEF TaskStep, Fault, InsertExists, AtCapacity, ProcessFails, Verified, RejectedLast,
         TimedOut, MarkFailed, Requeue, Announce, UpdateOutdated, CallFails, VerifyPanics,
         UpdateLast, EndErr

(* A message or a request starts a handler in a status it accepts. *)
LEMMA HandlerStart ==
  ASSUME TypeInv, HandlerInv, NEW t \in Task, NEW j \in Job,
         \/ Request(t, j)
         \/ \E q \in Queues, n \in 1 .. MaxReceives : Receive(t, q, j, n)
  PROVE  HandlerInv'
<1>1. CASE Request(t, j)
  BY <1>1, BeginOK
     DEF Request, StartCreate, StartRetry, StartVerifyRequest, HandlerOK
<1>2. ASSUME NEW q \in Queues, NEW n \in 1 .. MaxReceives, Receive(t, q, j, n)
      PROVE  HandlerInv'
  <2>1. Accepts(q, jobs[j].status) /\ Begin(t, j, FirstStep(q, j), {<<q, j, n>>})
    BY <1>2 DEF Receive
  <2>2. HandlerOK([pc |-> FirstStep(q, j), job |-> j, doc |-> jobs[j],
                   msg |-> {<<q, j, n>>}, permit |-> FALSE])
    BY <2>1 DEF HandlerOK, FirstStep, Accepts, Queues
  <2> QED
    BY <2>1, <2>2, BeginOK
<1> QED
  BY <1>1, <1>2

(* Every step keeps what the handlers know of their jobs. *)
LEMMA HandlerStep ==
  ASSUME TypeInv, HandlerInv, [Next]_vars
  PROVE  HandlerInv'
<1>1. ASSUME NEW r \in Replica, Crash(r)
      PROVE  HandlerInv'
  BY <1>1, IdleOK DEF Crash, HandlerInv
<1>2. ASSUME UNCHANGED task
      PROVE  HandlerInv'
  BY <1>2 DEF HandlerInv
<1> QED
  BY <1>1, <1>2, HandlerTaskStep, HandlerStart DEF Next, vars, Dismiss, QueueForProcessing

(* At the start there are no handlers. *)
LEMMA HandlerInit == Init => HandlerInv
  BY IdleOK DEF Init, HandlerInv

\* For every number of tasks and permits: a process executes at most
\* max_concurrent_snos_jobs SNOS handlers at a time.
THEOREM SnosCapacityHolds == Spec => []SnosCapacity
<1>1. TypeInv /\ PermitsConserved /\ HandlerInv => SnosCapacity
  <2> SUFFICES ASSUME TypeInv, PermitsConserved, HandlerInv, NEW r \in Replica
               PROVE  Cardinality(SnosRuns(r)) <= MaxSnosJobs
    BY DEF SnosCapacity
  <2>1. SnosRuns(r) \in SUBSET Holders(r)
    BY DEF SnosRuns, Holders, HandlerInv, HandlerOK
  <2>2. Cardinality(SnosRuns(r)) <= Cardinality(Holders(r))
    BY <2>1, HoldersFinite, FS_Subset
  <2>3. Cardinality(SnosRuns(r)) \in Nat
    BY <2>1, HoldersFinite, FS_Subset, FS_CardinalityType
  <2>4. permits[r] \in Nat /\ permits[r] + Cardinality(Holders(r)) = MaxSnosJobs
    BY DEF TypeInv, PermitsConserved
  <2> QED
    BY <2>2, <2>3, <2>4, HoldersFinite
<1>2. Init => TypeInv /\ HandlerInv
  BY InitType, HandlerInit
<1>3. TypeInv /\ HandlerInv /\ [Next]_vars => TypeInv' /\ HandlerInv'
  BY NextType, HandlerStep
<1> QED
  BY <1>1, <1>2, <1>3, PermitsAreConserved, PTL DEF Spec

-------------------------------------------------------------------------------
(* Versions: what the document a handler holds says of the collection *)

\* A handler that still has the current version has the current document.
Knows(tk) ==
    LET current == jobs[tk.job] IN
    /\ current.status # "Absent"
    /\ tk.doc.version <= current.version
    /\ tk.doc.version = current.version => tk.doc = current

DistinctRuns ==
    \A t, u \in Task :
        /\ task[t].pc = "run" /\ task[u].pc = "run"
        /\ task[t].job = task[u].job
        /\ t # u
        => task[t].doc.version # task[u].doc.version

VersionInv ==
    /\ \A t \in Task : task[t].pc \notin {"idle", "insert"} => Knows(task[t])
    /\ DistinctRuns

(* The collection stays, and the tasks begin, go on or end. *)
LEMMA QuietVersions ==
  ASSUME VersionInv, UNCHANGED jobs,
         \A t \in Task :
             \/ task'[t].pc \in {"idle", "insert"}
             \/ /\ task[t].pc \notin {"idle", "insert"}
                /\ task'[t].job = task[t].job /\ task'[t].doc = task[t].doc
                /\ task'[t].pc = "run" => task[t].pc = "run"
             \/ /\ jobs[task'[t].job].status # "Absent"
                /\ task'[t].doc = jobs[task'[t].job]
                /\ task'[t].doc \in Docs
                /\ task'[t].pc # "run"
  PROVE  VersionInv'
<1>1. ASSUME NEW t \in Task, task'[t].pc \notin {"idle", "insert"}
      PROVE  Knows(task[t])'
  <2>1. CASE /\ task[t].pc \notin {"idle", "insert"}
             /\ task'[t].job = task[t].job /\ task'[t].doc = task[t].doc
    BY <2>1 DEF VersionInv, Knows
  <2>2. CASE /\ jobs[task'[t].job].status # "Absent"
             /\ task'[t].doc = jobs[task'[t].job]
             /\ task'[t].doc \in Docs
    BY <2>2 DEF Knows, Docs
  <2> QED
    BY <1>1, <2>1, <2>2
<1>2. DistinctRuns'
  BY DEF VersionInv, DistinctRuns
<1> QED
  BY <1>1, <1>2 DEF VersionInv

(* A handler writes its document and goes on with it, or returns. *)
LEMMA UpdateVersions ==
  ASSUME TypeInv, VersionInv, NEW t \in Task, task[t].pc \notin {"idle", "insert"},
         NEW doc \in Docs, doc.version = task[t].doc.version, doc.status # "Absent",
         Fresh(t), NEW new \in Tasks,
         jobs' = [jobs EXCEPT ![task[t].job] = Bumped(doc)],
         task' = [task EXCEPT ![t] = new],
         new.pc = "idle" \/ (new.job = task[t].job /\ new.doc = Bumped(doc))
  PROVE  VersionInv'
<1> DEFINE j == task[t].job
           b == Bumped(doc)
<1>1. /\ j \in Job /\ jobs[j] \in Docs /\ jobs[j].version \in Nat
      /\ task \in [Task -> Tasks] /\ jobs \in [Job -> Docs]
  BY BusyType DEF TypeInv, TasksInv, Docs
<1>2. b \in Docs /\ b.version = jobs[j].version + 1 /\ b.status # "Absent"
  BY BumpedType DEF Fresh
<1>3. jobs' = [jobs EXCEPT ![j] = b]
  OBVIOUS
<1>4. new.pc = "idle" \/ (new.job = j /\ new.doc = b)
  OBVIOUS
<1> HIDE DEF b
<1>5. ASSUME NEW u \in Task, u # t, task[u].pc \notin {"idle", "insert"}
      PROVE  /\ Knows(task[u])'
             /\ task[u].job = j => task'[u].doc.version < b.version
  <2>1. /\ task'[u] = task[u] /\ Knows(task[u])
        /\ task[u].job \in Job /\ task[u].doc.version \in Nat
    BY <1>5, BusyType DEF VersionInv, TypeInv, TasksInv, Docs
  <2>2. CASE task[u].job = j
    BY <1>1, <1>2, <1>3, <2>1, <2>2 DEF Knows
  <2>3. CASE task[u].job # j
    BY <1>1, <1>3, <2>1, <2>3 DEF Knows
  <2> QED
    BY <2>2, <2>3
<1>6. ASSUME new.pc \notin {"idle", "insert"}
      PROVE  Knows(task[t])'
  BY <1>1, <1>2, <1>3, <1>4, <1>6 DEF Knows, Docs
<1>7. \A u \in Task : u # t => task'[u] = task[u]
  BY <1>1
<1>8. task'[t] = new
  BY <1>1
<1>9. ASSUME NEW v \in Task, NEW u \in Task,
             task'[v].pc = "run", task'[u].pc = "run", task'[v].job = task'[u].job, v # u
      PROVE  task'[v].doc.version # task'[u].doc.version
  <2>1. CASE v # t /\ u # t
    BY <1>7, <1>9, <2>1 DEF VersionInv, DistinctRuns
  <2>2. CASE v = t
    BY <1>2, <1>4, <1>5, <1>7, <1>8, <1>9, <2>2, BusyType DEF Docs
  <2>3. CASE u = t
    BY <1>2, <1>4, <1>5, <1>7, <1>8, <1>9, <2>3, BusyType DEF Docs
  <2> QED
    BY <2>1, <2>2, <2>3
<1>10. DistinctRuns'
  BY <1>9 DEF DistinctRuns
<1>11. ASSUME NEW u \in Task, task'[u].pc \notin {"idle", "insert"}
       PROVE  Knows(task[u])'
  BY <1>5, <1>6, <1>7, <1>8, <1>11
<1> QED
  BY <1>10, <1>11 DEF VersionInv

(* A handler's last update. *)
LEMMA UpdateLastVersions ==
  ASSUME TypeInv, VersionInv, NEW t \in Task, NEW at \in Steps \ {"insert"}, NEW doc \in Docs,
         doc.version = task[t].doc.version, doc.status # "Absent",
         UpdateLast(t, at, doc)
  PROVE  VersionInv'
<1>1. task[t].pc \notin {"idle", "insert"} /\ Fresh(t)
  BY DEF UpdateLast, Steps
<1>2. Idle.pc = "idle"
  BY DEF Idle
<1> QED
  BY <1>1, <1>2, IdleType, UpdateLastType, UpdateVersions

(* A handler's update before its next step. *)
LEMMA UpdateThenVersions ==
  ASSUME TypeInv, VersionInv, NEW t \in Task, NEW at \in Steps \ {"insert"}, NEW doc \in Docs,
         doc.version = task[t].doc.version, doc.status # "Absent",
         NEW next \in Steps, UpdateThen(t, at, doc, next)
  PROVE  VersionInv'
<1> DEFINE new == [task[t] EXCEPT !.pc = next, !.doc = Bumped(doc)]
<1>1. task[t].pc \notin {"idle", "insert"} /\ Fresh(t)
  BY DEF UpdateThen, Steps
<1>2. task[t] \in Tasks /\ Bumped(doc) \in Docs
  BY <1>1, BusyType, BumpedType
<1>3. new \in Tasks /\ new.job = task[t].job /\ new.doc = Bumped(doc)
  BY <1>2 DEF Tasks
<1>4. at \in Steps
  OBVIOUS
<1>5. task' = [task EXCEPT ![t] = new]
  BY UpdateThenTask, ZenonT(60)
<1>6. jobs' = [jobs EXCEPT ![task[t].job] = Bumped(doc)]
  BY <1>4, UpdateThenType, ZenonT(60)
<1> HIDE DEF new
<1> QED
  BY <1>1, <1>3, <1>5, <1>6, UpdateVersions

(* The first document of a job. *)
LEMMA InsertVersions ==
  ASSUME TypeInv, VersionInv, NEW t \in Task, Insert(t)
  PROVE  VersionInv'
<1> DEFINE j == task[t].job
           new == [task[t] EXCEPT !.pc = "requeue", !.doc = NewJob]
<1>1. j \in Job /\ task \in [Task -> Tasks] /\ jobs \in [Job -> Docs] /\ task[t] \in Tasks
  BY BusyType DEF Insert, TypeInv, TasksInv
<1>2. jobs[j].status = "Absent" /\ jobs' = [jobs EXCEPT ![j] = NewJob]
  BY DEF Insert
<1>3. task' = [task EXCEPT ![t] = new]
  BY <1>1 DEF Insert, Tasks
<1>4. new.pc = "requeue" /\ new.job = j /\ new.doc = NewJob
  BY <1>1 DEF Tasks
<1> HIDE DEF new
<1>5. ASSUME NEW u \in Task, u # t, task[u].pc \notin {"idle", "insert"}
      PROVE  Knows(task[u])'
  <2>1. task'[u] = task[u] /\ Knows(task[u]) /\ task[u].job \in Job
    BY <1>3, <1>5, BusyType DEF VersionInv, TypeInv, TasksInv
  <2>2. task[u].job # j
    BY <1>2, <2>1 DEF Knows
  <2> QED
    BY <1>1, <1>2, <2>1, <2>2 DEF Knows
<1>6. Knows(task[t])'
  BY <1>1, <1>2, <1>3, <1>4, NewJobType DEF Knows
<1>7. \A u \in Task : u # t => task'[u] = task[u]
  BY <1>1, <1>3
<1>8. task'[t] = new
  BY <1>1, <1>3
<1>9. DistinctRuns'
  BY <1>4, <1>7, <1>8 DEF VersionInv, DistinctRuns
<1> QED
  BY <1>5, <1>6, <1>7, <1>9 DEF VersionInv

(* What the handlers write keeps the version that update_job then increments. *)
LEMMA WrittenVersion ==
  ASSUME NEW d \in Docs
  PROVE  /\ \A st \in Statuses : /\ [d EXCEPT !.status = st].version = d.version
                                 /\ [d EXCEPT !.status = st].status = st
         /\ LET e == [d EXCEPT !.status = "PendingVerification", !.processAttempt = @ + 1,
                               !.externalId = TRUE]
            IN  e.version = d.version /\ e.status = "PendingVerification"
         /\ LET e == [d EXCEPT !.verificationAttempt = @ + 1]
            IN  e.version = d.version /\ e.status = d.status
         /\ LET e == [d EXCEPT !.status = "PendingRetry", !.processAttempt = 0,
                               !.processRetry = @ + 1]
            IN  e.version = d.version /\ e.status = "PendingRetry"
         /\ LET e == [d EXCEPT !.status = "PendingVerification", !.verificationAttempt = 0,
                               !.verificationRetry = @ + 1]
            IN  e.version = d.version /\ e.status = "PendingVerification"
  BY DEF Docs

(* A task's step keeps what the tasks know of their jobs. *)
LEMMA VersionTaskStep ==
  ASSUME TypeInv, HandlerInv, VersionInv, NEW t \in Task, TaskStep(t) \/ Fault(t)
  PROVE  VersionInv'
<1> DEFINE d == task[t].doc
<1>1. task \in [Task -> Tasks]
  BY DEF TypeInv, TasksInv
<1>2. ASSUME task[t].pc # "idle"
      PROVE  d \in Docs
  BY <1>2, BusyType
<1>3. CASE Insert(t)
  BY <1>3, InsertVersions
<1>4. CASE Claim(t)
  <2>1. d \in Docs
    BY <1>2, <1>4 DEF Claim, UpdateThen
  <2> DEFINE e == [d EXCEPT !.status = "LockedForProcessing"]
  <2>2. e \in Docs /\ e.version = d.version /\ e.status # "Absent"
    BY <2>1, WrittenType, WrittenVersion, ZenonT(60) DEF Statuses
  <2> HIDE DEF e
  <2>3. UpdateThen(t, "claim", e, "run")
    BY <1>4 DEF Claim, e
  <2> QED
    BY <2>2, <2>3, UpdateThenVersions DEF Steps
<1>5. CASE ProcessSucceeds(t)
  <2>1. d \in Docs
    BY <1>2, <1>5 DEF ProcessSucceeds, UpdateThen
  <2> QED
    BY <1>5, <2>1, WrittenType, WrittenVersion, UpdateThenVersions, ZenonT(60) DEF ProcessSucceeds, Steps
<1>6. CASE StampVerification(t)
  <2>1. d \in Docs /\ d.status # "Absent"
    BY <1>2, <1>6 DEF StampVerification, UpdateThen, HandlerInv, HandlerOK, Verifiable
  <2> QED
    BY <1>6, <2>1, UpdateThenVersions DEF StampVerification, Steps
<1>7. CASE RejectedRetry(t)
  <2>1. d \in Docs
    BY <1>2, <1>7 DEF RejectedRetry, UpdateThen
  <2> DEFINE e == [d EXCEPT !.status = "VerificationFailed"]
  <2>2. e \in Docs /\ e.version = d.version /\ e.status # "Absent"
    BY <2>1, WrittenType, WrittenVersion, ZenonT(60) DEF Statuses
  <2> HIDE DEF e
  <2>3. UpdateThen(t, "check", e, "requeue")
    BY <1>7 DEF RejectedRetry, e
  <2> QED
    BY <2>2, <2>3, UpdateThenVersions DEF Steps
<1>8. CASE StillPending(t)
  <2>1. d \in Docs /\ d.status # "Absent"
    BY <1>2, <1>8 DEF StillPending, UpdateThen, HandlerInv, HandlerOK, Verifiable
  <2> DEFINE e == [d EXCEPT !.verificationAttempt = @ + 1]
  <2>2. e \in Docs /\ e.version = d.version /\ e.status # "Absent"
    BY <2>1, WrittenType, WrittenVersion, ZenonT(60)
  <2> HIDE DEF e
  <2>3. UpdateThen(t, "check", e, "announce")
    BY <1>8 DEF StillPending, e
  <2> QED
    BY <2>2, <2>3, UpdateThenVersions DEF Steps
<1>9. CASE MarkRetry(t)
  <2>1. d \in Docs
    BY <1>2, <1>9 DEF MarkRetry, UpdateThen
  <2> QED
    BY <1>9, <2>1, WrittenType, WrittenVersion, UpdateThenVersions, ZenonT(60) DEF MarkRetry, Steps
<1>10. CASE MarkVerify(t)
  <2>1. d \in Docs
    BY <1>2, <1>10 DEF MarkVerify, UpdateThen
  <2> QED
    BY <1>10, <2>1, WrittenType, WrittenVersion, UpdateThenVersions, ZenonT(60) DEF MarkVerify, Steps
<1>11. ASSUME NEW at \in Steps \ {"insert"}, NEW st \in Statuses,
              UpdateLast(t, at, [d EXCEPT !.status = st])
       PROVE  VersionInv'
  <2>1. d \in Docs
    BY <1>2, <1>11 DEF UpdateLast, Steps
  <2> DEFINE e == [d EXCEPT !.status = st]
  <2>2. e \in Docs
    BY <2>1, WrittenType, ZenonT(60)
  <2>3. e.version = d.version /\ e.status = st
    BY <2>1, WrittenVersion
  <2>4. UpdateLast(t, at, e)
    BY <1>11
  <2>5. st # "Absent"
    BY DEF Statuses
  <2> HIDE DEF e
  <2> QED
    BY <2>2, <2>3, <2>4, <2>5, UpdateLastVersions
<1>12. CASE \/ ProcessFails(t) \/ Verified(t) \/ RejectedLast(t) \/ TimedOut(t) \/ MarkFailed(t)
  BY <1>11, <1>12 DEF ProcessFails, Verified, RejectedLast, TimedOut, MarkFailed, Steps, Statuses
<1>13. CASE UNCHANGED jobs /\ End(t)
  <2>1. \A u \in Task : task'[u].pc = "idle" \/ task'[u] = task[u]
    BY <1>1, <1>13 DEF End, Idle
  <2> QED
    BY <1>13, <2>1, QuietVersions
<1>14. CASE Acquire(t) \/ Expire(t)
  <2>1. UNCHANGED jobs
    BY <1>14 DEF Acquire, Expire
  <2>2. task[t].pc # "idle" /\ (task[t].pc = "insert" => Expire(t))
    <3>1. CASE Acquire(t)
      BY <3>1 DEF Acquire
    <3>2. CASE Expire(t)
      BY <3>2 DEF Expire, TypeInv, TasksInv, Idle
    <3> QED
      BY <1>14, <3>1, <3>2
  <2>3. /\ task'[t].job = task[t].job /\ task'[t].doc = task[t].doc
        /\ task'[t].pc = "run" => task[t].pc = "run"
        /\ Expire(t) => task'[t].pc = task[t].pc
        /\ \A u \in Task : u # t => task'[u] = task[u]
    BY <1>1, <1>14 DEF Acquire, Expire, Tasks
  <2> QED
    BY <2>1, <2>2, <2>3, QuietVersions
<1> QED
  BY <1>3, <1>4, <1>5, <1>6, <1>7, <1>8, <1>9, <1>10, <1>12, <1>13, <1>14
     DEF TaskStep, Fault, InsertExists, AtCapacity, Requeue, Announce, UpdateOutdated,
         CallFails, VerifyPanics, EndErr

(* A handler starts with the current document. *)
LEMMA VersionStart ==
  ASSUME TypeInv, VersionInv, NEW t \in Task, NEW j \in Job,
         \/ Request(t, j)
         \/ \E q \in Queues, n \in 1 .. MaxReceives : Receive(t, q, j, n)
  PROVE  VersionInv'
<1>1. task \in [Task -> Tasks] /\ jobs[j] \in Docs
  BY DEF TypeInv, TasksInv
<1>2. ASSUME NEW pc, NEW msg, Begin(t, j, pc, msg), pc # "run",
             pc = "insert" \/ jobs[j].status # "Absent", UNCHANGED jobs
      PROVE  VersionInv'
  <2>1. /\ task'[t].pc = pc /\ task'[t].job = j /\ task'[t].doc = jobs[j]
        /\ \A u \in Task : u # t => task'[u] = task[u]
    BY <1>1, <1>2 DEF Begin
  <2> QED
    BY <1>1, <1>2, <2>1, QuietVersions
<1>3. CASE Request(t, j)
  BY <1>2, <1>3 DEF Request, StartCreate, StartRetry, StartVerifyRequest
<1>4. ASSUME NEW q \in Queues, NEW n \in 1 .. MaxReceives, Receive(t, q, j, n)
      PROVE  VersionInv'
  <2>1. jobs[j].status # "Absent"
    BY <1>4 DEF Receive, Accepts, Processable, Verifiable
  <2>2. FirstStep(q, j) # "run"
    BY DEF FirstStep, Queues
  <2> QED
    BY <1>2, <1>4, <2>1, <2>2 DEF Receive
<1> QED
  BY <1>3, <1>4

(* Every step keeps what the versions say of the documents read. *)
LEMMA VersionStep ==
  ASSUME TypeInv, HandlerInv, VersionInv, [Next]_vars
  PROVE  VersionInv'
<1>1. ASSUME NEW r \in Replica, Crash(r)
      PROVE  VersionInv'
  <2>1. UNCHANGED jobs /\ \A u \in Task : task'[u].pc = "idle" \/ task'[u] = task[u]
    BY <1>1 DEF Crash, Idle
  <2> QED
    BY <2>1, QuietVersions
<1>2. ASSUME UNCHANGED <<jobs, task>>
      PROVE  VersionInv'
  BY <1>2, QuietVersions
<1> QED
  BY <1>1, <1>2, VersionTaskStep, VersionStart DEF Next, vars, Dismiss, QueueForProcessing

(* At the start nobody has read a document. *)
LEMMA VersionInit == Init => VersionInv
  BY DEF Init, VersionInv, DistinctRuns, Idle

(* In every reachable state a handler with the current version holds the current document. *)
LEMMA VersionInvariant == Spec => [](TypeInv /\ HandlerInv /\ VersionInv)
<1>1. Init => TypeInv /\ HandlerInv /\ VersionInv
  BY InitType, HandlerInit, VersionInit
<1>2. TypeInv /\ HandlerInv /\ VersionInv /\ [Next]_vars
          => TypeInv' /\ HandlerInv' /\ VersionInv'
  BY NextType, HandlerStep, VersionStep
<1> QED
  BY <1>1, <1>2, PTL DEF Spec

\* For every number of tasks, whatever fails and whoever repeats a message or a
\* request: of the executions of a job's handler at most one can record its result.
THEOREM RunsAreFenced == Spec => []FencedRuns
<1>1. TypeInv /\ HandlerInv /\ VersionInv => FencedRuns
  <2> SUFFICES ASSUME TypeInv, HandlerInv, VersionInv,
                      NEW t \in Task, task[t].pc = "run", Fresh(t)
               PROVE  jobs[task[t].job].status = "LockedForProcessing"
    BY DEF VersionInv, DistinctRuns, FencedRuns
  <2>1. task[t].doc = jobs[task[t].job]
    BY DEF VersionInv, Knows, Fresh
  <2> QED
    BY <2>1 DEF HandlerInv, HandlerOK
<1> QED
  BY <1>1, VersionInvariant, PTL

-------------------------------------------------------------------------------
(* One runner per intervention *)

SameCounts(d, e) ==
    d.processRetry = e.processRetry /\ d.verificationRetry = e.verificationRetry

NoLaterCounts(d, e) ==
    d.processRetry <= e.processRetry /\ d.verificationRetry <= e.verificationRetry

\* A runner whose job nobody retried or reverified since either holds the current
\* document or was overtaken by the failure queue.
Abides(tk) ==
    LET current == jobs[tk.job] IN
    /\ NoLaterCounts(tk.doc, current)
    /\ SameCounts(tk.doc, current) =>
           tk.doc.version = current.version \/ current.status = "Failed"

RunnerInv ==
    /\ \A t \in Task : task[t].pc = "run" => Abides(task[t])
    /\ OneRunnerPerIntervention

(* The collection stays and no execution starts. *)
LEMMA QuietRunners ==
  ASSUME RunnerInv, UNCHANGED jobs,
         \A t \in Task : task'[t].pc = "run" =>
             /\ task[t].pc = "run"
             /\ task'[t].job = task[t].job /\ task'[t].doc = task[t].doc
  PROVE  RunnerInv'
<1>1. ASSUME NEW t \in Task, task'[t].pc = "run"
      PROVE  Abides(task[t])'
  BY <1>1 DEF RunnerInv, Abides, SameCounts, NoLaterCounts
<1>2. OneRunnerPerIntervention'
  BY DEF RunnerInv, OneRunnerPerIntervention
<1> QED
  BY <1>1, <1>2 DEF RunnerInv

(* A handler with the current document c replaces it by e.  Without an intervention *)
(* a failed job stays failed, and a locked one fails or is written by its runner.   *)
LEMMA WriteRunners ==
  ASSUME TypeInv, HandlerInv, VersionInv, RunnerInv,
         NEW t \in Task, task[t].pc \notin {"idle", "insert"}, Fresh(t),
         NEW e \in Docs, jobs' = [jobs EXCEPT ![task[t].job] = e],
         NEW new, task' = [task EXCEPT ![t] = new],
         NoLaterCounts(task[t].doc, e),
         SameCounts(task[t].doc, e) =>
             /\ task[t].doc.status = "Failed" => e.status = "Failed"
             /\ task[t].doc.status = "LockedForProcessing" =>
                    e.status = "Failed" \/ task[t].pc = "run",
         new.pc = "run" =>
             /\ task[t].pc = "claim" /\ new.job = task[t].job /\ new.doc = e
             /\ SameCounts(task[t].doc, e)
  PROVE  RunnerInv'
<1> DEFINE j == task[t].job
           c == jobs[j]
<1>1. /\ j \in Job /\ jobs \in [Job -> Docs] /\ task \in [Task -> Tasks]
      /\ c \in Docs /\ task[t].doc = c
  BY BusyType DEF TypeInv, TasksInv, VersionInv, Knows, Fresh
<1>2. jobs'[j] = e /\ task'[t] = new /\ \A u \in Task \ {t} : task'[u] = task[u]
  BY <1>1
<1>3. /\ \A k \in Job : k # j => jobs'[k] = jobs[k]
      /\ NoLaterCounts(c, e)
      /\ SameCounts(c, e) /\ c.status = "Failed" => e.status = "Failed"
      /\ SameCounts(c, e) /\ c.status = "LockedForProcessing" =>
             e.status = "Failed" \/ task[t].pc = "run"
  BY <1>1
<1> HIDE DEF c
<1>4. ASSUME NEW u \in Task, task[u].pc = "run", task[u].job = j
      PROVE  /\ task[u].doc \in Docs /\ NoLaterCounts(task[u].doc, c)
             /\ SameCounts(task[u].doc, c) =>
                    c.status \in {"Failed", "LockedForProcessing"}
             /\ SameCounts(task[u].doc, c) /\ task[t].pc = "run" => u = t
  <2>1. task[u].doc \in Docs /\ Abides(task[u]) /\ Knows(task[u])
        /\ task[u].doc.status = "LockedForProcessing"
    BY <1>4, BusyType DEF RunnerInv, VersionInv, HandlerInv, HandlerOK
  <2>2. task[u].doc.version = c.version => c.status = "LockedForProcessing"
    BY <1>4, <2>1 DEF Knows, c
  <2>3. SameCounts(task[u].doc, c) /\ task[t].pc = "run" => u = t
    BY <1>1, <1>4 DEF RunnerInv, OneRunnerPerIntervention, SameCounts
  <2> QED
    BY <1>4, <2>1, <2>2, <2>3 DEF Abides, c
<1>5. ASSUME NEW u \in Task \ {t}, task[u].pc = "run", task[u].job = j
      PROVE  /\ NoLaterCounts(task[u].doc, e)
             /\ SameCounts(task[u].doc, e) => e.status = "Failed"
             /\ SameCounts(task[u].doc, e) => SameCounts(task[u].doc, c) /\ SameCounts(c, e)
  <2>1. task[u].doc \in Docs /\ NoLaterCounts(task[u].doc, c)
    BY <1>4, <1>5
  <2>2. \A d \in Docs : d.processRetry \in Nat /\ d.verificationRetry \in Nat
    BY DEF Docs
  <2>3. /\ NoLaterCounts(task[u].doc, e)
        /\ SameCounts(task[u].doc, e) => SameCounts(task[u].doc, c) /\ SameCounts(c, e)
    <3> HIDE DEF Docs
    <3> QED
      BY <1>1, <1>3, <2>1, <2>2 DEF NoLaterCounts, SameCounts
  <2> QED
    BY <1>3, <1>4, <1>5, <2>3
<1>6. ASSUME NEW u \in Task, task'[u].pc = "run"
      PROVE  Abides(task[u])'
  <2>1. CASE u = t
    BY <1>2, <1>6, <2>1 DEF Abides, NoLaterCounts, SameCounts, Docs
  <2>2. CASE u # t /\ task[u].job = j
    BY <1>2, <1>5, <1>6, <2>2 DEF Abides, NoLaterCounts, SameCounts
  <2>3. CASE u # t /\ task[u].job # j
    <3>1. task'[u] = task[u] /\ task[u].job \in Job /\ Abides(task[u])
      BY <1>2, <1>6, <2>3, BusyType DEF RunnerInv
    <3> QED
      BY <1>3, <2>3, <3>1 DEF Abides, NoLaterCounts, SameCounts
  <2> QED
    BY <2>1, <2>2, <2>3
<1>7. ASSUME NEW u \in Task \ {t}, task'[u].pc = "run", task'[t].pc = "run",
             task'[u].job = task'[t].job, SameCounts(task'[u].doc, task'[t].doc)
      PROVE  FALSE
  <2>1. task[u].pc = "run" /\ task[u].job = j /\ SameCounts(task[u].doc, e)
        /\ task[t].pc = "claim"
    BY <1>2, <1>7
  <2>2. c.status \in Processable
    BY <1>1, <2>1 DEF HandlerInv, HandlerOK
  <2>3. c.status \in {"Failed", "LockedForProcessing"}
    BY <1>4, <1>5, <2>1
  <2> QED
    BY <2>2, <2>3 DEF Processable
<1>8. OneRunnerPerIntervention'
  <2> SUFFICES ASSUME NEW u \in Task, NEW v \in Task,
                      task'[u].pc = "run", task'[v].pc = "run", task'[u].job = task'[v].job,
                      SameCounts(task'[u].doc, task'[v].doc), u # v
               PROVE  FALSE
    BY DEF OneRunnerPerIntervention, SameCounts
  <2>1. CASE u = t
    BY <1>7, <2>1 DEF SameCounts
  <2>2. CASE v = t
    BY <1>7, <2>2
  <2>3. CASE u # t /\ v # t
    BY <1>2, <2>3 DEF RunnerInv, OneRunnerPerIntervention, SameCounts
  <2> QED
    BY <2>1, <2>2, <2>3
<1> QED
  BY <1>6, <1>8 DEF RunnerInv

(* The counters of the documents that handlers write. *)
LEMMA WrittenCounts ==
  ASSUME NEW d \in Docs
  PROVE  /\ \A st \in Statuses : SameCounts(d, [d EXCEPT !.status = st])
         /\ SameCounts(d, [d EXCEPT !.status = "PendingVerification", !.processAttempt = @ + 1,
                                    !.externalId = TRUE])
         /\ SameCounts(d, [d EXCEPT !.verificationAttempt = @ + 1])
         /\ LET e == [d EXCEPT !.status = "PendingRetry", !.processAttempt = 0,
                               !.processRetry = @ + 1]
            IN  NoLaterCounts(d, e) /\ ~SameCounts(d, e)
         /\ LET e == [d EXCEPT !.status = "PendingVerification", !.verificationAttempt = 0,
                               !.verificationRetry = @ + 1]
            IN  NoLaterCounts(d, e) /\ ~SameCounts(d, e)
  BY DEF Docs, SameCounts, NoLaterCounts

(* Bumping the version changes no counter; equal counters are no later ones. *)
LEMMA BumpedCounts ==
  ASSUME NEW d \in Docs, NEW e \in Docs
  PROVE  /\ SameCounts(d, Bumped(e)) <=> SameCounts(d, e)
         /\ NoLaterCounts(d, Bumped(e)) <=> NoLaterCounts(d, e)
         /\ SameCounts(d, e) => NoLaterCounts(d, e)
<1>1. Bumped(e).processRetry = e.processRetry /\ Bumped(e).verificationRetry = e.verificationRetry
  BY DEF Bumped, Docs
<1>2. SameCounts(d, e) => NoLaterCounts(d, e)
  BY DEF SameCounts, NoLaterCounts, Docs
<1> QED
  BY <1>1, <1>2 DEF SameCounts, NoLaterCounts

(* A handler's last update. *)
LEMMA UpdateLastRunners ==
  ASSUME TypeInv, HandlerInv, VersionInv, RunnerInv,
         NEW t \in Task, NEW at \in Steps \ {"insert"}, NEW e \in Docs, UpdateLast(t, at, e),
         SameCounts(task[t].doc, e),
         \/ e.status = "Failed"
         \/ task[t].doc.status \notin {"Failed", "LockedForProcessing"}
  PROVE  RunnerInv'
<1>1. task[t].pc \notin {"idle", "insert"} /\ Fresh(t)
      /\ jobs' = [jobs EXCEPT ![task[t].job] = Bumped(e)]
      /\ task' = [task EXCEPT ![t] = Idle] /\ Idle.pc # "run"
  BY DEF UpdateLast, Steps, End, Idle
<1>2. task[t].doc \in Docs
  BY <1>1, BusyType
<1>3. NoLaterCounts(task[t].doc, Bumped(e)) /\ Bumped(e) \in Docs
      /\ Bumped(e).status = e.status
  BY <1>2, BumpedCounts, BumpedType
<1> QED
  BY <1>1, <1>3, WriteRunners

(* A handler's update before its next step. *)
LEMMA UpdateThenRunners ==
  ASSUME TypeInv, HandlerInv, VersionInv, RunnerInv,
         NEW t \in Task, NEW at \in Steps \ {"insert"}, NEW e \in Docs, NEW next \in Steps,
         UpdateThen(t, at, e, next), NoLaterCounts(task[t].doc, e),
         SameCounts(task[t].doc, e) =>
             at = "run" \/ task[t].doc.status \notin {"Failed", "LockedForProcessing"},
         next = "run" => at = "claim" /\ SameCounts(task[t].doc, e)
  PROVE  RunnerInv'
<1> DEFINE new == [task[t] EXCEPT !.pc = next, !.doc = Bumped(e)]
<1>1. task[t].pc = at /\ task[t].pc \notin {"idle", "insert"} /\ Fresh(t)
      /\ jobs' = [jobs EXCEPT ![task[t].job] = Bumped(e)]
  BY DEF UpdateThen, Steps
<1>2. task[t] \in Tasks /\ task \in [Task -> Tasks]
  BY <1>1, BusyType DEF TypeInv, TasksInv
<1>3. task' = [task EXCEPT ![t] = new]
  BY <1>2 DEF UpdateThen
<1>4. new.pc = next /\ new.job = task[t].job /\ new.doc = Bumped(e)
  BY <1>2 DEF Tasks
<1>5. at = "run" => task[t].doc.status # "Failed"
  BY <1>1 DEF HandlerInv, HandlerOK
<1>6. task[t].doc \in Docs /\ Bumped(e) \in Docs
  BY <1>1, BusyType, BumpedType
<1>7. /\ NoLaterCounts(task[t].doc, Bumped(e))
      /\ SameCounts(task[t].doc, Bumped(e)) <=> SameCounts(task[t].doc, e)
  BY <1>6, BumpedCounts
<1> HIDE DEF new
<1> QED
  BY <1>1, <1>3, <1>4, <1>5, <1>6, <1>7, WriteRunners

(* A task's step gives no job a second runner. *)
LEMMA RunnerTaskStep ==
  ASSUME TypeInv, HandlerInv, VersionInv, RunnerInv, NEW t \in Task, TaskStep(t) \/ Fault(t)
  PROVE  RunnerInv'
<1> DEFINE d == task[t].doc
<1>1. task \in [Task -> Tasks]
  BY DEF TypeInv, TasksInv
<1>2. ASSUME task[t].pc # "idle"
      PROVE  d \in Docs
  BY <1>2, BusyType
<1>3. CASE Insert(t)
  <2>1. ASSUME NEW u \in Task, task'[u].pc = "run"
        PROVE  /\ u # t /\ task'[u] = task[u] /\ Knows(task[u])
               /\ task[u].job \in Job /\ jobs'[task[u].job] = jobs[task[u].job]
    <3>1. u # t /\ task'[u] = task[u]
      BY <1>1, <1>3, <2>1 DEF Insert
    <3>2. Knows(task[u]) /\ task[u].job \in Job
      BY <2>1, <3>1, BusyType DEF VersionInv
    <3> QED
      BY <1>3, <3>1, <3>2 DEF Insert, Knows, TypeInv
  <2> QED
    BY <2>1 DEF RunnerInv, OneRunnerPerIntervention, Abides, SameCounts, NoLaterCounts
<1>4. CASE Claim(t)
  <2>1. d \in Docs /\ d.status \in Processable
    BY <1>2, <1>4 DEF Claim, UpdateThen, HandlerInv, HandlerOK
  <2> DEFINE e == [d EXCEPT !.status = "LockedForProcessing"]
  <2>2. e \in Docs
    BY <2>1, WrittenType, ZenonT(60) DEF Statuses
  <2>3. SameCounts(d, e) /\ NoLaterCounts(d, e)
    BY <2>1, <2>2, WrittenCounts, BumpedCounts, Zenon DEF Statuses
  <2> HIDE DEF e
  <2>4. UpdateThen(t, "claim", e, "run")
    BY <1>4 DEF Claim, e
  <2>5. d.status \notin {"Failed", "LockedForProcessing"}
    BY <2>1 DEF Processable
  <2> QED
    BY <2>2, <2>3, <2>4, <2>5, UpdateThenRunners DEF Steps
<1>5. CASE ProcessSucceeds(t)
  <2>1. d \in Docs /\ d.status = "LockedForProcessing"
    BY <1>2, <1>5 DEF ProcessSucceeds, UpdateThen, HandlerInv, HandlerOK
  <2> DEFINE e == [d EXCEPT !.status = "PendingVerification", !.processAttempt = @ + 1,
                            !.externalId = TRUE]
  <2>2. e \in Docs
    BY <2>1, WrittenType, ZenonT(60) DEF Statuses
  <2>3. SameCounts(d, e) /\ NoLaterCounts(d, e)
    BY <2>1, <2>2, WrittenCounts, BumpedCounts, Zenon DEF Statuses
  <2> HIDE DEF e
  <2>4. UpdateThen(t, "run", e, "announce")
    BY <1>5 DEF ProcessSucceeds, e
  <2> QED
    BY <2>1, <2>2, <2>3, <2>4, UpdateThenRunners DEF Steps
<1>6. CASE StampVerification(t)
  <2>1. d \in Docs /\ d.status \in Verifiable
    BY <1>2, <1>6 DEF StampVerification, UpdateThen, HandlerInv, HandlerOK
  <2>2. SameCounts(d, d) /\ NoLaterCounts(d, d)
    BY <2>1, BumpedCounts DEF SameCounts
  <2>3. d.status \notin {"Failed", "LockedForProcessing"}
    BY <2>1 DEF Verifiable
  <2> QED
    BY <1>6, <2>1, <2>2, <2>3, UpdateThenRunners DEF StampVerification, Steps
<1>7. CASE RejectedRetry(t)
  <2>1. d \in Docs /\ d.status \in Verifiable
    BY <1>2, <1>7 DEF RejectedRetry, UpdateThen, HandlerInv, HandlerOK
  <2> DEFINE e == [d EXCEPT !.status = "VerificationFailed"]
  <2>2. e \in Docs
    BY <2>1, WrittenType, ZenonT(60) DEF Statuses
  <2>3. SameCounts(d, e) /\ NoLaterCounts(d, e)
    BY <2>1, <2>2, WrittenCounts, BumpedCounts, Zenon DEF Statuses
  <2> HIDE DEF e
  <2>4. UpdateThen(t, "check", e, "requeue")
    BY <1>7 DEF RejectedRetry, e
  <2>5. d.status \notin {"Failed", "LockedForProcessing"}
    BY <2>1 DEF Verifiable
  <2> QED
    BY <2>2, <2>3, <2>4, <2>5, UpdateThenRunners DEF Steps
<1>8. CASE StillPending(t)
  <2>1. d \in Docs /\ d.status \in Verifiable
    BY <1>2, <1>8 DEF StillPending, UpdateThen, HandlerInv, HandlerOK
  <2> DEFINE e == [d EXCEPT !.verificationAttempt = @ + 1]
  <2>2. e \in Docs
    BY <2>1, WrittenType, ZenonT(60) DEF Statuses
  <2>3. SameCounts(d, e) /\ NoLaterCounts(d, e)
    BY <2>1, <2>2, WrittenCounts, BumpedCounts, Zenon DEF Statuses
  <2> HIDE DEF e
  <2>4. UpdateThen(t, "check", e, "announce")
    BY <1>8 DEF StillPending, e
  <2>5. d.status \notin {"Failed", "LockedForProcessing"}
    BY <2>1 DEF Verifiable
  <2> QED
    BY <2>2, <2>3, <2>4, <2>5, UpdateThenRunners DEF Steps
<1>9. CASE MarkRetry(t)
  <2>1. d \in Docs
    BY <1>2, <1>9 DEF MarkRetry, UpdateThen
  <2> DEFINE e == [d EXCEPT !.status = "PendingRetry", !.processAttempt = 0,
                            !.processRetry = @ + 1]
  <2>2. e \in Docs
    BY <2>1, WrittenType, ZenonT(60) DEF Statuses
  <2>3. ~SameCounts(d, e) /\ NoLaterCounts(d, e)
    BY <2>1, <2>2, WrittenCounts DEF Statuses
  <2> HIDE DEF e
  <2>4. UpdateThen(t, "markRetry", e, "requeue")
    BY <1>9 DEF MarkRetry, e
  <2> QED
    BY <2>2, <2>3, <2>4, UpdateThenRunners DEF Steps
<1>10. CASE MarkVerify(t)
  <2>1. d \in Docs
    BY <1>2, <1>10 DEF MarkVerify, UpdateThen
  <2> DEFINE e == [d EXCEPT !.status = "PendingVerification", !.verificationAttempt = 0,
                            !.verificationRetry = @ + 1]
  <2>2. e \in Docs
    BY <2>1, WrittenType, ZenonT(60) DEF Statuses
  <2>3. ~SameCounts(d, e) /\ NoLaterCounts(d, e)
    BY <2>1, <2>2, WrittenCounts DEF Statuses
  <2> HIDE DEF e
  <2>4. UpdateThen(t, "markVerify", e, "announce")
    BY <1>10 DEF MarkVerify, e
  <2> QED
    BY <2>2, <2>3, <2>4, UpdateThenRunners DEF Steps
<1>11. ASSUME NEW at \in Steps \ {"insert"}, NEW st \in Statuses,
              UpdateLast(t, at, [d EXCEPT !.status = st]),
              st = "Failed" \/ d.status \notin {"Failed", "LockedForProcessing"}
       PROVE  RunnerInv'
  <2>1. d \in Docs
    BY <1>2, <1>11 DEF UpdateLast, Steps
  <2> DEFINE e == [d EXCEPT !.status = st]
  <2>2. e \in Docs
    BY <2>1, WrittenType, ZenonT(60)
  <2>3. SameCounts(d, e)
    BY <2>1, WrittenCounts, Zenon
  <2>4. e.status = st
    BY <2>1, WrittenVersion
  <2>5. UpdateLast(t, at, e)
    BY <1>11
  <2> HIDE DEF e
  <2> QED
    BY <1>11, <2>2, <2>3, <2>4, <2>5, UpdateLastRunners
<1>12. CASE ProcessFails(t) \/ RejectedLast(t) \/ MarkFailed(t)
  BY <1>11, <1>12 DEF ProcessFails, RejectedLast, MarkFailed, Steps, Statuses
<1>13. CASE Verified(t) \/ TimedOut(t)
  <2>1. d.status \notin {"Failed", "LockedForProcessing"}
    BY <1>13 DEF Verified, TimedOut, UpdateLast, HandlerInv, HandlerOK, Verifiable
  <2> QED
    BY <1>11, <1>13, <2>1 DEF Verified, TimedOut, Steps, Statuses
<1>14. CASE UNCHANGED jobs /\ End(t)
  <2>1. \A u \in Task : task'[u].pc = "run" => task'[u] = task[u]
    BY <1>1, <1>14 DEF End, Idle
  <2> QED
    BY <1>14, <2>1, QuietRunners
<1>15. CASE Acquire(t) \/ Expire(t)
  <2>1. /\ UNCHANGED jobs
        /\ task'[t].pc = "run" => task[t].pc = "run"
        /\ task'[t].job = task[t].job /\ task'[t].doc = task[t].doc
        /\ \A u \in Task : u # t => task'[u] = task[u]
    BY <1>1, <1>15 DEF Acquire, Expire, Tasks
  <2> QED
    BY <2>1, QuietRunners
<1> QED
  BY <1>3, <1>4, <1>5, <1>6, <1>7, <1>8, <1>9, <1>10, <1>12, <1>13, <1>14, <1>15
     DEF TaskStep, Fault, InsertExists, AtCapacity, Requeue, Announce, UpdateOutdated,
         CallFails, VerifyPanics, EndErr

(* Every step keeps a job to one runner per intervention. *)
LEMMA RunnerStep ==
  ASSUME TypeInv, HandlerInv, VersionInv, RunnerInv, [Next]_vars
  PROVE  RunnerInv'
<1>1. ASSUME NEW t \in Task, NEW j \in Job, NEW pc, NEW msg,
             Begin(t, j, pc, msg), pc # "run", UNCHANGED jobs
      PROVE  RunnerInv'
  <2>1. \A u \in Task : task'[u].pc = "run" => task'[u] = task[u]
    BY <1>1 DEF Begin, TypeInv, TasksInv
  <2> QED
    BY <1>1, <2>1, QuietRunners
<1>2. ASSUME NEW t \in Task, NEW j \in Job, Request(t, j)
      PROVE  RunnerInv'
  BY <1>1, <1>2 DEF Request, StartCreate, StartRetry, StartVerifyRequest
<1>3. ASSUME NEW t \in Task, NEW q \in Queues, NEW j \in Job, NEW n \in 1 .. MaxReceives,
             Receive(t, q, j, n)
      PROVE  RunnerInv'
  <2>1. FirstStep(q, j) # "run"
    BY DEF FirstStep, Queues
  <2> QED
    BY <1>1, <1>3, <2>1 DEF Receive
<1>4. ASSUME NEW r \in Replica, Crash(r)
      PROVE  RunnerInv'
  <2>1. UNCHANGED jobs /\ \A u \in Task : task'[u].pc = "run" => task'[u] = task[u]
    BY <1>4 DEF Crash, Idle
  <2> QED
    BY <2>1, QuietRunners
<1>5. ASSUME UNCHANGED <<jobs, task>>
      PROVE  RunnerInv'
  BY <1>5, QuietRunners
<1> QED
  BY <1>2, <1>3, <1>4, <1>5, RunnerTaskStep DEF Next, vars, Dismiss, QueueForProcessing

\* For every number of tasks, messages and faults: two tasks execute a job side by side
\* only when an operator retried or reverified it between their starts.
THEOREM OneRunner == Spec => []OneRunnerPerIntervention
<1>1. Init => RunnerInv
  BY DEF Init, RunnerInv, OneRunnerPerIntervention, Idle
<1>2. TypeInv /\ HandlerInv /\ VersionInv /\ RunnerInv /\ [Next]_vars => RunnerInv'
  BY RunnerStep
<1>3. RunnerInv => OneRunnerPerIntervention
  BY DEF RunnerInv
<1> QED
  BY <1>1, <1>2, <1>3, VersionInvariant, PTL DEF Spec

-------------------------------------------------------------------------------
(* Nobody waits for a message that was lost *)

\* No message is given up before its handler is done: no call fails or stops half way,
\* and no message is both overdue and lost to a panic.
MessagesLast == /\ Faults \cap {"call", "crash"} = {}
                /\ ~({"slow", "panic"} \subseteq Faults)

\* A task that verifies holds the message it was started by, unless that is overdue.
Holds(tk) ==
    "slow" \notin Faults /\ tk.pc \in {"stamp", "check"} =>
        \E n \in 1 .. MaxReceives : tk.msg = {<<"verify", tk.job, n>>}

HoldInv == \A t \in Task : Holds(task[t])

\* The steps in which a task is about to do what the messages of queue q ask for.
Carers(q) ==
    CASE q = "process" -> {"requeue", "acquire", "claim"}
      [] q = "verify"  -> {"announce", "stamp", "check"}
      [] q = "failure" -> {"markFailed"}

Tended(q, j) == Visible(q, j) \/ InCharge(j, Carers(q))

Live(j) == Attended(j) \/ Visible("failure", j) \/ InCharge(j, {"markFailed"})

(* What a job is attended to, by queue. *)
LEMMA LiveMeans ==
  ASSUME NEW j
  PROVE  Live(j) <=> \/ Tended("failure", j)
                     \/ /\ jobs[j].status \in Processable => Tended("process", j)
                        /\ jobs[j].status = "LockedForProcessing" => InCharge(j, {"run"})
                        /\ jobs[j].status = "PendingVerification" => Tended("verify", j)
<1>1. /\ Carers("process") = {"requeue", "acquire", "claim"}
      /\ Carers("verify") = {"announce", "stamp", "check"}
      /\ Carers("failure") = {"markFailed"}
  BY DEF Carers
<1> QED
  BY <1>1 DEF Live, Attended, Tended

(* The same of the next state. *)
LEMMA LiveMeansNext ==
  ASSUME NEW j
  PROVE  Live(j)' <=> \/ Tended("failure", j)'
                      \/ /\ jobs'[j].status \in Processable => Tended("process", j)'
                         /\ jobs'[j].status = "LockedForProcessing" => InCharge(j, {"run"})'
                         /\ jobs'[j].status = "PendingVerification" => Tended("verify", j)'
<1>1. /\ Carers("process") = {"requeue", "acquire", "claim"}
      /\ Carers("verify") = {"announce", "stamp", "check"}
      /\ Carers("failure") = {"markFailed"}
  BY DEF Carers
<1> QED
  BY <1>1 DEF Live, Attended, Tended

(* A job whose document stays is attended to as long as whoever does so is relieved. *)
LEMMA LiveStays ==
  ASSUME NEW j \in Job, Live(j), jobs'[j] = jobs[j],
         \A q \in Queues : Visible(q, j) /\ Accepts(q, jobs[j].status)
                               => Tended(q, j)' \/ Tended("failure", j)',
         \A q \in Queues : InCharge(j, Carers(q)) => Tended(q, j)' \/ Tended("failure", j)',
         InCharge(j, {"run"}) => InCharge(j, {"run"})'
  PROVE  Live(j)'
<1>1. \A q \in Queues : Tended(q, j) /\ Accepts(q, jobs[j].status)
                            => Tended(q, j)' \/ Tended("failure", j)'
  BY DEF Tended
<1>2. /\ jobs[j].status \in Processable => Accepts("process", jobs[j].status)
      /\ jobs[j].status = "PendingVerification" => Accepts("verify", jobs[j].status)
      /\ jobs[j].status \in Processable \cup {"LockedForProcessing", "PendingVerification"}
             => Accepts("failure", jobs[j].status)
  BY DEF Accepts, Processable, Verifiable
<1>3. {"process", "verify", "failure"} \subseteq Queues
  BY DEF Queues
<1> QED
  BY <1>1, <1>2, <1>3, LiveMeans, LiveMeansNext

(* A task that has nothing to do with the step stays in charge. *)
LEMMA ChargeStays ==
  ASSUME NEW j \in Job, jobs'[j] = jobs[j], NEW t \in Task, NEW steps,
         \A u \in Task : u # t => task'[u] = task[u],
         InCharge(j, steps),
         ~(task[t].job = j /\ task[t].pc \in steps /\ Fresh(t))
  PROVE  InCharge(j, steps)'
<1>1. PICK u \in Task : task[u].job = j /\ task[u].pc \in steps /\ Fresh(u)
  BY DEF InCharge
<1>2. u # t /\ task'[u] = task[u]
  BY <1>1
<1>3. task'[u].job = j /\ task'[u].pc \in steps
      /\ jobs'[task'[u].job].version = task'[u].doc.version
  BY <1>1, <1>2 DEF Fresh
<1> QED
  BY <1>3 DEF InCharge, Fresh

Grows == \A s \in Slot : queue[s] > 0 => queue'[s] > 0

(* A message that is not received stays visible. *)
LEMMA VisibleStays ==
  ASSUME NEW q \in Queues, NEW j \in Job, Grows, Visible(q, j)
  PROVE  Visible(q, j)'
<1>1. PICK n \in 1 .. MaxReceives : queue[<<q, j, n>>] > 0
  BY DEF Visible
<1>2. <<q, j, n>> \in Slot
  BY DEF Slot
<1> QED
  BY <1>1, <1>2 DEF Grows, Visible

(* A step of task t that loses no message: only what t was in charge of is to be shown. *)
LEMMA LiveKept ==
  ASSUME NEW j \in Job, Live(j), jobs'[j] = jobs[j], NEW t \in Task,
         \A u \in Task : u # t => task'[u] = task[u], Grows,
         \A q \in Queues : task[t].job = j /\ task[t].pc \in Carers(q) /\ Fresh(t)
                               => Tended(q, j)' \/ Tended("failure", j)',
         ~(task[t].job = j /\ task[t].pc = "run" /\ Fresh(t))
  PROVE  Live(j)'
<1>1. \A q \in Queues : Visible(q, j) => Tended(q, j)'
  BY VisibleStays DEF Tended
<1>2. ASSUME NEW q \in Queues, InCharge(j, Carers(q))
      PROVE  Tended(q, j)' \/ Tended("failure", j)'
  <2>1. CASE task[t].job = j /\ task[t].pc \in Carers(q) /\ Fresh(t)
    BY <2>1
  <2>2. CASE ~(task[t].job = j /\ task[t].pc \in Carers(q) /\ Fresh(t))
    <3>1. InCharge(j, Carers(q))'
      <4> DEFINE steps == Carers(q)
      <4>1. InCharge(j, steps) /\ ~(task[t].job = j /\ task[t].pc \in steps /\ Fresh(t))
        BY <1>2, <2>2
      <4> HIDE DEF steps
      <4>2. InCharge(j, steps)'
        BY <4>1, ChargeStays
      <4> QED
        BY <4>2 DEF steps
    <3> QED
      BY <3>1 DEF Tended
  <2> QED
    BY <2>1, <2>2
<1>3. InCharge(j, {"run"}) => InCharge(j, {"run"})'
  BY ChargeStays
<1> QED
  BY <1>1, <1>2, <1>3, LiveStays

(* Returned deliveries take no message away, and what a task holds is visible again. *)
LEMMA ReturnedGrows ==
  ASSUME NEW q0 \in [Slot -> Nat], NEW t \in Task, NEW s \in Slot
  PROVE  /\ q0[s] > 0 => Returned(q0, {t})[s] > 0
         /\ \A m : task[t].msg = {m} /\ Redelivered(m) = s => Returned(q0, {t})[s] > 0
<1> DEFINE S == {u \in {t} : \E m \in task[u].msg : Redelivered(m) = s}
<1>1. IsFiniteSet(S) /\ Cardinality(S) \in Nat
  <2>1. IsFiniteSet({t}) /\ S \subseteq {t}
    BY FS_Singleton
  <2>2. IsFiniteSet(S)
    BY <2>1, FS_Subset
  <2> QED
    BY <2>2, FS_CardinalityType
<1>2. Returned(q0, {t})[s] = q0[s] + Cardinality(S)
  BY DEF Returned
<1>3. ASSUME NEW m, task[t].msg = {m}, Redelivered(m) = s
      PROVE  Cardinality(S) = 1
  <2>1. S = {t}
    BY <1>3
  <2> QED
    BY <2>1, FS_Singleton
<1> HIDE DEF S
<1> QED
  BY <1>1, <1>2, <1>3

(* A message that is sent is visible, and so are those that were. *)
LEMMA SentGrows ==
  ASSUME NEW q0 \in [Slot -> Nat], NEW q \in Queues, NEW j \in Job
  PROVE  /\ \A s \in Slot : q0[s] > 0 => Sent(q0, <<q, j, 1>>)[s] > 0
         /\ Sent(q0, <<q, j, 1>>)[<<q, j, 1>>] > 0
  BY SlotType DEF Sent

(* A handler that returns Err loses no message. *)
LEMMA EndErrGrows ==
  ASSUME TypeInv, NEW t \in Task, NEW q0 \in [Slot -> Nat], EndErr(t, q0)
  PROVE  /\ \A s \in Slot : q0[s] > 0 => queue'[s] > 0
         /\ \A u \in Task : u # t => task'[u] = task[u]
<1>1. queue' = q0 \/ queue' = Returned(q0, {t})
  BY DEF EndErr
<1>2. task' = [task EXCEPT ![t] = Idle]
  BY DEF EndErr, End
<1> QED
  BY <1>1, <1>2, ReturnedGrows DEF TypeInv, TasksInv

(* An update of a job that is handed on to a task in charge, or needs none. *)
LEMMA WriteLive ==
  ASSUME TypeInv, NoStrandedJob, NEW t \in Task, task[t].pc # "idle", NEW e \in Docs, NEW new,
         jobs' = [jobs EXCEPT ![task[t].job] = e], task' = [task EXCEPT ![t] = new],
         queue' = queue,
         new.pc # "idle" => new.job = task[t].job /\ new.doc = e,
         e.status \in Processable => new.pc \in Carers("process"),
         e.status = "LockedForProcessing" => new.pc = "run",
         e.status = "PendingVerification" => new.pc \in Carers("verify")
  PROVE  NoStrandedJob'
<1> SUFFICES ASSUME NEW j \in Job PROVE Live(j)'
  BY DEF NoStrandedJob, Live
<1>1. task[t].job \in Job /\ jobs \in [Job -> Docs] /\ task \in [Task -> Tasks]
  BY BusyType DEF TypeInv, TasksInv
<1>2. task'[t] = new /\ \A u \in Task : u # t => task'[u] = task[u]
  BY <1>1
<1>3. CASE j # task[t].job
  <2>1. jobs'[j] = jobs[j] /\ Live(j) /\ Grows
    BY <1>1, <1>3 DEF NoStrandedJob, Live, Grows
  <2> QED
    BY <1>2, <1>3, <2>1, LiveKept
<1>4. CASE j = task[t].job
  <2>1. jobs'[j] = e
    BY <1>1, <1>4
  <2>2. ASSUME NEW steps, new.pc \in steps, "idle" \notin steps
        PROVE  InCharge(j, steps)'
    <3>1. task'[t].job = j /\ task'[t].pc \in steps
          /\ jobs'[task'[t].job].version = task'[t].doc.version
      BY <1>2, <1>4, <2>1, <2>2
    <3> QED
      BY <3>1 DEF InCharge, Fresh
  <2>3. \A q \in Queues : new.pc \in Carers(q) => InCharge(j, Carers(q))'
    <3> SUFFICES ASSUME NEW q \in Queues, new.pc \in Carers(q)
                 PROVE  InCharge(j, Carers(q))'
      OBVIOUS
    <3> DEFINE steps == Carers(q)
    <3>1. new.pc \in steps /\ "idle" \notin steps
      BY DEF Carers, Queues
    <3> HIDE DEF steps
    <3>2. InCharge(j, steps)'
      BY <2>2, <3>1
    <3> QED
      BY <3>2 DEF steps
  <2>4. new.pc = "run" => InCharge(j, {"run"})'
    BY <2>2
  <2>5. {"process", "verify"} \subseteq Queues
    BY DEF Queues
  <2> QED
    BY <2>1, <2>3, <2>4, <2>5, LiveMeansNext DEF Tended
<1> QED
  BY <1>3, <1>4

(* A task that verifies keeps its message while it works. *)
LEMMA HoldStep ==
  ASSUME TypeInv, HoldInv, [Next]_vars
  PROVE  HoldInv'
<1>1. ASSUME NEW t \in Task, NEW new, task' = [task EXCEPT ![t] = new], Holds(new)
      PROVE  HoldInv'
  BY <1>1 DEF HoldInv, TypeInv, TasksInv
<1>2. ASSUME NEW new, new.pc \notin {"stamp", "check"}
      PROVE  Holds(new)
  BY <1>2 DEF Holds
<1>3. Holds(Idle)
  BY <1>2 DEF Idle
<1>4. ASSUME NEW t \in Task, End(t)
      PROVE  HoldInv'
  BY <1>1, <1>3, <1>4 DEF End
<1>5. ASSUME NEW t \in Task, NEW at \in Steps, NEW doc, NEW next \in Steps,
             UpdateThen(t, at, doc, next),
             next \in {"stamp", "check"} => at = "stamp"
      PROVE  HoldInv'
  <2> DEFINE d == Bumped(doc)
             new == [task[t] EXCEPT !.pc = next, !.doc = d]
  <2>1. task' = [task EXCEPT ![t] = new]
    BY <1>5, UpdateThenTask, ZenonT(30)
  <2>2. task[t].pc = at /\ task[t] \in Tasks
    BY <1>5 DEF UpdateThen, TypeInv, TasksInv
  <2> HIDE DEF d
  <2>3. new.pc = next /\ new.job = task[t].job /\ new.msg = task[t].msg
    BY <2>2 DEF Tasks
  <2>4. Holds(task[t])
    BY DEF HoldInv
  <2> HIDE DEF new
  <2>5. Holds(new)
    BY <1>5, <2>2, <2>3, <2>4 DEF Holds
  <2> QED
    BY <1>1, <2>1, <2>5
<1>6. ASSUME NEW t \in Task, TaskStep(t)
      PROVE  HoldInv'
  <2>1. CASE Insert(t)
    <3> DEFINE new == [task[t] EXCEPT !.pc = "requeue", !.doc = NewJob]
    <3>1. task' = [task EXCEPT ![t] = new] /\ new.pc = "requeue"
      BY <2>1 DEF Insert, TypeInv, TasksInv, Tasks
    <3> HIDE DEF new
    <3> QED
      BY <1>1, <1>2, <3>1
  <2>2. CASE Acquire(t)
    <3> DEFINE new == [task[t] EXCEPT !.pc = "claim", !.permit = TRUE]
    <3>1. task' = [task EXCEPT ![t] = new] /\ new.pc = "claim"
      BY <2>2 DEF Acquire, TypeInv, TasksInv, Tasks
    <3> HIDE DEF new
    <3> QED
      BY <1>1, <1>2, <3>1
  <2>3. CASE Claim(t)
    BY <1>5, <2>3, Zenon DEF Claim, Steps
  <2>4. CASE ProcessSucceeds(t)
    BY <1>5, <2>4, Zenon DEF ProcessSucceeds, Steps
  <2>5. CASE StampVerification(t)
    BY <1>5, <2>5, Zenon DEF StampVerification, Steps
  <2>6. CASE RejectedRetry(t)
    BY <1>5, <2>6, Zenon DEF RejectedRetry, Steps
  <2>7. CASE StillPending(t)
    BY <1>5, <2>7, Zenon DEF StillPending, Steps
  <2>8. CASE MarkRetry(t)
    BY <1>5, <2>8, Zenon DEF MarkRetry, Steps
  <2>9. CASE MarkVerify(t)
    BY <1>5, <2>9, Zenon DEF MarkVerify, Steps
  <2>10. CASE End(t)
    BY <1>4, <2>10
  <2> QED
    BY <1>6, <2>1, <2>2, <2>3, <2>4, <2>5, <2>6, <2>7, <2>8, <2>9, <2>10
       DEF TaskStep, InsertExists, AtCapacity, ProcessFails, Verified, RejectedLast, TimedOut,
           MarkFailed, Requeue, Announce, UpdateOutdated, UpdateLast, EndErr
<1>7. ASSUME NEW t \in Task, Fault(t)
      PROVE  HoldInv'
  <2>1. CASE Expire(t)
    <3> DEFINE new == [task[t] EXCEPT !.msg = {}]
    <3>1. task' = [task EXCEPT ![t] = new] /\ "slow" \in Faults
      BY <2>1 DEF Expire, TypeInv, TasksInv, Tasks
    <3> QED
      BY <1>1, <3>1 DEF Holds
  <2>2. CASE End(t)
    BY <1>4, <2>2
  <2> QED
    BY <1>7, <2>1, <2>2 DEF Fault, CallFails, VerifyPanics, EndErr
<1>8. ASSUME NEW t \in Task, NEW j \in Job, NEW pc, NEW msg, Begin(t, j, pc, msg),
             pc \in {"stamp", "check"} => \E n \in 1 .. MaxReceives : msg = {<<"verify", j, n>>}
      PROVE  HoldInv'
  <2> DEFINE new == [pc |-> pc, job |-> j, doc |-> jobs[j], msg |-> msg, permit |-> FALSE]
  <2>1. task' = [task EXCEPT ![t] = new]
    BY <1>8 DEF Begin
  <2> QED
    BY <1>1, <1>8, <2>1 DEF Holds
<1>9. ASSUME NEW t \in Task, NEW j \in Job, Request(t, j)
      PROVE  HoldInv'
  BY <1>8, <1>9 DEF Request, StartCreate, StartRetry, StartVerifyRequest
<1>10. ASSUME NEW t \in Task, NEW q \in Queues, NEW j \in Job, NEW n \in 1 .. MaxReceives,
              Receive(t, q, j, n)
       PROVE  HoldInv'
  <2>1. Begin(t, j, FirstStep(q, j), {<<q, j, n>>})
    BY <1>10 DEF Receive
  <2>2. FirstStep(q, j) \in {"stamp", "check"} => q = "verify"
    BY DEF FirstStep, Queues
  <2> QED
    BY <1>8, <2>1, <2>2
<1>11. ASSUME NEW r \in Replica, Crash(r)
       PROVE  HoldInv'
  BY <1>3, <1>11 DEF Crash, HoldInv
<1>12. ASSUME UNCHANGED task
       PROVE  HoldInv'
  BY <1>12 DEF HoldInv, Holds
<1> QED
  BY <1>6, <1>7, <1>9, <1>10, <1>11, <1>12 DEF Next, vars, Dismiss, QueueForProcessing

(* The task that receives a message acts on the job in its stead. *)
LEMMA ReceiveLive ==
  ASSUME TypeInv, NoStrandedJob, NEW t \in Task, NEW q \in Queues, NEW i \in Job,
         NEW n \in 1 .. MaxReceives, Receive(t, q, i, n)
  PROVE  NoStrandedJob'
<1> SUFFICES ASSUME NEW j \in Job PROVE Live(j)'
  BY DEF NoStrandedJob, Live
<1> DEFINE first == FirstStep(q, i)
<1>1. /\ jobs' = jobs /\ Live(j) /\ task[t].pc = "idle"
      /\ queue' = [queue EXCEPT ![<<q, i, n>>] = @ - 1]
      /\ task' = [task EXCEPT ![t] = [pc |-> first, job |-> i, doc |-> jobs[i],
                                      msg |-> {<<q, i, n>>}, permit |-> FALSE]]
      /\ task \in [Task -> Tasks] /\ queue \in [Slot -> Nat]
  BY DEF Receive, Begin, NoStrandedJob, Live, TypeInv, TasksInv
<1>2. first \in Carers(q)
  BY DEF FirstStep, Carers, Queues
<1> HIDE DEF first
<1>3. /\ task'[t].job = i /\ task'[t].pc = first /\ task'[t].doc = jobs'[i]
      /\ \A u \in Task : u # t => task'[u] = task[u]
  BY <1>1
<1>4. j = i => InCharge(j, Carers(q))'
  <2> DEFINE steps == Carers(q)
  <2>1. first \in steps
    BY <1>2
  <2> HIDE DEF steps
  <2>2. j = i => InCharge(j, steps)'
    BY <1>3, <2>1 DEF InCharge, Fresh
  <2> QED
    BY <2>2 DEF steps
<1>5. \A p \in Queues : Visible(p, j) => Tended(p, j)'
  <2> SUFFICES ASSUME NEW p \in Queues, Visible(p, j) PROVE Tended(p, j)'
    OBVIOUS
  <2>1. CASE p = q /\ j = i
    BY <1>4, <2>1 DEF Tended
  <2>2. CASE p # q \/ j # i
    <3>1. PICK m \in 1 .. MaxReceives : queue[<<p, j, m>>] > 0
      BY DEF Visible
    <3>2. <<p, j, m>> # <<q, i, n>> /\ <<p, j, m>> \in Slot
      BY <2>2 DEF Slot
    <3>3. queue'[<<p, j, m>>] > 0
      BY <1>1, <3>1, <3>2
    <3> QED
      BY <3>3 DEF Tended, Visible
  <2> QED
    BY <2>1, <2>2
<1>6. \A p \in Queues : InCharge(j, Carers(p)) => InCharge(j, Carers(p))'
  <2> SUFFICES ASSUME NEW p \in Queues, InCharge(j, Carers(p)) PROVE InCharge(j, Carers(p))'
    OBVIOUS
  <2> DEFINE steps == Carers(p)
  <2>1. "idle" \notin steps
    BY DEF Carers, Queues
  <2>2. InCharge(j, steps)
    OBVIOUS
  <2> HIDE DEF steps
  <2>3. InCharge(j, steps)'
    BY <1>1, <1>3, <2>1, <2>2, ChargeStays
  <2> QED
    BY <2>3 DEF steps
<1>7. InCharge(j, {"run"}) => InCharge(j, {"run"})'
  BY <1>1, <1>3, ChargeStays
<1> QED
  BY <1>1, <1>5, <1>6, <1>7, LiveStays DEF Tended

(* A message that is dismissed had nothing to ask for. *)
LEMMA DismissLive ==
  ASSUME TypeInv, NoStrandedJob, MessagesLast, NEW q \in Queues, NEW i \in Job,
         NEW n \in 1 .. MaxReceives, Dismiss(q, i, n)
  PROVE  NoStrandedJob'
<1> SUFFICES ASSUME NEW j \in Job PROVE Live(j)'
  BY DEF NoStrandedJob, Live
<1> DEFINE s == <<q, i, n>>
           taken == [queue EXCEPT ![s] = @ - 1]
<1>1. /\ jobs' = jobs /\ task' = task /\ Live(j) /\ ~Accepts(q, jobs[i].status)
      /\ queue' = taken \/ queue' = Sent(taken, Redelivered(s))
      /\ queue[s] > 0 /\ queue \in [Slot -> Nat] /\ s \in Slot
  BY DEF Dismiss, NoStrandedJob, Live, TypeInv, MessagesLast, Slot
<1>2. taken \in [Slot -> Nat] /\ Redelivered(s) \in Slot
  BY <1>1, RedeliveredType
<1>3. \A r \in Slot : r # s => taken[r] = queue[r]
  BY <1>1
<1> HIDE DEF taken, s
<1>4. \A r \in Slot : queue'[r] >= taken[r] /\ taken[r] \in Nat /\ queue'[r] \in Nat
  BY <1>1, <1>2 DEF Sent
<1>5. \A p \in Queues : Visible(p, j) /\ Accepts(p, jobs[j].status) => Visible(p, j)'
  <2> SUFFICES ASSUME NEW p \in Queues, Visible(p, j), Accepts(p, jobs[j].status)
               PROVE  Visible(p, j)'
    OBVIOUS
  <2>1. PICK m \in 1 .. MaxReceives : queue[<<p, j, m>>] > 0
    BY DEF Visible
  <2>2. <<p, j, m>> # s /\ <<p, j, m>> \in Slot
    BY <1>1 DEF Slot, s
  <2>3. queue'[<<p, j, m>>] > 0
    BY <1>3, <1>4, <2>1, <2>2
  <2> QED
    BY <2>3 DEF Visible
<1>6. \A steps : InCharge(j, steps) => InCharge(j, steps)'
  BY <1>1 DEF InCharge, Fresh
<1> QED
  BY <1>1, <1>5, <1>6, LiveStays DEF Tended

(* A step that only sends messages, or ends a task that is in charge of nothing. *)
LEMMA QuietLive ==
  ASSUME TypeInv, NoStrandedJob, NEW t \in Task, jobs' = jobs, Grows,
         \A u \in Task : u # t => task'[u] = task[u],
         ~Fresh(t) \/ task[t].pc \in {"idle", "insert", "markRetry", "markVerify"}
  PROVE  NoStrandedJob'
<1> SUFFICES ASSUME NEW j \in Job PROVE Live(j)'
  BY DEF NoStrandedJob, Live
<1>1. Live(j) /\ jobs'[j] = jobs[j]
  BY DEF NoStrandedJob, Live
<1>2. \A q \in Queues : ~(task[t].pc \in Carers(q) /\ Fresh(t))
  BY DEF Carers, Queues
<1> QED
  BY <1>1, <1>2, LiveKept

(* A task in charge is relieved by a message, or goes on itself. *)
LEMMA RelievedLive ==
  ASSUME TypeInv, NoStrandedJob, NEW t \in Task, jobs' = jobs, Grows,
         \A u \in Task : u # t => task'[u] = task[u],
         NEW p \in Queues, task[t].pc \in Carers(p),
         NEW j \in Job, task[t].job = j, Tended(p, j)' \/ Tended("failure", j)'
  PROVE  NoStrandedJob'
<1> SUFFICES ASSUME NEW i \in Job PROVE Live(i)'
  BY DEF NoStrandedJob, Live
<1>1. Live(i) /\ jobs'[i] = jobs[i]
  BY DEF NoStrandedJob, Live
<1>2. /\ \A q \in Queues : task[t].pc \in Carers(q) => q = p
      /\ task[t].pc # "run"
  BY DEF Carers, Queues
<1>3. i = j => Tended(p, i)' \/ Tended("failure", i)'
  OBVIOUS
<1> QED
  BY <1>1, <1>2, <1>3, LiveKept

(* A task in charge sends the message that relieves it. *)
LEMMA SendsLive ==
  ASSUME TypeInv, NoStrandedJob, NEW t \in Task, jobs' = jobs,
         \A u \in Task : u # t => task'[u] = task[u],
         NEW p \in Queues, task[t].pc \in Carers(p),
         \A s \in Slot : Sent(queue, <<p, task[t].job, 1>>)[s] > 0 => queue'[s] > 0
  PROVE  NoStrandedJob'
<1>1. task[t].pc # "idle"
  BY DEF Carers, Queues
<1>2. PICK j \in Job : j = task[t].job
  BY <1>1, BusyType
<1>3. queue \in [Slot -> Nat] /\ <<p, j, 1>> \in Slot
  BY SlotType DEF TypeInv
<1>4. Grows /\ queue'[<<p, j, 1>>] > 0
  BY <1>2, <1>3, SentGrows DEF Grows
<1>5. Tended(p, j)'
  BY <1>4, ConstantsAssumption DEF Tended, Visible
<1> QED
  BY <1>2, <1>4, <1>5, RelievedLive

(* The updates that a handler makes before its next step. *)
LEMMA ThenLive ==
  ASSUME TypeInv, NoStrandedJob, NEW t \in Task, NEW at \in Steps, NEW e \in Docs,
         NEW next \in Steps, UpdateThen(t, at, e, next), queue' = queue,
         e.status \in Processable => next \in Carers("process"),
         e.status = "LockedForProcessing" => next = "run",
         e.status = "PendingVerification" => next \in Carers("verify")
  PROVE  NoStrandedJob'
<1> DEFINE d == Bumped(e)
           new == [task[t] EXCEPT !.pc = next, !.doc = d]
<1>1. d \in Docs /\ d.status = e.status
  BY BumpedType
<1>2. task[t].pc = at /\ task[t].pc # "idle" /\ task[t] \in Tasks
      /\ jobs' = [jobs EXCEPT ![task[t].job] = d]
  BY DEF UpdateThen, Steps, TypeInv, TasksInv
<1>3. task' = [task EXCEPT ![t] = new]
  BY UpdateThenTask, Zenon
<1> HIDE DEF d
<1>4. new.pc = next /\ new.job = task[t].job /\ new.doc = d
  BY <1>2 DEF Tasks
<1> HIDE DEF new
<1> QED
  BY <1>1, <1>2, <1>3, <1>4, WriteLive

(* The updates that end a handler and the job with it. *)
LEMMA LastLive ==
  ASSUME TypeInv, NoStrandedJob, NEW t \in Task, NEW at \in Steps, NEW st \in Statuses,
         UpdateLast(t, at, [task[t].doc EXCEPT !.status = st]), queue' = queue,
         st \in {"Failed", "Completed", "VerificationTimeout"}
  PROVE  NoStrandedJob'
<1> DEFINE e == [task[t].doc EXCEPT !.status = st]
<1>1. task[t].pc # "idle" /\ jobs' = [jobs EXCEPT ![task[t].job] = Bumped(e)]
      /\ task' = [task EXCEPT ![t] = Idle]
  BY DEF UpdateLast, End, Steps
<1>2. task[t].doc \in Docs
  BY <1>1, BusyType
<1>3. e \in Docs
  BY <1>2, WrittenType, ZenonT(60)
<1>4. e.status = st
  BY <1>2, WrittenVersion
<1> HIDE DEF e
<1>5. Bumped(e) \in Docs /\ Bumped(e).status = st
  BY <1>3, <1>4, BumpedType
<1>6. Idle.pc = "idle"
  BY DEF Idle
<1> QED
  BY <1>1, <1>5, <1>6, WriteLive DEF Processable

(* Every step of a task leaves somebody in charge of every job. *)
LEMMA LiveTaskStep ==
  ASSUME TypeInv, HandlerInv, NoStrandedJob, NEW t \in Task, TaskStep(t)
  PROVE  NoStrandedJob'
<1> DEFINE d == task[t].doc
<1>1. task \in [Task -> Tasks] /\ queue \in [Slot -> Nat]
  BY DEF TypeInv, TasksInv
<1>2. ASSUME task[t].pc # "idle"
      PROVE  d \in Docs /\ task[t].job \in Job
  BY <1>2, BusyType
<1>3. /\ Carers("process") = {"requeue", "acquire", "claim"}
      /\ Carers("verify") = {"announce", "stamp", "check"}
      /\ {"process", "verify", "failure"} \subseteq Queues
  BY DEF Carers, Queues
<1>4. CASE Insert(t)
  <2> DEFINE new == [task[t] EXCEPT !.pc = "requeue", !.doc = NewJob]
  <2>1. task' = [task EXCEPT ![t] = new] /\ new.pc = "requeue" /\ new.job = task[t].job
        /\ new.doc = NewJob
    BY <1>1, <1>4 DEF Insert, Tasks
  <2> HIDE DEF new
  <2>2. /\ jobs' = [jobs EXCEPT ![task[t].job] = NewJob] /\ queue' = queue
        /\ task[t].pc # "idle"
    BY <1>4 DEF Insert
  <2> QED
    BY <1>3, <2>1, <2>2, NewJobType, WriteLive
<1>5. CASE InsertExists(t) \/ UpdateOutdated(t)
  <2>1. /\ EndErr(t, queue) /\ jobs' = jobs
        /\ ~Fresh(t) \/ task[t].pc = "insert"
    BY <1>5 DEF InsertExists, UpdateOutdated
  <2>2. Grows /\ \A u \in Task : u # t => task'[u] = task[u]
    BY <1>1, <2>1, EndErrGrows DEF Grows
  <2> QED
    BY <2>1, <2>2, QuietLive
<1>6. CASE Acquire(t)
  <2>1. /\ \A u \in Task : u # t => task'[u] = task[u]
        /\ task'[t].pc = "claim" /\ task'[t].job = task[t].job /\ task'[t].doc = d
        /\ jobs' = jobs /\ queue' = queue /\ task[t].pc = "acquire"
    BY <1>1, <1>6 DEF Acquire, Tasks
  <2>2. Grows
    BY <2>1 DEF Grows
  <2>3. PICK j \in Job : j = task[t].job
    BY <1>2, <2>1
  <2>4. CASE Fresh(t)
    <3>1. InCharge(j, {"requeue", "acquire", "claim"})'
      BY <2>1, <2>3, <2>4 DEF InCharge, Fresh
    <3>2. Tended("process", j)'
      BY <1>3, <3>1 DEF Tended
    <3> QED
      BY <1>3, <2>1, <2>2, <2>3, <3>2, RelievedLive
  <2>5. CASE ~Fresh(t)
    BY <2>1, <2>2, <2>5, QuietLive
  <2> QED
    BY <2>4, <2>5
<1>7. CASE AtCapacity(t) \/ Requeue(t) \/ Announce(t)
  <2>1. PICK p \in {"process", "verify"} :
            /\ task[t].pc \in Carers(p) /\ jobs' = jobs /\ task[t].pc # "idle"
            /\ \/ EndErr(t, Sent(queue, <<p, task[t].job, 1>>))
               \/ End(t) /\ queue' = Sent(queue, <<p, task[t].job, 1>>)
    BY <1>3, <1>7 DEF AtCapacity, Requeue, Announce
  <2> DEFINE sent == Sent(queue, <<p, task[t].job, 1>>)
  <2>2. p \in Queues /\ task[t].job \in Job
    BY <1>2, <1>3, <2>1
  <2>3. sent \in [Slot -> Nat]
    BY <1>1, <2>2, SentType, SlotType
  <2>4. EndErr(t, sent) \/ (End(t) /\ queue' = sent)
    BY <2>1
  <2> HIDE DEF sent
  <2>5. /\ \A s \in Slot : sent[s] > 0 => queue'[s] > 0
        /\ \A u \in Task : u # t => task'[u] = task[u]
    BY <1>1, <2>3, <2>4, EndErrGrows DEF End
  <2> QED
    BY <2>1, <2>2, <2>5, SendsLive DEF sent
<1>8. CASE Claim(t)
  <2> DEFINE e == [d EXCEPT !.status = "LockedForProcessing"]
  <2>1. d \in Docs
    BY <1>2, <1>8 DEF Claim, UpdateThen
  <2>2. e \in Docs /\ e.status = "LockedForProcessing"
    BY <2>1, WrittenType, WrittenVersion, ZenonT(60) DEF Statuses
  <2>3. UpdateThen(t, "claim", e, "run") /\ queue' = queue
    BY <1>8 DEF Claim
  <2> HIDE DEF e
  <2> QED
    BY <2>2, <2>3, ThenLive DEF Steps, Processable
<1>9. CASE ProcessSucceeds(t)
  <2> DEFINE e == [d EXCEPT !.status = "PendingVerification", !.processAttempt = @ + 1,
                            !.externalId = TRUE]
  <2>1. d \in Docs
    BY <1>2, <1>9 DEF ProcessSucceeds, UpdateThen
  <2>2. e \in Docs /\ e.status = "PendingVerification"
    BY <2>1, WrittenType, WrittenVersion, ZenonT(60)
  <2>3. UpdateThen(t, "run", e, "announce") /\ queue' = queue
    BY <1>9 DEF ProcessSucceeds
  <2> HIDE DEF e
  <2> QED
    BY <1>3, <2>2, <2>3, ThenLive DEF Steps, Processable
<1>10. CASE StampVerification(t)
  <2>1. d \in Docs /\ d.status \in Verifiable
    BY <1>2, <1>10 DEF StampVerification, UpdateThen, HandlerInv, HandlerOK
  <2>2. UpdateThen(t, "stamp", d, "check") /\ queue' = queue
    BY <1>10 DEF StampVerification
  <2> QED
    BY <1>3, <2>1, <2>2, ThenLive DEF Steps, Processable, Verifiable
<1>11. CASE RejectedRetry(t)
  <2> DEFINE e == [d EXCEPT !.status = "VerificationFailed"]
  <2>1. d \in Docs
    BY <1>2, <1>11 DEF RejectedRetry, UpdateThen
  <2>2. e \in Docs /\ e.status = "VerificationFailed"
    BY <2>1, WrittenType, WrittenVersion, ZenonT(60) DEF Statuses
  <2>3. UpdateThen(t, "check", e, "requeue") /\ queue' = queue
    BY <1>11 DEF RejectedRetry
  <2> HIDE DEF e
  <2> QED
    BY <1>3, <2>2, <2>3, ThenLive DEF Steps
<1>12. CASE StillPending(t)
  <2> DEFINE e == [d EXCEPT !.verificationAttempt = @ + 1]
  <2>1. d \in Docs /\ d.status \in Verifiable
    BY <1>2, <1>12 DEF StillPending, UpdateThen, HandlerInv, HandlerOK
  <2>2. e \in Docs /\ e.status = d.status
    BY <2>1, WrittenType, WrittenVersion, ZenonT(60)
  <2>3. UpdateThen(t, "check", e, "announce") /\ queue' = queue
    BY <1>12 DEF StillPending
  <2> HIDE DEF e
  <2> QED
    BY <1>3, <2>1, <2>2, <2>3, ThenLive DEF Steps, Processable, Verifiable
<1>13. CASE MarkRetry(t)
  <2> DEFINE e == [d EXCEPT !.status = "PendingRetry", !.processAttempt = 0,
                            !.processRetry = @ + 1]
  <2>1. d \in Docs
    BY <1>2, <1>13 DEF MarkRetry, UpdateThen
  <2>2. e \in Docs /\ e.status = "PendingRetry"
    BY <2>1, WrittenType, WrittenVersion, ZenonT(60)
  <2>3. UpdateThen(t, "markRetry", e, "requeue") /\ queue' = queue
    BY <1>13 DEF MarkRetry
  <2> HIDE DEF e
  <2> QED
    BY <1>3, <2>2, <2>3, ThenLive DEF Steps
<1>14. CASE MarkVerify(t)
  <2> DEFINE e == [d EXCEPT !.status = "PendingVerification", !.verificationAttempt = 0,
                            !.verificationRetry = @ + 1]
  <2>1. d \in Docs
    BY <1>2, <1>14 DEF MarkVerify, UpdateThen
  <2>2. e \in Docs /\ e.status = "PendingVerification"
    BY <2>1, WrittenType, WrittenVersion, ZenonT(60)
  <2>3. UpdateThen(t, "markVerify", e, "announce") /\ queue' = queue
    BY <1>14 DEF MarkVerify
  <2> HIDE DEF e
  <2> QED
    BY <1>3, <2>2, <2>3, ThenLive DEF Steps, Processable
<1>15. CASE ProcessFails(t) \/ RejectedLast(t) \/ MarkFailed(t) \/ Verified(t) \/ TimedOut(t)
  BY <1>15, LastLive
     DEF ProcessFails, RejectedLast, MarkFailed, Verified, TimedOut, Steps, Statuses
<1> QED
  BY <1>4, <1>5, <1>6, <1>7, <1>8, <1>9, <1>10, <1>11, <1>12, <1>13, <1>14, <1>15 DEF TaskStep

(* A panic or an overdue message gives the message back to its queue. *)
LEMMA LiveFault ==
  ASSUME TypeInv, HoldInv, NoStrandedJob, MessagesLast, NEW t \in Task, Fault(t)
  PROVE  NoStrandedJob'
<1>1. queue' = Returned(queue, {t}) /\ jobs' = jobs
      /\ queue \in [Slot -> Nat] /\ task \in [Task -> Tasks]
  BY DEF Fault, CallFails, VerifyPanics, Expire, MessagesLast, TypeInv, TasksInv
<1>2. Grows /\ \A u \in Task : u # t => task'[u] = task[u]
  BY <1>1, ReturnedGrows DEF Grows, Fault, CallFails, VerifyPanics, Expire, EndErr, End
<1>3. CASE VerifyPanics(t)
  <2>1. "slow" \notin Faults /\ task[t].pc = "check"
    BY <1>3 DEF VerifyPanics, MessagesLast
  <2>2. PICK j \in Job : j = task[t].job
    BY <2>1, BusyType
  <2>3. PICK n \in 1 .. MaxReceives : task[t].msg = {<<"verify", j, n>>}
    BY <2>1, <2>2 DEF HoldInv, Holds
  <2> DEFINE back == Redelivered(<<"verify", j, n>>)
  <2>4. <<"verify", j, n>> \in Slot
    BY DEF Slot, Queues
  <2>5. back \in Slot
    BY <2>4, RedeliveredType
  <2>6. queue'[back] > 0
    BY <1>1, <2>3, <2>5, ReturnedGrows
  <2>7. \/ n < MaxReceives /\ back = <<"verify", j, n + 1>> /\ n + 1 \in 1 .. MaxReceives
        \/ back = <<"failure", j, 1>> /\ 1 \in 1 .. MaxReceives
    BY ConstantsAssumption DEF Redelivered
  <2>8. Visible("verify", j)' \/ Visible("failure", j)'
    BY <2>6, <2>7 DEF Visible
  <2>9. task[t].pc \in Carers("verify") /\ "verify" \in Queues
    BY <2>1 DEF Carers, Queues
  <2> QED
    BY <1>1, <1>2, <2>2, <2>8, <2>9, RelievedLive DEF Tended
<1>4. CASE Expire(t)
  <2>1. task'[t].pc = task[t].pc /\ task'[t].job = task[t].job /\ task'[t].doc = task[t].doc
    BY <1>1, <1>4 DEF Expire, Tasks
  <2> SUFFICES ASSUME NEW j \in Job PROVE Live(j)'
    BY DEF NoStrandedJob, Live
  <2>2. Live(j) /\ jobs'[j] = jobs[j]
    BY <1>1 DEF NoStrandedJob, Live
  <2>3. \A steps : InCharge(j, steps) => InCharge(j, steps)'
    BY <1>1, <1>2, <2>1 DEF InCharge, Fresh
  <2>4. \A q \in Queues : Visible(q, j) => Visible(q, j)'
    BY <1>2, VisibleStays
  <2> QED
    BY <2>2, <2>3, <2>4, LiveStays DEF Tended
<1> QED
  BY <1>3, <1>4 DEF Fault, CallFails, MessagesLast

(* Every step leaves somebody in charge of every job. *)
LEMMA LiveStep ==
  ASSUME TypeInv, HandlerInv, HoldInv, NoStrandedJob, MessagesLast, [Next]_vars
  PROVE  NoStrandedJob'
<1>1. ASSUME NEW t \in Task, NEW j \in Job, Request(t, j)
      PROVE  NoStrandedJob'
  <2>1. /\ task[t].pc = "idle" /\ jobs' = jobs /\ queue' = queue
        /\ \A u \in Task : u # t => task'[u] = task[u]
    BY <1>1 DEF Request, StartCreate, StartRetry, StartVerifyRequest, Begin, TypeInv, TasksInv
  <2>2. Grows
    BY <2>1 DEF Grows
  <2> QED
    BY <2>1, <2>2, QuietLive
<1>2. ASSUME jobs' = jobs, task' = task, Grows
      PROVE  NoStrandedJob'
  <2> SUFFICES ASSUME NEW j \in Job PROVE Live(j)'
    BY DEF NoStrandedJob, Live
  <2>1. Live(j) /\ \A steps : InCharge(j, steps) => InCharge(j, steps)'
    BY <1>2 DEF NoStrandedJob, Live, InCharge, Fresh
  <2>2. \A q \in Queues : Visible(q, j) => Visible(q, j)'
    BY <1>2, VisibleStays
  <2> QED
    BY <1>2, <2>1, <2>2, LiveStays DEF Tended
<1>3. ASSUME NEW j \in Job, QueueForProcessing(j)
      PROVE  NoStrandedJob'
  <2>1. jobs' = jobs /\ task' = task /\ queue' = Sent(queue, <<"process", j, 1>>)
    BY <1>3 DEF QueueForProcessing
  <2>2. Grows
    BY <2>1, SentGrows DEF Grows, TypeInv, Queues
  <2> QED
    BY <1>2, <2>1, <2>2
<1>4. UNCHANGED vars => NoStrandedJob'
  BY <1>2 DEF vars, Grows
<1> QED
  BY <1>1, <1>3, <1>4, LiveTaskStep, LiveFault, ReceiveLive, DismissLive
     DEF Next, Crash, MessagesLast

\* For every number of tasks, receives and operator requests: as long as messages last -
\* no call fails, no replica crashes, and a panic meets no overdue message - a job that
\* is not finished always has a message in a queue or a task that will act on it.
THEOREM NoJobIsStranded == Spec => [](MessagesLast => NoStrandedJob)
<1>1. Init => HoldInv /\ NoStrandedJob
  <2> SUFFICES ASSUME Init PROVE HoldInv /\ NoStrandedJob
    OBVIOUS
  <2>1. HoldInv
    BY DEF Init, HoldInv, Holds, Idle
  <2>2. \A j \in Job : jobs[j].status = "Absent"
    BY DEF Init, Absent
  <2> QED
    BY <2>1, <2>2 DEF NoStrandedJob, Attended, Processable
<1>2. TypeInv /\ HoldInv /\ [Next]_vars => HoldInv'
  BY HoldStep
<1>3. TypeInv /\ HandlerInv /\ HoldInv /\ NoStrandedJob /\ MessagesLast /\ [Next]_vars
          => NoStrandedJob'
  BY LiveStep
<1>4. MessagesLast' <=> MessagesLast
  BY DEF MessagesLast
<1> QED
  BY <1>1, <1>2, <1>3, <1>4, VersionInvariant, PTL DEF Spec

-------------------------------------------------------------------------------
(* The moves of the collection *)

\* The document of job j, in one of the statuses `from`, is overwritten.
Writes(j, from, doc) ==
    /\ jobs[j].status \in from
    /\ jobs' = [jobs EXCEPT ![j] = Bumped(doc)]

Unfinished == Statuses \ {"Completed", "Failed"}

Created(j) ==
    /\ jobs[j].status = "Absent"
    /\ jobs' = [jobs EXCEPT ![j] = NewJob]
    /\ UNCHANGED runs

Locked(j) ==
    /\ Writes(j, Processable, [jobs[j] EXCEPT !.status = "LockedForProcessing"])
    /\ runs' = [runs EXCEPT ![j] = @ + 1]

Finished(j) ==
    /\ Writes(j, {"LockedForProcessing"},
              [jobs[j] EXCEPT !.status = "PendingVerification", !.processAttempt = @ + 1,
                              !.externalId = TRUE])
    /\ UNCHANGED runs

Failed(j) ==
    /\ Writes(j, Unfinished, [jobs[j] EXCEPT !.status = "Failed"])
    /\ UNCHANGED runs

Stamped(j) ==
    /\ Writes(j, Verifiable, jobs[j])
    /\ UNCHANGED runs

Accepted(j) ==
    /\ Writes(j, Verifiable, [jobs[j] EXCEPT !.status = "Completed"])
    /\ UNCHANGED runs

Rejected(j) ==
    /\ jobs[j].processAttempt < MaxProcessAttempts[j]
    /\ Writes(j, Verifiable, [jobs[j] EXCEPT !.status = "VerificationFailed"])
    /\ UNCHANGED runs

Polled(j) ==
    /\ jobs[j].verificationAttempt < MaxVerificationAttempts[j]
    /\ Writes(j, Verifiable, [jobs[j] EXCEPT !.verificationAttempt = @ + 1])
    /\ UNCHANGED runs

Expired(j) ==
    /\ ~(jobs[j].verificationAttempt < MaxVerificationAttempts[j])
    /\ Writes(j, Verifiable, [jobs[j] EXCEPT !.status = "VerificationTimeout"])
    /\ UNCHANGED runs

Retried(j) ==
    /\ "retry" \in Routes
    /\ Writes(j, {"Failed"},
              [jobs[j] EXCEPT !.status = "PendingRetry", !.processAttempt = 0,
                              !.processRetry = @ + 1])
    /\ runs' = [runs EXCEPT ![j] = 0]

Reverified(j) ==
    /\ "verify" \in Routes
    /\ Writes(j, Statuses,
              [jobs[j] EXCEPT !.status = "PendingVerification", !.verificationAttempt = 0,
                              !.verificationRetry = @ + 1])
    /\ UNCHANGED runs

Moved(j) ==
    \/ Created(j) \/ Locked(j) \/ Finished(j) \/ Failed(j) \/ Stamped(j) \/ Accepted(j)
    \/ Rejected(j) \/ Polled(j) \/ Expired(j) \/ Retried(j) \/ Reverified(j)

Inv == TypeInv /\ HandlerInv /\ VersionInv

(* A handler whose update takes effect holds the current document. *)
LEMMA FreshIsCurrent ==
  ASSUME Inv, NEW t \in Task, task[t].pc \notin {"idle", "insert"}, Fresh(t)
  PROVE  /\ task[t].doc = jobs[task[t].job]
         /\ task[t].job \in Job
         /\ jobs[task[t].job].status \in Statuses
<1>1. task[t].doc = jobs[task[t].job] /\ jobs[task[t].job].status # "Absent"
  BY DEF Inv, VersionInv, Knows, Fresh
<1>2. task[t].job \in Job /\ jobs[task[t].job] \in Docs
  BY BusyType DEF Inv
<1> QED
  BY <1>1, <1>2 DEF Docs

(* The step of a task is a move of its job, or leaves the collection alone. *)
LEMMA TaskMoves ==
  ASSUME Inv, NEW t \in Task, TaskStep(t)
  PROVE  (task[t].job \in Job /\ Moved(task[t].job)) \/ UNCHANGED <<jobs, runs>>
<1> DEFINE j == task[t].job
<1>1. CASE Insert(t)
  BY <1>1, BusyType DEF Insert, Moved, Created, Inv
<1>2. ASSUME task[t].pc \in Steps \ {"insert"}, Fresh(t)
      PROVE  /\ task[t].doc = jobs[j] /\ j \in Job /\ jobs[j].status \in Statuses
             /\ HandlerOK(task[t])
  BY <1>2, FreshIsCurrent DEF Steps, Inv, HandlerInv
<1>3. CASE Claim(t)
  BY <1>2, <1>3 DEF Claim, UpdateThen, Moved, Locked, Writes, HandlerOK, Steps
<1>4. CASE ProcessSucceeds(t)
  BY <1>2, <1>4 DEF ProcessSucceeds, UpdateThen, Moved, Finished, Writes, HandlerOK, Steps
<1>5. CASE ProcessFails(t)
  BY <1>2, <1>5
     DEF ProcessFails, UpdateLast, Moved, Failed, Writes, HandlerOK, Steps, Unfinished
<1>6. CASE StampVerification(t)
  BY <1>2, <1>6 DEF StampVerification, UpdateThen, Moved, Stamped, Writes, HandlerOK, Steps
<1>7. CASE Verified(t)
  BY <1>2, <1>7 DEF Verified, UpdateLast, Moved, Accepted, Writes, HandlerOK, Steps
<1>8. CASE RejectedRetry(t)
  BY <1>2, <1>8
     DEF RejectedRetry, UpdateThen, Moved, Rejected, Writes, HandlerOK, Steps, AttemptsLeft
<1>9. CASE RejectedLast(t)
  BY <1>2, <1>9
     DEF RejectedLast, UpdateLast, Moved, Failed, Writes, HandlerOK, Steps, Unfinished, Verifiable
<1>10. CASE StillPending(t)
  BY <1>2, <1>10
     DEF StillPending, UpdateThen, Moved, Polled, Writes, HandlerOK, Steps, PollsLeft
<1>11. CASE TimedOut(t)
  BY <1>2, <1>11
     DEF TimedOut, UpdateLast, Moved, Expired, Writes, HandlerOK, Steps, PollsLeft
<1>12. CASE MarkFailed(t)
  BY <1>2, <1>12
     DEF MarkFailed, UpdateLast, Moved, Failed, Writes, HandlerOK, Steps, Unfinished
<1>13. CASE MarkRetry(t)
  BY <1>2, <1>13 DEF MarkRetry, UpdateThen, Moved, Retried, Writes, HandlerOK, Steps
<1>14. CASE MarkVerify(t)
  BY <1>2, <1>14 DEF MarkVerify, UpdateThen, Moved, Reverified, Writes, HandlerOK, Steps
<1> QED
  BY <1>1, <1>3, <1>4, <1>5, <1>6, <1>7, <1>8, <1>9, <1>10, <1>11, <1>12, <1>13, <1>14
     DEF TaskStep, InsertExists, Acquire, AtCapacity, Requeue, Announce, UpdateOutdated

(* Every step is a move of one job, or leaves the collection alone. *)
LEMMA StepMoves ==
  ASSUME Inv, [Next]_vars
  PROVE  (\E j \in Job : Moved(j)) \/ UNCHANGED <<jobs, runs>>
  BY TaskMoves
     DEF Next, vars, Fault, CallFails, VerifyPanics, Expire, Request, StartCreate, StartRetry,
         StartVerifyRequest, Receive, Dismiss, QueueForProcessing, Crash

(* A move changes no job but its own. *)
LEMMA MoveFrame ==
  ASSUME TypeInv, NEW j \in Job, Moved(j)
  PROVE  /\ \A i \in Job \ {j} : jobs'[i] = jobs[i] /\ runs'[i] = runs[i]
         /\ jobs[j] \in Docs
<1>1. jobs \in [Job -> Docs] /\ runs \in [Job -> Nat]
  BY DEF TypeInv
<1>2. \E doc : jobs' = [jobs EXCEPT ![j] = doc]
  BY DEF Moved, Created, Locked, Finished, Failed, Stamped, Accepted, Rejected, Polled,
         Expired, Retried, Reverified, Writes
<1>3. runs' = runs \/ \E n : runs' = [runs EXCEPT ![j] = n]
  BY DEF Moved, Created, Locked, Finished, Failed, Stamped, Accepted, Rejected, Polled,
         Expired, Retried, Reverified
<1> QED
  BY <1>1, <1>2, <1>3

-------------------------------------------------------------------------------
(* Attempts *)

AttemptOK(j, doc) ==
    /\ doc.processAttempt <= MaxProcessAttempts[j]
    /\ doc.status \in Processable \cup {"LockedForProcessing"} =>
           doc.processAttempt < MaxProcessAttempts[j]
    /\ doc.verificationAttempt <= MaxVerificationAttempts[j]
    /\ doc.status = "VerificationTimeout" =>
           doc.verificationAttempt = MaxVerificationAttempts[j]

(* Each move of a job keeps its attempts within bounds. *)
LEMMA AttemptMove ==
  ASSUME TypeInv, NEW j \in Job, AttemptOK(j, jobs[j]), Moved(j)
  PROVE  AttemptOK(j, jobs'[j])
<1> DEFINE d == jobs[j]
<1>1. d \in Docs /\ jobs \in [Job -> Docs]
  BY DEF TypeInv
<1>2. MaxProcessAttempts[j] \in Nat \ {0} /\ MaxVerificationAttempts[j] \in Nat
  BY ConstantsAssumption
<1>3. d.processAttempt \in Nat /\ d.verificationAttempt \in Nat
  BY <1>1 DEF Docs
<1>4. ASSUME NEW st \in Statuses, NEW from, Writes(j, from, [d EXCEPT !.status = st])
      PROVE  /\ jobs'[j].status = st
             /\ jobs'[j].processAttempt = d.processAttempt
             /\ jobs'[j].verificationAttempt = d.verificationAttempt
             /\ d.status \in from
  BY <1>1, <1>4 DEF Writes, Bumped, Docs
<1>5. CASE Created(j)
  BY <1>1, <1>2, <1>5 DEF Created, NewJob, Absent, AttemptOK
<1>6. CASE Locked(j)
  BY <1>4, <1>6 DEF Locked, AttemptOK, Processable, Statuses
<1>7. CASE Finished(j)
  <2>1. /\ jobs'[j].status = "PendingVerification"
        /\ jobs'[j].processAttempt = d.processAttempt + 1
        /\ jobs'[j].verificationAttempt = d.verificationAttempt
        /\ d.status = "LockedForProcessing"
    BY <1>1, <1>7 DEF Finished, Writes, Bumped, Docs
  <2> QED
    BY <1>2, <1>3, <2>1 DEF AttemptOK, Processable
<1>8. CASE Failed(j)
  BY <1>4, <1>8 DEF Failed, AttemptOK, Processable, Statuses
<1>9. CASE Stamped(j)
  BY <1>1, <1>9 DEF Stamped, Writes, Bumped, Docs, AttemptOK
<1>10. CASE Accepted(j)
  BY <1>4, <1>10 DEF Accepted, AttemptOK, Processable, Statuses
<1>11. CASE Rejected(j)
  BY <1>4, <1>11 DEF Rejected, AttemptOK, Statuses
<1>12. CASE Polled(j)
  <2>1. /\ jobs'[j].status = d.status /\ d.status \in Verifiable
        /\ jobs'[j].processAttempt = d.processAttempt
        /\ jobs'[j].verificationAttempt = d.verificationAttempt + 1
    BY <1>1, <1>12 DEF Polled, Writes, Bumped, Docs
  <2> QED
    BY <1>2, <1>3, <1>12, <2>1 DEF AttemptOK, Polled, Processable
<1>13. CASE Expired(j)
  <2>1. d.verificationAttempt = MaxVerificationAttempts[j]
    BY <1>2, <1>3, <1>13 DEF Expired, AttemptOK
  <2> QED
    BY <1>4, <1>13, <2>1 DEF Expired, AttemptOK, Statuses, Processable
<1>14. CASE Retried(j)
  <2>1. /\ jobs'[j].status = "PendingRetry" /\ jobs'[j].processAttempt = 0
        /\ jobs'[j].verificationAttempt = d.verificationAttempt
    BY <1>1, <1>14 DEF Retried, Writes, Bumped, Docs
  <2> QED
    BY <1>2, <2>1 DEF AttemptOK
<1>15. CASE Reverified(j)
  <2>1. /\ jobs'[j].status = "PendingVerification" /\ jobs'[j].verificationAttempt = 0
        /\ jobs'[j].processAttempt = d.processAttempt
    BY <1>1, <1>15 DEF Reverified, Writes, Bumped, Docs
  <2> QED
    BY <1>2, <2>1 DEF AttemptOK, Processable
<1> QED
  BY <1>5, <1>6, <1>7, <1>8, <1>9, <1>10, <1>11, <1>12, <1>13, <1>14, <1>15 DEF Moved

\* For any maxima: no job uses more attempts or polls than its handler allows, one
\* that is (to be) processed has an attempt left, and one times out only after its
\* last poll.
THEOREM AttemptsAreBounded == Spec => []AttemptBounds
<1>1. AttemptBounds <=> \A j \in Job : AttemptOK(j, jobs[j])
  BY DEF AttemptBounds, AttemptOK
<1>2. Init => AttemptBounds
  BY ConstantsAssumption DEF Init, AttemptBounds, Absent, Processable
<1>3. Inv /\ AttemptBounds /\ [Next]_vars => AttemptBounds'
  <2> SUFFICES ASSUME Inv, AttemptBounds, [Next]_vars, NEW i \in Job
               PROVE  AttemptOK(i, jobs'[i])
    BY DEF AttemptBounds, AttemptOK
  <2>1. AttemptOK(i, jobs[i])
    BY <1>1
  <2>2. ASSUME NEW j \in Job, Moved(j)
        PROVE  AttemptOK(i, jobs'[i])
    BY <2>1, <2>2, MoveFrame, AttemptMove DEF Inv
  <2> QED
    BY <2>1, <2>2, StepMoves
<1>4. Spec => []Inv
  BY VersionInvariant, PTL DEF Inv
<1> QED
  BY <1>2, <1>3, <1>4, PTL DEF Spec

-------------------------------------------------------------------------------
(* Verdicts *)

Verdicts == {"PendingVerification", "VerificationTimeout", "VerificationFailed", "Completed"}

VerdictOK(doc) ==
    doc.status \in Verdicts =>
        \/ doc.externalId /\ doc.processAttempt > 0
        \/ doc.verificationRetry > 0

(* Processing and /verify alone bring a job to its verification, and only a retry, *)
(* which takes it away from there, resets its attempts.                            *)
LEMMA VerdictMove ==
  ASSUME TypeInv, NEW j \in Job, VerdictOK(jobs[j]), Moved(j)
  PROVE  VerdictOK(jobs'[j])
<1> DEFINE d == jobs[j]
<1>1. d \in Docs /\ jobs \in [Job -> Docs] /\ runs \in [Job -> Nat]
  BY DEF TypeInv
<1>2. d.processAttempt \in Nat /\ d.verificationRetry \in Nat
  BY <1>1 DEF Docs
<1>3. ASSUME NEW st \in Statuses, NEW from, Writes(j, from, [d EXCEPT !.status = st])
      PROVE  /\ jobs'[j].status = st
             /\ jobs'[j].processAttempt = d.processAttempt
             /\ jobs'[j].externalId = d.externalId
             /\ jobs'[j].verificationRetry = d.verificationRetry
             /\ d.status \in from
  BY <1>1, <1>3 DEF Writes, Bumped, Docs
<1>4. CASE Created(j)
  BY <1>1, <1>4 DEF Created, NewJob, Absent, VerdictOK, Verdicts
<1>5. CASE Locked(j)
  <2>1. jobs'[j].status = "LockedForProcessing"
    BY <1>3, <1>5 DEF Locked, Statuses
  <2> QED
    BY <2>1 DEF VerdictOK, Verdicts
<1>6. CASE Finished(j)
  <2>1. jobs'[j].externalId /\ jobs'[j].processAttempt = d.processAttempt + 1
    BY <1>1, <1>6 DEF Finished, Writes, Bumped, Docs
  <2> QED
    BY <1>2, <2>1 DEF VerdictOK
<1>7. CASE Failed(j)
  <2>1. jobs'[j].status = "Failed"
    BY <1>3, <1>7 DEF Failed, Statuses
  <2> QED
    BY <2>1 DEF VerdictOK, Verdicts
<1>8. CASE Stamped(j)
  BY <1>1, <1>8 DEF Stamped, Writes, Bumped, Docs, VerdictOK
<1>9. CASE Accepted(j)
  BY <1>3, <1>9 DEF Accepted, Statuses, VerdictOK, Verdicts, Verifiable
<1>10. CASE Rejected(j)
  BY <1>3, <1>10 DEF Rejected, Statuses, VerdictOK, Verdicts, Verifiable
<1>11. CASE Polled(j)
  BY <1>1, <1>11 DEF Polled, Writes, Bumped, Docs, VerdictOK
<1>12. CASE Expired(j)
  BY <1>3, <1>12 DEF Expired, Statuses, VerdictOK, Verdicts, Verifiable
<1>13. CASE Retried(j)
  <2>1. jobs'[j].status = "PendingRetry"
    BY <1>1, <1>13 DEF Retried, Writes, Bumped, Docs
  <2> QED
    BY <2>1 DEF VerdictOK, Verdicts
<1>14. CASE Reverified(j)
  <2>1. jobs'[j].verificationRetry = d.verificationRetry + 1
    BY <1>1, <1>14 DEF Reverified, Writes, Bumped, Docs
  <2> QED
    BY <1>2, <2>1 DEF VerdictOK
<1> QED
  BY <1>4, <1>5, <1>6, <1>7, <1>8, <1>9, <1>10, <1>11, <1>12, <1>13, <1>14 DEF Moved

\* Whatever operators do: a job with a verdict was processed since its last retry, or an
\* operator sent it to verification.
THEOREM VerdictsFollowProcessing == Spec => []ProcessedBeforeVerdict
<1>1. ProcessedBeforeVerdict <=> \A j \in Job : VerdictOK(jobs[j])
  BY DEF ProcessedBeforeVerdict, VerdictOK, Verdicts
<1>2. Init => ProcessedBeforeVerdict
  BY DEF Init, ProcessedBeforeVerdict, Absent
<1>3. Inv /\ ProcessedBeforeVerdict /\ [Next]_vars => ProcessedBeforeVerdict'
  <2> SUFFICES ASSUME Inv, ProcessedBeforeVerdict, [Next]_vars, NEW i \in Job
               PROVE  VerdictOK(jobs'[i])
    BY DEF ProcessedBeforeVerdict, VerdictOK, Verdicts
  <2>1. VerdictOK(jobs[i])
    BY <1>1
  <2>2. ASSUME NEW j \in Job, Moved(j)
        PROVE  VerdictOK(jobs'[i])
    BY <2>1, <2>2, MoveFrame, VerdictMove DEF Inv
  <2> QED
    BY <2>1, <2>2, StepMoves
<1>4. Spec => []Inv
  BY VersionInvariant, PTL DEF Inv
<1> QED
  BY <1>2, <1>3, <1>4, PTL DEF Spec

-------------------------------------------------------------------------------
(* Without /verify: executions *)

RunsOK(j, doc, n) ==
    /\ doc.status = "Absent" => n = 0
    /\ doc.status \in Processable \cup Verifiable => n = doc.processAttempt
    /\ doc.status = "LockedForProcessing" => n = doc.processAttempt + 1
    /\ n <= MaxProcessAttempts[j]

(* Each move but Reverified counts its executions. *)
LEMMA RunsMove ==
  ASSUME TypeInv, NEW j \in Job, AttemptOK(j, jobs[j]), RunsOK(j, jobs[j], runs[j]),
         "verify" \notin Routes, Moved(j)
  PROVE  RunsOK(j, jobs'[j], runs'[j])
<1> DEFINE d == jobs[j]
<1>1. d \in Docs /\ jobs \in [Job -> Docs] /\ runs \in [Job -> Nat]
  BY DEF TypeInv
<1>2. MaxProcessAttempts[j] \in Nat \ {0}
  BY ConstantsAssumption
<1>3. d.processAttempt \in Nat /\ runs[j] \in Nat
  BY <1>1 DEF Docs
<1>4. ASSUME NEW st \in Statuses, NEW from, Writes(j, from, [d EXCEPT !.status = st])
      PROVE  /\ jobs'[j].status = st
             /\ jobs'[j].processAttempt = d.processAttempt
             /\ jobs'[j].externalId = d.externalId
             /\ d.status \in from
  BY <1>1, <1>4 DEF Writes, Bumped, Docs
<1>5. CASE Created(j)
  BY <1>1, <1>2, <1>5
     DEF Created, NewJob, Absent, RunsOK, Processable, Verifiable
<1>6. CASE Locked(j)
  <2>1. /\ jobs'[j].status = "LockedForProcessing" /\ d.status \in Processable
        /\ jobs'[j].processAttempt = d.processAttempt
    BY <1>4, <1>6 DEF Locked, Statuses
  <2>2. runs'[j] = runs[j] + 1
    BY <1>1, <1>6 DEF Locked
  <2> QED
    BY <1>2, <1>3, <2>1, <2>2 DEF RunsOK, AttemptOK, Processable, Verifiable
<1>7. CASE Finished(j)
  <2>1. /\ jobs'[j].status = "PendingVerification"
        /\ jobs'[j].processAttempt = d.processAttempt + 1
        /\ jobs'[j].externalId = TRUE
        /\ d.status = "LockedForProcessing" /\ runs'[j] = runs[j]
    BY <1>1, <1>7 DEF Finished, Writes, Bumped, Docs
  <2> QED
    BY <1>3, <2>1 DEF RunsOK, Processable, Verifiable
<1>8. CASE Failed(j)
  BY <1>4, <1>8 DEF Failed, RunsOK, Processable, Verifiable, Statuses
<1>9. CASE Stamped(j)
  BY <1>1, <1>9 DEF Stamped, Writes, Bumped, Docs, RunsOK
<1>10. CASE Accepted(j)
  <2>1. /\ jobs'[j].status = "Completed" /\ jobs'[j].externalId = d.externalId
        /\ d.status \in Verifiable /\ runs'[j] = runs[j]
    BY <1>4, <1>10 DEF Accepted, Statuses
  <2> QED
    BY <2>1 DEF RunsOK, Processable, Verifiable
<1>11. CASE Rejected(j)
  <2>1. /\ jobs'[j].status = "VerificationFailed" /\ jobs'[j].externalId = d.externalId
        /\ jobs'[j].processAttempt = d.processAttempt
        /\ d.status \in Verifiable /\ runs'[j] = runs[j]
    BY <1>4, <1>11 DEF Rejected, Statuses
  <2> QED
    BY <2>1 DEF RunsOK, Processable, Verifiable
<1>12. CASE Polled(j)
  BY <1>1, <1>12 DEF Polled, Writes, Bumped, Docs, RunsOK
<1>13. CASE Expired(j)
  <2>1. /\ jobs'[j].status = "VerificationTimeout" /\ jobs'[j].externalId = d.externalId
        /\ jobs'[j].processAttempt = d.processAttempt
        /\ d.status \in Verifiable /\ runs'[j] = runs[j]
    BY <1>4, <1>13 DEF Expired, Statuses
  <2> QED
    BY <2>1 DEF RunsOK, Processable, Verifiable
<1>14. CASE Retried(j)
  <2>1. jobs'[j].status = "PendingRetry" /\ jobs'[j].processAttempt = 0
    BY <1>1, <1>14 DEF Retried, Writes, Bumped, Docs
  <2>2. runs'[j] = 0
    BY <1>1, <1>14 DEF Retried
  <2> QED
    BY <1>2, <2>1, <2>2 DEF RunsOK, Processable, Verifiable
<1>15. ~Reverified(j)
  BY DEF Reverified
<1> QED
  BY <1>5, <1>6, <1>7, <1>8, <1>9, <1>10, <1>11, <1>12, <1>13, <1>14, <1>15 DEF Moved

RunsInv == \A j \in Job : RunsOK(j, jobs[j], runs[j])

(* Without /verify, executions and processing attempts stay in step. *)
LEMMA RunsInvariant == ASSUME "verify" \notin Routes PROVE Spec => []RunsInv
<1>1. Init => RunsInv
  BY ConstantsAssumption DEF Init, RunsInv, RunsOK, Absent
<1>2. Inv /\ AttemptBounds /\ RunsInv /\ [Next]_vars => RunsInv'
  <2> SUFFICES ASSUME Inv, AttemptBounds, RunsInv, [Next]_vars, NEW i \in Job
               PROVE  RunsOK(i, jobs'[i], runs'[i])
    BY DEF RunsInv
  <2>1. RunsOK(i, jobs[i], runs[i]) /\ AttemptOK(i, jobs[i])
    BY DEF RunsInv, AttemptBounds, AttemptOK
  <2>2. ASSUME NEW j \in Job, Moved(j)
        PROVE  RunsOK(i, jobs'[i], runs'[i])
    BY <2>1, <2>2, MoveFrame, RunsMove DEF Inv
  <2> QED
    BY <2>1, <2>2, StepMoves
<1>3. Spec => []Inv
  BY VersionInvariant, PTL DEF Inv
<1> QED
  BY <1>1, <1>2, <1>3, AttemptsAreBounded, PTL DEF Spec

\* As long as no operator calls /verify: between two retries a handler is started
\* at most max_process_attempts times, crashes and repeated messages included.
THEOREM RunsAreBounded ==
  ASSUME "verify" \notin Routes
  PROVE  Spec => []BoundedRuns
<1>1. RunsInv => BoundedRuns
  BY DEF RunsInv, RunsOK, BoundedRuns
<1> QED
  BY <1>1, RunsInvariant, PTL

-------------------------------------------------------------------------------
(* The refinement *)

Book == [j \in Job |-> Entry(j)]

View(doc) == [status |-> doc.status,
              processAttempt |-> doc.processAttempt,
              verificationAttempt |-> doc.verificationAttempt,
              processRetry |-> doc.processRetry,
              verificationRetry |-> doc.verificationRetry]

(* Overwriting a document overwrites its entry. *)
LEMMA BookUpdate ==
  ASSUME TypeInv, NEW j \in Job, NEW doc, jobs' = [jobs EXCEPT ![j] = doc]
  PROVE  /\ Book' = [Book EXCEPT ![j] = View(doc)]
         /\ Book[j] = View(jobs[j])
  BY DEF TypeInv, Book, Entry, View

(* What Finished makes of an entry. *)
LEMMA FinishedEntry ==
  ASSUME NEW doc, NEW st, NEW n
  PROVE  [View(doc) EXCEPT !.status = st, !.processAttempt = n]
         = [status |-> st, processAttempt |-> n,
            verificationAttempt |-> doc.verificationAttempt,
            processRetry |-> doc.processRetry, verificationRetry |-> doc.verificationRetry]
<1> DEFINE e == View(doc)
           f == [e EXCEPT !.status = st]
           g == [f EXCEPT !.processAttempt = n]
<1>1. f = [status |-> st, processAttempt |-> doc.processAttempt,
          verificationAttempt |-> doc.verificationAttempt,
          processRetry |-> doc.processRetry, verificationRetry |-> doc.verificationRetry]
  BY DEF View
<1>2. g = [status |-> st, processAttempt |-> n,
          verificationAttempt |-> doc.verificationAttempt,
          processRetry |-> doc.processRetry, verificationRetry |-> doc.verificationRetry]
  <2> HIDE DEF f
  <2> QED
    BY <1>1
<1>3. g = [e EXCEPT !.status = st, !.processAttempt = n]
  OBVIOUS
<1> QED
  BY <1>2, <1>3

(* What Retried makes of an entry. *)
LEMMA RetriedEntry ==
  ASSUME NEW doc, NEW st, NEW n, NEW m
  PROVE  [View(doc) EXCEPT !.status = st, !.processAttempt = n, !.processRetry = m]
         = [status |-> st, processAttempt |-> n,
            verificationAttempt |-> doc.verificationAttempt,
            processRetry |-> m, verificationRetry |-> doc.verificationRetry]
<1> DEFINE e == View(doc)
           f == [e EXCEPT !.status = st]
           g == [f EXCEPT !.processAttempt = n]
           h == [g EXCEPT !.processRetry = m]
<1>1. f = [status |-> st, processAttempt |-> doc.processAttempt,
          verificationAttempt |-> doc.verificationAttempt,
          processRetry |-> doc.processRetry, verificationRetry |-> doc.verificationRetry]
  BY DEF View
<1>2. g = [status |-> st, processAttempt |-> n,
          verificationAttempt |-> doc.verificationAttempt,
          processRetry |-> doc.processRetry, verificationRetry |-> doc.verificationRetry]
  <2> HIDE DEF f
  <2> QED
    BY <1>1
<1>3. h = [status |-> st, processAttempt |-> n,
          verificationAttempt |-> doc.verificationAttempt,
          processRetry |-> m, verificationRetry |-> doc.verificationRetry]
  <2> HIDE DEF g
  <2> QED
    BY <1>2
<1>4. h = [e EXCEPT !.status = st, !.processAttempt = n, !.processRetry = m]
  OBVIOUS
<1> QED
  BY <1>3, <1>4

(* What Reverified makes of an entry. *)
LEMMA ReverifiedEntry ==
  ASSUME NEW doc, NEW st, NEW n, NEW m
  PROVE  [View(doc) EXCEPT !.status = st, !.verificationAttempt = n, !.verificationRetry = m]
         = [status |-> st, processAttempt |-> doc.processAttempt,
            verificationAttempt |-> n,
            processRetry |-> doc.processRetry, verificationRetry |-> m]
<1> DEFINE e == View(doc)
           f == [e EXCEPT !.status = st]
           g == [f EXCEPT !.verificationAttempt = n]
           h == [g EXCEPT !.verificationRetry = m]
<1>1. f = [status |-> st, processAttempt |-> doc.processAttempt,
          verificationAttempt |-> doc.verificationAttempt,
          processRetry |-> doc.processRetry, verificationRetry |-> doc.verificationRetry]
  BY DEF View
<1>2. g = [status |-> st, processAttempt |-> doc.processAttempt,
          verificationAttempt |-> n,
          processRetry |-> doc.processRetry, verificationRetry |-> doc.verificationRetry]
  <2> HIDE DEF f
  <2> QED
    BY <1>1
<1>3. h = [status |-> st, processAttempt |-> doc.processAttempt,
          verificationAttempt |-> n,
          processRetry |-> doc.processRetry, verificationRetry |-> m]
  <2> HIDE DEF g
  <2> QED
    BY <1>2
<1>4. h = [e EXCEPT !.status = st, !.verificationAttempt = n, !.verificationRetry = m]
  OBVIOUS
<1> QED
  BY <1>3, <1>4

(* Each move of the collection is a move of the contract or invisible to it. *)
LEMMA MoveRefines ==
  ASSUME TypeInv, NEW j \in Job, Moved(j)
  PROVE  Contract!Next \/ Book' = Book
<1> DEFINE d == jobs[j]
           e == Book[j]
<1>1. d \in Docs /\ e = View(d) /\ Book \in [Job -> {Entry(i) : i \in Job}]
  BY DEF TypeInv, Book, Entry, View
<1>2. ASSUME NEW doc, NEW from, Writes(j, from, doc)
      PROVE  Book' = [Book EXCEPT ![j] = View(Bumped(doc))] /\ e.status \in from
  <2>1. jobs' = [jobs EXCEPT ![j] = Bumped(doc)] /\ d.status \in from
    BY <1>2 DEF Writes
  <2>2. Book' = [Book EXCEPT ![j] = View(Bumped(doc))]
    BY <2>1, BookUpdate
  <2>3. e.status = d.status
    BY <1>1 DEF View
  <2> QED
    BY <2>1, <2>2, <2>3
<1>3. ASSUME NEW st, NEW from, Writes(j, from, [d EXCEPT !.status = st])
      PROVE  Book' = [Book EXCEPT ![j] = [e EXCEPT !.status = st]] /\ e.status \in from
  <2>1. View(Bumped([d EXCEPT !.status = st])) = [e EXCEPT !.status = st]
    BY <1>1 DEF View, Bumped, Docs
  <2> QED
    BY <1>2, <1>3, <2>1
<1>4. CASE Created(j)
  <2>1. View(NewJob) = [Contract!Missing EXCEPT !.status = "Created"]
    BY DEF View, NewJob, Absent, Contract!Missing
  <2>2. e.status = "Absent"
    BY <1>1, <1>4 DEF View, Created
  <2>3. Book' = [Book EXCEPT ![j] = View(NewJob)]
    BY <1>4, BookUpdate DEF Created
  <2> QED
    BY <2>1, <2>2, <2>3 DEF Contract!Next, Contract!Create, Contract!Move, Book
<1>5. CASE Locked(j)
  BY <1>3, <1>5
     DEF Locked, Processable, Contract!Next, Contract!Lock, Contract!Move, Book
<1>6. CASE Finished(j)
  <2> DEFINE new == [d EXCEPT !.status = "PendingVerification", !.processAttempt = @ + 1,
                              !.externalId = TRUE]
  <2>1. Book' = [Book EXCEPT ![j] = View(Bumped(new))] /\ e.status = "LockedForProcessing"
    BY <1>2, <1>6 DEF Finished
  <2>2. /\ Bumped(new).status = "PendingVerification"
        /\ Bumped(new).processAttempt = d.processAttempt + 1
        /\ Bumped(new).verificationAttempt = d.verificationAttempt
        /\ Bumped(new).processRetry = d.processRetry
        /\ Bumped(new).verificationRetry = d.verificationRetry
    BY <1>1 DEF Docs, Bumped
  <2> HIDE DEF new
  <2> DEFINE st == "PendingVerification"
             n == d.processAttempt + 1
  <2> HIDE DEF st, n
  <2>4. View(Bumped(new)) = [View(d) EXCEPT !.status = st, !.processAttempt = n]
    <3>1. View(Bumped(new)) =
             [status |-> st, processAttempt |-> n,
              verificationAttempt |-> d.verificationAttempt,
              processRetry |-> d.processRetry, verificationRetry |-> d.verificationRetry]
      BY <2>2 DEF View, st, n
    <3>2. [View(d) EXCEPT !.status = st, !.processAttempt = n] =
             [status |-> st, processAttempt |-> n,
              verificationAttempt |-> d.verificationAttempt,
              processRetry |-> d.processRetry, verificationRetry |-> d.verificationRetry]
      BY FinishedEntry, Zenon
    <3> QED
      BY <3>1, <3>2
  <2>5. View(Bumped(new))
        = [e EXCEPT !.status = "PendingVerification", !.processAttempt = @ + 1]
    <3>1. View(d).processAttempt = d.processAttempt
      BY DEF View
    <3> QED
      BY <1>1, <2>4, <3>1, Zenon DEF st, n
  <2>6. Contract!Finish(j)
    BY <2>1, <2>5 DEF e, Contract!Finish, Contract!Move, Book
  <2> QED
    BY <2>6 DEF Contract!Next
<1>7. CASE Failed(j)
  <2>1. Book' = [Book EXCEPT ![j] = [e EXCEPT !.status = "Failed"]] /\ e.status \in Unfinished
    BY <1>3, <1>7 DEF Failed
  <2>2. Contract!Abandon(j)
    BY <2>1 DEF Unfinished, Statuses, Contract!Abandon, Contract!Move, Book
  <2> QED
    BY <2>2 DEF Contract!Next
<1>8. CASE Stamped(j)
  <2>1. View(Bumped(d)) = e
    BY <1>1 DEF View, Bumped, Docs
  <2> QED
    BY <1>1, <1>2, <1>8, <2>1 DEF Stamped
<1>9. CASE Accepted(j)
  BY <1>3, <1>9
     DEF Accepted, Verifiable, Contract!Next, Contract!Accept, Contract!Move,
         Contract!Verifiable, Book
<1>10. CASE Rejected(j)
  <2>1. e.processAttempt < MaxProcessAttempts[j]
    BY <1>1, <1>10 DEF Rejected, View
  <2> QED
    BY <1>3, <1>10, <2>1
       DEF Rejected, Verifiable, Contract!Next, Contract!Reject, Contract!Move,
           Contract!Verifiable, Book
<1>11. CASE Polled(j)
  <2>1. e.verificationAttempt < MaxVerificationAttempts[j]
    BY <1>1, <1>11 DEF Polled, View
  <2> DEFINE new == [d EXCEPT !.verificationAttempt = @ + 1]
  <2>2. Book' = [Book EXCEPT ![j] = View(Bumped(new))] /\ e.status \in Verifiable
    BY <1>2, <1>11 DEF Polled
  <2>3. View(Bumped(new)) = [View(d) EXCEPT !.verificationAttempt = @ + 1]
    BY <1>1 DEF Docs, Bumped, View
  <2> HIDE DEF new
  <2>4. View(Bumped(new)) = [e EXCEPT !.verificationAttempt = @ + 1]
    BY <1>1, <2>3
  <2> QED
    BY <2>1, <2>2, <2>4
       DEF Verifiable, Contract!Next, Contract!Poll, Contract!Move, Contract!Verifiable, Book
<1>12. CASE Expired(j)
  <2>1. e.verificationAttempt >= MaxVerificationAttempts[j]
    BY <1>1, <1>12, ConstantsAssumption DEF Expired, View, Docs
  <2> QED
    BY <1>3, <1>12, <2>1
       DEF Expired, Verifiable, Contract!Next, Contract!GiveUp, Contract!Move,
           Contract!Verifiable, Book
<1>13. CASE Retried(j)
  <2> DEFINE new == [d EXCEPT !.status = "PendingRetry", !.processAttempt = 0,
                              !.processRetry = @ + 1]
  <2>1. Book' = [Book EXCEPT ![j] = View(Bumped(new))] /\ e.status = "Failed"
    BY <1>2, <1>13 DEF Retried
  <2>2. /\ Bumped(new).status = "PendingRetry"
        /\ Bumped(new).processAttempt = 0
        /\ Bumped(new).verificationAttempt = d.verificationAttempt
        /\ Bumped(new).processRetry = d.processRetry + 1
        /\ Bumped(new).verificationRetry = d.verificationRetry
    BY <1>1 DEF Docs, Bumped
  <2> HIDE DEF new
  <2> DEFINE st == "PendingRetry"
             n == 0
             m == d.processRetry + 1
  <2> HIDE DEF st, n, m
  <2>4. View(Bumped(new)) = [View(d) EXCEPT !.status = st, !.processAttempt = n,
                                            !.processRetry = m]
    <3>1. View(Bumped(new)) =
             [status |-> st, processAttempt |-> n,
              verificationAttempt |-> d.verificationAttempt,
              processRetry |-> m, verificationRetry |-> d.verificationRetry]
      BY <2>2 DEF View, st, n, m
    <3>2. [View(d) EXCEPT !.status = st, !.processAttempt = n, !.processRetry = m] =
             [status |-> st, processAttempt |-> n,
              verificationAttempt |-> d.verificationAttempt,
              processRetry |-> m, verificationRetry |-> d.verificationRetry]
      <4>1. \A x, y, z :
                [View(d) EXCEPT !.status = x, !.processAttempt = y, !.processRetry = z] =
                            [status |-> x, processAttempt |-> y,
                             verificationAttempt |-> d.verificationAttempt,
                             processRetry |-> z, verificationRetry |-> d.verificationRetry]
        BY RetriedEntry
      <4> QED
        BY <4>1, Zenon
    <3> QED
      BY <3>1, <3>2
  <2>5. View(Bumped(new))
        = [e EXCEPT !.status = "PendingRetry", !.processAttempt = 0,
                   !.processRetry = @ + 1]
    <3>1. View(d).processRetry = d.processRetry
      BY DEF View
    <3> QED
      BY <1>1, <2>4, <3>1, Zenon DEF st, n, m
  <2>6. Contract!Retry(j)
    BY <1>13, <2>1, <2>5 DEF e, Retried, Contract!Retry, Contract!Move, Book
  <2> QED
    BY <2>6 DEF Contract!Next
<1>14. CASE Reverified(j)
  <2> DEFINE new == [d EXCEPT !.status = "PendingVerification", !.verificationAttempt = 0,
                              !.verificationRetry = @ + 1]
  <2>1. Book' = [Book EXCEPT ![j] = View(Bumped(new))] /\ e.status # "Absent"
    BY <1>2, <1>14 DEF Reverified, Statuses
  <2>2. /\ Bumped(new).status = "PendingVerification"
        /\ Bumped(new).processAttempt = d.processAttempt
        /\ Bumped(new).verificationAttempt = 0
        /\ Bumped(new).processRetry = d.processRetry
        /\ Bumped(new).verificationRetry = d.verificationRetry + 1
    BY <1>1 DEF Docs, Bumped
  <2> HIDE DEF new
  <2> DEFINE st == "PendingVerification"
             n == 0
             m == d.verificationRetry + 1
  <2> HIDE DEF st, n, m
  <2>4. View(Bumped(new)) = [View(d) EXCEPT !.status = st, !.verificationAttempt = n,
                                      !.verificationRetry = m]
    <3>1. View(Bumped(new)) =
             [status |-> st, processAttempt |-> d.processAttempt,
              verificationAttempt |-> n,
              processRetry |-> d.processRetry, verificationRetry |-> m]
      BY <2>2 DEF View, st, n, m
    <3>2. [View(d) EXCEPT !.status = st, !.verificationAttempt = n,
                        !.verificationRetry = m] =
             [status |-> st, processAttempt |-> d.processAttempt,
              verificationAttempt |-> n,
              processRetry |-> d.processRetry, verificationRetry |-> m]
      BY ReverifiedEntry, Zenon
    <3> QED
      BY <3>1, <3>2
  <2>5. View(Bumped(new))
        = [e EXCEPT !.status = "PendingVerification", !.verificationAttempt = 0,
                   !.verificationRetry = @ + 1]
    <3>1. View(d).verificationRetry = d.verificationRetry
      BY DEF View
    <3> QED
      BY <1>1, <2>4, <3>1, Zenon DEF st, n, m
  <2>6. Contract!Reverify(j)
    <3>1. Book' = [Book EXCEPT ![j] =
              [e EXCEPT !.status = "PendingVerification", !.verificationAttempt = 0,
                        !.verificationRetry = @ + 1]]
      BY <2>1, <2>5
    <3>2. Book[j].status # "Absent" /\ "verify" \in Routes
      BY <1>14, <2>1 DEF e, Reverified
    <3> QED
      BY <3>1, <3>2 DEF e, Contract!Reverify, Book
  <2> QED
    BY <2>6 DEF Contract!Next
<1> QED
  BY <1>4, <1>5, <1>6, <1>7, <1>8, <1>9, <1>10, <1>11, <1>12, <1>13, <1>14 DEF Moved

\* For any numbers of jobs, tasks and replicas and any faults: whatever stale
\* snapshots the handlers hold, the collection changes only by whole moves of the
\* contract, each from the job's current entry.
THEOREM ImplementsContract == Spec => RefinesContract
<1>1. Init => Contract!Init
  BY DEF Init, Contract!Init, Contract!Missing, Entry, Absent
<1>2. Inv /\ [Next]_vars => [Contract!Next]_([j \in Job |-> Entry(j)])
  <2> SUFFICES ASSUME Inv, [Next]_vars
               PROVE  Contract!Next \/ Book' = Book
    BY DEF Book
  <2>1. ASSUME UNCHANGED <<jobs, runs>>  PROVE Book' = Book
    BY <2>1 DEF Book, Entry
  <2> QED
    BY <2>1, StepMoves, MoveRefines DEF Inv
<1>3. Spec => []Inv
  BY VersionInvariant, PTL DEF Inv
<1> QED
  BY <1>1, <1>2, <1>3, PTL DEF Spec, RefinesContract, Contract!Spec

-------------------------------------------------------------------------------
(* What the workers see of the collection *)

Seen == [j \in Job |-> Standing(jobs[j].status)]

(* A write of one document changes the standing of that job only. *)
LEMMA SeenUpdate ==
  ASSUME TypeInv, NEW j \in Job, NEW doc, NEW st, doc.status = st,
         jobs' = [jobs EXCEPT ![j] = doc]
  PROVE  Seen' = [Seen EXCEPT ![j] = Standing(st)]
<1>1. \A i \in Job : jobs'[i] = IF i = j THEN doc ELSE jobs[i]
  BY DEF TypeInv
<1>2. \A i \in Job : Standing(jobs'[i].status) = IF i = j THEN Standing(st)
                                                 ELSE Standing(jobs[i].status)
  <2>1. ASSUME NEW i \in Job, i = j  PROVE Standing(jobs'[i].status) = Standing(st)
    BY <1>1, <2>1
  <2>2. ASSUME NEW i \in Job, i # j  PROVE Standing(jobs'[i].status) = Standing(jobs[i].status)
    BY <1>1, <2>2
  <2> QED
    BY <2>1, <2>2
<1>3. Seen' = [i \in Job |-> IF i = j THEN Standing(st) ELSE Standing(jobs[i].status)]
  BY <1>2, Zenon DEF Seen
<1>4. [Seen EXCEPT ![j] = Standing(st)]
        = [i \in Job |-> IF i = j THEN Standing(st) ELSE Standing(jobs[i].status)]
  BY DEF Seen
<1> QED
  BY <1>3, <1>4

(* The status that each move leaves behind. *)
LEMMA MoveStatus ==
  ASSUME NEW d \in Docs
  PROVE  /\ \A st \in Statuses : Bumped([d EXCEPT !.status = st]).status = st
         /\ Bumped(d).status = d.status
         /\ Bumped([d EXCEPT !.verificationAttempt = @ + 1]).status = d.status
         /\ Bumped([d EXCEPT !.status = "PendingVerification", !.processAttempt = @ + 1,
                             !.externalId = TRUE]).status = "PendingVerification"
         /\ Bumped([d EXCEPT !.status = "PendingRetry", !.processAttempt = 0,
                             !.processRetry = @ + 1]).status = "PendingRetry"
         /\ Bumped([d EXCEPT !.status = "PendingVerification", !.verificationAttempt = 0,
                             !.verificationRetry = @ + 1]).status = "PendingVerification"
<1>1. \A st \in Statuses : Bumped([d EXCEPT !.status = st]).status = st
  BY DEF Docs, Bumped
<1>2. Bumped(d).status = d.status
  BY DEF Docs, Bumped
<1>3. Bumped([d EXCEPT !.verificationAttempt = @ + 1]).status = d.status
  BY DEF Docs, Bumped
<1>4. Bumped([d EXCEPT !.status = "PendingVerification", !.processAttempt = @ + 1,
                       !.externalId = TRUE]).status = "PendingVerification"
  BY DEF Docs, Bumped
<1>5. Bumped([d EXCEPT !.status = "PendingRetry", !.processAttempt = 0,
                       !.processRetry = @ + 1]).status = "PendingRetry"
  BY DEF Docs, Bumped
<1>6. Bumped([d EXCEPT !.status = "PendingVerification", !.verificationAttempt = 0,
                       !.verificationRetry = @ + 1]).status = "PendingVerification"
  BY DEF Docs, Bumped
<1> QED
  BY <1>1, <1>2, <1>3, <1>4, <1>5, <1>6, Zenon

(* A job passes to the standing st, or keeps its own. *)
LEMMA MoveSeen ==
  ASSUME TypeInv, NEW j \in Job, NEW from, NEW doc, NEW st,
         Writes(j, from, doc), Bumped(doc).status = st
  PROVE  /\ jobs[j].status \in from /\ Seen[j] = Standing(jobs[j].status)
         /\ Seen' = [Seen EXCEPT ![j] = Standing(st)]
  BY SeenUpdate DEF Writes, Seen

(* Each move of the collection is a step of JobOutcome or invisible to it. *)
LEMMA MoveOutcome ==
  ASSUME TypeInv, NEW j \in Job, Moved(j)
  PROVE  Outcome!Next \/ Seen' = Seen
<1> DEFINE d == jobs[j]
<1>1. d \in Docs /\ Seen \in [Job -> {Standing(jobs[i].status) : i \in Job}]
  BY DEF TypeInv, Seen
<1>a. ASSUME NEW st \in Statuses, NEW from, Writes(j, from, [d EXCEPT !.status = st])
      PROVE  /\ d.status \in from /\ Seen[j] = Standing(d.status)
             /\ Seen' = [Seen EXCEPT ![j] = Standing(st)]
  <2> DEFINE e == [d EXCEPT !.status = st]
  <2>1. Bumped(e).status = st
    BY <1>1 DEF Docs, Bumped
  <2>2. Writes(j, from, e)
    BY <1>a
  <2> HIDE DEF e
  <2> QED
    BY <2>1, <2>2, MoveSeen
<1>2. CASE Created(j)
  <2>1. Seen' = [Seen EXCEPT ![j] = "Open"] /\ Seen[j] = "Absent"
    BY <1>2, SeenUpdate, NewJobType DEF Created, Standing, Seen
  <2> QED
    BY <2>1 DEF Outcome!Next, Outcome!Open, Outcome!Pass, Seen
<1>3. CASE Locked(j)
  <2>1. d.status \in Processable /\ Seen[j] = Standing(d.status)
        /\ Seen' = [Seen EXCEPT ![j] = Standing("LockedForProcessing")]
    BY <1>a, <1>3 DEF Locked, Statuses
  <2>2. Seen' = [Seen EXCEPT ![j] = "Open"] /\ Seen[j] \in {"Open", "Rejected"}
    BY <2>1 DEF Standing, Processable
  <2>3. Seen[j] = "Open" => Seen' = Seen
    BY <1>1, <2>2
  <2> QED
    BY <2>2, <2>3 DEF Outcome!Next, Outcome!Work, Outcome!Again, Outcome!Pass, Seen
<1>4. CASE Finished(j)
  <2> DEFINE e == [d EXCEPT !.status = "PendingVerification", !.processAttempt = @ + 1,
                            !.externalId = TRUE]
  <2>2. Bumped(e).status = "PendingVerification"
    BY <1>1, MoveStatus, ZenonT(60)
  <2>3. Writes(j, {"LockedForProcessing"}, e)
    BY <1>4 DEF Finished
  <2> HIDE DEF e
  <2>1. Seen[j] = "Open" /\ Seen' = [Seen EXCEPT ![j] = "Open"]
    BY <2>2, <2>3, MoveSeen DEF Standing
  <2> QED
    BY <1>1, <2>1
<1>5. CASE Failed(j)
  <2>1. d.status \in Unfinished /\ Seen[j] = Standing(d.status)
        /\ Seen' = [Seen EXCEPT ![j] = Standing("Failed")]
    BY <1>a, <1>5 DEF Failed, Statuses
  <2>2. Seen' = [Seen EXCEPT ![j] = "Halted"] /\ Seen[j] \in {"Open", "Rejected", "Halted"}
    BY <2>1 DEF Standing, Unfinished, Statuses
  <2>3. Seen[j] = "Halted" => Seen' = Seen
    BY <1>1, <2>2
  <2> QED
    BY <2>2, <2>3 DEF Outcome!Next, Outcome!Work, Outcome!Halt, Outcome!Pass, Seen
<1>6. CASE Stamped(j) \/ Polled(j)
  <2> DEFINE e == [d EXCEPT !.verificationAttempt = @ + 1]
  <2>1. Bumped(e).status = d.status /\ Bumped(d).status = d.status
    BY <1>1 DEF Docs, Bumped
  <2>2. Writes(j, Verifiable, e) \/ Writes(j, Verifiable, d)
    BY <1>6 DEF Stamped, Polled
  <2> HIDE DEF e
  <2>3. Seen[j] = Standing(d.status) /\ Seen' = [Seen EXCEPT ![j] = Standing(d.status)]
    BY <2>1, <2>2, MoveSeen
  <2> QED
    BY <1>1, <2>3
<1>7. CASE Accepted(j)
  <2>1. d.status \in Verifiable /\ Seen[j] = Standing(d.status)
        /\ Seen' = [Seen EXCEPT ![j] = Standing("Completed")]
    BY <1>a, <1>7 DEF Accepted, Statuses
  <2>2. Seen' = [Seen EXCEPT ![j] = "Completed"] /\ Seen[j] \in {"Open", "Halted"}
    BY <2>1 DEF Standing, Verifiable
  <2> QED
    BY <2>2 DEF Outcome!Next, Outcome!Work, Outcome!Complete, Outcome!Pass, Seen
<1>8. CASE Rejected(j)
  <2>1. d.status \in Verifiable /\ Seen[j] = Standing(d.status)
        /\ Seen' = [Seen EXCEPT ![j] = Standing("VerificationFailed")]
    BY <1>a, <1>8 DEF Rejected, Statuses
  <2>2. Seen' = [Seen EXCEPT ![j] = "Rejected"] /\ Seen[j] \in {"Open", "Halted"}
    BY <2>1 DEF Standing, Verifiable
  <2> QED
    BY <2>2 DEF Outcome!Next, Outcome!Work, Outcome!Reject, Outcome!Pass, Seen
<1>9. CASE Expired(j)
  <2>1. d.status \in Verifiable /\ Seen[j] = Standing(d.status)
        /\ Seen' = [Seen EXCEPT ![j] = Standing("VerificationTimeout")]
    BY <1>a, <1>9 DEF Expired, Statuses
  <2>2. Seen' = [Seen EXCEPT ![j] = "Halted"] /\ Seen[j] \in {"Open", "Halted"}
    BY <2>1 DEF Standing, Verifiable
  <2>3. Seen[j] = "Halted" => Seen' = Seen
    BY <1>1, <2>2
  <2> QED
    BY <2>2, <2>3 DEF Outcome!Next, Outcome!Work, Outcome!Halt, Outcome!Pass, Seen
<1>10. CASE Retried(j)
  <2> DEFINE e == [d EXCEPT !.status = "PendingRetry", !.processAttempt = 0,
                            !.processRetry = @ + 1]
  <2>2. Bumped(e).status = "PendingRetry"
    BY <1>1, MoveStatus, ZenonT(60)
  <2>3. Writes(j, {"Failed"}, e) /\ "retry" \in Routes
    BY <1>10 DEF Retried
  <2> HIDE DEF e
  <2>1. Seen[j] = "Halted" /\ Seen' = [Seen EXCEPT ![j] = "Open"] /\ "retry" \in Routes
    BY <2>2, <2>3, MoveSeen DEF Standing
  <2> QED
    BY <2>1 DEF Outcome!Next, Outcome!Operate, Outcome!Retry, Outcome!Pass, Seen
<1>11. CASE Reverified(j)
  <2> DEFINE e == [d EXCEPT !.status = "PendingVerification", !.verificationAttempt = 0,
                            !.verificationRetry = @ + 1]
  <2>4. Bumped(e).status = "PendingVerification"
    BY <1>1, MoveStatus, ZenonT(60)
  <2>5. Writes(j, Statuses, e) /\ "verify" \in Routes
    BY <1>11 DEF Reverified
  <2> HIDE DEF e
  <2>1. d.status \in Statuses /\ Seen[j] = Standing(d.status) /\ "verify" \in Routes
        /\ Seen' = [Seen EXCEPT ![j] = Standing("PendingVerification")]
    BY <2>4, <2>5, MoveSeen
  <2>2. /\ Seen' = [Seen EXCEPT ![j] = "Open"]
        /\ Seen[j] \in {"Open", "Rejected", "Completed", "Halted"}
    BY <2>1 DEF Standing, Statuses
  <2>3. Seen[j] = "Open" => Seen' = Seen
    BY <1>1, <2>2
  <2> QED
    BY <2>1, <2>2, <2>3 DEF Outcome!Next, Outcome!Operate, Outcome!Reverify, Outcome!Pass, Seen
<1> QED
  BY <1>2, <1>3, <1>4, <1>5, <1>6, <1>7, <1>8, <1>9, <1>10, <1>11 DEF Moved

\* For any numbers of jobs, tasks and replicas and any faults: what the workers'
\* queries can tell of jobs changes only as JobOutcome, on which Pipeline builds,
\* says.
THEOREM ImplementsOutcome == Spec => RefinesOutcome
<1>1. Init => Outcome!Init
  BY DEF Init, Outcome!Init, Absent, Standing
<1>2. Inv /\ [Next]_vars => [Outcome!Next]_([j \in Job |-> Standing(jobs[j].status)])
  <2> SUFFICES ASSUME Inv, [Next]_vars
               PROVE  Outcome!Next \/ Seen' = Seen
    BY DEF Seen
  <2>1. ASSUME UNCHANGED <<jobs, runs>>  PROVE Seen' = Seen
    BY <2>1 DEF Seen
  <2> QED
    BY <2>1, StepMoves, MoveOutcome DEF Inv
<1>3. Spec => []Inv
  BY VersionInvariant, PTL DEF Inv
<1> QED
  BY <1>1, <1>2, <1>3, PTL DEF Spec, RefinesOutcome, Outcome!Spec
===============================================================================
