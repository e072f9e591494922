---------------------------- MODULE JobStore_proofs ----------------------------
(***************************************************************************)
(* What every operation of JobStore keeps, for any jobs, tasks and bounds: *)
(* the types of the store, and which jobs are completed.  The proofs about *)
(* the handlers of single job types rest on these facts.                   *)
(***************************************************************************)
EXTENDS JobStore, TLAPS

\* Nothing becomes completed.
NoneCompleted ==
    \A j \in Job : book'[j].status = "Completed" => book[j].status = "Completed"

\* Job j gets status s, whatever else its entry says.
Becomes(j, s) ==
    \E entry \in Contract!Entries : entry.status = s /\ book' = [book EXCEPT ![j] = entry]

(* Writing an entry keeps the type of the book. *)
LEMMA WritesType ==
  ASSUME book \in [Job -> Contract!Entries], NEW j \in Job, NEW s, Becomes(j, s)
  PROVE  /\ book' \in [Job -> Contract!Entries]
         /\ s # "Completed" => NoneCompleted
  BY DEF Becomes, NoneCompleted

(* Putting a message into a queue, or taking it out, keeps the type of the mail. *)
LEMMA MailType ==
  ASSUME mail \in [Job -> SUBSET Queues], NEW j \in Job, NEW q,
         (Put(j, q) /\ q \in Queues) \/ Take(j, q) \/ mail' = mail
  PROVE  mail' \in [Job -> SUBSET Queues]
  BY DEF Put, Take

(* Making some tasks the owners of a job keeps the type of the owners. *)
LEMMA OwnersType ==
  ASSUME current \in [Job -> SUBSET Task], NEW j \in Job, NEW owners \in SUBSET Task,
         Owned(j, owners)
  PROVE  current' \in [Job -> SUBSET Task]
  BY DEF Owned

(* The status that each move of the contract gives its job. *)
LEMMA MovesType ==
  ASSUME book \in [Job -> Contract!Entries], NEW j \in Job
  PROVE  /\ Contract!Create(j) => Becomes(j, "Created")
         /\ Contract!Lock(j) => Becomes(j, "LockedForProcessing")
         /\ Contract!Finish(j) => Becomes(j, "PendingVerification")
         /\ Contract!Abandon(j) => Becomes(j, "Failed")
         /\ Contract!Accept(j) => Becomes(j, "Completed")
         /\ Contract!Reject(j) => Becomes(j, "VerificationFailed")
         /\ Contract!Poll(j) => Becomes(j, book[j].status)
         /\ Contract!GiveUp(j) => Becomes(j, "VerificationTimeout")
         /\ Contract!Retry(j) => Becomes(j, "PendingRetry")
         /\ Contract!Reverify(j) => Becomes(j, "PendingVerification")
<1>0. book[j] \in Contract!Entries
  OBVIOUS
<1>1. Contract!Create(j) => Becomes(j, "Created")
  <2> DEFINE e == [Contract!Missing EXCEPT !.status = "Created"]
  <2>1. e \in Contract!Entries /\ e.status = "Created"
    BY <1>0 DEF Contract!Entries, Contract!Missing
  <2> QED
    BY <2>1 DEF Becomes, Contract!Create, Contract!Move
<1>2. Contract!Lock(j) => Becomes(j, "LockedForProcessing")
  <2> DEFINE e == [book[j] EXCEPT !.status = "LockedForProcessing"]
  <2>1. e \in Contract!Entries /\ e.status = "LockedForProcessing"
    BY <1>0 DEF Contract!Entries
  <2> QED
    BY <2>1 DEF Becomes, Contract!Lock, Contract!Move
<1>3. Contract!Finish(j) => Becomes(j, "PendingVerification")
  <2> DEFINE d == [book[j] EXCEPT !.status = "PendingVerification"]
             e == [d EXCEPT !.processAttempt = book[j].processAttempt + 1]
  <2>1. d \in Contract!Entries /\ d.status = "PendingVerification"
    BY <1>0 DEF Contract!Entries
  <2>2. book[j].processAttempt + 1 \in Nat
    BY <1>0 DEF Contract!Entries
  <2>3. Contract!Finish(j) => book' = [book EXCEPT ![j] = e]
    BY DEF Contract!Finish, Contract!Move
  <2>4. e \in Contract!Entries /\ e.status = "PendingVerification"
    <3> HIDE DEF d
    <3> QED
      BY <2>1, <2>2 DEF Contract!Entries
  <2> QED
    BY <2>3, <2>4 DEF Becomes
<1>4. Contract!Abandon(j) => Becomes(j, "Failed")
  <2> DEFINE e == [book[j] EXCEPT !.status = "Failed"]
  <2>1. e \in Contract!Entries /\ e.status = "Failed"
    BY <1>0 DEF Contract!Entries
  <2> QED
    BY <2>1 DEF Becomes, Contract!Abandon, Contract!Move
<1>5. Contract!Accept(j) => Becomes(j, "Completed")
  <2> DEFINE e == [book[j] EXCEPT !.status = "Completed"]
  <2>1. e \in Contract!Entries /\ e.status = "Completed"
    BY <1>0 DEF Contract!Entries
  <2> QED
    BY <2>1 DEF Becomes, Contract!Accept, Contract!Move
<1>6. Contract!Reject(j) => Becomes(j, "VerificationFailed")
  <2> DEFINE e == [book[j] EXCEPT !.status = "VerificationFailed"]
  <2>1. e \in Contract!Entries /\ e.status = "VerificationFailed"
    BY <1>0 DEF Contract!Entries
  <2> QED
    BY <2>1 DEF Becomes, Contract!Reject, Contract!Move
<1>7. Contract!Poll(j) => Becomes(j, book[j].status)
  <2> DEFINE e == [book[j] EXCEPT !.verificationAttempt = @ + 1]
  <2>1. e \in Contract!Entries /\ e.status = book[j].status
    BY <1>0 DEF Contract!Entries
  <2> QED
    BY <2>1 DEF Becomes, Contract!Poll, Contract!Move
<1>8. Contract!GiveUp(j) => Becomes(j, "VerificationTimeout")
  <2> DEFINE e == [book[j] EXCEPT !.status = "VerificationTimeout"]
  <2>1. e \in Contract!Entries /\ e.status = "VerificationTimeout"
    BY <1>0 DEF Contract!Entries
  <2> QED
    BY <2>1 DEF Becomes, Contract!GiveUp, Contract!Move
<1>9. Contract!Retry(j) => Becomes(j, "PendingRetry")
  <2> DEFINE c == [book[j] EXCEPT !.status = "PendingRetry"]
             d == [c EXCEPT !.processAttempt = 0]
             e == [d EXCEPT !.processRetry = book[j].processRetry + 1]
  <2>1. c \in Contract!Entries /\ c.status = "PendingRetry"
    BY <1>0 DEF Contract!Entries
  <2>2. book[j].processRetry + 1 \in Nat
    BY <1>0 DEF Contract!Entries
  <2>3. Contract!Retry(j) => book' = [book EXCEPT ![j] = e]
    BY DEF Contract!Retry, Contract!Move
  <2>4. d \in Contract!Entries /\ d.status = "PendingRetry"
    <3> HIDE DEF c
    <3> QED
      BY <2>1 DEF Contract!Entries
  <2>5. e \in Contract!Entries /\ e.status = "PendingRetry"
    <3> HIDE DEF d
    <3> QED
      BY <2>4, <2>2 DEF Contract!Entries
  <2> QED
    BY <2>3, <2>5 DEF Becomes
<1>10. Contract!Reverify(j) => Becomes(j, "PendingVerification")
  <2> DEFINE c == [book[j] EXCEPT !.status = "PendingVerification"]
             d == [c EXCEPT !.verificationAttempt = 0]
             e == [d EXCEPT !.verificationRetry = book[j].verificationRetry + 1]
  <2>1. c \in Contract!Entries /\ c.status = "PendingVerification"
    BY <1>0 DEF Contract!Entries
  <2>2. book[j].verificationRetry + 1 \in Nat
    BY <1>0 DEF Contract!Entries
  <2>3. Contract!Reverify(j) => book' = [book EXCEPT ![j] = e]
    BY DEF Contract!Reverify
  <2>4. d \in Contract!Entries /\ d.status = "PendingVerification"
    <3> HIDE DEF c
    <3> QED
      BY <2>1 DEF Contract!Entries
  <2>5. e \in Contract!Entries /\ e.status = "PendingVerification"
    <3> HIDE DEF d
    <3> QED
      BY <2>4, <2>2 DEF Contract!Entries
  <2> QED
    BY <2>3, <2>5 DEF Becomes
<1> QED
  BY <1>1, <1>2, <1>3, <1>4, <1>5, <1>6, <1>7, <1>8, <1>9, <1>10

\* What a step of a handler, a worker, an operator or the failure queue does to the store.
OtherStep(t, j) ==
    \/ CreateJob(j) \/ TakeToProcess(t, j) \/ TakeToVerify(t, j) \/ Discard(j) \/ Intervene(j)
    \/ RecordProcessed(t, j) \/ RecordFailed(t, j) \/ RecordRejected(t, j)
    \/ RecordExhausted(t, j) \/ RecordPending(t, j) \/ RecordTimeout(t, j)

(* All operations keep the types, and only a verdict completes a job. *)
LEMMA StoreSteps ==
  ASSUME StoreTypeOK, NEW t \in Task, NEW j \in Job, mishaps' \in 0 .. MaxMishaps
  PROVE  /\ OtherStep(t, j) => StoreTypeOK' /\ NoneCompleted
         /\ RecordVerified(t, j) => /\ StoreTypeOK'
                                    /\ Becomes(j, "Completed")
<1> USE DEF StoreTypeOK
<1>1. {} \in SUBSET Task /\ {t} \in SUBSET Task
  OBVIOUS
<1>2. {"process", "verify", "failure"} = Queues
  BY DEF Queues
<1>3. ASSUME NEW s, Becomes(j, s), s # "Completed",
             Put(j, "process") \/ Put(j, "verify") \/ Take(j, "process")
               \/ Take(j, "failure") \/ mail' = mail,
             Owned(j, {}) \/ Owned(j, {t}) \/ current' = current
      PROVE  StoreTypeOK' /\ NoneCompleted
  BY <1>1, <1>2, <1>3, WritesType, MailType, OwnersType
<1>4. ASSUME CreateJob(j) PROVE StoreTypeOK' /\ NoneCompleted
  BY <1>3, <1>4, MovesType DEF CreateJob
<1>5. ASSUME TakeToProcess(t, j) PROVE StoreTypeOK' /\ NoneCompleted
  BY <1>3, <1>5, MovesType DEF TakeToProcess
<1>6. ASSUME TakeToVerify(t, j) PROVE StoreTypeOK' /\ NoneCompleted
  BY <1>1, <1>6, MailType, OwnersType DEF TakeToVerify, NoneCompleted
<1>7. ASSUME HandleFailure(j) PROVE StoreTypeOK' /\ NoneCompleted
  BY <1>3, <1>7, MovesType DEF HandleFailure
<1>8. ASSUME \E q \in Queues : Dismiss(j, q) PROVE StoreTypeOK' /\ NoneCompleted
  BY <1>8, MailType DEF Dismiss, NoneCompleted
<1>9. ASSUME Intervene(j) PROVE StoreTypeOK' /\ NoneCompleted
  BY <1>3, <1>9, MovesType DEF Intervene, Retry, Reverify
<1>10. ASSUME RecordProcessed(t, j) PROVE StoreTypeOK' /\ NoneCompleted
  BY <1>3, <1>10, MovesType DEF RecordProcessed
<1>11. ASSUME RecordFailed(t, j) PROVE StoreTypeOK' /\ NoneCompleted
  BY <1>3, <1>11, MovesType DEF RecordFailed
<1>12. ASSUME RecordRejected(t, j) PROVE StoreTypeOK' /\ NoneCompleted
  BY <1>3, <1>12, MovesType DEF RecordRejected
<1>13. ASSUME RecordExhausted(t, j) PROVE StoreTypeOK' /\ NoneCompleted
  BY <1>11, <1>13 DEF RecordExhausted
<1>14. ASSUME RecordPending(t, j) PROVE StoreTypeOK' /\ NoneCompleted
  <2>1. book[j].status # "Completed"
    BY <1>14 DEF RecordPending, Contract!Poll, Contract!Move, Contract!Verifiable
  <2> QED
    BY <1>3, <1>14, <2>1, MovesType DEF RecordPending
<1>15. ASSUME RecordTimeout(t, j) PROVE StoreTypeOK' /\ NoneCompleted
  BY <1>3, <1>15, MovesType DEF RecordTimeout
<1>16. ASSUME RecordVerified(t, j) PROVE StoreTypeOK' /\ Becomes(j, "Completed")
  BY <1>1, <1>16, MovesType, WritesType, OwnersType DEF RecordVerified
<1> QED
  BY <1>4, <1>5, <1>6, <1>7, <1>8, <1>9, <1>10, <1>11, <1>12, <1>13, <1>14, <1>15, <1>16
  DEF OtherStep, Discard

\* Job j can be verified, or is completed, and no operator has asked to verify it.
AwaitsVerdict(j, entry) ==
    entry.status \in Contract!Verifiable \cup {"Completed"} /\ entry.verificationRetry = 0

\* What a step may do to the entry of job j: only its creation ends its absence, and only
\* the result of process_job takes it to verification without an operator.
Develops(t, j) ==
    /\ book[j].status = "Absent" => book'[j].status = "Absent" \/ CreateJob(j)
    /\ AwaitsVerdict(j, book'[j]) => AwaitsVerdict(j, book[j]) \/ RecordProcessed(t, j)

(* A step changes the entry of one job, whose other copies become outdated or stay so. *)
LEMMA StoreMoves ==
  ASSUME StoreTypeOK, NEW t \in Task, NEW j \in Job, OtherStep(t, j) \/ RecordVerified(t, j)
  PROVE  /\ \A i \in Job : i # j => book'[i] = book[i]
         /\ \A i \in Job : \A u \in Task : u # t /\ u \in current'[i] => u \in current[i]
         /\ Develops(t, j)
<1> USE DEF StoreTypeOK
<1>0. book[j] \in Contract!Entries
  OBVIOUS
<1>1. ASSUME Owned(j, {}) \/ Owned(j, {t}) \/ current' = current
      PROVE  \A i \in Job : \A u \in Task : u # t /\ u \in current'[i] => u \in current[i]
  BY <1>1 DEF Owned
<1>2. Owned(j, {}) \/ Owned(j, {t}) \/ current' = current
  BY DEF OtherStep, CreateJob, TakeToProcess, TakeToVerify, Discard, HandleFailure, Dismiss,
         Intervene, Retry, Reverify, RecordProcessed, RecordFailed, RecordRejected,
         RecordExhausted, RecordPending, RecordTimeout, RecordVerified
<1>3. ASSUME NEW s, Becomes(j, s)
      PROVE  /\ \A i \in Job : i # j => book'[i] = book[i]
             /\ book'[j].status = s
  BY <1>3 DEF Becomes
<1> DEFINE Goal == (\A i \in Job : i # j => book'[i] = book[i]) /\ Develops(t, j)
<1> USE DEF Develops, AwaitsVerdict, Contract!Verifiable
<1>4. ASSUME CreateJob(j) PROVE Goal
  BY <1>3, <1>4, MovesType DEF CreateJob
<1>5. ASSUME TakeToProcess(t, j) PROVE Goal
  <2>1. Becomes(j, "LockedForProcessing") /\ book[j].status # "Absent"
    BY <1>5, MovesType DEF TakeToProcess, Contract!Lock, Contract!Move
  <2> QED
    BY <1>3, <2>1
<1>6. ASSUME book' = book PROVE Goal
  BY <1>6
<1>7. ASSUME Contract!Abandon(j) PROVE Goal
  <2>1. Becomes(j, "Failed") /\ book[j].status # "Absent"
    BY <1>7, MovesType DEF Contract!Abandon, Contract!Move
  <2> QED
    BY <1>3, <2>1
<1>8. ASSUME Retry(j) PROVE Goal
  <2>1. Becomes(j, "PendingRetry") /\ book[j].status # "Absent"
    BY <1>8, MovesType DEF Retry, Contract!Retry, Contract!Move
  <2> QED
    BY <1>3, <2>1
<1>9. ASSUME Reverify(j) PROVE Goal
  <2>1. Becomes(j, "PendingVerification") /\ book[j].status # "Absent"
    BY <1>9, MovesType DEF Reverify, Contract!Reverify
  <2>2. book'[j].verificationRetry = book[j].verificationRetry + 1
    BY <1>0, <1>9 DEF Reverify, Contract!Reverify, Contract!Entries
  <2>3. book[j].verificationRetry \in Nat
    BY <1>0 DEF Contract!Entries
  <2>4. book'[j].verificationRetry # 0
    BY <2>2, <2>3
  <2> QED
    BY <1>3, <2>1, <2>4
<1>10. ASSUME RecordProcessed(t, j) PROVE Goal
  <2>1. Becomes(j, "PendingVerification") /\ book[j].status # "Absent"
    BY <1>10, MovesType DEF RecordProcessed, Contract!Finish, Contract!Move
  <2> QED
    BY <1>3, <1>10, <2>1
<1>11. ASSUME RecordRejected(t, j) PROVE Goal
  <2>1. Becomes(j, "VerificationFailed") /\ book[j].status # "Absent"
    BY <1>11, MovesType DEF RecordRejected, Contract!Reject, Contract!Move
  <2> QED
    BY <1>3, <2>1
<1>12. ASSUME RecordPending(t, j) \/ RecordTimeout(t, j) \/ RecordVerified(t, j) PROVE Goal
  <2>1. book[j].status \in Contract!Verifiable
    BY <1>12 DEF RecordPending, RecordTimeout, RecordVerified, Contract!Poll, Contract!GiveUp,
                 Contract!Accept, Contract!Move
  <2>2. PICK s : Becomes(j, s)
    BY <1>12, MovesType DEF RecordPending, RecordTimeout, RecordVerified
  <2>3. book'[j].verificationRetry = book[j].verificationRetry
    BY <1>0, <1>12 DEF RecordPending, RecordTimeout, RecordVerified, Contract!Poll,
                       Contract!GiveUp, Contract!Accept, Contract!Move, Contract!Entries
  <2> QED
    BY <1>3, <2>1, <2>2, <2>3
<1>13. Goal
  BY <1>4, <1>5, <1>6, <1>7, <1>8, <1>9, <1>10, <1>11, <1>12
  DEF OtherStep, TakeToVerify, Discard, HandleFailure, Dismiss, Intervene, RecordFailed,
      RecordExhausted
<1> HIDE DEF Develops
<1> QED
  BY <1>1, <1>2, <1>13

\* The entry of job j gets status s and keeps what the attempts and requests are counted by.
Keeps(j, s) ==
    /\ book'[j].status = s
    /\ book'[j].processAttempt = book[j].processAttempt
    /\ book'[j].processRetry = book[j].processRetry
    /\ book'[j].verificationRetry = book[j].verificationRetry

(* What each move of the contract does to the entry. *)
LEMMA MovesEntry ==
  ASSUME book \in [Job -> Contract!Entries], NEW j \in Job
  PROVE  /\ Contract!Create(j) =>
                /\ book[j].status = "Absent" /\ book'[j].status = "Created"
                /\ book'[j].processAttempt = 0 /\ book'[j].processRetry = 0
                /\ book'[j].verificationRetry = 0
         /\ Contract!Lock(j) =>
                book[j].status \in Processable /\ Keeps(j, "LockedForProcessing")
         /\ Contract!Finish(j) =>
                /\ book[j].status = "LockedForProcessing"
                /\ book'[j].status = "PendingVerification"
                /\ book'[j].processAttempt = book[j].processAttempt + 1
                /\ book'[j].processRetry = book[j].processRetry
                /\ book'[j].verificationRetry = book[j].verificationRetry
         /\ Contract!Abandon(j) =>
                /\ book[j].status \notin {"Absent", "Completed", "Failed"}
                /\ Keeps(j, "Failed")
         /\ Contract!Accept(j) =>
                book[j].status \in Contract!Verifiable /\ Keeps(j, "Completed")
         /\ Contract!Reject(j) =>
                /\ book[j].status \in Contract!Verifiable
                /\ book[j].processAttempt < MaxProcessAttempts[j]
                /\ Keeps(j, "VerificationFailed")
         /\ Contract!Poll(j) =>
                book[j].status \in Contract!Verifiable /\ Keeps(j, book[j].status)
         /\ Contract!GiveUp(j) =>
                book[j].status \in Contract!Verifiable /\ Keeps(j, "VerificationTimeout")
         /\ Contract!Retry(j) =>
                /\ book[j].status = "Failed" /\ book'[j].status = "PendingRetry"
                /\ book'[j].processAttempt = 0
                /\ book'[j].processRetry = book[j].processRetry + 1
                /\ book'[j].verificationRetry = book[j].verificationRetry
         /\ Contract!Reverify(j) =>
                /\ book[j].status # "Absent" /\ book'[j].status = "PendingVerification"
                /\ book'[j].processAttempt = book[j].processAttempt
                /\ book'[j].processRetry = book[j].processRetry
                /\ book'[j].verificationRetry = book[j].verificationRetry + 1
<1>0. book[j] \in Contract!Entries
  OBVIOUS
<1>1. ASSUME NEW e, book' = [book EXCEPT ![j] = e] PROVE book'[j] = e
  BY <1>1
<1>2. ASSUME NEW s
      PROVE  LET e == [book[j] EXCEPT !.status = s]
             IN  /\ e.status = s
                 /\ e.processAttempt = book[j].processAttempt
                 /\ e.processRetry = book[j].processRetry
                 /\ e.verificationAttempt = book[j].verificationAttempt
                 /\ e.verificationRetry = book[j].verificationRetry
                 /\ DOMAIN e = DOMAIN book[j]
  BY <1>0 DEF Contract!Entries
<1>3. ASSUME NEW s, book' = [book EXCEPT ![j] = [book[j] EXCEPT !.status = s]]
      PROVE  Keeps(j, s)
  <2> DEFINE e == [book[j] EXCEPT !.status = s]
  <2>1. book'[j] = e
    BY <1>3
  <2> QED
    BY <2>1, <1>2 DEF Keeps
<1>4. Contract!Create(j) =>
          /\ book[j].status = "Absent" /\ book'[j].status = "Created"
          /\ book'[j].processAttempt = 0 /\ book'[j].processRetry = 0
          /\ book'[j].verificationRetry = 0
  <2> DEFINE e == [Contract!Missing EXCEPT !.status = "Created"]
  <2>1. /\ e.status = "Created" /\ e.processAttempt = 0 /\ e.processRetry = 0
        /\ e.verificationRetry = 0
    BY DEF Contract!Missing
  <2>2. Contract!Create(j) => book[j].status = "Absent" /\ book'[j] = e
    BY <1>1 DEF Contract!Create, Contract!Move
  <2> QED
    BY <2>1, <2>2
<1>5. Contract!Lock(j) => book[j].status \in Processable /\ Keeps(j, "LockedForProcessing")
  BY <1>3 DEF Contract!Lock, Contract!Move, Processable
<1>6. Contract!Finish(j) =>
          /\ book[j].status = "LockedForProcessing"
          /\ book'[j].status = "PendingVerification"
          /\ book'[j].processAttempt = book[j].processAttempt + 1
          /\ book'[j].processRetry = book[j].processRetry
          /\ book'[j].verificationRetry = book[j].verificationRetry
  <2> DEFINE d == [book[j] EXCEPT !.status = "PendingVerification"]
             e == [d EXCEPT !.processAttempt = book[j].processAttempt + 1]
  <2>1. /\ d.status = "PendingVerification" /\ d.processRetry = book[j].processRetry
        /\ d.verificationRetry = book[j].verificationRetry /\ DOMAIN d = DOMAIN book[j]
    BY <1>2
  <2>2. DOMAIN d = {"status", "processAttempt", "verificationAttempt", "processRetry",
                    "verificationRetry"}
    BY <1>0, <2>1 DEF Contract!Entries
  <2>3. Contract!Finish(j) => book[j].status = "LockedForProcessing" /\ book'[j] = e
    BY <1>1 DEF Contract!Finish, Contract!Move
  <2> HIDE DEF d
  <2>4. /\ e.status = d.status /\ e.processAttempt = book[j].processAttempt + 1
        /\ e.processRetry = d.processRetry /\ e.verificationRetry = d.verificationRetry
    BY <2>2
  <2> HIDE DEF e
  <2> QED
    BY <2>1, <2>3, <2>4
<1>7. Contract!Abandon(j) =>
          book[j].status \notin {"Absent", "Completed", "Failed"} /\ Keeps(j, "Failed")
  BY <1>3 DEF Contract!Abandon, Contract!Move
<1>8. Contract!Accept(j) => book[j].status \in Contract!Verifiable /\ Keeps(j, "Completed")
  BY <1>3 DEF Contract!Accept, Contract!Move
<1>9. Contract!Reject(j) => /\ book[j].status \in Contract!Verifiable
                            /\ book[j].processAttempt < MaxProcessAttempts[j]
                            /\ Keeps(j, "VerificationFailed")
  BY <1>3 DEF Contract!Reject, Contract!Move
<1>10. Contract!Poll(j) =>
           book[j].status \in Contract!Verifiable /\ Keeps(j, book[j].status)
  <2> DEFINE e == [book[j] EXCEPT !.verificationAttempt = @ + 1]
  <2>1. /\ e.status = book[j].status /\ e.processAttempt = book[j].processAttempt
        /\ e.processRetry = book[j].processRetry
        /\ e.verificationRetry = book[j].verificationRetry
    BY <1>0 DEF Contract!Entries
  <2>2. Contract!Poll(j) => book[j].status \in Contract!Verifiable /\ book'[j] = e
    BY <1>1 DEF Contract!Poll, Contract!Move
  <2> QED
    BY <2>1, <2>2 DEF Keeps
<1>11. Contract!GiveUp(j) =>
           book[j].status \in Contract!Verifiable /\ Keeps(j, "VerificationTimeout")
  BY <1>3 DEF Contract!GiveUp, Contract!Move
<1>12. Contract!Retry(j) =>
           /\ book[j].status = "Failed" /\ book'[j].status = "PendingRetry"
           /\ book'[j].processAttempt = 0
           /\ book'[j].processRetry = book[j].processRetry + 1
           /\ book'[j].verificationRetry = book[j].verificationRetry
  <2> DEFINE c == [book[j] EXCEPT !.status = "PendingRetry"]
             d == [c EXCEPT !.processAttempt = 0]
             e == [d EXCEPT !.processRetry = book[j].processRetry + 1]
  <2>1. /\ c.status = "PendingRetry" /\ c.verificationRetry = book[j].verificationRetry
        /\ DOMAIN c = {"status", "processAttempt", "verificationAttempt", "processRetry",
                       "verificationRetry"}
    BY <1>0, <1>2 DEF Contract!Entries
  <2>2. Contract!Retry(j) => book[j].status = "Failed" /\ book'[j] = e
    BY <1>1 DEF Contract!Retry, Contract!Move
  <2> HIDE DEF c
  <2>3. /\ d.status = "PendingRetry" /\ d.verificationRetry = book[j].verificationRetry
        /\ d.processAttempt = 0 /\ DOMAIN d = DOMAIN c
    BY <2>1
  <2> HIDE DEF d
  <2>4. /\ e.status = d.status /\ e.processAttempt = d.processAttempt
        /\ e.processRetry = book[j].processRetry + 1
        /\ e.verificationRetry = d.verificationRetry
    BY <2>1, <2>3
  <2> HIDE DEF e
  <2> QED
    BY <2>2, <2>3, <2>4
<1>13. Contract!Reverify(j) =>
           /\ book[j].status # "Absent" /\ book'[j].status = "PendingVerification"
           /\ book'[j].processAttempt = book[j].processAttempt
           /\ book'[j].processRetry = book[j].processRetry
           /\ book'[j].verificationRetry = book[j].verificationRetry + 1
  <2> DEFINE c == [book[j] EXCEPT !.status = "PendingVerification"]
             d == [c EXCEPT !.verificationAttempt = 0]
             e == [d EXCEPT !.verificationRetry = book[j].verificationRetry + 1]
  <2>1. /\ c.status = "PendingVerification" /\ c.processAttempt = book[j].processAttempt
        /\ c.processRetry = book[j].processRetry
        /\ DOMAIN c = {"status", "processAttempt", "verificationAttempt", "processRetry",
                       "verificationRetry"}
    BY <1>0, <1>2 DEF Contract!Entries
  <2>2. Contract!Reverify(j) => book[j].status # "Absent" /\ book'[j] = e
    BY <1>1 DEF Contract!Reverify
  <2> HIDE DEF c
  <2>3. /\ d.status = "PendingVerification" /\ d.processAttempt = book[j].processAttempt
        /\ d.processRetry = book[j].processRetry /\ DOMAIN d = DOMAIN c
    BY <2>1
  <2> HIDE DEF d
  <2>4. /\ e.status = d.status /\ e.processAttempt = d.processAttempt
        /\ e.processRetry = d.processRetry
        /\ e.verificationRetry = book[j].verificationRetry + 1
    BY <2>1, <2>3
  <2> HIDE DEF e
  <2> QED
    BY <2>2, <2>3, <2>4
<1> QED
  BY <1>4, <1>5, <1>6, <1>7, <1>8, <1>9, <1>10, <1>11, <1>12, <1>13

\* The moves of an entry that count nothing and take no job to a handler.
Concludes(j) ==
    \/ Keeps(j, book[j].status)
    \/ Keeps(j, "Failed") /\ book[j].status \notin {"Absent", "Completed", "Failed"}
    \/ \E s \in {"Completed", "VerificationTimeout"} :
           Keeps(j, s) /\ book[j].status \in Contract!Verifiable

(* Moves that count nothing, and entries that stay as they are. *)
LEMMA SettlingMoves ==
  ASSUME StoreTypeOK, NEW j \in Job
  PROVE  /\ book'[j] = book[j] => Concludes(j)
         /\ Contract!Abandon(j) \/ Contract!Poll(j) \/ Contract!GiveUp(j) \/ Contract!Accept(j)
                => Concludes(j)
<1>1. book \in [Job -> Contract!Entries]
  BY DEF StoreTypeOK
<1>2. ASSUME book'[j] = book[j] PROVE Concludes(j)
  BY <1>2 DEF Concludes, Keeps
<1>3. ASSUME Contract!Abandon(j) \/ Contract!Poll(j) \/ Contract!GiveUp(j) \/ Contract!Accept(j)
      PROVE  Concludes(j)
  BY <1>1, <1>3, MovesEntry DEF Concludes
<1> QED
  BY <1>2, <1>3

(* An operation counts nothing, or it is one of six. *)
LEMMA StepsSettle ==
  ASSUME StoreTypeOK, NEW t \in Task, NEW j \in Job, OtherStep(t, j) \/ RecordVerified(t, j)
  PROVE  \/ Concludes(j)
         \/ CreateJob(j) \/ TakeToProcess(t, j) \/ RecordProcessed(t, j)
         \/ RecordRejected(t, j) \/ Retry(j) \/ Reverify(j)
  BY SettlingMoves
  DEF OtherStep, TakeToVerify, Discard, HandleFailure, Dismiss, Intervene, RecordFailed,
      RecordExhausted, RecordPending, RecordTimeout, RecordVerified
===============================================================================
