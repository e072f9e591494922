------------------------------ MODULE BlockWork -------------------------------
(***************************************************************************)
(* The jobs that make one block ready to be settled, each by its handler:  *)
(* the SNOS run of jobs/snos_job, the proof of jobs/proving_job and the    *)
(* data submission of jobs/da_job, with the storage they hand files over   *)
(* in, the prover service (SHARP or Atlantic) and the registry of facts.   *)
(*                                                                         *)
(* Handlers and messages are those of JobStore.  One step is one call to   *)
(* the storage, to a node, to the prover or to the store.                  *)
(***************************************************************************)
EXTENDS JobStore

(***************************************************************************)
(* "call"  : a call errs; a proof may have been requested all the same     *)
(* "prove" : the prover gives a query up, or finds it invalid              *)
(* "lag"   : the fact is seen some time after the query is reported done   *)
(* "slow"  : a message reappears while its handler is at work              *)
(* "crash" : the process stops                                             *)
(***************************************************************************)
FaultNames == {"call", "prove", "lag", "slow", "crash"}

ASSUME BlockWorkAssumption ==
    /\ Job = {"snos", "proof", "da"}
    /\ Faults \subseteq FaultNames

VARIABLES
    fact,       \* snos_fact is noted in the SNOS job
    external,   \* external_id of the proof job: a query, or 0
    files,      \* what the storage holds for the block
    queries,    \* the status of every query that the prover was given
    registered, \* isValid of the fact registry
    task        \* what every task is doing

docVars == <<fact, external>>
outside == <<files, queries, registered>>
vars == <<storeVars, mishaps, docVars, outside, task>>

-------------------------------------------------------------------------------
Files == {"pie", "snosOutput", "programOutput", "blob"}

SnosSteps   == {"putPie", "putSnosOutput", "putProgramOutput"}
ProofSteps  == {"getPie", "submit"}
DaSteps     == {"putBlob"}
VerifySteps == {"verify", "isValid", "accept", "reject", "poll"}
EndSteps    == {"finish", "giveUp", "announce", "requeue"}

\* What a task is doing; `query` is the one it was given or has read.
Tasks == [pc : {"idle"} \cup SnosSteps \cup ProofSteps \cup DaSteps \cup VerifySteps
               \cup EndSteps,
          job : Job \cup {NoJob}, msg : {"none", "process", "verify"}, query : Nat]

Idle == [pc |-> "idle", job |-> NoJob, msg |-> "none", query |-> 0]

Query == DOMAIN queries

\* Types, and whatever names a query names one that was submitted.
TypeOK ==
    /\ StoreTypeOK
    /\ fact \in BOOLEAN
    /\ external \in {0} \cup Query
    /\ files \subseteq Files
    /\ queries \in Seq({"running", "done", "failed"})
    /\ registered \in BOOLEAN
    /\ task \in [Task -> Tasks]
    /\ \A t \in Task : task[t].query \in {0} \cup Query

Init ==
    /\ StoreInit
    /\ fact = FALSE /\ external = 0
    /\ files = {} /\ queries = <<>> /\ registered = FALSE
    /\ task = [t \in Task |-> Idle]

-------------------------------------------------------------------------------
(* The prover and the registry *)

\* A query is done; its fact can be seen at once, or a little later.
Prove(q) ==
    /\ queries[q] = "running"
    /\ queries' = [queries EXCEPT ![q] = "done"]
    /\ \/ registered' = TRUE /\ UNCHANGED mishaps
       \/ Mishap("lag") /\ UNCHANGED registered
    /\ UNCHANGED <<storeVars, docVars, files, task>>

Register ==
    /\ \E q \in Query : queries[q] = "done"
    /\ registered' = TRUE
    /\ UNCHANGED <<storeVars, mishaps, docVars, files, queries, task>>

ProofFails(q) ==
    /\ queries[q] = "running"
    /\ Mishap("prove")
    /\ queries' = [queries EXCEPT ![q] = "failed"]
    /\ UNCHANGED <<storeVars, docVars, files, registered, task>>

-------------------------------------------------------------------------------
(* Jobs and messages *)

\* The workers: a job follows the one before it; a SNOS job without a fact is left out.
Ready(j) ==
    CASE j = "snos"  -> TRUE
      [] j = "proof" -> book["snos"].status = "Completed" /\ fact
      [] j = "da"    -> book["proof"].status = "Completed"

Create(j) ==
    /\ Ready(j) /\ CreateJob(j)
    /\ UNCHANGED <<mishaps, docVars, outside, task>>

\* get_job_handler.
FirstStep(j) ==
    CASE j = "snos"  -> "putPie"
      [] j = "proof" -> "getPie"
      [] j = "da"    -> "putBlob"

Begin(t, j, pc, msg) ==
    /\ task[t].pc = "idle"
    /\ task' = [task EXCEPT ![t] = [pc |-> pc, job |-> j, msg |-> msg,
                                    query |-> IF msg = "verify" /\ j = "proof"
                                              THEN external ELSE 0]]
    /\ UNCHANGED <<mishaps, docVars, outside>>

Claim(t, j) == TakeToProcess(t, j) /\ Begin(t, j, FirstStep(j), "process")

\* SNOS and DA jobs are verified without a question.
Stamp(t, j) ==
    TakeToVerify(t, j) /\ Begin(t, j, IF j = "proof" THEN "verify" ELSE "accept", "verify")

Consume(j) == Discard(j) /\ UNCHANGED <<mishaps, docVars, outside, task>>

Operate(j) == Intervene(j) /\ UNCHANGED <<mishaps, docVars, outside, task>>

-------------------------------------------------------------------------------
(* process_job of the handlers *)

GoTo(t, pc) == task' = [task EXCEPT ![t].pc = pc]

End(t) == task' = [task EXCEPT ![t] = Idle]

\* put_data of one file.
PutFile(t, from, file, to) ==
    /\ task[t].pc = from
    /\ files' = files \cup {file}
    /\ GoTo(t, to)
    /\ UNCHANGED <<storeVars, mishaps, docVars, queries, registered>>

\* SNOS: prove_block and get_fact_info, and what `store` writes.
RunSnos(t) ==
    \/ PutFile(t, "putPie", "pie", "putSnosOutput")
    \/ PutFile(t, "putSnosOutput", "snosOutput", "putProgramOutput")
    \/ PutFile(t, "putProgramOutput", "programOutput", "finish")

\* The PIE is read back and submitted.
GetPie(t) ==
    /\ task[t].pc = "getPie"
    /\ GoTo(t, IF "pie" \in files THEN "submit" ELSE "giveUp")
    /\ UNCHANGED <<storeVars, mishaps, docVars, outside>>

\* Mutant of Submit: the request is sent again although the first one arrived.
SubmitAgain(t) ==
    /\ task[t].pc = "submit"
    /\ queries' = queries \o <<"running", "running">>
    /\ task' = [task EXCEPT ![t].pc = "finish", ![t].query = Len(queries) + 2]
    /\ UNCHANGED <<storeVars, mishaps, docVars, files, registered>>

Submit(t) ==
    /\ task[t].pc = "submit"
    /\ queries' = Append(queries, "running")
    /\ task' = [task EXCEPT ![t].pc = "finish", ![t].query = Len(queries) + 1]
    /\ UNCHANGED <<storeVars, mishaps, docVars, files, registered>>

\* The prover has the query, but add_job returns Err.
AnswerLost(t) ==
    /\ task[t].pc = "submit"
    /\ Mishap("call")
    /\ queries' = Append(queries, "running")
    /\ GoTo(t, "giveUp")
    /\ UNCHANGED <<storeVars, docVars, files, registered>>

\* DA: the state update becomes a blob; the Ethereum DA client publishes nothing.
SubmitData(t) == PutFile(t, "putBlob", "blob", "finish")

\* Mutant of Finish: the fact is not noted.
FinishForgetting(t) ==
    /\ task[t].pc = "finish" /\ RecordProcessed(t, task[t].job)
    /\ GoTo(t, "announce")
    /\ external' = IF task[t].job = "proof" THEN task[t].query ELSE external
    /\ UNCHANGED <<mishaps, fact, outside>>

\* process_job writes PendingVerification, the external id, and the fact of a SNOS job.
Finish(t) ==
    /\ task[t].pc = "finish" /\ RecordProcessed(t, task[t].job)
    /\ GoTo(t, "announce")
    /\ fact' = (fact \/ task[t].job = "snos")
    /\ external' = IF task[t].job = "proof" THEN task[t].query ELSE external
    /\ UNCHANGED <<mishaps, outside>>

GiveUp(t) ==
    /\ task[t].pc = "giveUp" /\ RecordFailed(t, task[t].job)
    /\ End(t)
    /\ UNCHANGED <<mishaps, docVars, outside>>

\* add_job_to_verification_queue, add_job_to_process_queue.
Send(t) ==
    /\ task[t].pc \in {"announce", "requeue"}
    /\ Put(task[t].job, IF task[t].pc = "announce" THEN "verify" ELSE "process")
    /\ End(t)
    /\ UNCHANGED <<book, current, mishaps, docVars, outside>>

\* update_job does not find the version of the copy.
Outdated(t) ==
    /\ task[t].pc \in {"finish", "giveUp", "accept", "reject", "poll"}
    /\ ~Fresh(t, task[t].job)
    /\ End(t)
    /\ UNCHANGED <<storeVars, mishaps, docVars, outside>>

-------------------------------------------------------------------------------
(* verify_job of the handlers *)

\* Mutant of AskProver: a query that is done is not checked against the registry.
TrustProver(t) ==
    /\ task[t].pc = "verify" /\ task[t].job = "proof" /\ task[t].query # 0
    /\ GoTo(t, CASE queries[task[t].query] = "running" -> "poll"
                 [] queries[task[t].query] = "failed"  -> "reject"
                 [] queries[task[t].query] = "done"    -> "accept")
    /\ UNCHANGED <<storeVars, mishaps, docVars, outside>>

\* get_task_status of the query of the job's external_id.
AskProver(t) ==
    /\ task[t].pc = "verify" /\ task[t].job = "proof" /\ task[t].query # 0
    /\ GoTo(t, CASE queries[task[t].query] = "running" -> "poll"
                 [] queries[task[t].query] = "failed"  -> "reject"
                 [] queries[task[t].query] = "done"    -> "isValid")
    /\ UNCHANGED <<storeVars, mishaps, docVars, outside>>

\* The job was never processed, and has no query to ask for.
NoQuery(t) ==
    /\ task[t].pc = "verify" /\ task[t].job = "proof" /\ task[t].query = 0
    /\ End(t)
    /\ UNCHANGED <<storeVars, mishaps, docVars, outside>>

IsValid(t) ==
    /\ task[t].pc = "isValid"
    /\ GoTo(t, IF registered THEN "accept" ELSE "reject")
    /\ UNCHANGED <<storeVars, mishaps, docVars, outside>>

Accept(t) ==
    /\ task[t].pc = "accept" /\ RecordVerified(t, task[t].job)
    /\ End(t)
    /\ UNCHANGED <<mishaps, docVars, outside>>

\* Rejected: processed once more while there are attempts, else Failed.
Reject(t) ==
    /\ task[t].pc = "reject"
    /\ \/ RecordRejected(t, task[t].job)  /\ GoTo(t, "requeue")
       \/ RecordExhausted(t, task[t].job) /\ End(t)
    /\ UNCHANGED <<mishaps, docVars, outside>>

\* Pending: asked again, while there are attempts.
Poll(t) ==
    /\ task[t].pc = "poll"
    /\ \/ RecordPending(t, task[t].job) /\ GoTo(t, "announce")
       \/ RecordTimeout(t, task[t].job) /\ End(t)
    /\ UNCHANGED <<mishaps, docVars, outside>>

-------------------------------------------------------------------------------
(* Faults *)

\* Mutant of ProcessCallFails: the error is swallowed.
ProcessCallIgnored(t) ==
    /\ task[t].pc \in SnosSteps \cup ProofSteps \cup DaSteps
    /\ Mishap("call")
    /\ GoTo(t, "finish")
    /\ UNCHANGED <<storeVars, docVars, outside>>

\* A call of process_job errs, or the block is still pending at the node.
ProcessCallFails(t) ==
    /\ task[t].pc \in SnosSteps \cup ProofSteps \cup DaSteps
    /\ Mishap("call")
    /\ GoTo(t, "giveUp")
    /\ UNCHANGED <<storeVars, docVars, outside>>

\* A call of verify_job or one to the store errs; the message is acknowledged.
HandlerErrs(t) ==
    /\ task[t].pc \in VerifySteps \cup EndSteps
    /\ Mishap("call")
    /\ End(t)
    /\ UNCHANGED <<storeVars, docVars, outside>>

Expire(t) ==
    /\ Mishap("slow")
    /\ Reappear(task[t].job, task[t].msg)
    /\ task' = [task EXCEPT ![t].msg = "none"]
    /\ UNCHANGED <<book, current, docVars, outside>>

\* The process of task t stops, at any of its steps.
Crash(t) ==
    /\ task[t].pc # "idle"
    /\ Mishap("crash")
    /\ \/ Reappear(task[t].job, task[t].msg)
       \/ task[t].msg = "none" /\ UNCHANGED mail
    /\ End(t)
    /\ UNCHANGED <<book, current, docVars, outside>>

-------------------------------------------------------------------------------
TaskStep(t) ==
    \/ RunSnos(t) \/ GetPie(t) \/ Submit(t) \/ SubmitData(t)
    \/ Finish(t) \/ GiveUp(t) \/ Send(t) \/ Outdated(t)
    \/ AskProver(t) \/ NoQuery(t) \/ IsValid(t)
    \/ Accept(t) \/ Reject(t) \/ Poll(t)

Fault(t) == AnswerLost(t) \/ ProcessCallFails(t) \/ HandlerErrs(t) \/ Expire(t) \/ Crash(t)

Next ==
    \/ \E t \in Task : TaskStep(t) \/ Fault(t)
    \/ \E t \in Task, j \in Job : Claim(t, j) \/ Stamp(t, j)
    \/ \E j \in Job : Create(j) \/ Consume(j) \/ Operate(j)
    \/ \E q \in Query : Prove(q) \/ ProofFails(q)
    \/ Register

Spec == Init /\ [][Next]_vars

\* Tasks run on, consumers receive, workers are triggered and the prover proves.
Fairness ==
    /\ \A t \in Task : WF_vars(TaskStep(t))
    /\ \A j \in Job : /\ WF_vars(\E t \in Task : Claim(t, j) \/ Stamp(t, j))
                      /\ WF_vars(Consume(j)) /\ WF_vars(Create(j))
    /\ WF_vars(\E q \in Query : Prove(q)) /\ WF_vars(Register)

FairSpec == Spec /\ Fairness

-------------------------------------------------------------------------------
(* Properties *)

\* The files of a stage are there before the next stage can ask for them: a proof job
\* exists only when the SNOS job has stored all its output, whichever of its attempts
\* failed in the middle of `store`, and a data submission job that no operator sent to
\* verification is completed only with its blob, as the state transition expects.
FilesHandedOver ==
    /\ book["proof"].status # "Absent" => {"pie", "snosOutput", "programOutput"} \subseteq files
    /\ book["da"].status = "Completed" /\ book["da"].verificationRetry = 0 => files = Files

\* A proof job is completed on the word of a query of its own that is done, and only
\* when the fact of the block can be seen on chain.
ProvenOnChain ==
    book["proof"].status = "Completed" =>
        external # 0 /\ queries[external] = "done" /\ registered

\* A block is sent to the prover once per attempt of its job at most, whatever answers
\* are lost and however often messages come: two attempts, two more for every /retry,
\* one more for every /verify.
SubmissionsBounded ==
    LET proof == book["proof"] IN
    Len(queries) <= MaxProcessAttempts["proof"] * (1 + proof.processRetry)
                    + proof.verificationRetry

\* Where no operator stepped in, the prover never works on the same block twice at once.
NoDoubleProving ==
    ~SteppedIn("proof") =>
        Cardinality({q \in Query : queries[q] = "running"}) <= 1

\* Without faults and without operators the block becomes ready to be settled, or the
\* prover has taken longer than all polls together.
BecomesReady ==
    <>(\/ mishaps > 0 \/ \E j \in Job : SteppedIn(j)
       \/ book["proof"].status = "VerificationTimeout"
       \/ \A j \in Job : book[j].status = "Completed")
===============================================================================
