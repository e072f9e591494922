------------------------------- MODULE Pipeline -------------------------------
(***************************************************************************)
(* The workers of orchestrator/src/workers, which decide which jobs exist: *)
(* a cron message starts a run of a worker, the run reads the collection   *)
(* in one or more queries and then creates jobs one at a time.  Runs of    *)
(* the same and of different workers interleave, and the jobs move on      *)
(* meanwhile as JobOutcome says.                                           *)
(*                                                                         *)
(* One step is one query, or one of the two calls of create_job: it        *)
(* inserts the job and then sends the message that the job is processed    *)
(* by.  A job that no message names stays where it is.  A job is a pair of *)
(* its type and its internal id, a block number.                           *)
(***************************************************************************)
EXTENDS Naturals, FiniteSets, FiniteSetsExt

CONSTANTS
    LastBlock,                  \* bound: the last block of the chain
    MinBlock,                   \* min_block_to_process, or 0
    MaxBlock,                   \* max_block_to_process, or LastBlock
    Worker,                     \* tasks that run workers
    Duty,                       \* the worker that each task runs
    SettleLimit,                \* most blocks of one state transition job (10)
    Outcomes,                   \* what befalls jobs, see JobOutcome; "request": /process
    Faults                      \* subset of {"call", "stop", "loss"}

Block == 0 .. LastBlock

JobTypes == {"SnosRun", "ProofCreation", "DataSubmission", "StateTransition"}

Duties == {"Snos", "Proving", "DataSubmission", "UpdateState"}

ASSUME PipelineAssumption ==
    /\ LastBlock \in Nat
    /\ MinBlock \in Block /\ MaxBlock \in Block
    /\ Duty \in [Worker -> Duties]
    /\ SettleLimit \in Nat \ {0}
    /\ Outcomes \subseteq {"reject", "halt", "retry", "verify", "request"}
    /\ Faults \subseteq {"call", "stop", "loss"}

VARIABLES
    head,       \* latest block of the Madara chain
    standing,   \* the collection, as far as workers can tell
    settles,    \* blocks_to_settle of every state transition job
    tended,     \* jobs that a message names or a handler works on
    worker      \* what every task has read and has still to create

vars == <<head, standing, settles, tended, worker>>

Jobs == INSTANCE JobOutcome WITH Job <- JobTypes \X Block

NoBlock == LastBlock + 1

\* last is the number a run has read, or the block whose job it has just inserted.
Runs == [pc : {"idle", "head", "latest", "query", "create", "enqueue"},
         last : Block \cup {NoBlock}, todo : SUBSET Block]

Idle == [pc |-> "idle", last |-> NoBlock, todo |-> {}]

\* Types, and no job of a block outside the configured range exists.
TypeOK ==
    /\ head \in Block
    /\ standing \in [JobTypes \X Block -> Jobs!Standings]
    /\ \A type \in JobTypes, b \in Block \ (MinBlock .. MaxBlock) :
           standing[<<type, b>>] = "Absent"
    /\ settles \in [Block -> SUBSET Block]
    /\ tended \subseteq JobTypes \X Block
    /\ worker \in [Worker -> Runs]

Init ==
    /\ head = 0
    /\ Jobs!Init
    /\ settles = [b \in Block |-> {}]
    /\ tended = {}
    /\ worker = [w \in Worker |-> Idle]

-------------------------------------------------------------------------------
(* Queries *)

Existing(type) == {b \in Block : standing[<<type, b>>] # "Absent"}

CompletedJobs(type) == {b \in Block : standing[<<type, b>>] = "Completed"}

\* get_jobs_without_successor matches the two jobs by their internal id.
WithoutSuccessor(type, next) == CompletedJobs(type) \ Existing(next)

\* What get_jobs_without_successor returns: it leaves out what it cannot read.
Found(jobs) == IF "call" \in Faults THEN SUBSET jobs ELSE {jobs}

\* is_worker_enabled: there is no job that is Failed or VerificationTimeout.
Enabled == \A j \in JobTypes \X Block : standing[j] # "Halted"

Proceed(w, pc, last, todo) ==
    worker' = [worker EXCEPT ![w] = IF pc = "create" /\ todo = {} THEN Idle
                                    ELSE [pc |-> pc, last |-> last, todo |-> todo]]

Return(w) == worker' = [worker EXCEPT ![w] = Idle]

-------------------------------------------------------------------------------
(* Runs of workers *)

FirstQuery == [d \in Duties |-> CASE d = "Snos"        -> "head"
                                  [] d = "UpdateState" -> "latest"
                                  [] d \notin {"Snos", "UpdateState"} -> "query"]

\* A trigger message is received and the worker is enabled.
StartRun(w) ==
    /\ worker[w].pc = "idle"
    /\ Enabled
    /\ Proceed(w, FirstQuery[Duty[w]], NoBlock, {})
    /\ UNCHANGED <<head, standing, settles, tended>>

\* Mutant of ReadHead: max_block_to_process is forgotten.
ReadHeadOnly(w) ==
    /\ worker[w].pc = "head"
    /\ Proceed(w, "latest", head, {})
    /\ UNCHANGED <<head, standing, settles, tended>>

\* SnosWorker asks the chain for its latest block.
ReadHead(w) ==
    /\ worker[w].pc = "head"
    /\ Proceed(w, "latest", IF head < MaxBlock THEN head ELSE MaxBlock, {})
    /\ UNCHANGED <<head, standing, settles, tended>>

\* The id of the latest SNOS job, or 0.
LatestSnos == IF Existing("SnosRun") = {} THEN 0 ELSE Max(Existing("SnosRun"))

\* SnosWorker: one job for every block from the latest SNOS job on.
PlanSnos(w) ==
    /\ Duty[w] = "Snos" /\ worker[w].pc = "latest"
    /\ Proceed(w, "create", NoBlock,
               {b \in Block : MinBlock <= b /\ LatestSnos <= b /\ b <= worker[w].last})
    /\ UNCHANGED <<head, standing, settles, tended>>

\* ProvingWorker and DataSubmissionWorker: the completed jobs of the stage before.
Source == [d \in {"Proving", "DataSubmission"} |->
              IF d = "Proving" THEN "SnosRun" ELSE "ProofCreation"]

\* The type of the jobs that a worker creates.
Target == [d \in Duties |-> CASE d = "Snos"           -> "SnosRun"
                              [] d = "Proving"        -> "ProofCreation"
                              [] d = "DataSubmission" -> "DataSubmission"
                              [] d = "UpdateState"    -> "StateTransition"]

PlanSuccessors(w) ==
    /\ Duty[w] \in DOMAIN Source /\ worker[w].pc = "query"
    /\ \E found \in Found(WithoutSuccessor(Source[Duty[w]], Target[Duty[w]])) :
           Proceed(w, "create", NoBlock, found)
    /\ UNCHANGED <<head, standing, settles, tended>>

\* Mutant of NextOf: the jobs of a run are created in any order.
NextOfAny(w, b) ==
    /\ worker[w].pc = "create" /\ Duty[w] # "UpdateState"
    /\ b \in worker[w].todo

\* The block whose job is created next: in order for SNOS, else as the query
\* returned them.
NextOf(w, b) ==
    /\ worker[w].pc = "create" /\ Duty[w] # "UpdateState"
    /\ b \in worker[w].todo
    /\ Duty[w] = "Snos" => b = Min(worker[w].todo)

\* Mutant of CreateJob: the job is stored whether it is there or not.
CreateJobAnyway(w, b) ==
    /\ NextOf(w, b)
    /\ standing' = [standing EXCEPT ![<<Target[Duty[w]], b>>] = "Open"]
    /\ Proceed(w, "enqueue", b, worker[w].todo \ {b})
    /\ UNCHANGED <<head, settles, tended>>

\* create_job inserts the job; no message names it yet.
CreateJob(w, b) ==
    /\ NextOf(w, b)
    /\ Jobs!Open(<<Target[Duty[w]], b>>)
    /\ Proceed(w, "enqueue", b, worker[w].todo \ {b})
    /\ UNCHANGED <<head, settles, tended>>

\* create_job finds the job, or fails before it inserts it, or the SNOS job has no
\* fact since it was never processed (/verify): the run goes on.
SkipJob(w, b) ==
    /\ NextOf(w, b)
    /\ \/ standing[<<Target[Duty[w]], b>>] # "Absent"
       \/ "call" \in Faults
       \/ Duty[w] = "Proving" /\ "verify" \in Outcomes
    /\ Proceed(w, "create", NoBlock, worker[w].todo \ {b})
    /\ UNCHANGED <<head, standing, settles, tended>>

\* create_job sends the message of the job that it has inserted.
Enqueue(w) ==
    /\ worker[w].pc = "enqueue"
    /\ tended' = tended \cup {<<Target[Duty[w]], worker[w].last>>}
    /\ Proceed(w, "create", NoBlock, worker[w].todo)
    /\ UNCHANGED <<head, standing, settles>>

\* The message cannot be sent: the run goes on, and leaves a job without a message.
EnqueueFails(w) ==
    /\ "call" \in Faults
    /\ worker[w].pc = "enqueue" /\ Duty[w] # "UpdateState"
    /\ Proceed(w, "create", NoBlock, worker[w].todo)
    /\ UNCHANGED <<head, standing, settles, tended>>

-------------------------------------------------------------------------------
(* UpdateStateWorker *)

Settlements == Existing("StateTransition")

\* Mutants of LatestSettlementDone: an unfinished latest job is no reason to wait.
LatestSettlementExists == Settlements # {}

LatestSettlementDone ==
    Settlements # {} /\ standing[<<"StateTransition", Max(Settlements)>>] = "Completed"

\* Mutant of LastSettled: the first block of the latest job.
LatestSettlementId == Max(Settlements)

\* The last of the blocks of the latest state transition job.
LastSettled == Max(settles[Max(Settlements)])

ReadLatestSettlement(w) ==
    /\ Duty[w] = "UpdateState" /\ worker[w].pc = "latest"
    /\ \/ Settlements = {} /\ Proceed(w, "query", NoBlock, {})
       \/ LatestSettlementDone /\ Proceed(w, "query", LastSettled, {})
       \/ Settlements # {} /\ ~LatestSettlementDone /\ Return(w)
    /\ UNCHANGED <<head, standing, settles, tended>>

\* The completed data submissions that a state transition may settle.
Candidates(last) ==
    IF last = NoBlock THEN Found(WithoutSuccessor("DataSubmission", "StateTransition"))
    ELSE {{b \in CompletedJobs("DataSubmission") : last < b}}

FirstToSettle(last) == IF last = NoBlock THEN MinBlock ELSE last + 1

\* find_successive_blocks_in_vector, cut to the limit.
Successive(S) ==
    {b \in S : /\ Min(S) .. b \subseteq S
               /\ b < Min(S) + SettleLimit}

\* The block right after the last settled one is there.
Continuous(last, S) == S # {} /\ Min(S) = FirstToSettle(last)

\* The jobs that the paths of the block's files are taken from.
PathsExist(S) == S \subseteq Existing("SnosRun") \cap Existing("DataSubmission")

PlanSettlement(w) ==
    /\ Duty[w] = "UpdateState" /\ worker[w].pc = "query"
    /\ \E S \in Candidates(worker[w].last) :
           IF Continuous(worker[w].last, S) /\ PathsExist(Successive(S))
           THEN Proceed(w, "create", NoBlock, Successive(S))
           ELSE Return(w)
    /\ UNCHANGED <<head, standing, settles, tended>>

\* The job's id is its first block.
CreateSettlement(w) ==
    LET blocks == worker[w].todo IN
    /\ Duty[w] = "UpdateState" /\ worker[w].pc = "create"
    /\ Jobs!Open(<<"StateTransition", Min(blocks)>>)
    /\ settles' = [settles EXCEPT ![Min(blocks)] = blocks]
    /\ Proceed(w, "enqueue", Min(blocks), {})
    /\ UNCHANGED <<head, tended>>

\* The job exists already.
SettlementExists(w) ==
    /\ Duty[w] = "UpdateState" /\ worker[w].pc = "create"
    /\ standing[<<"StateTransition", Min(worker[w].todo)>>] # "Absent"
    /\ Return(w)
    /\ UNCHANGED <<head, standing, settles, tended>>

-------------------------------------------------------------------------------
(* The surroundings *)

\* The process stops, or a query or the state transition's create_job fails: the
\* run ends where it is.
Break(w) ==
    /\ worker[w].pc # "idle"
    /\ \/ "stop" \in Faults
       \/ /\ "call" \in Faults
          /\ worker[w].pc \in {"create", "enqueue"} => Duty[w] = "UpdateState"
    /\ Return(w)
    /\ UNCHANGED <<head, standing, settles, tended>>

NewBlock ==
    /\ head < LastBlock
    /\ head' = head + 1
    /\ UNCHANGED <<standing, settles, tended, worker>>

\* A state transition that begins with block 0 never passes its validation: the last
\* settled block, a natural number, would have to be the one before.
NeverSettled == IF "verify" \in Outcomes THEN {} ELSE {<<"StateTransition", 0>>}

\* A job moves on by its messages and handlers.
JobStep(j) ==
    /\ j \in tended
    /\ Jobs!Work(j)
    /\ standing'[j] = "Completed" => j \notin NeverSettled
    /\ UNCHANGED <<head, settles, tended, worker>>

\* /retry and /verify change the job and send a message.
OperatorStep(j) ==
    /\ Jobs!Operate(j)
    /\ tended' = tended \cup {j}
    /\ UNCHANGED <<head, settles, worker>>

\* /process sends a message for any job that is there.
Request(j) ==
    /\ "request" \in Outcomes
    /\ standing[j] # "Absent"
    /\ tended' = tended \cup {j}
    /\ UNCHANGED <<head, standing, settles, worker>>

\* A handler stops or errs when the last message of its job is gone.
Lose(j) ==
    /\ "loss" \in Faults
    /\ j \in tended /\ standing[j] # "Completed"
    /\ tended' = tended \ {j}
    /\ UNCHANGED <<head, standing, settles, worker>>

WorkerStep(w) ==
    \/ StartRun(w) \/ ReadHead(w) \/ PlanSnos(w) \/ PlanSuccessors(w)
    \/ \E b \in Block : CreateJob(w, b) \/ SkipJob(w, b)
    \/ Enqueue(w) \/ EnqueueFails(w)
    \/ ReadLatestSettlement(w) \/ PlanSettlement(w)
    \/ CreateSettlement(w) \/ SettlementExists(w)

Next ==
    \/ \E w \in Worker : WorkerStep(w) \/ Break(w)
    \/ NewBlock
    \/ \E j \in JobTypes \X Block :
           JobStep(j) \/ OperatorStep(j) \/ Request(j) \/ Lose(j)

Spec == Init /\ [][Next]_vars

\* Cron messages keep coming, so every worker runs again and again.  A job with a
\* message or a handler comes to its end, as JobLifecycle shows where no call fails
\* and no process stops (Settles); where one does, the job is lost (Lose).
Fairness ==
    /\ \A w \in Worker : WF_vars(WorkerStep(w))
    /\ \A j \in JobTypes \X Block : WF_vars(JobStep(j))

FairSpec == Spec /\ Fairness

-------------------------------------------------------------------------------
(* Properties *)

\* However runs of the workers interleave and whatever they read before it changed,
\* a job of a stage exists only for blocks whose stage before is completed.
StageOrder ==
    \A b \in Block :
        /\ standing[<<"ProofCreation", b>>] # "Absent" =>
               standing[<<"SnosRun", b>>] = "Completed"
        /\ standing[<<"DataSubmission", b>>] # "Absent" =>
               standing[<<"ProofCreation", b>>] = "Completed"
        /\ \A s \in Settlements : b \in settles[s] =>
               standing[<<"DataSubmission", b>>] = "Completed"

\* The state transition jobs tile the chain from the first block on: each starts
\* where the one before ends, so no block is settled twice and none is left out,
\* also when several runs of the worker decide at the same time and jobs are sent
\* back by operators.
SettlementsTile ==
    /\ \A s \in Settlements :
           /\ s = Min(settles[s])
           /\ settles[s] = s .. Max(settles[s])
           /\ Cardinality(settles[s]) <= SettleLimit
           /\ s = MinBlock \/ \E p \in Settlements : Max(settles[p]) + 1 = s
    /\ \A s, p \in Settlements : s # p => settles[s] \cap settles[p] = {}

\* "Parallel jobs can cause nonce issues" (update_state.rs:28): a state transition
\* job exists only when all those before it are completed.
SettledInOrder ==
    \A s, p \in Settlements : p < s => standing[<<"StateTransition", p>>] = "Completed"

\* The SNOS worker leaves no block out: below an SNOS job every block has one.
NoSnosGap ==
    \A b \in Existing("SnosRun") : MinBlock .. b \subseteq Existing("SnosRun")

\* From some time on no run is cut short (a break that has the effect of a step of
\* the run cuts nothing short), no call fails, and no job is lost.
FaultsEnd ==
    <>[][/\ \A w \in Worker :
              /\ Break(w) => WorkerStep(w)
              /\ ~EnqueueFails(w)
              /\ \A b \in Block : SkipJob(w, b) => standing[<<Target[Duty[w]], b>>] # "Absent"
         /\ \A j \in JobTypes \X Block : ~Lose(j)]_vars

\* The jobs that nobody takes further.
Untended == {j \in JobTypes \X Block : standing[j] \notin {"Absent", "Completed"}} \ tended

\* Operators send a message for every job that was left without.
OperatorsHelp == []<>(Untended = {})

===============================================================================
