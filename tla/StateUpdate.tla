------------------------------ MODULE StateUpdate ------------------------------
(***************************************************************************)
(* State transition jobs: the handler of jobs/state_update_job, the        *)
(* settlement clients it calls, and the settlement layer, on which the     *)
(* core contract takes the blocks of the chain one after the other.        *)
(*                                                                         *)
(* A job's entry moves as JobContract says.  A handler works on a copy of  *)
(* the job for up to half an hour per block, so its messages reappear,     *)
(* the failure queue may take the job from it, and operators may start     *)
(* another handler beside it; it records its result only while its copy    *)
(* has the version in the store.  One step is one call to the settlement   *)
(* layer or the store; reads whose results are not used, fees and KZG      *)
(* proofs belong to the step they precede.  A core contract that has no    *)
(* block yet is at -1, which no client can convert to a u64.               *)
(***************************************************************************)
EXTENDS JobStore, Integers

CONSTANTS
    Blocks,                     \* blocks_to_settle of each job
    Layers                      \* settlement layers considered

(***************************************************************************)
(* "call"   : a call errs; a transaction may have been sent all the same   *)
(* "output" : the SNOS output does not ask for blobs                       *)
(* "slow"   : a message reappears while its handler is at work             *)
(* "crash"  : the process stops                                            *)
(* "late"   : a transaction is not mined within the time a client waits    *)
(***************************************************************************)
FaultNames == {"call", "output", "slow", "crash", "late"}

Last(s) == s[Len(s)]

ASSUME StateUpdateAssumption ==
    /\ Job # {}
    /\ Blocks \in [Job -> Seq(Nat)]
    /\ \A j \in Job : /\ Blocks[j] # <<>>
                      /\ \A i \in DOMAIN Blocks[j] : Blocks[j][i] = Blocks[j][1] + i - 1
    /\ \A j1, j2 \in Job : j1 # j2 => Last(Blocks[j1]) < Blocks[j2][1]
                                      \/ Last(Blocks[j2]) < Blocks[j1][1]
    /\ Layers \subseteq {"Ethereum", "Starknet"}
    /\ Faults \subseteq FaultNames

VARIABLES
    meta,       \* tx_hashes and last_failed_block_no of every stored job
    task,       \* what every task is doing
    layer,      \* the settlement layer
    settled,    \* state_block_number of the core contract; -1 if it has no block
    txs,        \* the wallet's transactions; a hash is an index
    late        \* a client gave up waiting for a transaction

chainVars == <<settled, txs>>
vars == <<storeVars, mishaps, meta, task, layer, chainVars, late>>

-------------------------------------------------------------------------------
Block == UNION {{Blocks[j][i] : i \in DOMAIN Blocks[j]} : j \in Job}

TxStatuses == {"pool", "mined", "reverted", "dropped"}

Transactions == [block : Block, nonce : Nat, status : TxStatuses]

Metadata == [hashes : Seq(Nat), failed : Block \cup {0}]    \* 0: no last failed block

ProcessSteps == {"validate", "fetch", "nonce", "submit", "await", "finish", "giveUp"}
VerifySteps  == {"check", "wait", "recheck", "last", "accept", "reject"}
SendSteps    == {"announce", "requeue"}

\* What a task is doing: `i` indexes the block or the hash it is at, `sent` are
\* the hashes of this attempt, `meta` is its copy of the job's metadata.
Tasks == [pc : {"idle"} \cup ProcessSteps \cup VerifySteps \cup SendSteps,
          job : Job \cup {NoJob}, msg : {"none", "process", "verify"},
          i : Nat, nonce : Nat, tx : Nat, sent : Seq(Nat), meta : Metadata]

NoMetadata == [hashes |-> <<>>, failed |-> 0]

Idle == [pc |-> "idle", job |-> NoJob, msg |-> "none", i |-> 0, nonce |-> 0, tx |-> 0,
         sent |-> <<>>, meta |-> NoMetadata]

\* Types, and a handler's index is one of its blocks, or of its hashes and blocks.
TypeOK ==
    /\ StoreTypeOK
    /\ meta \in [Job -> Metadata]
    /\ task \in [Task -> Tasks]
    /\ layer \in Layers
    /\ settled \in Nat \cup {-1}
    /\ txs \in Seq(Transactions)
    /\ late \in BOOLEAN
    /\ \A t \in Task :
           /\ task[t].pc \in {"fetch", "nonce", "submit", "await"} =>
                  task[t].i \in DOMAIN Blocks[task[t].job]
           /\ task[t].pc \in {"wait", "recheck"} =>
                  task[t].i \in DOMAIN Blocks[task[t].job] \cap DOMAIN task[t].meta.hashes

FirstBlock == CHOOSE b \in Block : \A c \in Block : b <= c

Init ==
    /\ StoreInit
    /\ meta = [j \in Job |-> NoMetadata]
    /\ task = [t \in Task |-> Idle]
    /\ layer \in Layers
    /\ settled = FirstBlock - 1
    /\ txs = <<>>
    /\ late = FALSE

-------------------------------------------------------------------------------
(* The settlement layer and its wallet *)

Hashes == DOMAIN txs

\* get_transaction_count of the latest block: what is in the pool does not count.
Nonce == Cardinality({h \in Hashes : txs[h].status \in {"mined", "reverted"}})

Rivals(nonce) == {h \in Hashes : txs[h].status = "pool" /\ txs[h].nonce = nonce}

\* A transaction is sent; one with the same nonce that waits in the pool is replaced.
Sent(block, nonce) ==
    Append([h \in Hashes |-> IF h \in Rivals(nonce) THEN [txs[h] EXCEPT !.status = "dropped"]
                                                    ELSE txs[h]],
           [block |-> block, nonce |-> nonce, status |-> "pool"])

\* The core contract takes the block right after the last one; else it reverts.
Mine(h) ==
    /\ txs[h].status = "pool"
    /\ txs[h].nonce = Nonce
    /\ LET next == txs[h].block = settled + 1 IN
       /\ txs' = [txs EXCEPT ![h].status = IF next THEN "mined" ELSE "reverted"]
       /\ settled' = IF next THEN settled + 1 ELSE settled
    /\ UNCHANGED <<storeVars, mishaps, meta, task, layer, late>>

-------------------------------------------------------------------------------
(* How a handler goes on, writes and returns *)

GoTo(t, pc) == task' = [task EXCEPT ![t].pc = pc]

End(t) == task' = [task EXCEPT ![t] = Idle]

\* process_job fails outside update_state_for_block, or panics: the copy is as it was.
Unmarked(t) == GoTo(t, "giveUp")

\* update_state_for_block returned Err: block and hashes are noted in the copy.
Marked(t) ==
    task' = [task EXCEPT ![t] =
        [task[t] EXCEPT !.pc = "giveUp", !.nonce = 0, !.tx = 0,
                        !.meta = [hashes |-> task[t].sent,
                                  failed |-> Blocks[task[t].job][task[t].i]]]]

\* Mutant of Following: off by one.
FollowingOrEqual(j, i) == IF i <= Len(Blocks[j]) + 1 THEN "fetch" ELSE "finish"

\* The next block of the attempt, or the end of process_job.
Following(j, i) == IF i <= Len(Blocks[j]) THEN "fetch" ELSE "finish"

-------------------------------------------------------------------------------
(* Jobs and messages *)

Others == <<mishaps, meta, layer, chainVars, late>>

\* The worker creates a job when those of all earlier blocks are completed.
Create(j) ==
    /\ \A i \in Job : Last(Blocks[i]) < Blocks[j][1] => book[i].status = "Completed"
    /\ CreateJob(j)
    /\ UNCHANGED <<Others, task>>

Begin(t, j, pc, msg) ==
    /\ task[t].pc = "idle"
    /\ task' = [task EXCEPT ![t] = [Idle EXCEPT !.pc = pc, !.job = j, !.msg = msg,
                                                !.i = 1, !.meta = meta[j]]]
    /\ UNCHANGED Others

Claim(t, j) == TakeToProcess(t, j) /\ Begin(t, j, "validate", "process")

Stamp(t, j) == TakeToVerify(t, j) /\ Begin(t, j, "check", "verify")

Consume(j) == Discard(j) /\ UNCHANGED <<Others, task>>

Operate(j) == Intervene(j) /\ UNCHANGED <<Others, task>>

-------------------------------------------------------------------------------
(* process_job of the handler *)

\* Mutant of FirstToSend: the block that failed is left out as well.
AfterLastFailed(j, data) ==
    IF \E i \in DOMAIN Blocks[j] : Blocks[j][i] > data.failed
    THEN CHOOSE i \in DOMAIN Blocks[j] :
             /\ Blocks[j][i] > data.failed
             /\ \A k \in DOMAIN Blocks[j] : Blocks[j][k] > data.failed => i <= k
    ELSE Len(Blocks[j]) + 1

\* Where the attempt starts: the blocks before last_failed_block_no are left out.
FirstToSend(j, data) ==
    IF \E i \in DOMAIN Blocks[j] : Blocks[j][i] >= data.failed
    THEN CHOOSE i \in DOMAIN Blocks[j] :
             /\ Blocks[j][i] >= data.failed
             /\ \A k \in DOMAIN Blocks[j] : Blocks[j][k] >= data.failed => i <= k
    ELSE Len(Blocks[j]) + 1

\* get_last_settled_block gives an error while the contract has no block.
NoneSettled == settled = -1

NoGap(j) == ~NoneSettled /\ settled + 1 = Blocks[j][1]

\* validate_block_numbers, the filter, and get_nonce, whose result the Ethereum
\* client does not use.
Validate(t) ==
    LET first == FirstToSend(task[t].job, task[t].meta) IN
    /\ task[t].pc = "validate"
    /\ IF NoGap(task[t].job)
       THEN task' = [task EXCEPT ![t].pc = Following(task[t].job, first), ![t].i = first]
       ELSE Unmarked(t)
    /\ UNCHANGED <<storeVars, Others>>

\* The SNOS output, the program output and the blob of the block are read.
Fetch(t) ==
    /\ task[t].pc = "fetch"
    /\ GoTo(t, "nonce")
    /\ UNCHANGED <<storeVars, Others>>

\* Calldata, or the Starknet client's update_state_with_blobs: unimplemented!().
Unimplemented(t) ==
    /\ task[t].pc = "nonce"
    /\ Unmarked(t)
    /\ IF layer = "Starknet" THEN UNCHANGED mishaps ELSE Mishap("output")
    /\ UNCHANGED <<storeVars, meta, layer, chainVars, late>>

\* use_kzg_da is neither 0 nor 1.
UnknownDa(t) ==
    /\ task[t].pc = "nonce"
    /\ Marked(t)
    /\ Mishap("output")
    /\ UNCHANGED <<storeVars, meta, layer, chainVars, late>>

\* The Ethereum client builds the transaction: fees, proof and its own nonce.
ReadNonce(t) ==
    /\ task[t].pc = "nonce" /\ layer = "Ethereum"
    /\ task' = [task EXCEPT ![t].pc = "submit", ![t].nonce = Nonce]
    /\ UNCHANGED <<storeVars, Others>>

BlockAt(t) == Blocks[task[t].job][task[t].i]

Submit(t) ==
    /\ task[t].pc = "submit"
    /\ task[t].nonce = Nonce
    /\ txs' = Sent(BlockAt(t), task[t].nonce)
    /\ task' = [task EXCEPT ![t].pc = "await", ![t].tx = Len(txs) + 1]
    /\ UNCHANGED <<storeVars, mishaps, meta, layer, settled, late>>

\* The node refuses it: its nonce is used, or it does not outbid the one in the pool.
Refused(t) ==
    /\ task[t].pc = "submit"
    /\ task[t].nonce # Nonce \/ Rivals(task[t].nonce) # {}
    /\ Marked(t)
    /\ UNCHANGED <<storeVars, Others>>

\* The transaction is sent, but the answer is an error.
AnswerLost(t) ==
    /\ task[t].pc = "submit"
    /\ task[t].nonce = Nonce
    /\ Mishap("call")
    /\ txs' = Sent(BlockAt(t), task[t].nonce)
    /\ Marked(t)
    /\ UNCHANGED <<storeVars, meta, layer, settled, late>>

\* Mutant of Awaited: the hashes of the attempt before are kept as well.
AwaitedKeeping(t) ==
    task' = [task EXCEPT ![t].pc = Following(task[t].job, task[t].i + 1),
                         ![t].i = @ + 1, ![t].nonce = 0, ![t].tx = 0,
                         ![t].sent = Append(@, task[t].tx),
                         ![t].meta.hashes = Append(@, task[t].tx)]

\* wait_for_tx_finality comes back; what it found does not matter.
Awaited(t) ==
    LET sent == Append(task[t].sent, task[t].tx) IN
    task' = [task EXCEPT ![t] =
        [task[t] EXCEPT !.pc = Following(task[t].job, task[t].i + 1), !.i = @ + 1,
                        !.nonce = 0, !.tx = 0, !.sent = sent, !.meta.hashes = sent]]

\* Mutant of Await: the transaction is not waited for.
AwaitNothing(t) ==
    /\ task[t].pc = "await"
    /\ Awaited(t)
    /\ UNCHANGED <<storeVars, Others>>

\* It was mined, or another one has taken its place and will never be found.
Await(t) ==
    /\ task[t].pc = "await"
    /\ txs[task[t].tx].status # "pool"
    /\ Awaited(t)
    /\ UNCHANGED <<storeVars, Others>>

\* 30 polls find nothing; the client answers Ok(None).
AwaitedInVain(t) ==
    /\ task[t].pc = "await"
    /\ txs[task[t].tx].status = "pool"
    /\ Mishap("late") /\ late' = TRUE
    /\ Awaited(t)
    /\ UNCHANGED <<storeVars, meta, layer, chainVars>>

\* process_job ends with PendingVerification, or with move_job_to_failed; what the copy
\* says of hashes and of the block that failed is written with it.
Finish(t) ==
    /\ task[t].pc = "finish" /\ RecordProcessed(t, task[t].job)
    /\ GoTo(t, "announce")
    /\ meta' = [meta EXCEPT ![task[t].job] = task[t].meta]
    /\ UNCHANGED <<mishaps, layer, chainVars, late>>

GiveUp(t) ==
    /\ task[t].pc = "giveUp" /\ RecordFailed(t, task[t].job)
    /\ End(t)
    /\ meta' = [meta EXCEPT ![task[t].job] = task[t].meta]
    /\ UNCHANGED <<mishaps, layer, chainVars, late>>

\* add_job_to_verification_queue, add_job_to_process_queue.
Send(t) ==
    /\ task[t].pc \in SendSteps
    /\ Put(task[t].job, IF task[t].pc = "announce" THEN "verify" ELSE "process")
    /\ End(t)
    /\ UNCHANGED <<book, current, Others>>

\* update_job does not find the version of the copy.
Outdated(t) ==
    /\ task[t].pc \in {"finish", "giveUp", "accept", "reject"}
    /\ ~Fresh(t, task[t].job)
    /\ End(t)
    /\ UNCHANGED <<storeVars, Others>>

-------------------------------------------------------------------------------
(* verify_job of the handler *)

Recorded(t) == task[t].meta.hashes

\* The hash the verification is at; hashes and blocks are zipped.
HashAt(t) == Recorded(t)[task[t].i]

NextHash(t) ==
    task' = [task EXCEPT ![t].pc = IF task[t].i < Len(Recorded(t))
                                      /\ task[t].i < Len(Blocks[task[t].job])
                                   THEN "check" ELSE "last",
                         ![t].i = @ + 1]

\* verify_tx_inclusion of the next hash: Ethereum answers Pending for a reverted
\* transaction and for one it does not know.
CheckHash(t) ==
    /\ task[t].pc = "check"
    /\ IF Recorded(t) = <<>> THEN GoTo(t, "last")
       ELSE IF txs[HashAt(t)].status = "mined" THEN NextHash(t)
       ELSE GoTo(t, "wait")
    /\ UNCHANGED <<storeVars, Others>>

WaitForHash(t) ==
    /\ task[t].pc = "wait"
    /\ txs[HashAt(t)].status # "pool"
    /\ GoTo(t, "recheck")
    /\ UNCHANGED <<storeVars, Others>>

\* What is still in the pool was waited for in vain before.
WaitInVain(t) ==
    /\ task[t].pc = "wait"
    /\ txs[HashAt(t)].status = "pool"
    /\ "late" \in Faults /\ late' = TRUE
    /\ GoTo(t, "recheck")
    /\ UNCHANGED <<storeVars, mishaps, meta, layer, chainVars>>

\* Still Pending: TxnShouldNotBePending is returned and the job left as it is.
RecheckHash(t) ==
    /\ task[t].pc = "recheck"
    /\ IF txs[HashAt(t)].status = "mined" THEN NextHash(t) ELSE End(t)
    /\ UNCHANGED <<storeVars, Others>>

\* Mutant of CheckLast: the block the contract is at is not compared.
CheckNothing(t) ==
    /\ task[t].pc = "last"
    /\ GoTo(t, "accept")
    /\ UNCHANGED <<storeVars, Others>>

\* Mutant of CheckLast: off by one.
CheckNext(t) ==
    /\ task[t].pc = "last"
    /\ IF NoneSettled THEN End(t)
       ELSE GoTo(t, IF settled = Last(Blocks[task[t].job]) + 1 THEN "accept" ELSE "reject")
    /\ UNCHANGED <<storeVars, Others>>

\* get_last_settled_block must be the last block of the job; if it errs, so does the
\* handler, and the job is left as it is.
CheckLast(t) ==
    /\ task[t].pc = "last"
    /\ IF NoneSettled THEN End(t)
       ELSE GoTo(t, IF settled = Last(Blocks[task[t].job]) THEN "accept" ELSE "reject")
    /\ UNCHANGED <<storeVars, Others>>

Accept(t) ==
    /\ task[t].pc = "accept" /\ RecordVerified(t, task[t].job)
    /\ End(t)
    /\ UNCHANGED Others

\* Rejected: processed once more while there are attempts, else Failed.
Reject(t) ==
    /\ task[t].pc = "reject"
    /\ \/ RecordRejected(t, task[t].job)  /\ GoTo(t, "requeue")
       \/ RecordExhausted(t, task[t].job) /\ End(t)
    /\ UNCHANGED Others

-------------------------------------------------------------------------------
(* Faults *)

\* A call of process_job errs: in update_state_for_block the block is noted.
ProcessCallFails(t) ==
    /\ Mishap("call")
    /\ \/ task[t].pc \in {"validate", "fetch"} /\ Unmarked(t)
       \/ task[t].pc \in {"nonce", "submit", "await"} /\ Marked(t)
    /\ UNCHANGED <<storeVars, meta, layer, chainVars, late>>

\* A call of verify_job errs, or one to the store: the handler returns, and its
\* message is acknowledged.
HandlerErrs(t) ==
    /\ Mishap("call")
    /\ task[t].pc \in VerifySteps \cup SendSteps \cup {"finish", "giveUp"}
    /\ End(t)
    /\ UNCHANGED <<storeVars, meta, layer, chainVars, late>>

Expire(t) ==
    /\ Mishap("slow")
    /\ Reappear(task[t].job, task[t].msg)
    /\ task' = [task EXCEPT ![t].msg = "none"]
    /\ UNCHANGED <<book, current, meta, layer, chainVars, late>>

\* The process of task t stops, at any of its steps.
Crash(t) ==
    /\ task[t].pc # "idle"
    /\ Mishap("crash")
    /\ \/ Reappear(task[t].job, task[t].msg)
       \/ task[t].msg = "none" /\ UNCHANGED mail
    /\ End(t)
    /\ UNCHANGED <<book, current, meta, layer, chainVars, late>>

-------------------------------------------------------------------------------
ProcessStep(t) ==
    \/ Validate(t) \/ Fetch(t) \/ Unimplemented(t) \/ UnknownDa(t) \/ ReadNonce(t)
    \/ Submit(t) \/ Refused(t) \/ AnswerLost(t) \/ Await(t) \/ AwaitedInVain(t)
    \/ Finish(t) \/ GiveUp(t)

VerifyStep(t) ==
    \/ CheckHash(t) \/ WaitForHash(t) \/ WaitInVain(t) \/ RecheckHash(t)
    \/ CheckLast(t) \/ Accept(t) \/ Reject(t)

TaskStep(t) == ProcessStep(t) \/ VerifyStep(t) \/ Send(t) \/ Outdated(t)

Fault(t) == ProcessCallFails(t) \/ HandlerErrs(t) \/ Expire(t) \/ Crash(t)

Next ==
    \/ \E t \in Task : TaskStep(t) \/ Fault(t)
    \/ \E t \in Task, j \in Job : Claim(t, j) \/ Stamp(t, j)
    \/ \E j \in Job : Create(j) \/ Consume(j) \/ Operate(j)
    \/ \E h \in Hashes : Mine(h)

Spec == Init /\ [][Next]_vars

\* Tasks run on, consumers receive, the worker is triggered and the chain advances.
Fairness ==
    /\ \A t \in Task : WF_vars(TaskStep(t))
    /\ \A j \in Job : /\ WF_vars(\E t \in Task : Claim(t, j) \/ Stamp(t, j))
                      /\ WF_vars(Consume(j)) /\ WF_vars(Create(j))
    /\ WF_vars(\E h \in Hashes : Mine(h))

FairSpec == Spec /\ Fairness

-------------------------------------------------------------------------------
(* Properties *)

\* Whatever fails, and whoever else works on the job: a completed job is settled, its
\* last block included ("the expected last settled block ... is indeed the one found
\* in the provider", verify_job).
CompletedIsSettled ==
    \A j \in Job : book[j].status = "Completed" => Last(Blocks[j]) <= settled

Sendings(b) == {h \in Hashes : txs[h].block = b}

\* A block is sent once, and once more at most for every time an operator asked to
\* retry or verify its job again: repeated messages, crashes and verdicts that come
\* late make nobody pay for a block twice.
SentOnce ==
    \A j \in Job : \A i \in DOMAIN Blocks[j] :
        Cardinality(Sendings(Blocks[j][i]))
            <= 1 + book[j].processRetry + book[j].verificationRetry

\* No block is sent before the block it follows in the job: what a failed attempt
\* notes as last_failed_block_no never makes the next one leave out a block that
\* was not sent.
NoBlockSkipped ==
    \A j \in Job : \A i \in DOMAIN Blocks[j] \ {1} :
        \A h \in Sendings(Blocks[j][i]) :
            \E k \in Sendings(Blocks[j][i - 1]) : k < h

InOrder(j, hashes) ==
    /\ \A i \in DOMAIN hashes : /\ hashes[i] \in Hashes
                                /\ \E k \in DOMAIN Blocks[j] : txs[hashes[i]].block = Blocks[j][k]
    /\ \A i \in DOMAIN hashes \ {1} : txs[hashes[i]].block = txs[hashes[i - 1]].block + 1

\* Jobs that were processed, and not made PendingVerification by an operator.
Processed(j) ==
    /\ book[j].status \in Contract!Verifiable \cup {"VerificationFailed", "Completed"}
    /\ book[j].verificationRetry = 0

\* The hashes that a job has recorded, on which its verification relies, are those of
\* successive blocks of the job.  After an attempt that went through, be it one that went
\* on where another had failed, they reach up to the last block, so that those of the
\* attempt are aligned with the end of blocks_to_settle.
HashesInOrder ==
    /\ \A j \in Job : InOrder(j, meta[j].hashes)
    /\ \A t \in Task : task[t].job # NoJob => InOrder(task[t].job, task[t].meta.hashes)
    /\ \A j \in Job : Processed(j) =>
           /\ meta[j].hashes # <<>>
           /\ txs[Last(meta[j].hashes)].block = Last(Blocks[j])

SomeoneSteppedIn == \E j \in Job : SteppedIn(j)

\* Where no wait ran out and no operator stepped in, one transaction at a time is under
\* way, so that none replaces another and the contract turns none down.
NoneWasted ==
    ~late /\ ~SomeoneSteppedIn => \A h \in Hashes : txs[h].status \in {"pool", "mined"}

\* An attempt that continues a failed one, with the block that failed next in line on
\* the settlement layer, gets past the validation ("Filter block numbers if there was
\* a previous failure").
RetryResumes ==
    \A t \in Task :
        task[t].pc = "validate" /\ task[t].meta.failed # 0
        /\ task[t].meta.failed = settled + 1 => NoGap(task[t].job)

\* Without faults and without operators all jobs are completed: every block is sent,
\* settled and verified.
AllComplete == <>(\/ mishaps > 0 \/ SomeoneSteppedIn
                  \/ \A j \in Job : book[j].status = "Completed")

Settles == layer = "Ethereum" /\ FirstBlock # 0 => AllComplete

\* So they are if they begin with block 0, the default of min_block_to_process: the tests
\* of the worker make such a job, and one "for blocks 0-4" that is Completed.
GenesisSettles == layer = "Ethereum" => AllComplete
===============================================================================
