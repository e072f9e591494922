--------------------------- MODULE StateUpdate_proofs ---------------------------
(***************************************************************************)
(* Proofs about StateUpdate, for any jobs and blocks, any number of tasks, *)
(* any attempt bounds, operator endpoints and faults.                      *)
(*                                                                         *)
(* What a handler knows is kept in its task: the hashes it has sent so     *)
(* far, which block it is at, and, once it is about to accept, that the    *)
(* contract has the last block of the job.  All of it stays true whatever  *)
(* others do, as transactions are only added and the contract only moves   *)
(* forward.                                                                *)
(*                                                                         *)
(* The inductive invariants rest on one another.  IInv is what makes each  *)
(* handler sound; EndsInv adds that the hashes of a processed job end with *)
(* its last block; KnowInv and CountInv add what it takes to count how     *)
(* often a block is sent; CalmInv adds the order in which blocks are sent, *)
(* mined and verified as long as no wait runs out and no operator steps in.*)
(***************************************************************************)
EXTENDS StateUpdate, JobStore_proofs, FiniteSetTheorems, SequenceTheorems

-------------------------------------------------------------------------------
(* The inductive invariant *)

AttemptSteps == {"fetch", "nonce", "submit", "await"}

InOrderIn(j, hashes, T) ==
    /\ \A i \in DOMAIN hashes : /\ hashes[i] \in DOMAIN T
                                /\ \E k \in DOMAIN Blocks[j] : T[hashes[i]].block = Blocks[j][k]
    /\ \A i \in DOMAIN hashes \ {1} : T[hashes[i]].block = T[hashes[i - 1]].block + 1

\* The blocks of job j before block b have been sent.
SentBefore(j, b, T) ==
    \A n \in DOMAIN Blocks[j] : Blocks[j][n] < b => \E h \in DOMAIN T : T[h].block = Blocks[j][n]

\* NoBlockSkipped, of transactions T.
NoneSkipped(T) ==
    \A j \in Job : \A i \in DOMAIN Blocks[j] \ {1} : \A h \in DOMAIN T :
        T[h].block = Blocks[j][i] => \E k \in DOMAIN T : k < h /\ T[k].block = Blocks[j][i - 1]

AtBlockAndHash(r) == r.i \in DOMAIN Blocks[r.job] \cap DOMAIN r.meta.hashes

\* What holds of a task while the transactions are T and the contract is at block s.
Sound(r, T, s) ==
    /\ r \in Tasks
    /\ r.pc = "idle" => r = Idle
    /\ r.pc # "idle" => /\ r.job \in Job
                        /\ InOrderIn(r.job, r.meta.hashes, T)
                        /\ InOrderIn(r.job, r.sent, T)
                        /\ SentBefore(r.job, r.meta.failed, T)
    /\ r.pc = "validate" => r.sent = <<>>
    /\ r.pc \in AttemptSteps => /\ r.i \in DOMAIN Blocks[r.job]
                                /\ SentBefore(r.job, Blocks[r.job][r.i], T)
                                /\ r.sent # <<>> =>
                                       T[Last(r.sent)].block + 1 = Blocks[r.job][r.i]
    /\ r.pc = "await" => r.tx \in DOMAIN T /\ T[r.tx].block = Blocks[r.job][r.i]
    /\ r.pc = "check" => r.meta.hashes = <<>> \/ AtBlockAndHash(r)
    /\ r.pc \in {"wait", "recheck"} => AtBlockAndHash(r)
    /\ r.pc = "accept" => Last(Blocks[r.job]) <= s

TasksSound(tasks, T, s) ==
    /\ tasks \in [Task -> Tasks]
    /\ \A t \in Task : Sound(tasks[t], T, s)

MetaSound(data, T) ==
    /\ data \in [Job -> Metadata]
    /\ \A j \in Job : InOrderIn(j, data[j].hashes, T) /\ SentBefore(j, data[j].failed, T)

ChainTypes == settled \in Nat \cup {-1} /\ txs \in Seq(Transactions)

IInv ==
    /\ StoreTypeOK
    /\ layer \in Layers /\ late \in BOOLEAN
    /\ ChainTypes
    /\ TasksSound(task, txs, settled)
    /\ MetaSound(meta, txs)
    /\ CompletedIsSettled
    /\ NoneSkipped(txs)

\* Transactions T become U: some are added, and no block is changed.
Grows(T, U) ==
    /\ DOMAIN T \subseteq DOMAIN U
    /\ \A h \in DOMAIN T : U[h].block = T[h].block

-------------------------------------------------------------------------------
(* Data *)

(* Every nonempty set of numbers has a least one. *)
LEMMA LeastNumber ==
  ASSUME NEW S \in SUBSET Nat, S # {}
  PROVE  \E m \in S : \A k \in S : m <= k
<1>1. IsWellFoundedOn(OpToRel(<, Nat), Nat)
  BY NatLessThanWellFounded
<1>2. PICK m \in S : \A k \in S : ~(<<k, m>> \in OpToRel(<, Nat))
  BY <1>1, WFMin
<1>3. \A k \in S : ~(k < m)
  BY <1>2 DEF OpToRel
<1> QED
  BY <1>3

(* The blocks of a job are successive numbers. *)
LEMMA BlocksOf ==
  ASSUME NEW j \in Job
  PROVE  /\ Len(Blocks[j]) \in Nat \ {0}
         /\ DOMAIN Blocks[j] = 1 .. Len(Blocks[j])
         /\ \A i \in DOMAIN Blocks[j] :
                /\ Blocks[j][i] \in Nat /\ Blocks[j][i] \in Block
                /\ i + 1 \in DOMAIN Blocks[j] => Blocks[j][i + 1] = Blocks[j][i] + 1
         /\ Last(Blocks[j]) \in Nat
<1>1. Blocks[j] \in Seq(Nat) /\ Blocks[j] # <<>>
  BY StateUpdateAssumption
<1>2. Len(Blocks[j]) \in Nat \ {0} /\ DOMAIN Blocks[j] = 1 .. Len(Blocks[j])
  BY <1>1
<1>3. \A i \in DOMAIN Blocks[j] : Blocks[j][i] \in Nat /\ Blocks[j][i] \in Block
  BY <1>1 DEF Block
<1>4. \A i \in DOMAIN Blocks[j] :
          i + 1 \in DOMAIN Blocks[j] => Blocks[j][i + 1] = Blocks[j][i] + 1
  <2>1. \A i \in DOMAIN Blocks[j] : Blocks[j][i] = Blocks[j][1] + i - 1
    BY StateUpdateAssumption
  <2>2. Blocks[j][1] \in Nat
    BY <1>2, <1>3
  <2> QED
    BY <1>2, <2>1, <2>2
<1> QED
  BY <1>2, <1>3, <1>4 DEF Last

(* A block comes before the next one of its job, *)
LEMMA BlocksDescend ==
  ASSUME NEW j \in Job, NEW i \in DOMAIN Blocks[j] \ {1}
  PROVE  i - 1 \in DOMAIN Blocks[j] /\ Blocks[j][i - 1] < Blocks[j][i]
<1>1. /\ DOMAIN Blocks[j] = 1 .. Len(Blocks[j]) /\ Len(Blocks[j]) \in Nat
      /\ \A k \in DOMAIN Blocks[j] : Blocks[j][k] \in Nat
  BY BlocksOf
<1>2. \A k \in DOMAIN Blocks[j] : Blocks[j][k] = Blocks[j][1] + k - 1
  BY StateUpdateAssumption
<1>3. i - 1 \in DOMAIN Blocks[j] /\ 1 \in DOMAIN Blocks[j] /\ i \in Nat
  BY <1>1
<1>4. /\ Blocks[j][i - 1] = Blocks[j][1] + (i - 1) - 1 /\ Blocks[j][i] = Blocks[j][1] + i - 1
      /\ Blocks[j][1] \in Nat
  BY <1>1, <1>2, <1>3
<1> QED
  BY <1>3, <1>4

(* and is a block of no other job. *)
LEMMA BlocksDiffer ==
  ASSUME NEW j \in Job, NEW m \in Job, NEW i \in DOMAIN Blocks[j], NEW l \in DOMAIN Blocks[m],
         Blocks[j][i] = Blocks[m][l]
  PROVE  m = j /\ l = i
<1>1. ASSUME NEW k \in Job, NEW n \in DOMAIN Blocks[k]
      PROVE  /\ Blocks[k][1] <= Blocks[k][n] /\ Blocks[k][n] <= Last(Blocks[k])
             /\ Blocks[k][n] = Blocks[k][1] + n - 1 /\ n \in Nat
             /\ Blocks[k][1] \in Nat /\ Blocks[k][n] \in Nat /\ Last(Blocks[k]) \in Nat
  <2>1. /\ DOMAIN Blocks[k] = 1 .. Len(Blocks[k]) /\ Len(Blocks[k]) \in Nat \ {0}
        /\ \A x \in DOMAIN Blocks[k] : Blocks[k][x] \in Nat
    BY BlocksOf
  <2>2. \A x \in DOMAIN Blocks[k] : Blocks[k][x] = Blocks[k][1] + x - 1
    BY StateUpdateAssumption
  <2>3. 1 \in DOMAIN Blocks[k] /\ Len(Blocks[k]) \in DOMAIN Blocks[k] /\ n \in 1 .. Len(Blocks[k])
    BY <2>1
  <2>4. /\ Blocks[k][n] = Blocks[k][1] + n - 1
        /\ Last(Blocks[k]) = Blocks[k][1] + Len(Blocks[k]) - 1
        /\ Blocks[k][1] \in Nat
    BY <2>1, <2>2, <2>3, SMTT(30) DEF Last
  <2> QED
    BY <2>1, <2>3, <2>4, SMTT(30)
<1>2. m = j
  <2>1. m # j => Last(Blocks[m]) < Blocks[j][1] \/ Last(Blocks[j]) < Blocks[m][1]
    BY StateUpdateAssumption
  <2> QED
    BY <1>1, <2>1
<1>3. l = i
  BY <1>1, <1>2
<1> QED
  BY <1>2, <1>3

(* Hashes stay in order when transactions are added. *)
LEMMA InOrderGrows ==
  ASSUME NEW j, NEW hashes \in Seq(Nat), NEW T, NEW U, Grows(T, U), InOrderIn(j, hashes, T)
  PROVE  InOrderIn(j, hashes, U)
<1>1. \A i \in DOMAIN hashes : U[hashes[i]].block = T[hashes[i]].block /\ hashes[i] \in DOMAIN U
  BY DEF InOrderIn, Grows
<1>2. ASSUME NEW i \in DOMAIN hashes \ {1}
      PROVE  U[hashes[i]].block = U[hashes[i - 1]].block + 1
  <2>1. i \in DOMAIN hashes /\ i - 1 \in DOMAIN hashes
    OBVIOUS
  <2>2. T[hashes[i]].block = T[hashes[i - 1]].block + 1
    BY DEF InOrderIn
  <2> QED
    BY <1>1, <2>1, <2>2
<1>3. \A i \in DOMAIN hashes : \E k \in DOMAIN Blocks[j] : U[hashes[i]].block = Blocks[j][k]
  BY <1>1 DEF InOrderIn
<1> QED
  BY <1>1, <1>2, <1>3 DEF InOrderIn

(* What a sequence of hashes is after another one is added. *)
LEMMA OneMoreHash ==
  ASSUME NEW hashes \in Seq(Nat), NEW h \in Nat
  PROVE  /\ Append(hashes, h) \in Seq(Nat)
         /\ Len(Append(hashes, h)) = Len(hashes) + 1
         /\ \A i \in 1 .. Len(hashes) : Append(hashes, h)[i] = hashes[i]
         /\ Append(hashes, h)[Len(hashes) + 1] = h
  BY AppendProperties

(* The hash of the next block keeps the hashes in order. *)
LEMMA InOrderAppend ==
  ASSUME NEW j \in Job, NEW hashes \in Seq(Nat), NEW T, NEW h \in Nat \cap DOMAIN T,
         NEW k \in DOMAIN Blocks[j], InOrderIn(j, hashes, T),
         T[h].block = Blocks[j][k],
         hashes # <<>> => T[Last(hashes)].block + 1 = Blocks[j][k]
  PROVE  /\ Append(hashes, h) \in Seq(Nat)
         /\ InOrderIn(j, Append(hashes, h), T)
         /\ Last(Append(hashes, h)) = h
<1> DEFINE more == Append(hashes, h)
<1>0. h \in Nat
  OBVIOUS
<1>1. /\ more \in Seq(Nat)
      /\ Len(more) = Len(hashes) + 1
      /\ \A i \in 1 .. Len(hashes) : more[i] = hashes[i]
      /\ more[Len(hashes) + 1] = h
  BY <1>0, OneMoreHash
<1>2. DOMAIN more = 1 .. Len(hashes) + 1 /\ DOMAIN hashes = 1 .. Len(hashes)
      /\ Len(hashes) \in Nat
  BY <1>1
<1> HIDE DEF more
<1>3. ASSUME NEW i \in DOMAIN more
      PROVE  more[i] \in DOMAIN T /\ \E n \in DOMAIN Blocks[j] : T[more[i]].block = Blocks[j][n]
  <2>1. CASE i \in DOMAIN hashes
    <3>1. more[i] = hashes[i]
      BY <1>1, <1>2, <2>1
    <3> QED
      BY <2>1, <3>1 DEF InOrderIn
  <2>2. CASE i = Len(hashes) + 1
    BY <1>1, <2>2
  <2> QED
    BY <1>2, <2>1, <2>2
<1>4. ASSUME NEW i \in DOMAIN more \ {1}
      PROVE  T[more[i]].block = T[more[i - 1]].block + 1
  <2>1. CASE i = Len(hashes) + 1
    <3>1. hashes # <<>> /\ more[i - 1] = Last(hashes)
      BY <1>1, <1>2, <2>1 DEF Last
    <3> QED
      BY <1>1, <2>1, <3>1
  <2>2. CASE i # Len(hashes) + 1
    <3>1. i \in DOMAIN hashes \ {1} /\ more[i] = hashes[i] /\ more[i - 1] = hashes[i - 1]
      <4>1. i \in 1 .. Len(hashes) /\ i - 1 \in 1 .. Len(hashes) /\ i # 1
        <5>1. i \in 1 .. Len(hashes) + 1 /\ i # 1 /\ Len(hashes) \in Nat
          BY <1>2
        <5> QED
          BY <5>1, <2>2
      <4>2. DOMAIN hashes = 1 .. Len(hashes)
        BY <1>2
      <4> QED
        BY <1>1, <4>1, <4>2
    <3> QED
      BY <3>1 DEF InOrderIn
  <2> QED
    BY <2>1, <2>2
<1>5. Last(more) = h
  BY <1>1 DEF Last
<1> QED
  BY <1>1, <1>3, <1>4, <1>5 DEF InOrderIn, more

(* The empty sequence of hashes is in order. *)
LEMMA InOrderEmpty == ASSUME NEW j, NEW T PROVE InOrderIn(j, <<>>, T)
  BY DEF InOrderIn

(* What was sent before a block stays sent. *)
LEMMA SentBeforeGrows ==
  ASSUME NEW j, NEW b, NEW T, NEW U, Grows(T, U), SentBefore(j, b, T)
  PROVE  SentBefore(j, b, U)
  BY DEF SentBefore, Grows

(* What a task knows stays true when transactions are added and blocks are settled. *)
LEMMA SoundGrows ==
  ASSUME NEW T, NEW U, NEW s \in Int, NEW s2 \in Int, s <= s2, Grows(T, U),
         NEW r, Sound(r, T, s)
  PROVE  Sound(r, U, s2)
<1>1. r \in Tasks /\ r.sent \in Seq(Nat) /\ r.meta.hashes \in Seq(Nat)
  BY DEF Sound, Tasks, Metadata
<1>2. r.pc # "idle" => InOrderIn(r.job, r.meta.hashes, U) /\ InOrderIn(r.job, r.sent, U)
  BY <1>1, InOrderGrows DEF Sound
<1>6. /\ r.pc # "idle" => SentBefore(r.job, r.meta.failed, U)
      /\ r.pc \in AttemptSteps => SentBefore(r.job, Blocks[r.job][r.i], U)
  BY SentBeforeGrows DEF Sound
<1>3. ASSUME r.pc \in AttemptSteps, r.sent # <<>>
      PROVE  U[Last(r.sent)].block = T[Last(r.sent)].block
  <2>1. Len(r.sent) \in DOMAIN r.sent
    BY <1>1, <1>3
  <2>2. r.sent[Len(r.sent)] \in DOMAIN T
    BY <1>3, <2>1 DEF Sound, InOrderIn, AttemptSteps
  <2> QED
    BY <2>2 DEF Last, Grows
<1>4. r.pc = "await" => r.tx \in DOMAIN U /\ U[r.tx].block = T[r.tx].block
  BY DEF Sound, Grows
<1>5. r.pc = "accept" => Last(Blocks[r.job]) <= s2
  <2>1. r.pc = "accept" => Last(Blocks[r.job]) \in Nat /\ Last(Blocks[r.job]) <= s
    BY BlocksOf DEF Sound
  <2> QED
    BY <2>1
<1> QED
  BY <1>1, <1>2, <1>3, <1>4, <1>5, <1>6 DEF Sound

-------------------------------------------------------------------------------
(* What a task does next *)

Steps == {"idle"} \cup ProcessSteps \cup VerifySteps \cup SendSteps

\* Steps at which nothing more is known than the hashes of the task.
FreeSteps == {"finish", "giveUp", "last", "reject"} \cup SendSteps

(* A record of a task stays one when a field is changed. *)
LEMMA OneField ==
  ASSUME NEW r \in Tasks
  PROVE  /\ \A p \in Steps : [r EXCEPT !.pc = p] \in Tasks
         /\ \A n \in Nat : [r EXCEPT !.i = n] \in Tasks
         /\ \A n \in Nat : [r EXCEPT !.nonce = n] \in Tasks
         /\ \A n \in Nat : [r EXCEPT !.tx = n] \in Tasks
         /\ \A hashes \in Seq(Nat) : [r EXCEPT !.sent = hashes] \in Tasks
         /\ \A data \in Metadata : [r EXCEPT !.meta = data] \in Tasks
         /\ \A j \in Job : [r EXCEPT !.job = j] \in Tasks
         /\ \A m \in {"none", "process", "verify"} : [r EXCEPT !.msg = m] \in Tasks
  BY DEF Tasks, Steps

(* The step of a task changes, and nothing else. *)
LEMMA Moved ==
  ASSUME NEW r \in Tasks, NEW p \in Steps
  PROVE  /\ [r EXCEPT !.pc = p] \in Tasks
         /\ [r EXCEPT !.pc = p].pc = p
         /\ [r EXCEPT !.pc = p].job = r.job
         /\ [r EXCEPT !.pc = p].i = r.i
         /\ [r EXCEPT !.pc = p].tx = r.tx
         /\ [r EXCEPT !.pc = p].sent = r.sent
         /\ [r EXCEPT !.pc = p].meta = r.meta
<1>1. [r EXCEPT !.pc = p] \in Tasks
  BY OneField
<1> QED
  BY <1>1 DEF Tasks

(* A task may end its work, in every state of the chain. *)
LEMMA IdleSound == ASSUME NEW T, NEW s PROVE Sound(Idle, T, s) /\ Idle \in Tasks
<1>1. <<>> \in Seq(Nat) /\ NoMetadata \in Metadata
  BY DEF NoMetadata, Metadata
<1>2. Idle \in Tasks
  BY <1>1 DEF Idle, Tasks
<1>3. Idle.pc = "idle"
  BY DEF Idle
<1> QED
  BY <1>2, <1>3 DEF Sound, AttemptSteps

(* A task at work may give up, finish, send its message or come to its last check. *)
LEMMA FreeSound ==
  ASSUME NEW T, NEW s, NEW r, Sound(r, T, s), r.pc # "idle", NEW p \in FreeSteps
  PROVE  Sound([r EXCEPT !.pc = p], T, s)
<1> DEFINE q == [r EXCEPT !.pc = p]
<1>1. p \in Steps
  BY DEF FreeSteps, Steps, ProcessSteps, VerifySteps
<1>2. r \in Tasks
  BY DEF Sound
<1>3. q \in Tasks /\ q.pc = p /\ q.job = r.job /\ q.meta = r.meta /\ q.sent = r.sent
  BY <1>1, <1>2, Moved
<1>4. p \notin {"idle", "validate", "check", "wait", "recheck", "accept"} \cup AttemptSteps
  BY DEF FreeSteps, SendSteps, AttemptSteps
<1> HIDE DEF q
<1>5. /\ r.job \in Job /\ InOrderIn(r.job, r.meta.hashes, T) /\ InOrderIn(r.job, r.sent, T)
      /\ SentBefore(r.job, r.meta.failed, T)
  BY DEF Sound
<1> QED
  BY <1>3, <1>4, <1>5 DEF Sound, q, AttemptSteps

(* The task stays at its block when it goes on with it. *)
LEMMA NextStepSound ==
  ASSUME NEW T, NEW s, NEW r, Sound(r, T, s), r.pc \in AttemptSteps, NEW p \in {"nonce", "submit"}
  PROVE  Sound([r EXCEPT !.pc = p], T, s)
<1> DEFINE q == [r EXCEPT !.pc = p]
<1>1. p \in Steps /\ p \in AttemptSteps /\ r.pc # "idle"
  BY DEF Steps, ProcessSteps, AttemptSteps
<1>2. r \in Tasks
  BY DEF Sound
<1>3. /\ q \in Tasks /\ q.pc = p /\ q.job = r.job /\ q.meta = r.meta /\ q.sent = r.sent
      /\ q.i = r.i
  BY <1>1, <1>2, Moved
<1> HIDE DEF q
<1>4. /\ r.job \in Job /\ InOrderIn(r.job, r.meta.hashes, T) /\ InOrderIn(r.job, r.sent, T)
      /\ SentBefore(r.job, r.meta.failed, T)
  BY <1>1 DEF Sound
<1>5. /\ r.i \in DOMAIN Blocks[r.job] /\ SentBefore(r.job, Blocks[r.job][r.i], T)
      /\ r.sent # <<>> => T[Last(r.sent)].block + 1 = Blocks[r.job][r.i]
  BY <1>1 DEF Sound
<1> QED
  BY <1>3, <1>4, <1>5 DEF Sound, q, AttemptSteps

(* A failed attempt notes the hashes it has sent. *)
LEMMA MarkedSound ==
  ASSUME NEW T, NEW s, NEW r, Sound(r, T, s), r.pc \in AttemptSteps
  PROVE  Sound([r EXCEPT !.pc = "giveUp", !.nonce = 0, !.tx = 0,
                         !.meta = [hashes |-> r.sent, failed |-> Blocks[r.job][r.i]]], T, s)
<1> DEFINE data == [hashes |-> r.sent, failed |-> Blocks[r.job][r.i]]
           a == [r EXCEPT !.pc = "giveUp"]
           b == [a EXCEPT !.nonce = 0]
           c == [b EXCEPT !.tx = 0]
           q == [c EXCEPT !.meta = data]
<1>1. /\ r \in Tasks /\ r.job \in Job /\ r.i \in DOMAIN Blocks[r.job]
      /\ InOrderIn(r.job, r.sent, T)
      /\ SentBefore(r.job, Blocks[r.job][r.i], T)
  BY DEF Sound, AttemptSteps
<1>2. data \in Metadata
  <2>1. Blocks[r.job][r.i] \in Block /\ r.sent \in Seq(Nat)
    BY <1>1, BlocksOf DEF Tasks
  <2> QED
    BY <2>1 DEF Metadata
<1>3. q \in Tasks
  <2>1. a \in Tasks
    BY <1>1, OneField DEF Steps, ProcessSteps
  <2>2. b \in Tasks
    <3> HIDE DEF a
    <3> QED
      BY <2>1, OneField
  <2>3. c \in Tasks
    <3> HIDE DEF b
    <3> QED
      BY <2>2, OneField
  <2> HIDE DEF c, data
  <2> QED
    BY <1>2, <2>3, OneField
<1>4. q.pc = "giveUp" /\ q.job = r.job /\ q.meta = data /\ q.sent = r.sent
  BY <1>1 DEF Tasks
<1>5. Sound(q, T, s)
  <2>1. data.hashes = r.sent /\ data.failed = Blocks[r.job][r.i]
    OBVIOUS
  <2> HIDE DEF q, data
  <2> QED
    BY <1>1, <1>3, <1>4, <2>1 DEF Sound, AttemptSteps
<1> QED
  BY <1>5

(* A transaction that was waited for is the next one of the attempt. *)
LEMMA AwaitedSound ==
  ASSUME NEW T, NEW s, NEW r, Sound(r, T, s), r.pc = "await"
  PROVE  Sound([r EXCEPT !.pc = Following(r.job, r.i + 1), !.i = @ + 1, !.nonce = 0, !.tx = 0,
                         !.sent = Append(r.sent, r.tx),
                         !.meta.hashes = Append(r.sent, r.tx)], T, s)
<1> DEFINE sent == Append(r.sent, r.tx)
           p == Following(r.job, r.i + 1)
           data == [r.meta EXCEPT !.hashes = sent]
           a == [r EXCEPT !.pc = p]
           b == [a EXCEPT !.i = r.i + 1]
           c == [b EXCEPT !.nonce = 0]
           d == [c EXCEPT !.tx = 0]
           e == [d EXCEPT !.sent = sent]
           q == [e EXCEPT !.meta = data]
<1>1. /\ r \in Tasks /\ r.job \in Job /\ r.i \in DOMAIN Blocks[r.job]
      /\ InOrderIn(r.job, r.sent, T) /\ SentBefore(r.job, r.meta.failed, T)
      /\ SentBefore(r.job, Blocks[r.job][r.i], T)
      /\ r.tx \in DOMAIN T /\ T[r.tx].block = Blocks[r.job][r.i]
      /\ r.sent # <<>> => T[Last(r.sent)].block + 1 = Blocks[r.job][r.i]
  BY DEF Sound, AttemptSteps
<1>2. r.i \in Nat /\ r.tx \in Nat /\ r.sent \in Seq(Nat) /\ r.meta \in Metadata
  BY <1>1 DEF Tasks
<1>3. sent \in Seq(Nat) /\ InOrderIn(r.job, sent, T) /\ Last(sent) = r.tx
  BY <1>1, <1>2, InOrderAppend
<1>4. p \in {"fetch", "finish"}
      /\ (p = "fetch" => /\ r.i + 1 \in DOMAIN Blocks[r.job]
                         /\ Blocks[r.job][r.i + 1] = Blocks[r.job][r.i] + 1)
  BY <1>1, <1>2, BlocksOf DEF Following
<1>10. p = "fetch" => SentBefore(r.job, Blocks[r.job][r.i + 1], T)
  <2>1. \A n \in DOMAIN Blocks[r.job] : Blocks[r.job][n] \in Nat
    BY <1>1, BlocksOf
  <2> QED
    BY <1>1, <1>4, <2>1 DEF SentBefore
<1>5. data \in Metadata /\ data.hashes = sent /\ data.failed = r.meta.failed
  <2> HIDE DEF sent
  <2> QED
    BY <1>2, <1>3 DEF Metadata
<1> HIDE DEF sent, p, data
<1>6. q \in Tasks
  <2>1. a \in Tasks
    BY <1>1, <1>4, OneField DEF Steps, ProcessSteps
  <2>2. b \in Tasks
    <3> HIDE DEF a
    <3>1. r.i + 1 \in Nat
      BY <1>2
    <3> QED
      BY <3>1, <2>1, OneField
  <2>3. c \in Tasks
    <3> HIDE DEF b
    <3> QED
      BY <2>2, OneField
  <2>4. d \in Tasks
    <3> HIDE DEF c
    <3> QED
      BY <2>3, OneField
  <2>5. e \in Tasks
    <3> HIDE DEF d
    <3> QED
      BY <1>3, <2>4, OneField
  <2> HIDE DEF e
  <2> QED
    BY <1>5, <2>5, OneField
<1>7. q.pc = p /\ q.job = r.job /\ q.meta = data /\ q.sent = sent /\ q.i = r.i + 1
  BY <1>1 DEF Tasks
<1>8. Sound(q, T, s)
  <2> HIDE DEF q
  <2> QED
    BY <1>1, <1>3, <1>4, <1>5, <1>6, <1>7, <1>10 DEF Sound, AttemptSteps
<1>9. q = [r EXCEPT !.pc = Following(r.job, r.i + 1), !.i = @ + 1, !.nonce = 0, !.tx = 0,
                    !.sent = Append(r.sent, r.tx), !.meta.hashes = Append(r.sent, r.tx)]
  BY <1>1 DEF q, e, data, sent, p, Tasks
<1> QED
  BY <1>8, <1>9

(* Where an attempt starts is one of the blocks of the job, or comes after them. *)
LEMMA FirstToSendIndex ==
  ASSUME NEW j \in Job, NEW data \in Metadata
  PROVE  FirstToSend(j, data) \in Nat /\
         (FirstToSend(j, data) \in DOMAIN Blocks[j] \/ FirstToSend(j, data) = Len(Blocks[j]) + 1)
<1>1. Len(Blocks[j]) \in Nat /\ DOMAIN Blocks[j] = 1 .. Len(Blocks[j])
  BY BlocksOf
<1>2. CASE \E i \in DOMAIN Blocks[j] : Blocks[j][i] >= data.failed
  <2> DEFINE S == {i \in DOMAIN Blocks[j] : Blocks[j][i] >= data.failed}
  <2>1. S \in SUBSET Nat /\ S # {}
    BY <1>1, <1>2
  <2>2. \E m \in S : \A k \in S : m <= k
    <3> HIDE DEF S
    <3> QED
      BY <2>1, LeastNumber
  <2>3. \E i \in DOMAIN Blocks[j] :
            /\ Blocks[j][i] >= data.failed
            /\ \A k \in DOMAIN Blocks[j] : Blocks[j][k] >= data.failed => i <= k
    BY <2>2
  <2>4. FirstToSend(j, data) \in DOMAIN Blocks[j]
    BY <1>2, <2>3 DEF FirstToSend
  <2> QED
    BY <1>1, <2>4
<1>3. CASE ~\E i \in DOMAIN Blocks[j] : Blocks[j][i] >= data.failed
  BY <1>1, <1>3 DEF FirstToSend
<1> QED
  BY <1>2, <1>3

(* The blocks before it come before the one that failed. *)
LEMMA FirstToSendSkips ==
  ASSUME NEW j \in Job, NEW data \in Metadata, NEW T, SentBefore(j, data.failed, T),
         FirstToSend(j, data) \in DOMAIN Blocks[j]
  PROVE  SentBefore(j, Blocks[j][FirstToSend(j, data)], T)
<1> DEFINE first == FirstToSend(j, data)
<1>1. /\ DOMAIN Blocks[j] = 1 .. Len(Blocks[j]) /\ Len(Blocks[j]) \in Nat
      /\ \A i \in DOMAIN Blocks[j] : Blocks[j][i] \in Nat
  BY BlocksOf
<1>2. \A i \in DOMAIN Blocks[j] : Blocks[j][i] = Blocks[j][1] + i - 1
  BY StateUpdateAssumption
<1>3. data.failed \in Nat
  BY BlocksOf DEF Metadata, Block
<1>4. \A k \in DOMAIN Blocks[j] : Blocks[j][k] >= data.failed => first <= k
  <2>1. \E i \in DOMAIN Blocks[j] : Blocks[j][i] >= data.failed
    BY <1>1 DEF FirstToSend
  <2> DEFINE S == {i \in DOMAIN Blocks[j] : Blocks[j][i] >= data.failed}
  <2>2. S \in SUBSET Nat /\ S # {}
    BY <1>1, <2>1
  <2>3. \E m \in S : \A k \in S : m <= k
    <3> HIDE DEF S
    <3> QED
      BY <2>2, LeastNumber
  <2>4. \E i \in DOMAIN Blocks[j] :
            /\ Blocks[j][i] >= data.failed
            /\ \A k \in DOMAIN Blocks[j] : Blocks[j][k] >= data.failed => i <= k
    BY <2>3
  <2> QED
    BY <2>1, <2>4 DEF FirstToSend
<1> HIDE DEF first
<1>5. ASSUME NEW n \in DOMAIN Blocks[j], Blocks[j][n] < Blocks[j][first]
      PROVE  Blocks[j][n] < data.failed
  <2>1. first \in DOMAIN Blocks[j]
    BY DEF first
  <2>2. n < first
    <3>1. Blocks[j][n] = Blocks[j][1] + n - 1 /\ Blocks[j][first] = Blocks[j][1] + first - 1
      BY <1>2, <2>1
    <3>2. Blocks[j][1] \in Nat /\ n \in Nat /\ first \in Nat
      BY <1>1, <2>1
    <3> QED
      BY <1>5, <3>1, <3>2
  <2>3. n \in Nat /\ first \in Nat /\ Blocks[j][n] \in Nat
    BY <1>1, <2>1
  <2> QED
    BY <1>3, <1>4, <2>2, <2>3
<1> QED
  BY <1>5 DEF SentBefore, first

(* An attempt starts at one of the blocks, with no hashes yet. *)
LEMMA ValidatedSound ==
  ASSUME NEW T, NEW s, NEW r, Sound(r, T, s), r.pc = "validate",
         NEW n \in Nat, n \in DOMAIN Blocks[r.job] \/ n = Len(Blocks[r.job]) + 1,
         n \in DOMAIN Blocks[r.job] => SentBefore(r.job, Blocks[r.job][n], T)
  PROVE  Sound([r EXCEPT !.pc = Following(r.job, n), !.i = n], T, s)
<1> DEFINE p == Following(r.job, n)
           a == [r EXCEPT !.pc = p]
           q == [a EXCEPT !.i = n]
<1>1. /\ r \in Tasks /\ r.job \in Job /\ r.sent = <<>>
      /\ InOrderIn(r.job, r.meta.hashes, T) /\ InOrderIn(r.job, r.sent, T)
      /\ SentBefore(r.job, r.meta.failed, T)
  BY DEF Sound
<1>2. p \in {"fetch", "finish"} /\ (p = "fetch" => n \in DOMAIN Blocks[r.job])
  BY <1>1, BlocksOf DEF Following
<1> HIDE DEF p
<1>3. a \in Tasks
  BY <1>1, <1>2, OneField DEF Steps, ProcessSteps
<1>4. q \in Tasks
  <2> HIDE DEF a
  <2> QED
    BY <1>3, OneField
<1>5. q.pc = p /\ q.job = r.job /\ q.meta = r.meta /\ q.sent = r.sent /\ q.i = n
  BY <1>1 DEF Tasks
<1>6. Sound(q, T, s)
  <2> HIDE DEF q
  <2> QED
    BY <1>1, <1>2, <1>4, <1>5 DEF Sound, AttemptSteps
<1> QED
  BY <1>6 DEF p

(* A task takes up a job with the metadata in the store. *)
LEMMA BeginSound ==
  ASSUME NEW T, NEW s, NEW j \in Job, NEW data \in Metadata, InOrderIn(j, data.hashes, T),
         SentBefore(j, data.failed, T), NEW p \in {"validate", "check"},
         NEW m \in {"process", "verify"}
  PROVE  Sound([Idle EXCEPT !.pc = p, !.job = j, !.msg = m, !.i = 1, !.meta = data], T, s)
<1> DEFINE a == [Idle EXCEPT !.pc = p]
           b == [a EXCEPT !.job = j]
           c == [b EXCEPT !.msg = m]
           d == [c EXCEPT !.i = 1]
           q == [d EXCEPT !.meta = data]
<1>1. Idle \in Tasks /\ Idle.sent = <<>>
  BY IdleSound DEF Idle
<1>2. q.pc = p /\ q.job = j /\ q.i = 1 /\ q.sent = <<>> /\ q.meta = data
  BY <1>1 DEF Tasks
<1>3. q \in Tasks
  <2>1. a \in Tasks
    BY <1>1, OneField DEF Steps, ProcessSteps, VerifySteps
  <2>2. b \in Tasks
    <3> HIDE DEF a
    <3> QED
      BY <2>1, OneField
  <2>3. c \in Tasks
    <3> HIDE DEF b
    <3> QED
      BY <2>2, OneField
  <2>4. d \in Tasks
    <3> HIDE DEF c
    <3> QED
      BY <2>3, OneField
  <2> HIDE DEF d
  <2> QED
    BY <2>4, OneField
<1>4. q.meta.hashes = <<>> \/ AtBlockAndHash(q)
  <2>1. 1 \in DOMAIN Blocks[j]
    BY BlocksOf
  <2>2. data.hashes \in Seq(Nat)
    BY DEF Metadata
  <2>3. data.hashes # <<>> => 1 \in DOMAIN data.hashes
    BY <2>2
  <2> HIDE DEF q
  <2> QED
    BY <1>2, <2>1, <2>3 DEF AtBlockAndHash
<1>5. Sound(q, T, s)
  <2> HIDE DEF q
  <2> QED
    BY <1>2, <1>3, <1>4, InOrderEmpty DEF Sound, AttemptSteps
<1> QED
  BY <1>5

(* A verification at a hash stays there to wait for it. *)
LEMMA WaitSound ==
  ASSUME NEW T, NEW s, NEW r, Sound(r, T, s), r.pc \in {"check", "wait"},
         r.meta.hashes # <<>>, NEW p \in {"wait", "recheck"}
  PROVE  Sound([r EXCEPT !.pc = p], T, s)
<1> DEFINE q == [r EXCEPT !.pc = p]
<1>1. /\ r \in Tasks /\ r.job \in Job
      /\ InOrderIn(r.job, r.meta.hashes, T) /\ InOrderIn(r.job, r.sent, T)
      /\ SentBefore(r.job, r.meta.failed, T)
      /\ AtBlockAndHash(r)
  BY DEF Sound
<1>2. /\ q \in Tasks /\ q.pc = p /\ q.job = r.job /\ q.meta = r.meta /\ q.sent = r.sent
      /\ q.i = r.i
  <2>1. p \in Steps
    BY DEF Steps, VerifySteps
  <2> QED
    BY <1>1, <2>1, Moved
<1>3. Sound(q, T, s)
  <2> HIDE DEF q
  <2> QED
    BY <1>1, <1>2 DEF Sound, AttemptSteps, AtBlockAndHash
<1> QED
  BY <1>3

(* It goes on with the next hash while there is one, and a block to it. *)
LEMMA NextHashSound ==
  ASSUME NEW T, NEW s, NEW r, Sound(r, T, s), r.pc \in {"check", "recheck"},
         r.meta.hashes # <<>>
  PROVE  Sound([r EXCEPT !.pc = IF r.i < Len(r.meta.hashes) /\ r.i < Len(Blocks[r.job])
                                THEN "check" ELSE "last",
                         !.i = @ + 1], T, s)
<1> DEFINE more == r.i < Len(r.meta.hashes) /\ r.i < Len(Blocks[r.job])
           p == IF more THEN "check" ELSE "last"
           a == [r EXCEPT !.pc = p]
           q == [a EXCEPT !.i = r.i + 1]
<1>1. /\ r \in Tasks /\ r.job \in Job
      /\ InOrderIn(r.job, r.meta.hashes, T) /\ InOrderIn(r.job, r.sent, T)
      /\ SentBefore(r.job, r.meta.failed, T)
  BY DEF Sound
<1>2. r.i \in Nat /\ r.meta.hashes \in Seq(Nat) /\ r.i + 1 \in Nat
  BY <1>1 DEF Tasks, Metadata
<1>3. p \in {"check", "last"} /\ p \in Steps
  BY DEF Steps, VerifySteps
<1>4. p = "check" => r.i + 1 \in DOMAIN Blocks[r.job] \cap DOMAIN r.meta.hashes
  BY <1>1, <1>2, BlocksOf
<1> HIDE DEF p
<1>5. a \in Tasks
  BY <1>1, <1>3, OneField
<1>6. q \in Tasks
  <2> HIDE DEF a
  <2> QED
    BY <1>2, <1>5, OneField
<1>7. q.pc = p /\ q.job = r.job /\ q.meta = r.meta /\ q.sent = r.sent /\ q.i = r.i + 1
  BY <1>1 DEF Tasks
<1>8. Sound(q, T, s)
  <2> HIDE DEF q
  <2> QED
    BY <1>1, <1>3, <1>4, <1>6, <1>7 DEF Sound, AttemptSteps, AtBlockAndHash
<1>9. q = [r EXCEPT !.pc = IF r.i < Len(r.meta.hashes) /\ r.i < Len(Blocks[r.job])
                           THEN "check" ELSE "last", !.i = @ + 1]
  BY DEF p
<1> QED
  BY <1>8, <1>9

(* A task that has found the contract at the last block may accept. *)
LEMMA AcceptSound ==
  ASSUME NEW T, NEW s, NEW r, Sound(r, T, s), r.pc # "idle", Last(Blocks[r.job]) <= s
  PROVE  Sound([r EXCEPT !.pc = "accept"], T, s)
<1> DEFINE q == [r EXCEPT !.pc = "accept"]
<1>1. /\ r \in Tasks /\ r.job \in Job
      /\ InOrderIn(r.job, r.meta.hashes, T) /\ InOrderIn(r.job, r.sent, T)
      /\ SentBefore(r.job, r.meta.failed, T)
  BY DEF Sound
<1>2. q \in Tasks /\ q.pc = "accept" /\ q.job = r.job /\ q.meta = r.meta /\ q.sent = r.sent
  <2>1. "accept" \in Steps
    BY DEF Steps, VerifySteps
  <2> QED
    BY <1>1, <2>1, Moved
<1>3. Sound(q, T, s)
  <2> HIDE DEF q
  <2> QED
    BY <1>1, <1>2 DEF Sound, AttemptSteps
<1> QED
  BY <1>3

-------------------------------------------------------------------------------
(* The chain *)

(* A sequence is a function on its indices, and such a function is a sequence. *)
LEMMA TransactionsAre ==
  ASSUME NEW n \in Nat, NEW f \in [1 .. n -> Transactions]
  PROVE  f \in Seq(Transactions) /\ Len(f) = n
  OBVIOUS

(* The wallet's nonce is a number. *)
LEMMA NonceType == ASSUME ChainTypes PROVE Nonce \in Nat
<1> DEFINE S == {h \in Hashes : txs[h].status \in {"mined", "reverted"}}
<1>1. Hashes = 1 .. Len(txs) /\ Len(txs) \in Nat
  BY DEF ChainTypes, Hashes
<1>2. IsFiniteSet(Hashes)
  BY <1>1, FS_Interval
<1>3. IsFiniteSet(S)
  <2>1. S \subseteq Hashes
    OBVIOUS
  <2> QED
    BY <1>2, <2>1, FS_Subset
<1> QED
  BY <1>3, FS_CardinalityType DEF Nonce

(* A transaction that is sent comes after those that are there. *)
LEMMA SentGrows ==
  ASSUME ChainTypes, NEW b \in Block, NEW n \in Nat
  PROVE  /\ Sent(b, n) \in Seq(Transactions)
         /\ Grows(txs, Sent(b, n))
         /\ Len(txs) + 1 \in DOMAIN Sent(b, n)
         /\ Sent(b, n)[Len(txs) + 1].block = b
         /\ DOMAIN Sent(b, n) = 1 .. Len(txs) + 1
         /\ DOMAIN txs = 1 .. Len(txs) /\ Len(txs) \in Nat
<1> DEFINE one == [block |-> b, nonce |-> n, status |-> "pool"]
           old == [h \in Hashes |-> IF h \in Rivals(n) THEN [txs[h] EXCEPT !.status = "dropped"]
                                                       ELSE txs[h]]
<1>1. Hashes = 1 .. Len(txs) /\ Len(txs) \in Nat /\ \A h \in Hashes : txs[h] \in Transactions
  BY DEF ChainTypes, Hashes
<1>2. one \in Transactions /\ one.block = b
  BY DEF Transactions, TxStatuses
<1>3. \A h \in Hashes : old[h] \in Transactions /\ old[h].block = txs[h].block
  BY <1>1 DEF Transactions, TxStatuses
<1>4. old \in [1 .. Len(txs) -> Transactions]
  BY <1>1, <1>3
<1> HIDE DEF one, old
<1>5. old \in Seq(Transactions) /\ Len(old) = Len(txs)
  BY <1>1, <1>4, TransactionsAre
<1>6. /\ Append(old, one) \in Seq(Transactions)
      /\ Len(Append(old, one)) = Len(txs) + 1
      /\ \A i \in 1 .. Len(txs) : Append(old, one)[i] = old[i]
      /\ Append(old, one)[Len(txs) + 1] = one
  BY <1>2, <1>5, AppendProperties
<1>7. DOMAIN Append(old, one) = 1 .. Len(txs) + 1 /\ DOMAIN txs = 1 .. Len(txs)
  BY <1>1, <1>6 DEF Hashes
<1>8. Grows(txs, Append(old, one))
  BY <1>1, <1>3, <1>6, <1>7 DEF Grows, Hashes
<1>9. Sent(b, n) = Append(old, one)
  BY DEF Sent, old, one
<1>10. Len(txs) + 1 \in DOMAIN Append(old, one)
  BY <1>1, <1>7
<1> QED
  BY <1>1, <1>2, <1>6, <1>7, <1>8, <1>9, <1>10

(* Mining changes no block, and the contract never goes back. *)
LEMMA MineGrows ==
  ASSUME ChainTypes, NEW h \in Hashes, Mine(h)
  PROVE  ChainTypes' /\ Grows(txs, txs') /\ DOMAIN txs' = DOMAIN txs /\ settled <= settled'
<1>1. PICK st \in TxStatuses : txs' = [txs EXCEPT ![h].status = st]
  BY DEF Mine, TxStatuses
<1>2. h \in DOMAIN txs /\ txs[h] \in Transactions /\ txs \in Seq(Transactions)
  BY DEF ChainTypes, Hashes
<1>3. txs[h].block = [txs[h] EXCEPT !.status = st].block
      /\ [txs[h] EXCEPT !.status = st] \in Transactions
  BY <1>2 DEF Transactions
<1>4. Grows(txs, txs') /\ DOMAIN txs' = DOMAIN txs
  BY <1>1, <1>2, <1>3 DEF Grows
<1>5. txs' \in Seq(Transactions)
  <2> DEFINE x == [txs[h] EXCEPT !.status = st]
  <2>1. txs' = [txs EXCEPT ![h] = x]
    BY <1>1
  <2> HIDE DEF x
  <2> QED
    BY <1>2, <1>3, <2>1 DEF x
<1>6. settled' \in Nat \cup {-1} /\ settled <= settled'
  BY DEF Mine, ChainTypes
<1> QED
  BY <1>4, <1>5, <1>6 DEF ChainTypes

(* A transaction that is added follows the one of the block before. *)
LEMMA SentSkipsNone ==
  ASSUME ChainTypes, NoneSkipped(txs), NEW j \in Job, NEW i \in DOMAIN Blocks[j], NEW n \in Nat,
         SentBefore(j, Blocks[j][i], txs)
  PROVE  NoneSkipped(Sent(Blocks[j][i], n))
<1> DEFINE U == Sent(Blocks[j][i], n)
           new == Len(txs) + 1
<1>1. Blocks[j][i] \in Block /\ Blocks[j][i] \in Nat
  BY BlocksOf
<1>2. /\ U \in Seq(Transactions) /\ Grows(txs, U) /\ U[new].block = Blocks[j][i]
      /\ DOMAIN U = 1 .. new /\ DOMAIN txs = 1 .. Len(txs) /\ Len(txs) \in Nat
  BY <1>1, SentGrows DEF ChainTypes
<1> HIDE DEF U
<1>3. ASSUME NEW m \in Job, NEW l \in DOMAIN Blocks[m] \ {1}, NEW h \in DOMAIN U,
             U[h].block = Blocks[m][l]
      PROVE  \E k \in DOMAIN U : k < h /\ U[k].block = Blocks[m][l - 1]
  <2>1. CASE h \in DOMAIN txs
    <3>1. PICK k \in DOMAIN txs : k < h /\ txs[k].block = Blocks[m][l - 1]
      BY <1>2, <1>3, <2>1 DEF NoneSkipped, Grows
    <3> QED
      BY <1>2, <3>1 DEF Grows
  <2>2. CASE h = new
    <3>1. m = j /\ l = i
      BY <1>2, <1>3, <2>2, BlocksDiffer
    <3>2. i - 1 \in DOMAIN Blocks[j] /\ Blocks[j][i - 1] < Blocks[j][i]
      BY <3>1, BlocksDescend
    <3>3. PICK k \in DOMAIN txs : txs[k].block = Blocks[j][i - 1]
      BY <3>2 DEF SentBefore
    <3>4. k \in DOMAIN U /\ U[k].block = Blocks[j][i - 1] /\ k < h
      BY <1>2, <2>2, <3>3 DEF Grows
    <3> QED
      BY <3>1, <3>4
  <2> QED
    BY <1>2, <2>1, <2>2
<1> QED
  BY <1>3 DEF NoneSkipped, U

(* The first block of all is one of the blocks, which are natural. *)
LEMMA FirstBlockType == FirstBlock - 1 \in Nat \cup {-1}
<1>1. \A b \in Block : b \in Nat
  BY BlocksOf DEF Block
<1>2. Block # {}
  <2>1. PICK j \in Job : TRUE
    BY StateUpdateAssumption
  <2>2. 1 \in DOMAIN Blocks[j]
    BY BlocksOf
  <2>3. Blocks[j][1] \in Block
    BY <2>2, BlocksOf
  <2> QED
    BY <2>3
<1>3. \E b \in Block : \A c \in Block : b <= c
  <2>1. Block \in SUBSET Nat
    BY <1>1
  <2> QED
    BY <1>2, <2>1, LeastNumber
<1>4. FirstBlock \in Block
  BY <1>3 DEF FirstBlock
<1> QED
  BY <1>1, <1>4

-------------------------------------------------------------------------------
(* What a step keeps *)

(* One task goes on while others may add transactions: all stay sound. *)
LEMMA OneTaskMoves ==
  ASSUME NEW T, NEW U, NEW s \in Int, NEW s2 \in Int, s <= s2, Grows(T, U),
         TasksSound(task, T, s), NEW t \in Task, NEW r, Sound(r, U, s2),
         task' = [task EXCEPT ![t] = r]
  PROVE  TasksSound(task', U, s2)
<1>1. r \in Tasks
  BY DEF Sound
<1>2. task' \in [Task -> Tasks]
  BY <1>1 DEF TasksSound
<1>3. ASSUME NEW u \in Task PROVE Sound(task'[u], U, s2)
  <2>1. CASE u = t
    BY <2>1 DEF TasksSound
  <2>2. CASE u # t
    <3>1. task'[u] = task[u] /\ Sound(task[u], T, s)
      BY <2>2 DEF TasksSound
    <3> QED
      BY <3>1, SoundGrows
  <2> QED
    BY <2>1, <2>2
<1> QED
  BY <1>2, <1>3 DEF TasksSound

(* What a job has recorded stays in order as well. *)
LEMMA MetaGrows ==
  ASSUME NEW T, NEW U, Grows(T, U), NEW data, MetaSound(data, T)
  PROVE  MetaSound(data, U)
<1>1. \A j \in Job : data[j].hashes \in Seq(Nat)
  BY DEF MetaSound, Metadata
<1> QED
  BY <1>1, InOrderGrows, SentBeforeGrows DEF MetaSound

(* The chain stays as it is, and nothing becomes completed. *)
LEMMA QuietStep ==
  ASSUME IInv, StoreTypeOK', NoneCompleted, UNCHANGED <<layer, chainVars>>,
         MetaSound(meta', txs), late' \in BOOLEAN,
         NEW t \in Task, NEW r, Sound(r, txs, settled), task' = [task EXCEPT ![t] = r]
  PROVE  IInv'
<1>1. settled \in Int /\ settled <= settled /\ Grows(txs, txs)
  BY DEF IInv, ChainTypes, Grows
<1>2. TasksSound(task', txs, settled)
  BY <1>1, OneTaskMoves DEF IInv
<1>3. txs' = txs /\ settled' = settled /\ layer' = layer
  BY DEF chainVars
<1>4. CompletedIsSettled'
  BY <1>3 DEF IInv, CompletedIsSettled, NoneCompleted
<1> QED
  BY <1>2, <1>3, <1>4 DEF IInv, ChainTypes

(* The store keeps its types when only the number of mishaps changes. *)
LEMMA StoreStill ==
  ASSUME StoreTypeOK, UNCHANGED storeVars,
         mishaps' = mishaps \/ \E kind \in FaultNames : Mishap(kind)
  PROVE  StoreTypeOK' /\ NoneCompleted
  BY JobStoreAssumption DEF StoreTypeOK, storeVars, NoneCompleted, Mishap

Unchanged == UNCHANGED <<storeVars, meta, layer, chainVars>>

SomeMishap == mishaps' = mishaps \/ \E kind \in FaultNames : Mishap(kind)

(* A task goes on, and what others see stays as it is. *)
LEMMA SilentStep ==
  ASSUME IInv, Unchanged, late' \in BOOLEAN, SomeMishap,
         NEW t \in Task, NEW r, Sound(r, txs, settled), task' = [task EXCEPT ![t] = r]
  PROVE  IInv'
<1>1. StoreTypeOK' /\ NoneCompleted
  BY StoreStill DEF IInv, Unchanged, SomeMishap
<1>2. MetaSound(meta', txs) /\ UNCHANGED <<layer, chainVars>>
  BY DEF IInv, Unchanged
<1> QED
  BY <1>1, <1>2, QuietStep

(* What the invariant says of one task. *)
LEMMA SoundTask ==
  ASSUME IInv, NEW t \in Task
  PROVE  /\ Sound(task[t], txs, settled) /\ task[t] \in Tasks
         /\ task[t].pc # "idle" => task[t].job \in Job
         /\ late \in BOOLEAN
  BY DEF IInv, TasksSound, Sound

(* The steps of process_job before its result is written. *)
LEMMA AttemptKeeps ==
  ASSUME IInv, NEW t \in Task,
         Validate(t) \/ Fetch(t) \/ Unimplemented(t) \/ UnknownDa(t) \/ ReadNonce(t)
           \/ Refused(t) \/ Await(t) \/ AwaitedInVain(t)
  PROVE  IInv'
<1> DEFINE r == task[t]
<1>0. /\ Sound(r, txs, settled) /\ r \in Tasks /\ (r.pc # "idle" => r.job \in Job)
      /\ late \in BOOLEAN
  BY SoundTask
<1>1. CASE Validate(t)
  <2> DEFINE n == FirstToSend(r.job, r.meta)
             ok == [r EXCEPT !.pc = Following(r.job, n), !.i = n]
             no == [r EXCEPT !.pc = "giveUp"]
  <2>1. r.pc = "validate" /\ Unchanged /\ mishaps' = mishaps /\ late' = late
    BY <1>1 DEF Validate, Unchanged, Others, chainVars
  <2>2. Sound(ok, txs, settled)
    <3>1. r.job \in Job /\ r.meta \in Metadata
      BY <1>0, <2>1 DEF Tasks
    <3>2. n \in Nat /\ (n \in DOMAIN Blocks[r.job] \/ n = Len(Blocks[r.job]) + 1)
      BY <3>1, FirstToSendIndex
    <3>3. n \in DOMAIN Blocks[r.job] => SentBefore(r.job, Blocks[r.job][n], txs)
      BY <1>0, <2>1, <3>1, FirstToSendSkips DEF Sound
    <3> HIDE DEF n
    <3> QED
      BY <1>0, <2>1, <3>2, <3>3, ValidatedSound
  <2>3. Sound(no, txs, settled)
    BY <1>0, <2>1, FreeSound DEF FreeSteps
  <2>4. task' = [task EXCEPT ![t] = ok] \/ task' = [task EXCEPT ![t] = no]
    BY <1>1 DEF Validate, Unmarked, GoTo
  <2> HIDE DEF ok, no
  <2> QED
    BY <1>0, <2>1, <2>2, <2>3, <2>4, SilentStep DEF SomeMishap
<1>2. CASE Fetch(t)
  <2> DEFINE q == [r EXCEPT !.pc = "nonce"]
  <2>1. Unchanged /\ mishaps' = mishaps /\ late' = late /\ task' = [task EXCEPT ![t] = q]
    BY <1>2 DEF Fetch, Unchanged, Others, chainVars, GoTo
  <2>2. Sound(q, txs, settled)
    BY <1>0, <1>2, NextStepSound DEF Fetch, AttemptSteps
  <2> HIDE DEF q
  <2> QED
    BY <1>0, <2>1, <2>2, SilentStep DEF SomeMishap
<1>3. CASE Unimplemented(t)
  <2> DEFINE q == [r EXCEPT !.pc = "giveUp"]
  <2>1. Unchanged /\ SomeMishap /\ late' = late /\ task' = [task EXCEPT ![t] = q]
    BY <1>3 DEF Unimplemented, Unmarked, Unchanged, chainVars, GoTo, SomeMishap, FaultNames
  <2>2. Sound(q, txs, settled)
    BY <1>0, <1>3, FreeSound DEF Unimplemented, FreeSteps
  <2> HIDE DEF q
  <2> QED
    BY <1>0, <2>1, <2>2, SilentStep
<1>4. CASE ReadNonce(t)
  <2> DEFINE a == [r EXCEPT !.pc = "submit"]
             q == [a EXCEPT !.nonce = Nonce]
  <2>1. Unchanged /\ mishaps' = mishaps /\ late' = late /\ task' = [task EXCEPT ![t] = q]
    BY <1>4 DEF ReadNonce, Unchanged, Others, chainVars
  <2>2. Sound(a, txs, settled) /\ a.pc = "submit"
    BY <1>0, <1>4, NextStepSound DEF ReadNonce, AttemptSteps, Tasks
  <2>3. Sound(q, txs, settled)
    <3> HIDE DEF a
    <3>1. Nonce \in Nat
      BY NonceType DEF IInv
    <3>2. a \in Tasks
      BY <2>2 DEF Sound
    <3>3. q \in Tasks
      BY <3>1, <3>2, OneField
    <3>4. /\ q.pc = a.pc /\ q.job = a.job /\ q.meta = a.meta /\ q.sent = a.sent /\ q.i = a.i
          /\ q.tx = a.tx
      BY <3>2 DEF Tasks
    <3> HIDE DEF q
    <3> QED
      BY <2>2, <3>3, <3>4 DEF Sound, AttemptSteps
  <2> HIDE DEF q
  <2> QED
    BY <1>0, <2>1, <2>3, SilentStep DEF SomeMishap
<1>5. CASE UnknownDa(t) \/ Refused(t)
  <2> DEFINE q == [r EXCEPT !.pc = "giveUp", !.nonce = 0, !.tx = 0,
                         !.meta = [hashes |-> r.sent, failed |-> Blocks[r.job][r.i]]]
  <2>1. Unchanged /\ SomeMishap /\ late' = late /\ task' = [task EXCEPT ![t] = q]
    BY <1>5 DEF UnknownDa, Refused, Marked, Unchanged, Others, chainVars, SomeMishap, FaultNames
  <2>2. Sound(q, txs, settled)
    BY <1>0, <1>5, MarkedSound DEF UnknownDa, Refused, AttemptSteps
  <2> HIDE DEF q
  <2> QED
    BY <1>0, <2>1, <2>2, SilentStep
<1>6. CASE Await(t) \/ AwaitedInVain(t)
  <2> DEFINE q == [r EXCEPT !.pc = Following(r.job, r.i + 1), !.i = @ + 1, !.nonce = 0, !.tx = 0,
                         !.sent = Append(r.sent, r.tx), !.meta.hashes = Append(r.sent, r.tx)]
  <2>1. Unchanged /\ SomeMishap /\ late' \in BOOLEAN /\ task' = [task EXCEPT ![t] = q]
    <3>1. task' = [task EXCEPT ![t] = q]
      BY <1>6 DEF Await, AwaitedInVain, Awaited
    <3> HIDE DEF q
    <3>2. Unchanged /\ SomeMishap /\ late' \in BOOLEAN
      BY <1>0, <1>6
      DEF Await, AwaitedInVain, Unchanged, Others, chainVars, SomeMishap, FaultNames
    <3> QED
      BY <3>1, <3>2
  <2>2. Sound(q, txs, settled)
    BY <1>0, <1>6, AwaitedSound DEF Await, AwaitedInVain
  <2> HIDE DEF q
  <2> QED
    BY <2>1, <2>2, SilentStep
<1> QED
  BY <1>1, <1>2, <1>3, <1>4, <1>5, <1>6

(* A transaction is added for the block of a task, which notes it or fails. *)
LEMMA SendingKeeps ==
  ASSUME IInv, NEW t \in Task, Submit(t) \/ AnswerLost(t)
  PROVE  IInv'
<1> DEFINE r == task[t]
           U == Sent(BlockAt(t), r.nonce)
<1>0. /\ Sound(r, txs, settled) /\ r \in Tasks /\ r.job \in Job /\ late \in BOOLEAN
      /\ r.pc = "submit" /\ r.pc # "idle" /\ r.pc \in AttemptSteps /\ ChainTypes
  BY SoundTask DEF Submit, AnswerLost, AttemptSteps, IInv
<1>1. r.i \in DOMAIN Blocks[r.job] /\ BlockAt(t) \in Block /\ r.nonce \in Nat
  BY <1>0, BlocksOf DEF Sound, BlockAt, Tasks
<1>2. /\ U \in Seq(Transactions) /\ Grows(txs, U)
      /\ Len(txs) + 1 \in DOMAIN U /\ U[Len(txs) + 1].block = BlockAt(t)
  BY <1>0, <1>1, SentGrows
<1> HIDE DEF U
<1>3. Sound(r, U, settled)
  <2>1. settled \in Int /\ settled <= settled
    BY <1>0 DEF ChainTypes
  <2> HIDE DEF r
  <2> QED
    BY <1>0, <1>2, <2>1, SoundGrows
<1>4. /\ txs' = U /\ settled' = settled /\ meta' = meta /\ layer' = layer /\ late' = late
      /\ UNCHANGED storeVars /\ SomeMishap
  BY DEF Submit, AnswerLost, SomeMishap, FaultNames, U
<1>5. StoreTypeOK' /\ NoneCompleted
  BY <1>4, StoreStill DEF IInv, SomeMishap
<1>6. MetaSound(meta', txs')
  BY <1>2, <1>4, MetaGrows DEF IInv
<1>7. CompletedIsSettled'
  BY <1>4, <1>5 DEF IInv, CompletedIsSettled, NoneCompleted
<1>10. NoneSkipped(txs')
  <2>1. SentBefore(r.job, Blocks[r.job][r.i], txs)
    BY <1>0 DEF Sound
  <2> QED
    BY <1>0, <1>1, <1>4, <2>1, SentSkipsNone DEF IInv, BlockAt, U
<1>8. \E q : Sound(q, U, settled) /\ task' = [task EXCEPT ![t] = q]
  <2>1. CASE Submit(t)
    <3> DEFINE n == Len(txs) + 1
               a == [r EXCEPT !.pc = "await"]
               q == [a EXCEPT !.tx = n]
    <3>1. n \in Nat
      BY <1>0 DEF ChainTypes
    <3>2. a \in Tasks
      BY <1>0, OneField DEF Steps, ProcessSteps
    <3>3. q \in Tasks
      <4> HIDE DEF a, n
      <4> QED
        BY <3>1, <3>2, OneField
    <3>4. /\ q.pc = "await" /\ q.job = r.job /\ q.meta = r.meta /\ q.sent = r.sent
          /\ q.i = r.i /\ q.tx = n
      BY <1>0 DEF Tasks
    <3>5. task' = [task EXCEPT ![t] = q]
      BY <2>1 DEF Submit
    <3>6. U[n].block = Blocks[r.job][r.i] /\ n \in DOMAIN U
      BY <1>2 DEF BlockAt
    <3> HIDE DEF q, n
    <3>7. Sound(q, U, settled)
      BY <1>0, <1>3, <3>3, <3>4, <3>6 DEF Sound, AttemptSteps
    <3> QED
      BY <3>5, <3>7
  <2>2. CASE AnswerLost(t)
    <3> DEFINE q == [r EXCEPT !.pc = "giveUp", !.nonce = 0, !.tx = 0,
                              !.meta = [hashes |-> r.sent, failed |-> Blocks[r.job][r.i]]]
    <3>1. Sound(q, U, settled)
      BY <1>0, <1>3, MarkedSound
    <3>2. task' = [task EXCEPT ![t] = q]
      BY <2>2 DEF AnswerLost, Marked
    <3> HIDE DEF q
    <3> QED
      BY <3>1, <3>2
  <2> QED
    BY <2>1, <2>2
<1>9. TasksSound(task', txs', settled')
  <2>1. settled \in Int /\ settled <= settled /\ TasksSound(task, txs, settled)
    BY DEF IInv, ChainTypes
  <2> QED
    BY <1>2, <1>4, <1>8, <2>1, OneTaskMoves
<1> QED
  BY <1>0, <1>2, <1>4, <1>5, <1>6, <1>7, <1>9, <1>10 DEF IInv, ChainTypes

(* The steps of verify_job before its verdict is written. *)
LEMMA VerificationKeeps ==
  ASSUME IInv, NEW t \in Task,
         CheckHash(t) \/ WaitForHash(t) \/ WaitInVain(t) \/ RecheckHash(t) \/ CheckLast(t)
  PROVE  IInv'
<1> DEFINE r == task[t]
<1>0. /\ Sound(r, txs, settled) /\ r \in Tasks /\ late \in BOOLEAN
      /\ r.pc # "idle" /\ r.job \in Job
  BY SoundTask
  DEF CheckHash, WaitForHash, WaitInVain, RecheckHash, CheckLast
<1>1. Unchanged /\ SomeMishap /\ late' \in BOOLEAN
  BY <1>0
  DEF CheckHash, WaitForHash, WaitInVain, RecheckHash, CheckLast, Unchanged, SomeMishap,
      Others, chainVars
<1>2. ASSUME NEW p \in FreeSteps, GoTo(t, p) PROVE IInv'
  <2>1. Sound([r EXCEPT !.pc = p], txs, settled)
    BY <1>0, FreeSound
  <2> QED
    BY <1>1, <1>2, <2>1, SilentStep DEF GoTo
<1>3. ASSUME End(t) PROVE IInv'
  BY <1>1, <1>3, IdleSound, SilentStep DEF End
<1>4. ASSUME r.pc \in {"check", "wait"}, Recorded(t) # <<>>,
             NEW p \in {"wait", "recheck"}, GoTo(t, p)
      PROVE  IInv'
  <2>1. Sound([r EXCEPT !.pc = p], txs, settled)
    BY <1>0, <1>4, WaitSound DEF Recorded
  <2> QED
    BY <1>1, <1>4, <2>1, SilentStep DEF GoTo
<1>5. ASSUME r.pc \in {"check", "recheck"}, Recorded(t) # <<>>, NextHash(t) PROVE IInv'
  <2> DEFINE q == [r EXCEPT !.pc = IF r.i < Len(r.meta.hashes) /\ r.i < Len(Blocks[r.job])
                                   THEN "check" ELSE "last", !.i = @ + 1]
  <2>1. Sound(q, txs, settled)
    BY <1>0, <1>5, NextHashSound DEF Recorded
  <2>2. task' = [task EXCEPT ![t] = q]
    BY <1>5 DEF NextHash, Recorded
  <2> HIDE DEF q
  <2> QED
    BY <1>1, <2>1, <2>2, SilentStep
<1>6. r.pc \in {"wait", "recheck"} => Recorded(t) # <<>>
  BY <1>0 DEF Sound, AtBlockAndHash, Recorded
<1>7. CASE CheckHash(t)
  BY <1>2, <1>4, <1>5, <1>7 DEF CheckHash, FreeSteps
<1>8. CASE WaitForHash(t) \/ WaitInVain(t)
  BY <1>4, <1>6, <1>8 DEF WaitForHash, WaitInVain
<1>9. CASE RecheckHash(t)
  BY <1>3, <1>5, <1>6, <1>9 DEF RecheckHash
<1>10. CASE CheckLast(t)
  <2>1. CASE settled = Last(Blocks[r.job])
    <3>1. Last(Blocks[r.job]) <= settled
      BY <1>0, <2>1, BlocksOf
    <3>2. Sound([r EXCEPT !.pc = "accept"], txs, settled)
      BY <1>0, <3>1, AcceptSound
    <3>3. ~NoneSettled
      BY <1>0, <2>1, BlocksOf DEF NoneSettled
    <3>4. task' = [task EXCEPT ![t] = [r EXCEPT !.pc = "accept"]]
      BY <1>10, <2>1, <3>3 DEF CheckLast, GoTo
    <3> QED
      BY <1>1, <3>2, <3>4, SilentStep
  <2>2. CASE ~NoneSettled /\ settled # Last(Blocks[r.job])
    BY <1>2, <1>10, <2>2 DEF CheckLast, FreeSteps
  <2>3. CASE NoneSettled
    BY <1>3, <1>10, <2>3 DEF CheckLast
  <2> QED
    BY <2>1, <2>2, <2>3
<1> QED
  BY <1>7, <1>8, <1>9, <1>10

(* A handler writes its result, and tells the next queue. *)
LEMMA RecordKeeps ==
  ASSUME IInv, NEW t \in Task, Finish(t) \/ GiveUp(t) \/ Accept(t) \/ Reject(t)
  PROVE  IInv'
<1> DEFINE r == task[t]
           j == r.job
<1>0. /\ Sound(r, txs, settled) /\ r \in Tasks /\ late \in BOOLEAN
      /\ r.pc # "idle" /\ j \in Job
  BY SoundTask DEF Finish, GiveUp, Accept, Reject
<1>1. /\ mishaps' = mishaps /\ late' = late /\ UNCHANGED <<layer, chainVars>>
      /\ mishaps' \in 0 .. MaxMishaps /\ StoreTypeOK
  BY DEF Finish, GiveUp, Accept, Reject, Others, chainVars, IInv, StoreTypeOK
<1>2. \E p \in FreeSteps : GoTo(t, p) \/ End(t)
  BY DEF Finish, GiveUp, Accept, Reject, FreeSteps, SendSteps
<1>3. PICK q : Sound(q, txs, settled) /\ task' = [task EXCEPT ![t] = q]
  <2>1. PICK p \in FreeSteps : GoTo(t, p) \/ End(t)
    BY <1>2
  <2>2. CASE End(t)
    BY <2>2, IdleSound DEF End
  <2>3. CASE GoTo(t, p)
    <3>1. Sound([r EXCEPT !.pc = p], txs, settled)
      BY <1>0, FreeSound
    <3> QED
      BY <2>3, <3>1 DEF GoTo
  <2> QED
    BY <2>1, <2>2, <2>3
<1>4. CASE Finish(t) \/ GiveUp(t)
  <2>1. StoreTypeOK' /\ NoneCompleted
    BY <1>0, <1>1, <1>4, StoreSteps DEF Finish, GiveUp, OtherStep
  <2>2. MetaSound(meta', txs)
    <3>1. meta' = [meta EXCEPT ![j] = r.meta] /\ r.meta \in Metadata
      BY <1>0, <1>4 DEF Finish, GiveUp, Tasks
    <3>2. InOrderIn(j, r.meta.hashes, txs) /\ SentBefore(j, r.meta.failed, txs)
      BY <1>0 DEF Sound
    <3> QED
      BY <1>0, <3>1, <3>2 DEF IInv, MetaSound
  <2> QED
    BY <1>0, <1>1, <1>3, <2>1, <2>2, QuietStep
<1>5. CASE Reject(t)
  <2>1. StoreTypeOK' /\ NoneCompleted
    BY <1>0, <1>1, <1>5, StoreSteps DEF Reject, OtherStep
  <2>2. MetaSound(meta', txs)
    BY <1>5 DEF Reject, Others, IInv
  <2> QED
    BY <1>0, <1>1, <1>3, <2>1, <2>2, QuietStep
<1>6. CASE Accept(t)
  <2>1. StoreTypeOK' /\ Becomes(j, "Completed")
    BY <1>0, <1>1, <1>6, StoreSteps DEF Accept
  <2>2. Last(Blocks[j]) <= settled
    BY <1>0, <1>6 DEF Accept, Sound
  <2>3. CompletedIsSettled'
    <3>1. \A i \in Job : i # j => book'[i] = book[i]
      BY <2>1 DEF Becomes
    <3> QED
      BY <1>1, <2>2, <3>1 DEF IInv, CompletedIsSettled, chainVars
  <2>4. settled \in Int /\ settled <= settled /\ Grows(txs, txs)
    BY DEF IInv, ChainTypes, Grows
  <2>5. TasksSound(task', txs, settled)
    BY <1>3, <2>4, OneTaskMoves DEF IInv
  <2>6. meta' = meta
    BY <1>6 DEF Accept, Others
  <2> QED
    BY <1>0, <1>1, <2>1, <2>3, <2>5, <2>6 DEF IInv, ChainTypes, chainVars
<1> QED
  BY <1>4, <1>5, <1>6

(* A task sends its message, or ends because its copy is outdated. *)
LEMMA EndingKeeps ==
  ASSUME IInv, NEW t \in Task, Send(t) \/ Outdated(t)
  PROVE  IInv'
<1>0. /\ task[t].job \in Job /\ late' = late /\ late \in BOOLEAN
      /\ UNCHANGED <<mishaps, meta, layer, chainVars>>
  BY SoundTask DEF Send, Outdated, SendSteps, Others, chainVars
<1>1. StoreTypeOK' /\ NoneCompleted
  <2>1. CASE Send(t)
    <3>1. mail' \in [Job -> SUBSET Queues]
      BY <1>0, <2>1, MailType DEF Send, IInv, StoreTypeOK, Queues
    <3> QED
      BY <1>0, <2>1, <3>1 DEF Send, IInv, StoreTypeOK, NoneCompleted
  <2>2. CASE Outdated(t)
    BY <1>0, <2>2, StoreStill DEF Outdated, IInv
  <2> QED
    BY <2>1, <2>2
<1>2. MetaSound(meta', txs)
  BY <1>0 DEF IInv
<1>3. task' = [task EXCEPT ![t] = Idle]
  BY DEF Send, Outdated, End
<1> QED
  BY <1>0, <1>1, <1>2, <1>3, IdleSound, QuietStep

(* Errors of calls, messages that reappear, and crashes. *)
LEMMA FaultKeeps ==
  ASSUME IInv, NEW t \in Task, Fault(t)
  PROVE  IInv'
<1> DEFINE r == task[t]
<1>0. Sound(r, txs, settled) /\ r \in Tasks /\ late \in BOOLEAN /\ (r.pc # "idle" => r.job \in Job)
  BY SoundTask
<1>1. CASE ProcessCallFails(t)
  <2>1. Unchanged /\ SomeMishap /\ late' = late
    BY <1>1 DEF ProcessCallFails, Unchanged, SomeMishap, chainVars, FaultNames
  <2>2. CASE r.pc \in {"validate", "fetch"} /\ Unmarked(t)
    <3>1. Sound([r EXCEPT !.pc = "giveUp"], txs, settled)
      BY <1>0, <2>2, FreeSound DEF FreeSteps
    <3> QED
      BY <1>0, <2>1, <2>2, <3>1, SilentStep DEF Unmarked, GoTo
  <2>3. CASE r.pc \in {"nonce", "submit", "await"} /\ Marked(t)
    <3> DEFINE q == [r EXCEPT !.pc = "giveUp", !.nonce = 0, !.tx = 0,
                              !.meta = [hashes |-> r.sent, failed |-> Blocks[r.job][r.i]]]
    <3>1. Sound(q, txs, settled)
      BY <1>0, <2>3, MarkedSound DEF AttemptSteps
    <3>2. task' = [task EXCEPT ![t] = q]
      BY <2>3 DEF Marked
    <3> HIDE DEF q
    <3> QED
      BY <1>0, <2>1, <3>1, <3>2, SilentStep
  <2> QED
    BY <1>1, <2>2, <2>3 DEF ProcessCallFails
<1>2. CASE HandlerErrs(t)
  <2>1. Unchanged /\ SomeMishap /\ late' = late /\ task' = [task EXCEPT ![t] = Idle]
    BY <1>2 DEF HandlerErrs, End, Unchanged, SomeMishap, chainVars, FaultNames
  <2> QED
    BY <1>0, <2>1, IdleSound, SilentStep
<1>3. CASE Expire(t) \/ Crash(t)
  <2>1. /\ UNCHANGED <<book, current, meta, layer, chainVars, late>>
        /\ \E kind \in FaultNames : Mishap(kind)
    BY <1>3 DEF Expire, Crash, FaultNames
  <2>2. MetaSound(meta', txs) /\ late' = late
    BY <2>1 DEF IInv
  <2>3. r.pc # "idle"
    <3>1. Idle.msg = "none"
      BY DEF Idle
    <3> QED
      BY <1>0, <1>3, <3>1 DEF Expire, Crash, Reappear, Sound
  <2>4. StoreTypeOK' /\ NoneCompleted
    <3>1. \A m \in {"process", "verify", "none"} :
              Reappear(r.job, m) => mail' \in [Job -> SUBSET Queues]
      BY <1>0, <2>3, MailType DEF Reappear, IInv, StoreTypeOK, Queues
    <3>2. mail' \in [Job -> SUBSET Queues]
      BY <1>0, <1>3, <3>1 DEF Expire, Crash, Tasks, IInv, StoreTypeOK
    <3> QED
      BY <2>1, <3>2, JobStoreAssumption DEF IInv, StoreTypeOK, NoneCompleted, Mishap
  <2>5. CASE Crash(t)
    BY <1>0, <2>1, <2>2, <2>4, <2>5, IdleSound, QuietStep DEF Crash, End
  <2>6. CASE Expire(t)
    <3> DEFINE q == [r EXCEPT !.msg = "none"]
    <3>1. q \in Tasks
      BY <1>0, OneField
    <3>2. /\ q.pc = r.pc /\ q.job = r.job /\ q.i = r.i /\ q.tx = r.tx
          /\ q.sent = r.sent /\ q.meta = r.meta
      BY <1>0 DEF Tasks
    <3>3. task' = [task EXCEPT ![t] = q]
      BY <2>6 DEF Expire
    <3> HIDE DEF q
    <3>4. Sound(q, txs, settled)
      BY <1>0, <2>3, <3>1, <3>2 DEF Sound, AttemptSteps, AtBlockAndHash
    <3> QED
      BY <1>0, <2>1, <2>2, <2>4, <3>3, <3>4, QuietStep
  <2> QED
    BY <1>3, <2>5, <2>6
<1> QED
  BY <1>1, <1>2, <1>3 DEF Fault

(* A task takes up a job, with what the store says of it. *)
LEMMA BeginKeeps ==
  ASSUME IInv, NEW t \in Task, NEW j \in Job, Claim(t, j) \/ Stamp(t, j)
  PROVE  IInv'
<1>1. /\ UNCHANGED <<mishaps, meta, layer, chainVars, late>> /\ late \in BOOLEAN
      /\ StoreTypeOK /\ mishaps' \in 0 .. MaxMishaps
  BY DEF Claim, Stamp, Begin, Others, chainVars, IInv, StoreTypeOK
<1>2. StoreTypeOK' /\ NoneCompleted
  BY <1>1, StoreSteps DEF Claim, Stamp, OtherStep
<1>3. /\ meta[j] \in Metadata /\ InOrderIn(j, meta[j].hashes, txs)
      /\ SentBefore(j, meta[j].failed, txs) /\ MetaSound(meta', txs)
  BY <1>1 DEF IInv, MetaSound
<1>4. PICK p \in {"validate", "check"}, m \in {"process", "verify"} : Begin(t, j, p, m)
  BY DEF Claim, Stamp
<1> DEFINE q == [Idle EXCEPT !.pc = p, !.job = j, !.msg = m, !.i = 1, !.meta = meta[j]]
<1>5. Sound(q, txs, settled)
  BY <1>3, BeginSound
<1>6. task' = [task EXCEPT ![t] = q]
  BY <1>4 DEF Begin
<1> HIDE DEF q
<1> QED
  BY <1>1, <1>2, <1>3, <1>5, <1>6, QuietStep

(* The worker, the consumers, operators and the chain leave all tasks alone. *)
LEMMA OthersKeep ==
  ASSUME IInv,
         \/ \E j \in Job : Create(j) \/ Consume(j) \/ Operate(j)
         \/ \E h \in Hashes : Mine(h)
         \/ UNCHANGED vars
  PROVE  IInv'
<1>1. CASE \E j \in Job : Create(j) \/ Consume(j) \/ Operate(j)
  <2>1. PICK j \in Job : Create(j) \/ Consume(j) \/ Operate(j)
    BY <1>1
  <2>2. PICK t \in Task : TRUE
    BY JobStoreAssumption
  <2>3. /\ UNCHANGED <<mishaps, meta, layer, chainVars, late, task>>
        /\ StoreTypeOK /\ mishaps' \in 0 .. MaxMishaps
    BY <2>1 DEF Create, Consume, Operate, Others, chainVars, IInv, StoreTypeOK
  <2>4. OtherStep(t, j)
    BY <2>1 DEF Create, Consume, Operate, OtherStep
  <2>5. StoreTypeOK' /\ NoneCompleted
    BY <2>3, <2>4, StoreSteps
  <2> QED
    BY <2>3, <2>5
    DEF IInv, ChainTypes, chainVars, TasksSound, MetaSound, CompletedIsSettled, NoneCompleted
<1>2. CASE \E h \in Hashes : Mine(h)
  <2>1. PICK h \in Hashes : Mine(h)
    BY <1>2
  <2>2. ChainTypes' /\ Grows(txs, txs') /\ DOMAIN txs' = DOMAIN txs /\ settled <= settled'
    BY <2>1, MineGrows DEF IInv
  <2>3. settled \in Int /\ settled' \in Int
    BY <2>2 DEF IInv, ChainTypes
  <2>4. UNCHANGED <<storeVars, mishaps, meta, task, layer, late>>
    BY <2>1 DEF Mine
  <2>5. TasksSound(task', txs', settled')
    <3>1. \A t \in Task : Sound(task[t], txs', settled')
      BY <2>2, <2>3, SoundGrows DEF IInv, TasksSound
    <3> QED
      BY <2>4, <3>1 DEF IInv, TasksSound
  <2>6. MetaSound(meta', txs')
    BY <2>2, <2>4, MetaGrows DEF IInv
  <2>7. CompletedIsSettled'
    <3>1. \A j \in Job : Last(Blocks[j]) \in Nat
      BY BlocksOf
    <3> QED
      BY <2>2, <2>3, <2>4, <3>1 DEF IInv, CompletedIsSettled, storeVars
  <2>8. NoneSkipped(txs')
    BY <2>2 DEF IInv, NoneSkipped, Grows
  <2> QED
    BY <2>2, <2>4, <2>5, <2>6, <2>7, <2>8 DEF IInv, StoreTypeOK, storeVars
<1>3. CASE UNCHANGED vars
  BY <1>3 DEF vars, storeVars, chainVars, IInv, StoreTypeOK, ChainTypes, TasksSound, MetaSound,
              CompletedIsSettled
<1> QED
  BY <1>1, <1>2, <1>3

-------------------------------------------------------------------------------
(* The theorems *)

(* The invariant holds at the start, *)
LEMMA InitIInv == ASSUME Init PROVE IInv
<1>1. StoreTypeOK
  <2>1. book \in [Job -> Contract!Entries]
    <3>1. Contract!Missing \in Contract!Entries
      BY DEF Contract!Missing, Contract!Entries
    <3> QED
      BY <3>1 DEF Init, StoreInit, Contract!Init
  <2> QED
    BY <2>1, JobStoreAssumption DEF Init, StoreInit, StoreTypeOK
<1>2. ChainTypes
  BY FirstBlockType DEF Init, ChainTypes
<1>3. TasksSound(task, txs, settled)
  BY IdleSound DEF Init, TasksSound
<1>4. MetaSound(meta, txs)
  <2>1. NoMetadata \in Metadata /\ NoMetadata.hashes = <<>> /\ NoMetadata.failed = 0
    BY DEF NoMetadata, Metadata
  <2>2. \A j \in Job : SentBefore(j, 0, txs)
    <3>1. \A j \in Job : \A n \in DOMAIN Blocks[j] : Blocks[j][n] \in Nat
      BY BlocksOf
    <3> QED
      BY <3>1 DEF SentBefore
  <2> QED
    BY <2>1, <2>2, InOrderEmpty DEF Init, MetaSound
<1>5. CompletedIsSettled
  BY DEF Init, StoreInit, Contract!Init, Contract!Missing, CompletedIsSettled
<1>6. NoneSkipped(txs)
  BY DEF Init, NoneSkipped
<1> QED
  BY <1>1, <1>2, <1>3, <1>4, <1>5, <1>6 DEF Init, IInv

(* and every step keeps it. *)
LEMMA StepIInv == ASSUME IInv, [Next]_vars PROVE IInv'
<1>1. ASSUME NEW t \in Task, TaskStep(t) PROVE IInv'
  BY <1>1, AttemptKeeps, SendingKeeps, VerificationKeeps, RecordKeeps, EndingKeeps
  DEF TaskStep, ProcessStep, VerifyStep
<1>2. ASSUME NEW t \in Task, Fault(t) PROVE IInv'
  BY <1>2, FaultKeeps
<1>3. ASSUME NEW t \in Task, NEW j \in Job, Claim(t, j) \/ Stamp(t, j) PROVE IInv'
  BY <1>3, BeginKeeps
<1> QED
  BY <1>1, <1>2, <1>3, OthersKeep DEF Next

\* HashesInOrder, but for where the hashes end.
HashesSuccessive ==
    /\ \A j \in Job : InOrder(j, meta[j].hashes)
    /\ \A t \in Task : task[t].job # NoJob => InOrder(task[t].job, task[t].meta.hashes)

(* What the invariant says of the properties. *)
LEMMA IInvImplies ==
  ASSUME IInv
  PROVE  TypeOK /\ CompletedIsSettled /\ HashesSuccessive /\ NoBlockSkipped
<1>1. ASSUME NEW t \in Task
      PROVE  /\ task[t].pc \in {"fetch", "nonce", "submit", "await"} =>
                    task[t].i \in DOMAIN Blocks[task[t].job]
             /\ task[t].pc \in {"wait", "recheck"} =>
                    task[t].i \in DOMAIN Blocks[task[t].job] \cap DOMAIN task[t].meta.hashes
  BY SoundTask DEF Sound, AttemptSteps, AtBlockAndHash
<1>2. TypeOK
  BY <1>1 DEF IInv, TypeOK, ChainTypes, TasksSound, MetaSound
<1>3. HashesSuccessive
  <2>1. \A j \in Job : InOrder(j, meta[j].hashes)
    BY DEF IInv, MetaSound, InOrderIn, InOrder, Hashes
  <2>2. ASSUME NEW t \in Task, task[t].job # NoJob
        PROVE  InOrder(task[t].job, task[t].meta.hashes)
    <3>1. task[t].pc # "idle"
      BY <2>2, SoundTask DEF Sound, Idle
    <3>2. InOrderIn(task[t].job, task[t].meta.hashes, txs)
      BY <3>1, SoundTask DEF Sound
    <3> QED
      BY <3>2 DEF InOrderIn, InOrder, Hashes
  <2> QED
    BY <2>1, <2>2 DEF HashesSuccessive
<1>4. NoBlockSkipped
  <2>1. NoneSkipped(txs)
    BY DEF IInv
  <2> QED
    BY <2>1 DEF NoneSkipped, NoBlockSkipped, Sendings, Hashes
<1> QED
  BY <1>2, <1>3, <1>4 DEF IInv

(* Every variable keeps its type, and every handler is at a block of its job. *)
THEOREM TypeCorrect == Spec => []TypeOK
<1>1. Init => IInv
  BY InitIInv
<1>2. IInv /\ [Next]_vars => IInv'
  BY StepIInv
<1>3. IInv => TypeOK
  BY IInvImplies
<1> QED
  BY <1>1, <1>2, <1>3, PTL DEF Spec

(* A job is Completed only when the core contract has its last block. *)
THEOREM CompletedJobsAreSettled == Spec => []CompletedIsSettled
<1>1. Init => IInv
  BY InitIInv
<1>2. IInv /\ [Next]_vars => IInv'
  BY StepIInv
<1>3. IInv => CompletedIsSettled
  BY IInvImplies
<1> QED
  BY <1>1, <1>2, <1>3, PTL DEF Spec

(* No block is sent before the one it follows in its job. *)
THEOREM BlocksAreSentInTurn == Spec => []NoBlockSkipped
<1>1. Init => IInv
  BY InitIInv
<1>2. IInv /\ [Next]_vars => IInv'
  BY StepIInv
<1>3. IInv => NoBlockSkipped
  BY IInvImplies
<1> QED
  BY <1>1, <1>2, <1>3, PTL DEF Spec

-------------------------------------------------------------------------------
(* What handlers know, besides what makes each of them sound: which hashes a fresh copy *)
(* holds, and that a hash found mined is settled.                                        *)

FailedHere(j, b) == b = 0 \/ \E i \in DOMAIN Blocks[j] : Blocks[j][i] = b

\* What the contract has not refused is settled.
MinedSettled(T, s) == \A h \in DOMAIN T : T[h].status = "mined" => T[h].block <= s

\* What task t knows, its record being r: the failed block is one of the job, an attempt
\* that ends has hashes, a verification that has seen its hashes mined is not before the
\* job's first block, and a verification that may still write holds what is in the store.
Knows(t, r, M, C, B, s) ==
    r.pc # "idle" =>
        /\ FailedHere(r.job, r.meta.failed)
        /\ r.pc = "finish" => r.meta.hashes # <<>>
        /\ r.pc \in {"last", "accept", "reject"} /\ r.meta.hashes # <<>> =>
               Blocks[r.job][1] <= s
        /\ r.pc \in VerifySteps /\ t \in C[r.job] =>
               r.meta = M[r.job] /\ B[r.job].status \in Contract!Verifiable

TaskKnows(t) == Knows(t, task[t], meta, current, book, settled)

KnowInv ==
    /\ IInv
    /\ MinedSettled(txs, settled)
    /\ \A j \in Job : FailedHere(j, meta[j].failed)
    /\ \A t \in Task : TaskKnows(t)

-------------------------------------------------------------------------------
(* How the record of a task changes *)

\* Task t goes to step p with the job, block, transaction and metadata it has.
GoesTo(t, p) ==
    /\ task'[t].pc = p
    /\ task'[t].job = task[t].job /\ task'[t].i = task[t].i /\ task'[t].tx = task[t].tx
    /\ task'[t].meta = task[t].meta

OthersRest(t) == \A u \in Task : u # t => task'[u] = task[u]

(* What the operations on a task's record change. *)
LEMMA RecordMoves ==
  ASSUME IInv, NEW t \in Task
  PROVE  /\ \A p \in Steps : GoTo(t, p) => GoesTo(t, p) /\ OthersRest(t)
         /\ End(t) => task'[t] = Idle /\ OthersRest(t)
         /\ Marked(t) => /\ task'[t].pc = "giveUp" /\ task'[t].job = task[t].job
                         /\ task'[t].meta.failed = Blocks[task[t].job][task[t].i]
                         /\ OthersRest(t)
         /\ Awaited(t) => /\ task'[t].pc = Following(task[t].job, task[t].i + 1)
                          /\ task'[t].job = task[t].job /\ task'[t].i = task[t].i + 1
                          /\ task'[t].meta.failed = task[t].meta.failed
                          /\ task'[t].meta.hashes = Append(task[t].sent, task[t].tx)
                          /\ task'[t].meta.hashes # <<>>
                          /\ OthersRest(t)
         /\ NextHash(t) => /\ task'[t].pc \in {"check", "last"}
                           /\ task'[t].job = task[t].job /\ task'[t].meta = task[t].meta
                           /\ OthersRest(t)
<1> DEFINE r == task[t]
<1>0. task \in [Task -> Tasks] /\ r \in Tasks
  BY SoundTask DEF IInv, TasksSound
<1>1. ASSUME NEW q, task' = [task EXCEPT ![t] = q] PROVE task'[t] = q /\ OthersRest(t)
  BY <1>0, <1>1 DEF OthersRest
<1>2. ASSUME NEW p \in Steps, GoTo(t, p) PROVE GoesTo(t, p) /\ OthersRest(t)
  <2> DEFINE q == [r EXCEPT !.pc = p]
  <2>1. task'[t] = q /\ OthersRest(t)
    BY <1>1, <1>2 DEF GoTo
  <2>2. q.pc = p /\ q.job = r.job /\ q.i = r.i /\ q.tx = r.tx /\ q.meta = r.meta
    BY <1>0, Moved
  <2> HIDE DEF q
  <2> QED
    BY <2>1, <2>2 DEF GoesTo
<1>3. End(t) => task'[t] = Idle /\ OthersRest(t)
  BY <1>1 DEF End
<1>4. ASSUME Marked(t)
      PROVE  /\ task'[t].pc = "giveUp" /\ task'[t].job = r.job
             /\ task'[t].meta.failed = Blocks[r.job][r.i]
             /\ OthersRest(t)
  <2> DEFINE q == [r EXCEPT !.pc = "giveUp", !.nonce = 0, !.tx = 0,
                            !.meta = [hashes |-> r.sent, failed |-> Blocks[r.job][r.i]]]
  <2>1. task' = [task EXCEPT ![t] = q]
    BY <1>4 DEF Marked
  <2>2. q.pc = "giveUp" /\ q.job = r.job /\ q.meta.failed = Blocks[r.job][r.i]
    BY <1>0 DEF Tasks
  <2> HIDE DEF q
  <2>3. task'[t] = q /\ OthersRest(t)
    BY <1>1, <2>1
  <2> QED
    BY <2>2, <2>3
<1>5. ASSUME Awaited(t)
      PROVE  /\ task'[t].pc = Following(r.job, r.i + 1)
             /\ task'[t].job = r.job /\ task'[t].i = r.i + 1
             /\ task'[t].meta.failed = r.meta.failed
             /\ task'[t].meta.hashes = Append(r.sent, r.tx)
             /\ task'[t].meta.hashes # <<>>
             /\ OthersRest(t)
  <2> DEFINE more == Append(r.sent, r.tx)
             p == Following(r.job, r.i + 1)
             q == [r EXCEPT !.pc = Following(r.job, r.i + 1), !.i = @ + 1, !.nonce = 0, !.tx = 0,
                            !.sent = Append(r.sent, r.tx), !.meta.hashes = Append(r.sent, r.tx)]
  <2>0. r \in Tasks
    BY <1>0
  <2>1. task' = [task EXCEPT ![t] = q]
    BY <2>0, <1>5 DEF Awaited, Tasks
  <2>2. more # <<>>
    <3>1. r.sent \in Seq(Nat) /\ r.tx \in Nat
      BY <1>0 DEF Tasks
    <3>2. more \in Seq(Nat) /\ Len(more) = Len(r.sent) + 1 /\ Len(r.sent) \in Nat
      BY <3>1, AppendProperties
    <3> QED
      BY <3>2
  <2>3. q.pc = p /\ q.job = r.job /\ q.i = r.i + 1
        /\ q.meta = [r.meta EXCEPT !.hashes = more]
    BY <2>0 DEF Tasks
  <2> HIDE DEF more, p
  <2>4. DOMAIN r.meta = {"hashes", "failed"}
    BY <1>0 DEF Tasks, Metadata
  <2>5. q.meta.failed = r.meta.failed /\ q.meta.hashes = more
    BY <2>3, <2>4
  <2> HIDE DEF q
  <2>6. task'[t] = q /\ OthersRest(t)
    BY <1>1, <2>1
  <2> QED
    BY <2>2, <2>3, <2>5, <2>6 DEF p, more
<1>6. ASSUME NextHash(t)
      PROVE  /\ task'[t].pc \in {"check", "last"}
             /\ task'[t].job = r.job /\ task'[t].meta = r.meta
             /\ OthersRest(t)
  <2> DEFINE p == IF r.i < Len(Recorded(t)) /\ r.i < Len(Blocks[r.job]) THEN "check" ELSE "last"
             q == [r EXCEPT !.pc = p, !.i = @ + 1]
  <2>1. task' = [task EXCEPT ![t] = q]
    BY <1>6 DEF NextHash
  <2>2. p \in {"check", "last"}
    OBVIOUS
  <2> HIDE DEF p
  <2>3. q.pc = p /\ q.job = r.job /\ q.meta = r.meta
    BY <1>0 DEF Tasks
  <2> HIDE DEF q
  <2>4. task'[t] = q /\ OthersRest(t)
    BY <1>1, <2>1
  <2> QED
    BY <2>2, <2>3, <2>4
<1> QED
  BY <1>2, <1>3, <1>4, <1>5, <1>6

(* A task that begins holds the job and the metadata in the store. *)
LEMMA BeginMoves ==
  ASSUME IInv, NEW t \in Task, NEW j \in Job, NEW p \in Steps, NEW m, Begin(t, j, p, m)
  PROVE  /\ task'[t].pc = p /\ task'[t].job = j /\ task'[t].i = 1 /\ task'[t].meta = meta[j]
         /\ task[t].pc = "idle" /\ task[t] = Idle
         /\ OthersRest(t)
<1> DEFINE q == [Idle EXCEPT !.pc = p, !.job = j, !.msg = m, !.i = 1, !.meta = meta[j]]
<1>1. task \in [Task -> Tasks] /\ task' = [task EXCEPT ![t] = q] /\ task[t].pc = "idle"
  BY DEF Begin, IInv, TasksSound
<1>2. q.pc = p /\ q.job = j /\ q.i = 1 /\ q.meta = meta[j]
  BY DEF Idle
<1> HIDE DEF q
<1>3. task[t] = Idle
  BY <1>1, SoundTask DEF Sound
<1> QED
  BY <1>1, <1>2, <1>3 DEF OthersRest

(* An attempt starts at one of its blocks: what failed before is one of them. *)
LEMMA FirstToSendHere ==
  ASSUME NEW j \in Job, NEW data \in Metadata, FailedHere(j, data.failed)
  PROVE  FirstToSend(j, data) \in DOMAIN Blocks[j]
<1>1. /\ DOMAIN Blocks[j] = 1 .. Len(Blocks[j]) /\ Len(Blocks[j]) \in Nat \ {0}
      /\ \A i \in DOMAIN Blocks[j] : Blocks[j][i] \in Nat
  BY BlocksOf
<1>2. \E i \in DOMAIN Blocks[j] : Blocks[j][i] >= data.failed
  <2>1. CASE data.failed = 0
    <3>1. 1 \in DOMAIN Blocks[j] /\ Blocks[j][1] >= 0
      BY <1>1
    <3> QED
      BY <2>1, <3>1
  <2>2. CASE \E i \in DOMAIN Blocks[j] : Blocks[j][i] = data.failed
    BY <1>1, <2>2
  <2> QED
    BY <2>1, <2>2 DEF FailedHere
<1> DEFINE S == {i \in DOMAIN Blocks[j] : Blocks[j][i] >= data.failed}
<1>3. S \in SUBSET Nat /\ S # {}
  BY <1>1, <1>2
<1>4. \E m \in S : \A k \in S : m <= k
  <2> HIDE DEF S
  <2> QED
    BY <1>3, LeastNumber
<1>5. \E i \in DOMAIN Blocks[j] :
          /\ Blocks[j][i] >= data.failed
          /\ \A k \in DOMAIN Blocks[j] : Blocks[j][k] >= data.failed => i <= k
  BY <1>4
<1> QED
  BY <1>2, <1>5 DEF FirstToSend

(* No block of a job comes before its first one, or after its last. *)
LEMMA FirstOfJob ==
  ASSUME NEW j \in Job, NEW i \in DOMAIN Blocks[j]
  PROVE  /\ 1 \in DOMAIN Blocks[j]
         /\ Blocks[j][1] \in Nat /\ Blocks[j][i] \in Nat /\ Last(Blocks[j]) \in Nat
         /\ Blocks[j][1] <= Blocks[j][i] /\ Blocks[j][i] <= Last(Blocks[j])
<1>1. /\ DOMAIN Blocks[j] = 1 .. Len(Blocks[j]) /\ Len(Blocks[j]) \in Nat \ {0}
      /\ \A n \in DOMAIN Blocks[j] : Blocks[j][n] \in Nat
      /\ Last(Blocks[j]) = Blocks[j][Len(Blocks[j])]
  BY BlocksOf DEF Last
<1>2. \A n \in DOMAIN Blocks[j] : Blocks[j][n] = Blocks[j][1] + n - 1
  BY StateUpdateAssumption
<1>3. 1 \in DOMAIN Blocks[j] /\ Len(Blocks[j]) \in DOMAIN Blocks[j]
  BY <1>1
<1>4. /\ Blocks[j][i] = Blocks[j][1] + i - 1 /\ Last(Blocks[j]) = Blocks[j][1] + Len(Blocks[j]) - 1
      /\ i \in Nat /\ 1 <= i /\ i <= Len(Blocks[j])
  BY <1>1, <1>2, <1>3
<1>5. /\ Blocks[j][1] \in Nat /\ Blocks[j][i] \in Nat
      /\ Last(Blocks[j]) \in Nat /\ Len(Blocks[j]) \in Nat
  BY <1>1, <1>3
<1> QED
  BY <1>3, <1>4, <1>5

(* What sending a transaction makes of those that are there. *)
LEMMA SentIs ==
  ASSUME ChainTypes, NEW b \in Block, NEW n \in Nat
  PROVE  LET U == Sent(b, n) IN
         /\ \A h \in DOMAIN txs : /\ U[h].block = txs[h].block
                                  /\ U[h].status = IF h \in Rivals(n) THEN "dropped"
                                                                      ELSE txs[h].status
         /\ U[Len(txs) + 1].block = b /\ U[Len(txs) + 1].status = "pool"
         /\ DOMAIN U = DOMAIN txs \cup {Len(txs) + 1}
         /\ Len(txs) + 1 \notin DOMAIN txs
<1> DEFINE one == [block |-> b, nonce |-> n, status |-> "pool"]
           old == [h \in Hashes |-> IF h \in Rivals(n) THEN [txs[h] EXCEPT !.status = "dropped"]
                                                       ELSE txs[h]]
<1>1. Hashes = 1 .. Len(txs) /\ Len(txs) \in Nat /\ \A h \in Hashes : txs[h] \in Transactions
  BY DEF ChainTypes, Hashes
<1>2. one \in Transactions /\ one.block = b /\ one.status = "pool"
  BY DEF Transactions, TxStatuses
<1>3. \A h \in Hashes : /\ old[h] \in Transactions /\ old[h].block = txs[h].block
                        /\ old[h].status = IF h \in Rivals(n) THEN "dropped" ELSE txs[h].status
  BY <1>1 DEF Transactions, TxStatuses
<1>4. old \in [1 .. Len(txs) -> Transactions]
  BY <1>1, <1>3
<1> HIDE DEF one, old
<1>5. old \in Seq(Transactions) /\ Len(old) = Len(txs)
  BY <1>1, <1>4, TransactionsAre
<1>6. /\ Len(Append(old, one)) = Len(txs) + 1 /\ Append(old, one) \in Seq(Transactions)
      /\ \A i \in 1 .. Len(txs) : Append(old, one)[i] = old[i]
      /\ Append(old, one)[Len(txs) + 1] = one
  BY <1>2, <1>5, AppendProperties
<1>7. /\ DOMAIN Append(old, one) = 1 .. Len(txs) + 1 /\ DOMAIN txs = 1 .. Len(txs)
  BY <1>1, <1>6 DEF Hashes
<1>8. DOMAIN Append(old, one) = DOMAIN txs \cup {Len(txs) + 1} /\ Len(txs) + 1 \notin DOMAIN txs
  BY <1>1, <1>7
<1>9. Sent(b, n) = Append(old, one)
  BY DEF Sent, old, one
<1> QED
  BY <1>1, <1>2, <1>3, <1>6, <1>7, <1>8, <1>9 DEF Hashes

-------------------------------------------------------------------------------
(* What others know stays true *)

\* A copy of task u that is up to date still is one of a job to verify, with its metadata.
Untouched(u) ==
    \A j \in Job : u \in current'[j] =>
        /\ u \in current[j]
        /\ book[j].status \in Contract!Verifiable =>
               meta'[j] = meta[j] /\ book'[j].status \in Contract!Verifiable

(* What a task knows stays true while its copy is left alone. *)
LEMMA KnowsStays ==
  ASSUME KnowInv, IInv', NEW u \in Task, task'[u] = task[u], Untouched(u), settled <= settled'
  PROVE  TaskKnows(u)'
<1> DEFINE r == task[u]
<1>1. TaskKnows(u) /\ (r.pc # "idle" => r.job \in Job) /\ settled \in Int /\ settled' \in Int
  BY SoundTask DEF KnowInv, IInv, ChainTypes
<1>2. r.pc # "idle" => Blocks[r.job][1] \in Nat
  <2>1. r.pc # "idle" => 1 \in DOMAIN Blocks[r.job]
    BY <1>1, BlocksOf
  <2> QED
    BY <1>1, <2>1, BlocksOf
<1>3. ASSUME r.pc \in {"last", "accept", "reject"}, r.meta.hashes # <<>>
      PROVE  Blocks[r.job][1] <= settled'
  <2>1. Blocks[r.job][1] <= settled /\ Blocks[r.job][1] \in Nat
    BY <1>1, <1>2, <1>3 DEF TaskKnows, Knows
  <2> QED
    BY <1>1, <2>1
<1>4. ASSUME r.pc \in VerifySteps, u \in current'[r.job]
      PROVE  r.meta = meta'[r.job] /\ book'[r.job].status \in Contract!Verifiable
  <2>1. r.job \in Job /\ r.pc # "idle"
    BY <1>1, <1>4 DEF VerifySteps
  <2>2. u \in current[r.job]
    BY <1>4, <2>1 DEF Untouched
  <2>3. r.meta = meta[r.job] /\ book[r.job].status \in Contract!Verifiable
    BY <1>1, <1>4, <2>1, <2>2 DEF TaskKnows, Knows
  <2> QED
    BY <1>4, <2>1, <2>3 DEF Untouched
<1> QED
  BY <1>1, <1>3, <1>4 DEF TaskKnows, Knows

(* One task goes on, and the others' copies are left alone. *)
LEMMA OneKnows ==
  ASSUME KnowInv, IInv', NEW t \in Task, OthersRest(t), \A u \in Task : u # t => Untouched(u),
         settled <= settled', MinedSettled(txs', settled'),
         \A j \in Job : FailedHere(j, meta'[j].failed), TaskKnows(t)'
  PROVE  KnowInv'
<1>1. ASSUME NEW u \in Task PROVE TaskKnows(u)'
  <2>1. CASE u = t
    BY <2>1
  <2>2. CASE u # t
    BY <2>2, KnowsStays DEF OthersRest
  <2> QED
    BY <2>1, <2>2
<1> QED
  BY <1>1 DEF KnowInv

(* A task goes on by itself. *)
LEMMA SilentKnows ==
  ASSUME KnowInv, IInv', NEW t \in Task, OthersRest(t),
         UNCHANGED <<book, current, meta, chainVars>>,
         Knows(t, task'[t], meta, current, book, settled)
  PROVE  KnowInv'
<1>1. settled' = settled /\ txs' = txs /\ meta' = meta /\ settled <= settled'
  BY DEF chainVars, KnowInv, IInv, ChainTypes
<1>2. \A u \in Task : Untouched(u)
  BY DEF Untouched
<1>3. TaskKnows(t)'
  BY <1>1 DEF TaskKnows
<1> QED
  BY <1>1, <1>2, <1>3, OneKnows DEF KnowInv

(* An operation of the store touches the copies of its own task only. *)
LEMMA StoreTouches ==
  ASSUME StoreTypeOK, NEW t \in Task, NEW j \in Job, OtherStep(t, j) \/ RecordVerified(t, j),
         \/ meta' = meta
         \/ /\ RecordProcessed(t, j) \/ RecordFailed(t, j)
            /\ \A i \in Job : i # j => meta'[i] = meta[i]
  PROVE  \A u \in Task : u # t => Untouched(u)
<1> SUFFICES ASSUME NEW u \in Task, u # t, NEW i \in Job, u \in current'[i]
             PROVE  /\ u \in current[i]
                    /\ book[i].status \in Contract!Verifiable =>
                           meta'[i] = meta[i] /\ book'[i].status \in Contract!Verifiable
  BY DEF Untouched
<1>1. u \in current[i] /\ (i # j => book'[i] = book[i])
  BY StoreMoves
<1>2. ASSUME i = j, book[j].status \in Contract!Verifiable
      PROVE  book'[j] = book[j] /\ meta' = meta
  <2>1. ~Owned(j, {}) /\ ~Owned(j, {t})
    BY <1>2 DEF Owned, StoreTypeOK
  <2>2. ~Contract!Create(j)
    BY <1>2 DEF Contract!Create, Contract!Move, Contract!Verifiable
  <2>3. \E q \in Queues : Dismiss(j, q)
    BY <2>1, <2>2
    DEF OtherStep, CreateJob, TakeToProcess, TakeToVerify, Discard, HandleFailure, Intervene,
        Retry, Reverify, RecordProcessed, RecordFailed, RecordRejected, RecordExhausted,
        RecordPending, RecordTimeout, RecordVerified
  <2>4. meta' = meta
    BY <2>1 DEF RecordProcessed, RecordFailed
  <2> QED
    BY <2>3, <2>4 DEF Dismiss
<1>3. i # j => meta'[i] = meta[i]
  OBVIOUS
<1> QED
  BY <1>1, <1>2, <1>3

-------------------------------------------------------------------------------
(* What each handler knows *)

(* A hash found mined is that of a block that is settled, so the job's first block is. *)
LEMMA MinedHash ==
  ASSUME KnowInv, NEW t \in Task, task[t].pc \in {"check", "recheck"}, Recorded(t) # <<>>,
         txs[HashAt(t)].status = "mined"
  PROVE  Blocks[task[t].job][1] <= settled
<1> DEFINE r == task[t]
           h == HashAt(t)
<1>1. r.job \in Job /\ Sound(r, txs, settled) /\ settled \in Int
  BY SoundTask DEF KnowInv, IInv, ChainTypes
<1>2. r.i \in DOMAIN Blocks[r.job] \cap DOMAIN r.meta.hashes
  BY <1>1 DEF Sound, AtBlockAndHash, Recorded
<1>3. PICK k \in DOMAIN Blocks[r.job] : txs[h].block = Blocks[r.job][k]
  BY <1>1, <1>2 DEF Sound, InOrderIn, HashAt, Recorded
<1>4. h \in DOMAIN txs
  BY <1>1, <1>2 DEF Sound, InOrderIn, HashAt, Recorded
<1>5. Blocks[r.job][k] <= settled
  BY <1>3, <1>4 DEF KnowInv, MinedSettled
<1>6. Blocks[r.job][1] <= Blocks[r.job][k] /\ Blocks[r.job][1] \in Nat /\ Blocks[r.job][k] \in Nat
  BY <1>1, <1>3, FirstOfJob
<1> QED
  BY <1>1, <1>5, <1>6

(* A task that ends, fails or has only its message left to send. *)
LEMMA LittleKnown ==
  ASSUME KnowInv, NEW t \in Task, NEW q,
         \/ q = Idle
         \/ /\ q.pc \in {"giveUp", "announce", "requeue"} /\ q.job = task[t].job
            /\ q.meta = task[t].meta /\ task[t].pc # "idle",
         NEW M, NEW C, NEW B, NEW s
  PROVE  Knows(t, q, M, C, B, s)
<1>1. Idle.pc = "idle"
  BY DEF Idle
<1>2. TaskKnows(t)
  BY DEF KnowInv
<1> QED
  BY <1>1, <1>2 DEF Knows, TaskKnows, VerifySteps

(* The steps of process_job before its result is written, and those that fail. *)
LEMMA ProcessKnows ==
  ASSUME KnowInv, IInv', NEW t \in Task,
         \/ Validate(t) \/ Fetch(t) \/ Unimplemented(t) \/ UnknownDa(t) \/ ReadNonce(t)
         \/ Refused(t) \/ Await(t) \/ AwaitedInVain(t) \/ ProcessCallFails(t)
  PROVE  KnowInv'
<1> DEFINE r == task[t]
           q == task'[t]
<1>0. /\ IInv /\ Sound(r, txs, settled) /\ r \in Tasks /\ TaskKnows(t) /\ r.pc # "idle"
      /\ r.job \in Job
  BY SoundTask
  DEF KnowInv, Validate, Fetch, Unimplemented, UnknownDa, ReadNonce, Refused, Await,
      AwaitedInVain, ProcessCallFails
<1>1. UNCHANGED <<book, current, meta, chainVars>>
  BY DEF Validate, Fetch, Unimplemented, UnknownDa, ReadNonce, Refused, Await,
         AwaitedInVain, ProcessCallFails, Others, storeVars
<1>2. FailedHere(r.job, r.meta.failed)
  BY <1>0 DEF TaskKnows, Knows
<1>3. ASSUME NEW p \in {"giveUp", "nonce"}, GoTo(t, p) PROVE KnowInv'
  <2>1. p \in Steps
    BY DEF Steps, ProcessSteps
  <2>2. GoesTo(t, p) /\ OthersRest(t)
    BY <1>0, <1>3, <2>1, RecordMoves
  <2>3. Knows(t, q, meta, current, book, settled)
    BY <1>2, <2>2 DEF Knows, GoesTo, VerifySteps
  <2> QED
    BY <1>1, <2>2, <2>3, SilentKnows
<1>4. ASSUME Marked(t), r.pc \in AttemptSteps PROVE KnowInv'
  <2>1. /\ q.pc = "giveUp" /\ q.job = r.job /\ q.meta.failed = Blocks[r.job][r.i]
        /\ OthersRest(t)
    BY <1>0, <1>4, RecordMoves
  <2>2. r.i \in DOMAIN Blocks[r.job]
    BY <1>0, <1>4 DEF Sound
  <2>3. Knows(t, q, meta, current, book, settled)
    BY <2>1, <2>2 DEF Knows, FailedHere, VerifySteps
  <2> QED
    BY <1>1, <2>1, <2>3, SilentKnows
<1>5. ASSUME q.pc \in {"fetch", "submit"}, q.job = r.job, q.meta = r.meta, OthersRest(t)
      PROVE  KnowInv'
  <2>1. Knows(t, q, meta, current, book, settled)
    BY <1>2, <1>5 DEF Knows, VerifySteps
  <2> QED
    BY <1>1, <1>5, <2>1, SilentKnows
<1>6. CASE Validate(t)
  <2> DEFINE n == FirstToSend(r.job, r.meta)
             ok == [r EXCEPT !.pc = Following(r.job, n), !.i = n]
  <2>1. CASE Unmarked(t)
    BY <1>3, <2>1 DEF Unmarked
  <2>2. CASE task' = [task EXCEPT ![t] = ok]
    <3>1. n \in DOMAIN Blocks[r.job]
      BY <1>0, <1>2, FirstToSendHere DEF Tasks
    <3>2. Following(r.job, n) = "fetch"
      BY <1>0, <3>1, BlocksOf DEF Following
    <3>3. ok.pc = "fetch" /\ ok.job = r.job /\ ok.meta = r.meta
      BY <1>0, <3>2 DEF Tasks
    <3>4. task'[t] = ok /\ OthersRest(t)
      <4> HIDE DEF ok
      <4> QED
        BY <1>0, <2>2 DEF OthersRest, IInv, TasksSound
    <3> HIDE DEF ok
    <3> QED
      BY <1>5, <3>3, <3>4
  <2> QED
    BY <1>6, <2>1, <2>2 DEF Validate
<1>7. CASE ReadNonce(t)
  <2> DEFINE ok == [r EXCEPT !.pc = "submit", !.nonce = Nonce]
  <2>1. task' = [task EXCEPT ![t] = ok]
    BY <1>7 DEF ReadNonce
  <2>2. ok.pc = "submit" /\ ok.job = r.job /\ ok.meta = r.meta
    BY <1>0 DEF Tasks
  <2>3. task'[t] = ok /\ OthersRest(t)
    <3> HIDE DEF ok
    <3> QED
      BY <1>0, <2>1 DEF OthersRest, IInv, TasksSound
  <2> HIDE DEF ok
  <2> QED
    BY <1>5, <2>2, <2>3
<1>8. CASE Await(t) \/ AwaitedInVain(t)
  <2>1. /\ q.pc = Following(r.job, r.i + 1) /\ q.job = r.job
        /\ q.meta.failed = r.meta.failed /\ q.meta.hashes # <<>>
        /\ OthersRest(t)
    BY <1>0, <1>8, RecordMoves DEF Await, AwaitedInVain
  <2>2. Knows(t, q, meta, current, book, settled)
    BY <1>2, <2>1 DEF Knows, Following, VerifySteps
  <2> QED
    BY <1>1, <2>1, <2>2, SilentKnows
<1>9. CASE Fetch(t) \/ Unimplemented(t)
  BY <1>3, <1>9 DEF Fetch, Unimplemented, Unmarked
<1>10. CASE UnknownDa(t) \/ Refused(t)
  BY <1>4, <1>10 DEF UnknownDa, Refused, AttemptSteps
<1>11. CASE ProcessCallFails(t)
  BY <1>3, <1>4, <1>11 DEF ProcessCallFails, Unmarked, AttemptSteps
<1> QED
  BY <1>6, <1>7, <1>8, <1>9, <1>10, <1>11

(* A transaction is added, which is not mined yet. *)
LEMMA SendingKnows ==
  ASSUME KnowInv, IInv', NEW t \in Task, Submit(t) \/ AnswerLost(t)
  PROVE  KnowInv'
<1> DEFINE r == task[t]
           q == task'[t]
<1>0. /\ IInv /\ Sound(r, txs, settled) /\ r \in Tasks /\ TaskKnows(t) /\ r.pc = "submit"
      /\ r.job \in Job /\ ChainTypes
  BY SoundTask DEF KnowInv, IInv, Submit, AnswerLost
<1>1. /\ UNCHANGED <<book, current, meta, settled>> /\ txs' = Sent(BlockAt(t), r.nonce)
      /\ settled <= settled'
  BY <1>0 DEF Submit, AnswerLost, storeVars, ChainTypes
<1>2. r.i \in DOMAIN Blocks[r.job] /\ BlockAt(t) \in Block /\ r.nonce \in Nat
  BY <1>0, BlocksOf DEF Sound, BlockAt, Tasks, AttemptSteps
<1>3. MinedSettled(txs', settled')
  <2> DEFINE U == Sent(BlockAt(t), r.nonce)
  <2>1. /\ \A h \in DOMAIN txs : /\ U[h].block = txs[h].block
                                 /\ U[h].status = IF h \in Rivals(r.nonce) THEN "dropped"
                                                                          ELSE txs[h].status
        /\ U[Len(txs) + 1].status = "pool"
        /\ DOMAIN U = DOMAIN txs \cup {Len(txs) + 1}
    BY <1>0, <1>2, SentIs, ZenonT(30)
  <2>2. txs' = U
    BY <1>1
  <2> HIDE DEF U
  <2> QED
    BY <1>1, <2>1, <2>2 DEF KnowInv, MinedSettled
<1>4. TaskKnows(t)' /\ OthersRest(t)
  <2>1. FailedHere(r.job, r.meta.failed)
    BY <1>0 DEF TaskKnows, Knows
  <2>2. CASE Submit(t)
    <3> DEFINE ok == [r EXCEPT !.pc = "await", !.tx = Len(txs) + 1]
    <3>1. task' = [task EXCEPT ![t] = ok]
      BY <2>2 DEF Submit
    <3>2. ok.pc = "await" /\ ok.job = r.job /\ ok.meta = r.meta
      BY <1>0 DEF Tasks
    <3>3. task'[t] = ok /\ OthersRest(t)
      <4> HIDE DEF ok
      <4> QED
        BY <1>0, <3>1 DEF OthersRest, IInv, TasksSound
    <3> HIDE DEF ok
    <3> QED
      BY <2>1, <3>2, <3>3 DEF TaskKnows, Knows, VerifySteps
  <2>3. CASE AnswerLost(t)
    <3>1. /\ q.pc = "giveUp" /\ q.job = r.job /\ q.meta.failed = Blocks[r.job][r.i]
          /\ OthersRest(t)
      BY <1>0, <2>3, RecordMoves DEF AnswerLost
    <3> QED
      BY <1>2, <3>1 DEF TaskKnows, Knows, FailedHere, VerifySteps
  <2> QED
    BY <2>2, <2>3
<1>5. \A u \in Task : Untouched(u)
  BY <1>1 DEF Untouched
<1> QED
  BY <1>1, <1>3, <1>4, <1>5, OneKnows DEF KnowInv

(* The steps of verify_job before its verdict is written. *)
LEMMA VerificationKnows ==
  ASSUME KnowInv, IInv', NEW t \in Task,
         CheckHash(t) \/ WaitForHash(t) \/ WaitInVain(t) \/ RecheckHash(t) \/ CheckLast(t)
  PROVE  KnowInv'
<1> DEFINE r == task[t]
           q == task'[t]
<1>0. /\ IInv /\ Sound(r, txs, settled) /\ r \in Tasks /\ TaskKnows(t)
      /\ r.pc \in {"check", "wait", "recheck", "last"}
      /\ r.job \in Job /\ UNCHANGED <<book, current, meta, chainVars>>
  BY SoundTask
  DEF KnowInv, CheckHash, WaitForHash, WaitInVain, RecheckHash, CheckLast, Others, storeVars
<1>1. /\ FailedHere(r.job, r.meta.failed)
      /\ t \in current[r.job] => r.meta = meta[r.job] /\ book[r.job].status \in Contract!Verifiable
      /\ r.pc = "last" /\ r.meta.hashes # <<>> => Blocks[r.job][1] <= settled
  BY <1>0 DEF TaskKnows, Knows, VerifySteps
<1>2. ASSUME NEW p \in {"wait", "recheck", "last", "accept", "reject"}, GoTo(t, p),
             p \in {"last", "accept", "reject"} =>
                 r.pc = "last" \/ Recorded(t) = <<>>
      PROVE  KnowInv'
  <2>1. p \in Steps
    BY DEF Steps, VerifySteps
  <2>2. GoesTo(t, p) /\ OthersRest(t)
    BY <1>0, <1>2, <2>1, RecordMoves
  <2>3. Knows(t, q, meta, current, book, settled)
    BY <1>1, <1>2, <2>2 DEF Knows, GoesTo, Recorded
  <2> QED
    BY <1>0, <2>2, <2>3, SilentKnows
<1>3. ASSUME r.pc \in {"check", "recheck"}, Recorded(t) # <<>>,
             txs[HashAt(t)].status = "mined", NextHash(t)
      PROVE  KnowInv'
  <2>1. /\ q.pc \in {"check", "last"} /\ q.job = r.job /\ q.meta = r.meta
        /\ OthersRest(t)
    BY <1>0, <1>3, RecordMoves
  <2>2. Blocks[r.job][1] <= settled
    BY <1>3, MinedHash
  <2>3. Knows(t, q, meta, current, book, settled)
    BY <1>1, <2>1, <2>2 DEF Knows
  <2> QED
    BY <1>0, <2>1, <2>3, SilentKnows
<1>4. ASSUME End(t) PROVE KnowInv'
  <2>1. task'[t] = Idle /\ OthersRest(t)
    BY <1>0, <1>4, RecordMoves
  <2> QED
    BY <1>0, <2>1, LittleKnown, SilentKnows
<1>5. CASE CheckHash(t)
  <2>1. CASE Recorded(t) = <<>>
    BY <1>2, <1>5, <2>1 DEF CheckHash
  <2>2. CASE Recorded(t) # <<>> /\ txs[HashAt(t)].status = "mined"
    BY <1>3, <1>5, <2>2 DEF CheckHash
  <2>3. CASE Recorded(t) # <<>> /\ txs[HashAt(t)].status # "mined"
    BY <1>2, <1>5, <2>3 DEF CheckHash
  <2> QED
    BY <2>1, <2>2, <2>3
<1>6. CASE WaitForHash(t) \/ WaitInVain(t)
  BY <1>2, <1>6 DEF WaitForHash, WaitInVain
<1>7. CASE RecheckHash(t)
  <2>1. Recorded(t) # <<>>
    BY <1>0, <1>7 DEF RecheckHash, Sound, AtBlockAndHash, Recorded
  <2>2. CASE txs[HashAt(t)].status = "mined"
    BY <1>3, <1>7, <2>1, <2>2 DEF RecheckHash
  <2>3. CASE txs[HashAt(t)].status # "mined"
    BY <1>4, <1>7, <2>3 DEF RecheckHash
  <2> QED
    BY <2>2, <2>3
<1>8. CASE CheckLast(t)
  <2>1. CASE End(t)
    BY <1>4, <2>1
  <2>2. CASE \E p \in {"accept", "reject"} : GoTo(t, p)
    BY <1>2, <1>8, <2>2 DEF CheckLast
  <2> QED
    BY <1>8, <2>1, <2>2 DEF CheckLast
<1> QED
  BY <1>5, <1>6, <1>7, <1>8

(* A handler writes its result: the metadata is that of its copy. *)
LEMMA RecordKnows ==
  ASSUME KnowInv, IInv', NEW t \in Task, Finish(t) \/ GiveUp(t) \/ Accept(t) \/ Reject(t)
  PROVE  KnowInv'
<1> DEFINE r == task[t]
           j == r.job
<1>0. IInv /\ r \in Tasks /\ TaskKnows(t) /\ r.pc # "idle" /\ j \in Job /\ StoreTypeOK
  BY SoundTask DEF KnowInv, IInv, Finish, GiveUp, Accept, Reject
<1>1. UNCHANGED chainVars
  BY DEF Finish, GiveUp, Accept, Reject, Others
<1>2. settled' = settled /\ txs' = txs /\ settled <= settled'
  BY <1>0, <1>1 DEF chainVars, IInv, ChainTypes
<1>3. meta' = meta \/ /\ RecordProcessed(t, j) \/ RecordFailed(t, j)
                      /\ meta' = [meta EXCEPT ![j] = r.meta]
  BY DEF Finish, GiveUp, Accept, Reject, Others
<1>4. OtherStep(t, j) \/ RecordVerified(t, j)
  BY DEF Finish, GiveUp, Accept, Reject, OtherStep
<1>5. meta \in [Job -> Metadata] /\ FailedHere(j, r.meta.failed)
  BY <1>0 DEF IInv, MetaSound, TaskKnows, Knows
<1>6. \A u \in Task : u # t => Untouched(u)
  BY <1>0, <1>3, <1>4, <1>5, StoreTouches
<1>7. \A i \in Job : FailedHere(i, meta'[i].failed)
  BY <1>0, <1>3, <1>5 DEF KnowInv
<1>8. TaskKnows(t)' /\ OthersRest(t)
  <2>1. CASE End(t)
    BY <1>0, <2>1, RecordMoves, LittleKnown DEF TaskKnows
  <2>2. CASE \E p \in {"announce", "requeue"} : GoTo(t, p)
    <3>1. PICK p \in {"announce", "requeue"} : GoTo(t, p)
      BY <2>2
    <3>2. GoesTo(t, p) /\ OthersRest(t)
      BY <1>0, <3>1, RecordMoves DEF Steps, SendSteps
    <3> QED
      BY <1>0, <3>2, LittleKnown DEF TaskKnows, GoesTo
  <2> QED
    BY <2>1, <2>2 DEF Finish, GiveUp, Accept, Reject
<1>9. MinedSettled(txs', settled')
  BY <1>2 DEF KnowInv
<1> QED
  BY <1>2, <1>6, <1>7, <1>8, <1>9, OneKnows

(* A task ends, or its message reappears, or it is sent. *)
LEMMA EndingKnows ==
  ASSUME KnowInv, IInv', NEW t \in Task,
         Send(t) \/ Outdated(t) \/ HandlerErrs(t) \/ Expire(t) \/ Crash(t)
  PROVE  KnowInv'
<1>0. IInv /\ TaskKnows(t) /\ task[t] \in Tasks /\ UNCHANGED <<book, current, meta, chainVars>>
  BY SoundTask
  DEF KnowInv, Send, Outdated, HandlerErrs, Expire, Crash, Others, storeVars
<1>1. CASE End(t)
  BY <1>0, <1>1, RecordMoves, LittleKnown, SilentKnows
<1>2. CASE Expire(t)
  <2> DEFINE q == [task[t] EXCEPT !.msg = "none"]
  <2>1. q.pc = task[t].pc /\ q.job = task[t].job /\ q.meta = task[t].meta
        /\ task' = [task EXCEPT ![t] = q]
    BY <1>0, <1>2 DEF Expire, Tasks
  <2> HIDE DEF q
  <2>2. task'[t] = q /\ OthersRest(t)
    BY <1>0, <2>1 DEF OthersRest, IInv, TasksSound
  <2>3. Knows(t, q, meta, current, book, settled)
    BY <1>0, <2>1 DEF TaskKnows, Knows
  <2> QED
    BY <1>0, <2>2, <2>3, SilentKnows
<1> QED
  BY <1>1, <1>2 DEF Send, Outdated, HandlerErrs, Crash

(* A task takes up a job: its copy is that of the store. *)
LEMMA BeginKnows ==
  ASSUME KnowInv, IInv', NEW t \in Task, NEW j \in Job, Claim(t, j) \/ Stamp(t, j)
  PROVE  KnowInv'
<1>0. IInv /\ StoreTypeOK
  BY DEF KnowInv, IInv
<1>1. /\ OtherStep(t, j) /\ UNCHANGED <<meta, settled, txs>> /\ settled <= settled'
  BY <1>0 DEF Claim, Stamp, OtherStep, Begin, Others, chainVars, IInv, ChainTypes
<1>2. \A u \in Task : u # t => Untouched(u)
  BY <1>0, <1>1, StoreTouches
<1>3. FailedHere(j, meta[j].failed)
  BY DEF KnowInv
<1>4. TaskKnows(t)' /\ OthersRest(t)
  <2>1. CASE Claim(t, j)
    <3>1. /\ task'[t].pc = "validate" /\ task'[t].job = j /\ task'[t].meta = meta[j]
          /\ OthersRest(t)
      BY <1>0, <2>1, BeginMoves DEF Claim, Steps, ProcessSteps
    <3> QED
      BY <1>3, <3>1 DEF TaskKnows, Knows, VerifySteps
  <2>2. CASE Stamp(t, j)
    <3>1. /\ task'[t].pc = "check" /\ task'[t].job = j /\ task'[t].meta = meta[j]
          /\ OthersRest(t)
      BY <1>0, <2>2, BeginMoves DEF Stamp, Steps, VerifySteps
    <3>2. book'[j].status \in Contract!Verifiable
      BY <2>2 DEF Stamp, TakeToVerify
    <3> QED
      BY <1>1, <1>3, <3>1, <3>2 DEF TaskKnows, Knows
  <2> QED
    BY <2>1, <2>2
<1> QED
  BY <1>1, <1>2, <1>4, OneKnows DEF KnowInv

(* The worker, the consumers, operators and the chain. *)
LEMMA OthersKnow ==
  ASSUME KnowInv, IInv',
         \/ \E j \in Job : Create(j) \/ Consume(j) \/ Operate(j)
         \/ \E h \in Hashes : Mine(h)
         \/ UNCHANGED vars
  PROVE  KnowInv'
<1>0. PICK t \in Task : TRUE
  BY JobStoreAssumption
<1>1. CASE \E j \in Job : Create(j) \/ Consume(j) \/ Operate(j)
  <2>1. PICK j \in Job : Create(j) \/ Consume(j) \/ Operate(j)
    BY <1>1
  <2>2. UNCHANGED <<meta, settled, txs, task>> /\ settled <= settled'
    BY <2>1 DEF Create, Consume, Operate, Others, chainVars, KnowInv, IInv, ChainTypes
  <2>3. \A u \in Task : OtherStep(u, j) /\ StoreTypeOK
    BY <2>1 DEF Create, Consume, Operate, OtherStep, KnowInv, IInv
  <2>4. \A u \in Task : Untouched(u)
    <3> SUFFICES ASSUME NEW u \in Task, NEW i \in Job, u \in current'[i]
                 PROVE  /\ u \in current[i]
                        /\ book[i].status \in Contract!Verifiable =>
                               meta'[i] = meta[i] /\ book'[i].status \in Contract!Verifiable
      BY DEF Untouched
    <3>1. current' = current \/ Owned(j, {})
      BY <2>1 DEF Create, Consume, Operate, CreateJob, Discard, HandleFailure, Dismiss,
                  Intervene, Retry, Reverify
    <3>2. u \in current[i]
      BY <2>3, <3>1 DEF Owned, StoreTypeOK
    <3>3. i # j => book'[i] = book[i]
      BY <2>3, StoreMoves
    <3>4. i = j /\ book[i].status \in Contract!Verifiable => book' = book
      <4>1. i = j => ~Owned(j, {})
        BY <2>3 DEF Owned, StoreTypeOK
      <4> QED
        BY <2>1, <4>1
        DEF Create, Consume, Operate, CreateJob, Discard, HandleFailure, Dismiss,
            Intervene, Retry, Reverify, Contract!Create, Contract!Move, Contract!Verifiable
    <3> QED
      BY <2>2, <3>2, <3>3, <3>4
  <2>5. TaskKnows(t)'
    BY <2>2, <2>4, KnowsStays
  <2> QED
    BY <2>2, <2>4, <2>5, OneKnows DEF KnowInv, OthersRest
<1>2. CASE \E h \in Hashes : Mine(h)
  <2>1. PICK h \in Hashes : Mine(h)
    BY <1>2
  <2>2. /\ ChainTypes' /\ Grows(txs, txs') /\ DOMAIN txs' = DOMAIN txs /\ settled <= settled'
        /\ settled \in Int
    BY <2>1, MineGrows DEF KnowInv, IInv, ChainTypes
  <2>3. UNCHANGED <<book, current, meta, task>>
    BY <2>1 DEF Mine, storeVars
  <2>4. MinedSettled(txs', settled')
    <3> SUFFICES ASSUME NEW g \in DOMAIN txs', txs'[g].status = "mined"
                 PROVE  txs'[g].block <= settled'
      BY DEF MinedSettled
    <3>1. g \in DOMAIN txs /\ txs'[g].block = txs[g].block /\ txs[g].block \in Nat
      <4>1. g \in DOMAIN txs /\ txs[g] \in Transactions
        BY <2>2 DEF KnowInv, IInv, ChainTypes
      <4> QED
        BY <2>2, <4>1, BlocksOf DEF Grows, Transactions, Block
    <3>2. CASE txs[g].status = "mined"
      <4>1. txs[g].block <= settled
        BY <3>1, <3>2 DEF KnowInv, MinedSettled
      <4> QED
        BY <2>2, <3>1, <4>1 DEF ChainTypes
    <3>3. CASE txs[g].status # "mined"
      <4>1. g = h /\ txs[h].block = settled + 1 /\ settled' = settled + 1
        BY <2>1, <3>1, <3>3 DEF Mine
      <4> QED
        BY <2>2, <3>1, <4>1
    <3> QED
      BY <3>2, <3>3
  <2>5. \A u \in Task : Untouched(u)
    BY <2>3 DEF Untouched
  <2>6. TaskKnows(t)'
    BY <2>2, <2>3, <2>5, KnowsStays
  <2> QED
    BY <2>2, <2>3, <2>4, <2>5, <2>6, OneKnows DEF KnowInv, OthersRest
<1>3. CASE UNCHANGED vars
  BY <1>3 DEF vars, storeVars, chainVars, KnowInv, TaskKnows
<1> QED
  BY <1>1, <1>2, <1>3

(* What handlers know holds at the start, *)
LEMMA InitKnowInv == ASSUME Init PROVE KnowInv
<1>1. \A t \in Task : task[t].pc = "idle"
  BY DEF Init, Idle
<1>2. \A j \in Job : FailedHere(j, meta[j].failed)
  BY DEF Init, NoMetadata, FailedHere
<1>3. MinedSettled(txs, settled)
  BY DEF Init, MinedSettled
<1> QED
  BY <1>1, <1>2, <1>3, InitIInv DEF KnowInv, TaskKnows, Knows

(* and after every step. *)
LEMMA StepKnowInv == ASSUME KnowInv, [Next]_vars PROVE KnowInv'
<1>1. IInv'
  BY StepIInv DEF KnowInv
<1>2. ASSUME NEW t \in Task, TaskStep(t) PROVE KnowInv'
  BY <1>1, <1>2, ProcessKnows, SendingKnows, VerificationKnows, RecordKnows, EndingKnows
  DEF TaskStep, ProcessStep, VerifyStep
<1>3. ASSUME NEW t \in Task, Fault(t) PROVE KnowInv'
  BY <1>1, <1>3, ProcessKnows, EndingKnows DEF Fault
<1>4. ASSUME NEW t \in Task, NEW j \in Job, Claim(t, j) \/ Stamp(t, j) PROVE KnowInv'
  BY <1>1, <1>4, BeginKnows
<1> QED
  BY <1>1, <1>2, <1>3, <1>4, OthersKnow DEF Next

-------------------------------------------------------------------------------
(* Where the hashes of an attempt that went through end *)

EndsAtLast(j, hashes, T) ==
    /\ hashes # <<>>
    /\ Last(hashes) \in DOMAIN T
    /\ T[Last(hashes)].block = Last(Blocks[j])

\* An attempt that has nothing left to send, and a job that was processed, have sent the
\* last block.
EndsInv ==
    /\ KnowInv
    /\ \A t \in Task : task[t].pc = "finish" => EndsAtLast(task[t].job, task[t].meta.hashes, txs)
    /\ \A j \in Job : Processed(j) => EndsAtLast(j, meta[j].hashes, txs)

(* No step takes a transaction away or changes its block. *)
LEMMA ChainGrows == ASSUME IInv, [Next]_vars PROVE Grows(txs, txs')
<1>1. CASE \E t \in Task : Submit(t) \/ AnswerLost(t)
  <2>1. PICK t \in Task : Submit(t) \/ AnswerLost(t)
    BY <1>1
  <2>2. BlockAt(t) \in Block /\ task[t].nonce \in Nat
    <3>1. /\ task[t].pc = "submit" /\ task[t] \in Tasks /\ task[t].job \in Job
          /\ Sound(task[t], txs, settled)
      BY <2>1, SoundTask DEF Submit, AnswerLost
    <3> QED
      BY <3>1, BlocksOf DEF Sound, BlockAt, Tasks, AttemptSteps
  <2> QED
    BY <2>1, <2>2, SentGrows DEF Submit, AnswerLost, IInv
<1>2. CASE \E h \in Hashes : Mine(h)
  BY <1>2, MineGrows DEF IInv
<1>3. CASE txs' = txs
  BY <1>3 DEF Grows
<1>4. \/ \E t \in Task : Submit(t) \/ AnswerLost(t)
      \/ \E h \in Hashes : Mine(h)
      \/ txs' = txs
  <2>1. ASSUME NEW t \in Task, ProcessStep(t) PROVE Submit(t) \/ AnswerLost(t) \/ txs' = txs
    BY <2>1 DEF ProcessStep, Validate, Fetch, Unimplemented, UnknownDa, ReadNonce, Refused, Await,
                AwaitedInVain, Finish, GiveUp, Others, chainVars
  <2>2. ASSUME NEW t \in Task, VerifyStep(t) \/ Send(t) \/ Outdated(t) \/ Fault(t)
        PROVE  txs' = txs
    BY <2>2 DEF VerifyStep, CheckHash, WaitForHash, WaitInVain, RecheckHash, CheckLast, Accept,
                Reject, Send, Outdated, Fault, ProcessCallFails, HandlerErrs, Expire, Crash,
                Others, chainVars
  <2>3. ASSUME NEW t \in Task, NEW j \in Job, Claim(t, j) \/ Stamp(t, j) PROVE txs' = txs
    BY <2>3 DEF Claim, Stamp, Begin, Others, chainVars
  <2>4. ASSUME NEW j \in Job, Create(j) \/ Consume(j) \/ Operate(j) PROVE txs' = txs
    BY <2>4 DEF Create, Consume, Operate, Others, chainVars
  <2>5. UNCHANGED vars => txs' = txs
    BY DEF vars, chainVars
  <2> QED
    BY <2>1, <2>2, <2>3, <2>4, <2>5 DEF Next, TaskStep
<1> QED
  BY <1>1, <1>2, <1>3, <1>4

(* The hashes of an attempt stay where they end. *)
LEMMA EndsStay ==
  ASSUME NEW j, NEW hashes, NEW T, NEW U, Grows(T, U), EndsAtLast(j, hashes, T)
  PROVE  EndsAtLast(j, hashes, U)
  BY DEF EndsAtLast, Grows

(* The attempt that has just sent and awaited its last block. *)
LEMMA AwaitedEnds ==
  ASSUME IInv, NEW t \in Task, task[t].pc = "await", Awaited(t), task'[t].pc = "finish"
  PROVE  EndsAtLast(task'[t].job, task'[t].meta.hashes, txs)
<1> DEFINE r == task[t]
<1>1. /\ r \in Tasks /\ r.job \in Job /\ r.i \in DOMAIN Blocks[r.job]
      /\ r.tx \in DOMAIN txs /\ txs[r.tx].block = Blocks[r.job][r.i]
  BY SoundTask DEF Sound, AttemptSteps
<1>2. /\ task'[t].job = r.job /\ Following(r.job, r.i + 1) = "finish"
      /\ task'[t].meta.hashes = Append(r.sent, r.tx)
  BY RecordMoves
<1>3. r.i = Len(Blocks[r.job])
  BY <1>1, <1>2, BlocksOf DEF Following
<1>4. Append(r.sent, r.tx) # <<>> /\ Last(Append(r.sent, r.tx)) = r.tx
  <2>1. r.sent \in Seq(Nat) /\ r.tx \in Nat
    BY <1>1 DEF Tasks
  <2> DEFINE more == Append(r.sent, r.tx)
  <2>2. /\ more \in Seq(Nat) /\ Len(more) = Len(r.sent) + 1 /\ Len(r.sent) \in Nat
        /\ more[Len(r.sent) + 1] = r.tx
    BY <2>1, OneMoreHash
  <2> HIDE DEF more
  <2>3. more # <<>> /\ Last(more) = r.tx
    BY <2>2 DEF Last
  <2> QED
    BY <2>3 DEF more
<1>5. txs[r.tx].block = Last(Blocks[r.job])
  BY <1>1, <1>3 DEF Last
<1> QED
  BY <1>1, <1>2, <1>4, <1>5 DEF EndsAtLast

(* What task u does when task t takes a step: only an attempt that has awaited its last  *)
(* block comes to its end.                                                               *)
LEMMA ComesToEnd ==
  ASSUME KnowInv, NEW t \in Task,
         TaskStep(t) \/ Fault(t) \/ \E j \in Job : Claim(t, j) \/ Stamp(t, j)
  PROVE  /\ OthersRest(t)
         /\ task'[t].pc = "finish" =>
                \/ /\ task[t].pc = "finish" /\ task'[t].job = task[t].job
                   /\ task'[t].meta = task[t].meta
                \/ EndsAtLast(task'[t].job, task'[t].meta.hashes, txs)
<1> DEFINE r == task[t]
           q == task'[t]
           Fine == OthersRest(t) /\ q.pc # "finish"
<1>0. IInv /\ r \in Tasks /\ task \in [Task -> Tasks]
  BY SoundTask DEF KnowInv, IInv, TasksSound
<1>1. ASSUME NEW p \in Steps \ {"finish"}, GoTo(t, p) PROVE Fine
  BY <1>0, <1>1, RecordMoves DEF GoesTo
<1>2. ASSUME End(t) \/ Marked(t) \/ NextHash(t) PROVE Fine
  <2>1. Idle.pc # "finish"
    BY DEF Idle
  <2> QED
    BY <1>0, <1>2, <2>1, RecordMoves
<1>3. /\ \A p \in {"nonce", "giveUp", "announce", "requeue", "wait", "recheck", "last", "accept",
                  "reject"} : p \in Steps \ {"finish"}
      /\ {"validate", "check"} \subseteq Steps
  BY DEF Steps, ProcessSteps, VerifySteps, SendSteps
<1>4. CASE Fetch(t) \/ Unimplemented(t) \/ UnknownDa(t) \/ Refused(t) \/ ProcessCallFails(t)
           \/ AnswerLost(t)
  BY <1>1, <1>2, <1>3, <1>4
  DEF Fetch, Unimplemented, UnknownDa, Refused, ProcessCallFails, AnswerLost, Unmarked
<1>5. CASE VerifyStep(t)
  BY <1>1, <1>2, <1>3, <1>5
  DEF VerifyStep, CheckHash, WaitForHash, WaitInVain, RecheckHash, CheckLast, Accept, Reject
<1>6. CASE Finish(t) \/ GiveUp(t) \/ Send(t) \/ Outdated(t) \/ HandlerErrs(t) \/ Crash(t)
  BY <1>1, <1>2, <1>3, <1>6 DEF Finish, GiveUp, Send, Outdated, HandlerErrs, Crash
<1>7. CASE Validate(t)
  <2> DEFINE n == FirstToSend(r.job, r.meta)
             ok == [r EXCEPT !.pc = Following(r.job, n), !.i = n]
  <2>1. CASE Unmarked(t)
    BY <1>1, <1>3, <2>1 DEF Unmarked
  <2>2. CASE task' = [task EXCEPT ![t] = ok]
    <3>1. n \in DOMAIN Blocks[r.job] /\ r.job \in Job
      BY <1>0, <1>7, SoundTask, FirstToSendHere
      DEF Validate, KnowInv, TaskKnows, Knows, Tasks
    <3>2. Following(r.job, n) = "fetch"
      BY <3>1, BlocksOf DEF Following
    <3>3. ok.pc = "fetch"
      BY <1>0, <3>2 DEF Tasks
    <3> HIDE DEF ok
    <3> QED
      BY <1>0, <2>2, <3>3 DEF OthersRest
  <2> QED
    BY <1>7, <2>1, <2>2 DEF Validate
<1>8. CASE ReadNonce(t) \/ Submit(t)
  <2>1. PICK ok : task' = [task EXCEPT ![t] = ok] /\ ok.pc \in {"submit", "await"}
    <3> DEFINE read == [r EXCEPT !.pc = "submit", !.nonce = Nonce]
               sent == [r EXCEPT !.pc = "await", !.tx = Len(txs) + 1]
    <3>1. read.pc = "submit" /\ sent.pc = "await"
      BY <1>0 DEF Tasks
    <3>2. task' = [task EXCEPT ![t] = read] \/ task' = [task EXCEPT ![t] = sent]
      BY <1>8 DEF ReadNonce, Submit
    <3> HIDE DEF read, sent
    <3> QED
      BY <3>1, <3>2
  <2> QED
    BY <1>0, <2>1 DEF OthersRest
<1>9. CASE Await(t) \/ AwaitedInVain(t)
  BY <1>0, <1>9, AwaitedEnds, RecordMoves DEF Await, AwaitedInVain
<1>10. CASE Expire(t)
  <2> DEFINE ok == [r EXCEPT !.msg = "none"]
  <2>1. ok.pc = r.pc /\ ok.job = r.job /\ ok.meta = r.meta /\ task' = [task EXCEPT ![t] = ok]
    BY <1>0, <1>10 DEF Expire, Tasks
  <2> HIDE DEF ok
  <2> QED
    BY <1>0, <2>1 DEF OthersRest
<1>11. CASE \E j \in Job : Claim(t, j) \/ Stamp(t, j)
  BY <1>0, <1>3, <1>11, BeginMoves DEF Claim, Stamp
<1> QED
  BY <1>4, <1>5, <1>6, <1>7, <1>8, <1>9, <1>10, <1>11
  DEF TaskStep, ProcessStep, Fault

(* Which moves make a job one that was processed. *)
LEMMA MovesProcessed ==
  ASSUME book \in [Job -> Contract!Entries], NEW j \in Job, Processed(j)'
  PROVE  /\ ~Contract!Create(j) /\ ~Contract!Lock(j) /\ ~Contract!Abandon(j)
         /\ ~Contract!Retry(j) /\ ~Contract!Reverify(j)
         /\ Contract!Accept(j) \/ Contract!Reject(j) => Processed(j)
<1>1. book[j] \in Contract!Entries
  OBVIOUS
<1>2. /\ book'[j].status \in {"PendingVerification", "VerificationTimeout", "VerificationFailed",
                              "Completed"}
      /\ book'[j].verificationRetry = 0
  BY DEF Processed, Contract!Verifiable
<1>3. ASSUME NEW e, book' = [book EXCEPT ![j] = e] PROVE book'[j] = e
  BY <1>3
<1>4. ~Contract!Create(j) /\ ~Contract!Lock(j) /\ ~Contract!Abandon(j) /\ ~Contract!Retry(j)
  <2>1. ~Contract!Create(j)
    <3>1. Contract!Create(j) => book'[j].status = "Created"
      BY <1>3 DEF Contract!Create, Contract!Move, Contract!Missing
    <3> QED
      BY <1>2, <3>1
  <2>2. ~Contract!Lock(j)
    <3>1. Contract!Lock(j) => book'[j].status = "LockedForProcessing"
      BY <1>1, <1>3 DEF Contract!Lock, Contract!Move, Contract!Entries
    <3> QED
      BY <1>2, <3>1
  <2>3. ~Contract!Abandon(j)
    <3>1. Contract!Abandon(j) => book'[j].status = "Failed"
      BY <1>1, <1>3 DEF Contract!Abandon, Contract!Move, Contract!Entries
    <3> QED
      BY <1>2, <3>1
  <2>4. ~Contract!Retry(j)
    <3>1. Contract!Retry(j) => book'[j].status = "PendingRetry"
      BY <1>1, <1>3 DEF Contract!Retry, Contract!Move, Contract!Entries
    <3> QED
      BY <1>2, <3>1
  <2> QED
    BY <2>1, <2>2, <2>3, <2>4
<1>5. ~Contract!Reverify(j)
  <2> DEFINE e == [book[j] EXCEPT !.status = "PendingVerification", !.verificationAttempt = 0,
                                  !.verificationRetry = @ + 1]
  <2>1. e.verificationRetry = book[j].verificationRetry + 1 /\ book[j].verificationRetry \in Nat
    BY <1>1 DEF Contract!Entries
  <2>2. Contract!Reverify(j) => book' = [book EXCEPT ![j] = e]
    BY DEF Contract!Reverify
  <2> HIDE DEF e
  <2> QED
    BY <1>2, <1>3, <2>1, <2>2
<1>6. ASSUME Contract!Accept(j) \/ Contract!Reject(j) PROVE Processed(j)
  <2>1. book'[j].verificationRetry = book[j].verificationRetry
    BY <1>1, <1>3, <1>6 DEF Contract!Accept, Contract!Reject, Contract!Move, Contract!Entries
  <2>2. book[j].status \in Contract!Verifiable
    BY <1>6 DEF Contract!Accept, Contract!Reject, Contract!Move
  <2> QED
    BY <1>2, <2>1, <2>2 DEF Processed
<1> QED
  BY <1>4, <1>5, <1>6

(* Only an attempt at its end makes a job one that was processed, with its hashes. *)
LEMMA BecomesProcessed ==
  ASSUME IInv, [Next]_vars, NEW j \in Job, Processed(j)'
  PROVE  \/ Processed(j) /\ meta'[j] = meta[j]
         \/ \E t \in Task : /\ task[t].pc = "finish" /\ task[t].job = j
                            /\ meta'[j] = task[t].meta
<1>0. /\ StoreTypeOK /\ book \in [Job -> Contract!Entries] /\ meta \in [Job -> Metadata]
  BY DEF IInv, StoreTypeOK, MetaSound
<1>1. ASSUME UNCHANGED <<book, meta>> PROVE Processed(j) /\ meta'[j] = meta[j]
  BY <1>1 DEF Processed
<1>2. ASSUME NEW t \in Task, NEW i \in Job, OtherStep(t, i) \/ RecordVerified(t, i), i # j,
             meta' = meta \/ \E data : meta' = [meta EXCEPT ![i] = data]
      PROVE  Processed(j) /\ meta'[j] = meta[j]
  <2>1. book'[j] = book[j]
    BY <1>0, <1>2, StoreMoves
  <2> QED
    BY <1>0, <1>2, <2>1 DEF Processed
<1>3. ASSUME NEW t \in Task, Claim(t, j) \/ Stamp(t, j) \/ Create(j) \/ Consume(j) \/ Operate(j)
      PROVE  Processed(j) /\ meta'[j] = meta[j]
  <2>1. UNCHANGED <<book, meta>>
    BY <1>0, <1>3, MovesProcessed
    DEF Claim, Stamp, Begin, Create, Consume, Operate, Others, CreateJob, TakeToProcess,
        TakeToVerify, Discard, HandleFailure, Dismiss, Intervene, Retry, Reverify
  <2> QED
    BY <1>1, <2>1
<1>4. ASSUME NEW t \in Task, Finish(t) \/ GiveUp(t) \/ Accept(t) \/ Reject(t)
      PROVE  \/ Processed(j) /\ meta'[j] = meta[j]
             \/ /\ task[t].pc = "finish" /\ task[t].job = j
                /\ meta'[j] = task[t].meta
  <2>1. task[t].job \in Job
    BY <1>4, SoundTask DEF Finish, GiveUp, Accept, Reject
  <2>2. CASE task[t].job # j
    <3>1. OtherStep(t, task[t].job) \/ RecordVerified(t, task[t].job)
      BY <1>4 DEF Finish, GiveUp, Accept, Reject, OtherStep
    <3>2. meta' = meta \/ \E data : meta' = [meta EXCEPT ![task[t].job] = data]
      BY <1>4 DEF Finish, GiveUp, Accept, Reject, Others
    <3> QED
      BY <1>2, <2>1, <2>2, <3>1, <3>2
  <2>3. CASE task[t].job = j
    <3>1. CASE Finish(t)
      BY <1>0, <2>3, <3>1 DEF Finish
    <3>2. ~GiveUp(t)
      BY <1>0, <2>3, MovesProcessed DEF GiveUp, RecordFailed
    <3>3. CASE Accept(t) \/ Reject(t)
      BY <1>0, <2>3, <3>3, MovesProcessed
      DEF Accept, Reject, RecordVerified, RecordRejected, RecordExhausted, RecordFailed, Others
    <3> QED
      BY <1>4, <3>1, <3>2, <3>3
  <2> QED
    BY <2>2, <2>3
<1>5. ASSUME NEW t \in Task, TaskStep(t) \/ Fault(t)
      PROVE  Finish(t) \/ GiveUp(t) \/ Accept(t) \/ Reject(t) \/ UNCHANGED <<book, meta>>
  <2>1. ProcessStep(t) => Finish(t) \/ GiveUp(t) \/ UNCHANGED <<book, meta>>
    BY DEF ProcessStep, Validate, Fetch, Unimplemented, UnknownDa, ReadNonce, Submit, Refused,
           AnswerLost, Await, AwaitedInVain, Others, storeVars
  <2>2. VerifyStep(t) => Accept(t) \/ Reject(t) \/ UNCHANGED <<book, meta>>
    BY DEF VerifyStep, CheckHash, WaitForHash, WaitInVain, RecheckHash, CheckLast, Others,
           storeVars
  <2>3. Send(t) \/ Outdated(t) \/ Fault(t) => UNCHANGED <<book, meta>>
    BY DEF Send, Outdated, Fault, ProcessCallFails, HandlerErrs, Expire, Crash, Others, storeVars
  <2> QED
    BY <1>5, <2>1, <2>2, <2>3 DEF TaskStep
<1>6. ASSUME NEW t \in Task, NEW i \in Job, i # j,
             Claim(t, i) \/ Stamp(t, i) \/ Create(i) \/ Consume(i) \/ Operate(i)
      PROVE  Processed(j) /\ meta'[j] = meta[j]
  <2>1. OtherStep(t, i) /\ meta' = meta
    BY <1>6 DEF Claim, Stamp, Begin, Create, Consume, Operate, Others, OtherStep
  <2> QED
    BY <1>2, <1>6, <2>1
<1>7. ASSUME \/ \E h \in Hashes : Mine(h)
             \/ UNCHANGED vars
      PROVE  UNCHANGED <<book, meta>>
  BY <1>7 DEF Mine, vars, storeVars
<1>8. Task # {}
  BY JobStoreAssumption
<1> QED
  BY <1>1, <1>3, <1>4, <1>5, <1>6, <1>7, <1>8 DEF Next

(* The invariant holds at the start, *)
LEMMA InitEndsInv == ASSUME Init PROVE EndsInv
<1>1. KnowInv
  BY InitKnowInv
<1>2. \A t \in Task : task[t].pc # "finish"
  BY DEF Init, Idle
<1>3. \A j \in Job : ~Processed(j)
  BY DEF Init, StoreInit, Contract!Init, Contract!Missing, Processed, Contract!Verifiable
<1> QED
  BY <1>1, <1>2, <1>3 DEF EndsInv

(* and every step keeps it. *)
LEMMA StepEndsInv == ASSUME EndsInv, [Next]_vars PROVE EndsInv'
<1>0. KnowInv /\ IInv /\ KnowInv' /\ Grows(txs, txs')
  BY StepKnowInv, ChainGrows DEF EndsInv, KnowInv
<1>1. ASSUME NEW u \in Task, task'[u].pc = "finish"
      PROVE  EndsAtLast(task'[u].job, task'[u].meta.hashes, txs')
  <2>1. \/ task'[u] = task[u]
        \/ TaskStep(u) \/ Fault(u) \/ \E j \in Job : Claim(u, j) \/ Stamp(u, j)
    <3>1. ASSUME NEW t \in Task, t # u,
                 TaskStep(t) \/ Fault(t) \/ \E j \in Job : Claim(t, j) \/ Stamp(t, j)
          PROVE  task'[u] = task[u]
      BY <1>0, <3>1, ComesToEnd DEF OthersRest
    <3>2. ASSUME \/ \E j \in Job : Create(j) \/ Consume(j) \/ Operate(j)
                 \/ \E h \in Hashes : Mine(h)
                 \/ UNCHANGED vars
          PROVE  task'[u] = task[u]
      BY <3>2 DEF Create, Consume, Operate, Mine, vars
    <3> QED
      BY <3>1, <3>2 DEF Next
  <2>2. \/ /\ task[u].pc = "finish" /\ task'[u].job = task[u].job
           /\ task'[u].meta = task[u].meta
        \/ EndsAtLast(task'[u].job, task'[u].meta.hashes, txs)
    BY <1>0, <1>1, <2>1, ComesToEnd
  <2>3. EndsAtLast(task'[u].job, task'[u].meta.hashes, txs)
    BY <2>2 DEF EndsInv
  <2> QED
    BY <1>0, <2>3, EndsStay
<1>2. ASSUME NEW j \in Job, Processed(j)' PROVE EndsAtLast(j, meta'[j].hashes, txs')
  <2>1. EndsAtLast(j, meta'[j].hashes, txs)
    BY <1>0, <1>2, BecomesProcessed DEF EndsInv
  <2> QED
    BY <1>0, <2>1, EndsStay
<1> QED
  BY <1>0, <1>1, <1>2 DEF EndsInv

(* The hashes a job has recorded are those of successive blocks of the job, and after an *)
(* attempt that went through they reach up to its last block.                            *)
THEOREM HashesStayInOrder == Spec => []HashesInOrder
<1>1. Init => EndsInv
  BY InitEndsInv
<1>2. EndsInv /\ [Next]_vars => EndsInv'
  BY StepEndsInv
<1>3. EndsInv => HashesInOrder
  <2> SUFFICES ASSUME EndsInv PROVE HashesInOrder
    OBVIOUS
  <2>1. HashesSuccessive
    BY IInvImplies DEF EndsInv, KnowInv
  <2> QED
    BY <2>1 DEF EndsInv, EndsAtLast, HashesSuccessive, HashesInOrder
<1> QED
  BY <1>1, <1>2, <1>3, PTL DEF Spec

-------------------------------------------------------------------------------
(* How often a block is sent.  A block that was sent, a task that may still send it and  *)
(* an entry from which an attempt may start without an operator exclude each other; each *)
(* request of an operator allows one more of them.                                       *)

\* A task with record r may still send the i-th block of job j, the contract being at s.
MaySend(r, j, i, s) ==
    /\ r.job = j
    /\ \/ r.pc = "validate" /\ s < Blocks[j][1]
       \/ r.pc \in {"fetch", "nonce", "submit"} /\ r.i <= i
       \/ r.pc = "await" /\ r.i < i

Senders(j, i) == {t \in Task : MaySend(task[t], j, i, settled)}

\* An attempt of job j that gets past its validation may start without an operator.
MayStart(j) ==
    \/ book[j].status \in {"Absent", "Created", "PendingRetry"}
    \/ book[j].status = "VerificationFailed" /\ settled < Blocks[j][1]
    \/ book[j].status \in Contract!Verifiable /\ meta[j].hashes = <<>>

\* How many sendings of a block job j has room for.
Room(j) ==
    book[j].processRetry + book[j].verificationRetry + IF MayStart(j) THEN 0 ELSE 1

\* No operator has asked for a job that is not there.
Unasked ==
    \A j \in Job : book[j].status = "Absent" =>
                       book[j].processRetry = 0 /\ book[j].verificationRetry = 0

Counted ==
    \A j \in Job : \A i \in DOMAIN Blocks[j] :
        /\ IsFiniteSet(Senders(j, i))
        /\ Cardinality(Sendings(Blocks[j][i])) + Cardinality(Senders(j, i)) <= Room(j)

CountInv == KnowInv /\ Unasked /\ Counted

(* Retries are numbers, and so is the room of a job. *)
LEMMA RoomType ==
  ASSUME NEW j \in Job
  PROVE  /\ StoreTypeOK =>
                /\ book[j].processRetry \in Nat /\ book[j].verificationRetry \in Nat
                /\ Room(j) \in Nat
         /\ StoreTypeOK' =>
                /\ book'[j].processRetry \in Nat /\ book'[j].verificationRetry \in Nat
                /\ Room(j)' \in Nat
<1>1. /\ StoreTypeOK => /\ book[j].processRetry \in Nat /\ book[j].verificationRetry \in Nat
      /\ StoreTypeOK' => /\ book'[j].processRetry \in Nat /\ book'[j].verificationRetry \in Nat
  BY DEF StoreTypeOK, Contract!Entries
<1> QED
  BY <1>1 DEF Room

(* The transactions of a block are finitely many. *)
LEMMA SendingsFinite ==
  ASSUME ChainTypes, NEW b
  PROVE  IsFiniteSet(Sendings(b)) /\ Cardinality(Sendings(b)) \in Nat
<1>1. Hashes = 1 .. Len(txs) /\ Len(txs) \in Nat
  BY DEF ChainTypes, Hashes
<1>2. IsFiniteSet(Hashes)
  BY <1>1, FS_Interval
<1>3. IsFiniteSet(Sendings(b))
  <2>1. Sendings(b) \subseteq Hashes
    BY DEF Sendings
  <2> QED
    BY <1>2, <2>1, FS_Subset
<1> QED
  BY <1>3, FS_CardinalityType

(* A task that goes on is no new sender. *)
LEMMA NoNewSender ==
  ASSUME NEW t \in Task, OthersRest(t), NEW j, NEW i, settled' = settled,
         MaySend(task'[t], j, i, settled) => MaySend(task[t], j, i, settled)
  PROVE  Senders(j, i)' \subseteq Senders(j, i)
  BY DEF Senders, OthersRest

(* With no more senders, no more transactions and no less room, the count holds. *)
LEMMA CountStays ==
  ASSUME CountInv, KnowInv', Unasked',
         \A j \in Job : \A i \in DOMAIN Blocks[j] :
             /\ Senders(j, i)' \subseteq Senders(j, i)
             /\ Sendings(Blocks[j][i])' = Sendings(Blocks[j][i]),
         \A j \in Job : Room(j)' >= Room(j)
  PROVE  CountInv'
<1>1. ASSUME NEW j \in Job, NEW i \in DOMAIN Blocks[j]
      PROVE  /\ IsFiniteSet(Senders(j, i)')
             /\ Cardinality(Sendings(Blocks[j][i])') + Cardinality(Senders(j, i)') <= Room(j)'
  <2> DEFINE S == Sendings(Blocks[j][i])
             S2 == Sendings(Blocks[j][i])'
             W == Senders(j, i)
             W2 == Senders(j, i)'
  <2>1. IsFiniteSet(W) /\ Cardinality(S) + Cardinality(W) <= Room(j)
    BY DEF CountInv, Counted
  <2>2. W2 \subseteq W /\ S2 = S /\ Room(j)' >= Room(j)
    OBVIOUS
  <2>3. Room(j) \in Nat /\ Room(j)' \in Nat
    BY RoomType DEF CountInv, KnowInv, IInv
  <2>4. Cardinality(S) \in Nat
    BY SendingsFinite DEF CountInv, KnowInv, IInv
  <2> HIDE DEF S, S2, W, W2
  <2>5. /\ IsFiniteSet(W2) /\ Cardinality(W2) <= Cardinality(W)
        /\ Cardinality(W2) \in Nat /\ Cardinality(W) \in Nat
    BY <2>1, <2>2, FS_Subset, FS_CardinalityType
  <2>6. Cardinality(S2) + Cardinality(W2) <= Room(j)'
    BY <2>1, <2>2, <2>3, <2>4, <2>5
  <2> QED
    BY <2>5, <2>6 DEF S2, W2
<1> QED
  BY <1>1 DEF CountInv, Counted

(* A step that leaves the store and the chain alone. *)
LEMMA SilentCounts ==
  ASSUME CountInv, KnowInv', NEW t \in Task, OthersRest(t),
         UNCHANGED <<book, meta, chainVars>>,
         \A j \in Job : \A i \in DOMAIN Blocks[j] :
             MaySend(task'[t], j, i, settled) => MaySend(task[t], j, i, settled)
  PROVE  CountInv'
<1>1. settled' = settled /\ txs' = txs
  BY DEF chainVars
<1>2. \A j \in Job : \A i \in DOMAIN Blocks[j] :
          /\ Senders(j, i)' \subseteq Senders(j, i)
          /\ Sendings(Blocks[j][i])' = Sendings(Blocks[j][i])
  BY <1>1, NoNewSender DEF Sendings, Hashes
<1>3. \A j \in Job : Room(j)' >= Room(j)
  <2>1. \A j \in Job : Room(j)' = Room(j) /\ Room(j) \in Nat
    BY <1>1, RoomType DEF Room, MayStart, CountInv, KnowInv, IInv
  <2> QED
    BY <2>1
<1>4. Unasked'
  BY DEF CountInv, Unasked
<1> QED
  BY <1>2, <1>3, <1>4, CountStays

(* What is written to the store leaves each job its room; an attempt that starts makes *)
(* room for one more sender.                                                           *)
LEMMA RoomGrows ==
  ASSUME KnowInv, KnowInv', Unasked, NEW t \in Task, NEW j \in Job,
         OtherStep(t, j) \/ RecordVerified(t, j), settled' = settled,
         \A i \in Job : i # j => meta'[i] = meta[i],
         \/ meta'[j] = meta[j]
         \/ RecordFailed(t, j)
         \/ RecordProcessed(t, j) /\ meta'[j].hashes # <<>>,
         RecordRejected(t, j) /\ meta[j].hashes # <<>> => ~(settled < Blocks[j][1]),
         RecordProcessed(t, j) => meta'[j].hashes # <<>>
  PROVE  /\ Unasked'
         /\ \A i \in Job : Room(i)' >= Room(i)
         /\ TakeToProcess(t, j) => book'[j].status = "LockedForProcessing"
         /\ TakeToProcess(t, j) /\ MayStart(j) => Room(j)' = Room(j) + 1
<1> DEFINE d == book[j]
           e == book'[j]
<1>0. StoreTypeOK /\ StoreTypeOK' /\ book \in [Job -> Contract!Entries]
  BY DEF KnowInv, IInv, StoreTypeOK
<1>1. /\ d.processRetry \in Nat /\ d.verificationRetry \in Nat
      /\ e.processRetry \in Nat /\ e.verificationRetry \in Nat
      /\ \A i \in Job : Room(i) \in Nat /\ Room(i)' \in Nat
  <2>1. \A i \in Job : /\ book[i].processRetry \in Nat /\ book[i].verificationRetry \in Nat
                       /\ Room(i) \in Nat
    BY <1>0, RoomType
  <2>2. \A i \in Job : /\ book'[i].processRetry \in Nat /\ book'[i].verificationRetry \in Nat
                       /\ Room(i)' \in Nat
    BY <1>0, RoomType
  <2> QED
    BY <2>1, <2>2
<1>2. \A i \in Job : i # j => book'[i] = book[i]
  BY <1>0, StoreMoves
<1>3. \A i \in Job : i # j => Room(i)' = Room(i)
  BY <1>2 DEF Room, MayStart
<1> DEFINE Goal == /\ e.status = "Absent" => e.processRetry = 0 /\ e.verificationRetry = 0
                   /\ Room(j)' >= Room(j)
<1>4. d.status = "Absent" => d.processRetry = 0 /\ d.verificationRetry = 0
  BY DEF Unasked
<1>5. ASSUME NEW s, Keeps(j, s), s # "Absent" \/ d.status = "Absent",
             MayStart(j)' => MayStart(j)
      PROVE  Goal
  BY <1>1, <1>4, <1>5 DEF Keeps, Room
<1>6. ASSUME e.processRetry + e.verificationRetry = d.processRetry + d.verificationRetry + 1,
             e.status # "Absent"
      PROVE  Goal
  BY <1>1, <1>6 DEF Room
<1>7. ASSUME Concludes(j) /\ meta'[j] = meta[j] PROVE Goal
  <2>1. PICK s : Keeps(j, s) /\ (\/ s = d.status
                                 \/ s = "Failed" /\ d.status # "Absent"
                                 \/ /\ s \in {"Completed", "VerificationTimeout"}
                                    /\ d.status \in Contract!Verifiable)
    BY <1>7 DEF Concludes
  <2>2. MayStart(j)' => MayStart(j)
    BY <1>7, <2>1 DEF Keeps, MayStart, Contract!Verifiable
  <2> QED
    BY <1>5, <2>1, <2>2
<1>8. ASSUME RecordFailed(t, j) PROVE Goal
  <2>1. Keeps(j, "Failed")
    BY <1>0, <1>8, MovesEntry DEF RecordFailed
  <2>2. ~MayStart(j)'
    BY <2>1 DEF Keeps, MayStart, Contract!Verifiable
  <2> QED
    BY <1>5, <2>1, <2>2
<1>9. ASSUME CreateJob(j) PROVE Goal
  <2>1. /\ d.status = "Absent" /\ e.status = "Created"
        /\ e.processRetry = 0 /\ e.verificationRetry = 0
    BY <1>0, <1>9, MovesEntry DEF CreateJob
  <2>2. Room(j)' = Room(j)
    BY <1>4, <2>1 DEF Room, MayStart
  <2> QED
    BY <1>1, <2>1, <2>2
<1>10. ASSUME TakeToProcess(t, j)
       PROVE  /\ Goal /\ e.status = "LockedForProcessing"
              /\ MayStart(j) => Room(j)' = Room(j) + 1
  <2>1. Keeps(j, "LockedForProcessing")
    BY <1>0, <1>10, MovesEntry DEF TakeToProcess
  <2>2. ~MayStart(j)'
    BY <2>1 DEF Keeps, MayStart, Contract!Verifiable
  <2>3. Goal
    BY <1>5, <2>1, <2>2
  <2>4. MayStart(j) => Room(j)' = Room(j) + 1
    BY <1>1, <2>1, <2>2 DEF Keeps, Room
  <2> QED
    BY <2>1, <2>3, <2>4 DEF Keeps
<1>11. ASSUME RecordProcessed(t, j) PROVE Goal
  <2>1. /\ d.status = "LockedForProcessing" /\ e.status = "PendingVerification"
        /\ e.processRetry = d.processRetry /\ e.verificationRetry = d.verificationRetry
    BY <1>0, <1>11, MovesEntry DEF RecordProcessed
  <2>2. ~MayStart(j)'
    BY <1>11, <2>1 DEF MayStart
  <2>3. Room(j)' >= Room(j)
    BY <1>1, <2>1, <2>2 DEF Room
  <2> QED
    BY <2>1, <2>3
<1>12. ASSUME RecordRejected(t, j) PROVE Goal
  <2>1. d.status \in Contract!Verifiable /\ Keeps(j, "VerificationFailed")
    BY <1>0, <1>12, MovesEntry DEF RecordRejected
  <2>2. MayStart(j)' => MayStart(j)
    BY <1>12, <2>1 DEF Keeps, MayStart, Contract!Verifiable
  <2> QED
    BY <1>5, <2>1, <2>2
<1>13. ASSUME Retry(j) \/ Reverify(j) PROVE Goal
  <2>1. /\ e.processRetry + e.verificationRetry = d.processRetry + d.verificationRetry + 1
        /\ e.status # "Absent"
    <3>1. CASE Retry(j)
      <4>1. /\ e.status = "PendingRetry" /\ e.processRetry = d.processRetry + 1
            /\ e.verificationRetry = d.verificationRetry
        BY <1>0, <3>1, MovesEntry DEF Retry
      <4> QED
        BY <1>1, <4>1
    <3>2. CASE Reverify(j)
      <4>1. /\ e.status = "PendingVerification" /\ e.processRetry = d.processRetry
            /\ e.verificationRetry = d.verificationRetry + 1
        BY <1>0, <3>2, MovesEntry DEF Reverify
      <4> QED
        BY <1>1, <4>1
    <3> QED
      BY <1>13, <3>1, <3>2
  <2> QED
    BY <1>6, <2>1
<1>14. Goal
  <2>1. \/ Concludes(j) \/ CreateJob(j) \/ TakeToProcess(t, j)
        \/ RecordProcessed(t, j) \/ RecordRejected(t, j) \/ Retry(j)
        \/ Reverify(j)
    BY <1>0, StepsSettle
  <2> HIDE DEF Goal
  <2> QED
    BY <1>7, <1>8, <1>9, <1>10, <1>11, <1>12, <1>13, <2>1
<1>15. Unasked'
  BY <1>2, <1>14 DEF Unasked
<1>16. \A i \in Job : Room(i)' >= Room(i)
  BY <1>1, <1>3, <1>14
<1> QED
  BY <1>10, <1>15, <1>16

(* The steps before a result is written, other than the sending of a transaction. *)
LEMMA HandlersCount ==
  ASSUME CountInv, KnowInv', NEW t \in Task,
         \/ Validate(t) \/ Fetch(t) \/ Unimplemented(t) \/ UnknownDa(t) \/ ReadNonce(t)
         \/ Refused(t) \/ Await(t) \/ AwaitedInVain(t) \/ ProcessCallFails(t)
         \/ CheckHash(t) \/ WaitForHash(t) \/ WaitInVain(t) \/ RecheckHash(t) \/ CheckLast(t)
         \/ Send(t) \/ Outdated(t) \/ HandlerErrs(t) \/ Expire(t) \/ Crash(t)
  PROVE  CountInv'
<1> DEFINE r == task[t]
           q == task'[t]
           Fewer == \A j \in Job : \A i \in DOMAIN Blocks[j] :
                        MaySend(q, j, i, settled) => MaySend(r, j, i, settled)
<1>0. IInv /\ r \in Tasks /\ task \in [Task -> Tasks] /\ r.i \in Nat /\ settled \in Int
  <2>1. IInv
    BY DEF CountInv, KnowInv
  <2>2. r \in Tasks /\ task \in [Task -> Tasks] /\ settled \in Int
    BY <2>1, SoundTask DEF IInv, TasksSound, ChainTypes
  <2> QED
    BY <2>1, <2>2 DEF Tasks
<1>1. UNCHANGED <<book, meta, chainVars>>
  BY DEF Validate, Fetch, Unimplemented, UnknownDa, ReadNonce, Refused, Await,
         AwaitedInVain, ProcessCallFails, CheckHash, WaitForHash, WaitInVain, RecheckHash,
         CheckLast, Send, Outdated, HandlerErrs, Expire, Crash, Others, storeVars
<1>2. ASSUME NEW p \in Steps \ {"validate", "fetch", "nonce", "submit", "await"}, GoTo(t, p)
      PROVE  Fewer /\ OthersRest(t)
  BY <1>0, <1>2, RecordMoves DEF GoesTo, MaySend
<1>3. ASSUME End(t) PROVE Fewer /\ OthersRest(t)
  <2>1. q = Idle /\ OthersRest(t)
    BY <1>0, <1>3, RecordMoves
  <2> QED
    BY <2>1, JobStoreAssumption DEF MaySend, Idle
<1>4. ASSUME Marked(t) \/ NextHash(t) PROVE Fewer /\ OthersRest(t)
  BY <1>0, <1>4, RecordMoves DEF MaySend
<1>5. ASSUME Validate(t) PROVE Fewer /\ OthersRest(t)
  <2> DEFINE n == FirstToSend(r.job, r.meta)
             ok == [r EXCEPT !.pc = Following(r.job, n), !.i = n]
  <2>1. CASE Unmarked(t)
    BY <1>2, <2>1 DEF Unmarked, Steps, ProcessSteps
  <2>2. CASE NoGap(r.job) /\ task' = [task EXCEPT ![t] = ok]
    <3>1. ok.pc \in {"fetch", "finish"} /\ ok.job = r.job
      BY <1>0 DEF Tasks, Following
    <3>2. q = ok /\ OthersRest(t)
      <4> HIDE DEF ok
      <4> QED
        BY <1>0, <2>2 DEF OthersRest
    <3>3. r.pc = "validate" /\ settled < Blocks[r.job][1]
      BY <1>0, <1>5, <2>2 DEF Validate, NoGap
    <3> HIDE DEF ok
    <3> QED
      BY <3>1, <3>2, <3>3 DEF MaySend
  <2> QED
    BY <1>5, <2>1, <2>2 DEF Validate
<1>6. ASSUME Fetch(t) PROVE Fewer /\ OthersRest(t)
  <2>1. GoesTo(t, "nonce") /\ OthersRest(t) /\ r.pc = "fetch"
    BY <1>0, <1>6, RecordMoves DEF Fetch, Steps, ProcessSteps
  <2> QED
    BY <2>1 DEF GoesTo, MaySend
<1>7. ASSUME ReadNonce(t) PROVE Fewer /\ OthersRest(t)
  <2> DEFINE ok == [r EXCEPT !.pc = "submit", !.nonce = Nonce]
  <2>1. task' = [task EXCEPT ![t] = ok] /\ r.pc = "nonce"
    BY <1>7 DEF ReadNonce
  <2>2. ok.pc = "submit" /\ ok.job = r.job /\ ok.i = r.i
    BY <1>0 DEF Tasks
  <2>3. q = ok /\ OthersRest(t)
    <3> HIDE DEF ok
    <3> QED
      BY <1>0, <2>1 DEF OthersRest
  <2> HIDE DEF ok
  <2> QED
    BY <2>1, <2>2, <2>3 DEF MaySend
<1>8. ASSUME Await(t) \/ AwaitedInVain(t) PROVE Fewer /\ OthersRest(t)
  <2>1. /\ q.pc = Following(r.job, r.i + 1) /\ q.job = r.job /\ q.i = r.i + 1
        /\ OthersRest(t) /\ r.pc = "await"
    BY <1>0, <1>8, RecordMoves DEF Await, AwaitedInVain
  <2>2. ASSUME NEW j \in Job, NEW i \in DOMAIN Blocks[j], MaySend(q, j, i, settled)
        PROVE  MaySend(r, j, i, settled)
    <3>1. i \in Nat
      BY BlocksOf
    <3>2. q.pc = "fetch" /\ r.i + 1 <= i
      BY <2>1, <2>2 DEF MaySend, Following
    <3>3. r.i < i
      BY <1>0, <3>1, <3>2
    <3> QED
      BY <2>1, <2>2, <3>3 DEF MaySend
  <2> QED
    BY <2>1, <2>2
<1>9. ASSUME Expire(t) PROVE Fewer /\ OthersRest(t)
  <2> DEFINE ok == [r EXCEPT !.msg = "none"]
  <2>1. ok.pc = r.pc /\ ok.job = r.job /\ ok.i = r.i /\ task' = [task EXCEPT ![t] = ok]
    BY <1>0, <1>9 DEF Expire, Tasks
  <2> HIDE DEF ok
  <2>2. q = ok /\ OthersRest(t)
    BY <1>0, <2>1 DEF OthersRest
  <2> QED
    BY <2>1, <2>2 DEF MaySend
<1>10. ASSUME \/ Unimplemented(t) \/ UnknownDa(t) \/ Refused(t) \/ ProcessCallFails(t)
       PROVE  Fewer /\ OthersRest(t)
  <2>1. GoTo(t, "giveUp") \/ Marked(t)
    BY <1>10 DEF Unimplemented, UnknownDa, Refused, ProcessCallFails, Unmarked
  <2>2. "giveUp" \in Steps \ {"validate", "fetch", "nonce", "submit", "await"}
    BY DEF Steps, ProcessSteps
  <2> QED
    BY <1>2, <1>4, <2>1, <2>2
<1>11. ASSUME \/ CheckHash(t) \/ WaitForHash(t) \/ WaitInVain(t) \/ RecheckHash(t) \/ CheckLast(t)
       PROVE  Fewer /\ OthersRest(t)
  <2>1. \/ \E p \in {"wait", "recheck", "last", "accept", "reject"} : GoTo(t, p)
        \/ NextHash(t) \/ End(t)
    BY <1>11 DEF CheckHash, WaitForHash, WaitInVain, RecheckHash, CheckLast
  <2>2. \A p \in {"wait", "recheck", "last", "accept", "reject"} :
            p \in Steps \ {"validate", "fetch", "nonce", "submit", "await"}
    BY DEF Steps, VerifySteps
  <2> QED
    BY <1>2, <1>3, <1>4, <2>1, <2>2
<1>12. Fewer /\ OthersRest(t)
  <2> HIDE DEF Fewer
  <2> QED
    BY <1>3, <1>5, <1>6, <1>7, <1>8, <1>9, <1>10, <1>11 DEF Send, Outdated, HandlerErrs, Crash
<1> QED
  BY <1>1, <1>12, SilentCounts

(* A block is sent: there is one transaction more, and one task less that may send it. *)
LEMMA SendingCounts ==
  ASSUME CountInv, KnowInv', NEW t \in Task, Submit(t) \/ AnswerLost(t)
  PROVE  CountInv'
<1> DEFINE r == task[t]
           q == task'[t]
           new == Len(txs) + 1
<1>0. /\ IInv /\ Sound(r, txs, settled) /\ r \in Tasks /\ r.pc = "submit" /\ r.i \in Nat
      /\ r.job \in Job /\ ChainTypes /\ task \in [Task -> Tasks]
  BY SoundTask DEF CountInv, KnowInv, IInv, Submit, AnswerLost, TasksSound, Tasks
<1>1. /\ UNCHANGED <<book, meta, settled>> /\ txs' = Sent(BlockAt(t), r.nonce)
  BY DEF Submit, AnswerLost, storeVars
<1>2. /\ r.i \in DOMAIN Blocks[r.job] /\ BlockAt(t) \in Block /\ r.nonce \in Nat
      /\ BlockAt(t) = Blocks[r.job][r.i]
  BY <1>0, BlocksOf DEF Sound, BlockAt, Tasks, AttemptSteps
<1>8. BlockAt(t) \in Block /\ r.nonce \in Nat
  BY <1>2
<1>3. \A j \in Job : Room(j)' = Room(j) /\ Room(j) \in Nat
  BY <1>0, <1>1, RoomType DEF Room, MayStart, IInv
<1>4. \A b : Sendings(b)' = IF b = BlockAt(t) THEN Sendings(b) \cup {new} ELSE Sendings(b)
  <2> DEFINE U == Sent(BlockAt(t), r.nonce)
  <2>1. /\ \A h \in DOMAIN txs : /\ U[h].block = txs[h].block
                                 /\ U[h].status = IF h \in Rivals(r.nonce) THEN "dropped"
                                                                          ELSE txs[h].status
        /\ U[Len(txs) + 1].block = BlockAt(t)
        /\ DOMAIN U = DOMAIN txs \cup {Len(txs) + 1}
        /\ Len(txs) + 1 \notin DOMAIN txs
    BY <1>0, <1>8, SentIs, ZenonT(30)
  <2>2. txs' = U
    BY <1>1
  <2> HIDE DEF U
  <2>3. /\ \A h \in DOMAIN txs : txs'[h].block = txs[h].block
        /\ txs'[new].block = BlockAt(t)
        /\ DOMAIN txs' = DOMAIN txs \cup {new}
        /\ new \notin DOMAIN txs
    BY <2>1, <2>2
  <2> HIDE DEF new
  <2> QED
    BY <2>3 DEF Sendings, Hashes
<1>5. /\ OthersRest(t) /\ q.job = r.job
      /\ q.pc = "giveUp" \/ (q.pc = "await" /\ q.i = r.i)
  <2>1. CASE Submit(t)
    <3> DEFINE ok == [r EXCEPT !.pc = "await", !.tx = new]
    <3>1. task' = [task EXCEPT ![t] = ok]
      BY <2>1 DEF Submit
    <3>2. ok.pc = "await" /\ ok.job = r.job /\ ok.i = r.i
      BY <1>0 DEF Tasks
    <3>3. q = ok /\ OthersRest(t)
      <4> HIDE DEF ok
      <4> QED
        BY <1>0, <3>1 DEF OthersRest
    <3> HIDE DEF ok
    <3> QED
      BY <3>2, <3>3
  <2>2. CASE AnswerLost(t)
    BY <1>0, <2>2, RecordMoves DEF AnswerLost
  <2> QED
    BY <2>1, <2>2
<1>6. ASSUME NEW j \in Job, NEW i \in DOMAIN Blocks[j]
      PROVE  /\ IsFiniteSet(Senders(j, i)')
             /\ Cardinality(Sendings(Blocks[j][i])') + Cardinality(Senders(j, i)') <= Room(j)'
  <2> DEFINE S == Sendings(Blocks[j][i])
             S2 == Sendings(Blocks[j][i])'
             W == Senders(j, i)
             W2 == Senders(j, i)'
  <2>1. IsFiniteSet(W) /\ Cardinality(S) + Cardinality(W) <= Room(j)
    BY DEF CountInv, Counted
  <2>2. IsFiniteSet(S) /\ Cardinality(S) \in Nat
    BY <1>0, SendingsFinite
  <2>3. i \in Nat
    BY BlocksOf
  <2>4. W2 \subseteq W
    <3>1. MaySend(q, j, i, settled) => MaySend(r, j, i, settled)
      BY <1>0, <1>5, <2>3 DEF MaySend
    <3> QED
      BY <1>1, <1>5, <3>1, NoNewSender
  <2>5. CASE j = r.job /\ i = r.i
    <3>1. t \in W /\ t \notin W2
      BY <1>0, <1>5, <2>3, <2>5 DEF Senders, MaySend
    <3>2. S2 = S \cup {new}
      BY <1>2, <1>4, <2>5
    <3> HIDE DEF S, S2, W, W2, new
    <3>3. W2 \subseteq W \ {t}
      BY <2>4, <3>1
    <3>4. /\ IsFiniteSet(W \ {t}) /\ Cardinality(W \ {t}) = Cardinality(W) - 1
          /\ Cardinality(W) \in Nat /\ Cardinality(W \ {t}) \in Nat
      BY <2>1, <3>1, FS_RemoveElement, FS_CardinalityType
    <3>5. /\ IsFiniteSet(W2) /\ Cardinality(W2) <= Cardinality(W \ {t}) /\ Cardinality(W2) \in Nat
      BY <3>3, <3>4, FS_Subset, FS_CardinalityType
    <3>6. Cardinality(S2) <= Cardinality(S) + 1 /\ Cardinality(S2) \in Nat
      <4>1. /\ IsFiniteSet(S \cup {new})
            /\ Cardinality(S \cup {new}) = IF new \in S THEN Cardinality(S) ELSE Cardinality(S) + 1
        BY <2>2, FS_AddElement
      <4> QED
        BY <2>2, <3>2, <4>1
    <3>7. Cardinality(S2) + Cardinality(W2) <= Room(j)'
      BY <1>3, <2>1, <2>2, <3>4, <3>5, <3>6
    <3> QED
      BY <3>5, <3>7 DEF S2, W2
  <2>6. CASE ~(j = r.job /\ i = r.i)
    <3>1. Blocks[j][i] # BlockAt(t)
      BY <1>0, <1>2, <2>6, BlocksDiffer
    <3>2. S2 = S
      BY <1>4, <3>1
    <3> HIDE DEF S, S2, W, W2
    <3>3. /\ IsFiniteSet(W2) /\ Cardinality(W2) <= Cardinality(W)
          /\ Cardinality(W2) \in Nat /\ Cardinality(W) \in Nat
      BY <2>1, <2>4, FS_Subset, FS_CardinalityType
    <3>4. Cardinality(S2) + Cardinality(W2) <= Room(j)'
      BY <1>3, <2>1, <2>2, <3>2, <3>3
    <3> QED
      BY <3>3, <3>4 DEF S2, W2
  <2> QED
    BY <2>5, <2>6
<1>7. Unasked'
  BY <1>1 DEF CountInv, Unasked
<1> QED
  BY <1>6, <1>7 DEF CountInv, Counted

(* Creating, taking up, dismissing or asking again for a job is not writing a result. *)
LEMMA NoResult ==
  ASSUME StoreTypeOK, NEW t \in Task, NEW j \in Job,
         CreateJob(j) \/ TakeToProcess(t, j) \/ TakeToVerify(t, j) \/ Discard(j) \/ Intervene(j)
  PROVE  ~RecordRejected(t, j) /\ ~RecordProcessed(t, j)
<1>0. /\ book \in [Job -> Contract!Entries] /\ mail \in [Job -> SUBSET Queues]
      /\ current \in [Job -> SUBSET Task]
  BY DEF StoreTypeOK
<1>1. ASSUME CreateJob(j) PROVE ~RecordRejected(t, j) /\ ~RecordProcessed(t, j)
  BY <1>0, <1>1, MovesEntry DEF CreateJob, RecordRejected, RecordProcessed, Contract!Verifiable
<1>2. ASSUME NEW q, Take(j, q) PROVE mail' # mail
  BY <1>0, <1>2 DEF Take
<1>3. ASSUME Owned(j, {}) PROVE ~Owned(j, {t})
  BY <1>0, <1>3 DEF Owned
<1>4. RecordRejected(t, j) \/ RecordProcessed(t, j) => mail' = mail /\ Owned(j, {t})
  BY DEF RecordRejected, RecordProcessed
<1> QED
  BY <1>1, <1>2, <1>3, <1>4
  DEF TakeToProcess, TakeToVerify, Discard, HandleFailure, Dismiss, Intervene, Retry, Reverify

(* The count holds when a step of the store adds no sender. *)
LEMMA StoreCounts ==
  ASSUME CountInv, KnowInv', NEW t \in Task, NEW j \in Job,
         OtherStep(t, j) \/ RecordVerified(t, j), UNCHANGED chainVars,
         \A i \in Job : i # j => meta'[i] = meta[i],
         \/ meta'[j] = meta[j]
         \/ RecordFailed(t, j)
         \/ RecordProcessed(t, j) /\ meta'[j].hashes # <<>>,
         RecordRejected(t, j) /\ meta[j].hashes # <<>> => ~(settled < Blocks[j][1]),
         RecordProcessed(t, j) => meta'[j].hashes # <<>>,
         OthersRest(t),
         \A k \in Job : \A i \in DOMAIN Blocks[k] :
             MaySend(task'[t], k, i, settled) => MaySend(task[t], k, i, settled)
  PROVE  CountInv'
<1>1. settled' = settled /\ txs' = txs
  BY DEF chainVars
<1>2. KnowInv /\ Unasked
  BY DEF CountInv
<1>3. Unasked' /\ \A i \in Job : Room(i)' >= Room(i)
  BY <1>1, <1>2, RoomGrows
<1>4. \A k \in Job : \A i \in DOMAIN Blocks[k] :
          /\ Senders(k, i)' \subseteq Senders(k, i)
          /\ Sendings(Blocks[k][i])' = Sendings(Blocks[k][i])
  BY <1>1, NoNewSender DEF Sendings, Hashes
<1> QED
  BY <1>3, <1>4, CountStays

(* A result is written. *)
LEMMA RecordCounts ==
  ASSUME CountInv, KnowInv', NEW t \in Task, Finish(t) \/ GiveUp(t) \/ Accept(t) \/ Reject(t)
  PROVE  CountInv'
<1> DEFINE r == task[t]
           q == task'[t]
           j == r.job
<1>0. /\ IInv /\ KnowInv /\ r \in Tasks /\ TaskKnows(t) /\ j \in Job
      /\ r.pc \in {"finish", "giveUp", "accept", "reject"}
      /\ StoreTypeOK /\ book \in [Job -> Contract!Entries]
      /\ meta \in [Job -> Metadata] /\ settled \in Int
  BY SoundTask
  DEF CountInv, KnowInv, IInv, MetaSound, ChainTypes, StoreTypeOK, Finish, GiveUp, Accept, Reject
<1>1. UNCHANGED chainVars
  BY DEF Finish, GiveUp, Accept, Reject, Others
<1>2. OtherStep(t, j) \/ RecordVerified(t, j)
  BY DEF Finish, GiveUp, Accept, Reject, OtherStep
<1>3. \/ /\ Finish(t) /\ RecordProcessed(t, j) /\ r.pc = "finish"
         /\ meta' = [meta EXCEPT ![j] = r.meta]
      \/ /\ GiveUp(t) /\ RecordFailed(t, j) /\ meta' = [meta EXCEPT ![j] = r.meta]
      \/ /\ Accept(t) /\ RecordVerified(t, j) /\ meta' = meta
      \/ /\ Reject(t) /\ r.pc = "reject" /\ meta' = meta
         /\ RecordRejected(t, j) \/ RecordExhausted(t, j)
  BY DEF Finish, GiveUp, Accept, Reject, Others
<1>4. \A i \in Job : i # j => meta'[i] = meta[i]
  BY <1>0, <1>3
<1>5. ASSUME RecordProcessed(t, j) PROVE Finish(t)
  <2>1. book[j].status = "LockedForProcessing" /\ book'[j].status = "PendingVerification"
    BY <1>0, <1>5, MovesEntry DEF RecordProcessed
  <2>2. ~RecordFailed(t, j) /\ ~RecordVerified(t, j) /\ ~RecordRejected(t, j)
    BY <1>0, <2>1, MovesEntry DEF RecordFailed, RecordVerified, RecordRejected, Keeps
  <2> QED
    BY <1>3, <2>2 DEF RecordExhausted
<1>6. RecordProcessed(t, j) => meta'[j].hashes # <<>>
  <2>1. r.pc = "finish" => r.meta.hashes # <<>>
    BY <1>0 DEF TaskKnows, Knows
  <2>2. Finish(t) => r.pc = "finish" /\ meta'[j] = r.meta
    BY <1>0 DEF Finish
  <2> QED
    BY <1>5, <2>1, <2>2
<1>7. \/ meta'[j] = meta[j]
      \/ RecordFailed(t, j)
      \/ RecordProcessed(t, j) /\ meta'[j].hashes # <<>>
  BY <1>3, <1>6
<1>8. ASSUME RecordRejected(t, j), meta[j].hashes # <<>> PROVE ~(settled < Blocks[j][1])
  <2>1. book'[j].status = "VerificationFailed" /\ t \in current[j]
    BY <1>0, <1>8, MovesEntry DEF RecordRejected, Keeps, Fresh
  <2>2. ~RecordFailed(t, j) /\ ~RecordVerified(t, j) /\ ~RecordProcessed(t, j)
    BY <1>0, <2>1, MovesEntry DEF RecordFailed, RecordVerified, RecordProcessed, Keeps
  <2>3. r.pc = "reject"
    BY <1>3, <2>2
  <2>4. r.meta = meta[j]
    BY <1>0, <2>1, <2>3 DEF TaskKnows, Knows, VerifySteps
  <2>5. Blocks[j][1] <= settled /\ Blocks[j][1] \in Nat
    <3>1. Blocks[j][1] <= settled
      BY <1>0, <1>8, <2>3, <2>4 DEF TaskKnows, Knows
    <3>2. 1 \in DOMAIN Blocks[j]
      BY <1>0, BlocksOf
    <3> QED
      BY <1>0, <3>1, <3>2, BlocksOf
  <2> QED
    BY <1>0, <2>5
<1>9. /\ q.pc \in {"idle", "announce", "requeue"} /\ OthersRest(t)
  <2>1. End(t) \/ \E p \in {"announce", "requeue"} : GoTo(t, p)
    BY DEF Finish, GiveUp, Accept, Reject
  <2>2. "announce" \in Steps /\ "requeue" \in Steps /\ Idle.pc = "idle"
    BY DEF Steps, SendSteps, Idle
  <2> QED
    BY <1>0, <2>1, <2>2, RecordMoves DEF GoesTo
<1>10. \A k \in Job : \A i \in DOMAIN Blocks[k] :
           MaySend(q, k, i, settled) => MaySend(r, k, i, settled)
  BY <1>9 DEF MaySend
<1> QED
  BY <1>0, <1>1, <1>2, <1>4, <1>6, <1>7, <1>8, <1>9, <1>10, StoreCounts

(* A task takes up a job: an attempt takes the room of one more sender. *)
LEMMA BeginCounts ==
  ASSUME CountInv, KnowInv', NEW t \in Task, NEW j \in Job, Claim(t, j) \/ Stamp(t, j)
  PROVE  CountInv'
<1> DEFINE q == task'[t]
<1>0. /\ IInv /\ KnowInv /\ Unasked /\ StoreTypeOK /\ book \in [Job -> Contract!Entries]
      /\ settled \in Int
  BY DEF CountInv, KnowInv, IInv, ChainTypes, StoreTypeOK
<1>1. /\ OtherStep(t, j) /\ UNCHANGED <<meta, chainVars>> /\ settled' = settled /\ txs' = txs
  BY DEF Claim, Stamp, OtherStep, Begin, Others, chainVars
<1>2. ~RecordRejected(t, j) /\ ~RecordProcessed(t, j)
  BY <1>0, NoResult DEF Claim, Stamp
<1>3. CASE Stamp(t, j)
  <2>1. q.pc = "check" /\ OthersRest(t)
    BY <1>0, <1>3, BeginMoves, SMTT(30) DEF Stamp, Steps, VerifySteps
  <2>2. \A k \in Job : \A i \in DOMAIN Blocks[k] :
            MaySend(q, k, i, settled) => MaySend(task[t], k, i, settled)
    BY <2>1 DEF MaySend
  <2> QED
    BY <1>1, <1>2, <2>1, <2>2, StoreCounts
<1>4. CASE Claim(t, j)
  <2>1. q.pc = "validate" /\ q.job = j /\ OthersRest(t)
    BY <1>0, <1>4, BeginMoves DEF Claim, Steps, ProcessSteps
  <2>2. TakeToProcess(t, j) /\ book[j].status \in Processable
    BY <1>0, <1>4, MovesEntry DEF Claim, TakeToProcess
  <2>3. CASE ~MayStart(j)
    <3>1. ~(settled < Blocks[j][1])
      BY <2>2, <2>3 DEF MayStart, Processable
    <3>2. \A k \in Job : \A i \in DOMAIN Blocks[k] :
              MaySend(q, k, i, settled) => MaySend(task[t], k, i, settled)
      BY <2>1, <3>1 DEF MaySend
    <3> QED
      BY <1>1, <1>2, <2>1, <3>2, StoreCounts
  <2>4. CASE MayStart(j)
    <3>1. /\ Unasked' /\ \A i \in Job : Room(i)' >= Room(i)
          /\ Room(j)' = Room(j) + 1
      BY <1>0, <1>1, <1>2, <2>2, <2>4, RoomGrows
    <3>2. ASSUME NEW k \in Job, NEW i \in DOMAIN Blocks[k]
          PROVE  /\ IsFiniteSet(Senders(k, i)')
                 /\ Cardinality(Sendings(Blocks[k][i])') + Cardinality(Senders(k, i)')
                        <= Room(k)'
      <4> DEFINE S == Sendings(Blocks[k][i])
                 S2 == Sendings(Blocks[k][i])'
                 W == Senders(k, i)
                 W2 == Senders(k, i)'
      <4>1. IsFiniteSet(W) /\ Cardinality(S) + Cardinality(W) <= Room(k)
        BY DEF CountInv, Counted
      <4>2. IsFiniteSet(S) /\ Cardinality(S) \in Nat
        BY <1>0, SendingsFinite DEF IInv
      <4>3. S2 = S
        BY <1>1 DEF Sendings, Hashes
      <4>4. Room(k) \in Nat /\ Room(k)' \in Nat
        <5>1. StoreTypeOK /\ StoreTypeOK'
          BY <1>0 DEF KnowInv, IInv
        <5> QED
          BY <5>1, RoomType
      <4>5. CASE k = j
        <5>1. W2 \subseteq W \cup {t}
          BY <1>1, <2>1 DEF Senders, OthersRest
        <5> HIDE DEF S, S2, W, W2
        <5>2. /\ IsFiniteSet(W \cup {t}) /\ Cardinality(W) \in Nat
              /\ Cardinality(W \cup {t}) <= Cardinality(W) + 1
              /\ Cardinality(W \cup {t}) \in Nat
          <6>1. Cardinality(W) \in Nat
            BY <4>1, FS_CardinalityType
          <6>2. /\ IsFiniteSet(W \cup {t})
                /\ Cardinality(W \cup {t}) =
                       IF t \in W THEN Cardinality(W) ELSE Cardinality(W) + 1
            BY <4>1, FS_AddElement
          <6> QED
            BY <6>1, <6>2
        <5>3. /\ IsFiniteSet(W2) /\ Cardinality(W2) <= Cardinality(W \cup {t})
              /\ Cardinality(W2) \in Nat
          BY <5>1, <5>2, FS_Subset, FS_CardinalityType
        <5>4. Cardinality(S2) + Cardinality(W2) <= Room(k)'
          BY <3>1, <4>1, <4>2, <4>3, <4>4, <4>5, <5>2, <5>3
        <5> QED
          BY <5>3, <5>4 DEF S2, W2
      <4>6. CASE k # j
        <5>1. W2 \subseteq W
          <6>1. ~MaySend(q, k, i, settled)
            BY <2>1, <4>6 DEF MaySend
          <6> QED
            BY <1>1, <2>1, <6>1, NoNewSender
        <5> HIDE DEF S, S2, W, W2
        <5>2. /\ IsFiniteSet(W2) /\ Cardinality(W2) <= Cardinality(W)
              /\ Cardinality(W2) \in Nat /\ Cardinality(W) \in Nat
          BY <4>1, <5>1, FS_Subset, FS_CardinalityType
        <5>3. Cardinality(S2) + Cardinality(W2) <= Room(k)'
          BY <3>1, <4>1, <4>2, <4>3, <4>4, <5>2
        <5> QED
          BY <5>2, <5>3 DEF S2, W2
      <4> QED
        BY <4>5, <4>6
    <3> QED
      BY <3>1, <3>2 DEF CountInv, Counted
  <2> QED
    BY <2>3, <2>4
<1> QED
  BY <1>3, <1>4

(* The worker, the consumers, operators and the chain. *)
LEMMA OthersCount ==
  ASSUME CountInv, KnowInv',
         \/ \E j \in Job : Create(j) \/ Consume(j) \/ Operate(j)
         \/ \E h \in Hashes : Mine(h)
         \/ UNCHANGED vars
  PROVE  CountInv'
<1>0. PICK t \in Task : TRUE
  BY JobStoreAssumption
<1>1. IInv /\ StoreTypeOK /\ ChainTypes /\ settled \in Int
  BY DEF CountInv, KnowInv, IInv, ChainTypes
<1>2. CASE \E j \in Job : Create(j) \/ Consume(j) \/ Operate(j)
  <2>1. PICK j \in Job : Create(j) \/ Consume(j) \/ Operate(j)
    BY <1>2
  <2>2. UNCHANGED <<meta, chainVars, task>> /\ settled' = settled
    BY <2>1 DEF Create, Consume, Operate, Others, chainVars
  <2>3. OtherStep(t, j) /\ (CreateJob(j) \/ Discard(j) \/ Intervene(j))
    BY <2>1 DEF Create, Consume, Operate, OtherStep
  <2>4. ~RecordRejected(t, j) /\ ~RecordProcessed(t, j)
    BY <1>1, <2>3, NoResult
  <2>5. OthersRest(t) /\ task'[t] = task[t] /\ meta'[j] = meta[j]
    BY <2>2 DEF OthersRest
  <2> QED
    BY <2>2, <2>3, <2>4, <2>5, StoreCounts
<1>3. CASE \E h \in Hashes : Mine(h)
  <2>1. PICK h \in Hashes : Mine(h)
    BY <1>3
  <2>2. /\ Grows(txs, txs') /\ DOMAIN txs' = DOMAIN txs /\ settled <= settled' /\ settled' \in Int
    BY <1>1, <2>1, MineGrows DEF ChainTypes
  <2>3. UNCHANGED <<book, meta, task>>
    BY <2>1 DEF Mine, storeVars
  <2>4. \A j \in Job : Blocks[j][1] \in Nat
    BY BlocksOf
  <2>5. \A j \in Job : MayStart(j)' => MayStart(j)
    BY <1>1, <2>2, <2>3, <2>4 DEF MayStart
  <2>6. \A j \in Job : Room(j)' >= Room(j)
    <3> SUFFICES ASSUME NEW j \in Job PROVE Room(j)' >= Room(j)
      OBVIOUS
    <3>1. /\ book[j].processRetry \in Nat /\ book[j].verificationRetry \in Nat
      BY <1>1, RoomType
    <3>2. book'[j] = book[j]
      BY <2>3
    <3> QED
      BY <2>5, <3>1, <3>2 DEF Room
  <2>7. ASSUME NEW j \in Job, NEW i \in DOMAIN Blocks[j]
        PROVE  /\ Senders(j, i)' \subseteq Senders(j, i)
               /\ Sendings(Blocks[j][i])' = Sendings(Blocks[j][i])
    <3>1. Sendings(Blocks[j][i])' = Sendings(Blocks[j][i])
      BY <2>2 DEF Sendings, Hashes, Grows
    <3>2. \A u \in Task : MaySend(task[u], j, i, settled') => MaySend(task[u], j, i, settled)
      BY <1>1, <2>2, <2>4 DEF MaySend
    <3> QED
      BY <2>3, <3>1, <3>2 DEF Senders
  <2>8. Unasked'
    BY <2>3 DEF CountInv, Unasked
  <2> QED
    BY <2>6, <2>7, <2>8, CountStays
<1>4. CASE UNCHANGED vars
  <2>1. UNCHANGED <<book, meta, chainVars, task>>
    BY <1>4 DEF vars, storeVars
  <2> QED
    BY <1>0, <2>1, SilentCounts DEF OthersRest
<1> QED
  BY <1>2, <1>3, <1>4

(* The count holds at the start, *)
LEMMA InitCountInv == ASSUME Init PROVE CountInv
<1>1. KnowInv
  BY InitKnowInv
<1>2. Unasked
  BY DEF Init, StoreInit, Contract!Init, Contract!Missing, Unasked
<1>3. ASSUME NEW j \in Job, NEW i \in DOMAIN Blocks[j]
      PROVE  /\ IsFiniteSet(Senders(j, i))
             /\ Cardinality(Sendings(Blocks[j][i])) + Cardinality(Senders(j, i)) <= Room(j)
  <2>1. Sendings(Blocks[j][i]) = {}
    BY DEF Init, Sendings, Hashes
  <2>2. Senders(j, i) = {}
    BY DEF Init, Idle, Senders, MaySend
  <2>3. Room(j) \in Nat
    BY <1>1, RoomType DEF KnowInv, IInv
  <2> QED
    BY <2>1, <2>2, <2>3, FS_EmptySet
<1> QED
  BY <1>1, <1>2, <1>3 DEF CountInv, Counted

(* and after every step. *)
LEMMA StepCountInv == ASSUME CountInv, [Next]_vars PROVE CountInv'
<1>1. KnowInv'
  BY StepKnowInv DEF CountInv
<1>2. ASSUME NEW t \in Task, TaskStep(t) PROVE CountInv'
  BY <1>1, <1>2, HandlersCount, SendingCounts, RecordCounts
  DEF TaskStep, ProcessStep, VerifyStep
<1>3. ASSUME NEW t \in Task, Fault(t) PROVE CountInv'
  BY <1>1, <1>3, HandlersCount DEF Fault
<1>4. ASSUME NEW t \in Task, NEW j \in Job, Claim(t, j) \/ Stamp(t, j) PROVE CountInv'
  BY <1>1, <1>4, BeginCounts
<1> QED
  BY <1>1, <1>2, <1>3, <1>4, OthersCount DEF Next

(* Nobody pays for a block twice: every block is sent once, and once more for each time *)
(* an operator asked to process or verify its job again.                                *)
THEOREM BlocksAreSentOnce == Spec => []SentOnce
<1>1. Init => CountInv
  BY InitCountInv
<1>2. CountInv /\ [Next]_vars => CountInv'
  BY StepCountInv
<1>3. ASSUME CountInv PROVE SentOnce
  <2> SUFFICES ASSUME NEW j \in Job, NEW i \in DOMAIN Blocks[j]
               PROVE  Cardinality(Sendings(Blocks[j][i]))
                          <= 1 + book[j].processRetry + book[j].verificationRetry
    BY DEF SentOnce
  <2> DEFINE S == Sendings(Blocks[j][i])
             W == Senders(j, i)
  <2>1. IsFiniteSet(W) /\ Cardinality(S) + Cardinality(W) <= Room(j)
    BY <1>3 DEF CountInv, Counted
  <2>2. Cardinality(S) \in Nat
    BY <1>3, SendingsFinite DEF CountInv, KnowInv, IInv
  <2>3. /\ book[j].processRetry \in Nat /\ book[j].verificationRetry \in Nat
    BY <1>3, RoomType DEF CountInv, KnowInv, IInv
  <2> HIDE DEF S, W
  <2>4. Cardinality(W) \in Nat
    BY <2>1, FS_CardinalityType
  <2>5. Cardinality(S) <= 1 + book[j].processRetry + book[j].verificationRetry
    BY <2>1, <2>2, <2>3, <2>4 DEF Room
  <2> QED
    BY <2>5 DEF S
<1>4. CountInv => SentOnce
  BY <1>3
<1> QED
  BY <1>1, <1>2, <1>4, PTL DEF Spec

-------------------------------------------------------------------------------
(* Nothing is wasted as long as no wait runs out and no operator steps in.  Each attempt *)
(* then sends the block the contract takes next, waits for it, and the job is verified   *)
(* before a later one exists.                                                            *)

Calm == ~late /\ ~SomeoneSteppedIn

\* The contract is where it started, or at a block it has taken.
Reached ==
    \/ settled = FirstBlock - 1
    \/ \E h \in Hashes : txs[h].status = "mined" /\ txs[h].block = settled

WorkSteps == {"validate", "fetch", "nonce", "submit", "await", "finish"}

AtWork(r, j) == r.job = j /\ r.pc \in WorkSteps

NoWorker(j) == \A t \in Task : ~AtWork(task[t], j)

\* One attempt at a time, none before the job is taken up or once it is processed; a job
\* is there only when all earlier ones are completed, and is never processed once more.
JobOrderly(j) ==
    /\ book[j].status \in {"Absent", "Created"} => NoWorker(j) /\ meta[j].failed = 0
    /\ book[j].status \notin {"PendingRetry", "VerificationFailed"}
    /\ book[j].status \in Contract!Verifiable \cup {"Completed"} =>
           NoWorker(j) /\ Last(Blocks[j]) <= settled
    /\ \A t, u \in Task : AtWork(task[t], j) /\ AtWork(task[u], j) => t = u
    /\ book[j].status # "Absent" =>
           \A k \in Job : Last(Blocks[k]) < Blocks[j][1] => book[k].status = "Completed"

\* A task is at the block that is next, or at the one just mined.
InTime(t, r, C, T, s) ==
    /\ r.pc = "validate" => r.meta.failed = 0
    /\ r.pc \in {"fetch", "nonce", "submit"} => Blocks[r.job][r.i] = s + 1
    /\ r.pc = "await" /\ T[r.tx].status = "mined" => Blocks[r.job][r.i] = s
    /\ r.pc = "finish" => Last(Blocks[r.job]) <= s
    /\ r.pc = "reject" => t \notin C[r.job]

TaskInTime(t) == InTime(t, task[t], current, txs, settled)

ChainOrderly ==
    \A h \in Hashes : \/ txs[h].status = "mined"
                      \/ txs[h].status = "pool" /\ txs[h].block = settled + 1

Orderly ==
    /\ ChainOrderly
    /\ \A j \in Job : JobOrderly(j)
    /\ \A t \in Task : TaskInTime(t)

CalmInv == CountInv /\ Reached /\ (Calm => Orderly)

(* In calm, a block is sent once, by the only task that may send it. *)
LEMMA OneAtMost ==
  ASSUME CountInv, Calm, NEW j \in Job, NEW i \in DOMAIN Blocks[j]
  PROVE  /\ \A g, h \in Sendings(Blocks[j][i]) : g = h
         /\ \A h \in Sendings(Blocks[j][i]) : \A t \in Task : ~MaySend(task[t], j, i, settled)
         /\ MayStart(j) => Sendings(Blocks[j][i]) = {}
<1> DEFINE S == Sendings(Blocks[j][i])
           W == Senders(j, i)
<1>1. IsFiniteSet(W) /\ Cardinality(S) + Cardinality(W) <= Room(j)
  BY DEF CountInv, Counted
<1>2. IsFiniteSet(S) /\ Cardinality(S) \in Nat
  BY SendingsFinite DEF CountInv, KnowInv, IInv
<1>3. Room(j) = IF MayStart(j) THEN 0 ELSE 1
  <2>1. book[j].processRetry \in Nat /\ book[j].verificationRetry \in Nat
    BY RoomType DEF CountInv, KnowInv, IInv
  <2>2. book[j].processRetry = 0 /\ book[j].verificationRetry = 0
    BY <2>1 DEF Calm, SomeoneSteppedIn, SteppedIn
  <2> QED
    BY <2>2 DEF Room
<1>4. \A t \in Task : MaySend(task[t], j, i, settled) => t \in W
  BY DEF Senders
<1> HIDE DEF S, W
<1>5. Cardinality(W) \in Nat /\ (Cardinality(W) = 0 => W = {})
  BY <1>1, FS_CardinalityType, FS_EmptySet
<1>6. /\ Cardinality(S) = 0 => S = {}
      /\ Cardinality(S) = 1 => \E x : S = {x}
  BY <1>2, FS_EmptySet, FS_Singleton
<1>7. MayStart(j) => S = {}
  BY <1>1, <1>2, <1>3, <1>5, <1>6
<1>8. \A g, h \in S : g = h
  <2>1. Cardinality(S) = 0 \/ Cardinality(S) = 1
    BY <1>1, <1>2, <1>3, <1>5
  <2> QED
    BY <1>6, <2>1
<1>9. S # {} => W = {}
  <2>1. S # {} => Cardinality(S) # 0
    BY <1>2, <1>6
  <2> QED
    BY <1>1, <1>2, <1>3, <1>5, <2>1
<1> QED
  BY <1>4, <1>7, <1>8, <1>9 DEF S

(* A transaction is that of a block of some job. *)
LEMMA BlockOfJob ==
  ASSUME ChainTypes, NEW h \in Hashes
  PROVE  \E j \in Job : \E i \in DOMAIN Blocks[j] :
             txs[h].block = Blocks[j][i] /\ h \in Sendings(Blocks[j][i])
<1>1. txs[h] \in Transactions
  BY DEF ChainTypes, Hashes
<1>2. txs[h].block \in Block
  BY <1>1 DEF Transactions
<1> QED
  BY <1>2 DEF Block, Sendings

(* The block after one of a job is the next of the job, or the first of a later one. *)
LEMMA NextBlock ==
  ASSUME NEW j \in Job, NEW i \in DOMAIN Blocks[j]
  PROVE  /\ i + 1 \in DOMAIN Blocks[j] => Blocks[j][i + 1] = Blocks[j][i] + 1
         /\ i + 1 \notin DOMAIN Blocks[j] => Last(Blocks[j]) = Blocks[j][i]
         /\ i + 1 <= Len(Blocks[j]) <=> i + 1 \in DOMAIN Blocks[j]
<1>1. /\ DOMAIN Blocks[j] = 1 .. Len(Blocks[j]) /\ Len(Blocks[j]) \in Nat \ {0}
      /\ i + 1 \in DOMAIN Blocks[j] => Blocks[j][i + 1] = Blocks[j][i] + 1
  BY BlocksOf
<1>2. i + 1 \notin DOMAIN Blocks[j] => i = Len(Blocks[j])
  BY <1>1
<1> QED
  BY <1>1, <1>2 DEF Last

(* Without a failure before it, an attempt starts with the first block. *)
LEMMA FromTheFirst ==
  ASSUME NEW j \in Job, NEW data, data.failed = 0
  PROVE  FirstToSend(j, data) = 1 /\ Following(j, 1) = "fetch"
<1>1. /\ DOMAIN Blocks[j] = 1 .. Len(Blocks[j]) /\ Len(Blocks[j]) \in Nat \ {0}
      /\ \A n \in DOMAIN Blocks[j] : Blocks[j][n] \in Nat
  BY BlocksOf
<1> DEFINE First(i) == /\ Blocks[j][i] >= data.failed
                       /\ \A k \in DOMAIN Blocks[j] : Blocks[j][k] >= data.failed => i <= k
<1>2. 1 \in DOMAIN Blocks[j] /\ First(1)
  BY <1>1
<1>3. \A i \in DOMAIN Blocks[j] : First(i) => i = 1
  BY <1>1, <1>2
<1>4. (CHOOSE i \in DOMAIN Blocks[j] : First(i)) = 1
  <2> HIDE DEF First
  <2> QED
    BY <1>2, <1>3
<1> QED
  BY <1>1, <1>2, <1>4 DEF FirstToSend, Following

-------------------------------------------------------------------------------
(* What keeps the order *)

(* Once an operator has stepped in, this is never forgotten. *)
LEMMA SteppedInStays ==
  ASSUME StoreTypeOK, StoreTypeOK', Unasked, NEW t \in Task, NEW j \in Job,
         OtherStep(t, j) \/ RecordVerified(t, j), ~SomeoneSteppedIn'
  PROVE  /\ ~SomeoneSteppedIn /\ ~Retry(j) /\ ~Reverify(j)
         /\ \A k \in Job : book[k].status = "Completed" => book'[k].status = "Completed"
<1> DEFINE d == book[j]
           e == book'[j]
<1>0. book \in [Job -> Contract!Entries]
  BY DEF StoreTypeOK
<1>1. /\ d.processRetry \in Nat /\ d.verificationRetry \in Nat
      /\ e.processRetry \in Nat /\ e.verificationRetry \in Nat
  BY RoomType
<1>2. \A i \in Job : i # j => book'[i] = book[i]
  BY StoreMoves
<1>3. e.processRetry = 0 /\ e.verificationRetry = 0
  BY <1>1 DEF SomeoneSteppedIn, SteppedIn
<1>4. ~Retry(j) /\ ~Reverify(j)
  BY <1>0, <1>1, <1>3, MovesEntry DEF Retry, Reverify
<1>5. /\ d.processRetry = 0 /\ d.verificationRetry = 0
      /\ d.status = "Completed" => e.status = "Completed"
  <2>1. \/ Concludes(j) \/ CreateJob(j) \/ TakeToProcess(t, j)
        \/ RecordProcessed(t, j) \/ RecordRejected(t, j)
    BY <1>4, StepsSettle
  <2>2. CASE Concludes(j)
    BY <1>3, <2>2 DEF Concludes, Keeps, Contract!Verifiable
  <2>3. CASE CreateJob(j)
    BY <1>0, <2>3, MovesEntry DEF CreateJob, Unasked
  <2>4. CASE TakeToProcess(t, j)
    BY <1>0, <1>3, <2>4, MovesEntry DEF TakeToProcess, Keeps, Processable
  <2>5. CASE RecordProcessed(t, j)
    BY <1>0, <1>3, <2>5, MovesEntry DEF RecordProcessed
  <2>6. CASE RecordRejected(t, j)
    BY <1>0, <1>3, <2>6, MovesEntry DEF RecordRejected, Keeps, Contract!Verifiable
  <2> QED
    BY <2>1, <2>2, <2>3, <2>4, <2>5, <2>6
<1>6. ~SomeoneSteppedIn
  <2> SUFFICES ASSUME NEW i \in Job PROVE ~SteppedIn(i)
    BY DEF SomeoneSteppedIn
  <2>1. CASE i = j
    BY <1>5, <2>1 DEF SteppedIn
  <2>2. CASE i # j
    BY <1>2, <2>2 DEF SomeoneSteppedIn, SteppedIn
  <2> QED
    BY <2>1, <2>2
<1> QED
  BY <1>2, <1>4, <1>5, <1>6

(* A job whose entry is left alone, and which nobody starts to work at. *)
LEMMA JobRests ==
  ASSUME NEW j \in Job, JobOrderly(j), book'[j] = book[j], meta'[j] = meta[j],
         settled \in Int, settled' \in Int, settled <= settled',
         \A t \in Task : AtWork(task'[t], j) => AtWork(task[t], j),
         \A k \in Job : book[k].status = "Completed" => book'[k].status = "Completed"
  PROVE  JobOrderly(j)'
<1>1. NoWorker(j) => NoWorker(j)'
  BY DEF NoWorker
<1>2. Last(Blocks[j]) <= settled => Last(Blocks[j]) <= settled'
  BY BlocksOf
<1> QED
  BY <1>1, <1>2 DEF JobOrderly

(* A task that is left alone, where the transactions it knows are. *)
LEMMA TaskRests ==
  ASSUME IInv, NEW u \in Task, TaskInTime(u), task'[u] = task[u],
         \A k \in Job : u \in current'[k] => u \in current[k],
         settled' = settled, \A h \in Hashes : txs'[h].status = txs[h].status
  PROVE  TaskInTime(u)'
<1>1. Sound(task[u], txs, settled)
  BY SoundTask
<1>2. task[u].pc = "await" => task[u].tx \in Hashes
  BY <1>1 DEF Sound, Hashes
<1>3. task[u].pc = "reject" => task[u].job \in Job
  BY <1>1 DEF Sound
<1> QED
  BY <1>2, <1>3 DEF TaskInTime, InTime

(* One task goes on, what it works at is what it worked at, and the chain and the store *)
(* stay as they are.                                                                    *)
LEMMA SilentOrder ==
  ASSUME IInv, Orderly, NEW t \in Task, OthersRest(t), UNCHANGED <<book, meta, current, chainVars>>,
         \A j \in Job : AtWork(task'[t], j) => AtWork(task[t], j),
         InTime(t, task'[t], current, txs, settled)
  PROVE  Orderly'
<1>1. settled' = settled /\ txs' = txs /\ settled \in Int
  BY DEF chainVars, IInv, ChainTypes
<1>2. ChainOrderly'
  BY <1>1 DEF Orderly, ChainOrderly, Hashes
<1>3. ASSUME NEW j \in Job PROVE JobOrderly(j)'
  <2>1. \A u \in Task : AtWork(task'[u], j) => AtWork(task[u], j)
    BY DEF OthersRest
  <2> QED
    BY <1>1, <2>1, JobRests DEF Orderly
<1>4. ASSUME NEW u \in Task PROVE TaskInTime(u)'
  <2>1. CASE u = t
    BY <1>1, <2>1 DEF TaskInTime
  <2>2. CASE u # t
    BY <1>1, <2>2, TaskRests DEF Orderly, OthersRest
  <2> QED
    BY <2>1, <2>2
<1> QED
  BY <1>2, <1>3, <1>4 DEF Orderly

(* A step that leaves the store and the chain alone. *)
LEMMA SilentCalm ==
  ASSUME CalmInv, CountInv', UNCHANGED <<book, meta, current, chainVars>>, NEW t \in Task,
         late => late', OthersRest(t),
         Calm /\ ~late' => /\ \A j \in Job : AtWork(task'[t], j) => AtWork(task[t], j)
                           /\ InTime(t, task'[t], current, txs, settled)
  PROVE  CalmInv'
<1>1. Reached'
  BY DEF CalmInv, Reached, Hashes, chainVars
<1>2. ASSUME Calm' PROVE Orderly'
  <2>1. Calm /\ ~late'
    BY <1>2 DEF Calm, SomeoneSteppedIn, SteppedIn
  <2>2. IInv /\ Orderly
    BY <2>1 DEF CalmInv, CountInv, KnowInv
  <2> QED
    BY <2>1, <2>2, SilentOrder
<1> QED
  BY <1>1, <1>2 DEF CalmInv

(* A verification that may still write its verdict finds the contract at the last block: *)
(* where it is further on, there is a later job, for which this one had to be completed. *)
LEMMA NoneRejected ==
  ASSUME CalmInv, Calm, NEW t \in Task, task[t].pc = "last", t \in current[task[t].job]
  PROVE  settled = Last(Blocks[task[t].job])
<1> DEFINE j == task[t].job
<1>0. /\ IInv /\ KnowInv /\ CountInv /\ Orderly /\ ChainTypes /\ settled \in Int
      /\ j \in Job
  BY SoundTask DEF CalmInv, CountInv, KnowInv, IInv, ChainTypes
<1>1. book[j].status \in Contract!Verifiable
  BY <1>0 DEF KnowInv, TaskKnows, Knows, VerifySteps
<1>2. Last(Blocks[j]) <= settled /\ Last(Blocks[j]) \in Nat
  BY <1>0, <1>1, BlocksOf DEF Orderly, JobOrderly
<1>3. ASSUME settled # Last(Blocks[j]) PROVE FALSE
  <2>1. settled # FirstBlock - 1
    <3>1. FirstBlock <= Last(Blocks[j]) /\ FirstBlock \in Nat
      <4>1. Last(Blocks[j]) \in Block
        <5>1. Len(Blocks[j]) \in DOMAIN Blocks[j]
          BY <1>0, BlocksOf
        <5> QED
          BY <1>0, <5>1, BlocksOf DEF Last
      <4>2. Block \in SUBSET Nat /\ Block # {}
        <5>1. \A b \in Block : b \in Nat
          BY BlocksOf DEF Block
        <5> QED
          BY <4>1, <5>1
      <4>3. \E b \in Block : \A c \in Block : b <= c
        BY <4>2, LeastNumber
      <4>4. FirstBlock \in Block /\ \A c \in Block : FirstBlock <= c
        BY <4>3 DEF FirstBlock
      <4> QED
        BY <4>1, <4>2, <4>4
    <3> QED
      BY <1>0, <1>2, <3>1
  <2>2. PICK h \in Hashes : txs[h].status = "mined" /\ txs[h].block = settled
    BY <2>1 DEF CalmInv, Reached
  <2>3. PICK k \in Job : \E i \in DOMAIN Blocks[k] :
            txs[h].block = Blocks[k][i] /\ h \in Sendings(Blocks[k][i])
    BY <1>0, BlockOfJob
  <2>4. PICK i \in DOMAIN Blocks[k] :
            txs[h].block = Blocks[k][i] /\ h \in Sendings(Blocks[k][i])
    BY <2>3
  <2>5. Last(Blocks[j]) < Blocks[k][i]
    BY <1>0, <1>2, <1>3, <2>2, <2>4
  <2>6. /\ Blocks[k][i] <= Last(Blocks[k]) /\ Blocks[k][1] <= Blocks[k][i]
        /\ Blocks[k][1] \in Nat /\ Blocks[k][i] \in Nat /\ Last(Blocks[k]) \in Nat
    BY FirstOfJob
  <2>7. k # j
    BY <1>2, <2>5, <2>6
  <2>8. Last(Blocks[j]) < Blocks[k][1]
    <3>1. Last(Blocks[j]) < Blocks[k][1] \/ Last(Blocks[k]) < Blocks[j][1]
      BY <1>0, <2>7, StateUpdateAssumption
    <3>2. Blocks[j][1] \in Nat /\ Blocks[j][1] <= Last(Blocks[j])
      <4>1. 1 \in DOMAIN Blocks[j]
        BY <1>0, BlocksOf
      <4> QED
        BY <1>0, <4>1, FirstOfJob
    <3> QED
      BY <1>2, <2>5, <2>6, <3>1, <3>2
  <2>9. book[k].status # "Absent"
    BY <1>0, <2>4, OneAtMost DEF MayStart
  <2>10. book[j].status = "Completed"
    BY <1>0, <2>8, <2>9 DEF Orderly, JobOrderly
  <2> QED
    BY <1>1, <2>10 DEF Contract!Verifiable
<1> QED
  BY <1>3

(* The steps before a result is written, other than the sending of a transaction. *)
LEMMA HandlersCalm ==
  ASSUME CalmInv, CountInv', NEW t \in Task,
         \/ Validate(t) \/ Fetch(t) \/ Unimplemented(t) \/ UnknownDa(t) \/ ReadNonce(t)
         \/ Refused(t) \/ Await(t) \/ AwaitedInVain(t) \/ ProcessCallFails(t)
         \/ CheckHash(t) \/ WaitForHash(t) \/ WaitInVain(t) \/ RecheckHash(t) \/ CheckLast(t)
         \/ Send(t) \/ Outdated(t) \/ HandlerErrs(t) \/ Expire(t) \/ Crash(t)
  PROVE  CalmInv'
<1> DEFINE r == task[t]
           q == task'[t]
           Same == \A j \in Job : AtWork(q, j) => AtWork(r, j)
           Fine == Same /\ InTime(t, q, current, txs, settled)
<1>0. /\ IInv /\ CountInv /\ r \in Tasks /\ task \in [Task -> Tasks] /\ settled \in Int
      /\ Sound(r, txs, settled) /\ (Calm => Orderly /\ InTime(t, r, current, txs, settled))
  BY SoundTask DEF CalmInv, CountInv, KnowInv, IInv, TasksSound, ChainTypes, Orderly, TaskInTime
<1>1. UNCHANGED <<book, meta, current, chainVars>> /\ (late => late')
  BY DEF Validate, Fetch, Unimplemented, UnknownDa, ReadNonce, Refused, Await,
         AwaitedInVain, ProcessCallFails, CheckHash, WaitForHash, WaitInVain, RecheckHash,
         CheckLast, Send, Outdated, HandlerErrs, Expire, Crash, Others, storeVars
<1>2. ASSUME OthersRest(t), Calm /\ ~late' => Fine PROVE CalmInv'
  BY <1>1, <1>2, SilentCalm
<1>3. ASSUME NEW p \in Steps \ (WorkSteps \cup {"reject"}), GoTo(t, p) PROVE CalmInv'
  <2>1. GoesTo(t, p) /\ OthersRest(t)
    BY <1>0, <1>3, RecordMoves
  <2>2. Fine
    BY <1>3, <2>1 DEF GoesTo, AtWork, InTime, WorkSteps
  <2> QED
    BY <1>2, <2>1, <2>2
<1>4. ASSUME End(t) PROVE CalmInv'
  <2>1. q = Idle /\ OthersRest(t) /\ Idle.pc = "idle"
    <3>1. Idle.pc = "idle"
      BY DEF Idle
    <3> QED
      BY <1>0, <1>4, <3>1, RecordMoves
  <2>2. Fine
    BY <2>1 DEF AtWork, InTime, WorkSteps
  <2> QED
    BY <1>2, <2>1, <2>2
<1>5. ASSUME Marked(t) \/ NextHash(t) PROVE CalmInv'
  <2>1. q.pc \in {"giveUp", "check", "last"} /\ OthersRest(t)
    BY <1>0, <1>5, RecordMoves
  <2>2. Fine
    BY <2>1 DEF AtWork, InTime, WorkSteps
  <2> QED
    BY <1>2, <2>1, <2>2
<1>6. CASE Validate(t)
  <2> DEFINE n == FirstToSend(r.job, r.meta)
             ok == [r EXCEPT !.pc = Following(r.job, n), !.i = n]
  <2>1. CASE Unmarked(t)
    BY <1>3, <2>1 DEF Unmarked, Steps, ProcessSteps, WorkSteps
  <2>2. CASE NoGap(r.job) /\ task' = [task EXCEPT ![t] = ok]
    <3>0. r.pc = "validate" /\ r.job \in Job
      BY <1>0, <1>6 DEF Validate, Sound
    <3>1. ok.pc = Following(r.job, n) /\ ok.pc \in {"fetch", "finish"} /\ ok.job = r.job
          /\ ok.i = n
      BY <1>0 DEF Tasks, Following
    <3>2. q = ok /\ OthersRest(t)
      <4> HIDE DEF ok
      <4> QED
        BY <1>0, <2>2 DEF OthersRest
    <3> HIDE DEF ok
    <3>3. Calm => r.meta.failed = 0
      BY <1>0, <3>0 DEF InTime
    <3>4. Calm => n = 1 /\ q.pc = "fetch"
      BY <3>0, <3>1, <3>2, <3>3, FromTheFirst
    <3>5. settled + 1 = Blocks[r.job][1]
      BY <2>2 DEF NoGap
    <3> HIDE DEF n
    <3>6. Calm => InTime(t, q, current, txs, settled)
      BY <3>1, <3>2, <3>4, <3>5 DEF InTime
    <3>7. Same
      BY <3>0, <3>1, <3>2 DEF AtWork, WorkSteps
    <3> QED
      BY <1>2, <3>2, <3>6, <3>7
  <2> QED
    BY <1>6, <2>1, <2>2 DEF Validate
<1>7. CASE Fetch(t)
  <2>1. GoesTo(t, "nonce") /\ OthersRest(t) /\ r.pc = "fetch"
    BY <1>0, <1>7, RecordMoves DEF Fetch, Steps, ProcessSteps
  <2>2. Calm => Fine
    BY <1>0, <2>1 DEF GoesTo, AtWork, WorkSteps, InTime
  <2> QED
    BY <1>2, <2>1, <2>2
<1>8. CASE ReadNonce(t)
  <2> DEFINE ok == [r EXCEPT !.pc = "submit", !.nonce = Nonce]
  <2>1. task' = [task EXCEPT ![t] = ok] /\ r.pc = "nonce"
    BY <1>8 DEF ReadNonce
  <2>2. ok.pc = "submit" /\ ok.job = r.job /\ ok.i = r.i
    BY <1>0 DEF Tasks
  <2>3. q = ok /\ OthersRest(t)
    <3> HIDE DEF ok
    <3> QED
      BY <1>0, <2>1 DEF OthersRest
  <2> HIDE DEF ok
  <2>4. Calm => Fine
    BY <1>0, <2>1, <2>2, <2>3 DEF AtWork, WorkSteps, InTime
  <2> QED
    BY <1>2, <2>3, <2>4
<1>9. CASE Await(t) \/ AwaitedInVain(t)
  <2>1. /\ q.pc = Following(r.job, r.i + 1) /\ q.job = r.job /\ q.i = r.i + 1
        /\ OthersRest(t) /\ r.pc = "await"
    BY <1>0, <1>9, RecordMoves DEF Await, AwaitedInVain
  <2>2. r.job \in Job /\ r.i \in DOMAIN Blocks[r.job] /\ r.tx \in Hashes
    BY <1>0, <2>1 DEF Sound, AttemptSteps, Hashes
  <2>3. Same
    BY <2>1 DEF AtWork, WorkSteps
  <2>4. ASSUME Calm, ~late' PROVE InTime(t, q, current, txs, settled)
    <3>1. txs[r.tx].status = "mined"
      <4>1. txs[r.tx].status # "pool"
        BY <1>9, <2>4 DEF Await, AwaitedInVain
      <4> QED
        BY <1>0, <2>2, <2>4, <4>1 DEF Orderly, ChainOrderly
    <3>2. Blocks[r.job][r.i] = settled
      BY <1>0, <2>1, <2>4, <3>1 DEF InTime
    <3>3. CASE r.i + 1 \in DOMAIN Blocks[r.job]
      <4>1. q.pc = "fetch" /\ Blocks[r.job][r.i + 1] = settled + 1
        BY <2>1, <2>2, <3>2, <3>3, NextBlock DEF Following
      <4> QED
        BY <2>1, <4>1 DEF InTime
    <3>4. CASE r.i + 1 \notin DOMAIN Blocks[r.job]
      <4>1. q.pc = "finish" /\ Last(Blocks[r.job]) = settled
        BY <2>1, <2>2, <3>2, <3>4, NextBlock DEF Following
      <4> QED
        BY <1>0, <2>1, <4>1 DEF InTime
    <3> QED
      BY <3>3, <3>4
  <2> QED
    BY <1>2, <2>1, <2>3, <2>4
<1>10. CASE Expire(t)
  <2> DEFINE ok == [r EXCEPT !.msg = "none"]
  <2>1. /\ ok.pc = r.pc /\ ok.job = r.job /\ ok.i = r.i /\ ok.tx = r.tx /\ ok.meta = r.meta
        /\ task' = [task EXCEPT ![t] = ok]
    BY <1>0, <1>10 DEF Expire, Tasks
  <2> HIDE DEF ok
  <2>2. q = ok /\ OthersRest(t)
    BY <1>0, <2>1 DEF OthersRest
  <2>3. Calm => Fine
    BY <1>0, <2>1, <2>2 DEF AtWork, InTime
  <2> QED
    BY <1>2, <2>2, <2>3
<1>11. CASE CheckLast(t)
  <2>1. r.pc = "last"
    BY <1>11 DEF CheckLast
  <2>2. CASE GoTo(t, "accept")
    BY <1>3, <2>2 DEF Steps, VerifySteps, WorkSteps
  <2>4. CASE End(t)
    BY <1>4, <2>4
  <2>3. CASE GoTo(t, "reject") /\ settled # Last(Blocks[r.job])
    <3>1. GoesTo(t, "reject") /\ OthersRest(t)
      BY <1>0, <2>3, RecordMoves DEF Steps, VerifySteps
    <3>2. Calm => t \notin current[r.job]
      BY <2>1, <2>3, NoneRejected
    <3>3. Calm => Fine
      BY <3>1, <3>2 DEF GoesTo, AtWork, WorkSteps, InTime
    <3> QED
      BY <1>2, <3>1, <3>3
  <2> QED
    BY <1>11, <2>2, <2>3, <2>4 DEF CheckLast
<1>12. CASE Unimplemented(t) \/ UnknownDa(t) \/ Refused(t) \/ ProcessCallFails(t)
  <2>1. GoTo(t, "giveUp") \/ Marked(t)
    BY <1>12 DEF Unimplemented, UnknownDa, Refused, ProcessCallFails, Unmarked
  <2>2. "giveUp" \in Steps \ (WorkSteps \cup {"reject"})
    BY DEF Steps, ProcessSteps, WorkSteps
  <2> QED
    BY <1>3, <1>5, <2>1, <2>2
<1>13. CASE CheckHash(t) \/ WaitForHash(t) \/ WaitInVain(t) \/ RecheckHash(t)
  <2>1. \/ \E p \in {"wait", "recheck", "last"} : GoTo(t, p)
        \/ NextHash(t) \/ End(t)
    BY <1>13 DEF CheckHash, WaitForHash, WaitInVain, RecheckHash
  <2>2. \A p \in {"wait", "recheck", "last"} : p \in Steps \ (WorkSteps \cup {"reject"})
    BY DEF Steps, VerifySteps, WorkSteps
  <2> QED
    BY <1>3, <1>4, <1>5, <2>1, <2>2
<1>14. CASE Send(t) \/ Outdated(t) \/ HandlerErrs(t) \/ Crash(t)
  BY <1>4, <1>14 DEF Send, Outdated, HandlerErrs, Crash
<1> QED
  BY <1>6, <1>7, <1>8, <1>9, <1>10, <1>11, <1>12, <1>13, <1>14

(* A block is sent: it is the next one, and nothing else is waiting to be mined. *)
LEMMA SendingCalm ==
  ASSUME CalmInv, CountInv', NEW t \in Task, Submit(t) \/ AnswerLost(t)
  PROVE  CalmInv'
<1> DEFINE r == task[t]
           q == task'[t]
           U == Sent(BlockAt(t), r.nonce)
<1>0. /\ IInv /\ CountInv /\ Sound(r, txs, settled) /\ r \in Tasks /\ r.pc = "submit"
      /\ r.job \in Job /\ ChainTypes /\ task \in [Task -> Tasks] /\ settled \in Int
  BY SoundTask
  DEF CalmInv, CountInv, KnowInv, IInv, Submit, AnswerLost, TasksSound, ChainTypes
<1>1. /\ UNCHANGED <<book, current, meta, settled, late>> /\ txs' = U
  BY DEF Submit, AnswerLost, storeVars
<1>2. r.i \in DOMAIN Blocks[r.job] /\ r.i \in Nat /\ BlockAt(t) = Blocks[r.job][r.i]
  BY <1>0 DEF Sound, BlockAt, Tasks, AttemptSteps
<1>3. BlockAt(t) \in Block /\ r.nonce \in Nat
  BY <1>0, <1>2, BlocksOf DEF Tasks
<1>4. /\ \A h \in DOMAIN txs : /\ U[h].block = txs[h].block
                               /\ U[h].status = IF h \in Rivals(r.nonce) THEN "dropped"
                                                                        ELSE txs[h].status
      /\ U[Len(txs) + 1].block = BlockAt(t) /\ U[Len(txs) + 1].status = "pool"
      /\ DOMAIN U = DOMAIN txs \cup {Len(txs) + 1}
      /\ Len(txs) + 1 \notin DOMAIN txs
  BY <1>0, <1>3, SentIs
<1> HIDE DEF U
<1>5. Reached'
  <2>1. \A h \in DOMAIN txs : txs[h].status = "mined" => h \notin Rivals(r.nonce)
    BY DEF Rivals
  <2> QED
    BY <1>1, <1>4, <2>1 DEF CalmInv, Reached, Hashes
<1>6. ASSUME Calm' PROVE Orderly'
  <2>1. Calm /\ Orderly
    BY <1>1, <1>6 DEF CalmInv, Calm, SomeoneSteppedIn, SteppedIn
  <2>2. Blocks[r.job][r.i] = settled + 1
    BY <1>0, <2>1 DEF Orderly, TaskInTime, InTime
  <2>3. MaySend(r, r.job, r.i, settled)
    BY <1>0, <1>2 DEF MaySend
  <2>4. \A h \in Hashes : txs[h].status = "mined"
    <3> SUFFICES ASSUME NEW h \in Hashes, txs[h].status # "mined" PROVE FALSE
      OBVIOUS
    <3>1. txs[h].block = Blocks[r.job][r.i]
      BY <2>1, <2>2 DEF Orderly, ChainOrderly
    <3>2. h \in Sendings(Blocks[r.job][r.i])
      BY <3>1 DEF Sendings
    <3> QED
      BY <1>0, <1>2, <2>1, <2>3, <3>2, OneAtMost
  <2>5. \A h \in Hashes : txs'[h].status = txs[h].status
    BY <1>1, <1>4, <2>4 DEF Rivals, Hashes
  <2>6. ChainOrderly'
    <3> SUFFICES ASSUME NEW h \in DOMAIN txs'
                 PROVE  \/ txs'[h].status = "mined"
                        \/ txs'[h].status = "pool" /\ txs'[h].block = settled' + 1
      BY DEF ChainOrderly, Hashes
    <3>1. h \in DOMAIN txs \/ h = Len(txs) + 1
      BY <1>1, <1>4
    <3>2. CASE h \in DOMAIN txs
      BY <2>4, <2>5, <3>2 DEF Hashes
    <3>3. CASE h = Len(txs) + 1
      BY <1>1, <1>2, <1>4, <2>2, <3>3
    <3> QED
      BY <3>1, <3>2, <3>3
  <2>7. /\ OthersRest(t) /\ q.job = r.job
        /\ \/ q.pc = "giveUp"
           \/ q.pc = "await" /\ q.tx = Len(txs) + 1
    <3>1. CASE Submit(t)
      <4> DEFINE ok == [r EXCEPT !.pc = "await", !.tx = Len(txs) + 1]
      <4>1. task' = [task EXCEPT ![t] = ok]
        BY <3>1 DEF Submit
      <4>2. ok.pc = "await" /\ ok.job = r.job /\ ok.tx = Len(txs) + 1
        BY <1>0 DEF Tasks
      <4>3. q = ok /\ OthersRest(t)
        <5> HIDE DEF ok
        <5> QED
          BY <1>0, <4>1 DEF OthersRest
      <4> HIDE DEF ok
      <4> QED
        BY <4>2, <4>3
    <3>2. CASE AnswerLost(t)
      BY <1>0, <3>2, RecordMoves DEF AnswerLost
    <3> QED
      BY <3>1, <3>2
  <2>8. ASSUME NEW j \in Job PROVE JobOrderly(j)'
    <3>1. \A u \in Task : AtWork(task'[u], j) => AtWork(task[u], j)
      BY <1>0, <2>7 DEF AtWork, WorkSteps, OthersRest
    <3>2. settled' = settled /\ settled <= settled' /\ book' = book /\ meta' = meta
      BY <1>0, <1>1
    <3> QED
      BY <1>0, <2>1, <3>1, <3>2, JobRests DEF Orderly
  <2>9. ASSUME NEW u \in Task PROVE TaskInTime(u)'
    <3>1. CASE u = t
      <4>1. txs'[Len(txs) + 1].status = "pool"
        BY <1>1, <1>4
      <4> QED
        BY <2>7, <3>1, <4>1 DEF TaskInTime, InTime
    <3>2. CASE u # t
      BY <1>0, <1>1, <2>1, <2>5, <2>7, <3>2, TaskRests DEF Orderly, OthersRest
    <3> QED
      BY <3>1, <3>2
  <2> QED
    BY <2>6, <2>8, <2>9 DEF Orderly
<1> QED
  BY <1>5, <1>6 DEF CalmInv

(* A step of the store at job j, which task t takes or nobody. *)
LEMMA StoreCalm ==
  ASSUME CalmInv, CountInv', NEW t \in Task, NEW j \in Job,
         OtherStep(t, j) \/ RecordVerified(t, j), UNCHANGED <<chainVars, late>>, OthersRest(t),
         \A i \in Job : i # j => /\ meta'[i] = meta[i]
                                 /\ AtWork(task'[t], i) => AtWork(task[t], i),
         Orderly /\ Calm /\ Calm' => JobOrderly(j)' /\ InTime(t, task'[t], current', txs, settled)
  PROVE  CalmInv'
<1>0. /\ IInv /\ CountInv /\ StoreTypeOK /\ StoreTypeOK' /\ Unasked /\ settled \in Int
  BY DEF CalmInv, CountInv, KnowInv, IInv, ChainTypes
<1>1. settled' = settled /\ txs' = txs /\ late' = late /\ settled <= settled'
  BY <1>0 DEF chainVars
<1>2. Reached'
  BY <1>1 DEF CalmInv, Reached, Hashes
<1>3. ASSUME Calm' PROVE Orderly'
  <2>1. Calm /\ \A k \in Job : book[k].status = "Completed" => book'[k].status = "Completed"
    BY <1>0, <1>1, <1>3, SteppedInStays DEF Calm
  <2>2. Orderly
    BY <2>1 DEF CalmInv
  <2>3. JobOrderly(j)' /\ InTime(t, task'[t], current', txs, settled)
    BY <1>3, <2>1, <2>2
  <2>4. ChainOrderly'
    BY <1>1, <2>2 DEF Orderly, ChainOrderly, Hashes
  <2>5. ASSUME NEW i \in Job PROVE JobOrderly(i)'
    <3>1. CASE i = j
      BY <2>3, <3>1
    <3>2. CASE i # j
      <4>1. book'[i] = book[i] /\ meta'[i] = meta[i]
        BY <1>0, <3>2, StoreMoves
      <4>2. \A u \in Task : AtWork(task'[u], i) => AtWork(task[u], i)
        BY <3>2 DEF OthersRest
      <4> QED
        BY <1>0, <1>1, <2>1, <2>2, <4>1, <4>2, JobRests DEF Orderly
    <3> QED
      BY <3>1, <3>2
  <2>6. ASSUME NEW u \in Task PROVE TaskInTime(u)'
    <3>1. CASE u = t
      BY <1>1, <2>3, <3>1 DEF TaskInTime
    <3>2. CASE u # t
      <4>1. \A k \in Job : u \in current'[k] => u \in current[k]
        BY <1>0, <3>2, StoreMoves
      <4>2. TaskInTime(u) /\ task'[u] = task[u]
        BY <2>2, <3>2 DEF Orderly, OthersRest
      <4> QED
        BY <1>0, <1>1, <4>1, <4>2, TaskRests
    <3> QED
      BY <3>1, <3>2
  <2> QED
    BY <2>4, <2>5, <2>6 DEF Orderly
<1> QED
  BY <1>2, <1>3 DEF CalmInv

(* A result is written; a verdict that rejects the job never is. *)
LEMMA RecordCalm ==
  ASSUME CalmInv, CountInv', NEW t \in Task, Finish(t) \/ GiveUp(t) \/ Accept(t) \/ Reject(t)
  PROVE  CalmInv'
<1> DEFINE r == task[t]
           q == task'[t]
<1>j. PICK j \in Job : j = r.job
  BY SoundTask DEF CalmInv, CountInv, KnowInv, Finish, GiveUp, Accept, Reject
<1>0. /\ IInv /\ StoreTypeOK /\ book \in [Job -> Contract!Entries]
      /\ meta \in [Job -> Metadata] /\ r \in Tasks /\ settled \in Int
  BY SoundTask
  DEF CalmInv, CountInv, KnowInv, IInv, MetaSound, ChainTypes, StoreTypeOK,
      Finish, GiveUp, Accept, Reject
<1>1. UNCHANGED <<chainVars, late>> /\ settled' = settled
  BY DEF Finish, GiveUp, Accept, Reject, Others, chainVars
<1>2. OtherStep(t, j) \/ RecordVerified(t, j)
  BY <1>j DEF Finish, GiveUp, Accept, Reject, OtherStep
<1>3. \A i \in Job : i # j => meta'[i] = meta[i]
  BY <1>0, <1>j DEF Finish, GiveUp, Accept, Reject, Others
<1>4. q.pc \in {"idle", "announce", "requeue"} /\ OthersRest(t)
  <2>1. End(t) \/ \E p \in {"announce", "requeue"} : GoTo(t, p)
    BY DEF Finish, GiveUp, Accept, Reject
  <2>2. "announce" \in Steps /\ "requeue" \in Steps /\ Idle.pc = "idle"
    BY DEF Steps, SendSteps, Idle
  <2> QED
    BY <1>0, <2>1, <2>2, RecordMoves DEF GoesTo
<1>5. /\ \A i \in Job : ~AtWork(q, i)
      /\ InTime(t, q, current', txs, settled)
  BY <1>4 DEF AtWork, WorkSteps, InTime
<1>6. ASSUME Orderly, Calm, Calm' PROVE JobOrderly(j)'
  <2>0. JobOrderly(j) /\ TaskInTime(t)
    BY <1>0, <1>6 DEF Orderly
  <2>1. \A u \in Task : AtWork(task'[u], j) => u # t /\ AtWork(task[u], j)
    BY <1>4, <1>5 DEF OthersRest
  <2>2. \A u, v \in Task : AtWork(task'[u], j) /\ AtWork(task'[v], j) => u = v
    BY <2>0, <2>1 DEF JobOrderly
  <2>3. ASSUME book[j].status # "Absent"
        PROVE  \A k \in Job : Last(Blocks[k]) < Blocks[j][1] => book'[k].status = "Completed"
    <3> SUFFICES ASSUME NEW k \in Job, Last(Blocks[k]) < Blocks[j][1]
                 PROVE  book'[k].status = "Completed"
      OBVIOUS
    <3>1. book[k].status = "Completed"
      BY <2>0, <2>3 DEF JobOrderly
    <3>2. k # j
      <4>1. 1 \in DOMAIN Blocks[j]
        BY <1>0, BlocksOf
      <4>2. /\ Blocks[j][1] \in Nat /\ Last(Blocks[j]) \in Nat
            /\ Blocks[j][1] <= Last(Blocks[j])
        BY <1>0, <4>1, FirstOfJob
      <4> QED
        BY <4>2
    <3> QED
      BY <1>0, <1>2, <3>1, <3>2, StoreMoves
  <2>4. CASE Finish(t)
    <3>1. /\ r.pc = "finish" /\ book[j].status = "LockedForProcessing"
          /\ book'[j].status = "PendingVerification"
      BY <1>0, <1>j, <2>4, MovesEntry DEF Finish, RecordProcessed
    <3>2. NoWorker(j)'
      <4>1. AtWork(r, j)
        BY <1>j, <3>1 DEF AtWork, WorkSteps
      <4> QED
        BY <2>0, <2>1, <4>1 DEF JobOrderly, NoWorker
    <3>3. Last(Blocks[j]) <= settled'
      BY <1>1, <1>j, <2>0, <3>1 DEF TaskInTime, InTime
    <3> QED
      BY <2>2, <2>3, <3>1, <3>2, <3>3 DEF JobOrderly
  <2>5. CASE GiveUp(t)
    <3>1. book[j].status # "Absent" /\ book'[j].status = "Failed"
      BY <1>0, <1>j, <2>5, MovesEntry DEF GiveUp, RecordFailed, Keeps
    <3> QED
      BY <2>2, <2>3, <3>1 DEF JobOrderly, Contract!Verifiable
  <2>6. CASE Accept(t)
    <3>1. book[j].status \in Contract!Verifiable /\ book'[j].status = "Completed"
      BY <1>0, <1>j, <2>6, MovesEntry DEF Accept, RecordVerified, Keeps
    <3>2. NoWorker(j) /\ Last(Blocks[j]) <= settled
      BY <2>0, <3>1 DEF JobOrderly
    <3>3. NoWorker(j)'
      BY <2>1, <3>2 DEF NoWorker
    <3>4. book[j].status # "Absent"
      BY <3>1 DEF Contract!Verifiable
    <3> QED
      BY <1>1, <2>2, <2>3, <3>1, <3>2, <3>3, <3>4 DEF JobOrderly
  <2>7. CASE Reject(t)
    <3>1. r.pc = "reject" /\ t \in current[j]
      BY <1>j, <2>7 DEF Reject, RecordRejected, RecordExhausted, RecordFailed, Fresh
    <3> QED
      BY <1>j, <2>0, <3>1 DEF TaskInTime, InTime
  <2> QED
    BY <2>4, <2>5, <2>6, <2>7
<1> QED
  BY <1>0, <1>1, <1>2, <1>3, <1>4, <1>5, <1>6, StoreCalm

(* A job that is there when a step is taken stays after the jobs before it. *)
LEMMA EarlierStay ==
  ASSUME NEW t \in Task, NEW j \in Job, StoreTypeOK, OtherStep(t, j), JobOrderly(j),
         book[j].status # "Absent"
  PROVE  \A k \in Job : Last(Blocks[k]) < Blocks[j][1] => book'[k].status = "Completed"
<1> SUFFICES ASSUME NEW k \in Job, Last(Blocks[k]) < Blocks[j][1]
             PROVE  book'[k].status = "Completed"
  OBVIOUS
<1>1. book[k].status = "Completed"
  BY DEF JobOrderly
<1>2. 1 \in DOMAIN Blocks[j]
  BY BlocksOf
<1>3. /\ Blocks[j][1] \in Nat /\ Last(Blocks[j]) \in Nat /\ Blocks[j][1] <= Last(Blocks[j])
  BY <1>2, FirstOfJob
<1>4. k # j
  BY <1>3
<1> QED
  BY <1>1, <1>4, StoreMoves

(* A task takes up a job: an attempt starts when nobody has worked at the job before. *)
LEMMA BeginCalm ==
  ASSUME CalmInv, CountInv', NEW t \in Task, NEW j \in Job, Claim(t, j) \/ Stamp(t, j)
  PROVE  CalmInv'
<1> DEFINE q == task'[t]
<1>0. /\ IInv /\ StoreTypeOK /\ book \in [Job -> Contract!Entries] /\ settled \in Int
  BY DEF CalmInv, CountInv, KnowInv, IInv, ChainTypes, StoreTypeOK
<1>1. /\ OtherStep(t, j) /\ UNCHANGED <<meta, chainVars, late>> /\ settled' = settled
  BY DEF Claim, Stamp, OtherStep, Begin, Others, chainVars
<1>2. CASE Stamp(t, j)
  <2>1. q.pc = "check" /\ OthersRest(t)
    BY <1>0, <1>2, BeginMoves DEF Stamp, Steps, VerifySteps
  <2>2. /\ \A i \in Job : ~AtWork(q, i)
        /\ InTime(t, q, current', txs, settled)
    BY <2>1 DEF AtWork, WorkSteps, InTime
  <2>3. book' = book
    BY <1>2 DEF Stamp, TakeToVerify
  <2>4. ASSUME Orderly PROVE JobOrderly(j)'
    <3>1. \A u \in Task : AtWork(task'[u], j) => AtWork(task[u], j)
      BY <2>1, <2>2 DEF OthersRest
    <3>2. JobOrderly(j) /\ settled <= settled' /\ settled' \in Int
      BY <1>0, <1>1, <2>4 DEF Orderly
    <3> QED
      BY <1>0, <1>1, <2>3, <3>1, <3>2, JobRests
  <2> QED
    BY <1>1, <2>1, <2>2, <2>4, StoreCalm
<1>3. CASE Claim(t, j)
  <2>1. q.pc = "validate" /\ q.job = j /\ q.meta = meta[j] /\ OthersRest(t)
    BY <1>0, <1>3, BeginMoves DEF Claim, Steps, ProcessSteps
  <2>2. /\ book[j].status \in Processable
        /\ book'[j].status = "LockedForProcessing"
    BY <1>0, <1>3, MovesEntry DEF Claim, TakeToProcess, Keeps
  <2>3. ASSUME Orderly
        PROVE  JobOrderly(j)' /\ InTime(t, q, current', txs, settled)
    <3>1. JobOrderly(j) /\ book[j].status = "Created"
      BY <2>2, <2>3 DEF Orderly, JobOrderly, Processable
    <3>2. NoWorker(j) /\ meta[j].failed = 0
      BY <3>1 DEF JobOrderly
    <3>3. InTime(t, q, current', txs, settled)
      BY <2>1, <3>2 DEF InTime
    <3>4. \A u, v \in Task : AtWork(task'[u], j) /\ AtWork(task'[v], j) => u = v
      BY <2>1, <3>2 DEF NoWorker, OthersRest
    <3>5. \A k \in Job : Last(Blocks[k]) < Blocks[j][1] => book'[k].status = "Completed"
      BY <1>0, <1>1, <3>1, EarlierStay
    <3> QED
      BY <2>2, <3>3, <3>4, <3>5 DEF JobOrderly, Contract!Verifiable
  <2>4. \A i \in Job : i # j => ~AtWork(q, i)
    BY <2>1 DEF AtWork
  <2> QED
    BY <1>1, <2>1, <2>3, <2>4, StoreCalm
<1> QED
  BY <1>2, <1>3

(* A block is mined: the one that is next, and no other transaction waits. *)
LEMMA MineCalm ==
  ASSUME CalmInv, CountInv', NEW h \in Hashes, Mine(h)
  PROVE  CalmInv'
<1>0. /\ IInv /\ CountInv /\ ChainTypes /\ settled \in Int
  BY DEF CalmInv, CountInv, KnowInv, IInv, ChainTypes
<1>1. /\ UNCHANGED <<book, current, meta, task, late>> /\ txs[h].status = "pool"
  BY DEF Mine, storeVars
<1>2. /\ Grows(txs, txs') /\ DOMAIN txs' = DOMAIN txs /\ settled <= settled' /\ settled' \in Int
  BY <1>0, MineGrows DEF ChainTypes
<1> DEFINE next == txs[h].block = settled + 1
<1>3. /\ \A g \in Hashes : g # h => txs'[g] = txs[g]
      /\ txs'[h].status = IF next THEN "mined" ELSE "reverted"
      /\ settled' = IF next THEN settled + 1 ELSE settled
  <2>1. \A g \in Hashes : txs[g] \in Transactions
    BY <1>0 DEF ChainTypes, Hashes
  <2>2. /\ txs' = [txs EXCEPT ![h].status = IF next THEN "mined" ELSE "reverted"]
        /\ settled' = IF next THEN settled + 1 ELSE settled
    BY DEF Mine
  <2> QED
    BY <2>1, <2>2 DEF Transactions, Hashes
<1>4. Reached'
  <2>1. CASE next
    <3>1. txs'[h].block = settled' /\ txs'[h].status = "mined" /\ h \in Hashes'
      BY <1>2, <1>3, <2>1 DEF Grows, Hashes
    <3> QED
      BY <3>1 DEF Reached
  <2>2. CASE ~next
    <3>1. \A g \in Hashes : txs[g].status = "mined" => g # h
      BY <1>1
    <3> QED
      BY <1>2, <1>3, <2>2, <3>1 DEF CalmInv, Reached, Hashes
  <2> QED
    BY <2>1, <2>2
<1>5. ASSUME Calm' PROVE Orderly'
  <2>0. Calm /\ Orderly
    BY <1>1, <1>5 DEF CalmInv, Calm, SomeoneSteppedIn, SteppedIn
  <2>1. next /\ settled' = settled + 1 /\ txs'[h].status = "mined"
    BY <1>1, <1>3, <2>0 DEF Orderly, ChainOrderly
  <2>2. PICK k \in Job : \E i \in DOMAIN Blocks[k] :
            txs[h].block = Blocks[k][i] /\ h \in Sendings(Blocks[k][i])
    BY <1>0, BlockOfJob
  <2>3. PICK i \in DOMAIN Blocks[k] :
            txs[h].block = Blocks[k][i] /\ h \in Sendings(Blocks[k][i])
    BY <2>2
  <2>4. /\ \A g \in Sendings(Blocks[k][i]) : g = h
        /\ \A t \in Task : ~MaySend(task[t], k, i, settled)
        /\ book[k].status # "Absent"
    BY <1>0, <2>0, <2>3, OneAtMost DEF MayStart
  <2>5. ChainOrderly'
    <3> SUFFICES ASSUME NEW g \in Hashes PROVE txs'[g].status = "mined"
      BY <1>2 DEF ChainOrderly, Hashes
    <3>1. CASE g = h
      BY <2>1, <3>1
    <3>2. CASE g # h
      <4>1. txs[g].status # "pool"
        <5>1. ASSUME txs[g].status = "pool" PROVE FALSE
          <6>1. txs[g].block = Blocks[k][i]
            BY <2>0, <2>1, <2>3, <5>1 DEF Orderly, ChainOrderly
          <6>2. g \in Sendings(Blocks[k][i])
            BY <6>1 DEF Sendings
          <6> QED
            BY <2>4, <3>2, <6>2
        <5> QED
          BY <5>1
      <4> QED
        BY <1>3, <2>0, <3>2, <4>1 DEF Orderly, ChainOrderly
    <3> QED
      BY <3>1, <3>2
  <2>6. ASSUME NEW j \in Job PROVE JobOrderly(j)'
    BY <1>0, <1>1, <1>2, <2>0, JobRests DEF Orderly
  <2>7. ASSUME NEW t \in Task PROVE TaskInTime(t)'
    <3> DEFINE r == task[t]
    <3>0. /\ Sound(r, txs, settled) /\ TaskInTime(t) /\ r \in Tasks
      BY <1>0, <2>0, SoundTask DEF Orderly
    <3>1. r.pc \notin {"fetch", "nonce", "submit"}
      <4>1. ASSUME r.pc \in {"fetch", "nonce", "submit"} PROVE FALSE
        <5>1. r.job \in Job /\ r.i \in DOMAIN Blocks[r.job] /\ r.i \in Nat
          BY <3>0, <4>1 DEF Sound, AttemptSteps, Tasks
        <5>2. Blocks[r.job][r.i] = Blocks[k][i]
          BY <2>1, <2>3, <3>0, <4>1 DEF TaskInTime, InTime
        <5>3. r.job = k /\ r.i = i
          BY <5>1, <5>2, BlocksDiffer
        <5> QED
          BY <2>4, <4>1, <5>1, <5>3 DEF MaySend
      <4> QED
        BY <4>1
    <3>2. ASSUME r.pc = "await", txs'[r.tx].status = "mined"
          PROVE  Blocks[r.job][r.i] = settled'
      <4>1. /\ r.job \in Job /\ r.i \in DOMAIN Blocks[r.job] /\ r.i \in Nat
            /\ r.tx \in Hashes /\ txs[r.tx].block = Blocks[r.job][r.i]
        BY <3>0, <3>2 DEF Sound, AttemptSteps, Tasks, Hashes
      <4>2. CASE r.tx = h
        BY <2>1, <4>1, <4>2
      <4>3. CASE r.tx # h
        <5>1. Blocks[r.job][r.i] = settled
          BY <1>3, <3>0, <3>2, <4>1, <4>3 DEF TaskInTime, InTime
        <5>2. Blocks[k][i] = Blocks[r.job][r.i] + 1
          BY <2>1, <2>3, <5>1
        <5>3. CASE r.i + 1 \in DOMAIN Blocks[r.job]
          <6>1. Blocks[r.job][r.i + 1] = Blocks[k][i]
            BY <4>1, <5>2, <5>3, NextBlock
          <6>2. r.job = k /\ r.i + 1 = i
            BY <4>1, <5>3, <6>1, BlocksDiffer
          <6>3. MaySend(r, k, i, settled)
            BY <3>2, <4>1, <6>2 DEF MaySend
          <6> QED
            BY <2>4, <6>3
        <5>4. CASE r.i + 1 \notin DOMAIN Blocks[r.job]
          <6>1. Last(Blocks[r.job]) = Blocks[r.job][r.i]
            BY <4>1, <5>4, NextBlock
          <6>2. /\ Blocks[k][i] <= Last(Blocks[k]) /\ Blocks[k][1] <= Blocks[k][i]
                /\ Blocks[k][1] \in Nat /\ Blocks[k][i] \in Nat /\ Last(Blocks[k]) \in Nat
            BY FirstOfJob
          <6>3. /\ Blocks[r.job][1] <= Blocks[r.job][r.i]
                /\ Blocks[r.job][1] \in Nat /\ Blocks[r.job][r.i] \in Nat
            BY <4>1, FirstOfJob
          <6>4. k # r.job
            BY <5>2, <6>1, <6>2, <6>3
          <6>5. Last(Blocks[r.job]) < Blocks[k][1] \/ Last(Blocks[k]) < Blocks[r.job][1]
            BY <4>1, <6>4, StateUpdateAssumption
          <6>6. Last(Blocks[r.job]) < Blocks[k][1]
            BY <5>2, <6>2, <6>3, <6>5
          <6>7. book[r.job].status = "Completed"
            BY <2>0, <2>4, <4>1, <6>6 DEF Orderly, JobOrderly
          <6>8. ~AtWork(r, r.job)
            BY <2>0, <4>1, <6>7 DEF Orderly, JobOrderly, NoWorker
          <6> QED
            BY <3>2, <6>8 DEF AtWork, WorkSteps
        <5> QED
          BY <5>3, <5>4
      <4> QED
        BY <4>2, <4>3
    <3>3. ASSUME r.pc = "finish" PROVE Last(Blocks[r.job]) <= settled'
      <4>1. Last(Blocks[r.job]) <= settled /\ Last(Blocks[r.job]) \in Nat
        BY <3>0, <3>3, BlocksOf DEF TaskInTime, InTime, Sound
      <4> QED
        BY <1>0, <1>2, <4>1
    <3> QED
      BY <1>1, <3>0, <3>1, <3>2, <3>3 DEF TaskInTime, InTime
  <2> QED
    BY <2>5, <2>6, <2>7 DEF Orderly
<1> QED
  BY <1>4, <1>5 DEF CalmInv

(* The worker, the consumers and operators. *)
LEMMA OthersCalm ==
  ASSUME CalmInv, CountInv',
         \/ \E j \in Job : Create(j) \/ Consume(j) \/ Operate(j)
         \/ UNCHANGED vars
  PROVE  CalmInv'
<1>0. PICK t \in Task : TRUE
  BY JobStoreAssumption
<1>1. /\ IInv /\ StoreTypeOK /\ StoreTypeOK' /\ book \in [Job -> Contract!Entries]
      /\ settled \in Int /\ Unasked
  BY DEF CalmInv, CountInv, KnowInv, IInv, ChainTypes, StoreTypeOK
<1>2. CASE \E j \in Job : Create(j) \/ Consume(j) \/ Operate(j)
  <2>1. PICK j \in Job : Create(j) \/ Consume(j) \/ Operate(j)
    BY <1>2
  <2>2. /\ UNCHANGED <<meta, chainVars, late, task>> /\ settled' = settled
        /\ settled <= settled'
    BY <1>1, <2>1 DEF Create, Consume, Operate, Others, chainVars
  <2>3. OtherStep(t, j)
    BY <2>1 DEF Create, Consume, Operate, OtherStep
  <2>4. OthersRest(t) /\ task'[t] = task[t]
    BY <2>2 DEF OthersRest
  <2>5. ASSUME Orderly, Calm, Calm'
        PROVE  JobOrderly(j)' /\ InTime(t, task'[t], current', txs, settled)
    <3>0. JobOrderly(j) /\ TaskInTime(t)
      BY <2>5 DEF Orderly
    <3>1. /\ ~Retry(j) /\ ~Reverify(j)
          /\ \A k \in Job : book[k].status = "Completed" => book'[k].status = "Completed"
      BY <1>1, <2>3, <2>5, SteppedInStays DEF Calm
    <3>2. InTime(t, task'[t], current', txs, settled)
      <4>1. \A k \in Job : t \in current'[k] => t \in current[k]
        <5>1. current' = current \/ Owned(j, {})
          BY <2>1 DEF Create, Consume, Operate, CreateJob, Discard, HandleFailure, Dismiss,
                      Intervene, Retry, Reverify
        <5> QED
          BY <1>1, <5>1 DEF Owned, StoreTypeOK
      <4>2. task[t].pc = "reject" => task[t].job \in Job
        BY <1>1, SoundTask DEF Sound
      <4> QED
        BY <2>4, <3>0, <4>1, <4>2 DEF TaskInTime, InTime
    <3>3. NoWorker(j) => NoWorker(j)'
      BY <2>2 DEF NoWorker
    <3>4. \A u, v \in Task : AtWork(task'[u], j) /\ AtWork(task'[v], j) => u = v
      BY <2>2, <3>0 DEF JobOrderly
    <3>5. CASE Create(j)
      <4>1. book[j].status = "Absent" /\ book'[j].status = "Created"
        BY <1>1, <3>5, MovesEntry DEF Create, CreateJob
      <4>2. NoWorker(j) /\ meta[j].failed = 0
        BY <3>0, <4>1 DEF JobOrderly
      <4>3. \A k \in Job : Last(Blocks[k]) < Blocks[j][1] => book'[k].status = "Completed"
        BY <3>1, <3>5 DEF Create
      <4>4. JobOrderly(j)'
        BY <2>2, <3>3, <3>4, <4>1, <4>2, <4>3 DEF JobOrderly, Contract!Verifiable
      <4> QED
        BY <3>2, <4>4
    <3>6. CASE Consume(j) /\ book' = book
      <4>1. JobOrderly(j)'
        BY <1>1, <2>2, <3>0, <3>6, JobRests
      <4> QED
        BY <3>2, <4>1
    <3>7. CASE HandleFailure(j)
      <4>1. book[j].status # "Absent" /\ book'[j].status = "Failed"
        BY <1>1, <3>7, MovesEntry DEF HandleFailure, Keeps
      <4>2. \A k \in Job : Last(Blocks[k]) < Blocks[j][1] => book'[k].status = "Completed"
        BY <1>1, <2>3, <3>0, <4>1, EarlierStay
      <4>3. JobOrderly(j)'
        BY <3>4, <4>1, <4>2 DEF JobOrderly, Contract!Verifiable
      <4> QED
        BY <3>2, <4>3
    <3> QED
      BY <2>1, <3>1, <3>5, <3>6, <3>7 DEF Consume, Operate, Intervene, Discard, Dismiss
  <2> QED
    BY <2>2, <2>3, <2>4, <2>5, StoreCalm
<1>3. CASE UNCHANGED vars
  <2>1. UNCHANGED <<book, meta, current, chainVars, late, task>>
    BY <1>3 DEF vars, storeVars
  <2>2. OthersRest(t) /\ task'[t] = task[t] /\ (late => late')
    BY <2>1 DEF OthersRest
  <2>3. Calm => TaskInTime(t)
    BY DEF CalmInv, Orderly
  <2> QED
    BY <2>1, <2>2, <2>3, SilentCalm DEF TaskInTime
<1> QED
  BY <1>2, <1>3

(* The order is there at the start, *)
LEMMA InitCalmInv == ASSUME Init PROVE CalmInv
<1>1. CountInv
  BY InitCountInv
<1>2. Reached
  BY DEF Init, Reached
<1>3. \A t \in Task : task[t] = Idle /\ Idle.pc = "idle"
  BY DEF Init, Idle
<1>4. ChainOrderly
  BY DEF Init, ChainOrderly, Hashes
<1>5. \A j \in Job : JobOrderly(j)
  <2>1. \A j \in Job : book[j].status = "Absent" /\ meta[j].failed = 0
    BY DEF Init, StoreInit, Contract!Init, Contract!Missing, NoMetadata
  <2> QED
    BY <1>3, <2>1 DEF JobOrderly, NoWorker, AtWork, WorkSteps, Contract!Verifiable
<1>6. \A t \in Task : TaskInTime(t)
  BY <1>3 DEF TaskInTime, InTime
<1> QED
  BY <1>1, <1>2, <1>4, <1>5, <1>6 DEF CalmInv, Orderly

(* and after every step. *)
LEMMA StepCalmInv == ASSUME CalmInv, [Next]_vars PROVE CalmInv'
<1>1. CountInv'
  BY StepCountInv DEF CalmInv
<1>2. ASSUME NEW t \in Task, TaskStep(t) PROVE CalmInv'
  BY <1>1, <1>2, HandlersCalm, SendingCalm, RecordCalm DEF TaskStep, ProcessStep, VerifyStep
<1>3. ASSUME NEW t \in Task, Fault(t) PROVE CalmInv'
  BY <1>1, <1>3, HandlersCalm DEF Fault
<1>4. ASSUME NEW t \in Task, NEW j \in Job, Claim(t, j) \/ Stamp(t, j) PROVE CalmInv'
  BY <1>1, <1>4, BeginCalm
<1> QED
  BY <1>1, <1>2, <1>3, <1>4, MineCalm, OthersCalm DEF Next

(* As long as no client gives up waiting and no operator steps in, no transaction takes *)
(* the place of another and the contract turns none down, whatever fails.               *)
THEOREM NothingIsWasted == Spec => []NoneWasted
<1>1. Init => CalmInv
  BY InitCalmInv
<1>2. CalmInv /\ [Next]_vars => CalmInv'
  BY StepCalmInv
<1>3. CalmInv => NoneWasted
  BY DEF CalmInv, Calm, Orderly, ChainOrderly, NoneWasted
<1> QED
  BY <1>1, <1>2, <1>3, PTL DEF Spec
===============================================================================
