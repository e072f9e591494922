---------------------------- MODULE BlockWork_proofs ----------------------------
(***************************************************************************)
(* Proofs about BlockWork, for any number of tasks and any attempt bounds, *)
(* operator endpoints and faults.                                          *)
(*                                                                         *)
(* A task carries what it has seen from step to step: the files it has     *)
(* stored, that the prover was done, that the fact was on chain.  Files    *)
(* are only added, a query that is done stays so and a registered fact is  *)
(* never taken back; and as long as a task's copy of the proof job has the *)
(* version in the store, nobody else has given the job another query.      *)
(***************************************************************************)
EXTENDS BlockWork, JobStore_proofs, FiniteSetTheorems, SequenceTheorems

-------------------------------------------------------------------------------
(* The inductive invariant *)

SnosFiles == {"pie", "snosOutput", "programOutput"}

\* The files that are stored when process_job of job j is through.
Stored(j, F) ==
    /\ j = "snos" => SnosFiles \subseteq F
    /\ j = "da"   => "blob" \in F

\* The steps at which a task has the jobs of one kind only.
HasItsJob(r) ==
    /\ r.pc = "idle" => r.msg = "none"
    /\ r.pc # "idle" => r.job \in Job
    /\ r.pc \in SnosSteps => r.job = "snos"
    /\ r.pc \in DaSteps => r.job = "da"
    /\ r.pc \in ProofSteps \cup {"verify", "isValid"} => r.job = "proof"

\* What task t with record r knows of the files F, the queries Q and the registry g;
\* C are the tasks whose copy of the proof job is up to date, e is its external id.
Sound(t, r, F, Q, g, C, e) ==
    /\ r \in Tasks
    /\ r.query \in {0} \cup DOMAIN Q
    /\ HasItsJob(r)
    /\ r.pc \in {"putSnosOutput", "putProgramOutput"} => "pie" \in F
    /\ r.pc = "putProgramOutput" => "snosOutput" \in F
    /\ r.pc = "finish" => Stored(r.job, F) /\ (r.job = "proof" => r.query # 0)
    /\ r.job = "proof" /\ r.pc \in {"isValid", "accept"} => r.query # 0 /\ Q[r.query] = "done"
    /\ r.job = "proof" /\ r.pc = "accept" => g = TRUE
    /\ r.job = "proof" /\ r.pc \in {"verify", "isValid", "accept"} /\ t \in C => r.query = e

TaskSound(t) ==
    Sound(t, task[t], files, queries, registered, current["proof"], external)

OutsideTypes ==
    /\ files \subseteq Files
    /\ queries \in Seq({"running", "done", "failed"})
    /\ registered \in BOOLEAN

FilesFollow ==
    /\ fact \/ book["proof"].status # "Absent" \/ book["da"].status # "Absent" =>
           SnosFiles \subseteq files
    /\ AwaitsVerdict("da", book["da"]) => "blob" \in files

IInv ==
    /\ StoreTypeOK
    /\ fact \in BOOLEAN /\ external \in {0} \cup Query
    /\ OutsideTypes
    /\ task \in [Task -> Tasks]
    /\ \A t \in Task : TaskSound(t)
    /\ FilesFollow
    /\ ProvenOnChain

\* What is outside only grows: files F to F2, queries Q to Q2, the registry g to g2.
Grows(F, F2, Q, Q2, g, g2) ==
    /\ F \subseteq F2
    /\ DOMAIN Q \subseteq DOMAIN Q2
    /\ \A q \in DOMAIN Q : Q[q] = "done" => Q2[q] = "done"
    /\ g = TRUE => g2 = TRUE

OutsideGrows == Grows(files, files', queries, queries', registered, registered')

-------------------------------------------------------------------------------
(* What a task knows *)

(* The three jobs of a block. *)
LEMMA Jobs == Job = {"snos", "proof", "da"} /\ NoJob \notin Job /\ Task # {}
  BY BlockWorkAssumption, JobStoreAssumption

(* It stays true while others work. *)
LEMMA SoundStays ==
  ASSUME NEW t, NEW r, NEW F, NEW F2, NEW Q, NEW Q2, NEW g, NEW g2, NEW C, NEW C2, NEW e, NEW e2,
         Sound(t, r, F, Q, g, C, e), Grows(F, F2, Q, Q2, g, g2), t \in C2 => t \in C /\ e2 = e
  PROVE  Sound(t, r, F2, Q2, g2, C2, e2)
<1>1. r.pc = "finish" => Stored(r.job, F2)
  BY DEF Sound, Stored, Grows, SnosFiles
<1>2. r.job = "proof" /\ r.pc \in {"isValid", "accept"} => r.query # 0 /\ Q2[r.query] = "done"
  BY DEF Sound, Grows
<1> QED
  BY <1>1, <1>2 DEF Sound, Grows

(* A task that has ended knows nothing. *)
LEMMA IdleSound ==
  ASSUME NEW t, NEW F, NEW Q, NEW g, NEW C, NEW e
  PROVE  Sound(t, Idle, F, Q, g, C, e)
<1>1. /\ Idle.pc = "idle" /\ Idle.msg = "none" /\ Idle.query = 0 /\ Idle.job = NoJob
      /\ Idle \in Tasks
  BY DEF Idle, Tasks
<1> QED
  BY <1>1, Jobs DEF Sound, HasItsJob, SnosSteps, ProofSteps, DaSteps

Steps == {"idle"} \cup SnosSteps \cup ProofSteps \cup DaSteps \cup VerifySteps \cup EndSteps

(* A task goes to another step. *)
LEMMA Moved ==
  ASSUME NEW r \in Tasks, NEW p \in Steps
  PROVE  /\ [r EXCEPT !.pc = p] \in Tasks
         /\ [r EXCEPT !.pc = p].pc = p
         /\ [r EXCEPT !.pc = p].job = r.job
         /\ [r EXCEPT !.pc = p].msg = r.msg
         /\ [r EXCEPT !.pc = p].query = r.query
  BY DEF Tasks, Steps

\* Steps at which a task of any job may be, whatever it knows.
FreeSteps == {"giveUp", "announce", "requeue", "reject", "poll"}

(* Every task at work may come to one of them, whoever has the proof job then. *)
LEMMA FreeSound ==
  ASSUME NEW t, NEW r, NEW F, NEW Q, NEW g, NEW C, NEW e, Sound(t, r, F, Q, g, C, e),
         NEW C2, NEW e2, r.pc # "idle", NEW p \in FreeSteps
  PROVE  Sound(t, [r EXCEPT !.pc = p], F, Q, g, C2, e2)
<1> DEFINE q == [r EXCEPT !.pc = p]
<1>1. r \in Tasks /\ r.query \in {0} \cup DOMAIN Q /\ r.job \in Job
  BY DEF Sound, HasItsJob
<1>2. p \in Steps /\ p \notin {"idle", "finish", "isValid", "accept", "verify"}
      /\ p \notin SnosSteps \cup ProofSteps \cup DaSteps
  BY DEF FreeSteps, Steps, VerifySteps, EndSteps, SnosSteps, ProofSteps, DaSteps
<1>3. q \in Tasks /\ q.pc = p /\ q.job = r.job /\ q.query = r.query
  BY <1>1, <1>2, Moved
<1> HIDE DEF q
<1>4. HasItsJob(q)
  BY <1>1, <1>2, <1>3 DEF HasItsJob
<1>5. p \notin {"putSnosOutput", "putProgramOutput"}
  BY <1>2 DEF SnosSteps
<1>6. Sound(t, q, F, Q, g, C2, e2)
  BY <1>1, <1>2, <1>3, <1>4, <1>5 DEF Sound
<1> QED
  BY <1>6 DEF q

(* What the invariant says of one task. *)
LEMMA OneTask ==
  ASSUME IInv, NEW t \in Task
  PROVE  /\ TaskSound(t) /\ task[t] \in Tasks
         /\ task[t].pc # "idle" => task[t].job \in Job
  BY DEF IInv, TaskSound, Sound, HasItsJob

(* One task moves, and what others know stays true. *)
LEMMA TasksMove ==
  ASSUME IInv, OutsideGrows, NEW t \in Task, NEW r,
         Sound(t, r, files', queries', registered', current'["proof"], external'),
         task' = [task EXCEPT ![t] = r],
         \A u \in Task \ {t} :
             u \in current'["proof"] => u \in current["proof"] /\ external' = external
  PROVE  task' \in [Task -> Tasks] /\ \A u \in Task : TaskSound(u)'
<1>1. r \in Tasks
  BY DEF Sound
<1>2. task' \in [Task -> Tasks]
  BY <1>1 DEF IInv
<1>3. ASSUME NEW u \in Task PROVE TaskSound(u)'
  <2>1. CASE u = t
    <3>1. task'[t] = r
      BY DEF IInv
    <3> QED
      BY <2>1, <3>1 DEF TaskSound
  <2>2. CASE u # t
    <3>1. task'[u] = task[u]
      BY <2>2 DEF IInv
    <3>2. Sound(u, task[u], files, queries, registered, current["proof"], external)
      BY DEF IInv, TaskSound
    <3>3. u \in current'["proof"] => u \in current["proof"] /\ external' = external
      BY <2>2
    <3>4. Sound(u, task[u], files', queries', registered', current'["proof"], external')
      BY <3>2, <3>3, SoundStays DEF OutsideGrows
    <3> QED
      BY <3>1, <3>4 DEF TaskSound
  <2> QED
    BY <2>1, <2>2
<1> QED
  BY <1>2, <1>3

-------------------------------------------------------------------------------
(* What a step keeps *)

SomeMishap == mishaps' = mishaps \/ \E kind \in FaultNames : Mishap(kind)

(* The store stays as it is, but for the number of mishaps. *)
LEMMA StoreStill ==
  ASSUME StoreTypeOK, UNCHANGED <<book, current>>, mail' \in [Job -> SUBSET Queues], SomeMishap
  PROVE  StoreTypeOK'
  BY JobStoreAssumption DEF StoreTypeOK, Mishap, SomeMishap

(* The properties of the files and of the proof stay true when what is outside grows. *)
LEMMA FilesStay ==
  ASSUME IInv, OutsideGrows, UNCHANGED <<book, docVars>>
  PROVE  FilesFollow' /\ ProvenOnChain'
<1>1. book' = book /\ fact' = fact /\ external' = external
  BY DEF docVars
<1>2. FilesFollow'
  BY <1>1 DEF IInv, FilesFollow, AwaitsVerdict, OutsideGrows, Grows
<1>3. ProvenOnChain'
  <2>1. ASSUME book["proof"].status = "Completed"
        PROVE  external # 0 /\ queries'[external] = "done" /\ registered' = TRUE
    <3>1. external # 0 /\ queries[external] = "done" /\ registered = TRUE
      BY <2>1 DEF IInv, ProvenOnChain, OutsideTypes
    <3>2. external \in DOMAIN queries
      BY <3>1 DEF IInv, Query
    <3> QED
      BY <3>1, <3>2 DEF OutsideGrows, Grows
  <2> QED
    BY <1>1, <2>1 DEF ProvenOnChain
<1> QED
  BY <1>2, <1>3

(* A task goes on without writing to the store. *)
LEMMA SilentStep ==
  ASSUME IInv, UNCHANGED <<book, current, docVars>>, mail' \in [Job -> SUBSET Queues],
         SomeMishap, OutsideTypes', OutsideGrows, NEW t \in Task, NEW r,
         Sound(t, r, files', queries', registered', current["proof"], external),
         task' = [task EXCEPT ![t] = r]
  PROVE  IInv'
<1>1. /\ book' = book /\ current' = current /\ fact' = fact /\ external' = external
  BY DEF docVars
<1>2. StoreTypeOK'
  BY StoreStill DEF IInv
<1>3. task' \in [Task -> Tasks] /\ \A u \in Task : TaskSound(u)'
  BY <1>1, TasksMove
<1>4. FilesFollow' /\ ProvenOnChain'
  BY <1>1, FilesStay
<1>5. external' \in {0} \cup Query'
  BY <1>1 DEF IInv, Query, OutsideGrows, Grows
<1> QED
  BY <1>1, <1>2, <1>3, <1>4, <1>5 DEF IInv

(* Nothing outside changes. *)
LEMMA OutsideStill ==
  ASSUME OutsideTypes, UNCHANGED outside
  PROVE  /\ OutsideTypes' /\ OutsideGrows
         /\ files' = files /\ queries' = queries /\ registered' = registered
  BY DEF outside, OutsideTypes, OutsideGrows, Grows

(* A task goes on, and only its messages are seen by others. *)
LEMMA QuietStep ==
  ASSUME IInv, UNCHANGED <<book, current, docVars, outside>>, mail' \in [Job -> SUBSET Queues],
         SomeMishap, NEW t \in Task, NEW r,
         Sound(t, r, files, queries, registered, current["proof"], external),
         task' = [task EXCEPT ![t] = r]
  PROVE  IInv'
<1>1. /\ OutsideTypes' /\ OutsideGrows
      /\ files' = files /\ queries' = queries /\ registered' = registered
  BY OutsideStill DEF IInv
<1>2. Sound(t, r, files', queries', registered', current["proof"], external)
  BY <1>1
<1> QED
  BY <1>1, <1>2, SilentStep

-------------------------------------------------------------------------------
(* The steps of the handlers *)

(* A file is stored. *)
LEMMA PutFileKeeps ==
  ASSUME IInv, NEW t \in Task, RunSnos(t) \/ SubmitData(t)
  PROVE  IInv'
<1> DEFINE r == task[t]
<1>1. PICK from \in SnosSteps \cup DaSteps, file \in Files, to \in Steps :
          /\ PutFile(t, from, file, to)
          /\ \/ from = "putPie" /\ file = "pie" /\ to = "putSnosOutput"
             \/ from = "putSnosOutput" /\ file = "snosOutput" /\ to = "putProgramOutput"
             \/ from = "putProgramOutput" /\ file = "programOutput" /\ to = "finish"
             \/ from = "putBlob" /\ file = "blob" /\ to = "finish"
  BY DEF RunSnos, SubmitData, SnosSteps, DaSteps, Files, Steps, EndSteps
<1>2. /\ UNCHANGED <<book, current, docVars>> /\ mail' \in [Job -> SUBSET Queues]
      /\ SomeMishap /\ files' = files \cup {file} /\ queries' = queries
      /\ registered' = registered
  BY <1>1 DEF PutFile, storeVars, SomeMishap, IInv, StoreTypeOK
<1>3. OutsideTypes' /\ OutsideGrows
  BY <1>2 DEF IInv, OutsideTypes, OutsideGrows, Grows
<1>4. TaskSound(t) /\ r \in Tasks /\ r.pc = from
  BY <1>1, OneTask DEF PutFile
<1>5. Sound(t, r, files', queries', registered', current["proof"], external)
  BY <1>3, <1>4, SoundStays DEF TaskSound, OutsideGrows
<1> DEFINE q == [r EXCEPT !.pc = to]
<1>6. /\ q \in Tasks /\ q.pc = to /\ q.job = r.job /\ q.msg = r.msg /\ q.query = r.query
      /\ task' = [task EXCEPT ![t] = q]
  BY <1>1, <1>4, Moved DEF PutFile, GoTo
<1> HIDE DEF q, r
<1>7. /\ r.pc \in SnosSteps => r.job = "snos"
      /\ r.pc \in DaSteps => r.job = "da"
      /\ r.job \in Job /\ r.query \in {0} \cup DOMAIN queries'
      /\ r.pc \in {"putSnosOutput", "putProgramOutput"} => "pie" \in files
      /\ r.pc = "putProgramOutput" => "snosOutput" \in files
  BY <1>1, <1>2, <1>4 DEF TaskSound, Sound, HasItsJob, SnosSteps, DaSteps, r
<1>8. HasItsJob(q)
  BY <1>1, <1>4, <1>6, <1>7 DEF HasItsJob, SnosSteps, DaSteps, ProofSteps
<1>9. to = "finish" => Stored(r.job, files') /\ r.job # "proof"
  BY <1>1, <1>2, <1>4, <1>7 DEF Stored, SnosFiles, SnosSteps, DaSteps
<1>10. Sound(t, q, files', queries', registered', current["proof"], external)
  BY <1>1, <1>2, <1>4, <1>6, <1>7, <1>8, <1>9 DEF Sound
<1> QED
  BY <1>2, <1>3, <1>6, <1>10, SilentStep

(* The proof is requested, and the task notes the query or never learns of it. *)
LEMMA SubmitKeeps ==
  ASSUME IInv, NEW t \in Task, Submit(t) \/ AnswerLost(t)
  PROVE  IInv'
<1> DEFINE r == task[t]
           n == Len(queries) + 1
<1>1. /\ UNCHANGED <<book, current, docVars>> /\ mail' \in [Job -> SUBSET Queues]
      /\ SomeMishap /\ files' = files /\ queries' = Append(queries, "running")
      /\ registered' = registered /\ r.pc = "submit"
  BY DEF Submit, AnswerLost, storeVars, SomeMishap, FaultNames, IInv, StoreTypeOK
<1>2. /\ queries' \in Seq({"running", "done", "failed"})
      /\ Len(queries') = n /\ n \in Nat \ {0}
      /\ \A i \in 1 .. Len(queries) : queries'[i] = queries[i]
      /\ DOMAIN queries = 1 .. Len(queries) /\ DOMAIN queries' = 1 .. n
  <2>1. queries \in Seq({"running", "done", "failed"}) /\ "running" \in {"running", "done", "failed"}
    BY DEF IInv, OutsideTypes
  <2> QED
    BY <1>1, <2>1, AppendProperties
<1>3. OutsideTypes' /\ OutsideGrows
  BY <1>1, <1>2 DEF IInv, OutsideTypes, OutsideGrows, Grows
<1>4. TaskSound(t) /\ r \in Tasks
  BY OneTask
<1>5. Sound(t, r, files', queries', registered', current["proof"], external)
  BY <1>3, <1>4, SoundStays DEF TaskSound, OutsideGrows
<1>6. CASE AnswerLost(t)
  <2> DEFINE q == [r EXCEPT !.pc = "giveUp"]
  <2>1. task' = [task EXCEPT ![t] = q]
    BY <1>6 DEF AnswerLost, GoTo
  <2>2. Sound(t, q, files', queries', registered', current["proof"], external)
    BY <1>1, <1>5, FreeSound DEF FreeSteps
  <2> HIDE DEF q
  <2> QED
    BY <1>1, <1>3, <2>1, <2>2, SilentStep
<1>7. CASE Submit(t)
  <2> DEFINE q == [r EXCEPT !.pc = "finish", !.query = n]
  <2>1. task' = [task EXCEPT ![t] = q]
    BY <1>7 DEF Submit
  <2>2. q \in Tasks /\ q.pc = "finish" /\ q.job = r.job /\ q.query = n
    BY <1>2, <1>4 DEF Tasks, EndSteps
  <2>3. r.job = "proof" /\ r.job \in Job
    BY <1>1, <1>4 DEF TaskSound, Sound, HasItsJob, ProofSteps
  <2> HIDE DEF q
  <2>4. Sound(t, q, files', queries', registered', current["proof"], external)
    BY <1>2, <2>2, <2>3
    DEF Sound, HasItsJob, Stored, SnosSteps, DaSteps, ProofSteps
  <2> QED
    BY <1>1, <1>3, <2>1, <2>4, SilentStep
<1> QED
  BY <1>6, <1>7

(* The prover or the registry is asked, or a call of process_job fails. *)
LEMMA AskKeeps ==
  ASSUME IInv, NEW t \in Task, GetPie(t) \/ AskProver(t) \/ IsValid(t) \/ ProcessCallFails(t)
  PROVE  IInv'
<1> DEFINE r == task[t]
           C == current["proof"]
<1>1. /\ UNCHANGED <<book, current, docVars, outside>> /\ mail' \in [Job -> SUBSET Queues]
      /\ SomeMishap /\ r.pc # "idle"
  BY DEF GetPie, AskProver, IsValid, ProcessCallFails, storeVars, SomeMishap, FaultNames, IInv,
         StoreTypeOK, SnosSteps, ProofSteps, DaSteps
<1>2. /\ Sound(t, r, files, queries, registered, C, external) /\ r \in Tasks /\ r.job \in Job
      /\ HasItsJob(r)
  BY <1>1, OneTask DEF TaskSound, Sound
<1>3. ASSUME NEW p \in FreeSteps, GoTo(t, p) PROVE IInv'
  <2>1. Sound(t, [r EXCEPT !.pc = p], files, queries, registered, C, external)
    BY <1>1, <1>2, FreeSound
  <2> QED
    BY <1>1, <1>3, <2>1, QuietStep DEF GoTo
<1>4. ASSUME NEW p \in {"submit", "isValid", "accept"}, GoTo(t, p), r.job = "proof",
             p \in {"isValid", "accept"} =>
                 /\ r.query # 0 /\ queries[r.query] = "done"
                 /\ t \in C => r.query = external,
             p = "accept" => registered = TRUE
      PROVE  IInv'
  <2> DEFINE q == [r EXCEPT !.pc = p]
  <2>1. p \in Steps
    BY DEF Steps, ProofSteps, VerifySteps
  <2>2. q \in Tasks /\ q.pc = p /\ q.job = r.job /\ q.query = r.query
    BY <1>2, <2>1, Moved
  <2>3. r.query \in {0} \cup DOMAIN queries
    BY <1>2 DEF Sound
  <2>4. task' = [task EXCEPT ![t] = q]
    BY <1>4 DEF GoTo
  <2> HIDE DEF q, r
  <2>5. Sound(t, q, files, queries, registered, C, external)
    BY <1>2, <1>4, <2>2, <2>3 DEF Sound, HasItsJob, SnosSteps, DaSteps
  <2> QED
    BY <1>1, <2>4, <2>5, QuietStep
<1>5. CASE GetPie(t)
  <2>1. r.job = "proof"
    BY <1>2, <1>5 DEF GetPie, HasItsJob, ProofSteps
  <2> QED
    BY <1>3, <1>4, <1>5, <2>1 DEF GetPie, FreeSteps
<1>6. CASE AskProver(t)
  <2>1. /\ r.job = "proof" /\ r.query # 0 /\ r.pc = "verify"
        /\ queries[r.query] \in {"running", "done", "failed"}
    BY <1>2, <1>6 DEF AskProver, Sound, IInv, OutsideTypes
  <2>2. t \in C => r.query = external
    BY <1>2, <2>1 DEF Sound
  <2>3. CASE queries[r.query] = "done"
    <3>1. GoTo(t, "isValid")
      BY <1>6, <2>3 DEF AskProver
    <3> QED
      BY <1>4, <2>1, <2>2, <2>3, <3>1
  <2>4. CASE queries[r.query] = "running"
    <3>1. GoTo(t, "poll")
      BY <1>6, <2>4 DEF AskProver
    <3> QED
      BY <1>3, <3>1 DEF FreeSteps
  <2>5. CASE queries[r.query] = "failed"
    <3>1. GoTo(t, "reject")
      BY <1>6, <2>5 DEF AskProver
    <3> QED
      BY <1>3, <3>1 DEF FreeSteps
  <2> QED
    BY <2>1, <2>3, <2>4, <2>5
<1>7. CASE IsValid(t)
  <2>1. /\ r.job = "proof" /\ r.query # 0 /\ queries[r.query] = "done"
        /\ t \in C => r.query = external
    BY <1>2, <1>7 DEF IsValid, Sound, HasItsJob
  <2>2. CASE registered
    <3>1. GoTo(t, "accept") /\ registered = TRUE
      BY <1>7, <2>2 DEF IsValid, IInv, OutsideTypes
    <3> QED
      BY <1>4, <2>1, <3>1
  <2>3. CASE ~registered
    <3>1. GoTo(t, "reject")
      BY <1>7, <2>3 DEF IsValid
    <3> QED
      BY <1>3, <3>1 DEF FreeSteps
  <2> QED
    BY <2>2, <2>3
<1>8. CASE ProcessCallFails(t)
  BY <1>3, <1>8 DEF ProcessCallFails, FreeSteps
<1> QED
  BY <1>5, <1>6, <1>7, <1>8

(* A task ends, or its message reappears. *)
LEMMA EndKeeps ==
  ASSUME IInv, NEW t \in Task,
         NoQuery(t) \/ Send(t) \/ Outdated(t) \/ HandlerErrs(t) \/ Expire(t) \/ Crash(t)
  PROVE  IInv'
<1> DEFINE r == task[t]
<1>1. TaskSound(t) /\ r \in Tasks /\ (r.pc # "idle" => r.job \in Job)
  BY OneTask
<1>2. UNCHANGED <<book, current, docVars, outside>> /\ SomeMishap
  BY DEF NoQuery, Send, Outdated, HandlerErrs, Expire, Crash, storeVars, SomeMishap, FaultNames
<1>3. mail \in [Job -> SUBSET Queues] /\ "process" \in Queues /\ "verify" \in Queues
      /\ "failure" \in Queues
  BY DEF IInv, StoreTypeOK, Queues
<1>4. \A m \in {"none", "process", "verify"} :
          r.job \in Job /\ Reappear(r.job, m) => mail' \in [Job -> SUBSET Queues]
  BY <1>3, MailType DEF Reappear
<1>5. mail' \in [Job -> SUBSET Queues]
  <2>1. CASE NoQuery(t) \/ Outdated(t) \/ HandlerErrs(t)
    BY <1>3, <2>1 DEF NoQuery, Outdated, HandlerErrs, storeVars
  <2>2. CASE Send(t)
    BY <1>1, <1>3, <2>2, MailType DEF Send
  <2>3. CASE Expire(t) \/ Crash(t)
    <3>1. r.pc # "idle"
      BY <1>1, <2>3 DEF Expire, Crash, Reappear, TaskSound, Sound, HasItsJob
    <3> QED
      BY <1>1, <1>3, <1>4, <2>3, <3>1 DEF Expire, Crash, Tasks
  <2> QED
    BY <2>1, <2>2, <2>3
<1>6. CASE End(t)
  BY <1>2, <1>5, <1>6, IdleSound, QuietStep DEF End
<1>7. CASE Expire(t)
  <2> DEFINE q == [r EXCEPT !.msg = "none"]
  <2>1. q \in Tasks /\ q.pc = r.pc /\ q.job = r.job /\ q.query = r.query /\ q.msg = "none"
    BY <1>1 DEF Tasks
  <2>2. task' = [task EXCEPT ![t] = q]
    BY <1>7 DEF Expire
  <2> HIDE DEF q
  <2>3. Sound(t, q, files, queries, registered, current["proof"], external)
    BY <1>1, <2>1 DEF TaskSound, Sound, HasItsJob
  <2> QED
    BY <1>2, <1>5, <2>2, <2>3, QuietStep
<1> QED
  BY <1>6, <1>7 DEF NoQuery, Send, Outdated, HandlerErrs, Crash

-------------------------------------------------------------------------------
(* Steps that write to the store *)

\* What others see of a step of task t that changes the entry of a job.
Harmless(t) ==
    /\ StoreTypeOK' /\ OutsideTypes' /\ OutsideGrows
    /\ fact' \in BOOLEAN /\ external' \in {0} \cup Query'
    /\ FilesFollow' /\ ProvenOnChain'
    /\ \A u \in Task \ {t} :
           u \in current'["proof"] => u \in current["proof"] /\ external' = external

(* Where a step changes an entry, and the task that makes it stays sound, all is well. *)
LEMMA HarmlessStep ==
  ASSUME IInv, NEW t \in Task, Harmless(t), NEW r,
         Sound(t, r, files', queries', registered', current'["proof"], external'),
         task' = [task EXCEPT ![t] = r]
  PROVE  IInv'
<1>1. task' \in [Task -> Tasks] /\ \A u \in Task : TaskSound(u)'
  BY TasksMove DEF Harmless
<1> QED
  BY <1>1 DEF Harmless, IInv

(* A step that completes no job is harmless when a job is created or processed only    *)
(* with the files of the step before, and only process_job gives a job another query. *)
LEMMA StoreStep ==
  ASSUME IInv, NEW t \in Task, NEW j \in Job, OtherStep(t, j), UNCHANGED <<mishaps, outside>>,
         fact' \in BOOLEAN, external' \in {0} \cup Query,
         fact' => fact \/ SnosFiles \subseteq files,
         CreateJob(j) /\ j # "snos" => SnosFiles \subseteq files,
         RecordProcessed(t, j) /\ j = "da" => "blob" \in files,
         external' = external \/ (RecordProcessed(t, j) /\ j = "proof")
  PROVE  Harmless(t)
<1>1. /\ OutsideTypes' /\ OutsideGrows
      /\ files' = files /\ queries' = queries /\ registered' = registered
  BY OutsideStill DEF IInv
<1>2. StoreTypeOK /\ mishaps' \in 0 .. MaxMishaps
  BY DEF IInv, StoreTypeOK
<1>3. StoreTypeOK' /\ NoneCompleted
  BY <1>2, StoreSteps
<1>4. /\ \A i \in Job : i # j => book'[i] = book[i]
      /\ \A i \in Job : \A u \in Task : u # t /\ u \in current'[i] => u \in current[i]
      /\ Develops(t, j)
  BY <1>2, StoreMoves
<1>5. "snos" \in Job /\ "proof" \in Job /\ "da" \in Job
  BY Jobs
<1>6. FilesFollow'
  <2>1. ASSUME fact' \/ book'["proof"].status # "Absent" \/ book'["da"].status # "Absent"
        PROVE  SnosFiles \subseteq files
    <3>1. CASE fact'
      BY <3>1 DEF IInv, FilesFollow
    <3>2. ASSUME NEW i \in {"proof", "da"}, book'[i].status # "Absent"
          PROVE  SnosFiles \subseteq files
      <4>1. book[i].status # "Absent" \/ (i = j /\ CreateJob(j))
        BY <1>4, <1>5, <3>2 DEF Develops
      <4> QED
        BY <3>2, <4>1 DEF IInv, FilesFollow
    <3> QED
      BY <2>1, <3>1, <3>2
  <2>2. ASSUME AwaitsVerdict("da", book'["da"]) PROVE "blob" \in files
    <3>1. AwaitsVerdict("da", book["da"]) \/ (RecordProcessed(t, j) /\ j = "da")
      BY <1>4, <1>5, <2>2 DEF Develops
    <3> QED
      BY <3>1 DEF IInv, FilesFollow
  <2> QED
    BY <1>1, <2>1, <2>2 DEF FilesFollow
<1>7. ASSUME RecordProcessed(t, j)
      PROVE  /\ book[j].status # "Completed"
             /\ \A u \in Task \ {t} : u \notin current'[j]
  BY <1>2, <1>7 DEF RecordProcessed, Contract!Finish, Contract!Move, Owned, StoreTypeOK
<1>8. ProvenOnChain'
  <2>1. ASSUME book'["proof"].status = "Completed"
        PROVE  external' # 0 /\ queries[external'] = "done" /\ registered
    <3>1. book["proof"].status = "Completed"
      BY <1>3, <1>5, <2>1 DEF NoneCompleted
    <3>2. external' = external
      BY <1>7, <3>1
    <3> QED
      BY <3>1, <3>2 DEF IInv, ProvenOnChain
  <2> QED
    BY <1>1, <2>1 DEF ProvenOnChain
<1>9. \A u \in Task \ {t} :
          u \in current'["proof"] => u \in current["proof"] /\ external' = external
  BY <1>4, <1>5, <1>7
<1>10. external' \in {0} \cup Query'
  BY <1>1 DEF Query
<1> QED
  BY <1>1, <1>3, <1>6, <1>8, <1>9, <1>10 DEF Harmless

(* The results of process_job and of verify_job are written. *)
LEMMA RecordKeeps ==
  ASSUME IInv, NEW t \in Task, Finish(t) \/ GiveUp(t) \/ Reject(t) \/ Poll(t)
  PROVE  IInv'
<1> DEFINE r == task[t]
           j == r.job
<1>1. /\ TaskSound(t) /\ r \in Tasks /\ r.pc # "idle" /\ j \in Job
      /\ UNCHANGED <<mishaps, outside>>
  BY OneTask DEF Finish, GiveUp, Reject, Poll
<1>2. /\ files' = files /\ queries' = queries /\ registered' = registered
  BY <1>1 DEF outside
<1>3. OtherStep(t, j) /\ ~CreateJob(j)
  <2>1. OtherStep(t, j)
    BY DEF Finish, GiveUp, Reject, Poll, OtherStep
  <2>2. book[j].status # "Absent"
    BY DEF Finish, GiveUp, Reject, Poll, RecordProcessed, RecordFailed, RecordRejected,
           RecordExhausted, RecordPending, RecordTimeout, Contract!Finish, Contract!Abandon,
           Contract!Reject, Contract!Poll, Contract!GiveUp, Contract!Move, Contract!Verifiable
  <2> QED
    BY <2>1, <2>2 DEF CreateJob, Contract!Create, Contract!Move
<1>4. Harmless(t)
  <2>1. CASE Finish(t)
    <3>1. Stored(j, files) /\ (j = "proof" => r.query # 0) /\ r.query \in {0} \cup Query
      BY <1>1, <2>1 DEF Finish, TaskSound, Sound, Query
    <3>2. fact' \in BOOLEAN /\ (fact' => fact \/ SnosFiles \subseteq files)
      BY <2>1, <3>1 DEF Finish, Stored, IInv
    <3>3. /\ external' \in {0} \cup Query
          /\ external' = external \/ (RecordProcessed(t, j) /\ j = "proof")
      BY <2>1, <3>1 DEF Finish, IInv
    <3>4. j = "da" => "blob" \in files
      BY <3>1 DEF Stored
    <3> QED
      BY <1>1, <1>3, <3>2, <3>3, <3>4, StoreStep
  <2>2. CASE GiveUp(t) \/ Reject(t) \/ Poll(t)
    <3>1. fact' = fact /\ external' = external
      BY <2>2 DEF GiveUp, Reject, Poll, docVars
    <3>2. fact \in BOOLEAN /\ external \in {0} \cup Query
      BY DEF IInv
    <3>3. ~RecordProcessed(t, j)
      <4>1. book \in [Job -> Contract!Entries]
        BY DEF IInv, StoreTypeOK
      <4>2. \A s : Becomes(j, s) => book'[j].status = s
        BY <1>1, <4>1 DEF Becomes
      <4>3. \/ Becomes(j, "Failed")
            \/ book[j].status \in Contract!Verifiable
        BY <1>1, <2>2, <4>1, MovesType
        DEF GiveUp, Reject, Poll, RecordFailed, RecordRejected, RecordExhausted, RecordPending,
            RecordTimeout, Contract!Reject, Contract!Poll, Contract!GiveUp, Contract!Move
      <4>4. RecordProcessed(t, j) => /\ Becomes(j, "PendingVerification")
                                     /\ book[j].status = "LockedForProcessing"
        BY <1>1, <4>1, MovesType DEF RecordProcessed, Contract!Finish, Contract!Move
      <4>5. Becomes(j, "Failed") /\ Becomes(j, "PendingVerification") => FALSE
        BY <4>2
      <4> QED
        BY <4>3, <4>4, <4>5 DEF Contract!Verifiable
    <3> QED
      BY <1>1, <1>3, <3>1, <3>2, <3>3, StoreStep
  <2> QED
    BY <2>1, <2>2
<1>5. PICK p \in FreeSteps : GoTo(t, p) \/ End(t)
  BY DEF Finish, GiveUp, Reject, Poll, FreeSteps
<1>6. CASE End(t)
  BY <1>4, <1>6, IdleSound, HarmlessStep DEF End
<1>7. CASE GoTo(t, p)
  <2>1. Sound(t, [r EXCEPT !.pc = p], files, queries, registered, current'["proof"], external')
    BY <1>1, FreeSound DEF TaskSound
  <2> QED
    BY <1>2, <1>4, <1>7, <2>1, HarmlessStep DEF GoTo
<1> QED
  BY <1>5, <1>6, <1>7

(* Verified: the job is completed. *)
LEMMA AcceptKeeps ==
  ASSUME IInv, NEW t \in Task, Accept(t)
  PROVE  IInv'
<1> DEFINE r == task[t]
           j == r.job
<1>1. /\ TaskSound(t) /\ r.pc = "accept" /\ r.pc # "idle" /\ j \in Job
      /\ UNCHANGED <<mishaps, outside, docVars>> /\ RecordVerified(t, j) /\ End(t)
  BY OneTask DEF Accept
<1>2. /\ OutsideTypes' /\ OutsideGrows
      /\ files' = files /\ queries' = queries /\ registered' = registered
      /\ fact' = fact /\ external' = external
  BY <1>1, OutsideStill DEF IInv, docVars
<1>3. StoreTypeOK /\ mishaps' \in 0 .. MaxMishaps
  BY <1>1 DEF IInv, StoreTypeOK
<1>4. StoreTypeOK'
  BY <1>1, <1>3, StoreSteps
<1>5. /\ \A i \in Job : i # j => book'[i] = book[i]
      /\ \A i \in Job : \A u \in Task : u # t /\ u \in current'[i] => u \in current[i]
      /\ Develops(t, j)
  BY <1>1, <1>3, StoreMoves
<1>6. "snos" \in Job /\ "proof" \in Job /\ "da" \in Job
  BY Jobs
<1>7. book[j].status \in Contract!Verifiable /\ ~CreateJob(j) /\ ~RecordProcessed(t, j)
  BY <1>1 DEF RecordVerified, Contract!Accept, Contract!Move, Contract!Verifiable, CreateJob,
              Contract!Create, RecordProcessed, Contract!Finish
<1>8. FilesFollow'
  <2>1. \A i \in Job : book'[i].status # "Absent" => book[i].status # "Absent"
    BY <1>5, <1>7 DEF Develops
  <2>2. AwaitsVerdict("da", book'["da"]) => AwaitsVerdict("da", book["da"])
    BY <1>5, <1>6, <1>7 DEF Develops
  <2> QED
    BY <1>2, <1>6, <2>1, <2>2 DEF IInv, FilesFollow
<1>9. ProvenOnChain'
  <2>1. ASSUME book'["proof"].status = "Completed"
        PROVE  external # 0 /\ queries[external] = "done" /\ registered
    <3>1. CASE j = "proof"
      <4>1. t \in current["proof"]
        BY <1>1, <3>1 DEF RecordVerified, Fresh
      <4>2. /\ r.query = external /\ r.query # 0 /\ queries[r.query] = "done"
            /\ registered = TRUE
        BY <1>1, <3>1, <4>1 DEF TaskSound, Sound
      <4> QED
        BY <4>2
    <3>2. CASE j # "proof"
      BY <1>5, <1>6, <2>1, <3>2 DEF IInv, ProvenOnChain
    <3> QED
      BY <3>1, <3>2
  <2> QED
    BY <1>2, <2>1 DEF ProvenOnChain
<1>10. \A u \in Task \ {t} :
           u \in current'["proof"] => u \in current["proof"] /\ external' = external
  BY <1>2, <1>5, <1>6
<1>11. Harmless(t)
  BY <1>2, <1>4, <1>8, <1>9, <1>10 DEF IInv, Harmless, Query
<1> QED
  BY <1>1, <1>11, IdleSound, HarmlessStep DEF End

(* A task takes up a job. *)
LEMMA BeginKeeps ==
  ASSUME IInv, NEW t \in Task, NEW j \in Job, Claim(t, j) \/ Stamp(t, j)
  PROVE  IInv'
<1>1. UNCHANGED <<mishaps, docVars, outside>>
  BY DEF Claim, Stamp, Begin
<1>2. fact' = fact /\ external' = external /\ fact \in BOOLEAN /\ external \in {0} \cup Query
      /\ files' = files /\ queries' = queries /\ registered' = registered
  BY <1>1 DEF docVars, outside, IInv
<1>3. OtherStep(t, j) /\ ~CreateJob(j) /\ ~RecordProcessed(t, j)
  BY DEF Claim, Stamp, OtherStep, CreateJob, RecordProcessed, TakeToProcess, TakeToVerify,
         Contract!Lock, Contract!Create, Contract!Finish, Contract!Move, Contract!Verifiable
<1>4. Harmless(t)
  BY <1>1, <1>2, <1>3, StoreStep
<1>5. PICK p \in Steps, m \in {"process", "verify"} :
          /\ Begin(t, j, p, m)
          /\ \/ m = "process" /\ p = FirstStep(j)
             \/ m = "verify" /\ p = IF j = "proof" THEN "verify" ELSE "accept"
  BY Jobs DEF Claim, Stamp, FirstStep, Steps, SnosSteps, ProofSteps, DaSteps, VerifySteps
<1> DEFINE n == IF m = "verify" /\ j = "proof" THEN external ELSE 0
           q == [pc |-> p, job |-> j, msg |-> m, query |-> n]
<1>6. n \in {0} \cup Query /\ n \in Nat
  BY <1>2 DEF Query, IInv, OutsideTypes
<1> HIDE DEF n
<1>7. q \in Tasks /\ q.pc = p /\ q.job = j /\ q.msg = m /\ q.query = n
  BY <1>6 DEF Tasks, Steps
<1>8. task' = [task EXCEPT ![t] = q]
  BY <1>5 DEF Begin, n
<1> HIDE DEF q
<1>9. HasItsJob(q)
  BY <1>5, <1>7, Jobs
  DEF HasItsJob, FirstStep, SnosSteps, ProofSteps, DaSteps
<1>10. Sound(t, q, files', queries', registered', current'["proof"], external')
  <2>1. p \notin {"putSnosOutput", "putProgramOutput", "finish", "isValid"}
    BY <1>5, Jobs DEF FirstStep
  <2>2. j = "proof" => p # "accept"
    BY <1>5 DEF FirstStep
  <2>3. j = "proof" /\ p = "verify" => n = external
    BY <1>5 DEF n, FirstStep
  <2> QED
    BY <1>2, <1>6, <1>7, <1>9, <2>1, <2>2, <2>3 DEF Sound, Query
<1> QED
  BY <1>4, <1>8, <1>10, HarmlessStep

(* The workers, the consumers and operators leave all tasks alone. *)
LEMMA OthersKeep ==
  ASSUME IInv, NEW j \in Job, Create(j) \/ Consume(j) \/ Operate(j)
  PROVE  IInv'
<1>1. UNCHANGED <<mishaps, docVars, outside, task>>
  BY DEF Create, Consume, Operate
<1>2. fact' = fact /\ external' = external /\ fact \in BOOLEAN /\ external \in {0} \cup Query
      /\ task' = task
  BY <1>1 DEF docVars, IInv
<1>3. PICK t \in Task : TRUE
  BY Jobs
<1>4. OtherStep(t, j)
  BY DEF Create, Consume, Operate, OtherStep
<1>5. CreateJob(j) /\ j # "snos" => SnosFiles \subseteq files
  <2>1. ASSUME CreateJob(j) PROVE (~Consume(j) /\ ~Operate(j)) \/ SnosFiles \subseteq files
    <3>1. book[j].status = "Absent" /\ book'[j].status = "Created"
      BY <2>1 DEF CreateJob, Contract!Create, Contract!Move, Contract!Missing, IInv, StoreTypeOK
    <3>2. mail'[j] = mail[j] \cup {"process"} /\ "process" \in mail'[j]
      BY <2>1 DEF CreateJob, Put, IInv, StoreTypeOK
    <3>3. ~Consume(j)
      BY <3>1 DEF Consume, Discard, HandleFailure, Dismiss, Contract!Abandon, Contract!Move
    <3>4. ~Operate(j)
      BY <3>1 DEF Operate, Intervene, Retry, Reverify, Contract!Retry, Contract!Reverify,
                  Contract!Move
    <3> QED
      BY <3>3, <3>4
  <2>2. Create(j) /\ j # "snos" => SnosFiles \subseteq files
    BY Jobs DEF Create, Ready, IInv, FilesFollow
  <2> QED
    BY <2>1, <2>2
<1>6. ~RecordProcessed(t, j)
  <2>1. RecordProcessed(t, j) => /\ book[j].status = "LockedForProcessing"
                                 /\ Becomes(j, "PendingVerification")
                                 /\ current'[j] = {t}
    BY MovesType
    DEF RecordProcessed, Contract!Finish, Contract!Move, Owned, IInv, StoreTypeOK
  <2>2. Becomes(j, "PendingVerification") => book'[j].status = "PendingVerification"
    BY DEF Becomes, IInv, StoreTypeOK
  <2>3. Create(j) => book[j].status = "Absent"
    BY DEF Create, CreateJob, Contract!Create, Contract!Move
  <2>4. Consume(j) => book' = book \/ current'[j] = {}
    BY DEF Consume, Discard, HandleFailure, Dismiss, Owned, IInv, StoreTypeOK
  <2>5. Operate(j) => current'[j] = {}
    BY DEF Operate, Intervene, Retry, Reverify, Owned, IInv, StoreTypeOK
  <2> QED
    BY <2>1, <2>2, <2>3, <2>4, <2>5
<1>7. Harmless(t)
  BY <1>1, <1>2, <1>4, <1>5, <1>6, StoreStep
<1>8. current'["proof"] \subseteq current["proof"]
  BY Jobs
  DEF Create, Consume, Operate, CreateJob, Discard, HandleFailure, Dismiss, Intervene, Retry,
      Reverify, Owned, IInv, StoreTypeOK
<1>9. \A u \in Task : TaskSound(u)'
  <2>1. ASSUME NEW u \in Task PROVE TaskSound(u)'
    <3>1. Sound(u, task[u], files, queries, registered, current["proof"], external)
      BY DEF IInv, TaskSound
    <3>2. Sound(u, task[u], files', queries', registered', current'["proof"], external')
      BY <1>2, <1>7, <1>8, <3>1, SoundStays DEF Harmless, OutsideGrows
    <3> QED
      BY <1>2, <3>2 DEF TaskSound
  <2> QED
    BY <2>1
<1> QED
  BY <1>2, <1>7, <1>9 DEF Harmless, IInv

(* The prover and the registry only add to what the tasks know. *)
LEMMA ProverKeeps ==
  ASSUME IInv, Register \/ \E q \in Query : Prove(q) \/ ProofFails(q)
  PROVE  IInv'
<1>1. UNCHANGED <<storeVars, docVars, files, task>> /\ SomeMishap
  BY DEF Register, Prove, ProofFails, SomeMishap, FaultNames
<1>2. registered' = registered \/ registered' = TRUE
  BY DEF Register, Prove, ProofFails
<1>3. /\ queries' \in Seq({"running", "done", "failed"})
      /\ DOMAIN queries' = DOMAIN queries
      /\ \A q \in DOMAIN queries : queries[q] = "done" => queries'[q] = "done"
  <2>1. queries \in Seq({"running", "done", "failed"})
    BY DEF IInv, OutsideTypes
  <2>2. CASE queries' = queries
    BY <2>1, <2>2
  <2>3. CASE \E q \in Query, s \in {"done", "failed"} :
                 queries[q] = "running" /\ queries' = [queries EXCEPT ![q] = s]
    BY <2>1, <2>3 DEF Query
  <2> QED
    BY <2>2, <2>3 DEF Register, Prove, ProofFails
<1>4. OutsideTypes' /\ OutsideGrows
  BY <1>1, <1>2, <1>3 DEF IInv, OutsideTypes, OutsideGrows, Grows
<1>5. book' = book /\ current' = current /\ mail' = mail /\ external' = external /\ fact' = fact
      /\ task' = task
  BY <1>1 DEF storeVars, docVars
<1>6. StoreTypeOK'
  <2>1. mail' \in [Job -> SUBSET Queues]
    BY <1>5 DEF IInv, StoreTypeOK
  <2> QED
    BY <1>1, <1>5, <2>1, StoreStill DEF IInv
<1>7. FilesFollow' /\ ProvenOnChain'
  BY <1>1, <1>4, <1>5, FilesStay
<1>8. \A u \in Task : TaskSound(u)'
  <2>1. ASSUME NEW u \in Task PROVE TaskSound(u)'
    <3>1. Sound(u, task[u], files, queries, registered, current["proof"], external)
      BY DEF IInv, TaskSound
    <3>2. Sound(u, task[u], files', queries', registered', current'["proof"], external')
      BY <1>4, <1>5, <3>1, SoundStays DEF OutsideGrows
    <3> QED
      BY <1>5, <3>2 DEF TaskSound
  <2> QED
    BY <2>1
<1>9. external' \in {0} \cup Query'
  BY <1>3, <1>5 DEF IInv, Query
<1> QED
  BY <1>4, <1>5, <1>6, <1>7, <1>8, <1>9 DEF IInv

-------------------------------------------------------------------------------
(* The theorems *)

(* The invariant holds at the start, *)
LEMMA InitIInv == ASSUME Init PROVE IInv
<1>1. \A j \in Job : book[j] = Contract!Missing
  BY DEF Init, StoreInit, Contract!Init
<1>2. Contract!Missing \in Contract!Entries /\ Contract!Missing.status = "Absent"
  BY DEF Contract!Missing, Contract!Entries
<1>3. StoreTypeOK
  <2>1. book \in [Job -> Contract!Entries]
    BY <1>2 DEF Init, StoreInit, Contract!Init
  <2> QED
    BY <2>1, JobStoreAssumption DEF Init, StoreInit, StoreTypeOK
<1>4. \A t \in Task : TaskSound(t)
  BY IdleSound DEF Init, TaskSound
<1>5. task \in [Task -> Tasks]
  BY DEF Init, Idle, Tasks
<1>6. FilesFollow /\ ProvenOnChain
  BY <1>1, <1>2, Jobs DEF Init, FilesFollow, ProvenOnChain, AwaitsVerdict, Contract!Verifiable
<1>7. OutsideTypes
  <2>1. <<>> \in Seq({"running", "done", "failed"})
    OBVIOUS
  <2>2. files = {} /\ queries = <<>> /\ registered = FALSE
    BY DEF Init
  <2> QED
    BY <2>1, <2>2 DEF OutsideTypes
<1>8. fact \in BOOLEAN /\ external \in {0} \cup Query
  BY DEF Init
<1> QED
  BY <1>3, <1>4, <1>5, <1>6, <1>7, <1>8 DEF IInv

(* and every step keeps it. *)
LEMMA StepIInv == ASSUME IInv, [Next]_vars PROVE IInv'
<1>1. ASSUME NEW t \in Task, TaskStep(t) \/ Fault(t) PROVE IInv'
  BY <1>1, PutFileKeeps, SubmitKeeps, AskKeeps, EndKeeps, RecordKeeps, AcceptKeeps
  DEF TaskStep, Fault
<1>2. ASSUME NEW t \in Task, NEW j \in Job, Claim(t, j) \/ Stamp(t, j) PROVE IInv'
  BY <1>2, BeginKeeps
<1>3. ASSUME NEW j \in Job, Create(j) \/ Consume(j) \/ Operate(j) PROVE IInv'
  BY <1>3, OthersKeep
<1>4. CASE UNCHANGED vars
  BY <1>4
  DEF vars, storeVars, docVars, outside, IInv, StoreTypeOK, OutsideTypes, Query, TaskSound,
      FilesFollow, ProvenOnChain, AwaitsVerdict
<1> QED
  BY <1>1, <1>2, <1>3, <1>4, ProverKeeps DEF Next

(* What the invariant says of the properties. *)
LEMMA IInvImplies == ASSUME IInv PROVE TypeOK /\ ProvenOnChain /\ FilesHandedOver
<1>1. TypeOK
  <2>1. \A t \in Task : task[t].query \in {0} \cup Query
    BY DEF IInv, TaskSound, Sound, Query
  <2> QED
    BY <2>1 DEF IInv, OutsideTypes, TypeOK
<1>2. FilesHandedOver
  <2>1. book["proof"].status # "Absent" => SnosFiles \subseteq files
    BY DEF IInv, FilesFollow
  <2>2. book["da"].status = "Completed" /\ book["da"].verificationRetry = 0 => files = Files
    BY DEF IInv, FilesFollow, OutsideTypes, AwaitsVerdict, SnosFiles, Files
  <2> QED
    BY <2>1, <2>2 DEF FilesHandedOver, SnosFiles
<1> QED
  BY <1>1, <1>2 DEF IInv

(* Every variable keeps its type, and every query that is named was submitted. *)
THEOREM TypeCorrect == Spec => []TypeOK
<1>1. Init => IInv
  BY InitIInv
<1>2. IInv /\ [Next]_vars => IInv'
  BY StepIInv
<1>3. IInv => TypeOK
  BY IInvImplies
<1> QED
  BY <1>1, <1>2, <1>3, PTL DEF Spec

(* A proof job is Completed only when its query is done and its fact is on chain. *)
THEOREM ProofsAreOnChain == Spec => []ProvenOnChain
<1>1. Init => IInv
  BY InitIInv
<1>2. IInv /\ [Next]_vars => IInv'
  BY StepIInv
<1>3. IInv => ProvenOnChain
  BY IInvImplies
<1> QED
  BY <1>1, <1>2, <1>3, PTL DEF Spec

(* The files of a stage are stored before the next stage can ask for them. *)
THEOREM StagesHandOverFiles == Spec => []FilesHandedOver
<1>1. Init => IInv
  BY InitIInv
<1>2. IInv /\ [Next]_vars => IInv'
  BY StepIInv
<1>3. IInv => FilesHandedOver
  BY IInvImplies
<1> QED
  BY <1>1, <1>2, <1>3, PTL DEF Spec

-------------------------------------------------------------------------------
(* How often the prover is asked.  An attempt of the proof job is used up when the job *)
(* is locked; the attempt of a job that was given up may have asked the prover, and    *)
(* only /retry, which starts the attempts anew, takes such a job up again.             *)

MaxAttempts == MaxProcessAttempts["proof"]

\* The attempts since the last /retry that may have reached the prover.
Used(entry) ==
    entry.processAttempt
    + IF \/ entry.status = "LockedForProcessing"
         \/ entry.status = "Failed" /\ entry.processAttempt < MaxAttempts
      THEN 1 ELSE 0

\* What the entry of the proof job accounts for.
Allowed(entry) == MaxAttempts * entry.processRetry + entry.verificationRetry + Used(entry)

\* The tasks that may still ask the prover.
Senders == {t \in Task : task[t].pc \in ProofSteps}

\* An attempt is left where one can begin or is under way.
AttemptsFit(entry) ==
    /\ entry.processAttempt <= MaxAttempts
    /\ entry.status \in Processable \cup {"LockedForProcessing"} =>
           entry.processAttempt < MaxAttempts
    /\ entry.status = "Absent" =>
           entry.processAttempt = 0 /\ entry.processRetry = 0 /\ entry.verificationRetry = 0

Counted ==
    /\ IsFiniteSet(Senders)
    /\ Len(queries) + Cardinality(Senders) <= Allowed(book["proof"])

CountInv == IInv /\ AttemptsFit(book["proof"]) /\ Counted

(* The attempt bound, and what an entry accounts for, are numbers. *)
LEMMA AllowedType ==
  ASSUME NEW entry \in Contract!Entries
  PROVE  /\ MaxAttempts \in Nat \ {0}
         /\ MaxAttempts * entry.processRetry \in Nat
         /\ Used(entry) \in Nat /\ Allowed(entry) \in Nat
<1>1. MaxAttempts \in Nat \ {0}
  BY JobStoreAssumption, Jobs DEF MaxAttempts
<1>2. entry.processAttempt \in Nat /\ entry.processRetry \in Nat /\ entry.verificationRetry \in Nat
  BY DEF Contract!Entries
<1>3. MaxAttempts * entry.processRetry \in Nat
  BY <1>1, <1>2
<1>4. Used(entry) \in Nat
  BY <1>2 DEF Used
<1> QED
  BY <1>1, <1>2, <1>3, <1>4 DEF Allowed

(* One more /retry allows one more round of attempts. *)
LEMMA RetryAllows ==
  ASSUME NEW m \in Nat, NEW n \in Nat
  PROVE  m * (n + 1) = m * n + m
  OBVIOUS

(* Whatever happens to the proof job, no less is allowed than before; to process it once *)
(* more is allowed once more.                                                            *)
LEMMA AllowedGrows ==
  ASSUME StoreTypeOK, StoreTypeOK', AttemptsFit(book["proof"]), NEW t \in Task, NEW j \in Job,
         OtherStep(t, j) \/ RecordVerified(t, j)
  PROVE  /\ AttemptsFit(book'["proof"])
         /\ Allowed(book'["proof"]) >= Allowed(book["proof"])
         /\ TakeToProcess(t, "proof") /\ j = "proof" =>
                Allowed(book'["proof"]) = Allowed(book["proof"]) + 1
<1> DEFINE d == book["proof"]
           e == book'["proof"]
           m == MaxAttempts
<1>1. "proof" \in Job
  BY Jobs
<1>2. d \in Contract!Entries /\ e \in Contract!Entries
  BY <1>1 DEF StoreTypeOK
<1>3. /\ m \in Nat \ {0} /\ Allowed(d) \in Nat /\ Allowed(e) \in Nat
      /\ m * d.processRetry \in Nat /\ m * e.processRetry \in Nat
  BY <1>2, AllowedType
<1>4. /\ d.processAttempt \in Nat /\ d.processRetry \in Nat /\ d.verificationRetry \in Nat
      /\ e.processAttempt \in Nat /\ e.processRetry \in Nat /\ e.verificationRetry \in Nat
  BY <1>2 DEF Contract!Entries
<1>5. CASE j # "proof"
  <2>1. e = d
    BY <1>1, <1>5, StoreMoves
  <2> QED
    BY <1>3, <1>5, <2>1
<1>6. CASE j = "proof"
  <2>1. book \in [Job -> Contract!Entries]
    BY DEF StoreTypeOK
  <2>2. \/ Concludes("proof") \/ CreateJob("proof") \/ TakeToProcess(t, "proof")
        \/ RecordProcessed(t, "proof") \/ RecordRejected(t, "proof") \/ Retry("proof")
        \/ Reverify("proof")
    BY <1>6, StepsSettle
  <2>3. ASSUME NEW s, Keeps("proof", s)
        PROVE  /\ e.status = s /\ e.processAttempt = d.processAttempt
               /\ e.processRetry = d.processRetry
               /\ e.verificationRetry = d.verificationRetry
    BY <2>3 DEF Keeps
  <2>4. CASE TakeToProcess(t, "proof")
    <3>1. d.status \in Processable /\ Keeps("proof", "LockedForProcessing")
      BY <1>1, <2>1, <2>4, MovesEntry DEF TakeToProcess
    <3>2. Used(e) = Used(d) + 1 /\ AttemptsFit(e)
      BY <1>3, <1>4, <2>3, <3>1 DEF AttemptsFit, Used, Processable
    <3>3. Used(d) \in Nat
      BY <1>2, AllowedType
    <3>4. e.processRetry = d.processRetry /\ e.verificationRetry = d.verificationRetry
      BY <2>3, <3>1
    <3>5. Allowed(e) = Allowed(d) + 1
      BY <1>3, <1>4, <3>2, <3>3, <3>4 DEF Allowed
    <3> QED
      BY <1>3, <3>2, <3>5
  <2>5. CASE ~TakeToProcess(t, "proof")
    <3>1. CASE Concludes("proof")
      <4>1. Used(e) >= Used(d) /\ AttemptsFit(e) /\ e.processRetry = d.processRetry
            /\ e.verificationRetry = d.verificationRetry
        <5>1. PICK s : Keeps("proof", s) /\ (\/ s = d.status
                                             \/ s = "Failed" /\ d.status # "Absent"
                                             \/ /\ s \in {"Completed", "VerificationTimeout"}
                                                /\ d.status \in Contract!Verifiable)
          BY <3>1 DEF Concludes
        <5>2. e.status = s /\ e.processAttempt = d.processAttempt
              /\ e.processRetry = d.processRetry /\ e.verificationRetry = d.verificationRetry
          BY <2>3, <5>1
        <5>3. AttemptsFit(d)
          OBVIOUS
        <5> HIDE DEF d, e
        <5>4. Used(e) >= Used(d)
          BY <1>3, <1>4, <5>1, <5>2, <5>3 DEF AttemptsFit, Used, Contract!Verifiable
        <5>5. AttemptsFit(e)
          BY <1>3, <1>4, <5>1, <5>2, <5>3 DEF AttemptsFit, Processable, Contract!Verifiable
        <5> QED
          BY <5>2, <5>4, <5>5
      <4>2. Used(d) \in Nat /\ Used(e) \in Nat
        BY <1>2, AllowedType
      <4> QED
        BY <1>3, <1>4, <2>5, <4>1, <4>2 DEF Allowed
    <3>2. CASE CreateJob("proof")
      <4>1. /\ d.status = "Absent" /\ e.status = "Created"
            /\ e.processAttempt = 0 /\ e.processRetry = 0 /\ e.verificationRetry = 0
        BY <1>1, <2>1, <3>2, MovesEntry DEF CreateJob
      <4>2. Allowed(e) = Allowed(d) /\ AttemptsFit(e)
        BY <1>3, <1>4, <4>1 DEF AttemptsFit, Allowed, Used, Processable
      <4> QED
        BY <1>3, <2>5, <4>2
    <3>3. CASE RecordProcessed(t, "proof")
      <4>1. /\ d.status = "LockedForProcessing" /\ e.status = "PendingVerification"
            /\ e.processAttempt = d.processAttempt + 1
            /\ e.processRetry = d.processRetry /\ e.verificationRetry = d.verificationRetry
        BY <1>1, <2>1, <3>3, MovesEntry DEF RecordProcessed
      <4>2. Allowed(e) = Allowed(d) /\ AttemptsFit(e)
        BY <1>3, <1>4, <4>1 DEF AttemptsFit, Allowed, Used, Processable
      <4> QED
        BY <1>3, <2>5, <4>2
    <3>4. CASE RecordRejected(t, "proof")
      <4>1. /\ d.status \in Contract!Verifiable /\ d.processAttempt < m
            /\ Keeps("proof", "VerificationFailed")
        BY <1>1, <2>1, <3>4, MovesEntry DEF RecordRejected, MaxAttempts
      <4>2. Used(e) = Used(d) /\ AttemptsFit(e)
        BY <1>3, <1>4, <2>3, <4>1
        DEF AttemptsFit, Used, Processable, Contract!Verifiable
      <4>3. e.processRetry = d.processRetry /\ e.verificationRetry = d.verificationRetry
        BY <2>3, <4>1
      <4> QED
        BY <1>3, <2>5, <4>2, <4>3 DEF Allowed
    <3>5. CASE Retry("proof")
      <4>1. /\ d.status = "Failed" /\ e.status = "PendingRetry" /\ e.processAttempt = 0
            /\ e.processRetry = d.processRetry + 1
            /\ e.verificationRetry = d.verificationRetry
        BY <1>1, <2>1, <3>5, MovesEntry DEF Retry
      <4>2. m * e.processRetry = m * d.processRetry + m
        BY <1>3, <1>4, <4>1, RetryAllows
      <4>3. Used(d) <= m /\ Used(e) = 0 /\ AttemptsFit(e) /\ Used(d) \in Nat
        BY <1>3, <1>4, <4>1 DEF AttemptsFit, Used, Processable
      <4>4. Allowed(e) >= Allowed(d)
        BY <1>3, <1>4, <4>1, <4>2, <4>3 DEF Allowed
      <4> QED
        BY <2>5, <4>3, <4>4
    <3>6. CASE Reverify("proof")
      <4>1. /\ d.status # "Absent" /\ e.status = "PendingVerification"
            /\ e.processAttempt = d.processAttempt /\ e.processRetry = d.processRetry
            /\ e.verificationRetry = d.verificationRetry + 1
        BY <1>1, <2>1, <3>6, MovesEntry DEF Reverify
      <4>2. Used(d) <= d.processAttempt + 1 /\ Used(e) = e.processAttempt
        BY <1>3, <1>4, <4>1 DEF Used
      <4>3. AttemptsFit(e)
        BY <1>3, <1>4, <4>1 DEF AttemptsFit, Processable
      <4>4. Used(d) \in Nat /\ Used(e) \in Nat
        BY <1>2, AllowedType
      <4>5. Allowed(e) >= Allowed(d)
        BY <1>3, <1>4, <4>1, <4>2, <4>4 DEF Allowed
      <4> QED
        BY <2>5, <4>5, <4>3
    <3> QED
      BY <2>2, <2>5, <3>1, <3>2, <3>3, <3>4, <3>5, <3>6
  <2> QED
    BY <2>4, <2>5
<1> QED
  BY <1>5, <1>6

(* A task that goes on becomes no sender, unless it was one or takes up the proof job. *)
LEMMA NoMoreSenders ==
  ASSUME task \in [Task -> Tasks], NEW t \in Task, NEW r, task' = [task EXCEPT ![t] = r],
         r.pc \in ProofSteps => task[t].pc \in ProofSteps
  PROVE  Senders' \subseteq Senders
<1> SUFFICES ASSUME NEW u \in Task, task'[u].pc \in ProofSteps
             PROVE  task[u].pc \in ProofSteps
  BY DEF Senders
<1>1. CASE u = t
  BY <1>1
<1>2. CASE u # t
  BY <1>2
<1> QED
  BY <1>1, <1>2

(* With no more senders and no more queries, what is allowed still suffices. *)
LEMMA CountStays ==
  ASSUME CountInv, IInv', AttemptsFit(book'["proof"]), Len(queries') = Len(queries),
         Allowed(book'["proof"]) >= Allowed(book["proof"]), Senders' \subseteq Senders
  PROVE  CountInv'
<1>1. IsFiniteSet(Senders') /\ Cardinality(Senders') <= Cardinality(Senders)
  BY FS_Subset DEF CountInv, Counted
<1>2. Cardinality(Senders') \in Nat /\ Cardinality(Senders) \in Nat
  BY <1>1, FS_CardinalityType DEF CountInv, Counted
<1>3. Len(queries) \in Nat
  BY DEF CountInv, IInv, OutsideTypes
<1>4. Allowed(book["proof"]) \in Nat /\ Allowed(book'["proof"]) \in Nat
  BY AllowedType, Jobs DEF CountInv, IInv, StoreTypeOK
<1> QED
  BY <1>1, <1>2, <1>3, <1>4 DEF CountInv, Counted

(* Steps that leave the proof job and the prover's queries alone, or only add to the job. *)
LEMMA OthersCount ==
  ASSUME CountInv, IInv', NEW t \in Task,
         \/ RunSnos(t) \/ SubmitData(t) \/ GetPie(t) \/ AskProver(t) \/ IsValid(t)
         \/ NoQuery(t) \/ Send(t) \/ Outdated(t)
         \/ ProcessCallFails(t) \/ HandlerErrs(t) \/ Expire(t) \/ Crash(t)
         \/ Register \/ \E q \in Query : Prove(q) \/ ProofFails(q)
  PROVE  CountInv'
<1>1. book' = book
  BY DEF RunSnos, SubmitData, PutFile, GetPie, AskProver, IsValid, NoQuery, Send, Outdated,
         ProcessCallFails, HandlerErrs, Expire, Crash, Register, Prove, ProofFails, storeVars
<1>2. Len(queries') = Len(queries)
  <2>1. CASE queries' = queries
    BY <2>1
  <2>2. CASE \E q \in Query, s \in {"done", "failed"} : queries' = [queries EXCEPT ![q] = s]
    <3>1. queries \in Seq({"running", "done", "failed"})
      BY DEF CountInv, IInv, OutsideTypes
    <3> QED
      BY <2>2, <3>1 DEF Query
  <2> QED
    BY <2>1, <2>2
    DEF RunSnos, SubmitData, PutFile, GetPie, AskProver, IsValid, NoQuery, Send, Outdated,
        ProcessCallFails, HandlerErrs, Expire, Crash, Register, Prove, ProofFails, outside
<1>3. Senders' \subseteq Senders
  <2>1. task \in [Task -> Tasks] /\ task[t] \in Tasks
    BY DEF CountInv, IInv
  <2>2. CASE task' = task
    BY <2>2 DEF Senders
  <2>3. CASE End(t)
    <3>1. Idle.pc \notin ProofSteps
      BY DEF Idle, ProofSteps
    <3> QED
      BY <2>1, <2>3, <3>1, NoMoreSenders DEF End
  <2>4. CASE \E p \in Steps : GoTo(t, p) /\ (p \in ProofSteps => task[t].pc \in ProofSteps)
    <3>1. PICK p \in Steps : GoTo(t, p) /\ (p \in ProofSteps => task[t].pc \in ProofSteps)
      BY <2>4
    <3> DEFINE q == [task[t] EXCEPT !.pc = p]
    <3>2. q.pc = p /\ task' = [task EXCEPT ![t] = q]
      BY <2>1, <3>1, Moved DEF GoTo
    <3> HIDE DEF q
    <3> QED
      BY <2>1, <3>1, <3>2, NoMoreSenders
  <2>5. CASE Expire(t)
    <3> DEFINE q == [task[t] EXCEPT !.msg = "none"]
    <3>1. q.pc = task[t].pc /\ task' = [task EXCEPT ![t] = q]
      BY <2>1, <2>5 DEF Expire, Tasks
    <3> HIDE DEF q
    <3> QED
      BY <2>1, <3>1, NoMoreSenders
  <2>6. ASSUME RunSnos(t) \/ SubmitData(t) \/ GetPie(t) \/ AskProver(t) \/ IsValid(t)
               \/ ProcessCallFails(t)
        PROVE  \E p \in Steps : GoTo(t, p) /\ (p \in ProofSteps => task[t].pc \in ProofSteps)
    <3>1. CASE RunSnos(t) \/ SubmitData(t)
      BY <3>1 DEF RunSnos, SubmitData, PutFile, Steps, SnosSteps, ProofSteps, EndSteps
    <3>2. CASE GetPie(t) \/ ProcessCallFails(t)
      BY <3>2 DEF GetPie, ProcessCallFails, Steps, ProofSteps, EndSteps
    <3>3. CASE IsValid(t)
      BY <3>3 DEF IsValid, Steps, ProofSteps, VerifySteps
    <3>4. CASE AskProver(t)
      <4>1. queries[task[t].query] \in {"running", "done", "failed"}
        BY <3>4, OneTask DEF AskProver, TaskSound, Sound, CountInv, IInv, OutsideTypes
      <4> QED
        BY <3>4, <4>1 DEF AskProver, Steps, ProofSteps, VerifySteps
    <3> QED
      BY <2>6, <3>1, <3>2, <3>3, <3>4
  <2> QED
    BY <2>2, <2>3, <2>4, <2>5, <2>6
    DEF NoQuery, Send, Outdated, HandlerErrs, Crash, Register, Prove, ProofFails
<1>4. Allowed(book'["proof"]) >= Allowed(book["proof"])
  <2>1. Allowed(book["proof"]) \in Nat
    BY AllowedType, Jobs DEF CountInv, IInv, StoreTypeOK
  <2> QED
    BY <1>1, <2>1
<1> QED
  BY <1>1, <1>2, <1>3, <1>4, CountStays DEF CountInv

(* Steps that write to the store and send nothing. *)
LEMMA WritesCount ==
  ASSUME CountInv, IInv', NEW t \in Task, NEW j \in Job,
         OtherStep(t, j) \/ RecordVerified(t, j), queries' = queries, Senders' \subseteq Senders
  PROVE  CountInv'
<1>1. StoreTypeOK /\ StoreTypeOK' /\ AttemptsFit(book["proof"])
  BY DEF CountInv, IInv
<1>2. AttemptsFit(book'["proof"]) /\ Allowed(book'["proof"]) >= Allowed(book["proof"])
  BY <1>1, AllowedGrows
<1> QED
  BY <1>2, CountStays

(* The prover is asked: one sender less, and one query more. *)
LEMMA SubmitCounts ==
  ASSUME CountInv, IInv', NEW t \in Task, Submit(t) \/ AnswerLost(t)
  PROVE  CountInv'
<1>1. task \in [Task -> Tasks] /\ queries \in Seq({"running", "done", "failed"})
  BY DEF CountInv, IInv, OutsideTypes
<1>2. /\ book' = book /\ queries' = Append(queries, "running") /\ task[t].pc = "submit"
      /\ task'[t].pc \in {"finish", "giveUp"} /\ \A u \in Task \ {t} : task'[u] = task[u]
  BY <1>1 DEF Submit, AnswerLost, GoTo, storeVars, Tasks
<1>3. Len(queries') = Len(queries) + 1 /\ Len(queries) \in Nat
  BY <1>1, <1>2, AppendProperties
<1>4. t \in Senders /\ Senders' = Senders \ {t}
  BY <1>2 DEF Senders, ProofSteps
<1>5. /\ IsFiniteSet(Senders') /\ Cardinality(Senders') = Cardinality(Senders) - 1
      /\ Cardinality(Senders) \in Nat
  BY <1>4, FS_RemoveElement, FS_CardinalityType DEF CountInv, Counted
<1>6. Allowed(book["proof"]) \in Nat
  BY AllowedType, Jobs DEF CountInv, IInv, StoreTypeOK
<1> QED
  BY <1>2, <1>3, <1>5, <1>6 DEF CountInv, Counted

(* The proof job is taken up: one attempt more, and one sender more. *)
LEMMA ClaimCounts ==
  ASSUME CountInv, IInv', NEW t \in Task, Claim(t, "proof")
  PROVE  CountInv'
<1>1. StoreTypeOK /\ StoreTypeOK' /\ AttemptsFit(book["proof"]) /\ task \in [Task -> Tasks]
      /\ "proof" \in Job
  BY Jobs DEF CountInv, IInv
<1>2. /\ OtherStep(t, "proof") /\ TakeToProcess(t, "proof") /\ queries' = queries
      /\ \A u \in Task \ {t} : task'[u] = task[u]
  BY <1>1 DEF Claim, Begin, OtherStep, outside
<1>3. AttemptsFit(book'["proof"]) /\ Allowed(book'["proof"]) = Allowed(book["proof"]) + 1
  BY <1>1, <1>2, AllowedGrows
<1>4. Senders' \subseteq Senders \cup {t}
  BY <1>2 DEF Senders
<1>5. /\ IsFiniteSet(Senders \cup {t}) /\ Cardinality(Senders) \in Nat
      /\ Cardinality(Senders \cup {t}) <= Cardinality(Senders) + 1
      /\ Cardinality(Senders \cup {t}) \in Nat
  <2>1. IsFiniteSet(Senders)
    BY DEF CountInv, Counted
  <2>2. Cardinality(Senders) \in Nat
    BY <2>1, FS_CardinalityType
  <2>3. /\ IsFiniteSet(Senders \cup {t})
        /\ Cardinality(Senders \cup {t})
               = IF t \in Senders THEN Cardinality(Senders) ELSE Cardinality(Senders) + 1
    BY <2>1, FS_AddElement
  <2> QED
    BY <2>2, <2>3
<1>6. /\ IsFiniteSet(Senders') /\ Cardinality(Senders') <= Cardinality(Senders \cup {t})
      /\ Cardinality(Senders') \in Nat
  BY <1>4, <1>5, FS_Subset, FS_CardinalityType
<1>7. Allowed(book["proof"]) \in Nat /\ Len(queries) \in Nat
  BY AllowedType, Jobs DEF CountInv, IInv, StoreTypeOK, OutsideTypes
<1> QED
  BY <1>2, <1>3, <1>5, <1>6, <1>7 DEF CountInv, Counted

(* At the start nothing was sent. *)
LEMMA InitCountInv == ASSUME Init PROVE CountInv
<1>1. IInv /\ "proof" \in Job
  BY InitIInv, Jobs
<1>2. book["proof"] = Contract!Missing /\ Len(queries) = 0
  BY <1>1 DEF Init, StoreInit, Contract!Init
<1>3. Senders = {}
  BY DEF Init, Senders, Idle, ProofSteps
<1>4. IsFiniteSet(Senders) /\ Cardinality(Senders) = 0
  BY <1>3, FS_EmptySet
<1>5. Contract!Missing \in Contract!Entries
  BY DEF Contract!Missing, Contract!Entries
<1>6. Allowed(Contract!Missing) \in Nat /\ MaxAttempts \in Nat
  BY <1>5, AllowedType
<1>7. AttemptsFit(Contract!Missing)
  BY <1>6 DEF AttemptsFit, Contract!Missing, Processable
<1> QED
  BY <1>1, <1>2, <1>4, <1>6, <1>7 DEF CountInv, Counted

(* Every step keeps the count. *)
LEMMA StepCountInv == ASSUME CountInv, [Next]_vars PROVE CountInv'
<1>1. IInv /\ IInv' /\ task \in [Task -> Tasks]
  BY StepIInv DEF CountInv, IInv
<1>2. ASSUME NEW t \in Task, Finish(t) \/ GiveUp(t) \/ Accept(t) \/ Reject(t) \/ Poll(t)
      PROVE  CountInv'
  <2>1. task[t].job \in Job /\ task[t] \in Tasks
    BY <1>1, <1>2, OneTask DEF Finish, GiveUp, Accept, Reject, Poll
  <2>2. OtherStep(t, task[t].job) \/ RecordVerified(t, task[t].job)
    BY <1>2 DEF Finish, GiveUp, Accept, Reject, Poll, OtherStep
  <2>3. queries' = queries
    BY <1>2 DEF Finish, GiveUp, Accept, Reject, Poll, outside
  <2>4. Senders' \subseteq Senders
    <3>1. CASE End(t)
      <4>1. Idle.pc \notin ProofSteps
        BY DEF Idle, ProofSteps
      <4> QED
        BY <1>1, <3>1, <4>1, NoMoreSenders DEF End
    <3>2. CASE \E p \in {"announce", "requeue"} : GoTo(t, p)
      <4>1. PICK p \in {"announce", "requeue"} : GoTo(t, p)
        BY <3>2
      <4> DEFINE q == [task[t] EXCEPT !.pc = p]
      <4>2. q.pc = p /\ task' = [task EXCEPT ![t] = q] /\ p \notin ProofSteps
        BY <2>1, <4>1 DEF GoTo, Tasks, ProofSteps
      <4> HIDE DEF q
      <4> QED
        BY <1>1, <4>2, NoMoreSenders
    <3> QED
      BY <1>2, <3>1, <3>2 DEF Finish, GiveUp, Accept, Reject, Poll
  <2> QED
    BY <1>1, <2>1, <2>2, <2>3, <2>4, WritesCount
<1>3. ASSUME NEW t \in Task, NEW j \in Job, Claim(t, j) \/ Stamp(t, j), ~Claim(t, "proof")
      PROVE  CountInv'
  <2>1. OtherStep(t, j) /\ queries' = queries
    BY <1>3 DEF Claim, Stamp, OtherStep, Begin, outside
  <2>2. PICK p \in Steps, m \in {"process", "verify"} :
            Begin(t, j, p, m) /\ p \notin ProofSteps
    BY <1>3, Jobs
    DEF Claim, Stamp, FirstStep, Steps, SnosSteps, ProofSteps, DaSteps, VerifySteps
  <2> DEFINE q == [pc |-> p, job |-> j, msg |-> m,
                   query |-> IF m = "verify" /\ j = "proof" THEN external ELSE 0]
  <2>3. q.pc = p /\ task' = [task EXCEPT ![t] = q]
    BY <2>2 DEF Begin
  <2> HIDE DEF q
  <2>4. Senders' \subseteq Senders
    BY <1>1, <2>2, <2>3, NoMoreSenders
  <2> QED
    BY <1>1, <2>1, <2>4, WritesCount
<1>4. ASSUME NEW j \in Job, Create(j) \/ Consume(j) \/ Operate(j) PROVE CountInv'
  <2>1. PICK t \in Task : TRUE
    BY Jobs
  <2>2. OtherStep(t, j) /\ queries' = queries /\ Senders' = Senders
    BY <1>4 DEF Create, Consume, Operate, OtherStep, outside, Senders
  <2> QED
    BY <1>1, <2>2, WritesCount
<1>5. CASE UNCHANGED vars
  BY <1>1, <1>5 DEF vars, storeVars, outside, CountInv, Counted, Senders
<1>6. PICK u \in Task : TRUE
  BY Jobs
<1>7. ASSUME NEW t \in Task, TaskStep(t) \/ Fault(t) PROVE CountInv'
  BY <1>1, <1>2, <1>7, OthersCount, SubmitCounts DEF TaskStep, Fault
<1>8. CASE Register \/ \E q \in Query : Prove(q) \/ ProofFails(q)
  BY <1>1, <1>6, <1>8, OthersCount
<1> QED
  BY <1>1, <1>3, <1>4, <1>5, <1>7, <1>8, ClaimCounts DEF Next

(* The prover is sent the block once per attempt and request at most, however often *)
(* messages come and answers are lost.                                              *)
THEOREM SubmissionsAreBounded == Spec => []SubmissionsBounded
<1>1. Init => CountInv
  BY InitCountInv
<1>2. CountInv /\ [Next]_vars => CountInv'
  BY StepCountInv
<1>3. CountInv => SubmissionsBounded
  <2>1. ASSUME CountInv PROVE SubmissionsBounded
    <3> DEFINE e == book["proof"]
               m == MaxAttempts
    <3>1. e \in Contract!Entries
      BY <2>1, Jobs DEF CountInv, IInv, StoreTypeOK
    <3>2. /\ m \in Nat \ {0} /\ m * e.processRetry \in Nat /\ Used(e) \in Nat
          /\ e.processRetry \in Nat /\ e.verificationRetry \in Nat /\ e.processAttempt \in Nat
      BY <3>1, AllowedType DEF Contract!Entries
    <3>3. m * (e.processRetry + 1) = m * e.processRetry + m
      BY <3>2, RetryAllows
    <3>4. Used(e) <= m
      BY <2>1, <3>2 DEF CountInv, AttemptsFit, Used
    <3>5. Len(queries) \in Nat /\ Cardinality(Senders) \in Nat
      BY <2>1, FS_CardinalityType DEF CountInv, Counted, IInv, OutsideTypes
    <3>6. Len(queries) + Cardinality(Senders) <= m * e.processRetry + e.verificationRetry + Used(e)
      BY <2>1 DEF CountInv, Counted, Allowed
    <3>7. Len(queries) <= (m * e.processRetry + m) + e.verificationRetry
      <4> DEFINE a == m * e.processRetry
      <4>1. a \in Nat /\ Len(queries) + Cardinality(Senders) <= a + e.verificationRetry + Used(e)
        BY <3>2, <3>6
      <4> HIDE DEF a
      <4>2. Len(queries) <= (a + m) + e.verificationRetry
        BY <3>2, <3>4, <3>5, <4>1
      <4> QED
        BY <4>2 DEF a
    <3>8. 1 + e.processRetry = e.processRetry + 1
      BY <3>2
    <3>9. Len(queries) <= m * (1 + e.processRetry) + e.verificationRetry
      BY <3>3, <3>7, <3>8
    <3> QED
      BY <3>9 DEF SubmissionsBounded, MaxAttempts
  <2> QED
    BY <2>1
<1> QED
  BY <1>1, <1>2, <1>3, PTL DEF Spec

-------------------------------------------------------------------------------
(* How many proofs run at once.  As long as no operator steps in, one task proves the  *)
(* block at a time, and the next begins when the query of the last is no longer running: *)
(* a proof is only rejected on the word of the query that the job names.               *)

\* The tasks that are proving the block.
Provers == {t \in Task : task[t].job = "proof" /\ task[t].pc \in ProofSteps \cup {"finish"}}

Running == {q \in Query : queries[q] = "running"}

AtMostOne(S) == \A x, y \in S : x = y

\* A task that rejects a proof has seen that its query, the job's, does not run.
Refused(t, r, Q, C, e) ==
    r.job = "proof" /\ r.pc = "reject" =>
        r.query \in DOMAIN Q /\ Q[r.query] # "running" /\ (t \in C => r.query = e)

AllRefused ==
    \A t \in Task : Refused(t, task[t], queries, current["proof"], external)

\* Who proves the block, and which queries run, in each status of the proof job.
OneProver ==
    LET status == book["proof"].status IN
    /\ status # "PendingRetry"
    /\ status \in {"Absent", "Created", "VerificationFailed"} => Provers = {} /\ Running = {}
    /\ status \in {"LockedForProcessing", "Failed"} =>
           /\ AtMostOne(Provers) /\ AtMostOne(Running)
           /\ \A t \in Provers : \/ Running = {}
                                 \/ task[t].pc = "finish" /\ Running \subseteq {task[t].query}
    /\ status \in Contract!Verifiable \cup {"Completed"} =>
           Provers = {} /\ Running \subseteq {external}

ProofInv == CountInv /\ AllRefused /\ (~SteppedIn("proof") => OneProver)

\* No query starts running, and none is forgotten.
NoneStarts(Q, Q2) ==
    /\ DOMAIN Q \subseteq DOMAIN Q2
    /\ \A q \in DOMAIN Q : Q[q] # "running" => Q2[q] # "running"

\* No task takes up proving, or gets as far as another one; no query starts running.
Slackens ==
    /\ \A u \in Provers' : /\ u \in Provers
                           /\ task'[u].pc = "finish" <=> task[u].pc = "finish"
                           /\ task'[u].query = task[u].query
    /\ Running' \subseteq Running
    /\ external' = external

\* The proof job moves without being processed or rejected.
ProofMoves ==
    Concludes("proof") \/ CreateJob("proof") \/ Retry("proof") \/ Reverify("proof")

(* Where no operator stepped in, none had before. *)
LEMMA SteppedInStays ==
  ASSUME StoreTypeOK, AttemptsFit(book["proof"]), NEW t \in Task,
         \/ ProofMoves \/ TakeToProcess(t, "proof") \/ RecordProcessed(t, "proof")
         \/ RecordRejected(t, "proof"),
         ~SteppedIn("proof")'
  PROVE  ~SteppedIn("proof") /\ ~Retry("proof") /\ ~Reverify("proof")
<1> DEFINE d == book["proof"]
           e == book'["proof"]
<1>1. "proof" \in Job /\ book \in [Job -> Contract!Entries] /\ d \in Contract!Entries
  BY Jobs DEF StoreTypeOK
<1>2. d.processRetry \in Nat /\ d.verificationRetry \in Nat
  BY <1>1 DEF Contract!Entries
<1>3. \/ /\ e.processRetry = d.processRetry /\ e.verificationRetry = d.verificationRetry
         /\ ~Retry("proof") /\ ~Reverify("proof")
      \/ /\ CreateJob("proof") /\ e.processRetry = 0 /\ e.verificationRetry = 0
         /\ d.status = "Absent" /\ ~Retry("proof") /\ ~Reverify("proof")
      \/ e.processRetry = d.processRetry + 1 /\ e.verificationRetry = d.verificationRetry
      \/ e.processRetry = d.processRetry /\ e.verificationRetry = d.verificationRetry + 1
  <2>1. /\ Retry("proof") => /\ e.processRetry = d.processRetry + 1
                             /\ e.verificationRetry = d.verificationRetry
        /\ Reverify("proof") => /\ e.processRetry = d.processRetry
                                /\ e.verificationRetry = d.verificationRetry + 1
        /\ CreateJob("proof") => /\ e.processRetry = 0 /\ e.verificationRetry = 0
                                 /\ d.status = "Absent" /\ e.status = "Created"
    BY <1>1, MovesEntry DEF Retry, Reverify, CreateJob
  <2>2. Concludes("proof") \/ TakeToProcess(t, "proof") \/ RecordProcessed(t, "proof")
          \/ RecordRejected(t, "proof") =>
            e.processRetry = d.processRetry /\ e.verificationRetry = d.verificationRetry
    BY <1>1, MovesEntry DEF Concludes, Keeps, TakeToProcess, RecordProcessed, RecordRejected
  <2> QED
    BY <2>1, <2>2 DEF ProofMoves
<1>4. e.processRetry + e.verificationRetry = 0
  <2>1. e.processRetry \in Nat /\ e.verificationRetry \in Nat
    BY <1>2, <1>3
  <2> QED
    BY <2>1 DEF SteppedIn
<1>5. d.status = "Absent" => d.processRetry = 0 /\ d.verificationRetry = 0
  BY DEF AttemptsFit
<1>6. CASE Retry("proof") \/ Reverify("proof")
  BY <1>2, <1>3, <1>4, <1>6
<1>7. CASE ~Retry("proof") /\ ~Reverify("proof")
  <2>1. d.processRetry + d.verificationRetry = 0
    BY <1>2, <1>3, <1>4, <1>5
  <2> QED
    BY <1>7, <2>1 DEF SteppedIn
<1> QED
  BY <1>6, <1>7

(* Such a move keeps the order among tasks and queries. *)
LEMMA SlackStays ==
  ASSUME ProofInv, Slackens, ProofMoves, ~SteppedIn("proof")'
  PROVE  OneProver'
<1> DEFINE s == book["proof"].status
           s2 == book'["proof"].status
<1>1. PICK t \in Task : TRUE
  BY Jobs
<1>2. StoreTypeOK /\ AttemptsFit(book["proof"]) /\ "proof" \in Job
      /\ book \in [Job -> Contract!Entries] /\ book["proof"] \in Contract!Entries
  BY Jobs DEF ProofInv, CountInv, IInv, StoreTypeOK
<1>3. ~SteppedIn("proof") /\ (Concludes("proof") \/ CreateJob("proof"))
  BY <1>1, <1>2, SteppedInStays DEF ProofMoves
<1>4. OneProver
  BY <1>3 DEF ProofInv
<1>5. \/ s2 = s
      \/ s = "Absent" /\ s2 = "Created"
      \/ s2 = "Failed"
      \/ s \in Contract!Verifiable /\ s2 \in {"Completed", "VerificationTimeout"}
  <2>1. CreateJob("proof") => s = "Absent" /\ s2 = "Created"
    BY <1>2, MovesEntry DEF CreateJob
  <2> QED
    BY <1>3, <2>1 DEF Concludes, Keeps
<1>6. s \in {"Absent", "Created", "VerificationFailed", "LockedForProcessing", "Failed",
             "Completed"} \cup Contract!Verifiable
  BY <1>2, <1>4 DEF OneProver, Contract!Entries, Contract!Verifiable
<1>7. CASE s2 \in {"Absent", "Created", "VerificationFailed"}
  <2>1. Provers = {} /\ Running = {}
    BY <1>4, <1>5, <1>7 DEF OneProver, Contract!Verifiable
  <2>2. Provers' = {} /\ Running' = {}
    BY <2>1 DEF Slackens
  <2> QED
    BY <1>7, <2>2 DEF OneProver, Contract!Verifiable
<1>8. CASE s2 \in {"LockedForProcessing", "Failed"}
  <2>1. /\ AtMostOne(Provers) /\ AtMostOne(Running)
        /\ \A u \in Provers : \/ Running = {}
                              \/ task[u].pc = "finish" /\ Running \subseteq {task[u].query}
    BY <1>4, <1>6 DEF OneProver, AtMostOne
  <2>2. AtMostOne(Provers') /\ AtMostOne(Running')
    BY <2>1 DEF Slackens, AtMostOne
  <2>3. ASSUME NEW u \in Provers'
        PROVE  Running' = {} \/ (task'[u].pc = "finish" /\ Running' \subseteq {task'[u].query})
    <3>1. u \in Provers /\ Running' \subseteq Running
      BY <2>3 DEF Slackens
    <3>2. CASE task[u].pc = "finish" /\ task'[u].pc = "finish"
      BY <2>1, <2>3, <3>1, <3>2 DEF Slackens
    <3>3. CASE task[u].pc # "finish"
      BY <2>1, <3>1, <3>3
    <3> QED
      BY <2>3, <3>2, <3>3 DEF Slackens
  <2> QED
    BY <1>8, <2>2, <2>3 DEF OneProver, Contract!Verifiable
<1>9. CASE s2 \in Contract!Verifiable \cup {"Completed"}
  <2>1. Provers = {} /\ Running \subseteq {external}
    BY <1>4, <1>5, <1>9 DEF OneProver, Contract!Verifiable
  <2>2. Provers' = {} /\ Running' \subseteq {external'}
    BY <2>1 DEF Slackens
  <2> QED
    BY <1>9, <2>2 DEF OneProver, Contract!Verifiable
<1> QED
  BY <1>5, <1>6, <1>7, <1>8, <1>9 DEF Contract!Verifiable

(* What a task that rejects has seen stays true. *)
LEMMA RefusedStep ==
  ASSUME ProofInv, NoneStarts(queries, queries'), NEW t \in Task, NEW r,
         task' = [task EXCEPT ![t] = r],
         Refused(t, r, queries', current'["proof"], external'),
         \A u \in Task \ {t} :
             u \in current'["proof"] => u \in current["proof"] /\ external' = external
  PROVE  AllRefused'
<1>1. task \in [Task -> Tasks]
  BY DEF ProofInv, CountInv, IInv
<1> SUFFICES ASSUME NEW u \in Task
             PROVE  Refused(u, task'[u], queries', current'["proof"], external')
  BY DEF AllRefused
<1>2. CASE u = t
  BY <1>1, <1>2
<1>3. CASE u # t
  <2>1. task'[u] = task[u] /\ Refused(u, task[u], queries, current["proof"], external)
    BY <1>1, <1>3 DEF ProofInv, AllRefused
  <2> QED
    BY <1>3, <2>1 DEF Refused, NoneStarts
<1> QED
  BY <1>2, <1>3

(* Only steps that ask the prover lead to a rejection. *)
LEMMA NotRefused ==
  ASSUME NEW t, NEW r, r.pc # "reject", NEW Q, NEW C, NEW e
  PROVE  Refused(t, r, Q, C, e)
  BY DEF Refused

(* A task that goes on takes no proof further than another one, unless it proves. *)
LEMMA SlackStep ==
  ASSUME task \in [Task -> Tasks], NEW t \in Task, NEW r, task' = [task EXCEPT ![t] = r],
         \/ r.job # "proof"
         \/ r.pc \notin ProofSteps \cup {"finish"}
         \/ /\ r.pc \in ProofSteps /\ task[t].pc \in ProofSteps /\ task[t].job = "proof"
            /\ r.query = task[t].query
         \/ r.pc = task[t].pc /\ r.job = task[t].job /\ r.query = task[t].query
  PROVE  \A u \in Provers' : /\ u \in Provers
                             /\ task'[u].pc = "finish" <=> task[u].pc = "finish"
                             /\ task'[u].query = task[u].query
<1> SUFFICES ASSUME NEW u \in Task,
                    task'[u].job = "proof" /\ task'[u].pc \in ProofSteps \cup {"finish"}
             PROVE  /\ task[u].job = "proof" /\ task[u].pc \in ProofSteps \cup {"finish"}
                    /\ task'[u].pc = "finish" <=> task[u].pc = "finish"
                    /\ task'[u].query = task[u].query
  BY DEF Provers
<1>1. CASE u = t
  <2>1. task'[u] = r
    BY <1>1
  <2>2. "finish" \notin ProofSteps
    BY DEF ProofSteps
  <2> QED
    BY <1>1, <2>1, <2>2
<1>2. CASE u # t
  <2>1. task'[u] = task[u]
    BY <1>2
  <2> QED
    BY <2>1
<1> QED
  BY <1>1, <1>2

(* With the queries as they were, or some of them at their end, none starts. *)
LEMMA QueriesSettle ==
  ASSUME queries \in Seq({"running", "done", "failed"}),
         \/ queries' = queries
         \/ \E q \in Query, s \in {"done", "failed"} : queries' = [queries EXCEPT ![q] = s]
  PROVE  NoneStarts(queries, queries') /\ Running' \subseteq Running
  BY DEF NoneStarts, Running, Query

(* Steps that leave the store alone and ask the prover for nothing. *)
LEMMA OthersProve ==
  ASSUME ProofInv, CountInv', NEW t \in Task,
         \/ RunSnos(t) \/ SubmitData(t) \/ GetPie(t) \/ AskProver(t) \/ IsValid(t)
         \/ NoQuery(t) \/ Send(t) \/ Outdated(t)
         \/ ProcessCallFails(t) \/ HandlerErrs(t) \/ Expire(t) \/ Crash(t)
         \/ Register \/ \E q \in Query : Prove(q) \/ ProofFails(q)
  PROVE  ProofInv'
<1> DEFINE r == task[t]
           C == current["proof"]
<1>1. book' = book /\ current' = current /\ external' = external
  BY DEF RunSnos, SubmitData, PutFile, GetPie, AskProver, IsValid, NoQuery, Send, Outdated,
         ProcessCallFails, HandlerErrs, Expire, Crash, Register, Prove, ProofFails, storeVars,
         docVars
<1>2. NoneStarts(queries, queries') /\ Running' \subseteq Running
  <2>1. queries \in Seq({"running", "done", "failed"})
    BY DEF ProofInv, CountInv, IInv, OutsideTypes
  <2>2. \/ queries' = queries
        \/ \E q \in Query, s \in {"done", "failed"} : queries' = [queries EXCEPT ![q] = s]
    BY DEF RunSnos, SubmitData, PutFile, GetPie, AskProver, IsValid, NoQuery, Send, Outdated,
           ProcessCallFails, HandlerErrs, Expire, Crash, Register, Prove, ProofFails, outside
  <2> QED
    BY <2>1, <2>2, QueriesSettle
<1>3. IInv /\ task \in [Task -> Tasks] /\ r \in Tasks
  BY DEF ProofInv, CountInv, IInv
<1>4. ASSUME NEW q, task' = [task EXCEPT ![t] = q], Refused(t, q, queries', C, external),
             \/ q.job # "proof"
             \/ q.pc \notin ProofSteps \cup {"finish"}
             \/ /\ q.pc \in ProofSteps /\ r.pc \in ProofSteps /\ r.job = "proof"
                /\ q.query = r.query
             \/ q.pc = r.pc /\ q.job = r.job /\ q.query = r.query
      PROVE  AllRefused' /\ Slackens
  <2>1. AllRefused'
    BY <1>1, <1>2, <1>4, RefusedStep
  <2>2. \A u \in Provers' : /\ u \in Provers
                            /\ task'[u].pc = "finish" <=> task[u].pc = "finish"
                            /\ task'[u].query = task[u].query
    BY <1>3, <1>4, SlackStep
  <2> QED
    BY <1>1, <1>2, <2>1, <2>2 DEF Slackens
<1>5. ASSUME NEW p \in Steps, GoTo(t, p), p # "reject", 
             \/ r.job # "proof"
             \/ p \notin ProofSteps \cup {"finish"}
             \/ p \in ProofSteps /\ r.pc \in ProofSteps /\ r.job = "proof"
      PROVE  AllRefused' /\ Slackens
  <2> DEFINE q == [r EXCEPT !.pc = p]
  <2>1. q.pc = p /\ q.job = r.job /\ q.query = r.query /\ task' = [task EXCEPT ![t] = q]
    BY <1>3, <1>5, Moved DEF GoTo
  <2> HIDE DEF q, r
  <2>2. Refused(t, q, queries', C, external)
    BY <1>5, <2>1, NotRefused
  <2> QED
    BY <1>4, <1>5, <2>1, <2>2
<1>6. ASSUME GoTo(t, "reject"), r.query \in Query, queries[r.query] # "running",
             t \in C => r.query = external, queries' = queries
      PROVE  AllRefused' /\ Slackens
  <2> DEFINE q == [r EXCEPT !.pc = "reject"]
  <2>1. "reject" \in Steps /\ "reject" \notin ProofSteps \cup {"finish"}
    BY DEF Steps, VerifySteps, ProofSteps
  <2>2. q.pc = "reject" /\ q.job = r.job /\ q.query = r.query /\ task' = [task EXCEPT ![t] = q]
    BY <1>3, <1>6, <2>1, Moved DEF GoTo
  <2> HIDE DEF q, r
  <2>3. Refused(t, q, queries', C, external)
    BY <1>6, <2>2 DEF Refused, Query
  <2> QED
    BY <1>4, <2>1, <2>2, <2>3
<1>7. AllRefused' /\ Slackens
  <2>1. TaskSound(t) /\ HasItsJob(r)
    BY <1>3, OneTask DEF TaskSound, Sound
  <2>2. CASE RunSnos(t) \/ SubmitData(t)
    <3>1. r.job # "proof"
      BY <2>1, <2>2 DEF RunSnos, SubmitData, PutFile, HasItsJob, SnosSteps, DaSteps
    <3>2. \E p \in Steps : GoTo(t, p) /\ p # "reject"
      BY <2>2 DEF RunSnos, SubmitData, PutFile, Steps, SnosSteps, EndSteps
    <3> QED
      BY <1>5, <3>1, <3>2
  <2>3. CASE GetPie(t)
    <3>1. r.job = "proof" /\ r.pc \in ProofSteps
      BY <2>1, <2>3 DEF GetPie, HasItsJob, ProofSteps
    <3>2. GoTo(t, "submit") \/ GoTo(t, "giveUp")
      BY <2>3 DEF GetPie
    <3>3. "submit" \in Steps \cap ProofSteps /\ "giveUp" \in Steps
          /\ "giveUp" \notin ProofSteps \cup {"finish"}
      BY DEF Steps, ProofSteps, EndSteps
    <3> QED
      BY <1>5, <3>1, <3>2, <3>3
  <2>4. CASE ProcessCallFails(t)
    BY <1>5, <2>4 DEF ProcessCallFails, Steps, ProofSteps, EndSteps
  <2>5. CASE AskProver(t)
    <3>1. /\ r.job = "proof" /\ r.query # 0 /\ r.pc = "verify" /\ queries' = queries
          /\ r.query \in Query /\ (t \in C => r.query = external)
      BY <2>1, <2>5 DEF AskProver, TaskSound, Sound, Query, outside
    <3>2. queries[r.query] \in {"running", "done", "failed"}
      BY <1>3, <3>1 DEF IInv, OutsideTypes, Query
    <3>3. CASE queries[r.query] = "failed"
      <4>1. GoTo(t, "reject")
        BY <2>5, <3>3 DEF AskProver
      <4> QED
        BY <1>6, <3>1, <3>3, <4>1
    <3>4. CASE queries[r.query] \in {"running", "done"}
      <4>1. GoTo(t, "poll") \/ GoTo(t, "isValid")
        BY <2>5, <3>4 DEF AskProver
      <4> QED
        BY <1>5, <4>1 DEF Steps, VerifySteps, ProofSteps
    <3> QED
      BY <3>2, <3>3, <3>4
  <2>6. CASE IsValid(t)
    <3>1. /\ r.query \in Query /\ queries[r.query] = "done" /\ queries' = queries
          /\ t \in C => r.query = external
      BY <2>1, <2>6 DEF IsValid, HasItsJob, TaskSound, Sound, Query, outside
    <3>2. CASE registered
      <4>1. GoTo(t, "accept")
        BY <2>6, <3>2 DEF IsValid
      <4> QED
        BY <1>5, <4>1 DEF Steps, VerifySteps, ProofSteps
    <3>3. CASE ~registered
      <4>1. GoTo(t, "reject")
        BY <2>6, <3>3 DEF IsValid
      <4> QED
        BY <1>6, <3>1, <4>1
    <3> QED
      BY <3>2, <3>3
  <2>7. CASE End(t)
    <3>1. Idle.pc = "idle" /\ "idle" \notin ProofSteps \cup {"finish"}
      BY DEF Idle, ProofSteps
    <3>2. Refused(t, Idle, queries', C, external)
      BY <3>1, NotRefused
    <3> QED
      BY <1>4, <2>7, <3>1, <3>2 DEF End
  <2>8. CASE Expire(t)
    <3> DEFINE q == [r EXCEPT !.msg = "none"]
    <3>1. q.pc = r.pc /\ q.job = r.job /\ q.query = r.query /\ task' = [task EXCEPT ![t] = q]
      BY <1>3, <2>8 DEF Expire, Tasks
    <3>2. Refused(t, r, queries, C, external) /\ queries' = queries
      BY <2>8 DEF ProofInv, AllRefused, Expire, outside
    <3> HIDE DEF q
    <3>3. Refused(t, q, queries', C, external)
      BY <3>1, <3>2 DEF Refused
    <3> QED
      BY <1>4, <3>1, <3>3
  <2>9. CASE Register \/ \E q \in Query : Prove(q) \/ ProofFails(q)
    <3>1. task' = task /\ task' = [task EXCEPT ![t] = r]
      BY <1>3, <2>9 DEF Register, Prove, ProofFails
    <3>2. Refused(t, r, queries', C, external)
      BY <1>2 DEF ProofInv, AllRefused, Refused, NoneStarts
    <3> QED
      BY <1>4, <3>1, <3>2
  <2> QED
    BY <2>2, <2>3, <2>4, <2>5, <2>6, <2>7, <2>8, <2>9
    DEF NoQuery, Send, Outdated, HandlerErrs, Crash
<1>8. ProofMoves
  BY <1>1, <1>3, SettlingMoves, Jobs DEF ProofMoves, IInv
<1> QED
  BY <1>7, <1>8, SlackStays DEF ProofInv

(* An entry is written by a task that proves nothing then, and has rejected if it did. *)
LEMMA WritesProve ==
  ASSUME ProofInv, CountInv', NEW t \in Task, NEW j \in Job,
         OtherStep(t, j) \/ RecordVerified(t, j), j # "proof" \/ ProofMoves,
         queries' = queries, external' = external, NEW r, task' = [task EXCEPT ![t] = r],
         r.pc # "reject", r.job # "proof" \/ r.pc \notin ProofSteps \cup {"finish"}
  PROVE  ProofInv'
<1>1. StoreTypeOK /\ task \in [Task -> Tasks] /\ "proof" \in Job
  BY Jobs DEF ProofInv, CountInv, IInv
<1>2. /\ \A i \in Job : i # j => book'[i] = book[i]
      /\ \A i \in Job : \A u \in Task : u # t /\ u \in current'[i] => u \in current[i]
  BY <1>1, StoreMoves
<1>3. NoneStarts(queries, queries') /\ Running' = Running
  BY DEF NoneStarts, Running, Query
<1>4. AllRefused'
  <2>1. Refused(t, r, queries', current'["proof"], external')
    BY NotRefused
  <2> QED
    BY <1>1, <1>2, <1>3, <2>1, RefusedStep
<1>5. Slackens
  BY <1>1, <1>3, SlackStep DEF Slackens
<1>6. ProofMoves
  BY <1>1, <1>2, SettlingMoves DEF ProofMoves
<1> QED
  BY <1>4, <1>5, <1>6, SlackStays DEF ProofInv

(* Workers, consumers and operators prove nothing. *)
LEMMA OperatorsProve ==
  ASSUME ProofInv, CountInv', NEW j \in Job, Create(j) \/ Consume(j) \/ Operate(j)
  PROVE  ProofInv'
<1>1. StoreTypeOK /\ task \in [Task -> Tasks] /\ "proof" \in Job
  BY Jobs DEF ProofInv, CountInv, IInv
<1>2. PICK t \in Task : TRUE
  BY Jobs
<1>3. task' = task /\ queries' = queries /\ external' = external
  BY DEF Create, Consume, Operate, docVars, outside
<1>4. /\ \A i \in Job : i # j => book'[i] = book[i]
      /\ current'["proof"] \subseteq current["proof"]
  <2>1. OtherStep(t, j)
    BY DEF Create, Consume, Operate, OtherStep
  <2>2. current'["proof"] \subseteq current["proof"]
    BY <1>1
    DEF Create, Consume, Operate, CreateJob, Discard, HandleFailure, Dismiss, Intervene, Retry,
        Reverify, Owned, StoreTypeOK
  <2> QED
    BY <1>1, <2>1, <2>2, StoreMoves
<1>5. AllRefused'
  BY <1>3, <1>4 DEF ProofInv, AllRefused, Refused
<1>6. Slackens
  BY <1>3 DEF Slackens, Provers, Running, Query
<1>7. ProofMoves
  <2>1. j = "proof" => Concludes(j) \/ CreateJob(j) \/ Retry(j) \/ Reverify(j)
    BY <1>1, SettlingMoves
    DEF Create, Consume, Operate, Discard, HandleFailure, Dismiss, Intervene
  <2>2. j # "proof" => Concludes("proof")
    BY <1>1, <1>4, SettlingMoves
  <2> QED
    BY <2>1, <2>2 DEF ProofMoves
<1> QED
  BY <1>5, <1>6, <1>7, SlackStays DEF ProofInv

(* The prover is asked while no query runs, by the only task that proves. *)
LEMMA SubmitProves ==
  ASSUME ProofInv, CountInv', NEW t \in Task, Submit(t) \/ AnswerLost(t)
  PROVE  ProofInv'
<1> DEFINE r == task[t]
           n == Len(queries) + 1
<1>1. /\ IInv /\ task \in [Task -> Tasks] /\ r \in Tasks
      /\ queries \in Seq({"running", "done", "failed"})
  BY DEF ProofInv, CountInv, IInv, OutsideTypes
<1>2. /\ book' = book /\ current' = current /\ external' = external /\ r.pc = "submit"
      /\ queries' = Append(queries, "running")
  BY DEF Submit, AnswerLost, storeVars, docVars
<1>3. r.job = "proof"
  BY <1>1, <1>2, OneTask DEF TaskSound, Sound, HasItsJob, ProofSteps
<1>4. PICK q : /\ task' = [task EXCEPT ![t] = q]
               /\ q.pc = "giveUp" \/ (q.pc = "finish" /\ q.query = n)
  <2>1. CASE Submit(t)
    <3> DEFINE q == [r EXCEPT !.pc = "finish", !.query = n]
    <3>1. task' = [task EXCEPT ![t] = q] /\ q.pc = "finish" /\ q.query = n
      BY <1>1, <2>1 DEF Submit, Tasks
    <3> HIDE DEF q
    <3> QED
      BY <3>1
  <2>2. CASE AnswerLost(t)
    <3> DEFINE q == [r EXCEPT !.pc = "giveUp"]
    <3>1. task' = [task EXCEPT ![t] = q] /\ q.pc = "giveUp"
      BY <1>1, <2>2 DEF AnswerLost, GoTo, Tasks
    <3> HIDE DEF q
    <3> QED
      BY <3>1
  <2> QED
    BY <2>1, <2>2
<1>5. /\ DOMAIN queries = 1 .. Len(queries) /\ DOMAIN queries' = 1 .. n
      /\ n \in Nat /\ n \notin DOMAIN queries
      /\ queries'[n] = "running" /\ \A i \in DOMAIN queries : queries'[i] = queries[i]
  BY <1>1, <1>2, AppendProperties
<1>6. AllRefused'
  <2>1. NoneStarts(queries, queries')
    BY <1>5 DEF NoneStarts
  <2>2. Refused(t, q, queries', current'["proof"], external')
    BY <1>4, NotRefused
  <2> QED
    BY <1>2, <1>4, <2>1, <2>2, RefusedStep
<1>7. ASSUME ~SteppedIn("proof")' PROVE OneProver'
  <2>1. ~SteppedIn("proof") /\ OneProver
    BY <1>2, <1>7 DEF SteppedIn, ProofInv
  <2>2. t \in Provers
    BY <1>2, <1>3 DEF Provers, ProofSteps
  <2>3. /\ book["proof"].status \in {"LockedForProcessing", "Failed"}
        /\ Provers = {t} /\ Running = {}
    <3>1. book["proof"].status \in {"Absent", "Created", "LockedForProcessing",
                "PendingVerification", "Completed", "VerificationTimeout",
                "VerificationFailed", "Failed", "PendingRetry"}
      BY <1>1, Jobs DEF IInv, StoreTypeOK, Contract!Entries
    <3>2. book["proof"].status \in {"LockedForProcessing", "Failed"}
      BY <2>1, <2>2, <3>1 DEF OneProver, Contract!Verifiable
    <3>3. AtMostOne(Provers) /\ (Running = {} \/ task[t].pc = "finish")
      BY <2>1, <2>2, <3>2 DEF OneProver
    <3> QED
      BY <1>2, <2>2, <3>2, <3>3 DEF AtMostOne
  <2>4. Running' = {n}
    BY <1>5, <2>3 DEF Running, Query
  <2>5. Provers' \subseteq {t}
    <3>1. \A u \in Task \ {t} : task'[u] = task[u]
      BY <1>1, <1>4
    <3> QED
      BY <2>3, <3>1 DEF Provers
  <2>6. \A u \in Provers' : task'[u].pc = "finish" /\ task'[u].query = n
    <3>1. task'[t] = q
      BY <1>1, <1>4
    <3>2. \A u \in Provers' : q.pc \in ProofSteps \cup {"finish"}
      BY <2>5, <3>1 DEF Provers
    <3>3. "giveUp" \notin ProofSteps \cup {"finish"}
      BY DEF ProofSteps
    <3> QED
      BY <1>4, <2>5, <3>1, <3>2, <3>3
  <2> QED
    BY <1>2, <2>3, <2>4, <2>5, <2>6 DEF OneProver, AtMostOne, Contract!Verifiable
<1> QED
  BY <1>6, <1>7 DEF ProofInv

(* The proof job is taken up while no task proves and no query runs. *)
LEMMA ClaimProves ==
  ASSUME ProofInv, CountInv', NEW t \in Task, Claim(t, "proof")
  PROVE  ProofInv'
<1>1. /\ IInv /\ StoreTypeOK /\ task \in [Task -> Tasks] /\ "proof" \in Job
      /\ book \in [Job -> Contract!Entries] /\ AttemptsFit(book["proof"])
  BY Jobs DEF ProofInv, CountInv, IInv, StoreTypeOK
<1> DEFINE q == [pc |-> "getPie", job |-> "proof", msg |-> "process", query |-> 0]
<1>2. /\ TakeToProcess(t, "proof") /\ queries' = queries /\ external' = external
      /\ task' = [task EXCEPT ![t] = q]
  BY DEF Claim, Begin, FirstStep, docVars, outside
<1>3. book["proof"].status \in Processable /\ Keeps("proof", "LockedForProcessing")
  BY <1>1, <1>2, MovesEntry DEF TakeToProcess
<1>4. /\ NoneStarts(queries, queries') /\ Running' = Running
      /\ \A u \in Task : u # t /\ u \in current'["proof"] => u \in current["proof"]
  BY <1>1, <1>2, StoreMoves DEF NoneStarts, Running, Query, OtherStep
<1>5. AllRefused'
  <2>1. Refused(t, q, queries', current'["proof"], external')
    BY NotRefused
  <2> HIDE DEF q
  <2> QED
    BY <1>2, <1>4, <2>1, RefusedStep
<1>6. ASSUME ~SteppedIn("proof")' PROVE OneProver'
  <2>1. OneProver
    BY <1>1, <1>2, <1>6, SteppedInStays DEF ProofInv
  <2>2. Provers = {} /\ Running = {}
    BY <1>3, <2>1 DEF OneProver, Processable
  <2>3. Provers' \subseteq {t}
    <3>1. \A u \in Task \ {t} : task'[u] = task[u]
      BY <1>1, <1>2
    <3> QED
      BY <2>2, <3>1 DEF Provers
  <2> QED
    BY <1>3, <1>4, <2>2, <2>3 DEF OneProver, AtMostOne, Keeps, Contract!Verifiable
<1> QED
  BY <1>5, <1>6 DEF ProofInv

(* The query is noted in the job: it is the only one that may run. *)
LEMMA FinishProves ==
  ASSUME ProofInv, CountInv', NEW t \in Task, Finish(t), task[t].job = "proof"
  PROVE  ProofInv'
<1> DEFINE r == task[t]
           q == [r EXCEPT !.pc = "announce"]
<1>1. /\ IInv /\ StoreTypeOK /\ task \in [Task -> Tasks] /\ "proof" \in Job /\ r \in Tasks
      /\ book \in [Job -> Contract!Entries] /\ AttemptsFit(book["proof"])
      /\ current \in [Job -> SUBSET Task]
  BY Jobs DEF ProofInv, CountInv, IInv, StoreTypeOK
<1>2. /\ r.pc = "finish" /\ RecordProcessed(t, "proof") /\ queries' = queries
      /\ external' = r.query /\ task' = [task EXCEPT ![t] = q]
  BY DEF Finish, GoTo, outside
<1>3. book["proof"].status = "LockedForProcessing" /\ book'["proof"].status = "PendingVerification"
  BY <1>1, <1>2, MovesEntry DEF RecordProcessed
<1>4. /\ NoneStarts(queries, queries') /\ Running' = Running
      /\ current'["proof"] = {t}
  BY <1>1, <1>2 DEF NoneStarts, Running, Query, RecordProcessed, Owned
<1>5. q.pc = "announce"
  BY <1>1 DEF Tasks
<1> HIDE DEF q
<1>6. AllRefused'
  <2>1. Refused(t, q, queries', current'["proof"], external')
    BY <1>5, NotRefused
  <2> QED
    BY <1>2, <1>4, <2>1, RefusedStep
<1>7. ASSUME ~SteppedIn("proof")' PROVE OneProver'
  <2>1. OneProver
    BY <1>1, <1>2, <1>7, SteppedInStays DEF ProofInv
  <2>2. t \in Provers
    BY <1>2 DEF Provers
  <2>3. Provers = {t} /\ Running \subseteq {r.query}
    <3>1. AtMostOne(Provers) /\ (Running = {} \/ Running \subseteq {r.query})
      BY <1>3, <2>1, <2>2 DEF OneProver
    <3> QED
      BY <2>2, <3>1 DEF AtMostOne
  <2>4. Provers' = {}
    <3>1. task'[t] = q /\ \A u \in Task \ {t} : task'[u] = task[u]
      BY <1>1, <1>2
    <3>2. "announce" \notin ProofSteps \cup {"finish"}
      BY DEF ProofSteps
    <3> QED
      BY <1>5, <2>3, <3>1, <3>2 DEF Provers
  <2> QED
    BY <1>2, <1>3, <1>4, <2>3, <2>4 DEF OneProver, Contract!Verifiable
<1> QED
  BY <1>6, <1>7 DEF ProofInv

(* The proof is rejected, and may be requested anew: the job's query does not run. *)
LEMMA RejectProves ==
  ASSUME ProofInv, CountInv', NEW t \in Task, Reject(t), task[t].job = "proof",
         RecordRejected(t, "proof"), GoTo(t, "requeue")
  PROVE  ProofInv'
<1> DEFINE r == task[t]
           q == [r EXCEPT !.pc = "requeue"]
<1>1. /\ IInv /\ StoreTypeOK /\ task \in [Task -> Tasks] /\ "proof" \in Job /\ r \in Tasks
      /\ book \in [Job -> Contract!Entries] /\ AttemptsFit(book["proof"])
      /\ current \in [Job -> SUBSET Task]
  BY Jobs DEF ProofInv, CountInv, IInv, StoreTypeOK
<1>2. /\ r.pc = "reject" /\ queries' = queries /\ external' = external
      /\ task' = [task EXCEPT ![t] = q] /\ t \in current["proof"]
  BY DEF Reject, GoTo, outside, docVars, RecordRejected, Fresh
<1>3. /\ book["proof"].status \in Contract!Verifiable
      /\ book'["proof"].status = "VerificationFailed"
  BY <1>1, MovesEntry DEF RecordRejected, Keeps
<1>4. /\ NoneStarts(queries, queries') /\ Running' = Running
      /\ current'["proof"] = {t}
  BY <1>1, <1>2 DEF NoneStarts, Running, Query, RecordRejected, Owned
<1>5. q.pc = "requeue"
  BY <1>1 DEF Tasks
<1> HIDE DEF q
<1>6. AllRefused'
  <2>1. Refused(t, q, queries', current'["proof"], external')
    BY <1>5, NotRefused
  <2> QED
    BY <1>2, <1>4, <2>1, RefusedStep
<1>7. ASSUME ~SteppedIn("proof")' PROVE OneProver'
  <2>1. OneProver
    BY <1>1, <1>7, SteppedInStays DEF ProofInv
  <2>2. Provers = {} /\ Running \subseteq {external}
    BY <1>3, <2>1 DEF OneProver
  <2>3. queries[external] # "running"
    BY <1>2 DEF ProofInv, AllRefused, Refused
  <2>4. Running = {}
    BY <2>2, <2>3 DEF Running
  <2>5. Provers' = {}
    <3>1. task'[t] = q /\ \A u \in Task \ {t} : task'[u] = task[u]
      BY <1>1, <1>2
    <3>2. "requeue" \notin ProofSteps \cup {"finish"}
      BY DEF ProofSteps
    <3> QED
      BY <1>5, <2>2, <3>1, <3>2 DEF Provers
  <2> QED
    BY <1>3, <1>4, <2>4, <2>5 DEF OneProver, Contract!Verifiable
<1> QED
  BY <1>6, <1>7 DEF ProofInv

(* Every step keeps the order among the proofs. *)
LEMMA StepProofInv == ASSUME ProofInv, [Next]_vars PROVE ProofInv'
<1>1. /\ CountInv' /\ IInv /\ StoreTypeOK /\ task \in [Task -> Tasks] /\ "proof" \in Job
  BY StepCountInv, Jobs DEF ProofInv, CountInv, IInv
<1>2. ASSUME NEW t \in Task, Finish(t) \/ GiveUp(t) \/ Accept(t) \/ Reject(t) \/ Poll(t)
      PROVE  ProofInv'
  <2> DEFINE r == task[t]
             j == r.job
  <2>1. j \in Job /\ r \in Tasks /\ queries' = queries
    BY <1>1, <1>2, OneTask DEF Finish, GiveUp, Accept, Reject, Poll, outside
  <2>2. OtherStep(t, j) \/ RecordVerified(t, j)
    BY <1>2 DEF Finish, GiveUp, Accept, Reject, Poll, OtherStep
  <2>3. PICK q : task' = [task EXCEPT ![t] = q] /\ q.pc \in {"idle", "announce", "requeue"}
    <3>1. CASE End(t)
      <4>1. Idle.pc = "idle"
        BY DEF Idle
      <4> QED
        BY <3>1, <4>1 DEF End
    <3>2. ASSUME NEW p \in {"announce", "requeue"}, GoTo(t, p)
          PROVE  \E q : task' = [task EXCEPT ![t] = q] /\ q.pc \in {"idle", "announce", "requeue"}
      <4> DEFINE q == [r EXCEPT !.pc = p]
      <4>1. task' = [task EXCEPT ![t] = q] /\ q.pc = p
        BY <2>1, <3>2 DEF GoTo, Tasks
      <4> HIDE DEF q
      <4> QED
        BY <4>1
    <3> QED
      BY <1>2, <3>1, <3>2 DEF Finish, GiveUp, Accept, Reject, Poll
  <2>4. q.pc # "reject" /\ q.pc \notin ProofSteps \cup {"finish"}
    BY <2>3 DEF ProofSteps
  <2>5. ASSUME j # "proof" \/ ProofMoves, external' = external PROVE ProofInv'
    BY <1>1, <2>1, <2>2, <2>3, <2>4, <2>5, WritesProve
  <2>6. CASE j # "proof"
    <3>1. external' = external
      BY <1>2, <2>6 DEF Finish, GiveUp, Accept, Reject, Poll, docVars
    <3> QED
      BY <2>5, <2>6, <3>1
  <2>7. CASE j = "proof" /\ Finish(t)
    BY <1>1, <2>7, FinishProves
  <2>8. CASE j = "proof" /\ (GiveUp(t) \/ Accept(t) \/ Poll(t))
    <3>1. external' = external
      BY <2>8 DEF GiveUp, Accept, Poll, docVars
    <3>2. ProofMoves
      BY <1>1, <2>8, SettlingMoves
      DEF GiveUp, Accept, Poll, RecordFailed, RecordVerified, RecordPending, RecordTimeout,
          ProofMoves
    <3> QED
      BY <2>5, <3>1, <3>2
  <2>9. CASE j = "proof" /\ Reject(t)
    <3>1. CASE RecordRejected(t, j) /\ GoTo(t, "requeue")
      BY <1>1, <2>9, <3>1, RejectProves
    <3>2. CASE RecordExhausted(t, j)
      <4>1. external' = external
        BY <2>9 DEF Reject, docVars
      <4>2. ProofMoves
        BY <1>1, <2>9, <3>2, SettlingMoves DEF RecordExhausted, RecordFailed, ProofMoves
      <4> QED
        BY <2>5, <4>1, <4>2
    <3> QED
      BY <2>9, <3>1, <3>2 DEF Reject
  <2> QED
    BY <1>2, <2>6, <2>7, <2>8, <2>9
<1>3. ASSUME NEW t \in Task, NEW j \in Job, Claim(t, j) \/ Stamp(t, j), ~Claim(t, "proof")
      PROVE  ProofInv'
  <2>1. OtherStep(t, j) /\ queries' = queries /\ external' = external
    BY <1>3 DEF Claim, Stamp, OtherStep, Begin, outside, docVars
  <2>2. j # "proof" \/ ProofMoves
    BY <1>1, <1>3, SettlingMoves DEF Stamp, TakeToVerify, ProofMoves
  <2>3. PICK p \in Steps, m \in {"process", "verify"} :
            Begin(t, j, p, m) /\ p \notin ProofSteps \cup {"finish", "reject"}
    BY <1>3, Jobs
    DEF Claim, Stamp, FirstStep, Steps, SnosSteps, ProofSteps, DaSteps, VerifySteps
  <2> DEFINE q == [pc |-> p, job |-> j, msg |-> m,
                   query |-> IF m = "verify" /\ j = "proof" THEN external ELSE 0]
  <2>4. q.pc = p /\ task' = [task EXCEPT ![t] = q]
    BY <2>3 DEF Begin
  <2> HIDE DEF q
  <2> QED
    BY <1>1, <2>1, <2>2, <2>3, <2>4, WritesProve
<1>4. CASE UNCHANGED vars
  BY <1>1, <1>4
  DEF vars, storeVars, docVars, outside, ProofInv, AllRefused, OneProver, Provers, Running,
      Query, SteppedIn
<1>5. PICK u \in Task : TRUE
  BY Jobs
<1>6. ASSUME NEW t \in Task, TaskStep(t) \/ Fault(t) PROVE ProofInv'
  BY <1>1, <1>2, <1>6, OthersProve, SubmitProves DEF TaskStep, Fault
<1>7. CASE Register \/ \E q \in Query : Prove(q) \/ ProofFails(q)
  BY <1>1, <1>5, <1>7, OthersProve
<1> QED
  BY <1>1, <1>3, <1>4, <1>6, <1>7, ClaimProves, OperatorsProve DEF Next

(* Where no operator stepped in, the prover works on the block at most once at a time. *)
THEOREM ProofsDoNotOverlap == Spec => []NoDoubleProving
<1>1. Init => ProofInv
  <2>1. ASSUME Init PROVE ProofInv
    <3>1. CountInv
      BY <2>1, InitCountInv
    <3>2. book["proof"].status = "Absent"
      BY <2>1, Jobs DEF Init, StoreInit, Contract!Init, Contract!Missing
    <3>3. /\ Provers = {} /\ Running = {} /\ AllRefused
      BY <2>1 DEF Init, Provers, Running, Query, AllRefused, Refused, Idle, ProofSteps
    <3> QED
      BY <3>1, <3>2, <3>3 DEF ProofInv, OneProver, Contract!Verifiable
  <2> QED
    BY <2>1
<1>2. ProofInv /\ [Next]_vars => ProofInv'
  BY StepProofInv
<1>3. ProofInv => NoDoubleProving
  <2>1. ASSUME ProofInv, ~SteppedIn("proof") PROVE Cardinality(Running) <= 1
    <3>1. AtMostOne(Running)
      <4>1. book["proof"].status \in {"Absent", "Created", "LockedForProcessing",
                "PendingVerification", "Completed", "VerificationTimeout",
                "VerificationFailed", "Failed", "PendingRetry"}
        BY <2>1, Jobs DEF ProofInv, CountInv, IInv, StoreTypeOK, Contract!Entries
      <4> QED
        BY <2>1, <4>1 DEF ProofInv, OneProver, AtMostOne, Contract!Verifiable
    <3>2. Running = {} \/ \E q : Running = {q}
      BY <3>1 DEF AtMostOne
    <3>3. ASSUME NEW S, S = {} \/ \E q : S = {q} PROVE Cardinality(S) = 0 \/ Cardinality(S) = 1
      BY <3>3, FS_EmptySet, FS_Singleton, Zenon
    <3>4. Cardinality(Running) = 0 \/ Cardinality(Running) = 1
      BY <3>2, <3>3
    <3> QED
      BY <3>4
  <2> QED
    BY <2>1 DEF NoDoubleProving, Running
<1> QED
  BY <1>1, <1>2, <1>3, PTL DEF Spec
===============================================================================
