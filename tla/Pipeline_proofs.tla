---------------------------- MODULE Pipeline_proofs ----------------------------
(***************************************************************************)
(* Proofs about Pipeline, for any chain, any configured range, any number  *)
(* of tasks for each worker, any limit on the blocks of a state transition *)
(* and all outcomes and faults, where a theorem does not exclude one.      *)
(*                                                                         *)
(* A run of a worker decides from what it has read, and creates jobs when  *)
(* the collection has moved on.  It may do so because what it relies on    *)
(* stays: jobs are not removed, the blocks of a state transition are not   *)
(* changed, and, without /verify, a completed job is completed for ever.   *)
(***************************************************************************)
EXTENDS Pipeline, FiniteSetTheorems, WellFoundedInduction, TLAPS

-------------------------------------------------------------------------------
(* The inductive invariant *)

\* A completed job stays so; a run of a worker skips no block for a failing call.
Lasting == "verify" \notin Outcomes
Gapless == "call" \notin Faults

JobSet == JobTypes \X Block

\* The blocks with a job of a type, where st is the standing of all jobs.
Having(st, type) == {b \in Block : st[<<type, b>>] # "Absent"}

\* Successive blocks, as many as a state transition may settle.
Segment(T) ==
    /\ T \subseteq Block /\ T # {}
    /\ T = Min(T) .. Max(T)
    /\ Cardinality(T) <= SettleLimit

\* Block n is the last one of a state transition, which is completed.
EndsAt(p, n, st, se) ==
    /\ p \in Having(st, "StateTransition")
    /\ Max(se[p]) = n
    /\ Lasting => st[<<"StateTransition", p>>] = "Completed"

FollowsOne(f, st, se) == f = MinBlock \/ \E p \in Block : EndsAt(p, f - 1, st, se)

\* A run that holds a list of blocks whose jobs it is about to create.
Listed(r) == r.pc \in {"create", "enqueue"}

\* What a task with duty d and record r knows of the standings and settled blocks.
Sound(d, r, st, se) ==
    /\ r \in Runs
    /\ d = "Snos" /\ r.pc = "latest" => r.last \in Block /\ r.last <= MaxBlock
    /\ r.pc = "create" => r.todo # {}
    /\ Listed(r) => r.todo \subseteq MinBlock .. MaxBlock
    /\ r.pc = "enqueue" => r.last \in Block /\ (d = "UpdateState" => r.todo = {})
    /\ Listed(r) /\ d = "Snos" /\ Gapless =>
           \A c \in r.todo : MinBlock .. c \subseteq Having(st, "SnosRun") \cup r.todo
    /\ Listed(r) /\ d \in DOMAIN Source /\ Lasting =>
           \A b \in r.todo : st[<<Source[d], b>>] = "Completed"
    /\ r.pc = "create" /\ d = "UpdateState" =>
           /\ Segment(r.todo) /\ FollowsOne(Min(r.todo), st, se)
           /\ Lasting => \A b \in r.todo : st[<<"DataSubmission", b>>] = "Completed"
    /\ r.pc = "query" /\ d = "UpdateState" /\ r.last # NoBlock =>
           \E p \in Block : EndsAt(p, r.last, st, se)

WorkerSound(w) == Sound(Duty[w], worker[w], standing, settles)

\* The state transitions S with their blocks se: a chain of segments from the first
\* block on; all but the latest have one right after them.
Chain(S, se) ==
    /\ S # {} => MinBlock \in S
    /\ \A s \in S :
           /\ Segment(se[s]) /\ s = Min(se[s])
           /\ s = MinBlock \/ \E p \in S : Max(se[p]) + 1 = s
           /\ Max(se[s]) + 1 \in S \/ \A p \in S : p <= s
    /\ \A s, p \in S : s # p => se[s] \cap se[p] = {}

Types ==
    /\ head \in Block
    /\ standing \in [JobSet -> Jobs!Standings]
    /\ \A type \in JobTypes, b \in Block \ (MinBlock .. MaxBlock) :
           standing[<<type, b>>] = "Absent"
    /\ settles \in [Block -> SUBSET Block]
    /\ tended \subseteq JobSet
    /\ worker \in [Worker -> Runs]

Ordered == Lasting => StageOrder /\ SettledInOrder

IInv ==
    /\ Types
    /\ \A w \in Worker : WorkerSound(w)
    /\ Chain(Settlements, settles)
    /\ Ordered
    /\ Gapless => NoSnosGap

\* Jobs are not removed and, without /verify, stay completed; a state transition
\* keeps its blocks.
Grows(st, st2, se, se2) ==
    /\ \A j \in JobSet : st[j] # "Absent" => st2[j] # "Absent"
    /\ Lasting => \A j \in JobSet : st[j] = "Completed" => st2[j] = "Completed"
    /\ \A p \in Having(st, "StateTransition") : se2[p] = se[p]

-------------------------------------------------------------------------------
(* Sets of blocks *)

(* Blocks are natural numbers, and the constants are as assumed. *)
LEMMA Constants ==
  /\ LastBlock \in Nat /\ Block = 0 .. LastBlock
  /\ MinBlock \in Block /\ MaxBlock \in Block
  /\ NoBlock = LastBlock + 1 /\ NoBlock \notin Block
  /\ SettleLimit \in Nat /\ SettleLimit > 0
  /\ Duty \in [Worker -> Duties]
  BY PipelineAssumption DEF PipelineAssumption, Block, NoBlock

(* What most proofs need of them. *)
LEMMA Numbers == Block \subseteq Nat /\ SettleLimit \in Nat /\ SettleLimit > 0
  BY Constants

(* A set of natural numbers that is not empty has a least element. *)
LEMMA LeastNumber ==
  ASSUME NEW S, S \subseteq Nat, S # {}
  PROVE  \E n \in S : \A m \in S : n <= m
<1> DEFINE R == OpToRel(<, Nat)
<1>1. IsWellFoundedOn(R, Nat)
  BY NatLessThanWellFounded
<1>2. \A m, n \in Nat : m < n => <<m, n>> \in R
  BY DEF OpToRel
<1> HIDE DEF R
<1>3. PICK n \in S : \A m \in S : ~ (<<m, n>> \in R)
  BY <1>1, WFMin
<1>4. \A m \in S : m \in Nat /\ n \in Nat /\ ~ (m < n)
  BY <1>2, <1>3
<1>5. \A m \in S : n <= m
  BY <1>4
<1> QED
  BY <1>5

(* A set of blocks that is not empty has a least block. *)
LEMMA MinOf ==
  ASSUME NEW S, S \subseteq Block, S # {}
  PROVE  Min(S) \in S /\ \A y \in S : Min(S) <= y
<1>1. S \subseteq Nat
  BY Numbers
<1>2. PICK n \in S : \A m \in S : n <= m
  BY <1>1, LeastNumber
<1> QED
  BY <1>2 DEF Min

(* And a greatest one. *)
LEMMA MaxOf ==
  ASSUME NEW S, S \subseteq Block, S # {}
  PROVE  Max(S) \in S /\ \A y \in S : y <= Max(S)
<1> DEFINE Rest == {LastBlock - b : b \in S}
<1>1. Rest \subseteq Nat /\ Rest # {}
  <2>1. \A b \in S : b \in 0 .. LastBlock /\ LastBlock \in Nat
    BY Constants
  <2>2. \A b \in S : LastBlock - b \in Nat
    BY <2>1
  <2> QED
    BY <2>2
<1>2. PICK n \in Rest : \A m \in Rest : n <= m
  BY <1>1, LeastNumber
<1>3. PICK b \in S : n = LastBlock - b
  BY <1>2
<1>4. ASSUME NEW y \in S PROVE b >= y
  <2>1. LastBlock - b <= LastBlock - y
    BY <1>2, <1>3
  <2>2. y \in Nat /\ b \in Nat /\ LastBlock \in Nat
    BY Constants
  <2> QED
    BY <2>1, <2>2
<1>5. Max(S) \in S /\ \A y \in S : Max(S) >= y
  BY <1>3, <1>4 DEF Max
<1>6. \A y \in S : y \in Nat /\ Max(S) \in Nat
  BY <1>5, Numbers
<1> QED
  BY <1>5, <1>6

(* The least block is the only one. *)
LEMMA MinIs ==
  ASSUME NEW S, S \subseteq Block, NEW m \in S, \A y \in S : m <= y
  PROVE  Min(S) = m
<1>1. Min(S) \in S /\ Min(S) <= m
  BY MinOf
<1>2. m <= Min(S) /\ m \in Nat /\ Min(S) \in Nat
  BY <1>1, Numbers
<1> QED
  BY <1>1, <1>2

(* And so is the greatest. *)
LEMMA MaxIs ==
  ASSUME NEW S, S \subseteq Block, NEW m \in S, \A y \in S : y <= m
  PROVE  Max(S) = m
<1>1. Max(S) \in S /\ m <= Max(S)
  BY MaxOf
<1>2. Max(S) <= m /\ m \in Nat /\ Max(S) \in Nat
  BY <1>1, Numbers
<1> QED
  BY <1>1, <1>2

(* find_successive_blocks_in_vector returns a segment that starts with the least   *)
(* block it was given.                                                             *)
LEMMA SuccessiveSegment ==
  ASSUME NEW S, S \subseteq Block, S # {}
  PROVE  /\ Successive(S) \subseteq S
         /\ Segment(Successive(S))
         /\ Min(Successive(S)) = Min(S)
<1> DEFINE T == Successive(S)
           m == Min(S)
<1>1. m \in S /\ \A y \in S : m <= y
  BY MinOf
<1>2. T \subseteq S /\ \A b \in T : m .. b \subseteq S /\ b < m + SettleLimit
  BY DEF Successive
<1>3. m \in Nat /\ m < m + SettleLimit
  <2>1. m \in Nat
    BY <1>1, Numbers
  <2> QED
    BY <2>1, Numbers
<1>4. m \in T
  <2>1. m .. m \subseteq S
    BY <1>1, <1>3
  <2> QED
    BY <1>1, <1>3, <2>1 DEF Successive
<1>5. T \subseteq Block /\ T # {} /\ \A y \in T : m <= y
  BY <1>1, <1>2, <1>4
<1>6. Min(T) = m
  BY <1>4, <1>5, MinIs
<1> DEFINE n == Max(T)
<1>7. n \in T /\ \A y \in T : y <= n
  BY <1>5, MaxOf
<1>8. /\ n \in Nat /\ m .. n \subseteq S /\ n < m + SettleLimit /\ m <= n
  BY <1>2, <1>5, <1>7, Numbers
<1> HIDE DEF n, m
<1>9. ASSUME NEW c \in m .. n PROVE c \in T
  <2>1. c \in Nat /\ c <= n /\ m .. c \subseteq m .. n
    BY <1>3, <1>8
  <2>2. c \in S /\ m .. c \subseteq S /\ c < m + SettleLimit
    BY <1>3, <1>8, <2>1, Numbers
  <2> QED
    BY <2>2 DEF Successive, m
<1>10. T = m .. n
  <2>1. \A y \in T : y \in Nat /\ m <= y /\ y <= n
    BY <1>5, <1>7, Numbers
  <2>2. T \subseteq m .. n
    BY <1>3, <1>8, <2>1
  <2>3. m .. n \subseteq T
    BY <1>9
  <2> QED
    BY <2>2, <2>3
<1>11. Cardinality(m .. n) <= SettleLimit
  <2>1. Cardinality(m .. n) = n - m + 1
    BY <1>3, <1>8, FS_Interval
  <2> QED
    BY <1>3, <1>8, <2>1, Numbers
<1>12. Segment(T)
  <2>1. T = Min(T) .. Max(T)
    BY <1>6, <1>10 DEF n
  <2>2. Cardinality(T) <= SettleLimit
    BY <1>10, <1>11
  <2> QED
    BY <1>5, <2>1, <2>2 DEF Segment
<1> QED
  BY <1>2, <1>6, <1>12 DEF m

-------------------------------------------------------------------------------
(* The collection grows *)

(* create_job adds one job that was not there. *)
LEMMA OpenMove ==
  ASSUME Types, NEW j \in JobSet, Jobs!Open(j)
  PROVE  /\ standing' \in [JobSet -> Jobs!Standings]
         /\ standing[j] = "Absent" /\ standing'[j] = "Open"
         /\ \A i \in JobSet : i # j => standing'[i] = standing[i]
  BY DEF Types, Jobs!Open, Jobs!Pass, Jobs!Standings

(* A job that was created goes on; without /verify it does not leave "Completed". *)
LEMMA ProgressMove ==
  ASSUME Types, NEW j \in JobSet, Jobs!Work(j) \/ Jobs!Operate(j)
  PROVE  /\ standing' \in [JobSet -> Jobs!Standings]
         /\ standing[j] # "Absent" /\ standing'[j] # "Absent"
         /\ Lasting => standing[j] # "Completed"
         /\ \A i \in JobSet : i # j => standing'[i] = standing[i]
  BY DEF Types, Lasting, Jobs!Work, Jobs!Operate, Jobs!Complete, Jobs!Reject, Jobs!Halt, Jobs!Again,
         Jobs!Retry, Jobs!Reverify, Jobs!Pass, Jobs!Standings

(* Pairs of a type and a block are jobs. *)
LEMMA Pairs ==
  ASSUME NEW type \in JobTypes, NEW b \in Block
  PROVE  <<type, b>> \in JobSet
  BY DEF JobSet

(* The four types. *)
LEMMA TypeNames ==
  /\ "SnosRun" \in JobTypes /\ "ProofCreation" \in JobTypes
  /\ "DataSubmission" \in JobTypes /\ "StateTransition" \in JobTypes
  BY DEF JobTypes

(* What Having says of the state. *)
LEMMA HavingNow ==
  \A type : Having(standing, type) = Existing(type) /\ Having(standing', type) = Existing(type)'
  BY DEF Having, Existing

(* Jobs that are there stay there. *)
LEMMA HavingGrows ==
  ASSUME NEW st, NEW st2, NEW se, NEW se2, Grows(st, st2, se, se2), NEW type \in JobTypes
  PROVE  Having(st, type) \subseteq Having(st2, type)
  BY Pairs DEF Having, Grows

(* The end of a state transition stays where it is. *)
LEMMA EndStays ==
  ASSUME NEW st, NEW st2, NEW se, NEW se2, Grows(st, st2, se, se2),
         NEW p \in Block, NEW n, EndsAt(p, n, st, se)
  PROVE  EndsAt(p, n, st2, se2)
<1>1. p \in Having(st2, "StateTransition")
  BY HavingGrows, TypeNames DEF EndsAt
<1>2. se2[p] = se[p]
  BY DEF EndsAt, Grows
<1>3. Lasting => st2[<<"StateTransition", p>>] = "Completed"
  BY Pairs, TypeNames DEF EndsAt, Grows
<1> QED
  BY <1>1, <1>2, <1>3 DEF EndsAt

(* What the workers look for, and what they create. *)
LEMMA SourceTypes ==
  /\ DOMAIN Source = {"Proving", "DataSubmission"}
  /\ Source["Proving"] = "SnosRun" /\ Source["DataSubmission"] = "ProofCreation"
  /\ Target["Snos"] = "SnosRun" /\ Target["Proving"] = "ProofCreation"
  /\ Target["DataSubmission"] = "DataSubmission"
  /\ Target["UpdateState"] = "StateTransition"
  /\ \A w \in Worker : Duty[w] \in Duties /\ Target[Duty[w]] \in JobTypes
  BY Constants, TypeNames DEF Source, Target, Duties

(* What a task knows stays true. *)
LEMMA SoundStays ==
  ASSUME NEW d, NEW r, NEW st, NEW st2, NEW se, NEW se2,
         Sound(d, r, st, se), Grows(st, st2, se, se2)
  PROVE  Sound(d, r, st2, se2)
<1>1. /\ r \in Runs /\ (r.pc = "create" => r.todo # {})
      /\ Listed(r) => r.todo \subseteq MinBlock .. MaxBlock
      /\ r.pc = "enqueue" => r.last \in Block /\ (d = "UpdateState" => r.todo = {})
  BY DEF Sound
<1>2. r.todo \subseteq Block
  BY <1>1 DEF Runs
<1>3. Listed(r) /\ d = "Snos" /\ Gapless =>
          \A c \in r.todo : MinBlock .. c \subseteq Having(st2, "SnosRun") \cup r.todo
  BY HavingGrows, TypeNames DEF Sound
<1>4. Listed(r) /\ d \in DOMAIN Source /\ Lasting =>
          \A b \in r.todo : st2[<<Source[d], b>>] = "Completed"
  BY <1>2, Pairs, TypeNames, SourceTypes DEF Sound, Grows
<1>5. r.pc = "create" /\ d = "UpdateState" /\ Lasting =>
          \A b \in r.todo : st2[<<"DataSubmission", b>>] = "Completed"
  BY <1>2, Pairs, TypeNames DEF Sound, Grows
<1>6. r.pc = "create" /\ d = "UpdateState" =>
          Segment(r.todo) /\ FollowsOne(Min(r.todo), st2, se2)
  BY EndStays DEF Sound, FollowsOne
<1>7. r.pc = "query" /\ d = "UpdateState" /\ r.last # NoBlock =>
          \E p \in Block : EndsAt(p, r.last, st2, se2)
  BY EndStays DEF Sound
<1> QED
  BY <1>1, <1>3, <1>4, <1>5, <1>6, <1>7 DEF Sound

(* A task that is idle, or about to make its first query, knows nothing. *)
LEMMA NothingKnown ==
  ASSUME NEW d, NEW pc \in {"idle", "head", "latest", "query"}, pc = "latest" => d # "Snos",
         NEW st, NEW se
  PROVE  Sound(d, [pc |-> pc, last |-> NoBlock, todo |-> {}], st, se)
<1> DEFINE r == [pc |-> pc, last |-> NoBlock, todo |-> {}]
<1>1. r \in Runs /\ r.pc = pc /\ r.last = NoBlock
  BY DEF Runs
<1> HIDE DEF r
<1>2. Sound(d, r, st, se)
  BY <1>1 DEF Sound, Listed
<1> QED
  BY <1>2 DEF r

-------------------------------------------------------------------------------
(* What a run of a worker learns *)

\* Task w goes on with what it knows of standings st and settled blocks se.
GoesOn(w, st, se) ==
    \E r : Sound(Duty[w], r, st, se) /\ worker' = [worker EXCEPT ![w] = r]

(* A task that is done. *)
LEMMA Returned ==
  ASSUME NEW w, Return(w), NEW st, NEW se
  PROVE  GoesOn(w, st, se)
<1>1. Sound(Duty[w], Idle, st, se)
  BY NothingKnown DEF Idle
<1> QED
  BY <1>1 DEF Return, GoesOn

(* A task that goes on with what is sound. *)
LEMMA Proceeded ==
  ASSUME NEW w, NEW pc, NEW last, NEW todo, NEW st, NEW se,
         Proceed(w, pc, last, todo),
         ~(pc = "create" /\ todo = {}) =>
             Sound(Duty[w], [pc |-> pc, last |-> last, todo |-> todo], st, se)
  PROVE  GoesOn(w, st, se)
<1>1. CASE pc = "create" /\ todo = {}
  <2>1. Return(w)
    BY <1>1 DEF Proceed, Return
  <2> QED
    BY <2>1, Returned
<1>2. CASE ~(pc = "create" /\ todo = {})
  <2>1. worker' = [worker EXCEPT ![w] = [pc |-> pc, last |-> last, todo |-> todo]]
    BY <1>2 DEF Proceed
  <2> QED
    BY <1>2, <2>1 DEF GoesOn
<1> QED
  BY <1>1, <1>2

(* A run starts with the first query of its worker. *)
LEMMA LearnsStartRun ==
  ASSUME NEW w \in Worker, StartRun(w)
  PROVE  GoesOn(w, standing, settles)
<1> DEFINE pc == FirstQuery[Duty[w]]
<1>1. Duty[w] \in Duties
  BY Constants
<1>2. pc \in {"head", "latest", "query"} /\ (pc = "latest" => Duty[w] # "Snos")
  BY <1>1 DEF FirstQuery, Duties
<1>3. Proceed(w, pc, NoBlock, {})
  BY DEF StartRun
<1> HIDE DEF pc
<1>4. Sound(Duty[w], [pc |-> pc, last |-> NoBlock, todo |-> {}], standing, settles)
  BY <1>2, NothingKnown
<1> QED
  BY <1>3, <1>4, Proceeded

(* The chain's latest block, cut to the configured range. *)
LEMMA LearnsReadHead ==
  ASSUME IInv, NEW w \in Worker, ReadHead(w)
  PROVE  GoesOn(w, standing, settles)
<1> DEFINE last == IF head < MaxBlock THEN head ELSE MaxBlock
           r == [pc |-> "latest", last |-> last, todo |-> {}]
<1>1. head \in Block /\ head \in Nat /\ MaxBlock \in Nat /\ MaxBlock \in Block
  BY Constants, Numbers DEF IInv, Types
<1>2. last \in Block /\ last <= MaxBlock
  BY <1>1
<1>3. Proceed(w, "latest", last, {})
  BY DEF ReadHead
<1> HIDE DEF last
<1>4. r \in Runs /\ r.pc = "latest" /\ r.last = last
  BY <1>2 DEF Runs
<1> HIDE DEF r
<1>5. Sound(Duty[w], r, standing, settles)
  BY <1>2, <1>4 DEF Sound, Listed
<1> QED
  BY <1>3, <1>5, Proceeded DEF r

(* The SNOS jobs of a run: below them every block has a job, or gets one. *)
LEMMA LearnsPlanSnos ==
  ASSUME IInv, NEW w \in Worker, PlanSnos(w)
  PROVE  GoesOn(w, standing, settles)
<1> DEFINE last == worker[w].last
           todo == {b \in Block : MinBlock <= b /\ LatestSnos <= b /\ b <= last}
           r == [pc |-> "create", last |-> NoBlock, todo |-> todo]
<1>1. Proceed(w, "create", NoBlock, todo)
  BY DEF PlanSnos
<1>2. last \in Block /\ last <= MaxBlock
  BY DEF IInv, WorkerSound, Sound, PlanSnos
<1>3. MinBlock \in Nat /\ MaxBlock \in Nat /\ last \in Nat
  BY <1>2, Constants, Numbers
<1>4. todo \subseteq Block /\ todo \subseteq MinBlock .. MaxBlock
  <2>1. ASSUME NEW b \in todo PROVE b \in Nat /\ MinBlock <= b /\ b <= MaxBlock
    <3>1. b \in Nat /\ MinBlock <= b /\ b <= last
      BY Numbers
    <3> QED
      BY <1>2, <1>3, <3>1
  <2>2. todo \subseteq Block
    OBVIOUS
  <2>3. \A b \in todo : b \in MinBlock .. MaxBlock
    BY <1>3, <2>1
  <2> QED
    BY <2>2, <2>3
<1>5. ASSUME Gapless, NEW c \in todo, NEW b \in MinBlock .. c, b \notin todo
      PROVE  b \in Existing("SnosRun")
  <2>1. c \in Nat /\ b \in Nat /\ b <= c /\ c <= last /\ MinBlock <= b /\ c \in Block
    <3>1. c \in Block /\ c \in Nat /\ c <= last
      BY Numbers
    <3> QED
      BY <1>3, <3>1
  <2>2. b \in Block
    <3>1. LastBlock \in Nat /\ Block = 0 .. LastBlock
      BY Constants
    <3>2. c <= LastBlock
      BY <2>1, <3>1
    <3> QED
      BY <2>1, <3>1, <3>2
  <2>3. ~(LatestSnos <= b)
    <3>1. b <= last /\ MinBlock <= b
      BY <1>3, <2>1
    <3> QED
      BY <1>5, <2>2, <3>1
  <2>4. Existing("SnosRun") # {} /\ LatestSnos = Max(Existing("SnosRun"))
    BY <2>1, <2>3 DEF LatestSnos
  <2>5. LatestSnos \in Existing("SnosRun") /\ LatestSnos \in Block
    BY <2>4, MaxOf DEF Existing
  <2>6. LatestSnos \in Nat /\ b < LatestSnos
    BY <2>1, <2>3, <2>5, Numbers
  <2>7. b \in MinBlock .. LatestSnos
    BY <1>3, <2>1, <2>6
  <2>8. MinBlock .. LatestSnos \subseteq Existing("SnosRun")
    BY <1>5, <2>5 DEF IInv, NoSnosGap
  <2> QED
    BY <2>7, <2>8
<1> HIDE DEF todo, last
<1>6. Gapless => \A c \in todo : MinBlock .. c \subseteq Having(standing, "SnosRun") \cup todo
  BY <1>5, HavingNow
<1>7. r \in Runs /\ r.pc = "create" /\ r.todo = todo
  BY <1>4 DEF Runs
<1> HIDE DEF r
<1>8. Duty[w] = "Snos" /\ "Snos" \notin DOMAIN Source
  BY SourceTypes DEF PlanSnos
<1>9. todo # {} => Sound(Duty[w], r, standing, settles)
  BY <1>4, <1>6, <1>7, <1>8 DEF Sound, Listed
<1> QED
  BY <1>1, <1>9, Proceeded DEF r

(* The jobs without successor are completed, whichever of them are found. *)
LEMMA FoundAmong ==
  ASSUME NEW jobs, NEW found \in Found(jobs)
  PROVE  found \subseteq jobs
  BY DEF Found

(* A completed job is one of a block of the configured range. *)
LEMMA CompletedInRange ==
  ASSUME Types, NEW type \in JobTypes
  PROVE  CompletedJobs(type) \subseteq Block /\ CompletedJobs(type) \subseteq MinBlock .. MaxBlock
  BY DEF Types, CompletedJobs

LEMMA LearnsPlanSuccessors ==
  ASSUME IInv, NEW w \in Worker, PlanSuccessors(w)
  PROVE  GoesOn(w, standing, settles)
<1> DEFINE d == Duty[w]
<1>1. d \in {"Proving", "DataSubmission"} /\ Source[d] \in JobTypes
  BY SourceTypes, TypeNames DEF PlanSuccessors
<1>2. PICK found \in Found(WithoutSuccessor(Source[d], Target[d])) :
          Proceed(w, "create", NoBlock, found)
  BY DEF PlanSuccessors
<1>3. found \subseteq CompletedJobs(Source[d])
  BY <1>2, FoundAmong DEF WithoutSuccessor
<1>4. found \subseteq Block /\ found \subseteq MinBlock .. MaxBlock
  BY <1>1, <1>3, CompletedInRange DEF IInv
<1>5. \A b \in found : standing[<<Source[d], b>>] = "Completed"
  BY <1>3 DEF CompletedJobs
<1> DEFINE r == [pc |-> "create", last |-> NoBlock, todo |-> found]
<1>6. r \in Runs /\ r.pc = "create" /\ r.todo = found
  BY <1>4 DEF Runs
<1> HIDE DEF r, d
<1>7. found # {} => Sound(d, r, standing, settles)
  BY <1>1, <1>4, <1>5, <1>6 DEF Sound, Listed
<1> QED
  BY <1>2, <1>7, Proceeded DEF r, d

(* The last block of the latest state transition, if that is completed. *)
LEMMA LearnsReadLatest ==
  ASSUME IInv, NEW w \in Worker, ReadLatestSettlement(w)
  PROVE  GoesOn(w, standing, settles)
<1>1. CASE Settlements = {} /\ Proceed(w, "query", NoBlock, {})
  <2>1. Sound(Duty[w], [pc |-> "query", last |-> NoBlock, todo |-> {}], standing, settles)
    BY NothingKnown
  <2> QED
    BY <1>1, <2>1, Proceeded
<1>2. CASE LatestSettlementDone /\ Proceed(w, "query", LastSettled, {})
  <2> DEFINE p == Max(Settlements)
             r == [pc |-> "query", last |-> LastSettled, todo |-> {}]
  <2>1. Settlements \subseteq Block /\ Settlements # {}
    BY <1>2 DEF Settlements, Existing, LatestSettlementDone
  <2>2. p \in Settlements /\ p \in Block
    BY <2>1, MaxOf
  <2>3. Segment(settles[p])
    BY <2>2 DEF IInv, Chain
  <2>4. LastSettled \in Block
    BY <2>3, MaxOf DEF LastSettled, Segment
  <2>5. EndsAt(p, LastSettled, standing, settles)
    BY <1>2, <2>2, HavingNow DEF EndsAt, LastSettled, LatestSettlementDone, Settlements
  <2>6. r \in Runs /\ r.pc = "query" /\ r.last = LastSettled
    BY <2>4 DEF Runs
  <2> HIDE DEF r, p
  <2>7. Sound(Duty[w], r, standing, settles)
    BY <2>2, <2>5, <2>6 DEF Sound, Listed
  <2> QED
    BY <1>2, <2>7, Proceeded DEF r
<1>3. CASE Return(w)
  BY <1>3, Returned
<1> QED
  BY <1>1, <1>2, <1>3 DEF ReadLatestSettlement

(* The blocks of the next state transition: completed, successive, and right after  *)
(* the end of one that was completed when the run looked.                           *)
LEMMA LearnsPlanSettlement ==
  ASSUME IInv, NEW w \in Worker, PlanSettlement(w)
  PROVE  GoesOn(w, standing, settles)
<1> DEFINE last == worker[w].last
<1>1. PICK S \in Candidates(last) :
          IF Continuous(last, S) /\ PathsExist(Successive(S))
          THEN Proceed(w, "create", NoBlock, Successive(S)) ELSE Return(w)
  BY DEF PlanSettlement
<1>2. CASE Return(w)
  BY <1>2, Returned
<1>3. CASE Continuous(last, S) /\ Proceed(w, "create", NoBlock, Successive(S))
  <2>1. S \subseteq CompletedJobs("DataSubmission")
    BY <1>1, FoundAmong DEF Candidates, WithoutSuccessor
  <2>2. S \subseteq Block /\ S \subseteq MinBlock .. MaxBlock /\ S # {}
    BY <1>3, <2>1, CompletedInRange, TypeNames DEF IInv, Continuous
  <2> DEFINE T == Successive(S)
             r == [pc |-> "create", last |-> NoBlock, todo |-> T]
  <2>3. T \subseteq S /\ Segment(T) /\ Min(T) = Min(S)
    BY <2>2, SuccessiveSegment
  <2>4. FollowsOne(Min(T), standing, settles)
    <3>1. CASE last = NoBlock
      BY <1>3, <2>3, <3>1 DEF Continuous, FirstToSettle, FollowsOne
    <3>2. CASE last # NoBlock
      <4>1. PICK p \in Block : EndsAt(p, last, standing, settles)
        BY <3>2 DEF IInv, WorkerSound, Sound, PlanSettlement
      <4>2. Min(T) = last + 1 /\ last \in Block
        BY <1>3, <2>3, <3>2 DEF Continuous, FirstToSettle, IInv, Types, Runs
      <4>3. last \in Nat
        BY <4>2, Numbers
      <4>4. last = Min(T) - 1
        BY <4>2, <4>3
      <4> QED
        BY <4>1, <4>4 DEF FollowsOne
    <3> QED
      BY <3>1, <3>2
  <2>5. \A b \in T : standing[<<"DataSubmission", b>>] = "Completed"
    BY <2>1, <2>3 DEF CompletedJobs
  <2>6. Proceed(w, "create", NoBlock, T)
    BY <1>3
  <2> HIDE DEF T
  <2>7. r \in Runs /\ r.pc = "create" /\ r.todo = T
    BY <2>2, <2>3 DEF Runs
  <2> HIDE DEF r
  <2>8. Duty[w] = "UpdateState" /\ "UpdateState" \notin DOMAIN Source
    BY SourceTypes DEF PlanSettlement
  <2>9. T # {} /\ T \subseteq MinBlock .. MaxBlock
    BY <2>2, <2>3 DEF Segment
  <2>10. Sound(Duty[w], r, standing, settles)
    BY <2>3, <2>4, <2>5, <2>7, <2>8, <2>9 DEF Sound, Listed
  <2> QED
    BY <2>6, <2>10, Proceeded DEF r
<1> QED
  BY <1>1, <1>2, <1>3

-------------------------------------------------------------------------------
(* A run of a worker creates jobs *)

(* The other tasks know what they knew. *)
LEMMA AllSound ==
  ASSUME IInv, NEW w \in Worker, GoesOn(w, standing', settles'),
         Grows(standing, standing', settles, settles')
  PROVE  worker' \in [Worker -> Runs] /\ (\A v \in Worker : WorkerSound(v))'
<1>1. PICK r : Sound(Duty[w], r, standing', settles') /\ worker' = [worker EXCEPT ![w] = r]
  BY DEF GoesOn
<1>2. r \in Runs /\ worker \in [Worker -> Runs]
  BY <1>1 DEF Sound, IInv, Types
<1>3. worker' \in [Worker -> Runs] /\ worker'[w] = r
      /\ \A v \in Worker : v # w => worker'[v] = worker[v]
  BY <1>1, <1>2
<1>4. ASSUME NEW v \in Worker PROVE Sound(Duty[v], worker'[v], standing', settles')
  <2>1. CASE v = w
    BY <1>1, <1>3, <2>1
  <2>2. CASE v # w
    <3>1. Sound(Duty[v], worker[v], standing, settles)
      BY DEF IInv, WorkerSound
    <3>2. Sound(Duty[v], worker[v], standing', settles')
      BY <3>1, SoundStays
    <3> QED
      BY <1>3, <2>2, <3>2
  <2> QED
    BY <2>1, <2>2
<1> QED
  BY <1>3, <1>4 DEF WorkerSound

(* After one job the rest of the list is as good as before. *)
LEMMA NextSound ==
  ASSUME IInv, NEW w \in Worker, NEW b \in Block, NextOf(w, b), NEW st, NEW se,
         Grows(standing, st, settles, se),
         Duty[w] = "Snos" /\ Gapless => b \in Having(st, "SnosRun"),
         NEW pc \in {"create", "enqueue"}, NEW last \in Block \cup {NoBlock},
         pc = "enqueue" => last \in Block,
         Proceed(w, pc, last, worker[w].todo \ {b})
  PROVE  GoesOn(w, st, se)
<1> DEFINE d == Duty[w]
           old == worker[w]
           T == old.todo \ {b}
           r == [pc |-> pc, last |-> last, todo |-> T]
<1>1. Sound(d, old, st, se)
  BY SoundStays DEF IInv, WorkerSound
<1>2. Proceed(w, pc, last, T) /\ old.pc = "create" /\ Listed(old) /\ d # "UpdateState"
  BY DEF NextOf, Listed
<1>3. old.todo \subseteq Block /\ old.todo \subseteq MinBlock .. MaxBlock
  BY <1>1, <1>2 DEF Sound, Runs
<1>4. r \in Runs /\ r.pc = pc /\ r.last = last /\ r.todo = T
  BY <1>3 DEF Runs
<1>5. d = "Snos" /\ Gapless =>
          \A c \in T : MinBlock .. c \subseteq Having(st, "SnosRun") \cup T
  BY <1>1, <1>2 DEF Sound
<1>6. d \in DOMAIN Source /\ Lasting => \A c \in T : st[<<Source[d], c>>] = "Completed"
  BY <1>1, <1>2 DEF Sound
<1>7. T \subseteq MinBlock .. MaxBlock
  BY <1>3
<1> HIDE DEF r, T, old, d
<1>8. (pc = "create" => T # {}) => Sound(d, r, st, se)
  BY <1>2, <1>4, <1>5, <1>6, <1>7 DEF Sound
<1> QED
  BY <1>2, <1>8, Proceeded DEF r, d

(* When the message of a job was sent, or could not be, the rest is as good as before. *)
LEMMA SentSound ==
  ASSUME IInv, NEW w \in Worker, worker[w].pc = "enqueue",
         Proceed(w, "create", NoBlock, worker[w].todo)
  PROVE  GoesOn(w, standing, settles)
<1> DEFINE d == Duty[w]
           old == worker[w]
           T == old.todo
           r == [pc |-> "create", last |-> NoBlock, todo |-> T]
<1>1. Sound(d, old, standing, settles) /\ Listed(old) /\ old.pc = "enqueue"
  BY DEF IInv, WorkerSound, Listed
<1>2. T \subseteq MinBlock .. MaxBlock /\ T \subseteq Block /\ (d = "UpdateState" => T = {})
  BY <1>1 DEF Sound, Runs
<1>3. r \in Runs /\ r.pc = "create" /\ r.todo = T
  BY <1>2 DEF Runs
<1>4. d = "Snos" /\ Gapless =>
          \A c \in T : MinBlock .. c \subseteq Having(standing, "SnosRun") \cup T
  BY <1>1 DEF Sound
<1>5. d \in DOMAIN Source /\ Lasting =>
          \A c \in T : standing[<<Source[d], c>>] = "Completed"
  BY <1>1 DEF Sound
<1>6. Proceed(w, "create", NoBlock, T)
  OBVIOUS
<1> HIDE DEF r, T, old, d
<1>7. T # {} => Sound(d, r, standing, settles)
  BY <1>2, <1>3, <1>4, <1>5 DEF Sound
<1> QED
  BY <1>6, <1>7, Proceeded DEF r, d

(* No stage overtakes the one before it when jobs are new only where that is completed. *)
LEMMA StagesKept ==
  ASSUME Lasting, StageOrder, Grows(standing, standing', settles, settles'),
         \A b \in Block : standing'[<<"ProofCreation", b>>] # "Absent" =>
                              standing[<<"SnosRun", b>>] = "Completed",
         \A b \in Block : standing'[<<"DataSubmission", b>>] # "Absent" =>
                              standing[<<"ProofCreation", b>>] = "Completed",
         \A s \in Settlements' : \/ s \in Settlements
                                \/ \A b \in settles'[s] : standing[<<"DataSubmission", b>>] = "Completed"
  PROVE  StageOrder'
<1> SUFFICES ASSUME NEW b \in Block
             PROVE  /\ standing'[<<"ProofCreation", b>>] # "Absent" =>
                            standing'[<<"SnosRun", b>>] = "Completed"
                    /\ standing'[<<"DataSubmission", b>>] # "Absent" =>
                            standing'[<<"ProofCreation", b>>] = "Completed"
                    /\ \A s \in Settlements' : b \in settles'[s] =>
                            standing'[<<"DataSubmission", b>>] = "Completed"
  BY DEF StageOrder
<1>1. \A type \in JobTypes : standing[<<type, b>>] = "Completed" =>
                                 standing'[<<type, b>>] = "Completed"
  BY Pairs DEF Grows
<1>2. standing'[<<"ProofCreation", b>>] # "Absent" => standing'[<<"SnosRun", b>>] = "Completed"
  BY <1>1, TypeNames DEF StageOrder
<1>3. standing'[<<"DataSubmission", b>>] # "Absent" =>
          standing'[<<"ProofCreation", b>>] = "Completed"
  BY <1>1, TypeNames DEF StageOrder
<1>4. ASSUME NEW s \in Settlements', b \in settles'[s]
      PROVE  standing'[<<"DataSubmission", b>>] = "Completed"
  <2>1. CASE s \in Settlements
    <3>1. settles'[s] = settles[s]
      BY <2>1, HavingNow DEF Grows, Settlements
    <3>2. standing[<<"DataSubmission", b>>] = "Completed"
      BY <1>4, <2>1, <3>1 DEF StageOrder
    <3> QED
      BY <1>1, <3>2, TypeNames
  <2>2. CASE \A c \in settles'[s] : standing[<<"DataSubmission", c>>] = "Completed"
    BY <1>1, <1>4, <2>2, TypeNames
  <2> QED
    BY <2>1, <2>2
<1> QED
  BY <1>2, <1>3, <1>4

(* A worker other than the one for state updates creates a job. *)
LEMMA CreateKeeps ==
  ASSUME IInv, NEW w \in Worker, NEW b \in Block, CreateJob(w, b)
  PROVE  IInv'
<1> DEFINE type == Target[Duty[w]]
           j == <<type, b>>
<1>1. /\ NextOf(w, b) /\ Jobs!Open(j) /\ head' = head /\ settles' = settles /\ Types
      /\ tended' = tended /\ Proceed(w, "enqueue", b, worker[w].todo \ {b})
  BY DEF CreateJob, IInv
<1>2. /\ Duty[w] \in {"Snos", "Proving", "DataSubmission"}
      /\ type \in {"SnosRun", "ProofCreation", "DataSubmission"} /\ type \in JobTypes
      /\ j \in JobSet
  <2>1. Duty[w] \in Duties /\ Duty[w] # "UpdateState"
    BY <1>1, SourceTypes DEF NextOf
  <2> QED
    BY <2>1, SourceTypes, TypeNames, Pairs DEF Duties
<1>3. /\ standing' \in [JobSet -> Jobs!Standings]
      /\ standing[j] = "Absent" /\ standing'[j] = "Open"
      /\ \A i \in JobSet : i # j => standing'[i] = standing[i]
  BY <1>1, <1>2, OpenMove
<1>4. Grows(standing, standing', settles, settles')
  BY <1>1, <1>3 DEF Grows
<1>5. /\ worker[w].pc = "create" /\ b \in worker[w].todo /\ b \in MinBlock .. MaxBlock
      /\ Duty[w] = "Snos" => b = Min(worker[w].todo)
      /\ Sound(Duty[w], worker[w], standing, settles)
      /\ worker[w].todo \subseteq Block
  BY <1>1 DEF NextOf, IInv, WorkerSound, Sound, Runs, Listed
<1>6. b \in Having(standing', type)
  BY <1>3 DEF Having
<1>7. worker' \in [Worker -> Runs] /\ (\A v \in Worker : WorkerSound(v))'
  <2>1. GoesOn(w, standing', settles')
    BY <1>1, <1>4, <1>6, SourceTypes, NextSound
  <2> QED
    BY <1>4, <2>1, AllSound
<1>8. Types'
  <2>1. \A t \in JobTypes, c \in Block \ (MinBlock .. MaxBlock) : standing'[<<t, c>>] = "Absent"
    <3> SUFFICES ASSUME NEW t \in JobTypes, NEW c \in Block \ (MinBlock .. MaxBlock)
                 PROVE  standing'[<<t, c>>] = "Absent"
      OBVIOUS
    <3>1. <<t, c>> \in JobSet /\ <<t, c>> # j
      BY <1>5, Pairs
    <3> QED
      BY <1>1, <1>3, <3>1 DEF Types
  <2> QED
    BY <1>1, <1>3, <1>7, <2>1 DEF Types
<1>9. \A t \in JobTypes : \A c \in Block : t # type => standing'[<<t, c>>] = standing[<<t, c>>]
  BY <1>3, Pairs
<1>10. Settlements' = Settlements
  BY <1>2, <1>9, TypeNames DEF Settlements, Existing
<1>11. Chain(Settlements, settles)'
  BY <1>1, <1>10 DEF IInv, Chain
<1>12. ASSUME Lasting PROVE StageOrder'
  <2>1. \A c \in Block : standing'[<<"ProofCreation", c>>] # "Absent" =>
            standing[<<"SnosRun", c>>] = "Completed"
    <3> SUFFICES ASSUME NEW c \in Block, standing'[<<"ProofCreation", c>>] # "Absent"
                 PROVE  standing[<<"SnosRun", c>>] = "Completed"
      OBVIOUS
    <3>1. CASE standing[<<"ProofCreation", c>>] # "Absent"
      BY <1>12, <3>1 DEF IInv, Ordered, StageOrder
    <3>2. CASE standing[<<"ProofCreation", c>>] = "Absent"
      <4>1. <<"ProofCreation", c>> = j
        BY <1>3, <3>2, Pairs, TypeNames
      <4>2. Duty[w] = "Proving" /\ c = b
        BY <1>2, <4>1, SourceTypes
      <4> QED
        BY <1>5, <1>12, <4>2, SourceTypes DEF Sound, Listed
    <3> QED
      BY <3>1, <3>2
  <2>2. \A c \in Block : standing'[<<"DataSubmission", c>>] # "Absent" =>
            standing[<<"ProofCreation", c>>] = "Completed"
    <3> SUFFICES ASSUME NEW c \in Block, standing'[<<"DataSubmission", c>>] # "Absent"
                 PROVE  standing[<<"ProofCreation", c>>] = "Completed"
      OBVIOUS
    <3>1. CASE standing[<<"DataSubmission", c>>] # "Absent"
      BY <1>12, <3>1 DEF IInv, Ordered, StageOrder
    <3>2. CASE standing[<<"DataSubmission", c>>] = "Absent"
      <4>1. <<"DataSubmission", c>> = j
        BY <1>3, <3>2, Pairs, TypeNames
      <4>2. Duty[w] = "DataSubmission" /\ c = b
        BY <1>2, <4>1, SourceTypes
      <4> QED
        BY <1>5, <1>12, <4>2, SourceTypes DEF Sound, Listed
    <3> QED
      BY <3>1, <3>2
  <2>3. StageOrder
    BY <1>12 DEF IInv, Ordered
  <2> QED
    BY <1>4, <1>10, <1>12, <2>1, <2>2, <2>3, StagesKept
<1>13. ASSUME Lasting PROVE SettledInOrder'
  <2>1. \A p \in Settlements : standing'[<<"StateTransition", p>>] = standing[<<"StateTransition", p>>]
    BY <1>2, <1>9, TypeNames DEF Settlements, Existing
  <2> QED
    BY <1>10, <1>13, <2>1 DEF IInv, Ordered, SettledInOrder
<1>14. ASSUME Gapless PROVE NoSnosGap'
  <2>1. CASE type # "SnosRun"
    <3>1. Existing("SnosRun")' = Existing("SnosRun")
      BY <1>9, <2>1, TypeNames DEF Existing
    <3> QED
      BY <1>14, <3>1 DEF IInv, NoSnosGap
  <2>2. CASE type = "SnosRun"
    <3>1. Duty[w] = "Snos"
      BY <1>2, <2>2, SourceTypes
    <3>2. MinBlock .. b \subseteq Existing("SnosRun") \cup worker[w].todo
      BY <1>5, <1>14, <3>1, HavingNow DEF Sound, Listed
    <3>3. \A c \in worker[w].todo : b <= c
      BY <1>5, <3>1, MinOf
    <3>4. Existing("SnosRun")' = Existing("SnosRun") \cup {b}
      BY <1>3, <2>2, Pairs, TypeNames DEF Existing
    <3>5. ASSUME NEW c \in MinBlock .. b, c \notin Existing("SnosRun") PROVE c = b
      <4>1. c \in worker[w].todo
        BY <3>2, <3>5
      <4>2. b <= c /\ c \in Nat /\ b \in Nat
        BY <1>5, <3>3, <4>1, Numbers
      <4>3. c <= b
        BY <4>2, Constants, Numbers
      <4> QED
        BY <4>2, <4>3
    <3>6. MinBlock .. b \subseteq Existing("SnosRun")'
      BY <3>4, <3>5
    <3> QED
      BY <1>14, <3>4, <3>6 DEF IInv, NoSnosGap
  <2> QED
    BY <2>1, <2>2
<1> QED
  BY <1>7, <1>8, <1>11, <1>12, <1>13, <1>14 DEF IInv, Ordered

-------------------------------------------------------------------------------
(* A state transition is created *)

(* The bounds of a segment are blocks of it. *)
LEMMA SegmentBounds ==
  ASSUME NEW T, Segment(T)
  PROVE  /\ T \subseteq Block /\ Min(T) \in T /\ Max(T) \in T
         /\ Min(T) \in Nat /\ Max(T) \in Nat
         /\ \A b \in T : b \in Nat /\ Min(T) <= b /\ b <= Max(T)
         /\ \A b \in Nat : Min(T) <= b /\ b <= Max(T) => b \in T
<1>1. T \subseteq Block /\ T # {} /\ T = Min(T) .. Max(T)
  BY DEF Segment
<1>2. Min(T) \in T /\ Max(T) \in T
  BY <1>1, MinOf, MaxOf
<1>3. \A b \in T : b \in Nat
  BY <1>1, Numbers
<1> DEFINE m == Min(T)
           n == Max(T)
<1>4. m \in Nat /\ n \in Nat /\ T = m .. n
  BY <1>1, <1>2, <1>3
<1> HIDE DEF m, n
<1>5. (\A b \in T : m <= b /\ b <= n) /\ \A b \in Nat : m <= b /\ b <= n => b \in T
  BY <1>4
<1> QED
  BY <1>1, <1>2, <1>3, <1>4, <1>5 DEF m, n

(* Two segments that are disjoint lie one after the other. *)
LEMMA SegmentsApart ==
  ASSUME NEW T, NEW U, Segment(T), Segment(U), T \cap U = {}, Min(T) <= Min(U)
  PROVE  Max(T) < Min(U)
<1>1. Min(U) \in U /\ Min(U) \in Nat
  BY SegmentBounds
<1>2. Min(U) \notin T
  BY <1>1
<1>3. Max(T) \in Nat /\ ~(Min(U) <= Max(T))
  BY <1>1, <1>2, SegmentBounds
<1> QED
  BY <1>1, <1>3

(* A segment right after an end of the chain comes after all of it and makes it longer. *)
LEMMA ChainAppends ==
  ASSUME NEW S, S \subseteq Block, NEW se \in [Block -> SUBSET Block], Chain(S, se),
         NEW T, Segment(T), NEW f \in Block, f = Min(T), f \notin S,
         f = MinBlock \/ \E p \in S : Max(se[p]) + 1 = f
  PROVE  /\ Chain(S \cup {f}, [se EXCEPT ![f] = T])
         /\ \A s \in S : s < f
         /\ \A p \in S : Max(se[p]) + 1 = f => \A s \in S : s <= p
<1> DEFINE se2 == [se EXCEPT ![f] = T]
           S2 == S \cup {f}
<1>1. \A s \in S : Segment(se[s]) /\ s = Min(se[s]) /\ s \in Nat /\ Max(se[s]) \in Nat
                   /\ s <= Max(se[s])
  <2> SUFFICES ASSUME NEW s \in S
               PROVE  /\ Segment(se[s]) /\ s = Min(se[s])
                      /\ s \in Nat /\ Max(se[s]) \in Nat /\ s <= Max(se[s])
    OBVIOUS
  <2>1. Segment(se[s]) /\ s = Min(se[s])
    BY DEF Chain
  <2> QED
    BY <2>1, SegmentBounds
<1>2. f \in T /\ f \in Nat /\ \A b \in T : b \in Nat /\ f <= b
  BY SegmentBounds
<1>3. ASSUME NEW p \in S, Max(se[p]) + 1 = f PROVE \A s \in S : s <= p
  BY <1>3 DEF Chain
<1>4. ASSUME NEW s \in S PROVE Max(se[s]) < f
  <2>1. PICK p \in S : Max(se[p]) + 1 = f
    BY <1>4 DEF Chain
  <2>2. s <= p
    BY <1>3, <2>1
  <2>3. CASE s = p
    BY <1>1, <1>2, <2>1, <2>3
  <2>4. CASE s # p
    <3>1. se[s] \cap se[p] = {}
      BY <2>4 DEF Chain
    <3>2. Max(se[s]) < p
      BY <1>1, <2>2, <3>1, SegmentsApart
    <3>3. p < f
      BY <1>1, <1>2, <2>1
    <3> QED
      BY <1>1, <1>2, <3>2, <3>3
  <2> QED
    BY <2>3, <2>4
<1>5. \A s \in S : s < f
  BY <1>1, <1>2, <1>4
<1>6. se2[f] = T /\ \A s \in S : se2[s] = se[s] /\ s # f
  OBVIOUS
<1> HIDE DEF se2
<1>7. ASSUME NEW s \in S PROVE se[s] \cap T = {}
  <2> SUFFICES ASSUME NEW b \in se[s], b \in T PROVE FALSE
    OBVIOUS
  <2>1. b \in Nat /\ b <= Max(se[s]) /\ Max(se[s]) \in Nat
    BY <1>1, SegmentBounds
  <2>2. f <= b /\ f \in Nat /\ Max(se[s]) < f
    BY <1>2, <1>4
  <2> QED
    BY <2>1, <2>2
<1>8. \A s, p \in S2 : s # p => se2[s] \cap se2[p] = {}
  <2> SUFFICES ASSUME NEW s \in S2, NEW p \in S2, s # p
               PROVE  se2[s] \cap se2[p] = {}
    OBVIOUS
  <2>1. CASE s \in S /\ p \in S
    BY <1>6, <2>1 DEF Chain
  <2>2. CASE s = f
    <3>1. p \in S
      BY <2>2
    <3> QED
      BY <1>6, <1>7, <2>2, <3>1
  <2>3. CASE p = f
    <3>1. s \in S
      BY <2>3
    <3> QED
      BY <1>6, <1>7, <2>3, <3>1
  <2> QED
    BY <2>1, <2>2, <2>3
<1>9. MinBlock \in S2
  BY DEF Chain
<1>10. ASSUME NEW s \in S2
       PROVE  /\ Segment(se2[s]) /\ s = Min(se2[s])
              /\ s = MinBlock \/ \E p \in S2 : Max(se2[p]) + 1 = s
              /\ Max(se2[s]) + 1 \in S2 \/ \A p \in S2 : p <= s
  <2>1. CASE s = f
    <3>1. Segment(se2[s]) /\ s = Min(se2[s])
      BY <1>6, <2>1
    <3>2. s = MinBlock \/ \E p \in S2 : Max(se2[p]) + 1 = s
      BY <1>6, <2>1
    <3>3. \A p \in S2 : p <= s
      BY <1>1, <1>2, <1>5, <2>1
    <3> QED
      BY <3>1, <3>2, <3>3
  <2>2. CASE s \in S
    <3>1. Segment(se2[s]) /\ s = Min(se2[s])
      BY <1>1, <1>6, <2>2
    <3>2. s = MinBlock \/ \E p \in S2 : Max(se2[p]) + 1 = s
      <4>1. s = MinBlock \/ \E p \in S : Max(se[p]) + 1 = s
        BY <2>2 DEF Chain
      <4> QED
        BY <1>6, <4>1
    <3>3. Max(se2[s]) + 1 \in S2 \/ \A p \in S2 : p <= s
      <4>1. CASE Max(se[s]) + 1 \in S2
        BY <1>6, <2>2, <4>1
      <4>2. CASE Max(se[s]) + 1 \notin S2
        <5>1. \A p \in S : p <= s
          BY <2>2, <4>2 DEF Chain
        <5>2. S # {} /\ MinBlock \in S
          BY <2>2 DEF Chain
        <5>3. PICK p \in S : Max(se[p]) + 1 = f
          BY <5>2
        <5>4. s <= p /\ p <= s
          BY <1>3, <2>2, <5>1, <5>3
        <5>5. p = s
          BY <1>1, <2>2, <5>4
        <5> QED
          BY <4>2, <5>3, <5>5
      <4> QED
        BY <4>1, <4>2
    <3> QED
      BY <3>1, <3>2, <3>3
  <2> QED
    BY <2>1, <2>2
<1> HIDE DEF S2
<1>11. Chain(S2, se2)
  BY <1>8, <1>9, <1>10 DEF Chain
<1> QED
  BY <1>3, <1>5, <1>11 DEF S2, se2

(* The worker for state updates creates its job. *)
LEMMA SettlementKeeps ==
  ASSUME IInv, NEW w \in Worker, CreateSettlement(w)
  PROVE  IInv'
<1> DEFINE T == worker[w].todo
           f == Min(T)
           j == <<"StateTransition", f>>
<1>1. /\ Duty[w] = "UpdateState" /\ worker[w].pc = "create" /\ Jobs!Open(j)
      /\ settles' = [settles EXCEPT ![f] = T] /\ Proceed(w, "enqueue", f, {})
      /\ head' = head /\ tended' = tended /\ Types
  BY DEF CreateSettlement, IInv
<1>2. /\ Segment(T) /\ FollowsOne(f, standing, settles) /\ T \subseteq MinBlock .. MaxBlock
      /\ Lasting => \A b \in T : standing[<<"DataSubmission", b>>] = "Completed"
  BY <1>1 DEF IInv, WorkerSound, Sound, Listed
<1>3. f \in T /\ f \in Block /\ f \in Nat /\ T \in SUBSET Block
  BY <1>2, SegmentBounds
<1>4. /\ standing' \in [JobSet -> Jobs!Standings] /\ j \in JobSet
      /\ standing[j] = "Absent" /\ standing'[j] = "Open"
      /\ \A i \in JobSet : i # j => standing'[i] = standing[i]
  BY <1>1, <1>3, OpenMove, Pairs, TypeNames
<1> HIDE DEF T, f
<1>5. settles' \in [Block -> SUBSET Block] /\ settles'[f] = T
      /\ \A s \in Block : s # f => settles'[s] = settles[s]
  BY <1>1, <1>3 DEF Types
<1>6. f \notin Settlements /\ Settlements' = Settlements \cup {f} /\ Settlements \subseteq Block
  BY <1>3, <1>4, Pairs, TypeNames DEF Settlements, Existing
<1>7. Grows(standing, standing', settles, settles')
  <2>1. \A p \in Having(standing, "StateTransition") : p \in Block /\ p # f
    BY <1>6, HavingNow DEF Settlements
  <2> QED
    BY <1>4, <1>5, <2>1 DEF Grows
<1>8. worker' \in [Worker -> Runs] /\ (\A v \in Worker : WorkerSound(v))'
  <2> DEFINE r == [pc |-> "enqueue", last |-> f, todo |-> {}]
  <2>1. r \in Runs /\ r.pc = "enqueue" /\ r.last = f /\ r.todo = {}
    BY <1>3 DEF Runs
  <2>2. "UpdateState" \notin DOMAIN Source
    BY SourceTypes
  <2> HIDE DEF r
  <2>3. Sound(Duty[w], r, standing', settles')
    BY <1>1, <1>3, <2>1, <2>2 DEF Sound
  <2>4. GoesOn(w, standing', settles')
    BY <1>1, <2>3, Proceeded DEF r
  <2> QED
    BY <1>7, <2>4, AllSound
<1>9. Types'
  <2>1. \A t \in JobTypes, c \in Block \ (MinBlock .. MaxBlock) : standing'[<<t, c>>] = "Absent"
    <3> SUFFICES ASSUME NEW t \in JobTypes, NEW c \in Block \ (MinBlock .. MaxBlock)
                 PROVE  standing'[<<t, c>>] = "Absent"
      OBVIOUS
    <3>1. <<t, c>> \in JobSet /\ <<t, c>> # j
      BY <1>2, <1>3, Pairs
    <3> QED
      BY <1>1, <1>4, <3>1 DEF Types
  <2> QED
    BY <1>1, <1>4, <1>5, <1>8, <2>1 DEF Types
<1>10. f = MinBlock \/ \E p \in Settlements :
           /\ Max(settles[p]) + 1 = f
           /\ Lasting => standing[<<"StateTransition", p>>] = "Completed"
  <2>1. CASE f = MinBlock
    BY <2>1
  <2>2. CASE f # MinBlock
    <3>1. PICK p \in Block : EndsAt(p, f - 1, standing, settles)
      BY <1>2, <2>2 DEF FollowsOne
    <3>2. p \in Settlements /\ Max(settles[p]) = f - 1
      BY <3>1, HavingNow DEF EndsAt, Settlements
    <3>3. Max(settles[p]) + 1 = f
      BY <1>3, <3>2
    <3> QED
      BY <3>1, <3>2, <3>3 DEF EndsAt
  <2> QED
    BY <2>1, <2>2
<1>11. /\ Chain(Settlements \cup {f}, [settles EXCEPT ![f] = T])
       /\ \A s \in Settlements : s < f
       /\ \A p \in Settlements : Max(settles[p]) + 1 = f => \A s \in Settlements : s <= p
  <2>1. Chain(Settlements, settles) /\ settles \in [Block -> SUBSET Block] /\ f = Min(T)
    BY <1>1 DEF IInv, Types, f
  <2>2. f = MinBlock \/ \E p \in Settlements : Max(settles[p]) + 1 = f
    BY <1>10
  <2> QED
    BY <1>2, <1>3, <1>6, <2>1, <2>2, ChainAppends
<1>12. Chain(Settlements, settles)'
  BY <1>1, <1>6, <1>11
<1>13. ASSUME Lasting PROVE StageOrder'
  <2>1. \A t \in JobTypes : \A c \in Block :
            t # "StateTransition" => standing'[<<t, c>>] = standing[<<t, c>>]
    BY <1>4, Pairs
  <2>2. StageOrder
    BY <1>13 DEF IInv, Ordered
  <2>3. \A b \in Block : standing'[<<"ProofCreation", b>>] # "Absent" =>
                            standing[<<"SnosRun", b>>] = "Completed"
    BY <2>1, <2>2, TypeNames DEF StageOrder
  <2>4. \A b \in Block : standing'[<<"DataSubmission", b>>] # "Absent" =>
                            standing[<<"ProofCreation", b>>] = "Completed"
    BY <2>1, <2>2, TypeNames DEF StageOrder
  <2>5. \A s \in Settlements' : \/ s \in Settlements
                               \/ \A b \in settles'[s] :
                                      standing[<<"DataSubmission", b>>] = "Completed"
    BY <1>2, <1>5, <1>6, <1>13
  <2> QED
    BY <1>7, <1>13, <2>2, <2>3, <2>4, <2>5, StagesKept
<1>14. ASSUME Lasting PROVE SettledInOrder'
  <2> SUFFICES ASSUME NEW s \in Settlements', NEW p \in Settlements', p < s
               PROVE  standing'[<<"StateTransition", p>>] = "Completed"
    BY DEF SettledInOrder
  <2>1. p \in Settlements
    <3>1. CASE s = f
      BY <1>3, <1>6, <3>1
    <3>2. CASE s \in Settlements
      <4>1. s < f /\ s \in Nat
        BY <1>6, <1>11, <3>2, Numbers
      <4>2. p # f
        BY <1>3, <4>1
      <4> QED
        BY <1>6, <4>2
    <3> QED
      BY <1>6, <3>1, <3>2
  <2>2. standing[<<"StateTransition", p>>] = "Completed"
    <3>1. CASE s \in Settlements
      BY <1>14, <2>1, <3>1 DEF IInv, Ordered, SettledInOrder
    <3>2. CASE s = f
      <4>1. f # MinBlock
        BY <1>6, <2>1 DEF IInv, Chain
      <4>2. PICK q \in Settlements : /\ Max(settles[q]) + 1 = f
                                    /\ standing[<<"StateTransition", q>>] = "Completed"
        BY <1>10, <1>14, <4>1
      <4>3. p <= q /\ p \in Nat /\ q \in Nat
        BY <1>6, <1>11, <2>1, <4>2, Numbers
      <4>4. p = q \/ p < q
        BY <4>3
      <4> QED
        BY <1>14, <2>1, <4>2, <4>4 DEF IInv, Ordered, SettledInOrder
    <3> QED
      BY <1>6, <3>1, <3>2
  <2>3. p \in Block
    BY <1>6, <2>1
  <2> QED
    BY <1>7, <1>14, <2>2, <2>3, Pairs, TypeNames DEF Grows
<1>15. ASSUME Gapless PROVE NoSnosGap'
  <2>1. Existing("SnosRun")' = Existing("SnosRun")
    BY <1>4, Pairs, TypeNames DEF Existing
  <2> QED
    BY <1>15, <2>1 DEF IInv, NoSnosGap
<1> QED
  BY <1>8, <1>9, <1>12, <1>13, <1>14, <1>15 DEF IInv, Ordered

-------------------------------------------------------------------------------
(* Every step *)

(* At first there is no job. *)
LEMMA InitIInv == Init => IInv
<1> SUFFICES ASSUME Init PROVE IInv
  OBVIOUS
<1>1. standing = [j \in JobSet |-> "Absent"]
  BY DEF Init, Jobs!Init, JobSet
<1>2. \A type \in JobTypes : \A b \in Block : standing[<<type, b>>] = "Absent"
  BY <1>1, Pairs
<1>3. Settlements = {} /\ Existing("SnosRun") = {}
  BY <1>2, TypeNames DEF Settlements, Existing
<1>4. Idle \in Runs /\ 0 \in Block
  BY Constants DEF Idle, Runs
<1>5. Types
  BY <1>1, <1>2, <1>4 DEF Types, Init, Jobs!Standings
<1>6. \A w \in Worker : WorkerSound(w)
  <2> SUFFICES ASSUME NEW w \in Worker PROVE WorkerSound(w)
    OBVIOUS
  <2>1. Sound(Duty[w], Idle, standing, settles)
    BY NothingKnown DEF Idle
  <2> QED
    BY <2>1 DEF WorkerSound, Init
<1>7. Chain(Settlements, settles)
  BY <1>3 DEF Chain
<1>8. StageOrder /\ SettledInOrder
  BY <1>2, <1>3, TypeNames DEF StageOrder, SettledInOrder
<1>9. NoSnosGap
  BY <1>3 DEF NoSnosGap
<1> QED
  BY <1>5, <1>6, <1>7, <1>8, <1>9 DEF IInv, Ordered

(* A step that changes no job and gives one task new knowledge. *)
LEMMA QuietKeeps ==
  ASSUME IInv, NEW w \in Worker, GoesOn(w, standing, settles),
         UNCHANGED <<head, standing, settles>>, tended' \subseteq tended \cup JobSet
  PROVE  IInv'
<1>1. head' = head /\ standing' = standing /\ settles' = settles
  OBVIOUS
<1>2. Grows(standing, standing', settles, settles')
  BY <1>1 DEF Grows
<1>3. worker' \in [Worker -> Runs] /\ (\A v \in Worker : WorkerSound(v))'
  BY <1>1, <1>2, AllSound
<1>4. Types'
  BY <1>1, <1>3 DEF IInv, Types
<1>5. Settlements' = Settlements /\ Existing("SnosRun")' = Existing("SnosRun")
  BY <1>1 DEF Settlements, Existing
<1>6. Chain(Settlements, settles)'
  BY <1>1, <1>5 DEF IInv
<1>7. Ordered'
  BY <1>1, <1>5 DEF IInv, Ordered, StageOrder, SettledInOrder
<1>8. Gapless => NoSnosGap'
  BY <1>5 DEF IInv, NoSnosGap
<1> QED
  BY <1>3, <1>4, <1>6, <1>7, <1>8 DEF IInv

(* A job moves on. *)
LEMMA JobKeeps ==
  ASSUME IInv, NEW j \in JobSet, JobStep(j) \/ OperatorStep(j)
  PROVE  IInv'
<1>1. /\ Jobs!Work(j) \/ Jobs!Operate(j)
      /\ head' = head /\ settles' = settles /\ worker' = worker /\ Types
      /\ tended' \subseteq tended \cup JobSet
  BY DEF JobStep, OperatorStep, IInv
<1>2. /\ standing' \in [JobSet -> Jobs!Standings]
      /\ standing[j] # "Absent" /\ standing'[j] # "Absent"
      /\ Lasting => standing[j] # "Completed"
      /\ \A i \in JobSet : i # j => standing'[i] = standing[i]
  BY <1>1, ProgressMove
<1>3. Grows(standing, standing', settles, settles')
  BY <1>1, <1>2 DEF Grows
<1>4. \A i \in JobSet : standing'[i] = "Absent" <=> standing[i] = "Absent"
  BY <1>2
<1>5. \A type \in JobTypes : Existing(type)' = Existing(type)
  BY <1>4, Pairs DEF Existing
<1>6. Settlements' = Settlements /\ Existing("SnosRun")' = Existing("SnosRun")
      /\ Settlements \subseteq Block
  BY <1>5, TypeNames DEF Settlements, Existing
<1>7. (\A v \in Worker : WorkerSound(v))'
  <2> SUFFICES ASSUME NEW v \in Worker PROVE Sound(Duty[v], worker[v], standing', settles')
    BY <1>1 DEF WorkerSound
  <2>1. Sound(Duty[v], worker[v], standing, settles)
    BY DEF IInv, WorkerSound
  <2> QED
    BY <1>3, <2>1, SoundStays
<1>8. Types'
  <2>1. \A type \in JobTypes, b \in Block \ (MinBlock .. MaxBlock) :
            standing'[<<type, b>>] = "Absent"
    BY <1>1, <1>4, Pairs DEF Types
  <2> QED
    BY <1>1, <1>2, <2>1 DEF Types
<1>9. Chain(Settlements, settles)'
  BY <1>1, <1>6 DEF IInv
<1>10. ASSUME Lasting PROVE StageOrder'
  <2>1. StageOrder
    BY <1>10 DEF IInv, Ordered
  <2>2. \A b \in Block : standing'[<<"ProofCreation", b>>] # "Absent" =>
                            standing[<<"SnosRun", b>>] = "Completed"
    BY <1>4, <2>1, Pairs, TypeNames DEF StageOrder
  <2>3. \A b \in Block : standing'[<<"DataSubmission", b>>] # "Absent" =>
                            standing[<<"ProofCreation", b>>] = "Completed"
    BY <1>4, <2>1, Pairs, TypeNames DEF StageOrder
  <2>4. \A s \in Settlements' : s \in Settlements
    BY <1>6
  <2> QED
    BY <1>3, <1>10, <2>1, <2>2, <2>3, <2>4, StagesKept
<1>11. ASSUME Lasting PROVE SettledInOrder'
  BY <1>3, <1>6, <1>11, Pairs, TypeNames DEF IInv, Ordered, SettledInOrder, Grows
<1>12. Gapless => NoSnosGap'
  BY <1>6 DEF IInv, NoSnosGap
<1> QED
  BY <1>1, <1>7, <1>8, <1>9, <1>10, <1>11, <1>12 DEF IInv, Ordered, Types

(* The chain grows, or a job gets a message or loses it. *)
LEMMA SurroundingsKeep ==
  ASSUME IInv, NewBlock \/ \E j \in JobSet : Request(j) \/ Lose(j)
  PROVE  IInv'
<1>1. standing' = standing /\ settles' = settles /\ worker' = worker
  BY DEF NewBlock, Request, Lose
<1>2. head' \in Block /\ tended' \subseteq JobSet
  <2>1. CASE NewBlock
    BY <2>1, Constants DEF NewBlock, IInv, Types
  <2>2. CASE \E j \in JobSet : Request(j) \/ Lose(j)
    BY <2>2 DEF Request, Lose, IInv, Types
  <2> QED
    BY <2>1, <2>2
<1> QED
  BY <1>1, <1>2, ZenonT(30) DEF IInv, Types, WorkerSound, Chain, Ordered, StageOrder, SettledInOrder,
                    NoSnosGap, Settlements, Existing

(* A job that is skipped is there already, or the invariant does not count on it. *)
LEMMA SkipKeeps ==
  ASSUME IInv, NEW w \in Worker, NEW b \in Block, SkipJob(w, b)
  PROVE  IInv'
<1>1. /\ NextOf(w, b) /\ UNCHANGED <<head, standing, settles, tended>>
      /\ Proceed(w, "create", NoBlock, worker[w].todo \ {b})
  BY DEF SkipJob
<1>2. Duty[w] = "Snos" /\ Gapless => b \in Having(standing, "SnosRun")
  BY SourceTypes DEF SkipJob, Gapless, Having
<1>3. Grows(standing, standing, settles, settles)
  BY DEF Grows
<1>4. GoesOn(w, standing, settles)
  BY <1>1, <1>2, <1>3, NextSound
<1> QED
  BY <1>1, <1>4, QuietKeeps

(* Every step of a worker keeps the invariant. *)
LEMMA WorkerKeeps ==
  ASSUME IInv, NEW w \in Worker, WorkerStep(w) \/ Break(w)
  PROVE  IInv'
<1>1. CASE StartRun(w)
  BY <1>1, LearnsStartRun, QuietKeeps DEF StartRun
<1>2. CASE ReadHead(w)
  BY <1>2, LearnsReadHead, QuietKeeps DEF ReadHead
<1>3. CASE PlanSnos(w)
  BY <1>3, LearnsPlanSnos, QuietKeeps DEF PlanSnos
<1>4. CASE PlanSuccessors(w)
  BY <1>4, LearnsPlanSuccessors, QuietKeeps DEF PlanSuccessors
<1>5. ASSUME NEW b \in Block, CreateJob(w, b) PROVE IInv'
  BY <1>5, CreateKeeps
<1>6. ASSUME NEW b \in Block, SkipJob(w, b) PROVE IInv'
  BY <1>6, SkipKeeps
<1>7. CASE ReadLatestSettlement(w)
  BY <1>7, LearnsReadLatest, QuietKeeps DEF ReadLatestSettlement
<1>8. CASE PlanSettlement(w)
  BY <1>8, LearnsPlanSettlement, QuietKeeps DEF PlanSettlement
<1>9. CASE CreateSettlement(w)
  BY <1>9, SettlementKeeps
<1>10. CASE SettlementExists(w)
  BY <1>10, Returned, QuietKeeps DEF SettlementExists
<1>11. CASE Break(w)
  BY <1>11, Returned, QuietKeeps DEF Break
<1>12. CASE Enqueue(w)
  <2>1. <<Target[Duty[w]], worker[w].last>> \in JobSet
    <3>1. worker[w].last \in Block
      BY <1>12 DEF Enqueue, IInv, WorkerSound, Sound
    <3> QED
      BY <3>1, SourceTypes, Pairs
  <2> QED
    BY <1>12, <2>1, SentSound, QuietKeeps DEF Enqueue
<1>13. CASE EnqueueFails(w)
  BY <1>13, SentSound, QuietKeeps DEF EnqueueFails
<1> QED
  BY <1>1, <1>2, <1>3, <1>4, <1>5, <1>6, <1>7, <1>8, <1>9, <1>10, <1>11, <1>12, <1>13
     DEF WorkerStep

(* Every step keeps the invariant. *)
LEMMA NextIInv == IInv /\ [Next]_vars => IInv'
<1> SUFFICES ASSUME IInv, [Next]_vars PROVE IInv'
  OBVIOUS
<1>1. ASSUME NEW w \in Worker, WorkerStep(w) \/ Break(w) PROVE IInv'
  BY <1>1, WorkerKeeps
<1>2. ASSUME NewBlock \/ \E j \in JobSet : Request(j) \/ Lose(j) PROVE IInv'
  BY <1>2, SurroundingsKeep
<1>3. ASSUME NEW j \in JobSet, JobStep(j) \/ OperatorStep(j) PROVE IInv'
  BY <1>3, JobKeeps
<1>4. CASE UNCHANGED vars
  <2>1. /\ head' = head /\ standing' = standing /\ settles' = settles
        /\ tended' = tended /\ worker' = worker
    BY <1>4 DEF vars
  <2> QED
    BY <2>1 DEF IInv, Types, WorkerSound, Chain, Ordered, StageOrder, SettledInOrder,
                NoSnosGap, Settlements, Existing
<1> QED
  BY <1>1, <1>2, <1>3, <1>4 DEF Next, JobSet

(* The invariant always holds. *)
LEMMA Invariance == Spec => []IInv
<1> QED
  BY InitIInv, NextIInv, PTL DEF Spec

-------------------------------------------------------------------------------
(* Theorems *)

\* Types, and no worker ever creates a job outside the configured range of blocks.
THEOREM TypeCorrect == Spec => []TypeOK
<1>1. IInv => TypeOK
  BY DEF IInv, Types, TypeOK, JobSet
<1> QED
  BY <1>1, Invariance, PTL

\* The state transition jobs tile the chain: no block is settled twice and none is left
\* out, for any number of runs of the worker at the same time, any failing calls and
\* any operator.
THEOREM TransitionsTile == Spec => []SettlementsTile
<1>1. IInv => SettlementsTile
  <2> SUFFICES ASSUME IInv PROVE SettlementsTile
    OBVIOUS
  <2>1. \A s \in Settlements : /\ Segment(settles[s]) /\ s = Min(settles[s])
                               /\ s = MinBlock \/ \E p \in Settlements : Max(settles[p]) + 1 = s
    BY DEF IInv, Chain
  <2>2. \A s \in Settlements : settles[s] = s .. Max(settles[s])
                               /\ Cardinality(settles[s]) <= SettleLimit
    BY <2>1 DEF Segment
  <2>3. \A s, p \in Settlements : s # p => settles[s] \cap settles[p] = {}
    BY DEF IInv, Chain
  <2> QED
    BY <2>1, <2>2, <2>3 DEF SettlementsTile
<1> QED
  BY <1>1, Invariance, PTL

\* Without /verify a job of a stage exists only for blocks whose stage before is
\* completed, although every run decides from what it read some time ago.
THEOREM StagesInOrder ==
  ASSUME "verify" \notin Outcomes
  PROVE  Spec => []StageOrder
<1>1. IInv => StageOrder
  BY DEF IInv, Ordered, Lasting
<1> QED
  BY <1>1, Invariance, PTL

\* Without /verify a state transition job exists only when all before it are completed.
THEOREM TransitionsInOrder ==
  ASSUME "verify" \notin Outcomes
  PROVE  Spec => []SettledInOrder
<1>1. IInv => SettledInOrder
  BY DEF IInv, Ordered, Lasting
<1> QED
  BY <1>1, Invariance, PTL

\* Where no call fails the SNOS worker leaves no block out, wherever its runs break off
\* and however many of them there are.
THEOREM NoBlockWithoutSnos ==
  ASSUME "call" \notin Faults
  PROVE  Spec => []NoSnosGap
<1>1. IInv => NoSnosGap
  BY DEF IInv, Gapless
<1> QED
  BY <1>1, Invariance, PTL
===============================================================================
